\* Four overlapping saves of two commits on sqlite, ids reused.
SPECIFICATION Spec
CONSTANTS
    Savers = {s1, s2}
    Checkouts <- OneCheckout
    Commits = {c1, c2, NoCommit}
    NoCommit = NoCommit
    Tables = {files}
    DirtyFlags = {FALSE}
    Sizes = {1, 2}
    Backend = "sqlite"
    MaxSaves = 4
    r1 = r1
    a = a
    b = b
SYMMETRY Sym
INVARIANTS
    TypeOK
    FoundIdKeepsItsKey
    RowsOfOneCommit
PROPERTIES
    ReplacesAtomically
