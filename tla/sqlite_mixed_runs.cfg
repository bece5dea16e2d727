\* The documented promise that a replaced run is replaced whole.
SPECIFICATION Spec
CONSTANTS
    Savers = {s1, s2}
    Checkouts <- OneCheckout
    Commits = {c1, NoCommit}
    NoCommit = NoCommit
    Tables = {files}
    DirtyFlags = {FALSE}
    Sizes = {1, 2}
    Backend = "sqlite"
    MaxSaves = 3
    r1 = r1
    a = a
    b = b
INVARIANTS
    RunIntact
