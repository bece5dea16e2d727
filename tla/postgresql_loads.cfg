\* Three saves, of one commit or of a tree without commits, from two working copies on postgresql while a reader loads.
SPECIFICATION LoadSpec
CONSTANTS
    Savers = {s1, s2}
    Readers = {q1}
    Checkouts <- TwoCheckouts
    Commits = {c1, NoCommit}
    NoCommit = NoCommit
    Tables = {files, symbols}
    DirtyFlags = {FALSE}
    Sizes = {1}
    Backend = "postgresql"
    MaxSaves = 3
    r1 = r1
    a = a
    b = b
SYMMETRY Sym
INVARIANTS
    LoadTypeOK
    SnapshotOfOneSave
    RunIntact
    ReferencesResolve
    FallbackIsJustified
PROPERTIES
    ReplacesAtomically
