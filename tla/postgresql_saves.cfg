\* Three processes index the same commit at once on postgresql.
SPECIFICATION FairSpec
CONSTANTS
    Savers = {s1, s2, s3}
    Checkouts <- TwoCheckouts
    Commits = {c1}
    NoCommit = NoCommit
    Tables = {files}
    DirtyFlags = {FALSE}
    Sizes = {1}
    Backend = "postgresql"
    MaxSaves = 3
    r1 = r1
    a = a
    b = b
INVARIANTS
    FailureNeedsRivals
PROPERTIES
    SaveEnds
