\* Two runs of manual by two processes, with two models, two releases and one more index.
SPECIFICATION Spec
CONSTANTS
    Manuals = {p1, p2}
    N = 2
    Contents = {x, y}
    NoHash = NoHash
    Names = {n1, n2}
    Models = {m1, m2}
    MaxIndexes = 1
    MaxChanged = 1
    MaxVersion = 2
    MaxRuns = 2
SYMMETRY Sym
INVARIANTS
    ManualTypeOK
    SummaryFitsModule
    CacheServesAll
    OnlyRivalsBreak
