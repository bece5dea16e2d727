\* The documented promise that a cached summary is of the analyzer's present output.
SPECIFICATION Spec
CONSTANTS
    Manuals = {p1, p2}
    N = 2
    Contents = {x, y}
    NoHash = NoHash
    Names = {n1, n2}
    Models = {m1, m2}
    MaxIndexes = 1
    MaxChanged = 1
    MaxVersion = 2
    MaxRuns = 2
SYMMETRY Sym
INVARIANTS
    SummaryOfIndexedFacts
