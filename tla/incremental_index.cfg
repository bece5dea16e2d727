\* Edits while indexes and checks run. A bounded number of edits and commands: the system stops.
SPECIFICATION Spec
CHECK_DEADLOCK FALSE
CONSTANTS
    Files = {1}
    Contents <- SmallAndLarge
    MaxFileSize = 1
    SourceRoots = {none, src}
    Versions = {1, 2}
    Procs = {p1, p2}
    MaxEdits = 2
    MaxJobs = 3
    a = a
    b = b
    c = c
    d = d
    none = none
    src = src
SYMMETRY Sym
INVARIANTS
    IndexTypeOK
    ModuleFitsFingerprint
    QuietIndexIsFull
    OneAnalyzerPerRun
    DriftReportIsRight
