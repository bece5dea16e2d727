\* The documented naming of modules by the detected source roots. A bounded number of edits and commands: the system stops.
SPECIFICATION Spec
CHECK_DEADLOCK FALSE
CONSTANTS
    Files = {1}
    Contents <- Small
    MaxFileSize = 1
    SourceRoots = {none, src}
    Versions = {1}
    Procs = {p1}
    MaxEdits = 2
    MaxJobs = 2
    a = a
    b = b
    c = c
    d = d
    none = none
    src = src
INVARIANTS
    NamedByDetectedRoots
