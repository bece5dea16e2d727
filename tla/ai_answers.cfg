\* Every command, every retrieval or set of facts, every reply with at most two fields in
\* another form than asked.
SPECIFICATION Spec
CONSTANTS
    Retrievals <- AnyRetrieval
    ImpactFacts <- AnyFacts
    Existing <- IndexedPaths
    Proposals <- ProposedPaths
    Citations <- AnyCitations
    MaxMisshapen = 2
INVARIANTS
    AnswersTypeOK
    OneIdPerEntity
    NothingInvented
    VerdictTellsOfDropped
    ConfidenceIsEarned
    MisshapenLeavesNothing
