\* Every query over every repository; two files, three symbols and three chains are kept.
SPECIFICATION Spec
CONSTANTS
    MaxNesting = 1
    Entity <- EntitiesLoaded
    Directory <- Directories
    NoDirectory <- Root
    Term <- Terms
    Snapshots <- LoadedSnapshots
    Queries <- QueriesAsked
    TopFiles = 2
    TopSymbols = 3
    MaxChains = 3
    ChainDepth = 2
INVARIANTS
    RetrievalTypeOK
    OneHopFromAMatch
    MatchesYieldToLinksOnly
    ChainsAreTheFlows
