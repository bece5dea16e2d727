\* Every target in every repository of four modules, two levels deep.
SPECIFICATION RepositorySpec
CONSTANTS
    MaxNesting = 4
    Repositories <- AnyRepository
    SourceRoots <- AnyRoots
    Snapshots <- IndexedSnapshots
    Entity <- IndexedEntities
    MaxDepth = 2
INVARIANTS
    ImpactTypeOK
    NothingLeftOut
    EverythingDepends
    DirectOrIndirect
    TestsAreReported
    CallsAsWritten
    SelfCallsAreInherited
    ReceiversHaveTheirType
    HandlersAreReported
