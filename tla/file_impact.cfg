\* The documented promise that impact traces what depends on a file.
SPECIFICATION RepositorySpec
CONSTANTS
    MaxNesting = 4
    Repositories <- AnyRepository
    SourceRoots <- AnyRoots
    Snapshots <- IndexedSnapshots
    Entity <- IndexedEntities
    MaxDepth = 2
INVARIANTS
    FileShowsItsModule
