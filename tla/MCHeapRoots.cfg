CONSTANTS
    None = None
    Objects <- MCObjects
    Pages <- MCPages
    PageOf <- MCPageOf
    Arity <- MCArity
    Packs <- MCPacks
    Width <- MCWidth
    Typed = {"root"}
    SourceSlots = {"frame"}
SPECIFICATION HistorySpec
INVARIANTS
    GarbageReclaimed
PROPERTY ImplementsManagedHeap
CONSTRAINT TwoRoots
