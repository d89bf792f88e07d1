CONSTANTS
    None = None
    Objects <- MCObjects
    Pages <- MCPages
    PageOf <- MCPageOf
    Arity <- MCArity
    Packs <- MCPacks
    Width <- MCWidth
    Typed = {}
    SourceSlots = {}
SPECIFICATION Spec
INVARIANTS
    LiveIsOccupied
    PublicationNeverRefused
    NoGrayLost
