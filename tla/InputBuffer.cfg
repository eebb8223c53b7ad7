CONSTANTS
    Doc <- MCDocs
    Size <- MCSize
    None = None
    SIMDJSON_PADDING = 2
    MAX_RETAINED_CAPACITY = 3
    MaxDepth = 3
    RErrorsJump = TRUE
SPECIFICATION Spec
INVARIANTS
    TypeOK
    CapacityIsAllocated
    DocumentFits
    ReleasedUnlessJumped
