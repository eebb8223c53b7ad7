CONSTANTS
    Key = {"a", "b"}
    None = None
    Docs <- MCDocs
    Options <- MCOptions
    Few = {"STRING", "NULL_VALUE"}
    FewOptions = {"Integer64"}
SPECIFICATION Spec
INVARIANTS
    TypeOK
    NothingInUseIsCollected
    NothingStaysProtected
    ReturnsItsSimplification
PROPERTIES
    HandedOverComplete
