CONSTANTS
    Key = {k1}
    Docs <- MCKinds
    Options <- AllOptions
    MaxFields = 2
    MaxFieldsLater = 1
    MIN_HASHED_COLUMNS = 16
SPECIFICATION Spec
INVARIANT StrictColumnsKeepTypes
