CONSTANTS
    Arrays <- MCArrays
    Options <- AllOptions
    MaxLength = 2
    FewKinds = {"STRING", "DOUBLE", "INT32", "LLONG_MIN", "BOOL", "NULL_VALUE"}
SPECIFICATION Spec
INVARIANTS
    TypeOK
    MatrixHoldsItsElements
    SameVerdictAsVector
