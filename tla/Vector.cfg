CONSTANTS
    Arrays <- MCArrays
    Options <- AllOptions
    MaxLength = 3
SPECIFICATION Spec
INVARIANTS
    TypeOK
    NothingLost
    PoliciesAsDocumented
