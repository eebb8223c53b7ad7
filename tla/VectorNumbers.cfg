CONSTANTS
    Arrays <- MCArrays
    Options <- AllOptions
    MaxLength = 3
SPECIFICATION Spec
INVARIANT NumbersBecomeVectors
