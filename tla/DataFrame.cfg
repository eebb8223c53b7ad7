CONSTANTS
    Key = {k1, k2, k3}
    Docs <- MCDocuments
    Options <- FewOptions
    MaxFields = 3
    MaxFieldsLater = 2
    MIN_HASHED_COLUMNS = 2
SPECIFICATION Spec
INVARIANTS
    TypeOK
    ColumnsInFirstSeenOrder
    RegularMeansSameKeys
    RoutedToItsColumn
    FirstOccurrenceWins
    DoctorsSawTheirColumn
    NothingLostAnythingGoes
PROPERTY ImplementsAtKeyTable
