CONSTANTS
    d1 = d1
    d2 = d2
    junk = junk
    broken = broken
    q = q
    Doc = {d1, d2, junk, broken}
    Junk = {junk, broken}
    Broken = {broken}
    EmptyQuery = EmptyQuery
    NA_STRING = NA_STRING
    Query = {EmptyQuery, q}
    Resolves <- MCResolves
    Calls <- MCCalls
    None = None
SPECIFICATION Spec
INVARIANTS
    TypeOK
    ElementIsCurrent
PROPERTY ImplementsAnswers
