CONSTANTS
    Doc <- MCDoc
    Absent = {"absent"}
    Json <- MCJson
    Empty = {"empty.gz"}
    Extension = {"gz", "json"}
    ext <- MCext
    gzips <- MCgzips
    Calls <- MCDocumented
SPECIFICATION Spec
INVARIANT LoadsAsDocumented
