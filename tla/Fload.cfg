CONSTANTS
    Doc <- MCDoc
    Absent = {"absent"}
    Json <- MCJson
    Empty = {"empty.gz"}
    Extension = {"gz", "json"}
    ext <- MCext
    gzips <- MCgzips
    Calls <- MCCalls
SPECIFICATION Spec
INVARIANTS
    TypeOK
    AnswersAreTheirOwn
    UserFilesStay
    TempFilesRemoved
    TempFilesKept
    OptionsMeanTheSame
