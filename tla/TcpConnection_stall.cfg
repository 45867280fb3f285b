CONSTANTS
    kMallocUnit = 3
    kBufferSize = 4
    Scripts <- PostScript
    AnswerLen = 2
    SendRoom = 1
    MayExpire = FALSE
    MaxMessages = 1
SPECIFICATION Spec
INVARIANT RequestParsed
CHECK_DEADLOCK FALSE
