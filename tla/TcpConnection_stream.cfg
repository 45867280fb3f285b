CONSTANTS
    kMallocUnit = 3
    kBufferSize = 4
    Scripts <- AllScripts
    AnswerLen = 2
    SendRoom = 1
    MayExpire = TRUE
    MaxMessages = 3
SPECIFICATION Spec
INVARIANTS DeliveredIsSent ParsedSoFar NoDataStranded BytesWithinCapacity AnswersAccounted
PROPERTIES AnswersFlushed ImplementsMessageStream
CHECK_DEADLOCK FALSE
