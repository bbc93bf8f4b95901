SPECIFICATION Spec
CONSTANTS
    NoBuy = NoBuy
    NoSession = NoSession
    NoResponse = NoResponse
    NoReading = NoReading
    Raised = Raised
    Gateway = {"page", "badGateway", "json", "errorJson", "redirect"}
    MaxCalls = 3
    MaxForgets = 1
INVARIANTS
    TypeOK
    SuccessIsDone
    AnswerIsOwn
    OutcomeIsRead
    NoBorrowedSession
PROPERTIES
    RefusedIsDropped
CHECK_DEADLOCK FALSE
