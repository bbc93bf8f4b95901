SPECIFICATION FairSpec
CONSTANTS
    c1 = c1
    c2 = c2
    plan = plan
    rotated = rotated
    other = other
    Plans = {plan, rotated, other}
    Canon <- MCCanon
    Overrides <- MCOverrides
    KeyPattern <- MCPattern
    NoKey = NoKey
    NoReply = NoReply
    StepFailed = StepFailed
    NoBuy = NoBuy
    Callers = {c1}
    Requests <- Reissue
    MaxAttempts = 2
    StepTries = 2
    Faults <- AllFaults
    MaxCalls = 2
    MaxCrashes = 1
INVARIANTS
    TypeOK
    SuccessIsOwnBooking
    OneBuyPerPlan
    PostsBounded
PROPERTIES
    SettledStaysSettled
    CallsEnd
    RunsEnd
CHECK_DEADLOCK FALSE
