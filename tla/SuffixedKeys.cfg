SPECIFICATION Spec
CONSTANTS
    c1 = c1
    c2 = c2
    plan = plan
    rotated = rotated
    other = other
    Plans = {plan, rotated, other}
    Canon <- MCCanon
    Overrides <- MCOverrides
    KeyPattern <- MCPattern
    NoKey = NoKey
    NoReply = NoReply
    StepFailed = StepFailed
    NoBuy = NoBuy
    Callers = {c1, c2}
    Requests <- Suffixed
    MaxAttempts = 2
    StepTries = 1
    Faults <- NoFaults
    MaxCalls = 2
    MaxCrashes = 0
INVARIANTS
    DistinctKeysDistinctBuys
CHECK_DEADLOCK FALSE
