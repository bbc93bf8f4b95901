SPECIFICATION Spec
CONSTANTS
    NoCeiling = NoCeiling
    SumsAbove <- MCSumsAbove
    ShareTieUp <- MCTieUp
    DriftTieUp <- MCTieUp
    NoBuy = NoBuy
    NoAccount = NoAccount
    NoResult = NoResult
    Brief <- MCBrief
    Catalogs <- Drifting
    Proposals <- Bold
    Accounts = {acc1}
    Faults <- NoFaults
    ManualApproval = TRUE
    MaxAttempts = 2
    MaxPosts = 1
    MaxRuns = 2
    MaxCrashes = 1
INVARIANTS
    BuysWithinBrief
CHECK_DEADLOCK FALSE
