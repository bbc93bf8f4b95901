SPECIFICATION Spec
CONSTANTS
    NoCeiling = NoCeiling
    SumsAbove <- MCSumsAbove
    ShareTieUp <- MCTieUp
    DriftTieUp <- MCTieUp
    NoBuy = NoBuy
    NoAccount = NoAccount
    NoResult = NoResult
    Brief <- MCBrief
    Catalogs <- Stable
    Proposals <- NoLLM
    Accounts = {acc1}
    Faults <- NoFaults
    ManualApproval = TRUE
    MaxAttempts = 2
    MaxPosts = 1
    MaxRuns = 1
    MaxCrashes = 0
INVARIANTS
    BoughtMeansBooked
CHECK_DEADLOCK FALSE
