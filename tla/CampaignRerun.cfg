SPECIFICATION FairSpec
CONSTANTS
    NoCeiling = NoCeiling
    SumsAbove <- MCSumsAbove
    ShareTieUp <- MCTieUp
    DriftTieUp <- MCTieUp
    NoBuy = NoBuy
    NoAccount = NoAccount
    NoResult = NoResult
    Brief <- MCBrief
    Catalogs <- Stable
    Proposals <- NoLLM
    Accounts = {acc1}
    Faults <- GatewayFaults
    ManualApproval = FALSE
    MaxAttempts = 2
    MaxPosts = 2
    MaxRuns = 3
    MaxCrashes = 1
INVARIANTS
    BookedOnce
    BoughtMeansBooked
PROPERTIES
    RunEnds
CHECK_DEADLOCK FALSE
