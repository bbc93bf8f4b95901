SPECIFICATION Spec
CONSTANTS
    NoCeiling = NoCeiling
    SumsAbove <- MCSumsAbove
    ShareTieUp <- MCTieUp
    DriftTieUp <- MCTieUp
    NoBuy = NoBuy
    NoAccount = NoAccount
    NoResult = NoResult
    Brief <- MCBrief
    Catalogs <- Stable
    Proposals <- NoLLM
    Accounts = {acc1}
    Faults <- GatewayFaults
    ManualApproval = FALSE
    MaxAttempts = 2
    MaxPosts = 1
    MaxRuns = 1
    MaxCrashes = 0
INVARIANTS
    DiscoveryOutcomeDecides
CHECK_DEADLOCK FALSE
