SPECIFICATION Spec
CONSTANTS
    NoCeiling = NoCeiling
    SumsAbove <- MCSumsAbove
    ShareTieUp <- MCShareTieUp
    DriftTieUp <- MCDriftTieUp
    BriefBudgets = {50, 75, 290, 6600}
    Minimums = {0, 120, 150}
    Products = 3
    Briefs <- MCBriefs
    Catalogs <- MCCatalogs
INVARIANTS
    SpendsBudgetAboveMinimums
    KeepsMostPackages
    GuardOnlyCorrects
CHECK_DEADLOCK FALSE
