SPECIFICATION FairSpec
CONSTANTS
    Life <- MCLife
    Polls <- MCPolls
    StepTries = 2
    BuyerDatabase = buyerDb
    SinkDatabase = buyerDb
    NoRecv = NoRecv
    Timeout = Timeout
    NoAnswer = NoAnswer
    Webhooks = {"active", "unread"}
    MaxStarts = 1
    MaxShown = 2
    MaxWebhooks = 2
    MaxCrashes = 2
INVARIANTS
    TypeOK
    SnapshotsCountedOnce
    FollowsTheBuy
    StopsAtFirstLive
    WebhookWakesWaiter
PROPERTIES
    WorkflowsEnd
CHECK_DEADLOCK FALSE
