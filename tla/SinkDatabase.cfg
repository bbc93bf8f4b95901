SPECIFICATION Spec
CONSTANTS
    Life <- MCLife
    Polls <- MCPolls
    StepTries = 2
    BuyerDatabase = buyerDb
    SinkDatabase = defaultDb
    NoRecv = NoRecv
    Timeout = Timeout
    NoAnswer = NoAnswer
    Webhooks = {"active", "unread"}
    MaxStarts = 1
    MaxShown = 2
    MaxWebhooks = 2
    MaxCrashes = 2
INVARIANT
    WebhookWakesWaiter
CHECK_DEADLOCK FALSE
