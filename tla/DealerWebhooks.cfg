SPECIFICATION FairSpec
CONSTANTS
    Webhooks = {w1}
    Batches = {k1, k2}
    BatchSize = 25
    MaxAttempts = 3
    MaxReplays = 1
    MaxDeaths = 1
INVARIANTS
    TypeOK
    OutcomesAreEarned
    AttemptsBounded
PROPERTIES
    OnlyLateFailuresReopen
    WebhooksSettle
CHECK_DEADLOCK FALSE
