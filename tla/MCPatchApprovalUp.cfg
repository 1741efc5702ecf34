SPECIFICATION FairSpec
CONSTANTS
    r1 = r1
    r2 = r2
    r3 = r3
    kernel = kernel
    openssl = openssl
    Requests = {r1, r2, r3}
    Alerts = {kernel, openssl}
    AlertOf <- MCAlertOf
    TTL = 1
    MaxTime = 2
    FetchesDetails = FALSE
    AmbiguousDelivery = FALSE
    Crashes = FALSE
INVARIANTS OneOpenQuestionPerAlert PendingMeansEmailed
PROPERTIES ApprovedIsSettled
CHECK_DEADLOCK FALSE
