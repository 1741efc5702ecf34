SPECIFICATION Spec
CONSTANTS
    r1 = r1
    r2 = r2
    r3 = r3
    kernel = kernel
    openssl = openssl
    Requests = {r1, r2}
    Alerts = {kernel, openssl}
    AlertOf <- SameAlert
    TTL = 2
    MaxTime = 3
    FetchesDetails = TRUE
    AmbiguousDelivery = TRUE
    Crashes = TRUE
INVARIANTS AnsweredInTime
PROPERTIES OneShot
CHECK_DEADLOCK FALSE
