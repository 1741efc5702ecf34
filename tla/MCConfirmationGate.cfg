SPECIFICATION Spec
CONSTANTS
    n1 = n1
    n2 = n2
    loki = loki
    Requests = {r1, r2}
    Services = {s1}
    Nodes = {n1, n2}
    Hosts = {loki}
    HostOf <- MCHostOf
    Addresses = {a1}
    TTL = 1
    MaxTime = 2
INVARIANTS AnsweredInTime OnlyAsConfirmed ConfirmedMeansGone InventoryKnown OutcomeRecorded
PROPERTIES OneShot
