SPECIFICATION FairSpec
CONSTANTS
    Requests = {"r1", "r2"}
    Kids = {"k1", "k2"}
    KeyAlg <- MCKeyAlg
    Offers <- MCOffers
    Configs <- MCConfigs
    CacheTicks = 4
    MinRefetch = 2
    FetchTicks = 1
INVARIANTS OnlyMembersServed WithdrawnKeyExpires UnknownOnlyWhenJustFetched
PROPERTIES EveryRequestAnswered
