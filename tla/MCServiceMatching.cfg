SPECIFICATION MatchingFairSpec
CONSTANTS
    Passes = {"traefik", "authentik", "docker"}
    Jobs = {"traefik", "authentik"}
    SourceOf <- MCSourceOf
    Routers <- MCRouters
    Apps <- MCApps
    Containers <- MCContainers
    NameOf <- MCNameOf
    HostsOf <- MCHostsOf
    Guesses = {"internal"}
    MaxChanges = 2
INVARIANTS MatchingTypeOK
PROPERTIES IdenticalPassRecordsNothing ConflictFollowsHomelab
