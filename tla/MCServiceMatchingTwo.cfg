SPECIFICATION MatchingSpec
CONSTANTS
    Passes = {"traefik", "authentik"}
    Jobs = {"traefik", "authentik"}
    SourceOf <- MCSourceOf
    Routers <- MCTwoRouters
    Apps <- MCApps
    Containers <- MCNone
    NameOf <- MCNameOf
    HostsOf <- MCHostsOf
    Guesses = {"internal"}
    MaxChanges = 2
PROPERTIES IdenticalPassRecordsNothing
