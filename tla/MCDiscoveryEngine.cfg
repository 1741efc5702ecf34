SPECIFICATION EngineFairSpec
CONSTANTS
    x1 = x1
    traefik = traefik
    authentik = authentik
    tool = tool
    Manual = manual
    Services = {x1}
    Sources = {traefik, authentik}
    ToolTasks = {tool}
    StaleThreshold = 2
INVARIANTS StaleIffAllLost
PROPERTIES FlagsSettle HookKnowsInTheEnd ForgottenOnlyWhenCut
