SPECIFICATION FairSpec
CONSTANTS
    Pulls = {1, 2}
    Authors = {"owner", "stranger"}
    Configs <- MCConfigs
    PageSize = 1
    MaxComments = 2
    MaxPushes = 1
    MaxMishaps = 2
INVARIANTS OneCommitPerComment NothingSkipped PushesKept
PROPERTIES EveryCommentConsidered
CHECK_DEADLOCK FALSE
