SPECIFICATION FairSpec
CONSTANTS
    auth = auth
    image = image
    call = call
    other = other
    Hook = hook
    Findings = {auth, image}
    AuthConflicts = {auth}
    Calls = {call}
    MayCreate <- OneCreatorEach
    MaxProposals = 2
    MaxPRs = 2
INVARIANTS OneOpenProposalPerFinding
PROPERTIES ClosedIsANo NoRepeatedRejection MergedFixWaitsForDiscovery FinishedIsRetired ClearedIsVerified
