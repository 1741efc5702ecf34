SPECIFICATION Spec
CONSTANTS
    auth = auth
    image = image
    call = call
    other = other
    Hook = hook
    Findings = {image}
    AuthConflicts = {}
    Calls = {call, other}
    MayCreate <- AlertStorm
    MaxProposals = 2
    MaxPRs = 2
INVARIANTS OneOpenProposalPerFinding
CHECK_DEADLOCK FALSE
