SPECIFICATION Spec
CONSTANTS
    app = app
    oldName = oldName
    newName = newName
    n1 = n1
    job = job
    tool = tool
    k1 = k1
    k2 = k2
    k3 = k3
    Callers = {job, tool}
    Job = job
    Listing <- MCListing
    NodeOf <- MCNodeOf
    CanonicalOf <- MCCanonicalOf
    RenameMisnamed = TRUE
    MaxFiles = 1
    Start <- MCStart
    Edits <- MCEdits
    Answers <- MCAnswers
    Texts <- MCTexts
    Pulls = {k1, k2, k3}
    MaxMishaps = 0
    MaxAnswers = 0
    Labels = {"a", "b"}
    LabelRank <- MCLabelRank
    Notes = {"n", "m"}
INVARIANTS FormatterKeepsNotes NotesLaw
CHECK_DEADLOCK FALSE
