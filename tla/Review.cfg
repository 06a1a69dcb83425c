SPECIFICATION Spec
CONSTANTS
    Keys <- MCKeys
    Ids = {"p", "q"}
    Values = {"true", "false", "v1", "v2", "portfolio.v1", "old", "new", "edited", "p", "q"}
    Versions = {"v1", "v2", "portfolio.v1"}
    Depth = 3
    Drafts <- MCDrafts
    Candidates <- MCCandidates
    Entered <- MCEntered
    MaxPatches = 4
    MaxEdited = 1
    MaxSaves = 1
    MaxApplies = 1
CHECK_DEADLOCK FALSE
INVARIANTS
    ReviewIsTheDifference
    SelectionExact
    PatchesLand
    RefusedOnlyWhenStale
    ComparisonAgrees
