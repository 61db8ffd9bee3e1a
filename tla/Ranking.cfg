SPECIFICATION Spec
CONSTANTS
    Fields <- MCFields
    Paths <- MCPaths
    Conditions <- MCConditions
    Interpreted <- MCInterpreted
    RuleSets = {}
    Rankers <- MCRankers
    Requests <- MCRequests
    Limits = {0, 1}
    Largest = 100
    NotANumber = 101
    MaxAsked = 2
    Short = 3
INVARIANTS
    SelectorsAgree
    RankingIsRight
CHECK_DEADLOCK FALSE
