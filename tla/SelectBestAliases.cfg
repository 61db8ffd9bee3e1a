SPECIFICATION Spec
CONSTANTS
    Fields <- MCFields
    Paths <- MCPaths
    Conditions <- MCConditions
    Interpreted <- MCInterpreted
    RuleSets = {}
    Rankers <- MCRankers
    Requests <- MCRequests
    Limits = {0}
    Largest = 100
    NotANumber = 101
    MaxAsked = 1
    Short = 3
INVARIANT BestKeepsItsOwn
CHECK_DEADLOCK FALSE
