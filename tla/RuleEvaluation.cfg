SPECIFICATION Spec
CONSTANTS
    Fields <- MCFields
    Conditions <- MCConditions
    Facts <- MCFacts
    RuleSets <- MCRuleSets
    Replacements <- MCReplacements
    Handled = {"hook"}
    Options = {"AllMatches", "FirstMatch"}
INVARIANTS
    OverridesHold
    MachineMatchesTree
    Parity
PROPERTIES
    ListsFollowChoice
    EvaluationsEnd
CHECK_DEADLOCK FALSE
