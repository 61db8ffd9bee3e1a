SPECIFICATION Spec
CONSTANTS
    Beginnings <- MCBeginnings
    Now = 15
    Active <- MCActive
    Hashes <- MCHashes
    Calls <- MCCalls
    Collections <- MCCollections
    HelperCalls <- MCHelperCalls
INVARIANTS
    AnswersAreRight
    WaysAgree
    HelpersAgree
