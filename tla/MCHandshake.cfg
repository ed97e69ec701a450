SPECIFICATION FairSpec
CONSTANTS
    Scenarios <- MCScenarios
    Room = 2
    Amplification = 3
    MaxCredit = 6
    MaxFaults = 1
INVARIANTS NoError NothingStranded EndsAgree
PROPERTY HandshakeCompletes
CHECK_DEADLOCK FALSE
