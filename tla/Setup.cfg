\* Three faults, a run after a completed one, four lines of conversation.
CONSTANTS
    MaxFaults = 3
    MaxAgain = 1
    MaxLines = 4
SPECIFICATION SetupFairSpec
INVARIANTS
    PasswordAgrees
    DoneMeansWired
    BotIsRelayed
PROPERTY SetupCompletes
\* The bridge may have nothing more to say, and the user be done.
CHECK_DEADLOCK FALSE
