SPECIFICATION DevnetSpec
CONSTANTS
    Dashboard = TRUE
    Signers = {"stacks-signer-0", "stacks-signer-1"}
    Disabled = {}
    Stubborn = {"bitcoin-node"}
    AutominingDisabled = FALSE
    CreateNewSnapshot = TRUE
    Keyboard = TRUE
    MaxHeight = 2
    MaxProxied = 1
    MaxKeys = 1
    MaxFaults = 1
INVARIANTS
    CleanReturn
    MinerIsNotLost
    StartedOnce
    OneBlockTooMany
PROPERTIES
    ShutdownEnds
    PauseStops
CHECK_DEADLOCK FALSE
