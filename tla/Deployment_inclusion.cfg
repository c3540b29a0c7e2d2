SPECIFICATION Spec
CONSTANTS
    deployer = deployer
    wallet = wallet
    stacker = stacker
    NTx = 4
    NBatches = 3
    BatchOf <- GapBatchOf
    Kind <- GapKind
    Sender <- GapSender
    Contract <- GapContract
    Senders = {deployer, wallet}
    Network = "Devnet"
    AfterBitcoinBlock <- GapAfter
    AlreadyPublished = {}
    InitNonce <- GapNonce
    SharedSenders = {}
    MaxFaults = 1
    MaxOmissions = 1
    MaxLag = 1
    MaxDrift = 2
    MaxHeight = 30
INVARIANTS
    WaitsForInclusion
CHECK_DEADLOCK FALSE
