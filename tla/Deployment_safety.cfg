SPECIFICATION FairSpec
CONSTANTS
    deployer = deployer
    wallet = wallet
    stacker = stacker
    NTx = 7
    NBatches = 3
    BatchOf <- MixedBatchOf
    Kind <- MixedKind
    Sender <- MixedSender
    Contract <- MixedContract
    Senders = {deployer, wallet, stacker}
    Network = "Devnet"
    AfterBitcoinBlock <- MixedAfter
    AlreadyPublished = {"lib"}
    InitNonce <- MixedNonce
    SharedSenders = {deployer, stacker}
    MaxFaults = 1
    MaxOmissions = 1
    MaxLag = 1
    MaxDrift = 2
    MaxHeight = 16
INVARIANTS
    PublishedBeforeNextBatch
    CompletedIsPublished
    EpochReached
    NoNonceGap
PROPERTIES
    Terminates
CHECK_DEADLOCK FALSE
