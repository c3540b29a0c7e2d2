SPECIFICATION Spec
CONSTANTS
    a = a
    b = b
    c = c
    Accounts = {a, b}
    Contracts = {c}
    NoSponsor = NoSponsor
    Absent = Absent
    MinimumFee = 1
    MaxChaining = 1
    MaxNonce = 3
    MaxHeight = 2
    BurnGap = 1
    StacksGap = 2
    Nakamoto = 2
    MarfedTime = 2
    Epochs = {1, 2}
    FirstEpoch = 1
    GenesisBalance <- MCBalance
    Signed <- MCSigned
    Calls <- MCCalls
    SnippetAmounts = {2}
    MaxSnippets = 1
    MaxQueue = 2
    MaxPerBlock = 1
INVARIANTS
    RejectedLeavesNoTrace
    MirrorAgrees
    QueueCanBeMined
PROPERTIES
    IsLedger
CHECK_DEADLOCK FALSE
