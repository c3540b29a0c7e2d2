SPECIFICATION Spec
CONSTANTS
    Handlers = {h1, h2}
    MaxBitcoin = 3
    MaxStacks = 2
    Depth = 1
    o1 = o1
    o2 = o2
    Orders = {o1, o2}
    Wallet <- MCWallet
    StartAtCycle <- MCStartAtCycle
    Duration <- MCDuration
    AutoExtend <- MCAutoExtend
    OrdersFrom = 1
    CycleLength = 1
    OrderPosition = 0
    PoxSwitch = 2
SYMMETRY Symmetric
INVARIANTS
    CompleteUnlessLate
    SnapshotAfterStakes
CHECK_DEADLOCK FALSE
