SPECIFICATION Spec
CONSTANTS
    Blocks <- MCBlocks
    Headers <- MCHeaders
    StacksBlocks <- MCStacksBlocks
    Microblocks <- MCMicroblocks
    Parent <- MCParent
    Height <- MCHeight
    Anchor <- MCAnchor
    Confirms <- MCConfirms
    BitcoinHeight <- MCBitcoinHeight
    Seeds <- MCSeeds
    Trails <- MCTrails
    ConfirmedSegmentMinimumLength = 7
    MaxDeliveries = 1
    HeaderWindow = 13
    Window = 3
INVARIANTS
    HeaderViewIsCanonical
    ViewIsCanonical
    ConfirmedTrails
PROPERTIES
    HeadersFollowChain
    FollowsChain
CHECK_DEADLOCK FALSE
