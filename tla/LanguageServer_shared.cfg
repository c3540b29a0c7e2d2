SPECIFICATION Spec
CONSTANTS
    None = None
    ca = ca
    cb = cb
    m1 = m1
    m2 = m2
    plain = plain
    simnet = simnet
    bad = bad
    Contracts = {ca, cb}
    Manifests = {m1, m2}
    Texts = {plain}
    Initial = {plain}
    Broken = {bad}
    Annotated = {simnet}
    CAPACITY = 1
    Projects <- MCShared
    FirstProject <- MCSharedFirst
    Home <- MCHome
    BootVersion = 3
    MaxEdits = 4
    MaxQueue = 4
INVARIANT NeverPanics
CHECK_DEADLOCK FALSE
