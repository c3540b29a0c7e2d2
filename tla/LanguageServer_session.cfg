SPECIFICATION Spec
CONSTANTS
    None = None
    ca = ca
    cb = cb
    m1 = m1
    m2 = m2
    plain = plain
    simnet = simnet
    bad = bad
    Contracts = {ca, cb}
    Manifests = {m1, m2}
    Texts = {plain, simnet, bad}
    Initial = {plain}
    Broken = {bad}
    Annotated = {simnet}
    CAPACITY = 1
    Projects <- MCProjects
    FirstProject <- MCFirst
    Home <- MCHome
    BootVersion = 3
    MaxEdits = 4
    MaxQueue = 4
INVARIANTS
    AnswersAreCurrent
    ServerIsCurrent
PROPERTIES
    QueueDrains
CHECK_DEADLOCK FALSE
