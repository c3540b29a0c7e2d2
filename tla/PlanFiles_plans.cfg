SPECIFICATION Spec
CONSTANTS
    None = None
    b = b
    p1 = p1
    p2 = p2
    p3 = p3
    r1 = r1
    r2 = r2
    r3 = r3
    s1 = s1
    s2 = s2
    ph = ph
    Order <- MCOrder
    Placeholders = {ph}
    Boot = {b}
    Sbtc <- MCSbtc
    Registry = s1
    TxChainLimit = 3
    Worlds <- MCWorlds
    Commands <- MCCommands
    Manifests <- MCManifests
    Custom <- MCCustom
    MaxCommands = 2
    MaxEdits = 1
INVARIANTS
    PlanRespectsDependencies
    DeployedCodeFits
PROPERTIES
    UserTransactionsStay
    CommandsEnd
