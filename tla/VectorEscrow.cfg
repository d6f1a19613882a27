SPECIFICATION Spec
CONSTANTS
    c1 = c1
    c2 = c2
    P = P
    Q = Q
    a1 = a1
    a2 = a2
    x1 = x1
    Authority = {a1}
    Program = {P}
    Cluster = {c1}
    Address = {x1}
    SubIxData <- TwoTransfers
    Deployment <- OneDeployment
    Clock <- TwoSlotsPerSecond
    NoAccount = NoAccount
    MaxTick = 3
    MaxFiles = 3
    MaxFunding = 2
PROPERTIES
    EscrowHolds
CHECK_DEADLOCK FALSE
