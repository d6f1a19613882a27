SPECIFICATION Spec
CONSTANTS
    c1 = c1
    c2 = c2
    P = P
    Q = Q
    a1 = a1
    a2 = a2
    x1 = x1
    Authority = {a1}
    Program = {P, Q}
    Cluster = {c1, c2}
    Address = {x1}
    SubIxData <- NoneOrOne
    Deployment <- ThreeDeployments
    Clock <- TwoSlotsPerSecond
    NoAccount = NoAccount
    MaxTick = 3
    MaxFiles = 2
    MaxFunding = 1
INVARIANTS
    TypeOK
    OnePerSeed
    SeedCommitsToHistory
    SeedDiscipline
    KnownEntered
PROPERTIES
    NoRevival
    ImplementsOneShot
CHECK_DEADLOCK FALSE
