SPECIFICATION Spec
CONSTANTS
    a = a
    b = b
    d = d
    e = e
    Key = {a, b}
    Message = {d, e}
    Signed <- SignedPairs
    Header = Header
    Other <- OtherData
    MaxCells = 3
    BYTE = 5
    KEY = 2
    Received <- Arriving
    P = 8
    Decimals = {0, 1, 2, 3}
    MaxExponent = 18
    MaxUnits = 255
    Vault = Vault
    Payer = Payer
    System = System
    Token = Token
    Stake = Stake
    Governance = Governance
    Default = Default
    gold = gold
    silver = silver
    alice = alice
    bob = bob
    dao = dao
    guild = guild
    Mint = {gold, silver}
    Owner = {alice, bob}
    Realm = {dao, guild}
    GovernanceProgram = {Governance}
    MaxChurn = 1
INVARIANTS
    AcceptedWasSigned
    BuiltIsAccepted
    NeverPanics
    RoundTrip
    EveryByteCounts
    AsTyped
    PaysForSigned
    HonestLands
CHECK_DEADLOCK FALSE
