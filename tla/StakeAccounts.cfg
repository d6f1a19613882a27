SPECIFICATION FairSpec
CONSTANTS
    Vault = Vault
    Payer = Payer
    System = System
    Token = Token
    Stake = Stake
    Governance = Governance
    Default = Default
    Elsewhere = Elsewhere
    Names = {"a", "b"}
    Validator = {v1, v2}
    Funds = 3
    Reserve = 1
    MinDelegation = 1
    MaxGrowth = 1
    MaxSigned = 1
    MaxCloses = 1
INVARIANTS
    TypeOK
    Controlled
PROPERTIES
    ComesHome
