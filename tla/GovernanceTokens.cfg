SPECIFICATION FairSpec
CONSTANTS
    Vault = Vault
    Payer = Payer
    System = System
    Token = Token
    Stake = Stake
    Governance = Governance
    Default = Default
    Program = Governance
    Realm = Realm
    Council = Council
    Owner = Owner
    Mint = Mint
    Proposal = {p1, p2}
    Funds = 2
    MaxSigned = 2
    MaxCloses = 1
INVARIANTS
    TypeOK
    FilesAreSent
PROPERTIES
    TokensComeHome
