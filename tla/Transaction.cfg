SPECIFICATION Spec
CONSTANTS
    third = third
    dest = dest
    Vault = Vault
    Payer = Payer
    System = System
    Governance = Governance
    Vector = Vector
    NoKey = NoKey
    Key = {Vault, Payer, third, dest}
    Wallet = {Payer, third}
    Lists <- SomeLists
    Signed <- SignedLists
    Lamports <- Balances
    MaxSeed = 1
INVARIANTS
    TypeOK
    OneActionPerSeed
    AllOrNothing
    VaultOnly
    HotWalletSpared
    BuiltIsWalked
