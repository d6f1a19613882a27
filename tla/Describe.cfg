SPECIFICATION DescribeSpec
CONSTANTS
    Vault = Vault
    Payer = Payer
    System = System
    Token = Token
    Stake = Stake
    Governance = Governance
    Custom = Custom
    Default = Default
    alice = alice
    bob = bob
    usd = usd
    gov = gov
    vote2 = vote2
    prop2 = prop2
    Recipient = {alice, bob}
    Quantity = {1, 2}
    Seed = {"a"}
    Validator = {vote1, vote2}
    GoverningMint = {usd, gov}
    Dao = Dao
    Governed = Governed
    Motion = {prop1}
    Proposer = Proposer
    Ballot = {"yes", "no"}
    Address <- Addresses
    MaxEdits = 2
INVARIANTS
    ScreenTells
    WarnedOnlyForVotes
