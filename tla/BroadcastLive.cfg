SPECIFICATION Spec
CONSTANTS
    p1 = p1
    p2 = p2
    ata = ata
    Caster = {p1}
    Account = {ata}
    MaxEpoch = 2
    MaxChurn = 2
INVARIANTS
    TypeOK
    RetriesAreSafe
PROPERTIES
    EverySeedIsUsed
