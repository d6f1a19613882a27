SPECIFICATION Spec
CONSTANTS
    p1 = p1
    p2 = p2
    ata = ata
    Caster = {p1, p2}
    Account = {ata}
    MaxEpoch = 2
    MaxChurn = 1
INVARIANTS
    ConfirmedMeansExecuted
