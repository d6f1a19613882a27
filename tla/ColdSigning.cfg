SPECIFICATION Spec
CONSTANTS
    k1 = k1
    k2 = k2
    pay = pay
    home = home
    Cold = {k1}
    Execution = {pay}
    Closing = {home}
    Wanted = {pay}
    None = None
    MaxEpoch = 2
INVARIANTS
    TypeOK
    ExecutedWasApproved
    SentWasApproved
