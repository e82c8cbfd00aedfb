\* Two invocations at once, each stopping anywhere.
CONSTANTS
    Process = {p1, p2}
    Path = {1}
    Temp <- MCTemp
    Password = {pw1, pw2}
    Amounts <- MCAmounts
    Fees = {20, 120}
    Recipients <- MCRecipients
    MaxU64 = 100
    MaxWallets = 2
    MaxSigned = 2
    MaxClock = 2
SPECIFICATION Spec
INVARIANTS
    TypeOK
    WholeOrAbsent
    SavedIsLoadable
    SignatureBinds
    HashIdentifies
SYMMETRY Interchangeable
CHECK_DEADLOCK FALSE
