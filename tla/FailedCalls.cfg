SPECIFICATION Spec
CONSTANTS
    tmp = tmp
    per = per
    code = code
    acc = acc
    None = None
    Unloaded = Unloaded
    Keys = {tmp, per, code, acc}
    Values <- MCValues
    Durability <- MCDurability
    CodeKeys = {code}
    StartLedgers <- MCStartLedgers
    Touched <- MCTouched
    Programs <- MCPrograms
    Extensions <- MCExtensions
    AllSettings <- MCSettings
    Adjust <- MCAdjust
    EnvelopeSize = 3
    ReturnSize = 1
    MinTempTtl = 1
    MinPersistentTtl = 2
    MaxTtl = 4
    LastLedger = 5
    MaxTxs = 3
    U32Max = 15
    I64Max = 20000
    I128Max = 2000000
    InsnIncrement = 2
    Kb = 4
    TtlEntrySize = 2
    TxResultSize = 2
    MinRentFee = 2
    CodeDiscount = 3
CHECK_DEADLOCK FALSE
INVARIANT FailedCallsAreCounted
