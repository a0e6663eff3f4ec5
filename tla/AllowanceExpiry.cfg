SPECIFICATION Spec
CONSTANTS
    iss = iss
    acc = acc
    con = con
    None = None
    Issuer = iss
    Accounts <- MCAccounts
    Contracts <- MCContracts
    Worlds <- MCWorlds
    AssetArgs <- MCAssetArgs
    Amounts <- MCAmounts
    LiveUntils = {0, 1, 2, 3}
    AllowancePairs <- MCPairs
    I64Max = 3
    I128Max = 3
    BaseReserve = 1
    MinTempTtl = 1
    MinPersistentTtl = 4
    MaxTtl = 4
    DAY_IN_LEDGERS = 1
    BALANCE_EXTEND_AMOUNT = 3
    INSTANCE_EXTEND_AMOUNT = 2
    MaxSeq = 2
CHECK_DEADLOCK FALSE
INVARIANT AllowanceLastsUntilItsLedger
