SPECIFICATION Spec
CONSTANTS
    tmp = tmp
    per = per
    code = code
    acc = acc
    v1 = v1
    v2 = v2
    None = None
    Unloaded = Unloaded
    Keys = {tmp, per, code, acc}
    Values = {v1, v2}
    Durability <- MCDurability
    CodeKeys = {code}
    Snapshots <- MCSnapshots
    Touched <- MCTouched
    Extends <- MCExtends
    Seq0 = 3
    MinTempTtl = 1
    MinPersistentTtl = 2
    MaxTtl = 3
    U32Max = 6
    MaxDepth = 2
    RecordingBuild = TRUE
    FiltersExpired = TRUE
INVARIANTS
    TypeOK
    MapEntriesAreLive
    ReadOnlyUntouched
    ArchivedAccessIsReadWrite
    ChangesMatchStorage
    NeverShortened
    InternalErrorOnlyOnOverflow
PROPERTIES
    FootprintNeverShrinks
