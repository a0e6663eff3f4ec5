SPECIFICATION Spec
CONSTANTS
    tmp = tmp
    per = per
    inst = inst
    code = code
    acc = acc
    v1 = v1
    v2 = v2
    None = None
    Unloaded = Unloaded
    Keys = {tmp, per, inst, code, acc}
    Values = {v1, v2}
    Durability <- MCDurability
    CodeKeys = {code}
    InstanceKeys = {inst}
    CodeOf <- MCCodeOf
    Snapshots <- MCSnapshots
    Touched <- MCTouched
    Extends <- MCExtends
    Seq0 = 3
    MinTempTtl = 1
    MinPersistentTtl = 2
    MaxTtl = 3
    U32Max = 9
    MaxDepth = 2
    RecordingBuild = TRUE
INVARIANTS
    PreflightSuffices
