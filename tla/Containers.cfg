CHECK_DEADLOCK FALSE
SPECIFICATION Spec
CONSTANTS
    WordBits = 3
    BodyBits = 2
    CodeBits = 2
    CodeOf <- MCCodeOf
    MaxSmallChars = 2
    SymbolLimit = 3
    DepthLimit = 3
    U32Max = 9
    U8Max = 7
    Starts <- MCStarts
    Elements <- MCElements
    Keys <- MCKeys
    Payloads <- MCPayloads
    Bytes <- MCBytes
    Indices <- MCIndices
    Compared <- MCCompared
    Wide <- MCWide
    Exponents <- MCExponents
    Slots <- MCSlots
    Data <- MCData
    Foreign <- MCForeign
    MaxLen = 3
    MaxMemoryCalls = 2
VIEW State
PROPERTY OrderAgrees
PROPERTY RefinesCollections
