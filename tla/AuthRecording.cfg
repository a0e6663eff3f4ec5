SPECIFICATION Spec
CONSTANTS
    ca = ca
    cb = cb
    cd = cd
    user = user
    h1 = h1
    h2 = h2
    h3 = h3
    Contracts = {ca, cb, cd}
    Handles = {h1, h2, h3}
    AddressOf <- MCAddressOf
    Worlds <- MCWorlds
    DepthLimit = 3
    MaxCalls = 3
    MaxRequires = 4
INVARIANTS
    PayloadsAreExact
    RecordingIsTransactional
SYMMETRY MCSymmetry
