SPECIFICATION Spec
CONSTANTS
    ca = ca
    cb = cb
    cd = cd
    wallet = wallet
    k1 = k1
    k2 = k2
    v1 = v1
    h1 = h1
    h2 = h2
    None = None
    Transactions <- MCTransactions
    InstKeys = {k1}
    Vals = {v1}
    DepthLimit = 3
INVARIANTS
    InstanceIsTransactional
    EventsFollowFrames
    DrawsAreFresh
PROPERTY
    FlushKeepsExecutable
