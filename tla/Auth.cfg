SPECIFICATION Spec
CONSTANTS
    ca = ca
    cb = cb
    cd = cd
    cn = cn
    wallet = wallet
    user = user
    Transactions <- MCTransactions
    DepthLimit = 4
    MaxInvokers = 3
    MaxSignatures = 2
INVARIANTS
    MatchStackIsPath
    ActiveWhileRootOnStack
    GrantedOnce
    GrantsAreAuthenticated
    NonceOnce
    DisjointTreesNotAllowed
    InvokersFormStack
PROPERTIES
    InvokerLivesForOneCall
    InternalErrorsAreOwnEntries
