SPECIFICATION Spec
CONSTANTS
    c1 = c1
    c2 = c2
    p1 = p1
    p2 = p2
    fast = fast
    slow = slow
    NULL = NULL
    Conns <- TwoConns
    Peers <- TwoPeers
    Params <- TwoParams
INVARIANTS
    LibraryKnowsPeer
    ReferencesBalanced
    NoNullUse
    ParamsApplied
