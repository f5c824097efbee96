SPECIFICATION Spec
CONSTANTS
    c1 = c1  c2 = c2  c3 = c3
    i1 = i1  i2 = i2  i3 = i3
    Calls = {c1, c2, c3}
    Ids = {i1, i2, i3}
    MaxCalls = 2
    MaxBaresip = 2
    QueueCap = 3
    Stun = FALSE
    TestHook = FALSE
    NoCall = NoCall
    NoId = NoId
    UA = UA
SYMMETRY CallIdSymmetry
INVARIANTS TypeOK RegistryConsistent LiveCallsAreTracked RoomForIncoming GetStateAgrees
PROPERTIES EndIsTold ImplementsCallSessions
