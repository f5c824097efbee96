SPECIFICATION FairSpec
CONSTANTS
    c1 = c1  c2 = c2
    i1 = i1  i2 = i2
    Calls = {c1, c2}
    Ids = {i1, i2}
    MaxCalls = 1
    MaxBaresip = 0
    QueueCap = 2
    Stun = FALSE
    TestHook = FALSE
    NoCall = NoCall
    NoId = NoId
    UA = UA
PROPERTIES RefusedCallReleased 
