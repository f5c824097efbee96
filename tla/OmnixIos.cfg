SPECIFICATION FairSpec
CONSTANTS
    Calls = {c1, c2}
    Reported = {"INCOMING", "ENDED"}
    Callers = {"worker"}
    Nothing = Nothing
    MaxQueued = 2
INVARIANTS TypeOK AudioFollowsCalls CallInfoAgrees
PROPERTIES DelegateIsToldAll ThreadsReturn
