SPECIFICATION FairSpec
CONSTANTS
    Calls = {c1, c2}
    Reported = {"INCOMING", "ENDED"}
    RegStates = {"REGISTERED"}
    Nothing = Nothing
    MaxPosted = 1
INVARIANTS TypeOK CacheNotBehind AudioFollowsCalls AudioGivenBack DownIsUninitialized
PROPERTIES ListenersAreToldInOrder OperationsReturn
CHECK_DEADLOCK FALSE
