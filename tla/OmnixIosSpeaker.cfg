SPECIFICATION FairSpec
CONSTANTS
    Calls = {c1}
    Reported = {"INCOMING", "CONNECTED", "ENDED"}
    Callers = {"main"}
    Nothing = Nothing
    MaxQueued = 1
PROPERTY SpeakerReturns
CHECK_DEADLOCK FALSE
