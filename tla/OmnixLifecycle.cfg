SPECIFICATION SetupFairSpec
CONSTANTS
    QueueCap = 4
    Patience = 3
    NoName = NoName
    NoAgent = NoAgent
    user = user  host = host  pass = pass
    Names <- MCNames
    Configs <- MCConfigs
    Codecs = {"opus", "pcmu", "pcma", "g722"}
    Compiled = {"pcmu", "pcma"}
INVARIANTS SetupTypeOK UpIsServed NothingOutlivesStack AtMostOneLeaks StopReachesLoop
           UpIsConfigured UaIsAlive SecretIsHidden DownIsClean
PROPERTIES CallsReturn
