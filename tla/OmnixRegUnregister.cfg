SPECIFICATION FairSpec
CONSTANTS
    QueueCap = 3
    MaxInFlight = 2
INVARIANTS UnregisterLasts
