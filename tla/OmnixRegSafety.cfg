SPECIFICATION FairSpec
CONSTANTS
    QueueCap = 3
    MaxInFlight = 2
INVARIANTS TypeOK RegisteredIsBacked ToldAgrees RegisteringIsAwaited
PROPERTIES RegisteringSettles RegisteringIsResolved
