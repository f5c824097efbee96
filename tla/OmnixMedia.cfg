SPECIFICATION Spec
CONSTANTS
    TestHook = TRUE
INVARIANTS TypeOK UnmuteRestores
PROPERTIES StartsAsAsked
