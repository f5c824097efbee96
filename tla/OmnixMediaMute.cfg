SPECIFICATION Spec
CONSTANTS
    TestHook = FALSE
INVARIANTS MutedSendsNothing
