CONSTANTS
    Values <- PathValues
    MaxPaths = 3
SPECIFICATION Spec
INVARIANTS
    LoopIsJoinOver
    KnownOnlyIfAllAgree
    OrderDecidesNothing
\* The loop ends after the last value.
CHECK_DEADLOCK FALSE
