CONSTANT MaxFrames = 2
SPECIFICATION ImageSpec
CHECK_DEADLOCK FALSE
INVARIANT FallbackDelivers
