CHECK_DEADLOCK FALSE
CONSTANTS
    MaxRotations = 1
SPECIFICATION SidecarSpec
INVARIANTS
    HoldsCurrent
