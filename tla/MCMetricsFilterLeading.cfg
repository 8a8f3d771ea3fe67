CONSTANTS
    None = None
    MaxLines <- MC_MaxLines
SPECIFICATION Spec
INVARIANT EveryWantedGroupIsKept
CHECK_DEADLOCK FALSE
