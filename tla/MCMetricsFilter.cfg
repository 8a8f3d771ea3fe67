CONSTANTS
    None = None
    MaxLines <- MC_MaxLines
SPECIFICATION Spec
INVARIANT TypeOK
INVARIANT FilterKeepsWantedGroups
CHECK_DEADLOCK FALSE
