CONSTANTS
    None = None
    Nodes <- MC_Nodes
    AdminNodes <- MC_AdminNodes
    MaxGeneration = 2
    MaxCrashes = 3
    MaxLostHeartbeats = 2
SPECIFICATION Spec
INVARIANT UniqueLeaderPerView
