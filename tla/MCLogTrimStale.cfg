CONSTANTS
    MAX = 2
    None = None
    l1 = l1
    l2 = l2
    Leaders <- MC_Leaders
    PlainNodeId <- MC_PlainNodeId
    PartitionId <- MC_PartitionId
SPECIFICATION MC_Spec
PROPERTY TrimmedIsPersistedByAll
