CONSTANTS
    MAX = 2
    None = None
    n1 = n1
    n2 = n2
    PlainNodeId <- MC_PlainNodeId
    PartitionId <- MC_PartitionId
SYMMETRY MC_Symmetry
SPECIFICATION Spec
INVARIANT TypeOK
INVARIANT PersistedModeSafe
INVARIANT ArchivedModeSafe
INVARIANT OffersWhatIsTrimmable
PROPERTY TrimRoundSettles
