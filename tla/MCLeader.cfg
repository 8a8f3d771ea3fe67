CONSTANTS
    None = None
    MaxVersion <- MC_MaxVersion
SPECIFICATION FairSpec
INVARIANT TypeOK
INVARIANT SyncedWhenIdle
PROPERTY EventuallySynced
