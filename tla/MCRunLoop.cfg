SPECIFICATION FairSpec
CONSTANTS
    NItems = 3
    Concurrency = 2
    CheckpointEvery = 2
    MaxKills = 3
    MaxTears = 2
INVARIANTS Inv
PROPERTIES ImplementsLedger LaunchCompletes
