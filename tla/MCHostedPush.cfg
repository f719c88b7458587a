SPECIFICATION FairSpec
CONSTANTS
    Projects = {"org/a", "org/b"}
    Bodies = {"v1", "v2"}
    RebuildDuringPush = FALSE
    MaxAttempts = 3
    MaxFaults = 4
    MaxBuilds = 3
INVARIANTS TypeOK
PROPERTIES PublishesItsOwnBundle NoSecondUpload EventuallyPublished
