SPECIFICATION Spec
CONSTANTS
    a = a
    b = b
    NumTurns = 4
    NumNames = 4
    NumSuites = 2
    Toolsets <- MCToolsets
    SuiteOf <- MCSuiteOf
    TalkOf <- MCTalkOf
    Place <- MCPlace
    Exchange <- MCExchange
    First <- MCFirst
    Later <- MCLater
    Errored <- MCErrored
    AliasOf <- MCAliasOf
    Choices <- MCChoices
    MaxLive = 1
    MaxFaults = 1
    Regions <- MCRegions
    MaxCommands = 3
INVARIANTS
    TypeOK
    ToolsAreKept
    SyncedSuitesAreIndexed
PROPERTIES
    SyncAddsNoTwin
CHECK_DEADLOCK FALSE
