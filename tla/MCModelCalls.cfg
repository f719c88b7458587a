SPECIFICATION FairSpec
CONSTANTS
    s0 = s0  s1 = s1  twin = twin  model = model  content = content
    Items <- MCItems
    ModelOf <- MCModelOf
    ContentOf <- MCContentOf
    SampleOf <- MCSampleOf
    RoundsOf <- MCRoundsOf
    Picky = {model}
    Concurrency = 2
    MaxAttempts = 2
    MaxFaults = 2
    MaxLaunches = 2
CHECK_DEADLOCK FALSE
INVARIANTS TypeOK AnswersAreOwn LiveSamplingIsDisclosed
PROPERTIES NoSecondPurchase LaunchEnds
