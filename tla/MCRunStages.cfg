SPECIFICATION FairSpec
CONSTANTS
    c1 = c1
    Commands = {c1}
    Policies = {"none", "lax", "strict"}
    Narrators = {"m1"}
    Rows = 2
    MaxScorings = 2
    MaxEdits = 1
    MaxKills = 2
INVARIANTS TypeOK ScoresAndCoverageAgree
PROPERTIES RerunRepairs
