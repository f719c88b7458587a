SPECIFICATION Spec
CONSTANTS
    e1 = e1
    e2 = e2
    e3 = e3
    conformance = conformance
    arguments = arguments
    Examples <- MCExamples
    Evaluators <- MCEvaluators
    Kind <- MCKind
    OutcomesOf <- MCOutcomesOf
    NumTags = 2
    Taggings <- MCTaggings
    Gates <- MCGates
    Policies <- MCPolicies
    CallRatios <- MCCallRatios
    TestResults <- MCTestResults
    MinN = 2
INVARIANTS
    TypeOK
    PassIsMeasured
    BudgetedSlicesAreJudged
    ConfirmedBreachBlocks
SYMMETRY MCSymmetry
CHECK_DEADLOCK FALSE
