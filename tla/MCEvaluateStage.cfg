CONSTANTS
  NExamples = 2
  NSamples = 2
  One = 12
  Evaluators <- SomeEvaluators
  Raws <- SomeRaws
  Silent = ""
  History <- OneHistory
  Matches <- IsYes
  Similarity <- Alike
  Selected <- SelectedBy
  Traced <- TracedOne
  TraceMark <- TraceHalf
  Nothing = Nothing
  Concurrency = 2
  Winners = {"target", "tie"}
  MaxEvaluations = 2
  MaxFailures = 1
SPECIFICATION Spec
INVARIANT TypeOK BrokenSamplesMoveNothing VerdictsAreTheJudges RerunBuysNothing
PROPERTY EveryAttemptIsAccounted
CHECK_DEADLOCK FALSE
