CONSTANTS
  Tools = {"send", "find"}
  Fields = {"note", "id", "amount", "_trace"}
  Private = {"_trace"}
  Null = Null
  Values <- AllValues
  Calls <- SomeCalls
  Examples <- SomeExamples
  MaxRounds = 2
  MaxEvents = 2
  Likeness <- HalfAlike
  Declared <- DeclaredTypes
  Dangerous = {"send"}
  Verifying = {"find"}
  Tolerance = 0
  Ways <- SomeWays
  NoRow = NoRow
  Refusal = Refusal
SPECIFICATION Spec
INVARIANT  MarksAreEarned DiffShowsDrift
CHECK_DEADLOCK FALSE
