----------------------------- MODULE MCVerdict -----------------------------
(***************************************************************************)
(* Instances of Verdict for TLC: three examples, two tags, two evaluators. *)
(* Tag 1 is an ordinary tag, tag 2 the provenance tag.  The tests need two *)
(* pairs instead of the code's five.                                       *)
(***************************************************************************)
EXTENDS Verdict, TLC

CONSTANTS e1, e2, e3, conformance, arguments

MCExamples == {e1, e2, e3}
MCEvaluators == {conformance, arguments}
MCKind == [e \in MCEvaluators |-> IF e = conformance THEN "conformance" ELSE "arguments"]
MCOutcomesOf ==
    [e \in MCEvaluators |-> IF e = conformance THEN {"equal", "worse", "missed", "error"}
                                               ELSE {"better", "worse", "unmeasured"}]
MCGates == {{conformance}, {conformance, arguments}}

(* Both tags on the same two examples: the slices are equal, and equal to  *)
(* "all" when the third example leaves no row.                             *)
MCTaggings == {[x \in MCExamples |-> IF x = e3 THEN {} ELSE {1, 2}]}
MCSymmetry == Permutations({e1, e2})

Limits(regression, cost) ==
    [regression |-> regression, equivalence |-> 60, drift |-> 20, divergence |-> 20,
     cost |-> cost, latency |-> 30]
Override(regression, cost) ==
    [b \in SliceBudgets |-> CASE b = "regression" -> regression [] b = "cost" -> cost
                              [] OTHER -> Inherit]
Configured(limits, failOnDropped, slices) ==
    [b \in SliceBudgets \cup {"failOnDropped", "slices"} |->
        CASE b = "failOnDropped" -> failOnDropped [] b = "slices" -> slices
          [] OTHER -> limits[b]]

(* Two policies: no regression but any cost, failing on dropped            *)
(* parameters; a stricter rate and dearer calls refused in one slice.      *)
MCPolicies ==
    {Configured(Limits(0, 60), TRUE, <<>>),
     Configured(Limits(30, 50), FALSE, [s \in {2} |-> Override(0, 40)])}

Ratio(increase, measured) == [increase |-> increase, measured |-> measured]
MCCallRatios ==
    {[cost |-> Ratio(0, FALSE), latency |-> Ratio(0, TRUE), dropped |-> FALSE],
     [cost |-> Ratio(45, TRUE), latency |-> Ratio(0, TRUE), dropped |-> TRUE]}

MCTestResults == {[p |-> 4, d |-> 3], [p |-> 30, d |-> 1], [p |-> 600, d |-> 0]}
=============================================================================
