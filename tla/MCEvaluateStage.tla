-------------------------- MODULE MCEvaluateStage --------------------------
(* Two examples, the first with two samples, and one evaluator of each kind. *)
EXTENDS EvaluateStage

Says(text) == [text |-> text, failed |-> FALSE, truncated |-> FALSE, traced |-> FALSE]
CallsTool == [text |-> "", failed |-> FALSE, truncated |-> FALSE, traced |-> TRUE]
Cut == [text |-> "yes", failed |-> FALSE, truncated |-> TRUE, traced |-> TRUE]
Fails == [text |-> "", failed |-> TRUE, truncated |-> FALSE, traced |-> FALSE]

Row(x, s, side, c) == [example |-> x, sample |-> s, role |-> side, call |-> c]

\* Two samples of the first example, and a second one that calls tools.
RawOf(first, source, target) ==
  <<Row(1, 0, "source", Says("yes")), Row(1, 0, "target", first),
    Row(1, 1, "source", source), Row(1, 1, "target", target),
    Row(2, 0, "source", CallsTool), Row(2, 0, "target", CallsTool)>>

\* Rows of the first example that a second process wrote again: one call that
\* had failed then came through, one that had come through then failed.
Twice ==
  RawOf(Fails, Says("no"), Says("no"))
  \o <<Row(1, 1, "target", Fails), Row(1, 0, "target", Says("no"))>>

\* Two examples with the same answers, the first with a sample that failed.
Twins ==
  <<Row(1, 0, "source", Says("yes")), Row(1, 0, "target", Says("no")), Row(1, 1, "source", Says("yes")),
    Row(1, 1, "target", Fails), Row(2, 0, "source", Says("yes")), Row(2, 0, "target", Says("no"))>>

SomeRaws ==
  {RawOf(Says("no"), Says("no"), Says("no")), RawOf(Cut, CallsTool, Says("no")), Twice, Twins}

OneHistory(x) == "h"
IsYes(arg, text) == IF text = arg THEN One ELSE 0
Alike(a, b) == IF a = b THEN One ELSE Half
SelectedBy(kind, s, t) == IF kind = "divergence" THEN One ELSE IF t.traced THEN Half ELSE 0
TracedOne(x, side) == x = 1 \/ side = "source"
TraceHalf(x) == Half

Eval(name, family, kinds, arg) == [name |-> name, family |-> family, kinds |-> kinds, arg |-> arg]
Regex(arg) == Eval("structural.regex", "structural", {"structural"}, arg)
SomeEvaluators ==
  <<Regex("yes"), Eval("semantic.cosine", "semantic", {"semantic"}, ""),
    Eval("llm_judge.clear", "llm_judge", {"llm_judge"}, "clear"),
    Eval("tools", "tools", {"conformance", "divergence"}, ""),
    Eval("agent", "agent_trace", {"agent_trace"}, "")>>

TwoPatterns == <<Regex("yes"), Regex("no")>>
SingleSample == {SubSeq(RawOf(first, Says("yes"), Says("yes")), 1, 2) : first \in {Says("yes"), Says("no")}}

=============================================================================
