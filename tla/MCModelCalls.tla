---------------------------- MODULE MCModelCalls ----------------------------
(***************************************************************************)
(* Two samples of a single-shot tool example, on a model that refuses its  *)
(* temperature, and an example with a recorded tool result, so of two      *)
(* rounds, whose first request is that of the first sample.                *)
(***************************************************************************)
EXTENDS ModelCalls

CONSTANTS s0, s1, twin, model, content

MCItems == {s0, s1, twin}
MCModelOf == [i \in {s0, s1, twin} |-> model]
MCContentOf == [i \in {s0, s1, twin} |-> content]
MCSampleOf == [i \in {s0, s1, twin} |-> IF i = s1 THEN 1 ELSE 0]
MCRoundsOf == [i \in {s0, s1, twin} |-> IF i = twin THEN 2 ELSE 1]
=============================================================================
