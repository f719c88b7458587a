----------------------------- MODULE MCRunStore -----------------------------
(* Two processes, two runs of two suites, one kept per suite. *)
EXTENDS RunStore, TLC

CONSTANTS p1, p2, s1, s2, m1, m2, i1

\* runs clean --keep 1 --older-than N --suite s
SomeRules == {[max |-> 1, ttl |-> TRUE, suite |-> s] : s \in Suites}

Interchangeable == Permutations(Procs) \cup Permutations(Models) \cup Permutations(Suites)

=============================================================================
