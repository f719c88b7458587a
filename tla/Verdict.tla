------------------------------ MODULE Verdict ------------------------------
(***************************************************************************)
(* From scored rows to a migration verdict: one evaluation followed by one *)
(* analysis of it.                                                         *)
(*                                                                         *)
(*   evaluate   Score      what each evaluator made of one example         *)
(*   analyze    Slice      a slice per tag, redundant slices collapsed     *)
(*              Compare    one paired comparison per evaluator and slice   *)
(*              Decide     budgets, slice verdicts and the run's verdict   *)
(*                                                                         *)
(* A row is the pair of an evaluator and an example; an "evaluator" here   *)
(* is one axis of the code's evaluators, and there is one prompt.  A       *)
(* score is abstracted to what the rules tell apart (Outcomes), rates and  *)
(* budgets are exact: a count over a count against a percentage.  What a   *)
(* t-test or a Wilcoxon test answers is real arithmetic, so a comparison   *)
(* that is tested gets any of TestResults.  A slice is named by a number:  *)
(* 0 is the implicit "all", and tags are numbered in the order in which    *)
(* equal slices prefer their names (provenance tags last, then by name).   *)
(* The critical-count budget is left out: it counts a metadata key that no *)
(* evaluator writes, so it is within its limit in every run.               *)
(***************************************************************************)
EXTENDS Integers, FiniteSets, FiniteSetsExt

CONSTANTS
    Examples,       \* the suite's examples
    Evaluators,     \* the configured evaluators, one per axis
    Kind,           \* [Evaluators -> Kinds]
    OutcomesOf,     \* [Evaluators -> SUBSET Outcomes]: what each may make of a pair
    NumTags,        \* tags, and so slices beside "all"
    Taggings,       \* the ways the suite may tag its examples
    Gates,          \* the sets of evaluators that may be blocking
    Policies,       \* the migration policies that may be configured
    CallRatios,     \* what the calls may say of cost and latency
    TestResults,    \* what a statistical test may answer
    MinN            \* MIN_N_FOR_TEST

Kinds == {"semantic", "arguments", "conformance", "divergence", "other"}

(* "mild": below the source, but within the similarity or drift floor;     *)
(* "missed": both sides missed the recorded ground truth by the same       *)
(* margin; "error": the measurement broke; "unmeasured": there was         *)
(* nothing to measure, so there is no row, only a count in the coverage.   *)
Outcomes == {"better", "equal", "mild", "worse", "missed", "error", "unmeasured"}

All == 0
Tags == 1 .. NumTags
Slices == 0 .. NumTags
Inherit == -1
SliceBudgets == {"regression", "equivalence", "drift", "divergence", "cost", "latency"}
Percent == 0 .. 100
Severities == {"critical", "high", "medium", "low", "none", "improved", "insufficient"}
Verdicts == {"pass", "conditional_pass", "fail", "inconclusive"}

ASSUME SuiteAssumption ==
    /\ IsFiniteSet(Examples) /\ IsFiniteSet(Evaluators)
    /\ NumTags \in Nat /\ MinN \in Nat \ {0}
    /\ Taggings \subseteq [Examples -> SUBSET Tags]

ASSUME EvaluatorAssumption ==
    /\ Kind \in [Evaluators -> Kinds]
    /\ OutcomesOf \in [Evaluators -> SUBSET Outcomes]
    /\ \A e \in Evaluators : "missed" \in OutcomesOf[e] => Kind[e] = "conformance"
    /\ Gates \subseteq SUBSET Evaluators

ASSUME PolicyAssumption ==
    \A p \in Policies :
        /\ \A b \in {"regression", "equivalence", "drift", "divergence"} : p[b] \in Percent
        /\ p.cost \in Nat /\ p.latency \in Nat
        /\ p.failOnDropped \in BOOLEAN
        /\ DOMAIN p.slices \subseteq Tags
        /\ \A t \in DOMAIN p.slices :
             /\ DOMAIN p.slices[t] = SliceBudgets
             /\ \A b \in SliceBudgets : p.slices[t][b] \in Nat \cup {Inherit}

ASSUME CallAssumption ==
    \A r \in CallRatios :
        /\ r.dropped \in BOOLEAN
        /\ r.cost.increase \in Nat /\ r.cost.measured \in BOOLEAN
        /\ r.latency.increase \in Nat /\ r.latency.measured \in BOOLEAN

VARIABLES
    phase,          \* which stage comes next
    tags,           \* the tags of each example
    gates,          \* the blocking evaluators
    policy,         \* the configured migration policy
    outcome,        \* [scored examples -> [Evaluators -> Outcomes]]
    collapsed,      \* [dropped slices -> the slice that stands in for each]
    comparisons,    \* [Slices \X Evaluators, those compared -> a comparison]
    calls,          \* what the calls say of cost, latency and dropped parameters
    decision        \* the verdict and what it rests on

vars == <<phase, tags, gates, policy, outcome, collapsed, comparisons, calls, decision>>
config == <<tags, gates, policy>>

NoCalls == [dropped |-> FALSE]
NoDecision == [verdict |-> "none", budgets |-> <<>>, slices |-> <<>>]

-----------------------------------------------------------------------------
(* Rows and slices.                                                        *)

Scored == DOMAIN outcome
Made(e, x) == outcome[x][e]
Of(s) == {x \in Scored : s = All \/ s \in tags[x]}
Measured(e, x) == Made(e, x) \notin {"error", "unmeasured"}
Unmeasured(e, x) == Made(e, x) = "unmeasured"

(* The rows a slice is built from; an errored row is in none.              *)
RowsOf(s) == {r \in Evaluators \X Of(s) : Measured(r[1], r[2])}

(* A slice exists when it has a row, or a pair that was not measured.      *)
Built == {s \in Slices : \E e \in Evaluators, x \in Of(s) : Made(e, x) # "error"}

Preferred == DOMAIN policy.slices
SameAsAll(s) == s \notin Preferred /\ RowsOf(s) = RowsOf(All)

DedupeAnyBudget ==
    LET named     == {s \in Built \cap Tags : RowsOf(s) # RowsOf(All)}
        winner(s) == Min({t \in named : RowsOf(t) = RowsOf(s)})
    IN  [s \in {t \in Built \cap Tags : t \in named => t # winner(t)} |->
            IF s \in named THEN winner(s) ELSE All]

(* dedupe_slices: what equals "all" goes to it, and of the others that are *)
(* equal one stays; a slice with a budget of its own always stays.         *)
Dedupe ==
    LET named     == {s \in Built \cap Tags : ~SameAsAll(s)}
        peers(s)  == {t \in named : RowsOf(t) = RowsOf(s)}
        winner(s) == IF peers(s) \cap Preferred # {} THEN Min(peers(s) \cap Preferred)
                                                     ELSE Min(peers(s))
        toAll     == {s \in Built \cap Tags : SameAsAll(s)}
        toPeer    == {s \in named : s # winner(s) /\ s \notin Preferred}
    IN  [s \in toAll \cup toPeer |-> IF s \in toAll THEN All ELSE winner(s)]

Kept == Built \ DOMAIN collapsed

-----------------------------------------------------------------------------
(* Comparisons.                                                            *)

Pairs(s, e) == {x \in Of(s) : Measured(e, x)}
Absent(s, e) == {x \in Of(s) : Unmeasured(e, x)}

(* Every evaluator that measured something in the slice, or was handed     *)
(* something there and measured nothing of it.                             *)
KeysWithCollapsed ==
    {k \in Built \X Evaluators :
        Absent(k[1], k[2]) # {} \/ (k[1] \in Kept /\ Pairs(k[1], k[2]) # {})}
KeysOfRowsOnly == {k \in Kept \X Evaluators : Pairs(k[1], k[2]) # {}}
Keys == {k \in Kept \X Evaluators : Pairs(k[1], k[2]) # {} \/ Absent(k[1], k[2]) # {}}

Delta(o) == CASE o = "better" -> 1 [] o \in {"mild", "worse"} -> -1 [] OTHER -> 0

(* What a comparison is made of: an evaluator and the examples it measured *)
(* there.  The same sample gets the same answer in every slice.            *)
Sample(k) == <<k[2], Pairs(k[1], k[2])>>
Deltas(sample) == {Delta(Made(sample[1], x)) : x \in sample[2]}
Samples(keys) == {sample \in {Sample(k) : k \in keys} : Cardinality(sample[2]) >= MinN}

(* The answers a sample may get: no variance, which zeros surely have and  *)
(* deltas of one sign may have, or a test in a direction the deltas allow. *)
Flat == [p |-> 1000, d |-> 0, up |-> FALSE, flat |-> TRUE]
Tested(r, up) == [p |-> r.p, d |-> r.d, up |-> up, flat |-> FALSE]
Answers(sample) ==
    (IF Cardinality(Deltas(sample)) = 1 THEN {Flat} ELSE {})
        \cup (IF  1 \in Deltas(sample) THEN {Tested(r, TRUE)  : r \in TestResults} ELSE {})
        \cup (IF -1 \in Deltas(sample) THEN {Tested(r, FALSE) : r \in TestResults} ELSE {})

(* Benjamini-Hochberg: whether the adjusted value of p is below alpha, in  *)
(* thousandths.  ps is the p-value of every comparison that ran a test;    *)
(* the adjusted value is the least q * n / rank over its q no less than p. *)
AdjustedBelow(p, ps, alpha) ==
    \E c \in DOMAIN ps :
        /\ ps[c] >= p
        /\ ps[c] * Cardinality(DOMAIN ps) <
                alpha * Cardinality({b \in DOMAIN ps : ps[b] <= ps[c]})

Severity(result, ps) ==
    IF ~AdjustedBelow(result.p, ps, 50) THEN "none"
    ELSE IF result.up THEN "improved"
    ELSE IF AdjustedBelow(result.p, ps, 10) /\ result.d = 3 THEN "critical"
    ELSE IF result.d >= 2 THEN "high"
    ELSE IF result.d = 1 THEN "medium" ELSE "low"

(* _one_comparison and what analyze makes of it after the correction.      *)
Comparisons(keys, ready, answer) ==
    LET tested == {k \in keys : Sample(k) \in ready /\ ~answer[Sample(k)].flat}
        ps     == [k \in tested |-> answer[Sample(k)].p]
    IN  [k \in keys |->
            LET n == Cardinality(Pairs(k[1], k[2]))
            IN  [n |-> n,
                 severity |-> IF n < MinN THEN "insufficient"
                              ELSE IF k \in tested THEN Severity(answer[Sample(k)], ps)
                              ELSE "none",
                 unmeasuredNote |-> n = 0, advisoryNote |-> n = 0 /\ k[2] \notin gates]]

-----------------------------------------------------------------------------
(* The policy.                                                             *)

AdvisoryNames ==
    {e \in Evaluators : e \notin gates /\ \E x \in Scored : ~Unmeasured(e, x)}
        \cup {k[2] : k \in {c \in DOMAIN comparisons : comparisons[c].advisoryNote}}
Gating == LET advisory == AdvisoryNames
          IN  {k \in DOMAIN comparisons : k[2] \notin advisory}
Compared == {k[1] : k \in DOMAIN comparisons} \ {All}

(* What a rate is counted over: the scored rows that say something about   *)
(* the migration.                                                          *)
Evidence(rows) == {r \in rows : Measured(r[1], r[2]) /\ Made(r[1], r[2]) # "missed"}
BlockingRows == gates \X Scored

EvaluatorsIn(s) == {k[2] : k \in {c \in Gating : c[1] = s}}
RowsForSlice(s) == (gates \cap EvaluatorsIn(s)) \X Scored

Regressed(r) ==
    Made(r[1], r[2]) = "worse" \/ (Made(r[1], r[2]) = "mild" /\ Kind[r[1]] # "semantic")
OfKind(rows, kind) == {r \in rows : Kind[r[1]] = kind}

(* The lower end of the Wilson interval of count over n is above the       *)
(* budget, with z = 49/25.                                                 *)
WilsonAbove(count, n, budget) ==
    LET gap == 100 * count - budget * n
    IN  n > 0 /\ gap > 0 /\ 625 * gap * gap > 2401 * n * budget * (100 - budget)

Budget(name, count, n, allowed, within, confirmed) ==
    [name |-> name, count |-> count, n |-> n, allowed |-> allowed, passed |-> within,
     conclusive |-> n > 0 /\ (within \/ confirmed)]

RateCeiling(name, count, n, allowed) ==
    Budget(name, count, n, allowed, 100 * count <= allowed * n, WilsonAbove(count, n, allowed))

CallBudget(name, ratio, allowed) ==
    [name |-> name, count |-> ratio.increase, n |-> 0, allowed |-> allowed,
     passed |-> ratio.increase <= allowed, conclusive |-> ratio.measured]

(* _metrics, _budget_denominators and _budget_results of one scope.        *)
BudgetResults(rows, limits, ratios) ==
    LET evidence  == Evidence(rows)
        n         == Cardinality(evidence)
        regressed == Cardinality({r \in evidence : Regressed(r)})
        argued    == OfKind(evidence, "arguments")
        drifted   == {r \in argued : Made(r[1], r[2]) = "worse"}
        diverging == OfKind(evidence, "divergence")
        diverged  == {r \in diverging : Delta(Made(r[1], r[2])) < 0}
    IN  {RateCeiling("regression", regressed, n, limits.regression),
         Budget("equivalence", n - regressed, n, limits.equivalence,
                100 * (n - regressed) >= limits.equivalence * n,
                WilsonAbove(regressed, n, 100 - limits.equivalence)),
         RateCeiling("drift", Cardinality(drifted), Cardinality(argued), limits.drift),
         RateCeiling("divergence", Cardinality(diverged), Cardinality(diverging),
                     limits.divergence),
         CallBudget("cost", ratios.cost, limits.cost),
         CallBudget("latency", ratios.latency, limits.latency)}

SlicePolicy(s) ==
    IF s \notin Preferred THEN policy
    ELSE [b \in SliceBudgets |->
            IF policy.slices[s][b] = Inherit THEN policy[b] ELSE policy.slices[s][b]]

Confirmed(budgets) == \E b \in budgets : ~b.passed /\ b.conclusive
Breached(budgets) == \E b \in budgets : ~b.passed

VerdictFor(severities, budgets) ==
    IF severities = {"insufficient"} THEN "inconclusive"
    ELSE IF Confirmed(budgets) \/ severities \cap {"critical", "high"} # {} THEN "fail"
    ELSE IF Breached(budgets) THEN "inconclusive"
    ELSE IF severities \cap {"medium", "low"} # {} THEN "conditional_pass"
    ELSE "pass"

SeveritiesIn(s) == {comparisons[k].severity : k \in {c \in Gating : c[1] = s}}

(* Gating evaluators with a comparison in which nothing was measured.      *)
UnmeasuredGates == {k[2] : k \in {c \in Gating : comparisons[c].unmeasuredNote}}

Budgets(ratios) == [s \in Compared \cup {All} |->
    IF s = All THEN BudgetResults(BlockingRows, policy, ratios)
               ELSE BudgetResults(RowsForSlice(s), SlicePolicy(s), ratios)]

SliceVerdicts(budgets) == [s \in Compared |-> VerdictFor(SeveritiesIn(s), budgets[s])]

(* A slice's budget gates the run like an overall one; one that measured   *)
(* what an overall row did is that row.                                    *)
OverallBudgetsOnly(budgets) == budgets[All]
GatingBudgets(budgets) == UNION {budgets[s] : s \in DOMAIN budgets}

OverallVerdict(budgets, slices) ==
    LET gating  == GatingBudgets(budgets)
        verdict == VerdictFor(SeveritiesIn(All), gating)
        some(kinds) == \E s \in DOMAIN slices : slices[s] \in kinds
    IN  IF Evidence(BlockingRows) = {}
        THEN IF Confirmed(gating) THEN "fail" ELSE "inconclusive"
        ELSE IF verdict = "pass"
        THEN IF some({"fail"}) \/ UnmeasuredGates # {} THEN "conditional_pass" ELSE "pass"
        ELSE IF SeveritiesIn(All) = {} /\ some({"fail", "conditional_pass"})
        THEN "conditional_pass" ELSE verdict

-----------------------------------------------------------------------------
(* The stages.                                                             *)

Init ==
    /\ phase = "evaluate"
    /\ tags \in Taggings
    /\ gates \in Gates
    /\ policy \in Policies
    /\ outcome = <<>>
    /\ collapsed = <<>>
    /\ comparisons = <<>>
    /\ calls = NoCalls
    /\ decision = NoDecision

(* _score_one for every evaluator on one example's pair of calls.          *)
Score(x) ==
    /\ phase = "evaluate"
    /\ x \notin Scored
    /\ \E made \in [Evaluators -> Outcomes] :
        /\ \A e \in Evaluators : made[e] \in OutcomesOf[e]
        /\ outcome' = [y \in Scored \cup {x} |-> IF y = x THEN made ELSE outcome[y]]
    /\ phase' = IF Scored \cup {x} = Examples THEN "slice" ELSE phase
    /\ UNCHANGED <<config, collapsed, comparisons, calls, decision>>

Slice ==
    /\ phase = "slice"
    /\ \E e \in Evaluators, x \in Scored : ~Unmeasured(e, x)   \* scores.jsonl is not empty
    /\ collapsed' = Dedupe
    /\ phase' = "compare"
    /\ UNCHANGED <<config, outcome, comparisons, calls, decision>>

Compare ==
    /\ phase = "compare"
    /\ LET keys  == Keys
           ready == Samples(keys)
       IN  \E answer \in [ready -> UNION {Answers(sample) : sample \in ready}] :
            /\ \A sample \in ready : answer[sample] \in Answers(sample)
            /\ \A a, b \in ready :
                a[1] = b[1] /\ a[2] \subseteq b[2] /\ answer[b].flat => answer[a].flat
            /\ comparisons' = Comparisons(keys, ready, answer)
    /\ phase' = "decide"
    /\ UNCHANGED <<config, outcome, collapsed, calls, decision>>

Decide ==
    /\ phase = "decide"
    /\ calls' \in CallRatios
    /\ LET budgets == Budgets(calls')
           slices  == SliceVerdicts(budgets)
       IN  decision' = [budgets |-> budgets, slices |-> slices,
                        verdict |-> IF policy.failOnDropped /\ calls'.dropped THEN "fail"
                                    ELSE OverallVerdict(budgets, slices)]
    /\ phase' = "decided"
    /\ UNCHANGED <<config, outcome, collapsed, comparisons>>

Next == (\E x \in Examples : Score(x)) \/ Slice \/ Compare \/ Decide

Spec == Init /\ [][Next]_vars

-----------------------------------------------------------------------------
(* Properties.                                                             *)

BudgetRecords ==
    [name : SliceBudgets, count : Nat, n : Nat, allowed : Nat,
     passed : BOOLEAN, conclusive : BOOLEAN]

(* Every stage leaves what the next one reads.                             *)
TypeOK ==
    /\ phase \in {"evaluate", "slice", "compare", "decide", "decided"}
    /\ tags \in Taggings /\ gates \in Gates /\ policy \in Policies
    /\ calls \in CallRatios \cup {NoCalls}
    /\ Scored \subseteq Examples /\ outcome \in [Scored -> [Evaluators -> Outcomes]]
    /\ DOMAIN collapsed \subseteq Tags /\ collapsed \in [DOMAIN collapsed -> Kept]
    /\ DOMAIN comparisons \subseteq Kept \X Evaluators
    /\ \A k \in DOMAIN comparisons : comparisons[k].severity \in Severities
    /\ decision.verdict \in Verdicts \cup {"none"}
    /\ \A s \in DOMAIN decision.budgets : decision.budgets[s] \subseteq BudgetRecords

(* A pass rests on evidence: some gate measured enough pairs for a test,   *)
(* some row says something about the migration, and in every slice that is *)
(* reported no gate was handed pairs and measured none of them             *)
(* (_verdict_for, unmeasured_gating_evaluators).                           *)
PassIsMeasured ==
    decision.verdict = "pass" =>
        /\ \E e \in gates : Cardinality(Pairs(All, e)) >= MinN
        /\ Evidence(BlockingRows) # {}
        /\ \A s \in Kept, e \in gates : Absent(s, e) # {} => Pairs(s, e) # {}

(* A slice the policy gives a budget of its own is judged by that budget   *)
(* whenever anything was scored in it, whatever other slice holds the same *)
(* rows (dedupe_slices' preferred names).                                  *)
BudgetedSlicesAreJudged ==
    phase = "decided" =>
        \A s \in Preferred \cap Built :
            /\ s \in DOMAIN decision.slices
            /\ \A b \in decision.budgets[s] : b.allowed = SlicePolicy(s)[b.name]

(* A breach the sample confirms is never passed over, in whichever scope   *)
(* it lies: the run fails, or is inconclusive for lack of rows.            *)
ConfirmedBreachBlocks ==
    \A s \in DOMAIN decision.budgets :
        Confirmed(decision.budgets[s]) => decision.verdict \in {"fail", "inconclusive"}

=============================================================================
