--------------------------- MODULE VerdictProofs ---------------------------
(***************************************************************************)
(* What Verdict's runs check on three examples, for any suite, evaluators, *)
(* tags and policy.  The analysis is a chain of stages, so the invariant   *)
(* says what each stage hands to the next: which slices were collapsed,    *)
(* which comparisons there are and what their notes say, and that there is *)
(* no decision before the last stage.  The theorems then follow from       *)
(* lemmas about one state.                                                 *)
(***************************************************************************)
EXTENDS Verdict, FiniteSetTheorems, WellFoundedInduction, TLAPS

(* The implicit slice and the slices with a budget are never collapsed.    *)
KeptWhatCounts == DOMAIN collapsed \cap (Preferred \cup {All}) = {}

(* There is a comparison for every key, and its notes are true.            *)
ComparisonsFit ==
    /\ DOMAIN comparisons = Keys
    /\ \A k \in Keys :
        LET n == Cardinality(Pairs(k[1], k[2]))
        IN  /\ comparisons[k].severity = "insufficient" <=> n < MinN
            /\ comparisons[k].unmeasuredNote <=> n = 0
            /\ comparisons[k].advisoryNote <=> n = 0 /\ k[2] \notin gates

Inv ==
    /\ phase \in {"evaluate", "slice", "compare", "decide", "decided"}
    /\ tags \in Taggings /\ gates \in Gates /\ policy \in Policies
    /\ Scored \subseteq Examples
    /\ KeptWhatCounts
    /\ phase \in {"decide", "decided"} => ComparisonsFit
    /\ phase # "decided" => decision = NoDecision

-----------------------------------------------------------------------------
(* Stages that leave the scores alone leave what is derived from them.     *)

LEMMA PairsFrame ==
    ASSUME UNCHANGED <<tags, outcome>>
    PROVE  \A s, e : Pairs(s, e)' = Pairs(s, e) /\ Absent(s, e)' = Absent(s, e)
  BY DEF Pairs, Absent, Of, Scored, Made, Measured, Unmeasured

LEMMA KeysFrame ==
    ASSUME UNCHANGED <<tags, outcome, collapsed>>
    PROVE  Built' = Built /\ Kept' = Kept /\ Keys' = Keys
<1>1. Built' = Built
  BY DEF Built, Of, Scored, Made
<1>2. Kept' = Kept
  BY <1>1 DEF Kept
<1>3. Keys' = Keys
  BY <1>2, PairsFrame DEF Keys
<1> QED BY <1>1, <1>2, <1>3

LEMMA FitFrame ==
    ASSUME UNCHANGED <<tags, gates, outcome, collapsed, comparisons>>, ComparisonsFit
    PROVE  ComparisonsFit'
  BY PairsFrame, KeysFrame DEF ComparisonsFit

-----------------------------------------------------------------------------
(* What the stages make of one state.                                      *)

LEMMA KeyIsPair ==
    ASSUME NEW k \in Keys
    PROVE  k = <<k[1], k[2]>> /\ k[1] \in Kept /\ k[2] \in Evaluators
  BY DEF Keys

LEMMA NothingMeasured ==
    ASSUME Scored \subseteq Examples, NEW s, NEW e
    PROVE  Cardinality(Pairs(s, e)) = 0 <=> Pairs(s, e) = {}
<1>1. Pairs(s, e) \subseteq Examples
  BY DEF Pairs, Of
<1>2. IsFiniteSet(Pairs(s, e))
  BY <1>1, SuiteAssumption, FS_Subset
<1> QED BY <1>2, FS_EmptySet

(* The comparisons that gate are those of the blocking evaluators: an      *)
(* advisory one is known by its rows, or by the note when it has none.     *)
LEMMA OnlyGatesGate ==
    ASSUME Scored \subseteq Examples, gates \subseteq Evaluators, ComparisonsFit
    PROVE  Gating = {k \in Keys : k[2] \in gates}
<1>1. ASSUME NEW k \in Keys, k[2] \in gates
      PROVE  k[2] \notin AdvisoryNames
  BY <1>1 DEF AdvisoryNames, ComparisonsFit
<1>2. ASSUME NEW k \in Keys, k[2] \notin gates
      PROVE  k[2] \in AdvisoryNames
  <2>1. CASE Pairs(k[1], k[2]) # {}
    <3>1. PICK x \in Scored : Measured(k[2], x)
      BY <2>1 DEF Pairs, Of
    <3>2. ~Unmeasured(k[2], x)
      BY <3>1 DEF Measured, Unmeasured
    <3> QED BY <1>2, <3>2, KeyIsPair DEF AdvisoryNames
  <2>2. CASE Pairs(k[1], k[2]) = {}
    <3>1. comparisons[k].advisoryNote
      BY <1>2, <2>2, NothingMeasured DEF ComparisonsFit
    <3> QED BY <3>1 DEF AdvisoryNames, ComparisonsFit
  <2> QED BY <2>1, <2>2
<1> QED BY <1>1, <1>2 DEF Gating, ComparisonsFit

(* A blocking row that says something about the migration is in an overall *)
(* comparison that gates.                                                  *)
LEMMA EvidenceIsCompared ==
    ASSUME Scored \subseteq Examples, gates \subseteq Evaluators,
           ComparisonsFit, KeptWhatCounts, Evidence(BlockingRows) # {}
    PROVE  SeveritiesIn(All) # {}
<1>1. PICK r \in gates \X Scored : Measured(r[1], r[2])
  BY DEF Evidence, BlockingRows
<1> DEFINE e == r[1]
           x == r[2]
<1>2. e \in gates /\ x \in Of(All) /\ Measured(e, x) /\ Made(e, x) # "error"
  BY <1>1 DEF Of, Measured
<1>3. All \in Kept
  <2>1. All \in Built
    BY <1>2, SuiteAssumption DEF Built, All, Slices
  <2> QED BY <2>1 DEF Kept, KeptWhatCounts
<1>4. <<All, e>> \in Keys
  BY <1>2, <1>3 DEF Keys, Pairs
<1>5. <<All, e>> \in Gating
  BY <1>2, <1>4, OnlyGatesGate
<1> QED BY <1>5 DEF SeveritiesIn

(* The facts a pass rests on.                                              *)
PassFacts ==
    /\ \E e \in gates : Cardinality(Pairs(All, e)) >= MinN
    /\ Evidence(BlockingRows) # {}
    /\ \A s \in Kept, e \in gates : Absent(s, e) # {} => Pairs(s, e) # {}

LEMMA PassRestsOnFacts ==
    ASSUME Scored \subseteq Examples, gates \subseteq Evaluators,
           ComparisonsFit, KeptWhatCounts,
           NEW budgets, NEW slices, OverallVerdict(budgets, slices) = "pass"
    PROVE  PassFacts
<1>1. /\ Evidence(BlockingRows) # {}
      /\ UnmeasuredGates = {}
      /\ VerdictFor(SeveritiesIn(All), GatingBudgets(budgets)) = "pass"
  BY DEF OverallVerdict
<1>2. SeveritiesIn(All) # {"insufficient"}
  BY <1>1 DEF VerdictFor
<1>3. PICK k \in Gating : k[1] = All /\ comparisons[k].severity # "insufficient"
  BY <1>1, <1>2, EvidenceIsCompared DEF SeveritiesIn
<1>4. k \in Keys /\ k[2] \in gates
  BY <1>3, OnlyGatesGate
<1>5. Cardinality(Pairs(All, k[2])) >= MinN
  <2>1. IsFiniteSet(Pairs(All, k[2]))
    BY SuiteAssumption, FS_Subset DEF Pairs, Of
  <2>2. Cardinality(Pairs(All, k[2])) \in Nat
    BY <2>1, FS_CardinalityType
  <2>3. ~(Cardinality(Pairs(All, k[2])) < MinN)
    BY <1>3, <1>4 DEF ComparisonsFit
  <2> QED BY <2>2, <2>3, SuiteAssumption
<1>6. ASSUME NEW s \in Kept, NEW e \in gates, Absent(s, e) # {}
      PROVE  Pairs(s, e) # {}
  <2>1. <<s, e>> \in Keys
    BY <1>6 DEF Keys
  <2>2. <<s, e>> \in Gating
    BY <2>1, OnlyGatesGate
  <2>3. ~comparisons[<<s, e>>].unmeasuredNote
    BY <1>1, <2>2 DEF UnmeasuredGates
  <2> QED BY <2>1, <2>3, NothingMeasured DEF ComparisonsFit
<1> QED BY <1>1, <1>4, <1>5, <1>6 DEF PassFacts

(* A confirmed breach of any scope is one of the gating budgets, and with  *)
(* evidence there is an overall comparison, so no branch softens it.       *)
LEMMA BreachIsNotPassedOver ==
    ASSUME Scored \subseteq Examples, gates \subseteq Evaluators,
           ComparisonsFit, KeptWhatCounts,
           NEW budgets, NEW slices, NEW s \in DOMAIN budgets, Confirmed(budgets[s])
    PROVE  OverallVerdict(budgets, slices) \in {"fail", "inconclusive"}
<1>1. Confirmed(GatingBudgets(budgets))
  BY DEF Confirmed, GatingBudgets
<1>2. VerdictFor(SeveritiesIn(All), GatingBudgets(budgets)) \in {"fail", "inconclusive"}
  BY <1>1 DEF VerdictFor
<1>3. CASE Evidence(BlockingRows) = {}
  BY <1>1, <1>3 DEF OverallVerdict
<1>4. CASE Evidence(BlockingRows) # {}
  BY <1>2, <1>4, EvidenceIsCompared DEF OverallVerdict
<1> QED BY <1>3, <1>4

(* A slice the policy names is kept, and so has comparisons and budgets of *)
(* its own limits.                                                         *)
LEMMA NamedSliceIsJudged ==
    ASSUME policy \in Policies, ComparisonsFit, KeptWhatCounts,
           NEW ratios, NEW s \in Preferred \cap Built
    PROVE  /\ s \in Compared
           /\ \A b \in Budgets(ratios)[s] : b.allowed = SlicePolicy(s)[b.name]
<1>1. s \in Tags /\ s # All
  BY PolicyAssumption, SuiteAssumption DEF Preferred, Tags, All
<1>2. s \in Kept
  BY DEF Kept, KeptWhatCounts
<1>3. PICK e \in Evaluators, x \in Of(s) : Made(e, x) # "error"
  BY DEF Built
<1>4. x \in Pairs(s, e) \/ x \in Absent(s, e)
  BY <1>3 DEF Pairs, Absent, Measured, Unmeasured
<1>5. <<s, e>> \in Keys
  BY <1>2, <1>3, <1>4 DEF Keys
<1>6. s \in Compared
  BY <1>1, <1>5 DEF Compared, ComparisonsFit
<1>7. Budgets(ratios)[s] = BudgetResults(RowsForSlice(s), SlicePolicy(s), ratios)
  BY <1>1, <1>6 DEF Budgets
<1>8. ASSUME NEW rows, NEW limits,
             NEW b \in BudgetResults(rows, limits, ratios)
      PROVE  b.allowed = limits[b.name]
  BY DEF BudgetResults, RateCeiling, Budget, CallBudget
<1> QED BY <1>6, <1>7, <1>8

-----------------------------------------------------------------------------
(* The invariant.                                                          *)

LEMMA DedupeKeeps == DOMAIN Dedupe \cap (Preferred \cup {All}) = {}
  BY SuiteAssumption DEF Dedupe, SameAsAll, Tags, All

LEMMA ComparisonsAreMade ==
    ASSUME NEW ready, NEW answer
    PROVE  LET made == Comparisons(Keys, ready, answer)
           IN  /\ DOMAIN made = Keys
               /\ \A k \in Keys :
                    LET n == Cardinality(Pairs(k[1], k[2]))
                    IN  /\ made[k].severity = "insufficient" <=> n < MinN
                        /\ made[k].unmeasuredNote <=> n = 0
                        /\ made[k].advisoryNote <=> n = 0 /\ k[2] \notin gates
<1> DEFINE made == Comparisons(Keys, ready, answer)
<1>1. DOMAIN made = Keys
  BY DEF Comparisons
<1>2. ASSUME NEW result, NEW ps
      PROVE  Severity(result, ps) # "insufficient"
  BY DEF Severity
<1>3. ASSUME NEW k \in Keys
      PROVE  LET n == Cardinality(Pairs(k[1], k[2]))
             IN  /\ made[k].severity = "insufficient" <=> n < MinN
                 /\ made[k].unmeasuredNote <=> n = 0
                 /\ made[k].advisoryNote <=> n = 0 /\ k[2] \notin gates
  BY <1>2 DEF Comparisons
<1> QED BY <1>1, <1>3

(* What one stage hands to the next holds throughout (analyze_evaluation). *)
THEOREM Invariant == Spec => []Inv
<1>1. Init => Inv
  BY DEF Init, Inv, KeptWhatCounts, Scored
<1>2. Inv /\ [Next]_vars => Inv'
  <2> SUFFICES ASSUME Inv, [Next]_vars
               PROVE  Inv'
    OBVIOUS
  <2> USE DEF Inv
  <2>1. ASSUME NEW x \in Examples, Score(x)
        PROVE  Inv'
    <3>1. Scored' = Scored \cup {x}
      BY <2>1 DEF Score, Scored
    <3> QED BY <2>1, <3>1 DEF Score, config, KeptWhatCounts, Preferred
  <2>2. CASE Slice
    <3>1. KeptWhatCounts'
      BY <2>2, DedupeKeeps DEF Slice, config, KeptWhatCounts, Preferred
    <3> QED BY <2>2, <3>1 DEF Slice, config, Scored
  <2>3. CASE Compare
    <3>1. PICK ready, answer : comparisons' = Comparisons(Keys, ready, answer)
      BY <2>3 DEF Compare
    <3>2. UNCHANGED <<tags, gates, outcome, collapsed>>
      BY <2>3 DEF Compare, config
    <3>3. ComparisonsFit'
      BY <3>1, <3>2, ComparisonsAreMade, PairsFrame, KeysFrame DEF ComparisonsFit
    <3> QED BY <2>3, <3>3 DEF Compare, config, KeptWhatCounts, Preferred, Scored
  <2>4. CASE Decide
    <3>1. ComparisonsFit'
      BY <2>4, FitFrame DEF Decide, config
    <3> QED BY <2>4, <3>1 DEF Decide, config, KeptWhatCounts, Preferred, Scored
  <2>5. CASE UNCHANGED vars
    <3>1. phase \in {"decide", "decided"} => ComparisonsFit'
      BY <2>5, FitFrame DEF vars
    <3> QED BY <2>5, <3>1 DEF vars, KeptWhatCounts, Preferred, Scored
  <2> QED BY <2>1, <2>2, <2>3, <2>4, <2>5 DEF Next
<1> QED BY <1>1, <1>2, PTL DEF Spec

-----------------------------------------------------------------------------
(* The theorems.                                                           *)

LEMMA GatesEvaluate == Inv => gates \subseteq Evaluators
  BY EvaluatorAssumption DEF Inv

LEMMA PassFactsFrame ==
    ASSUME UNCHANGED <<tags, gates, outcome, collapsed>>
    PROVE  PassFacts' <=> PassFacts
<1>1. Evidence(BlockingRows)' = Evidence(BlockingRows)
  BY DEF Evidence, BlockingRows, Measured, Made, Scored
<1> QED BY <1>1, PairsFrame, KeysFrame DEF PassFacts

(* A run passes only on measured evidence, and no gate was silent in a     *)
(* slice it was handed pairs in (_verdict_for, unmeasured_gating_evaluators). *)
THEOREM MeasuredPass == Spec => []PassIsMeasured
<1>1. Init => PassIsMeasured
  BY DEF Init, PassIsMeasured, NoDecision
<1>2. Inv /\ Inv' /\ PassIsMeasured /\ [Next]_vars => PassIsMeasured'
  <2> SUFFICES ASSUME Inv, Inv', PassIsMeasured, [Next]_vars, decision.verdict' = "pass"
               PROVE  PassFacts'
    BY DEF PassIsMeasured, PassFacts
  <2>1. CASE phase' # "decided"
    BY <2>1 DEF Inv, NoDecision
  <2>2. CASE Decide
    <3>1. PICK budgets, slices : OverallVerdict(budgets, slices) = "pass"
      BY <2>2 DEF Decide
    <3>2. PassFacts
      BY <2>2, <3>1, GatesEvaluate, PassRestsOnFacts DEF Inv, Decide
    <3> QED BY <2>2, <3>2, PassFactsFrame DEF Decide, config
  <2>3. CASE UNCHANGED vars
    BY <2>3, PassFactsFrame DEF vars, PassIsMeasured, PassFacts
  <2> QED BY <2>1, <2>2, <2>3 DEF Next, Score, Slice, Compare, Inv
<1> QED BY <1>1, <1>2, Invariant, PTL DEF Spec

(* A confirmed breach in any scope fails the run or leaves it inconclusive *)
(* (_gating_budgets, _verdict_for).                                        *)
THEOREM BreachBlocks == Spec => []ConfirmedBreachBlocks
<1>1. Init => ConfirmedBreachBlocks
  BY DEF Init, ConfirmedBreachBlocks, NoDecision
<1>2. Inv /\ ConfirmedBreachBlocks /\ [Next]_vars => ConfirmedBreachBlocks'
  <2> SUFFICES ASSUME Inv, ConfirmedBreachBlocks, [Next]_vars
               PROVE  ConfirmedBreachBlocks'
    OBVIOUS
  <2>1. CASE UNCHANGED decision
    BY <2>1 DEF ConfirmedBreachBlocks, Confirmed
  <2>2. CASE Decide
    <3> SUFFICES ASSUME NEW s \in DOMAIN decision'.budgets,
                        Confirmed(decision'.budgets[s])
                 PROVE  decision'.verdict \in {"fail", "inconclusive"}
      BY DEF ConfirmedBreachBlocks, Confirmed
    <3>1. PICK slices :
            \/ decision'.verdict = "fail"
            \/ decision'.verdict = OverallVerdict(decision'.budgets, slices)
      BY <2>2 DEF Decide
    <3>2. OverallVerdict(decision'.budgets, slices) \in {"fail", "inconclusive"}
      BY <2>2, GatesEvaluate, BreachIsNotPassedOver DEF Inv, Decide
    <3> QED BY <3>1, <3>2
  <2> QED BY <2>1, <2>2 DEF Next, Score, Slice, Compare, vars
<1> QED BY <1>1, <1>2, Invariant, PTL DEF Spec

(* A slice with a budget of its own is always judged, and by that budget   *)
(* (dedupe_slices, _slice_policy).                                         *)
THEOREM BudgetedSlices == Spec => []BudgetedSlicesAreJudged
<1>1. Init => BudgetedSlicesAreJudged
  BY DEF Init, BudgetedSlicesAreJudged
<1>2. Inv /\ BudgetedSlicesAreJudged /\ [Next]_vars => BudgetedSlicesAreJudged'
  <2> SUFFICES ASSUME Inv, BudgetedSlicesAreJudged, [Next]_vars, phase' = "decided"
               PROVE  BudgetedSlicesAreJudged'
    BY DEF BudgetedSlicesAreJudged
  <2>1. CASE Decide
    <3>1. /\ Preferred' = Preferred /\ Built' = Built
          /\ \A s : SlicePolicy(s)' = SlicePolicy(s)
      BY <2>1, KeysFrame DEF Decide, config, Preferred, SlicePolicy
    <3> SUFFICES ASSUME NEW s \in Preferred \cap Built
                 PROVE  /\ s \in DOMAIN decision'.slices
                        /\ \A b \in decision'.budgets[s] :
                              b.allowed = SlicePolicy(s)[b.name]
      BY <3>1 DEF BudgetedSlicesAreJudged
    <3>2. /\ decision'.budgets = Budgets(calls')
          /\ DOMAIN decision'.slices = Compared
      BY <2>1 DEF Decide, SliceVerdicts
    <3> QED BY <2>1, <3>2, NamedSliceIsJudged DEF Inv, Decide
  <2>2. CASE UNCHANGED vars
    <3>1. /\ Preferred' = Preferred /\ Built' = Built
          /\ \A s : SlicePolicy(s)' = SlicePolicy(s)
      BY <2>2, KeysFrame DEF vars, Preferred, SlicePolicy
    <3> QED BY <2>2, <3>1 DEF vars, BudgetedSlicesAreJudged
  <2> QED BY <2>1, <2>2 DEF Next, Score, Slice, Compare
<1> QED BY <1>1, <1>2, Invariant, PTL DEF Spec

-----------------------------------------------------------------------------
(* Types.                                                                  *)

(* The least of some numbers is one of them: their sets of smaller numbers *)
(* are finite, so one of these has no other inside it.                     *)
LEMMA MinIsOne ==
    ASSUME NEW S \in SUBSET Nat, S # {}
    PROVE  Min(S) \in S /\ \A y \in S : Min(S) <= y
<1> DEFINE Below(x) == {y \in S : y < x}
           T == {Below(x) : x \in S}
           R == StrictSubsetOrdering(Nat)
<1>0. \A x \in S : x \in Nat
  OBVIOUS
<1>1. T \subseteq FiniteSubsetsOf(Nat)
  <2> SUFFICES ASSUME NEW x \in S PROVE Below(x) \in FiniteSubsetsOf(Nat)
    OBVIOUS
  <2>1. IsFiniteSet(0 .. x)
    BY FS_Interval
  <2>2. Below(x) \subseteq 0 .. x
    <3> SUFFICES ASSUME NEW y \in Below(x) PROVE y \in 0 .. x
      OBVIOUS
    <3>1. y \in S /\ y < x
      OBVIOUS
    <3>2. x \in Nat /\ y \in Nat
      BY <1>0, <3>1
    <3> QED
      BY <3>1, <3>2
  <2>3. IsFiniteSet(Below(x))
    BY <2>1, <2>2, FS_Subset
  <2> QED
    BY <2>3 DEF FiniteSubsetsOf
<1>2. \E b \in T : \A d \in T : <<d, b>> \notin R
  <2>1. T # {} /\ IsWellFoundedOn(R, FiniteSubsetsOf(Nat))
    BY FS_StrictSubsetOrderingWellFounded
  <2> HIDE DEF T, R
  <2> QED
    BY <1>1, <2>1, WFMin
<1>3. PICK x \in S : \A y \in S : <<Below(y), Below(x)>> \notin R
  BY <1>2
<1>4. ASSUME NEW y \in S PROVE x <= y
  <2> SUFFICES ASSUME y < x PROVE FALSE
    BY <1>0
  <2>1. Below(y) \subseteq Below(x) /\ y \in Below(x) /\ y \notin Below(y)
    <3>1. x \in Nat /\ y \in Nat
      BY <1>0
    <3>2. ASSUME NEW z \in S, z < y PROVE z < x
      <4>1. z \in Nat
        BY <1>0
      <4> QED
        BY <3>1, <3>2, <4>1
    <3>3. ~(y < y)
      BY <3>1
    <3> QED
      BY <3>2, <3>3, Zenon
  <2>2. Below(y) # Below(x)
    BY <2>1
  <2>3. Below(y) \in SUBSET Nat /\ Below(x) \in SUBSET Nat
    OBVIOUS
  <2> HIDE DEF Below
  <2> QED
    BY <1>3, <2>1, <2>2, <2>3 DEF StrictSubsetOrdering
<1> QED
  BY <1>4 DEF Min

(* What stands in for a collapsed slice is kept itself (dedupe_slices).    *)
LEMMA StandInsAreKept ==
    /\ DOMAIN Dedupe \subseteq Tags
    /\ Dedupe \in [DOMAIN Dedupe -> Built \ DOMAIN Dedupe]
<1> DEFINE named     == {s \in Built \cap Tags : ~SameAsAll(s)}
           peers(s)  == {t \in named : RowsOf(t) = RowsOf(s)}
           winner(s) == IF peers(s) \cap Preferred # {} THEN Min(peers(s) \cap Preferred)
                                                        ELSE Min(peers(s))
           toAll     == {s \in Built \cap Tags : SameAsAll(s)}
           toPeer    == {s \in named : s # winner(s) /\ s \notin Preferred}
<1>1. Dedupe = [s \in toAll \cup toPeer |-> IF s \in toAll THEN All ELSE winner(s)]
  BY DEF Dedupe
<1>2. toAll \cup toPeer \subseteq Tags /\ named \cap toAll = {}
  OBVIOUS
<1>3. ASSUME NEW s \in toAll PROVE All \in Built \ (toAll \cup toPeer)
  <2>1. All \notin Tags /\ All \in Slices
    BY SuiteAssumption DEF All, Tags, Slices
  <2>2. All \in Built
    BY <2>1 DEF Built, Of
  <2> QED
    BY <1>2, <2>1, <2>2
<1>4. ASSUME NEW s \in named
      PROVE  winner(s) \in peers(s) /\ winner(winner(s)) = winner(s)
  <2>1. s \in peers(s) /\ peers(s) \subseteq Nat
    BY DEF Tags
  <2>2. peers(s) \cap Preferred # {} => Min(peers(s) \cap Preferred) \in peers(s) \cap Preferred
    <3> HIDE DEF peers
    <3> SUFFICES ASSUME peers(s) \cap Preferred # {}
                 PROVE  Min(peers(s) \cap Preferred) \in peers(s) \cap Preferred
      OBVIOUS
    <3>1. peers(s) \cap Preferred \in SUBSET Nat
      BY <2>1
    <3> QED
      BY <3>1, MinIsOne
  <2>3. Min(peers(s)) \in peers(s)
    <3> HIDE DEF peers
    <3> QED
      BY <2>1, MinIsOne
  <2>4. winner(s) \in peers(s)
    <3> HIDE DEF peers
    <3> QED
      BY <2>2, <2>3
  <2>5. peers(winner(s)) = peers(s)
    <3> HIDE DEF winner
    <3> QED
      BY <2>4
  <2> QED
    BY <2>4, <2>5, Zenon
<1>5. ASSUME NEW s \in toPeer PROVE winner(s) \in Built \ (toAll \cup toPeer)
  <2>1. winner(s) \in named /\ winner(winner(s)) = winner(s)
    <3>1. s \in named
      OBVIOUS
    <3> HIDE DEF named, winner
    <3> QED
      BY <1>4, <3>1 DEF peers
  <2> HIDE DEF winner
  <2> QED
    BY <1>2, <2>1
<1> HIDE DEF named, peers, winner, toAll, toPeer
<1>6. \A s \in toAll \cup toPeer :
        (IF s \in toAll THEN All ELSE winner(s)) \in Built \ (toAll \cup toPeer)
  BY <1>3, <1>5
<1> QED
  BY <1>1, <1>2, <1>6

(* The limits of a scope are numbers, its own or the policy's.             *)
LEMMA PolicyLimits ==
    ASSUME policy \in Policies, NEW s
    PROVE  /\ \A b \in SliceBudgets : policy[b] \in Nat
           /\ \A b \in SliceBudgets : SlicePolicy(s)[b] \in Nat
<1>1. \A b \in SliceBudgets : policy[b] \in Nat
  <2>1. /\ policy["regression"] \in Nat /\ policy["equivalence"] \in Nat
        /\ policy["drift"] \in Nat /\ policy["divergence"] \in Nat
        /\ policy["cost"] \in Nat /\ policy["latency"] \in Nat
    BY PolicyAssumption DEF Percent
  <2> QED
    BY <2>1 DEF SliceBudgets
<1>2. CASE s \notin Preferred
  BY <1>1, <1>2 DEF SlicePolicy
<1>3. CASE s \in Preferred
  <2>1. \A b \in SliceBudgets : policy.slices[s][b] \in Nat \cup {Inherit}
    BY <1>3, PolicyAssumption DEF Preferred
  <2> QED
    BY <1>1, <1>3, <2>1 DEF SlicePolicy
<1> QED
  BY <1>1, <1>2, <1>3

LEMMA PartsCount ==
    ASSUME NEW S, IsFiniteSet(S), NEW T \in SUBSET S
    PROVE  /\ Cardinality(S) \in Nat /\ Cardinality(T) \in Nat
           /\ Cardinality(S) - Cardinality(T) \in Nat
<1>1. IsFiniteSet(T) /\ Cardinality(T) <= Cardinality(S)
  BY FS_Subset
<1>2. Cardinality(S) \in Nat /\ Cardinality(T) \in Nat
  BY <1>1, FS_CardinalityType
<1> QED
  BY <1>1, <1>2

LEMMA BudgetIsTyped ==
    ASSUME NEW name \in SliceBudgets, NEW count \in Nat, NEW n \in Nat, NEW allowed \in Nat,
           NEW within \in BOOLEAN, NEW confirmed \in BOOLEAN
    PROVE  Budget(name, count, n, allowed, within, confirmed) \in BudgetRecords
<1>1. (n > 0 /\ (within \/ confirmed)) \in BOOLEAN
  OBVIOUS
<1> DEFINE conclusive == n > 0 /\ (within \/ confirmed)
<1>2. conclusive \in BOOLEAN
  BY <1>1
<1>3. Budget(name, count, n, allowed, within, confirmed)
        = [name |-> name, count |-> count, n |-> n, allowed |-> allowed,
           passed |-> within, conclusive |-> conclusive]
  BY DEF Budget
<1> HIDE DEF conclusive
<1> QED
  BY <1>2, <1>3 DEF BudgetRecords

LEMMA CeilingIsTyped ==
    ASSUME NEW name \in SliceBudgets, NEW count \in Nat, NEW n \in Nat, NEW allowed \in Nat
    PROVE  RateCeiling(name, count, n, allowed) \in BudgetRecords
<1>1. (100 * count <= allowed * n) \in BOOLEAN /\ WilsonAbove(count, n, allowed) \in BOOLEAN
  BY DEF WilsonAbove
<1> QED
  BY <1>1, BudgetIsTyped, Zenon DEF RateCeiling

LEMMA BudgetsAreTyped ==
    ASSUME NEW rows, rows \subseteq Evaluators \X Examples,
           NEW limits, \A b \in SliceBudgets : limits[b] \in Nat,
           NEW ratios \in CallRatios
    PROVE  BudgetResults(rows, limits, ratios) \subseteq BudgetRecords
<1> DEFINE evidence  == Evidence(rows)
           n         == Cardinality(evidence)
           bad       == {r \in evidence : Regressed(r)}
           regressed == Cardinality(bad)
           argued    == OfKind(evidence, "arguments")
           drifted   == {r \in argued : Made(r[1], r[2]) = "worse"}
           diverging == OfKind(evidence, "divergence")
           diverged  == {r \in diverging : Delta(Made(r[1], r[2])) < 0}
<1>1. BudgetResults(rows, limits, ratios) =
        {RateCeiling("regression", regressed, n, limits.regression),
         Budget("equivalence", n - regressed, n, limits.equivalence,
                100 * (n - regressed) >= limits.equivalence * n,
                WilsonAbove(regressed, n, 100 - limits.equivalence)),
         RateCeiling("drift", Cardinality(drifted), Cardinality(argued), limits.drift),
         RateCeiling("divergence", Cardinality(diverged), Cardinality(diverging),
                     limits.divergence),
         CallBudget("cost", ratios.cost, limits.cost),
         CallBudget("latency", ratios.latency, limits.latency)}
  BY DEF BudgetResults
<1>2. /\ evidence \subseteq rows /\ bad \subseteq evidence
      /\ argued \subseteq evidence /\ drifted \subseteq argued
      /\ diverging \subseteq evidence /\ diverged \subseteq diverging
  BY DEF Evidence, OfKind
<1>3. IsFiniteSet(evidence)
  <2>1. IsFiniteSet(Evaluators \X Examples)
    BY SuiteAssumption, FS_Product
  <2> HIDE DEF evidence
  <2> QED
    BY <1>2, <2>1, FS_Subset
<1> HIDE DEF evidence, bad, argued, drifted, diverging, diverged
<1>4. n \in Nat /\ regressed \in Nat /\ n - regressed \in Nat
  BY <1>2, <1>3, PartsCount
<1>5. Cardinality(argued) \in Nat /\ Cardinality(drifted) \in Nat
  <2>1. IsFiniteSet(argued)
    BY <1>2, <1>3, FS_Subset
  <2> QED
    BY <1>2, <2>1, PartsCount
<1>6. Cardinality(diverging) \in Nat /\ Cardinality(diverged) \in Nat
  <2>1. IsFiniteSet(diverging)
    BY <1>2, <1>3, FS_Subset
  <2> QED
    BY <1>2, <2>1, PartsCount
<1> HIDE DEF n, regressed
<1>7. /\ limits.regression \in Nat /\ limits.equivalence \in Nat /\ limits.drift \in Nat
      /\ limits.divergence \in Nat /\ limits.cost \in Nat /\ limits.latency \in Nat
  BY DEF SliceBudgets
<1>8. /\ RateCeiling("regression", regressed, n, limits.regression) \in BudgetRecords
      /\ RateCeiling("drift", Cardinality(drifted), Cardinality(argued), limits.drift)
           \in BudgetRecords
      /\ RateCeiling("divergence", Cardinality(diverged), Cardinality(diverging),
                     limits.divergence) \in BudgetRecords
  <2>1. {"regression", "drift", "divergence"} \subseteq SliceBudgets
    BY DEF SliceBudgets
  <2> QED
    BY <1>4, <1>5, <1>6, <1>7, <2>1, CeilingIsTyped
<1>9. Budget("equivalence", n - regressed, n, limits.equivalence,
             100 * (n - regressed) >= limits.equivalence * n,
             WilsonAbove(regressed, n, 100 - limits.equivalence)) \in BudgetRecords
  <2>1. /\ (100 * (n - regressed) >= limits.equivalence * n) \in BOOLEAN
        /\ WilsonAbove(regressed, n, 100 - limits.equivalence) \in BOOLEAN
    BY DEF WilsonAbove
  <2>2. "equivalence" \in SliceBudgets
    BY DEF SliceBudgets
  <2> QED
    BY <1>4, <1>7, <2>1, <2>2, BudgetIsTyped
<1>10. ASSUME NEW name \in SliceBudgets, NEW ratio, NEW allowed \in Nat,
              ratio.increase \in Nat, ratio.measured \in BOOLEAN
       PROVE  CallBudget(name, ratio, allowed) \in BudgetRecords
  BY <1>10 DEF CallBudget, BudgetRecords
<1>11. /\ CallBudget("cost", ratios.cost, limits.cost) \in BudgetRecords
       /\ CallBudget("latency", ratios.latency, limits.latency) \in BudgetRecords
  <2>1. "cost" \in SliceBudgets /\ "latency" \in SliceBudgets
    BY DEF SliceBudgets
  <2> QED
    BY <1>7, <1>10, <2>1, CallAssumption
<1> QED
  BY <1>1, <1>8, <1>9, <1>11

LEMMA VerdictIsOne ==
    ASSUME NEW budgets, NEW slices
    PROVE  OverallVerdict(budgets, slices) \in Verdicts
<1>1. \A s, b : VerdictFor(s, b) \in Verdicts
  BY DEF VerdictFor, Verdicts
<1> QED
  BY <1>1 DEF OverallVerdict, Verdicts

(* What a stage has not run yet, it has not written.                       *)
InOrder ==
    /\ phase \in {"evaluate", "slice"} => collapsed = <<>>
    /\ phase \in {"evaluate", "slice", "compare"} => comparisons = <<>>

LEMMA TypesStep == Inv /\ TypeOK /\ InOrder /\ [Next]_vars => (TypeOK /\ InOrder)'
<1> SUFFICES ASSUME Inv, TypeOK, InOrder, [Next]_vars PROVE (TypeOK /\ InOrder)'
  OBVIOUS
<1>1. ASSUME NEW x \in Examples, Score(x) PROVE (TypeOK /\ InOrder)'
  <2>1. PICK made \in [Evaluators -> Outcomes] :
          outcome' = [y \in Scored \cup {x} |-> IF y = x THEN made ELSE outcome[y]]
    BY <1>1 DEF Score
  <2>2. /\ Scored' \subseteq Examples
        /\ outcome' \in [Scored' -> [Evaluators -> Outcomes]]
    BY <2>1 DEF Scored, TypeOK
  <2>3. /\ collapsed' = <<>> /\ comparisons' = <<>> /\ UNCHANGED <<config, calls, decision>>
        /\ phase' \in {"evaluate", "slice"}
    BY <1>1 DEF Score, InOrder
  <2>4. DOMAIN collapsed' = {} /\ DOMAIN comparisons' = {} /\ collapsed' \in [{} -> Kept']
    BY <2>3
  <2> QED
    BY <2>2, <2>3, <2>4 DEF TypeOK, InOrder, config
<1>2. ASSUME Slice PROVE (TypeOK /\ InOrder)'
  <2>1. /\ phase' = "compare" /\ collapsed' = Dedupe
        /\ UNCHANGED <<config, outcome, comparisons, calls, decision>>
        /\ comparisons = <<>>
    BY <1>2 DEF Slice, InOrder
  <2>2. Kept' = Built \ DOMAIN Dedupe
    <3>1. Built' = Built
      BY <2>1 DEF Built, Of, Scored, Made, config
    <3> QED
      BY <2>1, <3>1 DEF Kept
  <2>3. DOMAIN collapsed' \subseteq Tags /\ collapsed' \in [DOMAIN collapsed' -> Kept']
    BY <2>1, <2>2, StandInsAreKept
  <2>4. DOMAIN comparisons' = {}
    BY <2>1
  <2>5. Scored' = Scored
    BY <2>1 DEF Scored
  <2> QED
    BY <2>1, <2>3, <2>4, <2>5 DEF TypeOK, InOrder, config
<1>3. ASSUME Compare PROVE (TypeOK /\ InOrder)'
  <2>1. PICK ready, answer : comparisons' = Comparisons(Keys, ready, answer)
    BY <1>3 DEF Compare
  <2>2. /\ phase' = "decide" /\ UNCHANGED <<config, outcome, collapsed, calls, decision>>
    BY <1>3 DEF Compare
  <2>3. Kept' = Kept /\ Scored' = Scored
    BY <2>2, KeysFrame DEF config, Scored
  <2>4. \A result, ps : Severity(result, ps) \in Severities
    BY DEF Severity, Severities
  <2>5. DOMAIN comparisons' \subseteq Kept \X Evaluators
    BY <2>1 DEF Comparisons, Keys
  <2>6. \A k \in DOMAIN comparisons' : comparisons'[k].severity \in Severities
    BY <2>1, <2>4 DEF Comparisons, Severities
  <2> QED
    BY <2>2, <2>3, <2>5, <2>6 DEF TypeOK, InOrder, config
<1>4. ASSUME Decide PROVE (TypeOK /\ InOrder)'
  <2>1. PICK slices : /\ decision'.budgets = Budgets(calls')
                      /\ \/ decision'.verdict = "fail"
                         \/ decision'.verdict = OverallVerdict(Budgets(calls'), slices)
    BY <1>4 DEF Decide
  <2>2. /\ phase' = "decided" /\ calls' \in CallRatios
        /\ UNCHANGED <<config, outcome, collapsed, comparisons>>
    BY <1>4 DEF Decide
  <2>3. Kept' = Kept /\ Scored' = Scored
    BY <2>2, KeysFrame DEF config, Scored
  <2>4. decision'.verdict \in Verdicts
    BY <2>1, VerdictIsOne DEF Verdicts
  <2>5. ASSUME NEW s \in DOMAIN decision'.budgets
        PROVE  decision'.budgets[s] \subseteq BudgetRecords
    <3>1. /\ BlockingRows \subseteq Evaluators \X Examples
          /\ RowsForSlice(s) \subseteq Evaluators \X Examples
      BY EvaluatorAssumption DEF Inv, BlockingRows, RowsForSlice
    <3>2. PICK rows, limits :
            /\ Budgets(calls')[s] = BudgetResults(rows, limits, calls')
            /\ rows \subseteq Evaluators \X Examples
            /\ \A b \in SliceBudgets : limits[b] \in Nat
      BY <2>1, <3>1, PolicyLimits DEF Budgets, Inv
    <3> QED
      BY <2>1, <2>2, <3>2, BudgetsAreTyped
  <2> QED
    BY <2>2, <2>3, <2>4, <2>5 DEF TypeOK, InOrder, config
<1>5. CASE UNCHANGED vars
  <2>1. Kept' = Kept /\ Scored' = Scored
    BY <1>5, KeysFrame DEF vars, Scored
  <2> QED
    BY <1>5, <2>1 DEF vars, TypeOK, InOrder
<1> QED
  BY <1>1, <1>2, <1>3, <1>4, <1>5 DEF Next

(* Each stage leaves what the next one reads: scores for every evaluator,  *)
(* a kept slice for every collapsed one, comparisons of kept slices, and   *)
(* budgets that count what there is to count.                              *)
THEOREM TypesHold == Spec => []TypeOK
<1>1. Init => TypeOK /\ InOrder
  BY DEF Init, TypeOK, InOrder, NoDecision, Scored
<1>2. Spec => [](TypeOK /\ InOrder)
  BY <1>1, TypesStep, Invariant, PTL DEF Spec
<1> QED
  BY <1>2, PTL
=============================================================================
