---------------------------- MODULE ToolScoring ----------------------------
(***************************************************************************)
(* One pair of answers with tool calls, as the source and the target model *)
(* give it, and what the evaluators make of it at any moment:              *)
(*                                                                         *)
(*   evaluators/tool_selection.py        Conformance, Divergence           *)
(*   evaluators/tool_arguments.py        Arguments                         *)
(*   evaluators/tool_trace_structure.py  Structure                         *)
(*   evaluators/agent_trace.py           AgentScore                        *)
(*   traces/diff.py                      Diff                              *)
(*                                                                         *)
(* A side is the sequence of what its model said, over the rounds of a     *)
(* teacher-forced replay: tool calls and refusals.  Read as a ToolTrace    *)
(* (evaluators/tool_models.py) the other blocks are dropped and the calls  *)
(* renumbered; read as an imported AgentTrace they keep their places.      *)
(*                                                                         *)
(* Scores are integers, One being full marks; One is divisible by every    *)
(* number of things that is averaged here, so a mean is exact.  A pair of  *)
(* rounds whose records agree with and without rounds is written once: for *)
(* a single round the per-round code and the original are the same, except *)
(* where DivergenceOfWhole says otherwise.  No example has an expected     *)
(* tool count, and containers are compared as leaves.                      *)
(***************************************************************************)
EXTENDS Integers, Sequences, FiniteSets, FiniteSetsExt, SequencesExt

CONSTANTS
  Tools,            \* tool names
  Fields,           \* argument names
  Private,          \* those that start with an underscore
  Values,           \* argument values
  Null,             \* the value null, which is also what a missing field reads as
  Calls,            \* the calls a model may make, as parsed
  Examples,         \* suite rows: the ground truth
  MaxRounds,        \* bound: rounds of a replay
  MaxEvents,        \* bound: blocks one side says
  Likeness(_, _),   \* what an embedding, a ratio or a tolerance makes of two values
  Declared(_),      \* what the toolset's schema says of a field
  Dangerous,        \* dangerous_tools
  Verifying,        \* verification_tools
  Tolerance,        \* call_count_tolerance
  Ways,             \* how arguments may be configured to be compared
  NoRow, Refusal

One == 5040
Half == One \div 2
Sides == {"source", "target"}

\* A value is text, a number or anything else; only what float() takes can be
\* measured as a number.  The norm is _normalize's.
Value == [kind : {"text", "number", "other"}, isMeasurable : BOOLEAN, norm : Nat, raw : Nat]

\* Arguments as the parser leaves them: a malformed string is marked, and so
\* has no field of its own (_parse_openai_shape).
Args == [malformed : BOOLEAN, of : UNION {[F -> Values \cup {Null}] : F \in SUBSET Fields}]

\* An expected call; isExact is match_strategy "exact".
Expected == [name : Tools, args : Args, isExact : BOOLEAN]

\* The ground truth of a row: that no tool is called, or the recorded rounds.
Example == [noTools : BOOLEAN, rounds : Seq(Seq(Expected))]

ASSUME ScoringAssumption ==
  /\ Calls \subseteq [name : Tools, args : Args] /\ Examples \subseteq Example
  /\ \A e \in Examples : e.noTools => e.rounds = <<>>
  /\ \A e \in Examples : \A k \in DOMAIN e.rounds : \A i \in DOMAIN e.rounds[k] : ~e.rounds[k][i].args.malformed
  /\ Values \subseteq Value /\ Null \notin Values /\ Private \subseteq Fields
  /\ \A v \in Values : v.kind = "number" => v.isMeasurable
  /\ \A v, w \in Values : Likeness(v, w) \in 0..One
  /\ \A v \in Values : Likeness(v, v) = One
  /\ MaxRounds \in Nat \ {0} /\ MaxEvents \in Nat /\ Tolerance \in Nat
  /\ Dangerous \cup Verifying \subseteq Tools
  /\ Ways \subseteq [strategy : {"exact", "subset", "numeric", "semantic", "auto"}, isStrict : BOOLEAN]
  /\ Refusal \notin Tools

VARIABLES
  example,  \* the suite row
  rounds,   \* round_count of each side
  said      \* what each side's model said, in order

vars == <<example, rounds, said>>

-----------------------------------------------------------------------------
Average(Score(_), set) == MapThenSumSet(Score, set) \div Cardinality(set)

\* _mean: full marks when nothing was measured.
MeanOr1(Score(_), set) == IF set = {} THEN One ELSE Average(Score, set)

Mark(isRight) == IF isRight THEN One ELSE 0

Names(calls) == [i \in DOMAIN calls |-> calls[i].name]

-----------------------------------------------------------------------------
(* Traces and rounds *)

IsCall(event) == event.name # Refusal

\* parse_response_to_trace, and the merge of the rounds.
ToolTrace(side) == SelectSeq(said[side], IsCall)

Refused(side) == \E i \in DOMAIN said[side] : said[side][i].name = Refusal

\* Mutant: the calls of all rounds in every round.
RoundFlat(side, k) == ToolTrace(side)

\* ToolTrace.round and padded_rounds: nothing beyond the side's last round.
Round(side, k) == SelectSeq(ToolTrace(side), LAMBDA c : c.round = k)

\* replayed_rounds.
Replayed == 1 .. (IF rounds["source"] > rounds["target"] THEN rounds["source"] ELSE rounds["target"])

IsMultiRound == Replayed # 1 .. 1

\* expected_rounds: the answer round and all after the last one expect nothing.
Wanted(k) == IF k \in DOMAIN example.rounds THEN example.rounds[k] ELSE <<>>

\* A round in which nothing was expected and nothing called measures nothing.
IsMeasured(k) == Wanted(k) # <<>> \/ \E side \in Sides : Round(side, k) # <<>>

-----------------------------------------------------------------------------
(* tool_selection *)

\* _sequence_match: how far the expected names are found in order.
SequenceMatch(want, got) ==
  LET found[i \in 0..Len(got)] ==
        IF i = 0 THEN 0
        ELSE LET n == found[i - 1] IN IF n < Len(want) /\ want[n + 1] = got[i] THEN n + 1 ELSE n
  IN  found[Len(got)]

Count(seq, x) == Cardinality({i \in DOMAIN seq : seq[i] = x})

Least(S) == Min(S)

\* _multiset_match: how many of the expected names are there at all.
MultisetMatch(want, got) ==
  MapThenSumSet(LAMBDA name : Least({Count(want, name), Count(got, name)}), Tools)

Matches(strategy, want, got) ==
  IF strategy = "expected" THEN SequenceMatch(want, got) ELSE MultisetMatch(want, got)

\* One side in one round; an answer round is right when nothing is called.
RoundConformance(strategy, side, k) ==
  LET want == Names(Wanted(k)) got == Names(Round(side, k))
  IN  IF want = <<>> THEN Mark(got = <<>>)
      ELSE (One * Matches(strategy, want, got)) \div Len(want)

\* _score_conformance with its strategies: each side against the ground truth.
Conformance(strategy) ==
  CASE example.noTools -> [side \in Sides |-> Mark(ToolTrace(side) = <<>>)]
    [] ~example.noTools /\ example.rounds = <<>> -> NoRow
    [] OTHER -> [side \in Sides |->
                   MeanOr1(LAMBDA k : RoundConformance(strategy, side, k),
                           {k \in Replayed : IsMeasured(k)})]

NameSet(calls) == {calls[i].name : i \in DOMAIN calls}

Jaccard(S, T) ==
  IF S \cup T = {} THEN One ELSE (One * Cardinality(S \cap T)) \div Cardinality(S \cup T)

\* _divergence_score; under "first" a source without a call is matched by nothing.
DivergenceScore(strategy, source, target) ==
  CASE strategy = "exact" -> Mark(Names(source) = Names(target))
    [] strategy = "set" -> Jaccard(NameSet(source), NameSet(target))
    [] strategy = "first" -> Mark(/\ source # <<>> /\ target # <<>>
                                  /\ Head(source).name = Head(target).name)

\* _score_exact, _score_set, _score_first: whatever was called is measured.
DivergenceOfWhole(strategy) ==
  DivergenceScore(strategy, ToolTrace("source"), ToolTrace("target"))

\* _score_divergence: the target's score, the source's being One.
Divergence(strategy) ==
  IF ~IsMultiRound THEN DivergenceOfWhole(strategy)
  ELSE MeanOr1(LAMBDA k : DivergenceScore(strategy, Round("source", k), Round("target", k)),
               {k \in Replayed : IsMeasured(k)})

-----------------------------------------------------------------------------
(* tool_arguments *)

\* _schema_strategy, in the order of its rungs.
SchemaStrategy(field) ==
  LET d == Declared(field) IN
  CASE d.type \in {"object", "array"} -> "subset"
    [] d.isEnum \/ d.type = "boolean" \/ d.hasFormat \/ d.isId -> "exact"
    [] d.type \in {"integer", "number"} -> "numeric"
    [] OTHER -> "none"

\* _score_numeric: what is no number scores 0, whatever it is compared with.
NumericScore(v, w) == IF v.isMeasurable /\ w.isMeasurable THEN Likeness(v, w) ELSE 0

AreBoth(kind, v, w) == v.kind = kind /\ w.kind = kind

\* Two texts that differ in case and space only are equal under "auto" before
\* the schema is asked; what it has no rung for is graded by its kind.
AutoStrategy(field, v, w) ==
  CASE AreBoth("text", v, w) /\ v.norm = w.norm -> "same"
    [] SchemaStrategy(field) # "none" -> SchemaStrategy(field)
    [] AreBoth("text", v, w) -> "semantic"
    [] AreBoth("number", v, w) -> "numeric"
    [] OTHER -> "exact"

\* _score_field and _score_auto for two values.
ValueScore(strategy, field, v, w) ==
  LET rung == IF strategy = "auto" THEN AutoStrategy(field, v, w) ELSE strategy IN
  CASE rung = "same" -> One
    [] rung \in {"exact", "subset"} -> Mark(v = w)
    [] rung = "numeric" -> NumericScore(v, w)
    [] rung = "semantic" -> Likeness(v, w)

\* dict.get: an explicit null reads as an omitted field.
Given(a, field) == IF field \in DOMAIN a THEN a[field] ELSE Null


FieldScore(how, field, a, b) ==
  LET v == Given(a, field) w == Given(b, field) IN
  CASE v = Null /\ w = Null -> One
    [] (v = Null) # (w = Null) -> IF how.isStrict THEN 0 ELSE Half
    [] OTHER -> ValueScore(how.strategy, field, v, w)

\* _score_call_args: of the fields that may be compared, those that do not
\* start with an underscore.
CallScore(how, a, b, fields) ==
  CASE a.malformed \/ b.malformed -> 0
    [] fields \subseteq Private -> One
    [] OTHER -> Average(LAMBDA f : FieldScore(how, f, a.of, b.of), fields \ Private)

Distance(i, j) == IF i > j THEN i - j ELSE j - i

\* _match_calls: each source call in turn takes the nearest target call of its
\* name that is left, the earlier of two as near.
MatchCalls(source, target) ==
  FoldLeftDomain(
    LAMBDA acc, i :
      LET left == {j \in DOMAIN target : target[j].name = source[i].name /\ j \notin {p[2] : p \in acc}}
      IN  IF left = {} THEN acc
          ELSE acc \cup {<<i, CHOOSE j \in left : \A k \in left :
                                \/ Distance(i, j) < Distance(i, k)
                                \/ Distance(i, j) = Distance(i, k) /\ j <= k>>},
    {}, source)

FieldsOf(a) == DOMAIN a.of

\* One round against the source: calls without a partner are not compared,
\* unless there is no pair at all.
RoundAgainstSource(how, source, target) ==
  LET pairs == MatchCalls(source, target) IN
  IF pairs = {} THEN Mark(target = <<>>)
  ELSE Average(LAMBDA p : CallScore(how, source[p[1]].args, target[p[2]].args,
                                    FieldsOf(source[p[1]].args) \cup FieldsOf(target[p[2]].args)),
               pairs)

\* score_pair, against: source.
ArgumentsAgainstSource(how) ==
  MeanOr1(LAMBDA k : RoundAgainstSource(how, Round("source", k), Round("target", k)),
          {k \in Replayed : \E side \in Sides : Round(side, k) # <<>>})

\* _pair_with_expected: the first call of the name that is left, 0 for none.
PairWithExpected(want, got) ==
  FoldLeft(LAMBDA acc, e :
             LET left == {j \in DOMAIN got : got[j].name = e.name /\ j \notin ToSet(acc)}
             IN  Append(acc, IF left = {} THEN 0 ELSE Least(left)),
           <<>>, want)

\* The expectations of a round that carry arguments.
WantedArgs(k) == SelectSeq(Wanted(k), LAMBDA e : DOMAIN e.args.of # {})

MissingCall(got, j) == 0

\* _score_sides: a recorded field that neither side produced is dropped for
\* both; "exact" expectations compare the fields that were not recorded too.
RoundAgainstExpected(how, k) ==
  LET want == WantedArgs(k)
      match == [side \in Sides |-> PairWithExpected(want, Round(side, k))]
      Got(side, i) == Round(side, k)[match[side][i]].args
      Produced(i) == UNION {IF match[side][i] = 0 THEN {} ELSE FieldsOf(Got(side, i)) : side \in Sides}
      Compared(side, i) ==
        (FieldsOf(want[i].args) \cup (IF want[i].isExact THEN FieldsOf(Got(side, i)) ELSE {}))
        \ (FieldsOf(want[i].args) \ Produced(i))
  IN  [side \in Sides |->
         Average(LAMBDA i : IF match[side][i] = 0 THEN MissingCall(Round(side, k), i)
                            ELSE CallScore(how, want[i].args, Got(side, i), Compared(side, i)),
                 DOMAIN want)]

\* score_pair, against: expected.
ArgumentsAgainstExpected(how) ==
  LET scored == {k \in Replayed : WantedArgs(k) # <<>>} IN
  IF scored = {} THEN NoRow
  ELSE [side \in Sides |->
          Average(LAMBDA k : RoundAgainstExpected(how, k)[side], scored)]

-----------------------------------------------------------------------------
(* tool_trace_structure *)

\* _score_call_count.
CallCountScore(s, t) ==
  IF Distance(s, t) <= Tolerance THEN One
  ELSE LET score == One - (One * (Distance(s, t) - Tolerance)) \div (IF s = 0 THEN 1 ELSE s)
       IN  IF score < 0 THEN 0 ELSE score

\* has_parallel_calls of one response.
FansOut(side, k) == Len(Round(side, k)) >= 2

\* _parallelism_agrees.
ParallelismAgrees == \A k \in Replayed : FansOut("source", k) = FansOut("target", k)

\* ToolTraceStructureEvaluator.score_pair with all its checks on.
Structure ==
  (CallCountScore(Len(ToolTrace("source")), Len(ToolTrace("target")))
   + Mark(ParallelismAgrees) + Mark(Refused("source") = Refused("target"))) \div 3

-----------------------------------------------------------------------------
(* Imported agent traces *)

\* tool_calls, each with its place among the events.
AgentCalls(side) ==
  SelectSeq([i \in DOMAIN said[side] |->
               [name |-> said[side][i].name, args |-> said[side][i].args, at |-> i]], IsCall)

\* _lcs_length.
CommonLength(a, b) ==
  LET common[i \in 0..Len(a), j \in 0..Len(b)] ==
        IF i = 0 \/ j = 0 THEN 0
        ELSE IF a[i] = b[j] THEN common[i - 1, j - 1] + 1
        ELSE LET above == common[i - 1, j] left == common[i, j - 1] IN IF above > left THEN above ELSE left
  IN  common[Len(a), Len(b)]

\* _sequence_score.
OrderScore(a, b) ==
  IF a = b THEN One
  ELSE (One * CommonLength(a, b)) \div (IF Len(a) > Len(b) THEN Len(a) ELSE Len(b))

\* _match_same_name_calls: the first that is left.
MatchInOrder(a, b) ==
  FoldLeftDomain(
    LAMBDA acc, i :
      LET left == {j \in DOMAIN b : b[j].name = a[i].name /\ j \notin {p[2] : p \in acc}}
      IN  IF left = {} THEN acc ELSE acc \cup {<<i, Least(left)>>},
    {}, a)

\* The fields of a matched pair, and whether they agree: here those that start
\* with an underscore are compared as well, a null still reads as an omission.
Agrees(a, b, f) == Given(a.of, f) = Given(b.of, f)

FieldPairs(a, b) ==
  UNION {{<<p, f>> : f \in FieldsOf(a[p[1]].args) \cup FieldsOf(b[p[2]].args)} : p \in MatchInOrder(a, b)}

Drifts(a, b) == {pf \in FieldPairs(a, b) : ~Agrees(a[pf[1][1]].args, b[pf[1][2]].args, pf[2])}

\* _argument_score.
AgentArguments(a, b) ==
  CASE MatchInOrder(a, b) = {} -> Mark(a = <<>> /\ b = <<>>)
    [] MatchInOrder(a, b) # {} /\ FieldPairs(a, b) = {} -> One
    [] OTHER -> (One * (Cardinality(FieldPairs(a, b)) - Cardinality(Drifts(a, b))))
                \div Cardinality(FieldPairs(a, b))

\* _dangerous_action_drifts.
DangerousDrifts(a, b) ==
  {n \in Dangerous : Count(Names(b), n) > Count(Names(a), n)}

\* _missing_verification_steps.
MissingVerification(b) ==
  IF Verifying = {} THEN {}
  ELSE {i \in DOMAIN b : /\ b[i].name \in Dangerous
                         /\ \A k \in 1..i : b[k].name \notin Verifying}

\* score_trace_pair with all its checks on.
AgentScore ==
  LET a == AgentCalls("source") b == AgentCalls("target")
      zeros == (IF DangerousDrifts(a, b) = {} THEN 0 ELSE 1) + (IF MissingVerification(b) = {} THEN 0 ELSE 1)
  IN  (OrderScore(Names(a), Names(b)) + AgentArguments(a, b)) \div (2 + zeros)

\* Mutant: only calls of a name that the other side never called.
UnpairedNames(a, b) == {i \in DOMAIN a : Count(Names(b), a[i].name) = 0}

\* The calls of one side that the other has too few of: the last ones.
Unpaired(a, b) ==
  {i \in DOMAIN a : Count(Names(SubSeq(a, 1, i)), a[i].name) > Count(Names(b), a[i].name)}

\* diff_traces.
Diff ==
  LET a == AgentCalls("source") b == AgentCalls("target")
  IN  {<<"missing", i>> : i \in Unpaired(a, b)}
      \cup {<<"extra", i>> : i \in Unpaired(b, a)}
      \cup {<<"reordered", p>> : p \in {p \in MatchInOrder(a, b) : a[p[1]].at # b[p[2]].at}}
      \cup {<<"argument_drift", pf>> : pf \in Drifts(a, b)}

-----------------------------------------------------------------------------
(* The models answer *)

Init ==
  /\ example \in Examples
  /\ rounds \in [Sides -> 1..MaxRounds]
  /\ said = [side \in Sides |-> <<>>]

LastRound(side) == IF said[side] = <<>> THEN 1 ELSE Last(said[side]).round

\* A block of the response in its round.
Says(side, event) ==
  /\ Len(said[side]) < MaxEvents
  /\ event.round \in LastRound(side)..rounds[side]
  /\ said' = [said EXCEPT ![side] = Append(@, event)]
  /\ UNCHANGED <<example, rounds>>

Next ==
  \E side \in Sides, k \in 1..MaxRounds :
    \/ \E c \in Calls : Says(side, [name |-> c.name, args |-> c.args, round |-> k])
    \/ Says(side, [name |-> Refusal, args |-> NoRow, round |-> k])

Spec == Init /\ [][Next]_vars
-----------------------------------------------------------------------------
(* Properties, over every configuration of the evaluators *)

Conforming == {"expected", "expected_set"}
Diverging == {"exact", "set", "first"}

\* The records of the pair with two scores, and those whose source is One.
Graded == {Conformance(s) : s \in Conforming} \cup {ArgumentsAgainstExpected(how) : how \in Ways}
Relative == {Divergence(s) : s \in Diverging} \cup {ArgumentsAgainstSource(how) : how \in Ways}
            \cup {Structure, AgentScore}

CalledIn(side, k) ==
  SelectSeq(said[side], LAMBDA e : e.name # Refusal /\ e.round = k)

\* Whether a value given twice is found the same: not if it is measured as a
\* number and is none, by configuration or by the schema's rung.
IsGradable(how, field, v) ==
  \/ v = Null
  \/ v.isMeasurable
  \/ how.strategy # "numeric" /\ (how.strategy = "auto" => SchemaStrategy(field) # "numeric" \/ v.kind = "text")

IsWellFormed(how) ==
  \A i \in DOMAIN ToolTrace("source") :
    LET args == ToolTrace("source")[i].args IN
    /\ ~args.malformed
    /\ \A f \in FieldsOf(args) \ Private : IsGradable(how, f, args.of[f])

\* A target that answers as the source did has no negative delta: nothing an
\* evaluator reports may be a regression, whatever the ground truth was, in
\* any number of rounds.  (Malformed arguments score 0 against themselves, and
\* so does a value that is no number where numbers are measured; "first" is
\* excepted where a round has no call, which scores 0 there.)
IdenticalTargetsDoNotDrift ==
  rounds["source"] = rounds["target"] /\ said["source"] = said["target"]
  => /\ \A record \in Graded : record # NoRow => record["source"] = record["target"]
     /\ \A s \in Diverging \ {"first"} : Divergence(s) = One
     /\ (\A k \in Replayed : Round("source", k) # <<>>) => Divergence("first") = One
     /\ \A how \in Ways : IsWellFormed(how) => ArgumentsAgainstSource(how) = One
     /\ Structure = One /\ Diff = {}
     /\ MissingVerification(AgentCalls("target")) = {} => AgentScore = One

IsSubsequence(want, got) ==
  \E at \in [DOMAIN want -> DOMAIN got] :
    /\ \A i \in DOMAIN want : want[i] = got[at[i]]
    /\ \A i, j \in DOMAIN want : i < j => at[i] < at[j]

IsCovered(want, got) ==
  \A name \in Tools : Count(want, name) <= Count(got, name)

\* Full conformance is what the ground truth says, round by round: a call in
\* the wrong round is a miss, an answer round in which a tool was called too,
\* and extra calls in a round that expects some neither help nor hurt
\* (_score_expected_set, _score_conformance_rounds).
ConformanceIsExact ==
  \A s \in Conforming, side \in Sides :
    Conformance(s) # NoRow
    => (Conformance(s)[side] = One
        <=> \A k \in 1..MaxRounds :
              LET want == Names(Wanted(k)) got == Names(CalledIn(side, k))
              IN  IF want = <<>> THEN got = <<>>
                  ELSE IF k \notin Replayed THEN TRUE
                  ELSE IF s = "expected" THEN IsSubsequence(want, got) ELSE IsCovered(want, got))

\* What the argument evaluator can see of a call.
Seen(calls) ==
  [i \in DOMAIN calls |->
     [name |-> calls[i].name, malformed |-> calls[i].args.malformed,
      args |-> {<<f, calls[i].args.of[f]>> : f \in {g \in FieldsOf(calls[i].args) \ Private :
                                                      calls[i].args.of[g] # Null}}]]

StrictExact == [strategy |-> "exact", isStrict |-> TRUE]

IsStrictlyEqual ==
  Divergence("exact") = One /\ Structure = One /\ ArgumentsAgainstSource(StrictExact) = One

\* Two kinds of difference slip through the strict configuration and no other:
\* if divergence is "exact", arguments are compared "exact" and "strict", and
\* all of them and the structure give full marks, the two models made the same
\* calls in the same rounds, with the same arguments but for those that start
\* with an underscore and for nulls that stand for omissions, and both refused
\* or neither.
LittleSlipsThrough ==
  IsStrictlyEqual
  => /\ \A k \in 1..MaxRounds : Seen(CalledIn("source", k)) = Seen(CalledIn("target", k))
     /\ Refused("source") = Refused("target")


\* Full marks for arguments are earned: every expected call that carries
\* arguments was made, in its round and as often as it was expected ("an
\* expected call the model never made scores 0", DOCS.md).
ArgumentMarksAreEarned ==
  \A how \in Ways, side \in Sides :
    LET record == ArgumentsAgainstExpected(how) IN
    record # NoRow /\ record[side] = One
    => \A k \in Replayed : IsCovered(Names(SelectSeq(Wanted(k), LAMBDA e : DOMAIN e.args.of # {})),
                                     Names(SelectSeq(CalledIn(side, k), LAMBDA c : ~c.args.malformed)))

\* Together: every score is one that an EvalRecord accepts, 0.0 to 1.0, since
\* another would end evaluate with a validation error (evaluators/base.py), and
\* full marks against the ground truth mean what it says.
MarksAreEarned ==
  /\ \A record \in Graded : record # NoRow => \A side \in Sides : record[side] \in 0..One
  /\ Relative \subseteq 0..One
  /\ ConformanceIsExact /\ ArgumentMarksAreEarned

\* What the agent-trace evaluator takes marks off for is in the trace diff a
\* user is shown, and an empty diff means nothing but a missing verification
\* can have cost marks: the two are separate code with matchings of their own.
DiffShowsDrift ==
  LET a == AgentCalls("source") b == AgentCalls("target") IN
  /\ OrderScore(Names(a), Names(b)) < One => \E item \in Diff : item[1] # "argument_drift"
  /\ AgentArguments(a, b) < One => Diff # {}
  /\ Diff = {} /\ MissingVerification(b) = {} => AgentScore = One

=============================================================================
