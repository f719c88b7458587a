--------------------------- MODULE EvaluateStage ---------------------------
(***************************************************************************)
(* evalshift evaluate (cli/commands/evaluate.py) on one run directory,     *)
(* again and again: raw.jsonl is paired, every evaluator scores every      *)
(* sample pair, up to Concurrency at once, the samples of an example are   *)
(* folded into one record, and scores.jsonl and the coverage are written.  *)
(* The judge (evaluators/llm_judge.py) and the embeddings                  *)
(* (evaluators/semantic.py) ask a provider, which may fail, and keep what  *)
(* it answers in the response cache; a kill loses all but the cache.       *)
(*                                                                         *)
(* Examples are numbered in the order of their ids, and stand for their    *)
(* prompt too.  An evaluator is [name, family, kinds, arg]: family is      *)
(* structural, semantic, llm_judge, tools or agent_trace, kinds the set of *)
(* its axes, arg what its configuration says.  What a regex, an embedding  *)
(* or a tool evaluator makes of two answers is a constant (see ToolScoring *)
(* for the last).  Scores are integers in a unit in which the means are    *)
(* integers too, One being full marks.  A row of scores.jsonl is found by  *)
(* its key; the order of the rows is left out.  Configurations whose       *)
(* evaluators share a name are allowed (config/models.py checks prompt ids *)
(* only).                                                                  *)
(***************************************************************************)
EXTENDS Integers, Sequences, FiniteSets, FiniteSetsExt, Functions

CONSTANTS
  NExamples, NSamples,
  One,               \* full marks
  Evaluators,        \* the resolved evaluators, in configured order
  Raws,              \* what raw.jsonl may hold: sequences of rows
  Silent,            \* the text that is blank
  History(_),        \* the conversation an example continues
  Matches(_, _),     \* structural: arg, text -> score
  Similarity(_, _),  \* embeddings of two texts -> score
  Selected(_, _, _), \* tools: kind, source, target -> score of the target, or Nothing
  Traced(_, _),      \* example, side: traces.jsonl has that trace
  TraceMark(_),      \* agent_trace: example -> score of the target
  Nothing,
  Concurrency,
  Winners,           \* what a judge may find: source, target, tie
  MaxEvaluations, MaxFailures   \* bounds

Half == One \div 2
Sides == {"source", "target"}
Examples == 1..NExamples
Samples == 0..(NSamples - 1)

ASSUME StageAssumption ==
  /\ NExamples \in Nat /\ NSamples \in Nat \ {0} /\ Concurrency \in Nat \ {0}
  /\ MaxEvaluations \in Nat /\ MaxFailures \in Nat
  /\ Winners \subseteq {"source", "target", "tie"}
  /\ Nothing \notin [source : Int, target : Int, error : BOOLEAN, samples : Nat]
  /\ DOMAIN Evaluators = 1..Len(Evaluators) /\ Len(Evaluators) \in Nat
  /\ \A r \in Raws : DOMAIN r = 1..Len(r) /\ Len(r) \in Nat

\* What the evaluators say of the calls there can be is a score (EvalRecord
\* takes nothing else), and of a structural one any mean is an integer.
Calls == UNION {{r[i].call : i \in DOMAIN r} : r \in Raws}

ASSUME ScoreAssumption ==
  /\ One \in Nat \ {0} /\ One % 2 = 0
  /\ \A n \in DOMAIN Evaluators, c \in Calls :
       /\ Matches(Evaluators[n].arg, c.text) \in 0..One
       /\ \A k \in 1..NSamples : Matches(Evaluators[n].arg, c.text) % k = 0
  /\ \A c, d \in Calls : Similarity(c.text, d.text) \in 0..One
  /\ \A n \in DOMAIN Evaluators, c, d \in Calls :
       \A kind \in Evaluators[n].kinds : Selected(kind, c, d) \in (0..One) \cup {Nothing}
  /\ \A x \in Examples : TraceMark(x) \in 0..One

VARIABLES
  raw,         \* raw.jsonl: rows [example, sample, role, call]
  suite,       \* the suite file loads
  caching,     \* defaults.cache
  verdicts,    \* response cache: judge key -> what was stored
  embedded,    \* response cache: the texts with an embedding
  evaluation,  \* evaluations begun
  phase,       \* idle, scoring, recorded (scores.jsonl is written)
  tasks,       \* one per (pair x call evaluator): waiting, asking, answered, done
  scores,      \* scores.jsonl: key -> record
  coverage,    \* evaluator_coverage of state.json
  failures,    \* provider calls, and writes of the cache, that failed
  heard,       \* every verdict rendered: evaluation, texts, which was better
  saved        \* those questions whose verdict reached the cache

vars == <<raw, suite, caching, verdicts, embedded, evaluation, phase, tasks, scores, coverage,
          failures, heard, saved>>

-----------------------------------------------------------------------------
(* Pairs and work *)

RowsOf(example, sample, side) ==
  {i \in DOMAIN raw : raw[i].example = example /\ raw[i].sample = sample /\ raw[i].role = side}

\* _pair_calls: the samples both sides of which have a row.
Pairs ==
  {p \in [example : Examples, sample : Samples] :
     \A side \in Sides : RowsOf(p.example, p.sample, side) # {}}

\* Mutant: the first row of a key counts, not the last.
FirstCall(pair, side) == raw[Min(RowsOf(pair.example, pair.sample, side))].call

\* The row of a key that was written last: two processes that resume one run
\* each write one.
CallOf(pair, side) == raw[Max(RowsOf(pair.example, pair.sample, side))].call

Text(pair, side) == CallOf(pair, side).text

IsAgentTrace(e) == e.family = "agent_trace"
CallEvaluators == {n \in DOMAIN Evaluators : ~IsAgentTrace(Evaluators[n])}

\* (pair x evaluator), and its order: pair-major, the pairs sorted.
Work == [pair : Pairs, by : CallEvaluators]

By(w) == Evaluators[w.by]

IsBefore(v, w) ==
  \/ v.pair.example < w.pair.example
  \/ v.pair.example = w.pair.example /\ v.pair.sample < w.pair.sample
  \/ v.pair = w.pair /\ v.by < w.by

-----------------------------------------------------------------------------
(* One pair, one evaluator: _score_one *)

\* The result of a task: broken, or the scores of the axes that were measured.
Broken == [broken |-> TRUE, marks |-> <<>>]
Measured(marks) == [broken |-> FALSE, marks |-> marks]
Single(e, source, target) ==
  Measured([kind \in e.kinds |-> [source |-> source, target |-> target]])
Unmeasured == Measured(<<>>)

\* Mutant: a truncated answer is scored as it stands.
UpstreamErrors(pair) == \E side \in Sides : CallOf(pair, side).failed

\* A failed call or an answer cut off at the token cap is not scored.
Upstream(pair) == \E side \in Sides : CallOf(pair, side).failed \/ CallOf(pair, side).truncated

AreSilent(pair) == {side \in Sides : Text(pair, side) = Silent}

Structural(e, pair) ==
  Single(e, Matches(e.arg, Text(pair, "source")), Matches(e.arg, Text(pair, "target")))

\* _score_one_tool: without a trace on both sides, or on an axis that does not
\* apply, nothing is measured.  The ground truth is gone with the suite.
Tools(e, pair) ==
  IF \E side \in Sides : ~CallOf(pair, side).traced THEN Unmeasured
  ELSE LET score(kind) == Selected(kind, CallOf(pair, "source"), CallOf(pair, "target"))
           kinds == {kind \in e.kinds : score(kind) # Nothing /\ (kind = "conformance" => suite)}
       IN  Measured([kind \in kinds |-> [source |-> One, target |-> score(kind)]])

\* CosineSimilarityEvaluator.score, once the texts are embedded.
Semantic(e, pair) ==
  CASE AreSilent(pair) = Sides -> Unmeasured
    [] AreSilent(pair) # {} /\ AreSilent(pair) # Sides -> Single(e, One, 0)
    [] OTHER -> Single(e, One, Similarity(Text(pair, "source"), Text(pair, "target")))

TextsToEmbed(pair) ==
  IF AreSilent(pair) = {} THEN {Text(pair, side) : side \in Sides} \ embedded ELSE {}

\* Mutant: the prompt that is sent, in which the target may come first.
SentKey(e, pair, targetIsA) == <<e.arg, IF suite THEN History(pair.example) ELSE Nothing,
                                 Text(pair, "source"), Text(pair, "target"), targetIsA>>

\* _cache_key: the source always as A, whichever way they are shown.
JudgeKey(e, pair, targetIsA) == <<e.arg, IF suite THEN History(pair.example) ELSE Nothing,
                                  Text(pair, "source"), Text(pair, "target")>>

\* Mutant: A is the target.
ScoreOfA(e, letter, targetIsA) ==
  IF letter = "A" THEN Single(e, 0, One) ELSE IF letter = "B" THEN Single(e, One, 0)
  ELSE Single(e, Half, Half)

\* _score_from_verdict.
ScoreFromVerdict(e, letter, targetIsA) ==
  CASE letter = "tie" -> Single(e, Half, Half)
    [] letter # "tie" /\ (letter = "A") = targetIsA -> Single(e, 0, One)
    [] OTHER -> Single(e, One, 0)

\* What the cache keeps: a letter means nothing without the orientation.
Stored(letter, targetIsA) == [letter |-> letter, targetIsA |-> targetIsA]

\* The tasks that end without asking anybody.
IsReady(w) ==
  \/ Upstream(w.pair)
  \/ By(w).family \in {"structural", "tools"}
  \/ By(w).family = "semantic" /\ TextsToEmbed(w.pair) = {}
  \/ /\ By(w).family = "llm_judge"
     /\ \/ AreSilent(w.pair) = Sides
        \/ JudgeKey(By(w), w.pair, FALSE) \in DOMAIN verdicts

Ready(w) ==
  CASE Upstream(w.pair) -> Broken
    [] ~Upstream(w.pair) /\ By(w).family = "structural" -> Structural(By(w), w.pair)
    [] ~Upstream(w.pair) /\ By(w).family = "tools" -> Tools(By(w), w.pair)
    [] ~Upstream(w.pair) /\ By(w).family = "semantic" -> Semantic(By(w), w.pair)
    [] ~Upstream(w.pair) /\ By(w).family = "llm_judge" ->
         IF AreSilent(w.pair) = Sides THEN Unmeasured
         ELSE LET hit == verdicts[JudgeKey(By(w), w.pair, FALSE)]
              IN  ScoreFromVerdict(By(w), hit.letter, hit.targetIsA)

-----------------------------------------------------------------------------
(* Cells, samples, coverage *)

\* _cells_for, over all tasks: one cell per axis that was attempted.
Cells == UNION {{[work |-> w, kind |-> kind] : kind \in By(w).kinds} : w \in DOMAIN tasks}

\* What a cell holds; Nothing if the axis was not measured.
RecordOf(cell) ==
  LET result == tasks[cell.work].result
  IN  IF result.broken THEN [source |-> Half, target |-> Half, error |-> TRUE, samples |-> 1]
      ELSE IF cell.kind \in DOMAIN result.marks
      THEN [source |-> result.marks[cell.kind].source, target |-> result.marks[cell.kind].target,
            error |-> FALSE, samples |-> 1]
      ELSE Nothing

\* The key of a row; by is 0 where the samples of an example are folded.
GroupOf(cell) ==
  [example |-> cell.work.pair.example, name |-> By(cell.work).name, kind |-> cell.kind, by |-> 0]

Groups == {GroupOf(c) : c \in Cells}

Members(key) == {c \in Cells : GroupOf(c) = key}

Mean(group, side) == SumFunction([c \in group |-> RecordOf(c)[side]]) \div Cardinality(group)

\* Mutant: the errored samples' neutral scores count too.
ReduceAll(group) ==
  LET records == {c \in group : RecordOf(c) # Nothing}
  IN  IF records = {} THEN Nothing
      ELSE [source |-> Mean(records, "source"), target |-> Mean(records, "target"),
            error |-> \A c \in records : RecordOf(c).error, samples |-> Cardinality(group)]

\* _reduce_one_group: the mean over the samples that scored without error.
Reduce(group) ==
  LET records == {c \in group : RecordOf(c) # Nothing}
      good == {c \in records : ~RecordOf(c).error}
      one == RecordOf(CHOOSE c \in records : TRUE)
  IN  CASE records = {} -> Nothing
        [] records # {} /\ Cardinality(group) = 1 -> one
        [] records # {} /\ Cardinality(group) > 1 /\ good = {} -> [one EXCEPT !.samples = Cardinality(group)]
        [] OTHER -> [source |-> Mean(good, "source"), target |-> Mean(good, "target"),
                     error |-> FALSE, samples |-> Cardinality(group)]

HasPair(example) == \E p \in Pairs : p.example = example

\* _score_agent_traces: one cell per example both of whose traces were imported.
AgentKeys ==
  UNION {{[example |-> x, name |-> Evaluators[n].name, kind |-> kind, by |-> n] :
            kind \in Evaluators[n].kinds} :
         n \in DOMAIN Evaluators \ CallEvaluators,
         x \in {x \in Examples : HasPair(x) /\ \A side \in Sides : Traced(x, side)}}

AgentRecord(example) ==
  [source |-> One, target |-> TraceMark(example), error |-> FALSE, samples |-> 1]

\* _score_everything: the folded cells (_reduce_sample_cells), and the agents'.
AllCells ==
  [key \in Groups \cup AgentKeys |->
     IF key.by = 0 THEN Reduce(Members(key)) ELSE AgentRecord(key.example)]

Recorded(cells) == {key \in DOMAIN cells : cells[key] # Nothing}

AxisOf(key) == <<key.name, key.kind>>

\* Mutant: an axis is attempted where it has a record.
CoverageOfRecorded(cells) ==
  [axis \in {AxisOf(key) : key \in Recorded(cells)} |->
     [attempted |-> Cardinality({key \in Recorded(cells) : AxisOf(key) = axis}), unmeasured |-> {}]]

\* _coverage_for, by axis.
CoverageFor(cells) ==
  [axis \in {AxisOf(key) : key \in DOMAIN cells} |->
     LET mine == {key \in DOMAIN cells : AxisOf(key) = axis}
     IN  [attempted |-> Cardinality(mine),
          unmeasured |-> {key.example : key \in mine \ Recorded(cells)}]]

-----------------------------------------------------------------------------
(* evaluate *)

Init ==
  /\ raw \in Raws
  /\ suite \in BOOLEAN
  /\ caching \in BOOLEAN
  /\ verdicts = <<>> /\ embedded = {}
  /\ evaluation = 0 /\ phase = "idle"
  /\ tasks = <<>> /\ scores = <<>> /\ coverage = <<>>
  /\ failures = 0 /\ heard = {} /\ saved = {}

Waiting == [state |-> "waiting", targetIsA |-> FALSE, letter |-> "tie", result |-> Unmeasured]

\* run_evaluate up to the scoring; without a pair it ends (NoPairsError).
Begin ==
  /\ phase = "idle" /\ evaluation < MaxEvaluations
  /\ Pairs # {}
  /\ evaluation' = evaluation + 1
  /\ phase' = "scoring"
  /\ tasks' = [w \in Work |-> Waiting]
  /\ UNCHANGED <<raw, suite, caching, verdicts, embedded, scores, coverage, failures, heard, saved>>

\* The semaphore is first come, first served, and the work was queued in order.
MayStart(w) ==
  /\ phase = "scoring" /\ tasks[w].state = "waiting"
  /\ \A v \in DOMAIN tasks : IsBefore(v, w) => tasks[v].state # "waiting"
  /\ Cardinality({v \in DOMAIN tasks : tasks[v].state \in {"asking", "answered"}}) < Concurrency

Done(w, result) == tasks' = [tasks EXCEPT ![w].state = "done", ![w].result = result]

Score(w) ==
  /\ MayStart(w) /\ IsReady(w)
  /\ Done(w, Ready(w))
  /\ UNCHANGED <<raw, suite, caching, verdicts, embedded, evaluation, phase, scores, coverage, failures, heard, saved>>

\* The cache has nothing: the orientation is drawn and the provider asked.
Ask(w) ==
  /\ MayStart(w) /\ ~IsReady(w)
  /\ \E targetIsA \in BOOLEAN :
       /\ By(w).family = "semantic" => ~targetIsA
       /\ tasks' = [tasks EXCEPT ![w].state = "asking", ![w].targetIsA = targetIsA]
  /\ UNCHANGED <<raw, suite, caching, verdicts, embedded, evaluation, phase, scores, coverage, failures, heard, saved>>

IsAsking(w, family) == phase = "scoring" /\ tasks[w].state = "asking" /\ By(w).family = family

\* The letter a judge answers that finds this side better, as it was shown them.
Letter(better, targetIsA) ==
  IF better = "tie" THEN "tie" ELSE IF (better = "target") = targetIsA THEN "A" ELSE "B"

\* What a task asks its judge, in this evaluation.
Question(w) ==
  [in |-> evaluation, by |-> By(w).arg, example |-> w.pair.example,
   source |-> Text(w.pair, "source"), target |-> Text(w.pair, "target")]

Receive(w, letter) == tasks' = [tasks EXCEPT ![w].state = "answered", ![w].letter = letter]

\* The answer is there, and paid for; the cache is written after another await.
JudgeAnswers(w) ==
  /\ IsAsking(w, "llm_judge")
  /\ \E better \in Winners :
       /\ Receive(w, Letter(better, tasks[w].targetIsA))
       /\ heard' = heard \cup {[in |-> evaluation, by |-> By(w).arg, example |-> w.pair.example,
                                source |-> Text(w.pair, "source"), target |-> Text(w.pair, "target"),
                                better |-> better]}
  /\ UNCHANGED <<raw, suite, caching, verdicts, embedded, evaluation, phase, scores, coverage, failures, saved>>

IsAnswered(w) == phase = "scoring" /\ tasks[w].state = "answered"

\* cache.put, an upsert, and the score.
KeepVerdict(w) ==
  /\ IsAnswered(w)
  /\ LET key == JudgeKey(By(w), w.pair, tasks[w].targetIsA)
         kept == Stored(tasks[w].letter, tasks[w].targetIsA)
     IN  verdicts' = IF caching
                     THEN [k \in DOMAIN verdicts \cup {key} |-> IF k = key THEN kept ELSE verdicts[k]]
                     ELSE verdicts
  /\ saved' = IF caching THEN saved \cup {Question(w)} ELSE saved
  /\ Done(w, ScoreFromVerdict(By(w), tasks[w].letter, tasks[w].targetIsA))
  /\ UNCHANGED <<raw, suite, caching, embedded, evaluation, phase, scores, coverage, failures, heard>>

\* cache.put raises: the verdict is dropped and the measurement broken (_score_one).
KeepFails(w) ==
  /\ IsAnswered(w) /\ caching /\ failures < MaxFailures
  /\ failures' = failures + 1
  /\ Done(w, Broken)
  /\ UNCHANGED <<raw, suite, caching, verdicts, embedded, evaluation, phase, scores, coverage, heard, saved>>

\* No answer, or one that is not a verdict: the measurement is broken.
JudgeFails(w) ==
  /\ IsAsking(w, "llm_judge") /\ failures < MaxFailures
  /\ failures' = failures + 1
  /\ Done(w, Broken)
  /\ UNCHANGED <<raw, suite, caching, verdicts, embedded, evaluation, phase, scores, coverage, heard, saved>>

\* Mutant: defaults.cache is not looked at.
RememberedAlways(texts) == embedded' = embedded \cup texts

Remembered(texts) == embedded' = IF caching THEN embedded \cup texts ELSE embedded

EmbeddingsAnswer(w) ==
  /\ IsAsking(w, "semantic")
  /\ Remembered(TextsToEmbed(w.pair))
  /\ Done(w, Semantic(By(w), w.pair))
  /\ UNCHANGED <<raw, suite, caching, verdicts, evaluation, phase, scores, coverage, failures, heard, saved>>

\* Each embedding is cached as soon as it is there.
KeepEmbedding(w) ==
  /\ IsAsking(w, "semantic") /\ Cardinality(TextsToEmbed(w.pair)) = 2
  /\ \E text \in TextsToEmbed(w.pair) : Remembered({text})
  /\ UNCHANGED <<raw, suite, caching, verdicts, evaluation, phase, tasks, scores, coverage, failures, heard, saved>>

\* One of the two embeddings may have been cached before the other failed.
EmbeddingFails(w) ==
  /\ IsAsking(w, "semantic") /\ failures < MaxFailures
  /\ \E texts \in SUBSET TextsToEmbed(w.pair) :
       texts # {Text(w.pair, side) : side \in Sides} /\ Remembered(texts)
  /\ failures' = failures + 1
  /\ Done(w, Broken)
  /\ UNCHANGED <<raw, suite, caching, verdicts, evaluation, phase, scores, coverage, heard, saved>>

AllDone == phase = "scoring" /\ \A w \in DOMAIN tasks : tasks[w].state = "done"

WriteScores ==
  /\ AllDone
  /\ scores' = LET cells == AllCells IN Restrict(cells, Recorded(cells))
  /\ phase' = "recorded"
  /\ UNCHANGED <<raw, suite, caching, verdicts, embedded, evaluation, tasks, coverage, failures, heard, saved>>

\* write_state; the command ends.
WriteCoverage ==
  /\ phase = "recorded"
  /\ coverage' = CoverageFor(AllCells)
  /\ phase' = "idle" /\ tasks' = <<>>
  /\ UNCHANGED <<raw, suite, caching, verdicts, embedded, evaluation, scores, failures, heard, saved>>

\* The process dies; the files and the cache stay.
Kill ==
  /\ phase # "idle"
  /\ phase' = "idle" /\ tasks' = <<>>
  /\ UNCHANGED <<raw, suite, caching, verdicts, embedded, evaluation, scores, coverage, failures, heard, saved>>

Next ==
  \/ Begin \/ WriteScores \/ WriteCoverage \/ Kill
  \/ \E w \in DOMAIN tasks :
       \/ Score(w) \/ Ask(w)
       \/ JudgeAnswers(w) \/ JudgeFails(w) \/ KeepVerdict(w) \/ KeepFails(w)
       \/ KeepEmbedding(w) \/ EmbeddingsAnswer(w) \/ EmbeddingFails(w)

Spec == Init /\ [][Next]_vars
-----------------------------------------------------------------------------
(* Properties *)

TypeOK ==
  /\ raw \in Raws /\ suite \in BOOLEAN /\ caching \in BOOLEAN
  /\ evaluation \in 0..MaxEvaluations /\ failures \in 0..MaxFailures
  /\ phase \in {"idle", "scoring", "recorded"}
  /\ tasks = <<>> \/ DOMAIN tasks = Work
  /\ \A w \in DOMAIN tasks : tasks[w].state \in {"waiting", "asking", "answered", "done"}
  /\ \A key \in DOMAIN scores : \A side \in Sides : scores[key][side] \in 0..One
  /\ ~caching => verdicts = <<>> /\ embedded = {}

Axes == UNION {{<<Evaluators[n].name, kind>> : kind \in Evaluators[n].kinds} : n \in DOMAIN Evaluators}

IsAgentAxis(axis) ==
  \E n \in DOMAIN Evaluators : IsAgentTrace(Evaluators[n]) /\ Evaluators[n].name = axis[1]

\* Right after an evaluation each axis accounts for every example: one record
\* or one unmeasured entry for each that has a pair, however many samples it
\* has, how many of them failed, and in which order they were scored
\* ("attempted counts axes, not examples", _evaluator_kinds).  Agent traces
\* are the exception: a trace that was not imported is not an attempt.
EveryAttemptIsAccounted ==
  [][phase = "recorded" /\ coverage' # coverage =>
     \A axis \in Axes :
       LET mine == {key \in DOMAIN scores : AxisOf(key) = axis}
           measured == {key.example : key \in mine}
           due == {x \in Examples : HasPair(x) /\ (IsAgentAxis(axis) => \A side \in Sides : Traced(x, side))}
       IN  IF due = {} THEN axis \notin DOMAIN coverage'
           ELSE /\ axis \in DOMAIN coverage'
                /\ coverage'[axis].attempted = Cardinality(due)
                /\ measured \cup coverage'[axis].unmeasured = due
                /\ measured \cap coverage'[axis].unmeasured = {}
                /\ Cardinality(mine) = Cardinality(measured)]_vars

\* The last rows of both sides of a sample came back whole.
IsWhole(example, sample) ==
  \A side \in Sides :
    /\ RowsOf(example, sample, side) # {}
    /\ \E i \in RowsOf(example, sample, side) :
         /\ \A j \in RowsOf(example, sample, side) : j <= i
         /\ ~raw[i].call.failed /\ ~raw[i].call.truncated

\* A failed, truncated or missing sample moves no score: a structural record is
\* an error exactly if no sample of its example is whole, and otherwise the
\* mean over the whole samples, each side's from its own texts.
BrokenSamplesMoveNothing ==
  \A key \in DOMAIN scores, n \in DOMAIN Evaluators :
    Evaluators[n].family = "structural" /\ Evaluators[n].name = key.name =>
      LET x == key.example
          whole == {s \in Samples : IsWhole(x, s)}
          Total(side) == SumFunction(
            [s \in whole |-> Matches(Evaluators[n].arg, raw[Max(RowsOf(x, s, side))].call.text)])
      IN  /\ scores[key].error <=> whole = {}
          /\ whole # {} => \A side \in Sides :
               scores[key][side] * Cardinality(whole) = Total(side)

\* Credit goes to the side the judge preferred, whichever way the two were
\* shown and whether the verdict is live or read from the cache, where another
\* example, sample or evaluation left it: "the caller never sees the
\* randomization" (PairwiseJudgeEvaluator).
VerdictsAreTheJudges ==
  \A w \in DOMAIN tasks :
    LET marks == tasks[w].result.marks IN
    By(w).family = "llm_judge" /\ tasks[w].state = "done" /\ marks # <<>> =>
      \E h \in heard :
        /\ h.by = By(w).arg
        /\ h.source = Text(w.pair, "source") /\ h.target = Text(w.pair, "target")
        /\ \A kind \in DOMAIN marks :
             /\ (marks[kind].target = One) <=> (h.better = "target")
             /\ (marks[kind].source = One) <=> (h.better = "source")

\* "Caching makes a repeat evaluate over the same run essentially free": once a
\* verdict has reached the cache, no later evaluation pays for the same question
\* again, whatever was killed or failed since and whoever else was asking it at
\* the time.  A verdict that was answered and, by a kill or a failed write, never
\* cached is bought again: that much the code does not save.
RerunBuysNothing ==
  caching => \A q \in saved, h \in heard :
    h.by = q.by /\ h.example = q.example /\ h.source = q.source /\ h.target = q.target => h.in <= q.in

\* "A group of one cell (every group on a single-sample run, ...) is returned
\* untouched" (_reduce_sample_cells).  Two structural evaluators of one type
\* share their name, so their cells fall into one group.
SingleSamplesAreUntouched ==
  (\A i \in DOMAIN raw : raw[i].sample = 0) => \A key \in DOMAIN scores : scores[key].samples = 1

=============================================================================
