------------------------- MODULE EvaluateStageProofs -------------------------
(***************************************************************************)
(* What an evaluation writes and what becomes of a judge's verdict, for    *)
(* any raw.jsonl, evaluators, judges, texts and bounds.  A verdict is      *)
(* credited to the side the judge preferred, and once cached not bought    *)
(* again; a structural score is the mean over the samples that came back   *)
(* whole; the coverage accounts for every example of every axis.           *)
(*                                                                         *)
(* Held says what the cache and the tasks have of the verdicts heard;      *)
(* Bought that with the cache on a question open now was not cached by an  *)
(* evaluation before this one.  Kept says what the tasks of this           *)
(* evaluation have measured and what the scores of the last one are: it    *)
(* leads from the samples, through the cells and the sums over a group of  *)
(* them, to scores.jsonl.  Sums are over finite sets; SubsetInduction is   *)
(* the induction they take, with a set in the place of the predicate.      *)
(*                                                                         *)
(* Two evaluators of one name share their groups, as evaluate_collide      *)
(* shows: the theorems that such a pair would refute say which evaluators  *)
(* must have a name of their own.                                          *)
(***************************************************************************)
EXTENDS EvaluateStage, FiniteSetTheorems, WellFoundedInduction, TLAPS


IsTask(t) ==
  /\ t = [state |-> t.state, targetIsA |-> t.targetIsA, letter |-> t.letter, result |-> t.result]
  /\ t.state \in {"waiting", "asking", "answered", "done"}
  /\ t.targetIsA \in BOOLEAN

Shape ==
  /\ tasks = [w \in DOMAIN tasks |-> tasks[w]]
  /\ \A w \in DOMAIN tasks : IsTask(tasks[w])

\* The verdict that h records, as a task's result shows it.
Shows(result, h) ==
  \A kind \in DOMAIN result.marks :
    /\ (result.marks[kind].target = One) <=> (h.better = "target")
    /\ (result.marks[kind].source = One) <=> (h.better = "source")

\* The question that h answered.
Asked(h, arg, source, target) == h.by = arg /\ h.source = source /\ h.target = target

Credited(w, t) ==
  By(w).family = "llm_judge" /\ t.state = "done" /\ t.result.marks # <<>> =>
    \E h \in heard :
      Asked(h, By(w).arg, Text(w.pair, "source"), Text(w.pair, "target")) /\ Shows(t.result, h)

\* An answer that is not in the cache yet is one that was heard.
Answered(w, t) ==
  t.state = "answered" =>
    /\ By(w).family = "llm_judge"
    /\ \E h \in heard :
         /\ Asked(h, By(w).arg, Text(w.pair, "source"), Text(w.pair, "target"))
         /\ h.better \in Winners /\ t.letter = Letter(h.better, t.targetIsA)

\* A cached verdict is one that was heard, in the orientation kept with it.
Remembers(k) ==
  /\ verdicts[k].targetIsA \in BOOLEAN
  /\ \E h \in heard : /\ Asked(h, k[1], k[3], k[4]) /\ h.better \in Winners
                      /\ verdicts[k].letter = Letter(h.better, verdicts[k].targetIsA)

Held ==
  /\ \A k \in DOMAIN verdicts : Remembers(k)
  /\ \A w \in DOMAIN tasks : Credited(w, tasks[w]) /\ Answered(w, tasks[w])

\* The key under which the answer h was kept.
KeyOf(h) == <<h.by, IF suite THEN History(h.example) ELSE Nothing, h.source, h.target>>

TaskKey(w) == JudgeKey(By(w), w.pair, FALSE)

\* The judge has been asked, and the cache not written yet.
IsOpen(t) == t.state \in {"asking", "answered"}

\* Whoever has a question open, whose answer another task has cached since,
\* asked it in this evaluation.
Fresh(w, t) ==
  By(w).family = "llm_judge" /\ IsOpen(t) => \A q \in saved : KeyOf(q) = TaskKey(w) => q.in = evaluation

Bought ==
  /\ evaluation \in Nat
  /\ \A h \in heard : h.in \in Nat /\ h.in <= evaluation
  /\ caching =>
       /\ \A q \in saved : KeyOf(q) \in DOMAIN verdicts
       /\ \A w \in DOMAIN tasks : Fresh(w, tasks[w])
       /\ RerunBuysNothing

Inv == Shape /\ Held /\ Bought

-----------------------------------------------------------------------------
(* Verdicts *)

\* The three scores a verdict can give are different.
LEMMA Scores == One \in Nat /\ Half \in Nat /\ One = Half + Half /\ 0 < Half
BY ScoreAssumption DEF Half

\* _score_from_verdict undoes the orientation: the letter a judge answered who
\* preferred a side gives that side full marks and the other none.
LEMMA OrientationIsUndone ==
  ASSUME NEW better \in {"source", "target", "tie"}, NEW o \in BOOLEAN, NEW e,
         NEW kind \in DOMAIN ScoreFromVerdict(e, Letter(better, o), o).marks
  PROVE  LET mark == ScoreFromVerdict(e, Letter(better, o), o).marks[kind]
         IN  /\ (mark.target = One) <=> (better = "target")
             /\ (mark.source = One) <=> (better = "source")
<1> DEFINE letter == Letter(better, o)
<1>1. CASE better = "tie"
  <2>1. letter = "tie"
    BY <1>1 DEF Letter
  <2>2. ScoreFromVerdict(e, letter, o) = Single(e, Half, Half)
    BY <2>1, Zenon DEF ScoreFromVerdict
  <2> HIDE DEF letter
  <2> QED
    BY <1>1, <2>2, Scores DEF Single, Measured, letter
<1>2. CASE better = "target"
  <2>1. letter # "tie" /\ ((letter = "A") = o)
    BY <1>2 DEF Letter
  <2>2. ScoreFromVerdict(e, letter, o) = Single(e, 0, One)
    BY <2>1, Zenon DEF ScoreFromVerdict
  <2> HIDE DEF letter
  <2> QED
    BY <1>2, <2>2, Scores DEF Single, Measured, letter
<1>3. CASE better = "source"
  <2>1. letter # "tie" /\ ~((letter = "A") = o)
    BY <1>3 DEF Letter
  <2>2. ScoreFromVerdict(e, letter, o) = Single(e, One, 0)
    BY <2>1, Zenon DEF ScoreFromVerdict
  <2> HIDE DEF letter
  <2> QED
    BY <1>3, <2>2, Scores DEF Single, Measured, letter
<1> QED
  BY <1>1, <1>2, <1>3

\* So the result of a verdict shows what was heard.
LEMMA VerdictShows ==
  ASSUME NEW h, h.better \in Winners, NEW o \in BOOLEAN, NEW e
  PROVE  Shows(ScoreFromVerdict(e, Letter(h.better, o), o), h)
<1>1. h.better \in {"source", "target", "tie"}
  BY StageAssumption
<1> QED
  BY <1>1, OrientationIsUndone DEF Shows

-----------------------------------------------------------------------------
(* Tasks *)

\* raw.jsonl and the suite are not written: the texts and keys stay.
LEMMA SameTexts ==
  ASSUME raw' = raw, suite' = suite
  PROVE  /\ \A pair, side : Text(pair, side)' = Text(pair, side)
         /\ \A w : TaskKey(w)' = TaskKey(w)
         /\ \A h : KeyOf(h)' = KeyOf(h)
<1>1. \A pair, side : Text(pair, side)' = Text(pair, side)
  BY DEF Text, CallOf, RowsOf
<1>2. \A w : TaskKey(w)' = TaskKey(w)
  BY <1>1 DEF TaskKey, JudgeKey
<1>3. \A h : KeyOf(h)' = KeyOf(h)
  BY DEF KeyOf
<1> QED
  BY <1>1, <1>2, <1>3

\* What the key of a task says of it.
LEMMA KeyFacts ==
  ASSUME NEW w
  PROVE  /\ TaskKey(w)[1] = By(w).arg
         /\ TaskKey(w)[3] = Text(w.pair, "source") /\ TaskKey(w)[4] = Text(w.pair, "target")
         /\ \A o : JudgeKey(By(w), w.pair, o) = TaskKey(w)
BY DEF TaskKey, JudgeKey

\* Task w becomes u; the others stay.
Becomes(w, u) ==
  /\ tasks' = [v \in DOMAIN tasks |-> tasks'[v]]
  /\ DOMAIN tasks' = DOMAIN tasks
  /\ tasks'[w] = u /\ IsTask(u)
  /\ \A v \in DOMAIN tasks \ {w} : tasks'[v] = tasks[v]

\* A task that is done has its result.
LEMMA DoneDoes ==
  ASSUME Shape, NEW w \in DOMAIN tasks, NEW r, Done(w, r)
  PROVE  \E u : Becomes(w, u) /\ u.state = "done" /\ u.result = r
<1> DEFINE u == [tasks[w] EXCEPT !.state = "done", !.result = r]
<1>1. IsTask(tasks[w]) /\ tasks = [v \in DOMAIN tasks |-> tasks[v]]
  BY DEF Shape
<1>2. PICK t : t = tasks[w]
  OBVIOUS
<1>3. IsTask(u) /\ u.state = "done" /\ u.result = r
  <2> DEFINE T == [state : {"waiting", "asking", "answered", "done"}, targetIsA : BOOLEAN,
                   letter : {t.letter}, result : {t.result, r}]
  <2>1. t \in T
    BY <1>1, <1>2 DEF IsTask
  <2>2. u = [t EXCEPT !.state = "done", !.result = r]
    BY <1>2
  <2>3. u \in T /\ u.state = "done" /\ u.result = r
    BY <2>1, <2>2
  <2> HIDE DEF u
  <2>4. IsTask(u)
    BY <2>3 DEF IsTask
  <2> QED
    BY <1>2, <2>3, <2>4
<1>4. tasks' = [tasks EXCEPT ![w] = u]
  BY <1>1 DEF Done
<1> HIDE DEF u
<1>5. DOMAIN tasks' = DOMAIN tasks /\ tasks'[w] = u /\ \A v \in DOMAIN tasks \ {w} : tasks'[v] = tasks[v]
  BY <1>1, <1>4
<1>6. tasks' = [v \in DOMAIN tasks |-> tasks'[v]]
  BY <1>1, <1>4
<1> QED
  BY <1>3, <1>5, <1>6 DEF Becomes

\* A task that is put to a provider keeps what its result was.
LEMMA AskDoes ==
  ASSUME Shape, NEW w \in DOMAIN tasks, Ask(w)
  PROVE  \E u : Becomes(w, u) /\ u.state = "asking" /\ u.result = tasks[w].result
<1>1. PICK o \in BOOLEAN : tasks' = [tasks EXCEPT ![w].state = "asking", ![w].targetIsA = o]
  BY DEF Ask
<1> DEFINE u == [tasks[w] EXCEPT !.state = "asking", !.targetIsA = o]
<1>2. IsTask(tasks[w]) /\ tasks = [v \in DOMAIN tasks |-> tasks[v]]
  BY DEF Shape
<1>3. PICK t : t = tasks[w]
  OBVIOUS
<1>4. IsTask(u) /\ u.state = "asking" /\ u.result = t.result
  <2> DEFINE T == [state : {"waiting", "asking", "answered", "done"}, targetIsA : BOOLEAN,
                   letter : {t.letter}, result : {t.result}]
  <2>1. t \in T
    BY <1>2, <1>3 DEF IsTask
  <2>2. u = [t EXCEPT !.state = "asking", !.targetIsA = o]
    BY <1>3
  <2>3. u \in T /\ u.state = "asking" /\ u.result = t.result
    BY <2>1, <2>2
  <2> HIDE DEF u
  <2> QED
    BY <2>3 DEF IsTask
<1>5. tasks' = [tasks EXCEPT ![w] = u]
  BY <1>1, <1>2
<1> HIDE DEF u
<1>6. DOMAIN tasks' = DOMAIN tasks /\ tasks'[w] = u /\ \A v \in DOMAIN tasks \ {w} : tasks'[v] = tasks[v]
  BY <1>2, <1>5
<1>7. tasks' = [v \in DOMAIN tasks |-> tasks'[v]]
  BY <1>2, <1>5
<1> QED
  BY <1>3, <1>4, <1>6, <1>7 DEF Becomes

\* A task that has its answer holds the letter, and how the two were shown.
LEMMA AnswerDoes ==
  ASSUME Shape, NEW w \in DOMAIN tasks, NEW letter, Receive(w, letter)
  PROVE  \E u : /\ Becomes(w, u) /\ u.state = "answered" /\ u.letter = letter
               /\ u.result = tasks[w].result /\ u.targetIsA = tasks[w].targetIsA
<1> DEFINE u == [tasks[w] EXCEPT !.state = "answered", !.letter = letter]
<1>1. IsTask(tasks[w]) /\ tasks = [v \in DOMAIN tasks |-> tasks[v]]
  BY DEF Shape
<1>2. PICK t : t = tasks[w]
  OBVIOUS
<1>3. /\ IsTask(u) /\ u.state = "answered" /\ u.letter = letter
      /\ u.result = t.result /\ u.targetIsA = t.targetIsA
  <2> DEFINE T == [state : {"waiting", "asking", "answered", "done"}, targetIsA : BOOLEAN,
                   letter : {t.letter, letter}, result : {t.result}]
  <2>1. t \in T
    BY <1>1, <1>2 DEF IsTask
  <2>2. u = [t EXCEPT !.state = "answered", !.letter = letter]
    BY <1>2
  <2>3. /\ u \in T /\ u.state = "answered" /\ u.letter = letter
        /\ u.result = t.result /\ u.targetIsA = t.targetIsA
    BY <2>1, <2>2
  <2> HIDE DEF u
  <2>4. IsTask(u)
    BY <2>3 DEF IsTask
  <2> QED
    BY <2>3, <2>4
<1>4. tasks' = [tasks EXCEPT ![w] = u]
  BY <1>1 DEF Receive
<1> HIDE DEF u
<1>5. DOMAIN tasks' = DOMAIN tasks /\ tasks'[w] = u /\ \A v \in DOMAIN tasks \ {w} : tasks'[v] = tasks[v]
  BY <1>1, <1>4
<1>6. tasks' = [v \in DOMAIN tasks |-> tasks'[v]]
  BY <1>1, <1>4
<1> QED
  BY <1>2, <1>3, <1>5, <1>6 DEF Becomes

\* The shape of the tasks is kept.
LEMMA BecomesKeepsShape ==
  ASSUME Shape, NEW w \in DOMAIN tasks, NEW u, Becomes(w, u)
  PROVE  Shape'
BY DEF Shape, Becomes

\* What was credited stays so while the rows stay and no verdict is lost.
LEMMA StaysCredited ==
  ASSUME raw' = raw, suite' = suite, heard \subseteq heard', NEW w, NEW t, Credited(w, t)
  PROVE  Credited(w, t)'
<1> SUFFICES ASSUME By(w).family = "llm_judge", t.state = "done", t.result.marks # <<>>
             PROVE  \E h \in heard' : /\ Asked(h, By(w).arg, Text(w.pair, "source")', Text(w.pair, "target")')
                                      /\ Shows(t.result, h)
  BY DEF Credited
<1>1. PICK h \in heard : /\ Asked(h, By(w).arg, Text(w.pair, "source"), Text(w.pair, "target"))
                         /\ Shows(t.result, h)
  BY DEF Credited
<1> QED
  BY <1>1, SameTexts

\* So does what was answered.
LEMMA StaysAnswered ==
  ASSUME raw' = raw, suite' = suite, heard \subseteq heard', NEW w, NEW t, Answered(w, t)
  PROVE  Answered(w, t)'
<1> SUFFICES ASSUME t.state = "answered"
             PROVE  /\ By(w).family = "llm_judge"
                    /\ \E h \in heard' :
                         /\ Asked(h, By(w).arg, Text(w.pair, "source")', Text(w.pair, "target")')
                         /\ h.better \in Winners /\ t.letter = Letter(h.better, t.targetIsA)
  BY DEF Answered
<1>1. PICK h \in heard : /\ Asked(h, By(w).arg, Text(w.pair, "source"), Text(w.pair, "target"))
                         /\ h.better \in Winners /\ t.letter = Letter(h.better, t.targetIsA)
  BY DEF Answered
<1> QED
  BY <1>1, SameTexts DEF Answered

\* One task moves: the others' credits and answers stay.
LEMMA OthersHold ==
  ASSUME Inv, raw' = raw, suite' = suite, heard \subseteq heard',
         NEW w \in DOMAIN tasks, NEW u, Becomes(w, u), Credited(w, u)', Answered(w, u)'
  PROVE  \A v \in DOMAIN tasks' : Credited(v, tasks[v])' /\ Answered(v, tasks[v])'
<1> SUFFICES ASSUME NEW v \in DOMAIN tasks'
             PROVE  Credited(v, tasks[v])' /\ Answered(v, tasks[v])'
  OBVIOUS
<1>1. PICK t : t = tasks'[v]
  OBVIOUS
<1>2. CASE v = w
  <2>1. t = u
    BY <1>1, <1>2 DEF Becomes
  <2> QED
    BY <1>1, <1>2, <2>1 DEF Credited, Answered
<1>3. CASE v # w
  <2>1. v \in DOMAIN tasks /\ t = tasks[v]
    BY <1>1, <1>3 DEF Becomes
  <2>2. Credited(v, t) /\ Answered(v, t)
    BY <2>1 DEF Inv, Held
  <2>3. Credited(v, t)' /\ Answered(v, t)'
    BY <2>2, StaysCredited, StaysAnswered
  <2> QED
    BY <1>1, <2>3 DEF Credited, Answered
<1> QED
  BY <1>2, <1>3

\* It also leaves fresh what was: a question the task has open is one it had
\* open before, or one that no task has cached.
LEMMA StaysFresh ==
  ASSUME Inv, raw' = raw, suite' = suite, evaluation' = evaluation, saved' = saved, caching,
         NEW w \in DOMAIN tasks, NEW u, Becomes(w, u), Fresh(w, u)
  PROVE  \A v \in DOMAIN tasks' : Fresh(v, tasks[v])'
<1> SUFFICES ASSUME NEW v \in DOMAIN tasks', By(v).family = "llm_judge", IsOpen(tasks[v])',
                    NEW q \in saved, KeyOf(q) = TaskKey(v)
             PROVE  q.in = evaluation
  BY SameTexts DEF Fresh, IsOpen
<1>1. CASE v = w
  <2>1. IsOpen(u)
    BY <1>1 DEF Becomes, IsOpen
  <2> QED
    BY <1>1, <2>1 DEF Fresh
<1>2. CASE v # w
  <2>1. v \in DOMAIN tasks /\ IsOpen(tasks[v])
    BY <1>2 DEF Becomes, IsOpen
  <2> QED
    BY <2>1 DEF Inv, Bought, Fresh
<1> QED
  BY <1>1, <1>2

\* A step of one task that hears and caches nothing.
LEMMA NothingHeard ==
  ASSUME Inv, NEW w \in DOMAIN tasks, NEW u, Becomes(w, u),
         UNCHANGED <<raw, suite, caching, verdicts, heard, saved, evaluation>>,
         Credited(w, u), Answered(w, u), caching => Fresh(w, u)
  PROVE  Inv'
<1>1. Shape'
  BY BecomesKeepsShape DEF Inv
<1>2. Held'
  <2>1. \A k \in DOMAIN verdicts' : Remembers(k)'
    BY DEF Inv, Held, Remembers
  <2>2. Credited(w, u)' /\ Answered(w, u)'
    BY StaysCredited, StaysAnswered
  <2>3. \A v \in DOMAIN tasks' : Credited(v, tasks[v])' /\ Answered(v, tasks[v])'
    BY <2>2, OthersHold
  <2> QED
    BY <2>1, <2>3 DEF Held
<1>3. Bought'
  <2>1. caching => \A q \in saved' : KeyOf(q)' \in DOMAIN verdicts'
    BY SameTexts DEF Inv, Bought
  <2>2. caching => \A v \in DOMAIN tasks' : Fresh(v, tasks[v])'
    BY StaysFresh
  <2>3. RerunBuysNothing' \/ ~caching
    BY DEF Inv, Bought, RerunBuysNothing
  <2> QED
    BY <2>1, <2>2, <2>3 DEF Inv, Bought
<1> QED
  BY <1>1, <1>2, <1>3 DEF Inv

-----------------------------------------------------------------------------
(* The steps and the verdicts *)

\* A result that shows no verdict credits nobody.
LEMMA NoMarks == Broken.marks = <<>> /\ Unmeasured.marks = <<>>
BY DEF Broken, Unmeasured, Measured

\* A verdict read from the cache is credited as the judge meant it, whichever
\* example, sample or evaluation left it there.
LEMMA ScoreKeeps == ASSUME Inv, NEW w \in DOMAIN tasks, Score(w) PROVE Inv'
<1>1. UNCHANGED <<raw, suite, caching, verdicts, heard, saved, evaluation>> /\ IsReady(w) /\ Done(w, Ready(w))
  BY DEF Score
<1>2. PICK r : r = Ready(w)
  OBVIOUS
<1>3. PICK u : Becomes(w, u) /\ u.state = "done" /\ u.result = r
  BY <1>1, <1>2, DoneDoes DEF Inv
<1>4. Credited(w, u)
  <2> SUFFICES ASSUME By(w).family = "llm_judge", r.marks # <<>>
               PROVE  \E h \in heard :
                        Asked(h, By(w).arg, Text(w.pair, "source"), Text(w.pair, "target")) /\ Shows(r, h)
    BY <1>3 DEF Credited
  <2>1. ~Upstream(w.pair)
    <3>1. Upstream(w.pair) => Ready(w) = Broken
      BY Zenon DEF Ready
    <3> QED
      BY <1>2, <3>1, NoMarks
  <2>2. AreSilent(w.pair) # Sides
    <3>1. ~Upstream(w.pair) /\ By(w).family = "llm_judge" /\ AreSilent(w.pair) = Sides => Ready(w) = Unmeasured
      <4> SUFFICES ASSUME ~Upstream(w.pair), By(w).family = "llm_judge", AreSilent(w.pair) = Sides
                   PROVE  Ready(w) = Unmeasured
        OBVIOUS
      <4>1. By(w).family # "structural" /\ By(w).family # "tools" /\ By(w).family # "semantic"
        OBVIOUS
      <4> QED
        BY <4>1, Zenon DEF Ready
    <3> QED
      BY <1>2, <2>1, <3>1, NoMarks
  <2>3. TaskKey(w) \in DOMAIN verdicts
    BY <1>1, <2>1, <2>2 DEF IsReady, TaskKey
  <2>4. PICK hit : hit = verdicts[TaskKey(w)]
    OBVIOUS
  <2>5. r = ScoreFromVerdict(By(w), hit.letter, hit.targetIsA)
    <3>1. By(w).family # "structural" /\ By(w).family # "tools" /\ By(w).family # "semantic"
      OBVIOUS
    <3> QED
      BY <1>2, <2>1, <2>2, <2>4, <3>1, Zenon DEF Ready, TaskKey
  <2>6. PICK h \in heard : /\ Asked(h, TaskKey(w)[1], TaskKey(w)[3], TaskKey(w)[4])
                           /\ h.better \in Winners /\ hit.targetIsA \in BOOLEAN
                           /\ hit.letter = Letter(h.better, hit.targetIsA)
    BY <2>3, <2>4 DEF Inv, Held, Remembers
  <2>7. Shows(r, h)
    BY <2>5, <2>6, VerdictShows
  <2> QED
    BY <2>6, <2>7, KeyFacts
<1>5. Answered(w, u) /\ Fresh(w, u)
  BY <1>3 DEF Answered, Fresh, IsOpen
<1> QED
  BY <1>1, <1>3, <1>4, <1>5, NothingHeard

\* A question is put to the judge only if the cache has no answer to it, so
\* nobody has cached one.
LEMMA AskKeeps == ASSUME Inv, NEW w \in DOMAIN tasks, Ask(w) PROVE Inv'
<1>1. UNCHANGED <<raw, suite, caching, verdicts, heard, saved, evaluation>> /\ ~IsReady(w)
  BY DEF Ask
<1>2. PICK u : Becomes(w, u) /\ u.state = "asking"
  BY AskDoes DEF Inv
<1>3. Credited(w, u) /\ Answered(w, u)
  BY <1>2 DEF Credited, Answered
<1>4. caching => Fresh(w, u)
  <2> SUFFICES ASSUME caching, By(w).family = "llm_judge", NEW q \in saved, KeyOf(q) = TaskKey(w)
               PROVE  FALSE
    BY DEF Fresh
  <2>1. TaskKey(w) \notin DOMAIN verdicts
    BY <1>1 DEF IsReady, TaskKey
  <2> QED
    BY <2>1 DEF Inv, Bought
<1> QED
  BY <1>1, <1>2, <1>3, <1>4, NothingHeard

\* The judge answers: the verdict is heard.  Whoever has cached one to the same
\* question since it was asked did so in this evaluation.
LEMMA JudgeAnswersKeeps == ASSUME Inv, NEW w \in DOMAIN tasks, JudgeAnswers(w) PROVE Inv'
<1>1. /\ tasks[w].state = "asking" /\ By(w).family = "llm_judge"
      /\ UNCHANGED <<raw, suite, caching, verdicts, evaluation, saved>>
  BY DEF JudgeAnswers, IsAsking
<1>2. PICK o : o = tasks[w].targetIsA
  OBVIOUS
<1>3. PICK better \in Winners :
        /\ Receive(w, Letter(better, o))
        /\ heard' = heard \cup {[in |-> evaluation, by |-> By(w).arg, example |-> w.pair.example,
                                 source |-> Text(w.pair, "source"), target |-> Text(w.pair, "target"),
                                 better |-> better]}
  BY <1>2 DEF JudgeAnswers
<1>4. PICK new : new = [in |-> evaluation, by |-> By(w).arg, example |-> w.pair.example,
                        source |-> Text(w.pair, "source"), target |-> Text(w.pair, "target"),
                        better |-> better]
  OBVIOUS
<1>5. /\ heard' = heard \cup {new} /\ heard \subseteq heard' /\ new \in heard'
      /\ new.in = evaluation /\ new.better = better
      /\ Asked(new, By(w).arg, Text(w.pair, "source"), Text(w.pair, "target"))
  BY <1>3, <1>4 DEF Asked
<1>6. KeyOf(new) = TaskKey(w)
  BY <1>4 DEF KeyOf, TaskKey, JudgeKey
<1>7. PICK letter : letter = Letter(better, o)
  OBVIOUS
<1>8. PICK u : /\ Becomes(w, u) /\ u.state = "answered" /\ u.letter = letter /\ u.targetIsA = o
  <2>1. Shape /\ Receive(w, letter)
    BY <1>3, <1>7 DEF Inv
  <2>2. \E u : /\ Becomes(w, u) /\ u.state = "answered" /\ u.letter = letter
               /\ u.result = tasks[w].result /\ u.targetIsA = tasks[w].targetIsA
    BY <2>1, AnswerDoes
  <2> QED
    BY <1>2, <2>2
<1>9. Shape'
  BY <1>8, BecomesKeepsShape DEF Inv
<1>10. Held'
  <2>1. \A k \in DOMAIN verdicts' : Remembers(k)'
    BY <1>1, <1>5 DEF Inv, Held, Remembers
  <2>2. Answered(w, u)'
    <3>1. Asked(new, By(w).arg, Text(w.pair, "source")', Text(w.pair, "target")')
      BY <1>1, <1>5, SameTexts
    <3> QED
      BY <1>1, <1>5, <1>7, <1>8, <3>1 DEF Answered
  <2>3. Credited(w, u)'
    BY <1>8 DEF Credited
  <2>4. \A v \in DOMAIN tasks' : Credited(v, tasks[v])' /\ Answered(v, tasks[v])'
    BY <1>1, <1>5, <1>8, <2>2, <2>3, OthersHold
  <2> QED
    BY <2>1, <2>4 DEF Held
<1>11. Bought'
  <2>1. evaluation' \in Nat /\ \A h \in heard' : h.in \in Nat /\ h.in <= evaluation'
    BY <1>1, <1>5 DEF Inv, Bought
  <2>2. caching => \A q \in saved' : KeyOf(q)' \in DOMAIN verdicts'
    BY <1>1, SameTexts DEF Inv, Bought
  <2>3. caching => Fresh(w, u)
    <3>1. IsOpen(tasks[w])
      BY <1>1 DEF IsOpen
    <3> QED
      BY <3>1 DEF Inv, Bought, Fresh
  <2>4. caching => \A v \in DOMAIN tasks' : Fresh(v, tasks[v])'
    BY <1>1, <1>8, <2>3, StaysFresh
  <2>5. caching => RerunBuysNothing'
    <3> SUFFICES ASSUME caching, NEW q \in saved, NEW h \in heard', h.by = q.by, h.example = q.example,
                        h.source = q.source, h.target = q.target
                 PROVE  h.in <= q.in
      BY <1>1 DEF RerunBuysNothing
    <3>1. CASE h \in heard
      BY <3>1 DEF Inv, Bought, RerunBuysNothing
    <3>2. CASE h = new
      <4>1. KeyOf(q) = TaskKey(w)
        BY <1>6, <3>2 DEF KeyOf
      <4>2. q.in = evaluation
        BY <1>1, <4>1 DEF Inv, Bought, Fresh, IsOpen
      <4> QED
        BY <1>5, <3>2, <4>2 DEF Inv, Bought
    <3> QED
      BY <1>5, <3>1, <3>2
  <2> QED
    BY <1>1, <2>1, <2>2, <2>4, <2>5 DEF Bought
<1> QED
  BY <1>9, <1>10, <1>11 DEF Inv

\* The verdict reaches the cache with its orientation, and is credited.  Nobody
\* has heard another in a later evaluation: this is the latest.
LEMMA KeepVerdictKeeps == ASSUME Inv, NEW w \in DOMAIN tasks, KeepVerdict(w) PROVE Inv'
<1>1. /\ tasks[w].state = "answered" /\ UNCHANGED <<raw, suite, caching, evaluation, heard>>
      /\ saved' = IF caching THEN saved \cup {Question(w)} ELSE saved
  BY DEF KeepVerdict, IsAnswered
<1>2. PICK o, letter : o = tasks[w].targetIsA /\ letter = tasks[w].letter
  OBVIOUS
<1>3. o \in BOOLEAN
  BY <1>2 DEF Inv, Shape, IsTask
<1>4. PICK h \in heard : /\ Asked(h, By(w).arg, Text(w.pair, "source"), Text(w.pair, "target"))
                         /\ h.better \in Winners /\ letter = Letter(h.better, o)
  <2>1. Answered(w, tasks[w])
    BY DEF Inv, Held
  <2> QED
    BY <1>1, <1>2, <2>1 DEF Answered
<1>5. By(w).family = "llm_judge"
  BY <1>1 DEF Inv, Held, Answered
<1>6. PICK key : key = TaskKey(w)
  OBVIOUS
<1>7. PICK new : new = Question(w)
  OBVIOUS
<1>8. KeyOf(new) = key /\ new.in = evaluation
  BY <1>6, <1>7 DEF KeyOf, TaskKey, JudgeKey, Question
<1>9. verdicts' = IF caching
                  THEN [k \in DOMAIN verdicts \cup {key} |->
                          IF k = key THEN Stored(letter, o) ELSE verdicts[k]]
                  ELSE verdicts
  BY <1>2, <1>6, KeyFacts DEF KeepVerdict
<1>10. PICK r : r = ScoreFromVerdict(By(w), letter, o)
  OBVIOUS
<1>11. Done(w, r)
  BY <1>2, <1>10 DEF KeepVerdict
<1>12. PICK u : Becomes(w, u) /\ u.state = "done" /\ u.result = r
  BY <1>11, DoneDoes DEF Inv
<1>13. Shape'
  BY <1>12, BecomesKeepsShape DEF Inv
<1>14. Shows(r, h)
  BY <1>3, <1>4, <1>10, VerdictShows
<1>15. Held'
  <2>1. ASSUME NEW k \in DOMAIN verdicts' PROVE Remembers(k)'
    <3>1. CASE caching /\ k = key
      <4>1. verdicts'[k] = Stored(letter, o)
        BY <1>9, <3>1
      <4>2. verdicts'[k].targetIsA = o /\ verdicts'[k].letter = letter
        BY <4>1 DEF Stored
      <4>3. Asked(h, k[1], k[3], k[4])
        BY <1>4, <1>6, <3>1, KeyFacts
      <4> QED
        BY <1>1, <1>3, <1>4, <4>2, <4>3 DEF Remembers
    <3>2. CASE ~(caching /\ k = key)
      <4>1. k \in DOMAIN verdicts /\ verdicts'[k] = verdicts[k]
        BY <1>9, <2>1, <3>2
      <4> QED
        BY <1>1, <4>1 DEF Inv, Held, Remembers
    <3> QED
      BY <3>1, <3>2
  <2>2. Credited(w, u)'
    <3>1. Asked(h, By(w).arg, Text(w.pair, "source")', Text(w.pair, "target")')
      BY <1>1, <1>4, SameTexts
    <3> QED
      BY <1>1, <1>4, <1>12, <1>14, <3>1 DEF Credited
  <2>3. Answered(w, u)'
    BY <1>12 DEF Answered
  <2>4. \A v \in DOMAIN tasks' : Credited(v, tasks[v])' /\ Answered(v, tasks[v])'
    BY <1>1, <1>12, <2>2, <2>3, OthersHold
  <2> QED
    BY <2>1, <2>4 DEF Held
<1>16. Bought'
  <2>1. evaluation' \in Nat /\ \A g \in heard' : g.in \in Nat /\ g.in <= evaluation'
    BY <1>1 DEF Inv, Bought
  <2> SUFFICES ASSUME caching PROVE Bought'
    BY <1>1, <2>1 DEF Bought
  <2>2. saved' = saved \cup {new}
    BY <1>1, <1>7
  <2>3. ASSUME NEW q \in saved' PROVE KeyOf(q)' \in DOMAIN verdicts'
    <3>1. DOMAIN verdicts' = DOMAIN verdicts \cup {key}
      BY <1>9
    <3>2. KeyOf(q)' = KeyOf(q)
      BY <1>1, SameTexts
    <3> QED
      BY <1>8, <2>2, <3>1, <3>2 DEF Inv, Bought
  <2>4. ASSUME NEW v \in DOMAIN tasks' PROVE Fresh(v, tasks[v])'
    <3> SUFFICES ASSUME By(v).family = "llm_judge", IsOpen(tasks[v])', NEW q \in saved',
                        KeyOf(q) = TaskKey(v)
                 PROVE  q.in = evaluation
      BY <1>1, SameTexts DEF Fresh
    <3>1. v \in DOMAIN tasks /\ v # w /\ tasks'[v] = tasks[v]
      BY <1>12 DEF Becomes, IsOpen
    <3>2. CASE q = new
      BY <1>8, <3>2
    <3>3. CASE q \in saved
      BY <3>1, <3>3 DEF Inv, Bought, Fresh, IsOpen
    <3> QED
      BY <2>2, <3>2, <3>3
  <2>5. RerunBuysNothing'
    <3> SUFFICES ASSUME NEW q \in saved', NEW g \in heard, g.by = q.by, g.example = q.example,
                        g.source = q.source, g.target = q.target
                 PROVE  g.in <= q.in
      BY <1>1 DEF RerunBuysNothing
    <3>1. CASE q \in saved
      BY <3>1 DEF Inv, Bought, RerunBuysNothing
    <3>2. CASE q = new
      BY <1>8, <3>2 DEF Inv, Bought
    <3> QED
      BY <2>2, <3>1, <3>2
  <2> QED
    BY <1>1, <2>1, <2>3, <2>4, <2>5 DEF Bought
<1> QED
  BY <1>13, <1>15, <1>16 DEF Inv

\* What is not a verdict is credited to nobody; one that was not cached is lost.
LEMMA OthersKeep ==
  ASSUME Inv, NEW w \in DOMAIN tasks,
         JudgeFails(w) \/ KeepFails(w) \/ EmbeddingsAnswer(w) \/ EmbeddingFails(w)
  PROVE  Inv'
<1>1. PICK r : /\ Done(w, r) /\ (By(w).family = "semantic" \/ r = Broken)
  BY DEF JudgeFails, KeepFails, EmbeddingsAnswer, EmbeddingFails, IsAsking
<1>2. UNCHANGED <<raw, suite, caching, verdicts, heard, saved, evaluation>>
  BY DEF JudgeFails, KeepFails, EmbeddingsAnswer, EmbeddingFails
<1>3. PICK u : Becomes(w, u) /\ u.state = "done" /\ u.result = r
  BY <1>1, DoneDoes DEF Inv
<1>4. Credited(w, u) /\ Answered(w, u) /\ Fresh(w, u)
  BY <1>1, <1>3, NoMarks DEF Credited, Answered, Fresh, IsOpen, Becomes
<1> QED
  BY <1>2, <1>3, <1>4, NothingHeard

\* An evaluation that begins has asked nothing; one that ends or is killed
\* leaves no task.
LEMMA NoneAsking ==
  ASSUME Inv, UNCHANGED <<raw, suite, caching, verdicts, heard, saved>>, Shape',
         evaluation' \in {evaluation, evaluation + 1},
         \A w \in DOMAIN tasks' : tasks'[w].state = "waiting"
  PROVE  Inv'
<1>1. Held'
  <2>1. \A k \in DOMAIN verdicts' : Remembers(k)'
    BY DEF Inv, Held, Remembers
  <2> QED
    BY <2>1 DEF Held, Credited, Answered
<1>2. Bought'
  <2>1. evaluation' \in Nat /\ \A h \in heard' : h.in \in Nat /\ h.in <= evaluation'
    BY DEF Inv, Bought
  <2>2. \A q \in saved' : KeyOf(q)' = KeyOf(q)
    BY SameTexts
  <2>3. \A w \in DOMAIN tasks' : Fresh(w, tasks[w])'
    BY DEF Fresh, IsOpen
  <2> QED
    BY <2>1, <2>2, <2>3 DEF Inv, Bought, RerunBuysNothing
<1> QED
  BY <1>1, <1>2 DEF Inv

\* Begin and the ends of an evaluation.
LEMMA EvaluationKeeps == ASSUME Inv, Begin \/ WriteCoverage \/ Kill PROVE Inv'
<1>1. /\ UNCHANGED <<raw, suite, caching, verdicts, heard, saved>>
      /\ evaluation' \in {evaluation, evaluation + 1}
  BY DEF Begin, WriteCoverage, Kill
<1>2. CASE Begin
  <2>1. PICK work : work = Work
    OBVIOUS
  <2>2. tasks' = [w \in work |-> Waiting]
    BY <1>2, <2>1 DEF Begin
  <2>3. \A w \in DOMAIN tasks' : tasks'[w] = Waiting
    BY <2>2
  <2>4. IsTask(Waiting) /\ Waiting.state = "waiting"
    BY DEF IsTask, Waiting
  <2>5. Shape'
    BY <2>2, <2>3, <2>4 DEF Shape
  <2> QED
    BY <1>1, <2>3, <2>4, <2>5, NoneAsking
<1>3. CASE tasks' = <<>>
  <2>1. Shape' /\ \A w \in DOMAIN tasks' : tasks'[w].state = "waiting"
    BY <1>3 DEF Shape
  <2> QED
    BY <1>1, <2>1, NoneAsking
<1> QED
  BY <1>2, <1>3 DEF WriteCoverage, Kill

-----------------------------------------------------------------------------
(* Sums over finite sets *)

\* A set of subsets of D that holds each of them whose parts, one element
\* smaller, it holds, holds all: induction, with a set for the predicate.
LEMMA SubsetInduction ==
  ASSUME NEW D, IsFiniteSet(D), NEW P,
         \A T \in SUBSET D : (\A x \in T : T \ {x} \in P) => T \in P
  PROVE  \A T \in SUBSET D : T \in P
<1> DEFINE Bad == {T \in SUBSET D : T \notin P}
           Sizes == {Cardinality(T) : T \in Bad}
<1>1. \A T \in SUBSET D : IsFiniteSet(T) /\ Cardinality(T) \in Nat
  BY FS_Subset, FS_CardinalityType
<1>2. SUFFICES ASSUME Sizes # {} PROVE FALSE
  OBVIOUS
<1>3. Sizes \subseteq Nat
  BY <1>1
<1> HIDE DEF Sizes
<1>4. PICK n \in Sizes : \A m \in Sizes : ~ (<<m, n>> \in OpToRel(<, Nat))
  BY <1>2, <1>3, NatLessThanWellFounded, WFMin, Zenon
<1>5. \A m \in Sizes : ~(m < n)
  BY <1>3, <1>4, Zenon DEF OpToRel
<1>6. PICK T \in Bad : Cardinality(T) = n
  BY DEF Sizes
<1>7. ASSUME NEW x \in T PROVE T \ {x} \in P
  <2>1. Cardinality(T \ {x}) = n - 1 /\ n \in Nat
    BY <1>1, <1>6, FS_RemoveElement
  <2>2. T \ {x} \in Bad => Cardinality(T \ {x}) \in Sizes
    BY DEF Sizes
  <2> QED
    BY <1>5, <2>1, <2>2
<1> QED
  BY <1>7

\* The sums over the subsets of S, as the fold takes them: an element and the
\* sum over the rest.
Adds(f, S, sum) ==
  sum = [T \in SUBSET S |->
           IF T = {} THEN 0 ELSE LET x == CHOOSE x \in T : TRUE IN f[x] + sum[T \ {x}]]

\* SumFunction is such a sum.
LEMMA SumIsFold == ASSUME NEW f PROVE SumFunction(f) = (CHOOSE sum : Adds(f, DOMAIN f, sum))[DOMAIN f]
BY DEF SumFunction, SumFunctionOnSet, FoldFunctionOnSet, MapThenFoldSet, Adds

Chosen(T) == CHOOSE x \in T : TRUE

\* The chosen element is one.
LEMMA ChosenIn == \A T : T # {} => Chosen(T) \in T
BY DEF Chosen

\* What Adds says of one subset.
LEMMA AddsAt ==
  ASSUME NEW f, NEW S, NEW sum, Adds(f, S, sum), NEW T \in SUBSET S
  PROVE  sum[T] = IF T = {} THEN 0 ELSE f[Chosen(T)] + sum[T \ {Chosen(T)}]
BY DEF Adds, Chosen

\* Two such sums agree.
LEMMA SumsAgree ==
  ASSUME NEW f, NEW S, IsFiniteSet(S), NEW s, NEW t, Adds(f, S, s), Adds(f, S, t)
  PROVE  \A T \in SUBSET S : s[T] = t[T]
<1> DEFINE P == {T \in SUBSET S : s[T] = t[T]}
<1>1. ASSUME NEW T \in SUBSET S, \A x \in T : T \ {x} \in P PROVE T \in P
  <2>1. CASE T = {}
    BY <2>1, AddsAt
  <2>2. CASE T # {}
    <3>1. PICK x \in T : x = Chosen(T)
      BY <2>2, ChosenIn
    <3>2. s[T] = f[x] + s[T \ {x}] /\ t[T] = f[x] + t[T \ {x}]
      BY <2>2, <3>1, AddsAt
    <3> QED
      BY <1>1, <3>2
  <2> QED
    BY <2>1, <2>2
<1>2. \A T \in SUBSET S : T \in P
  <2> HIDE DEF P
  <2> QED
    BY <1>1, SubsetInduction
<1> QED
  BY <1>2

\* The sums over the subsets of a finite set exist.
LEMMA SumsExist ==
  ASSUME NEW D, IsFiniteSet(D), NEW f
  PROVE  \E sum : Adds(f, D, sum)
<1> DEFINE Val(U) == (CHOOSE s : Adds(f, U, s))[U]
           all == [T \in SUBSET D |-> Val(T)]
           Step(U) == IF U = {} THEN 0 ELSE f[Chosen(U)] + all[U \ {Chosen(U)}]
           P == {T \in SUBSET D : \A U \in SUBSET T : all[U] = Step(U)}
<1>1. ASSUME NEW T \in SUBSET D, \A U \in SUBSET T : all[U] = Step(U)
      PROVE  Adds(f, T, [U \in SUBSET T |-> all[U]])
  <2> HIDE DEF all
  <2> DEFINE s == [U \in SUBSET T |-> all[U]]
  <2>1. \A U \in SUBSET T : U # {} => U \ {Chosen(U)} \in SUBSET T
    OBVIOUS
  <2>2. \A U \in SUBSET T : s[U] = all[U]
    OBVIOUS
  <2>3. \A U \in SUBSET T : all[U] = IF U = {} THEN 0 ELSE f[Chosen(U)] + s[U \ {Chosen(U)}]
    BY <1>1, <2>1, <2>2
  <2>4. s = [U \in SUBSET T |-> IF U = {} THEN 0 ELSE f[Chosen(U)] + s[U \ {Chosen(U)}]]
    BY <2>3
  <2> QED
    BY <2>4 DEF Adds, Chosen
<1>2. ASSUME NEW T \in SUBSET D, \A U \in SUBSET T : U # T => all[U] = Step(U)
      PROVE  all[T] = Step(T)
  <2> DEFINE t == [U \in SUBSET T |-> IF U = {} THEN 0 ELSE f[Chosen(U)] + all[U \ {Chosen(U)}]]
  <2>1. Adds(f, T, t)
    <3> HIDE DEF all
    <3>1. ASSUME NEW U \in SUBSET T, U # {}
          PROVE  U \ {Chosen(U)} \in SUBSET T /\ U \ {Chosen(U)} # T
      BY <3>1, ChosenIn
    <3>2. ASSUME NEW U \in SUBSET T, U # T PROVE t[U] = all[U]
      BY <1>2, <3>2
    <3> HIDE DEF t
    <3>3. \A U \in SUBSET T : t[U] = IF U = {} THEN 0 ELSE f[Chosen(U)] + t[U \ {Chosen(U)}]
      BY <3>1, <3>2 DEF t
    <3>4. t = [U \in SUBSET T |-> t[U]]
      BY DEF t
    <3>5. t = [U \in SUBSET T |-> IF U = {} THEN 0 ELSE f[Chosen(U)] + t[U \ {Chosen(U)}]]
      BY <3>3, <3>4
    <3> QED
      BY <3>5 DEF Adds, Chosen
  <2>2. t[T] = Step(T)
    OBVIOUS
  <2> HIDE DEF t
  <2>3. PICK r : r = (CHOOSE s : Adds(f, T, s)) /\ Adds(f, T, r)
    BY <2>1
  <2>4. IsFiniteSet(T) /\ T \in SUBSET T
    BY FS_Subset
  <2>5. r[T] = t[T]
    BY <2>1, <2>3, <2>4, SumsAgree
  <2>6. all[T] = r[T]
    BY <2>3
  <2> QED
    BY <2>2, <2>5, <2>6
<1>3. \A T \in SUBSET D : T \in P
  <2>1. ASSUME NEW T \in SUBSET D, \A x \in T : T \ {x} \in P PROVE T \in P
    <3> HIDE DEF all
    <3>1. \A U \in SUBSET T : U # T => \E x \in T : U \in SUBSET (T \ {x})
      OBVIOUS
    <3>2. \A U \in SUBSET T : U # T => all[U] = Step(U)
      BY <2>1, <3>1
    <3>3. all[T] = Step(T)
      BY <1>2, <3>2
    <3> QED
      BY <3>2, <3>3
  <2> HIDE DEF P
  <2> QED
    BY <2>1, SubsetInduction
<1>4. \A U \in SUBSET D : all[U] = Step(U)
  <2> HIDE DEF all, Step
  <2>1. D \in P
    BY <1>3
  <2> QED
    BY <2>1
<1> QED
  BY <1>1, <1>4

\* The sums over the subsets of D: each takes an element of the subset,
\* whichever, and the sum over the rest.
IsSum(f, D, sum) ==
  /\ \A T \in SUBSET D : sum[T] \in Int
  /\ sum[{}] = 0
  /\ \A T \in SUBSET D : \A y \in T : sum[T] = f[y] + sum[T \ {y}]

\* SumFunction adds integers up, in any order.
LEMMA SumAdds ==
  ASSUME NEW D, IsFiniteSet(D), NEW f, DOMAIN f = D, \A x \in D : f[x] \in Int
  PROVE  \E sum : IsSum(f, D, sum) /\ SumFunction(f) = sum[D]
<1>1. PICK sum : Adds(f, D, sum) /\ SumFunction(f) = sum[D]
  BY SumsExist, SumIsFold
<1>2. sum[{}] = 0
  BY <1>1, AddsAt
<1>3. \A T \in SUBSET D : sum[T] \in Int
  <2> DEFINE P == {T \in SUBSET D : sum[T] \in Int}
  <2>1. ASSUME NEW T \in SUBSET D, \A x \in T : T \ {x} \in P PROVE T \in P
    <3>1. CASE T # {}
      <4>1. PICK x \in T : x = Chosen(T)
        BY <3>1, ChosenIn
      <4>2. sum[T] = f[x] + sum[T \ {x}]
        BY <1>1, <3>1, <4>1, AddsAt
      <4>3. f[x] \in Int /\ sum[T \ {x}] \in Int
        BY <2>1
      <4> QED
        BY <4>2, <4>3
    <3> QED
      BY <1>2, <3>1
  <2>2. \A T \in SUBSET D : T \in P
    <3> HIDE DEF P
    <3> QED
      BY <2>1, SubsetInduction
  <2> QED
    BY <2>2
<1>4. \A T \in SUBSET D : \A y \in T : sum[T] = f[y] + sum[T \ {y}]
  <2> DEFINE P == {T \in SUBSET D : \A y \in T : sum[T] = f[y] + sum[T \ {y}]}
  <2>1. ASSUME NEW T \in SUBSET D, \A x \in T : T \ {x} \in P PROVE T \in P
    <3> SUFFICES ASSUME NEW y \in T PROVE sum[T] = f[y] + sum[T \ {y}]
      OBVIOUS
    <3>0. PICK x \in T : x = Chosen(T)
      BY ChosenIn
    <3>1. sum[T] = f[x] + sum[T \ {x}]
      BY <1>1, <3>0, AddsAt
    <3>2. CASE x # y
      <4>1. sum[T \ {x}] = f[y] + sum[(T \ {x}) \ {y}] /\ sum[T \ {y}] = f[x] + sum[(T \ {y}) \ {x}]
        BY <2>1, <3>2
      <4>2. (T \ {x}) \ {y} = (T \ {y}) \ {x} /\ (T \ {x}) \ {y} \in SUBSET D
        OBVIOUS
      <4>3. PICK a, b, c : a = f[x] /\ b = f[y] /\ c = sum[(T \ {x}) \ {y}]
        OBVIOUS
      <4>4. a \in Int /\ b \in Int /\ c \in Int
        BY <1>3, <4>2, <4>3
      <4>5. sum[T] = a + (b + c) /\ sum[T \ {y}] = a + c
        BY <3>1, <4>1, <4>2, <4>3
      <4>6. a + (b + c) = b + (a + c)
        BY <4>4
      <4> QED
        BY <4>3, <4>5, <4>6
    <3> QED
      BY <3>1, <3>2
  <2>2. \A T \in SUBSET D : T \in P
    <3> HIDE DEF P
    <3> QED
      BY <2>1, SubsetInduction
  <2> QED
    BY <2>2
<1> QED
  BY <1>1, <1>2, <1>3, <1>4 DEF IsSum

\* The sum of n numbers of 0..m is in 0..m*n.
LEMMA SumBound ==
  ASSUME NEW D, IsFiniteSet(D), NEW f, DOMAIN f = D, NEW m \in Nat, \A x \in D : f[x] \in 0..m
  PROVE  SumFunction(f) \in 0..(m * Cardinality(D))
<1>1. \A x \in D : f[x] \in Int
  OBVIOUS
<1>2. PICK sum : IsSum(f, D, sum) /\ SumFunction(f) = sum[D]
  BY <1>1, SumAdds
<1>3. \A T \in SUBSET D : \A y \in T : \E u \in Int : u = sum[T \ {y}] /\ sum[T] = f[y] + u
  BY <1>2 DEF IsSum
<1> DEFINE P == {T \in SUBSET D : sum[T] \in 0..(m * Cardinality(T))}
<1>4. ASSUME NEW T \in SUBSET D, \A x \in T : T \ {x} \in P PROVE T \in P
  <2>1. CASE T = {}
    <3>1. sum[T] = 0 /\ Cardinality(T) = 0
      BY <1>2, <2>1, FS_EmptySet DEF IsSum
    <3> QED
      BY <3>1
  <2>2. CASE T # {}
    <3>1. PICK x \in T : TRUE
      BY <2>2
    <3>2. PICK k \in Nat : Cardinality(T) = k
      BY FS_Subset, FS_CardinalityType
    <3>3. Cardinality(T \ {x}) = k - 1
      BY <3>2, FS_Subset, FS_RemoveElement
    <3>4. PICK u \in Int : u = sum[T \ {x}] /\ sum[T] = f[x] + u
      BY <1>3
    <3>5. PICK v \in 0..m : v = f[x]
      OBVIOUS
    <3>6. u \in 0..(m * (k - 1))
      BY <1>4, <3>3, <3>4
    <3>7. v + u \in 0..(m * k)
      <4>1. m * (k - 1) = m * k - m /\ m * k \in Int
        OBVIOUS
      <4> QED
        BY <3>5, <3>6, <4>1
    <3> QED
      BY <3>2, <3>4, <3>5, <3>7
  <2> QED
    BY <2>1, <2>2
<1>5. \A T \in SUBSET D : T \in P
  <2> HIDE DEF P
  <2> QED
    BY <1>4, SubsetInduction
<1> QED
  BY <1>2, <1>5

\* Multiples of a number add up to one.
LEMMA MultiplesAdd ==
  ASSUME NEW n \in Int, n > 0, NEW u \in Int, NEW v \in Int, u % n = 0, v % n = 0
  PROVE  (u + v) % n = 0
<1>1. PICK p \in Int, q \in Int : u = p * n /\ v = q * n
  <2>1. u = (u \div n) * n /\ u \div n \in Int
    OBVIOUS
  <2>2. v = (v \div n) * n /\ v \div n \in Int
    OBVIOUS
  <2> QED
    BY <2>1, <2>2
<1>2. u + v = (p + q) * n
  BY <1>1
<1>3. ((p + q) * n) % n = 0
  OBVIOUS
<1> QED
  BY <1>2, <1>3

\* A sum of multiples of a number is one.
LEMMA SumMultiple ==
  ASSUME NEW D, IsFiniteSet(D), NEW f, DOMAIN f = D, NEW n \in Int, n > 0,
         \A x \in D : f[x] \in Int /\ f[x] % n = 0
  PROVE  SumFunction(f) \in Int /\ SumFunction(f) % n = 0
<1>1. PICK sum : IsSum(f, D, sum) /\ SumFunction(f) = sum[D]
  BY SumAdds
<1>2. \A T \in SUBSET D : \A y \in T : \E u \in Int : u = sum[T \ {y}] /\ sum[T] = f[y] + u
  BY <1>1 DEF IsSum
<1> DEFINE P == {T \in SUBSET D : sum[T] % n = 0}
<1>3. ASSUME NEW T \in SUBSET D, \A x \in T : T \ {x} \in P PROVE T \in P
  <2>1. CASE T = {}
    <3>1. sum[T] = 0
      BY <1>1, <2>1 DEF IsSum
    <3>2. 0 % n = 0
      OBVIOUS
    <3> QED
      BY <3>1, <3>2
  <2>2. CASE T # {}
    <3>1. PICK x \in T : TRUE
      BY <2>2
    <3>2. PICK u \in Int : u = sum[T \ {x}] /\ sum[T] = f[x] + u
      BY <1>2
    <3>3. u % n = 0
      BY <1>3, <3>2
    <3>4. PICK v \in Int : v = f[x] /\ v % n = 0
      OBVIOUS
    <3>5. (v + u) % n = 0
      BY <3>3, <3>4, MultiplesAdd
    <3> QED
      BY <3>2, <3>4, <3>5
  <2> QED
    BY <2>1, <2>2
<1>4. \A T \in SUBSET D : T \in P
  <2> HIDE DEF P
  <2> QED
    BY <1>3, SubsetInduction
<1> QED
  BY <1>1, <1>4 DEF IsSum

\* A sum does not know the names of its terms.
LEMMA SumRenamed ==
  ASSUME NEW f, NEW g, IsFiniteSet(DOMAIN f), NEW b \in Bijection(DOMAIN f, DOMAIN g),
         \A x \in DOMAIN f : f[x] \in Int /\ f[x] = g[b[x]]
  PROVE  SumFunction(f) = SumFunction(g)
<1> DEFINE D == DOMAIN f
           E == DOMAIN g
           Im(T) == {b[x] : x \in T}
<1>1. /\ b \in [D -> E] /\ \A x, y \in D : b[x] = b[y] => x = y
      /\ \A e \in E : \E x \in D : b[x] = e
  BY DEF Bijection, Injection, Surjection, IsInjective
<1>2. IsFiniteSet(E) /\ \A e \in E : g[e] \in Int
  <2>1. ExistsBijection(D, E)
    BY DEF ExistsBijection
  <2> QED
    BY <1>1, <2>1, FS_Bijection
<1>3. /\ Im(D) = E /\ Im({}) = {}
      /\ \A T \in SUBSET D : \A x \in T :
           Im(T) \in SUBSET E /\ b[x] \in Im(T) /\ Im(T \ {x}) = Im(T) \ {b[x]}
  <2>1. Im(D) \subseteq E /\ E \subseteq Im(D)
    BY <1>1
  <2>2. Im({}) = {}
    OBVIOUS
  <2>3. ASSUME NEW T \in SUBSET D, NEW x \in T
        PROVE  Im(T) \in SUBSET E /\ b[x] \in Im(T)
    BY <1>1
  <2>4. ASSUME NEW T \in SUBSET D, NEW x \in T
        PROVE  Im(T \ {x}) = Im(T) \ {b[x]}
    BY <1>1
  <2> QED
    BY <2>1, <2>2, <2>3, <2>4
<1>4. PICK sum : IsSum(f, D, sum) /\ SumFunction(f) = sum[D]
  BY SumAdds
<1>5. PICK tot : IsSum(g, E, tot) /\ SumFunction(g) = tot[E]
  BY <1>2, SumAdds
<1> DEFINE P == {T \in SUBSET D : sum[T] = tot[Im(T)]}
<1> HIDE DEF Im, D, E
<1>6. ASSUME NEW T \in SUBSET D, \A x \in T : T \ {x} \in P PROVE T \in P
  <2>1. CASE T = {}
    BY <1>3, <1>4, <1>5, <2>1 DEF IsSum
  <2>2. CASE T # {}
    <3>1. PICK x \in T : TRUE
      BY <2>2
    <3>2. sum[T \ {x}] = tot[Im(T) \ {b[x]}]
      BY <1>3, <1>6
    <3>3. sum[T] = f[x] + sum[T \ {x}]
      BY <1>4 DEF IsSum
    <3>4. tot[Im(T)] = g[b[x]] + tot[Im(T) \ {b[x]}]
      BY <1>3, <1>5 DEF IsSum
    <3> QED
      BY <3>2, <3>3, <3>4 DEF D
  <2> QED
    BY <2>1, <2>2
<1>7. \A T \in SUBSET D : T \in P
  <2> HIDE DEF P
  <2> QED
    BY <1>6, SubsetInduction DEF D
<1> QED
  BY <1>3, <1>4, <1>5, <1>7

\* Finitely many numbers have a largest one.
LEMMA MaxIn ==
  ASSUME NEW S, IsFiniteSet(S), S # {}, S \subseteq Int
  PROVE  Max(S) \in S /\ \A y \in S : Max(S) >= y
<1> DEFINE P == {T \in SUBSET S : T = {} \/ \E x \in T : \A y \in T : x >= y}
<1>1. ASSUME NEW T \in SUBSET S, \A x \in T : T \ {x} \in P PROVE T \in P
  <2>1. CASE T # {}
    <3>1. PICK x \in T : TRUE
      BY <2>1
    <3>2. CASE T = {x}
      BY <3>2
    <3>3. CASE T \ {x} # {}
      <4>1. PICK z \in T \ {x} : \A y \in T \ {x} : z >= y
        BY <1>1, <3>3
      <4>2. CASE z >= x
        BY <4>1, <4>2
      <4>3. CASE ~(z >= x)
        <5>1. x \in Int /\ z \in Int /\ x >= z
          BY <4>3
        <5>2. \A y \in T : y \in Int /\ x >= y
          BY <4>1, <5>1
        <5> QED
          BY <5>2
      <4> QED
        BY <4>2, <4>3
    <3> QED
      BY <3>2, <3>3
  <2> QED
    BY <2>1
<1>2. \A T \in SUBSET S : T \in P
  <2> HIDE DEF P
  <2> QED
    BY <1>1, SubsetInduction
<1>3. \E x \in S : \A y \in S : x >= y
  BY <1>2
<1> QED
  BY <1>3 DEF Max

-----------------------------------------------------------------------------
(* What the rows say *)

\* Rows of a key have a last one.
LEMMA LastRow ==
  ASSUME raw \in Raws, NEW x, NEW s, NEW side, RowsOf(x, s, side) # {}
  PROVE  /\ Max(RowsOf(x, s, side)) \in RowsOf(x, s, side)
         /\ \A i \in RowsOf(x, s, side) : i <= Max(RowsOf(x, s, side))
         /\ \A i, j \in RowsOf(x, s, side) : i <= j /\ j <= i => i = j
         /\ Max(RowsOf(x, s, side)) \in DOMAIN raw
<1>1. RowsOf(x, s, side) \subseteq DOMAIN raw /\ DOMAIN raw = 1..Len(raw) /\ Len(raw) \in Nat
  BY StageAssumption DEF RowsOf
<1>2. PICK R : R = RowsOf(x, s, side)
  OBVIOUS
<1>3. IsFiniteSet(R) /\ R \subseteq Int
  <2>1. PICK n \in Nat : R \subseteq 1..n
    BY <1>1, <1>2
  <2>2. IsFiniteSet(1..n)
    BY FS_Interval
  <2>3. IsFiniteSet(R)
    BY <2>1, <2>2, FS_Subset
  <2> QED
    BY <2>1, <2>3
<1>4. PICK m \in R : m = Max(R) /\ \A i \in R : m >= i
  BY <1>2, <1>3, MaxIn
<1>5. \A i \in R : i \in Int
  BY <1>3
<1>6. (\A i \in R : i <= m) /\ (\A i, j \in R : i <= j /\ j <= i => i = j)
  BY <1>4, <1>5
<1> QED
  BY <1>1, <1>2, <1>4, <1>6

\* The calls of a pair are calls there can be.
LEMMA CallIn ==
  ASSUME raw \in Raws, NEW pair \in Pairs, NEW side \in Sides
  PROVE  CallOf(pair, side) \in Calls
<1>1. RowsOf(pair.example, pair.sample, side) # {}
  BY DEF Pairs
<1>2. PICK i \in DOMAIN raw : i = Max(RowsOf(pair.example, pair.sample, side))
  BY <1>1, LastRow
<1>3. CallOf(pair, side) \in {raw[k].call : k \in DOMAIN raw}
  BY <1>2 DEF CallOf
<1>4. {raw[k].call : k \in DOMAIN raw} \subseteq Calls
  BY DEF Calls
<1> QED
  BY <1>3, <1>4

\* Whole samples are the paired ones with nothing broken upstream.
LEMMA WholeIsNotBroken ==
  ASSUME raw \in Raws, NEW x \in Examples, NEW s \in Samples
  PROVE  IsWhole(x, s) <=>
           [example |-> x, sample |-> s] \in Pairs /\ ~Upstream([example |-> x, sample |-> s])
<1> DEFINE pair == [example |-> x, sample |-> s]
           Last(side) == Max(RowsOf(x, s, side))
           Fine(side) == ~raw[Last(side)].call.failed /\ ~raw[Last(side)].call.truncated
<1>1. pair \in [example : Examples, sample : Samples] /\ pair.example = x /\ pair.sample = s
  OBVIOUS
<1>2. pair \in Pairs <=> \A side \in Sides : RowsOf(x, s, side) # {}
  BY <1>1 DEF Pairs
<1>3. ~Upstream(pair) <=> \A side \in Sides : Fine(side)
  BY <1>1 DEF Upstream, CallOf
<1>4. ASSUME NEW side \in Sides, RowsOf(x, s, side) # {}
      PROVE  Fine(side) <=> \E i \in RowsOf(x, s, side) :
                              /\ \A j \in RowsOf(x, s, side) : j <= i
                              /\ ~raw[i].call.failed /\ ~raw[i].call.truncated
  <2>1. PICK i \in RowsOf(x, s, side) : i = Last(side) /\ \A j \in RowsOf(x, s, side) : j <= i
    BY <1>4, LastRow
  <2>2. \A k \in RowsOf(x, s, side) : (\A j \in RowsOf(x, s, side) : j <= k) => k = i
    BY <1>4, <2>1, LastRow
  <2> QED
    BY <2>1, <2>2
<1> HIDE DEF Fine
<1> QED
  BY <1>2, <1>3, <1>4 DEF IsWhole

-----------------------------------------------------------------------------
(* What a task measured *)

\* A result whose marks are scores.
Fair(result) ==
  /\ result.broken \in BOOLEAN
  /\ \A kind \in DOMAIN result.marks : \A side \in Sides : result.marks[kind][side] \in 0..One

\* Marks given to both sides are a result.
LEMMA MeasuredIsFair ==
  ASSUME NEW kinds, NEW marks, DOMAIN marks = kinds,
         \A kind \in kinds : marks[kind].source \in 0..One /\ marks[kind].target \in 0..One
  PROVE  Fair(Measured(marks))
BY DEF Fair, Measured, Sides

\* A single pair of scores, for all axes.
LEMMA SingleIsFair ==
  ASSUME NEW e, NEW source \in 0..One, NEW target \in 0..One
  PROVE  Fair(Single(e, source, target))
BY DEF Fair, Measured, Single, Sides

\* Nothing measured, or a broken measurement, has no mark.
LEMMA EmptyIsFair == Fair(Broken) /\ Fair(Unmeasured)
BY DEF Fair, Broken, Unmeasured, Measured

\* The verdict of a judge is a fair result, whatever letter it answered.
LEMMA VerdictIsFair == ASSUME NEW e, NEW letter, NEW o PROVE Fair(ScoreFromVerdict(e, letter, o))
<1>1. \/ ScoreFromVerdict(e, letter, o) = Single(e, Half, Half)
      \/ ScoreFromVerdict(e, letter, o) = Single(e, 0, One)
      \/ ScoreFromVerdict(e, letter, o) = Single(e, One, 0)
  BY Zenon DEF ScoreFromVerdict
<1>2. Half \in 0..One /\ 0 \in 0..One /\ One \in 0..One
  BY Scores
<1> QED
  BY <1>1, <1>2, SingleIsFair

\* So is the similarity of two embeddings.
LEMMA SemanticIsFair ==
  ASSUME raw \in Raws, NEW pair \in Pairs, NEW e
  PROVE  Fair(Semantic(e, pair))
<1> DEFINE alike == Similarity(Text(pair, "source"), Text(pair, "target"))
<1>1. \/ Semantic(e, pair) = Unmeasured
      \/ Semantic(e, pair) = Single(e, One, 0)
      \/ Semantic(e, pair) = Single(e, One, alike)
  BY Zenon DEF Semantic
<1>2. alike \in 0..One
  <2>1. CallOf(pair, "source") \in Calls /\ CallOf(pair, "target") \in Calls
    BY CallIn DEF Sides
  <2> QED
    BY <2>1, ScoreAssumption DEF Text
<1>3. 0 \in 0..One /\ One \in 0..One
  BY Scores
<1> HIDE DEF alike
<1> QED
  BY <1>1, <1>2, <1>3, SingleIsFair, EmptyIsFair

\* The comparison of the tool calls, where it applies.
LEMMA ToolsAreFair ==
  ASSUME raw \in Raws, NEW pair \in Pairs, NEW n \in DOMAIN Evaluators
  PROVE  Fair(Tools(Evaluators[n], pair))
<1> DEFINE e == Evaluators[n]
           score(kind) == Selected(kind, CallOf(pair, "source"), CallOf(pair, "target"))
           kinds == {kind \in e.kinds : score(kind) # Nothing /\ (kind = "conformance" => suite)}
           marks == [kind \in kinds |-> [source |-> One, target |-> score(kind)]]
<1>1. Tools(e, pair) = Unmeasured \/ Tools(e, pair) = Measured(marks)
  BY DEF Tools
<1>2. \A kind \in e.kinds : score(kind) \in (0..One) \cup {Nothing}
  <2>1. CallOf(pair, "source") \in Calls /\ CallOf(pair, "target") \in Calls
    BY CallIn DEF Sides
  <2> QED
    BY <2>1, ScoreAssumption
<1>3. One \in 0..One
  BY Scores
<1> HIDE DEF e, score
<1>4. \A kind \in kinds : marks[kind].source \in 0..One /\ marks[kind].target \in 0..One
  BY <1>2, <1>3
<1>5. DOMAIN marks = kinds
  OBVIOUS
<1> HIDE DEF kinds, marks
<1>6. Fair(Measured(marks))
  BY <1>4, <1>5, MeasuredIsFair
<1> QED
  BY <1>1, <1>6, EmptyIsFair DEF e

\* A structural evaluator tests the texts of a pair, unless a call is broken.
Tested(w) == IF Upstream(w.pair) THEN Broken ELSE Structural(By(w), w.pair)

\* It is never told anything else.
LEMMA ReadyIsTested ==
  ASSUME NEW w, By(w).family = "structural" PROVE Ready(w) = Tested(w)
BY Zenon DEF Ready, Tested

\* The scores of a structural evaluator.
LEMMA MatchesAreScores ==
  ASSUME raw \in Raws, NEW w \in Work, NEW side \in Sides
  PROVE  Matches(By(w).arg, Text(w.pair, side)) \in 0..One
<1>1. w.pair \in Pairs /\ w.by \in DOMAIN Evaluators
  BY DEF Work, CallEvaluators
<1>2. CallOf(w.pair, side) \in Calls
  BY <1>1, CallIn
<1> QED
  BY <1>1, <1>2, ScoreAssumption DEF By, Text

\* A structural result is fair.
LEMMA TestedIsFair == ASSUME raw \in Raws, NEW w \in Work PROVE Fair(Tested(w))
<1>1. /\ Matches(By(w).arg, Text(w.pair, "source")) \in 0..One
      /\ Matches(By(w).arg, Text(w.pair, "target")) \in 0..One
  BY MatchesAreScores DEF Sides
<1> QED
  BY <1>1, SingleIsFair, EmptyIsFair DEF Tested, Structural

\* What a task that asks nobody ends with.
LEMMA ReadyIsFair ==
  ASSUME raw \in Raws, NEW w \in Work, IsReady(w)
  PROVE  Fair(Ready(w))
<1> DEFINE e == By(w)
<1>1. w.pair \in Pairs /\ w.by \in DOMAIN Evaluators /\ e = Evaluators[w.by]
  BY DEF Work, CallEvaluators, By
<1>2. CASE Upstream(w.pair)
  <2>1. Ready(w) = Broken
    BY <1>2, Zenon DEF Ready
  <2> QED
    BY <2>1, EmptyIsFair
<1>3. CASE e.family = "structural"
  BY <1>3, ReadyIsTested, TestedIsFair
<1>4. CASE ~Upstream(w.pair) /\ e.family = "tools"
  <2>1. Ready(w) = Tools(e, w.pair)
    <3>1. e.family # "structural"
      BY <1>4
    <3> QED
      BY <1>4, <3>1, Zenon DEF Ready
  <2> QED
    BY <1>1, <2>1, ToolsAreFair
<1>5. CASE ~Upstream(w.pair) /\ e.family = "semantic"
  <2>1. Ready(w) = Semantic(e, w.pair)
    <3>1. e.family # "structural" /\ e.family # "tools"
      BY <1>5
    <3> QED
      BY <1>5, <3>1, Zenon DEF Ready
  <2> QED
    BY <1>1, <2>1, SemanticIsFair
<1>6. CASE ~Upstream(w.pair) /\ e.family = "llm_judge"
  <2> DEFINE hit == verdicts[JudgeKey(By(w), w.pair, FALSE)]
  <2>1. Ready(w) = Unmeasured \/ Ready(w) = ScoreFromVerdict(e, hit.letter, hit.targetIsA)
    <3>1. e.family # "structural" /\ e.family # "tools" /\ e.family # "semantic"
      BY <1>6
    <3> QED
      BY <1>6, <3>1, Zenon DEF Ready
  <2> HIDE DEF hit
  <2> QED
    BY <2>1, VerdictIsFair, EmptyIsFair
<1> QED
  BY <1>2, <1>3, <1>4, <1>5, <1>6 DEF IsReady

-----------------------------------------------------------------------------
(* Cells and their records *)

\* Pairs of members of finite sets are finitely many.
LEMMA PairsAreFinite == IsFiniteSet(Examples) /\ IsFiniteSet(Samples) /\ IsFiniteSet(Pairs)
<1>1. NExamples \in Nat /\ NSamples \in Nat
  BY StageAssumption
<1>2. IsFiniteSet(Examples) /\ IsFiniteSet(Samples)
  BY <1>1, FS_Interval DEF Examples, Samples
<1> DEFINE all == [example : Examples, sample : Samples]
           f == [q \in Examples \X Samples |-> [example |-> q[1], sample |-> q[2]]]
<1>3. f \in [Examples \X Samples -> all]
  OBVIOUS
<1>4. ASSUME NEW p \in all PROVE \E q \in Examples \X Samples : f[q] = p
  <2>1. <<p.example, p.sample>> \in Examples \X Samples /\ p = [example |-> p.example, sample |-> p.sample]
    OBVIOUS
  <2>2. f[<<p.example, p.sample>>] = p
    BY <2>1
  <2> QED
    BY <2>1, <2>2
<1>5. f \in Surjection(Examples \X Samples, all)
  BY <1>3, <1>4 DEF Surjection
<1>6. IsFiniteSet(Examples \X Samples)
  BY <1>2, FS_Product
<1>7. IsFiniteSet(all)
  BY <1>5, <1>6, FS_Surjection
<1>8. Pairs \subseteq all
  BY DEF Pairs
<1> QED
  BY <1>2, <1>7, <1>8, FS_Subset

\* There is a finite amount of work.
LEMMA WorkIsFinite == IsFiniteSet(Work)
<1>1. IsFiniteSet(CallEvaluators)
  <2>1. CallEvaluators \subseteq 1..Len(Evaluators) /\ Len(Evaluators) \in Nat
    BY StageAssumption DEF CallEvaluators
  <2>2. IsFiniteSet(1..Len(Evaluators))
    BY <2>1, FS_Interval
  <2> QED
    BY <2>1, <2>2, FS_Subset
<1> DEFINE f == [q \in Pairs \X CallEvaluators |-> [pair |-> q[1], by |-> q[2]]]
<1>2. f \in [Pairs \X CallEvaluators -> Work]
  BY DEF Work
<1>3. ASSUME NEW w \in Work PROVE \E q \in Pairs \X CallEvaluators : f[q] = w
  <2>1. <<w.pair, w.by>> \in Pairs \X CallEvaluators /\ w = [pair |-> w.pair, by |-> w.by]
    BY DEF Work
  <2>2. f[<<w.pair, w.by>>] = w
    BY <2>1
  <2> QED
    BY <2>1, <2>2
<1>4. f \in Surjection(Pairs \X CallEvaluators, Work)
  BY <1>2, <1>3 DEF Surjection
<1>5. IsFiniteSet(Pairs \X CallEvaluators)
  BY <1>1, PairsAreFinite, FS_Product
<1> QED
  BY <1>4, <1>5, FS_Surjection

\* What cells are.
LEMMA CellFacts ==
  ASSUME DOMAIN tasks = Work, NEW c \in Cells
  PROVE  /\ c = [work |-> c.work, kind |-> c.kind]
         /\ c.work \in Work /\ c.kind \in By(c.work).kinds
         /\ c.work = [pair |-> c.work.pair, by |-> c.work.by]
         /\ c.work.pair = [example |-> c.work.pair.example, sample |-> c.work.pair.sample]
         /\ c.work.pair \in Pairs /\ c.work.by \in CallEvaluators /\ c.work.by \in DOMAIN Evaluators
         /\ c.work.pair.example \in Examples /\ c.work.pair.sample \in Samples
<1>1. PICK w \in Work : \E kind \in By(w).kinds : c = [work |-> w, kind |-> kind]
  BY DEF Cells
<1>2. /\ w.pair \in Pairs /\ w.by \in CallEvaluators /\ w = [pair |-> w.pair, by |-> w.by]
  BY DEF Work
<1>3. w.by \in DOMAIN Evaluators
  BY <1>2 DEF CallEvaluators
<1>4. /\ w.pair.example \in Examples /\ w.pair.sample \in Samples
      /\ w.pair = [example |-> w.pair.example, sample |-> w.pair.sample]
  BY <1>2 DEF Pairs
<1>5. c.work = w /\ c.kind \in By(w).kinds /\ c = [work |-> w, kind |-> c.kind]
  BY <1>1
<1> QED
  BY <1>1, <1>2, <1>3, <1>4, <1>5

\* Conversely, an axis of a piece of work is a cell.
LEMMA CellOf ==
  ASSUME DOMAIN tasks = Work, NEW w \in Work, NEW kind \in By(w).kinds
  PROVE  [work |-> w, kind |-> kind] \in Cells
BY DEF Cells

\* A group has finitely many members.
LEMMA MembersAreFinite == ASSUME DOMAIN tasks = Work, NEW key PROVE IsFiniteSet(Members(key))
<1> DEFINE S == {[work |-> w, kind |-> key.kind] : w \in Work}
           f == [w \in Work |-> [work |-> w, kind |-> key.kind]]
<1>1. f \in Surjection(Work, S)
  BY DEF Surjection
<1>2. IsFiniteSet(S)
  BY <1>1, WorkIsFinite, FS_Surjection
<1>3. ASSUME NEW c \in Members(key) PROVE c \in S
  <2>1. c \in Cells /\ c.kind = key.kind
    BY DEF Members, GroupOf
  <2>2. c = [work |-> c.work, kind |-> c.kind] /\ c.work \in Work
    BY <2>1, CellFacts
  <2> QED
    BY <2>1, <2>2
<1> QED
  BY <1>2, <1>3, FS_Subset

\* A record of scores.jsonl.
Marked == [source : 0..One, target : 0..One, error : BOOLEAN, samples : Nat]

\* Nothing is no record.
LEMMA NothingIsNoMark == Nothing \notin Marked
<1>1. 0..One \subseteq Int
  BY Scores
<1> QED
  BY <1>1, StageAssumption DEF Marked

\* The record of a cell of which a fair result is known.
LEMMA RecordIsMarked ==
  ASSUME NEW c, Fair(tasks[c.work].result)
  PROVE  RecordOf(c) \in Marked \cup {Nothing}
<1> DEFINE result == tasks[c.work].result
<1>1. Half \in 0..One
  BY Scores
<1>2. CASE result.broken
  <2>1. RecordOf(c) = [source |-> Half, target |-> Half, error |-> TRUE, samples |-> 1]
    BY <1>2 DEF RecordOf
  <2> QED
    BY <1>1, <2>1 DEF Marked
<1>3. CASE ~result.broken /\ c.kind \in DOMAIN result.marks
  <2>1. /\ result.marks[c.kind].source \in 0..One
        /\ result.marks[c.kind].target \in 0..One
    BY <1>3 DEF Fair, Sides
  <2>2. RecordOf(c) = [source |-> result.marks[c.kind].source, target |-> result.marks[c.kind].target,
                       error |-> FALSE, samples |-> 1]
    BY <1>3 DEF RecordOf
  <2> HIDE DEF result
  <2> QED
    BY <2>1, <2>2 DEF Marked
<1>4. CASE ~result.broken /\ c.kind \notin DOMAIN result.marks
  BY <1>4 DEF RecordOf
<1> QED
  BY <1>2, <1>3, <1>4

-----------------------------------------------------------------------------
(* Folding the samples *)

Good(group) == {c \in group : RecordOf(c) # Nothing /\ ~RecordOf(c).error}

MeanRecord(group) ==
  [source |-> Mean(Good(group), "source"), target |-> Mean(Good(group), "target"),
   error |-> FALSE, samples |-> Cardinality(group)]

\* A group is reduced to one of its records, which are errors or alone, or to
\* the mean of the good ones.
LEMMA ReduceFacts ==
  ASSUME NEW group, IsFiniteSet(group),
         \A c \in group : RecordOf(c) \in Marked \cup {Nothing},
         Reduce(group) # Nothing
  PROVE  \/ \E c \in group :
              /\ RecordOf(c) \in Marked
              /\ Reduce(group) = RecordOf(c) \/ Reduce(group) = [RecordOf(c) EXCEPT !.samples = Cardinality(group)]
              /\ group = {c} \/ Good(group) = {}
         \/ Good(group) # {} /\ Reduce(group) = MeanRecord(group)
<1> DEFINE records == {c \in group : RecordOf(c) # Nothing}
           good == {c \in records : ~RecordOf(c).error}
           one == CHOOSE c \in records : TRUE
<1>1. good = Good(group)
  BY DEF Good
<1>2. records # {}
  BY Zenon DEF Reduce
<1>3. one \in group /\ RecordOf(one) \in Marked
  BY <1>2
<1>4. Cardinality(group) \in Nat /\ Cardinality(group) # 0
  BY <1>2, FS_CardinalityType, FS_EmptySet
<1>5. CASE Cardinality(group) = 1
  <2>1. Reduce(group) = RecordOf(one)
    <3>1. ~(Cardinality(group) > 1)
      BY <1>5
    <3> QED
      BY <1>2, <1>5, <3>1, Zenon DEF Reduce
  <2>2. PICK x : group = {x}
    BY <1>5, FS_Singleton
  <2>3. group = {one}
    <3> HIDE DEF one
    <3> QED
      BY <1>3, <2>2
  <2> QED
    BY <1>3, <2>1, <2>3
<1>6. CASE Cardinality(group) > 1 /\ good = {}
  <2>1. Cardinality(group) # 1
    BY <1>6
  <2>2. Reduce(group) = [RecordOf(one) EXCEPT !.samples = Cardinality(group)]
    BY <1>2, <1>6, <2>1, Zenon DEF Reduce
  <2> QED
    BY <1>1, <1>3, <1>6, <2>2
<1>7. CASE Cardinality(group) # 1 /\ good # {}
  <2>1. Reduce(group) = [source |-> Mean(good, "source"), target |-> Mean(good, "target"),
                         error |-> FALSE, samples |-> Cardinality(group)]
    BY <1>2, <1>7, Zenon DEF Reduce
  <2> HIDE DEF good
  <2> QED
    BY <1>1, <1>7, <2>1 DEF MeanRecord
<1>8. Cardinality(group) > 1 \/ Cardinality(group) = 1
  BY <1>4
<1> QED
  BY <1>5, <1>6, <1>7, <1>8

\* The mean of scores is a score.
LEMMA MeanIsScore ==
  ASSUME NEW group, IsFiniteSet(group), group # {}, NEW side \in Sides,
         \A c \in group : RecordOf(c) \in Marked
  PROVE  Mean(group, side) \in 0..One
<1> DEFINE f == [c \in group |-> RecordOf(c)[side]]
<1>1. \A c \in group : RecordOf(c)[side] \in 0..One
  BY DEF Marked, Sides
<1>2. DOMAIN f = group /\ \A c \in group : f[c] \in 0..One
  BY <1>1
<1>3. Mean(group, side) = SumFunction(f) \div Cardinality(group)
  BY DEF Mean
<1> HIDE DEF f
<1>4. One \in Nat
  BY Scores
<1>5. SumFunction(f) \in 0..(One * Cardinality(group))
  BY <1>2, <1>4, SumBound
<1>6. PICK n \in Int : n = Cardinality(group) /\ n > 0
  BY FS_CardinalityType, FS_EmptySet
<1>7. PICK v \in Int : v = SumFunction(f) /\ 0 <= v /\ v <= One * n
  BY <1>4, <1>5, <1>6
<1>8. v \div n \in 0..One
  BY <1>4, <1>6, <1>7
<1> QED
  BY <1>3, <1>6, <1>7, <1>8

\* So what a group is reduced to is a record.
LEMMA ReduceIsMarked ==
  ASSUME NEW group, IsFiniteSet(group),
         \A c \in group : RecordOf(c) \in Marked \cup {Nothing},
         Reduce(group) # Nothing
  PROVE  Reduce(group) \in Marked
<1>1. Cardinality(group) \in Nat
  BY FS_CardinalityType
<1>2. CASE \E c \in group :
             /\ RecordOf(c) \in Marked
             /\ Reduce(group) = RecordOf(c) \/ Reduce(group) = [RecordOf(c) EXCEPT !.samples = Cardinality(group)]
  <2>1. PICK r \in Marked, n \in Nat : Reduce(group) = r \/ Reduce(group) = [r EXCEPT !.samples = n]
    BY <1>1, <1>2
  <2>2. [r EXCEPT !.samples = n] \in Marked
    BY DEF Marked
  <2> QED
    BY <2>1, <2>2
<1>3. CASE Good(group) # {} /\ Reduce(group) = MeanRecord(group)
  <2>1. IsFiniteSet(Good(group)) /\ \A c \in Good(group) : RecordOf(c) \in Marked
    BY FS_Subset DEF Good
  <2>2. Mean(Good(group), "source") \in 0..One /\ Mean(Good(group), "target") \in 0..One
    BY <1>3, <2>1, MeanIsScore DEF Sides
  <2> QED
    BY <1>1, <1>3, <2>2 DEF MeanRecord, Marked
<1> QED
  BY <1>2, <1>3, ReduceFacts

-----------------------------------------------------------------------------
(* Structural records *)

\* No other evaluator has the name of this one.
HasOwnName(n) == \A m \in DOMAIN Evaluators : Evaluators[m].name = Evaluators[n].name => m = n

WholeOf(x) == {s \in Samples : IsWhole(x, s)}

\* What a structural evaluator makes of one side of the whole samples.
MatchesOf(n, x, side) ==
  [s \in WholeOf(x) |-> Matches(Evaluators[n].arg, raw[Max(RowsOf(x, s, side))].call.text)]

\* The record is an error exactly if no sample is whole, and else their mean.
IsMeanOfWhole(record, n, x) ==
  /\ record.error <=> WholeOf(x) = {}
  /\ WholeOf(x) # {} => \A side \in Sides :
       record[side] * Cardinality(WholeOf(x)) = SumFunction(MatchesOf(n, x, side))

\* A sum of one term.
LEMMA SumOne ==
  ASSUME NEW f, NEW s, DOMAIN f = {s}, f[s] \in Int
  PROVE  SumFunction(f) = f[s]
<1>1. IsFiniteSet({s})
  BY FS_Singleton
<1>2. PICK sum : IsSum(f, {s}, sum) /\ SumFunction(f) = sum[{s}]
  BY <1>1, SumAdds
<1>3. {s} \ {s} = {} /\ s \in {s} /\ {s} \in SUBSET {s}
  OBVIOUS
<1>4. sum[{s}] = f[s] + sum[{s} \ {s}] /\ sum[{}] = 0
  BY <1>2, <1>3 DEF IsSum
<1> QED
  BY <1>2, <1>3, <1>4

\* The whole samples are finitely many, no more than there are samples.
LEMMA WholeIsFinite ==
  ASSUME NEW x PROVE IsFiniteSet(WholeOf(x)) /\ Cardinality(WholeOf(x)) \in 0..NSamples
<1>1. NSamples \in Nat
  BY StageAssumption
<1>2. Cardinality(Samples) = NSamples /\ IsFiniteSet(Samples)
  BY <1>1, FS_Interval DEF Samples
<1>3. WholeOf(x) \subseteq Samples
  BY DEF WholeOf
<1>4. IsFiniteSet(WholeOf(x)) /\ Cardinality(WholeOf(x)) <= NSamples
  BY <1>2, <1>3, FS_Subset
<1> QED
  BY <1>1, <1>4, FS_CardinalityType

\* What is made of them.
LEMMA MatchesAre ==
  ASSUME NEW n, NEW x, NEW side
  PROVE  DOMAIN MatchesOf(n, x, side) = WholeOf(x)
BY DEF MatchesOf

\* Their scores are integers that any number of samples divides.
LEMMA MatchesDivide ==
  ASSUME raw \in Raws, NEW n \in DOMAIN Evaluators, NEW x \in Examples, NEW side \in Sides,
         NEW s \in WholeOf(x)
  PROVE  /\ MatchesOf(n, x, side)[s] \in Int
         /\ MatchesOf(n, x, side)[s] = Matches(Evaluators[n].arg, Text([example |-> x, sample |-> s], side))
         /\ \A k \in 1..NSamples : MatchesOf(n, x, side)[s] % k = 0
<1>1. PICK pair \in Pairs : pair = [example |-> x, sample |-> s]
  BY WholeIsNotBroken DEF WholeOf
<1>2. CallOf(pair, side) \in Calls
  BY CallIn
<1>3. CallOf(pair, side) = raw[Max(RowsOf(x, s, side))].call
  BY <1>1 DEF CallOf
<1>4. MatchesOf(n, x, side)[s] = Matches(Evaluators[n].arg, CallOf(pair, side).text)
  BY <1>3 DEF MatchesOf
<1>5. /\ Matches(Evaluators[n].arg, CallOf(pair, side).text) \in 0..One
      /\ \A k \in 1..NSamples : Matches(Evaluators[n].arg, CallOf(pair, side).text) % k = 0
  BY <1>2, ScoreAssumption
<1>6. 0..One \subseteq Int
  OBVIOUS
<1> QED
  BY <1>1, <1>4, <1>5, <1>6 DEF Text

\* The cell of a sample.
CellAt(key, n, s) ==
  [work |-> [pair |-> [example |-> key.example, sample |-> s], by |-> n], kind |-> key.kind]

\* What is known once the tasks are done.
Finished ==
  /\ raw \in Raws /\ DOMAIN tasks = Work
  /\ \A w \in Work : Fair(tasks[w].result)
  /\ \A w \in Work : By(w).family = "structural" => tasks[w].result = Tested(w)

\* The group of a structural key: the cells of the samples that have a pair.
LEMMA GroupIsOfSamples ==
  ASSUME Finished, NEW n \in DOMAIN Evaluators, Evaluators[n].family = "structural", HasOwnName(n),
         NEW key \in Groups, key.name = Evaluators[n].name
  PROVE  /\ key.example \in Examples /\ key.kind \in Evaluators[n].kinds
         /\ \A s \in Samples : [example |-> key.example, sample |-> s] \in Pairs =>
              CellAt(key, n, s) \in Members(key) /\ CellAt(key, n, s).work \in Work
         /\ \A c \in Members(key) : \E s \in Samples :
              [example |-> key.example, sample |-> s] \in Pairs /\ c = CellAt(key, n, s)
<1>1. DOMAIN tasks = Work
  BY DEF Finished
<1>2. n \in CallEvaluators
  BY DEF CallEvaluators, IsAgentTrace
<1>3. ASSUME NEW c \in Cells, GroupOf(c) = key
      PROVE  /\ c.work.by = n /\ c.kind = key.kind /\ key.kind \in Evaluators[n].kinds
             /\ c.work.pair.example = key.example /\ key.example \in Examples
             /\ c.work.pair.sample \in Samples
             /\ [example |-> key.example, sample |-> c.work.pair.sample] \in Pairs
             /\ c = CellAt(key, n, c.work.pair.sample)
             /\ key = [example |-> key.example, name |-> key.name, kind |-> key.kind, by |-> 0]
  <2>1. /\ c.work.pair.example = key.example /\ By(c.work).name = key.name /\ c.kind = key.kind
        /\ key = [example |-> key.example, name |-> key.name, kind |-> key.kind, by |-> 0]
    BY <1>3 DEF GroupOf
  <2>2. /\ c = [work |-> c.work, kind |-> c.kind]
        /\ c.work \in Work /\ c.kind \in By(c.work).kinds
        /\ c.work = [pair |-> c.work.pair, by |-> c.work.by]
        /\ c.work.pair = [example |-> c.work.pair.example, sample |-> c.work.pair.sample]
        /\ c.work.pair \in Pairs /\ c.work.by \in DOMAIN Evaluators
        /\ c.work.pair.example \in Examples /\ c.work.pair.sample \in Samples
    BY <1>1, CellFacts
  <2>3. c.work.by = n
    BY <2>1, <2>2 DEF HasOwnName, By
  <2>4. key.kind \in Evaluators[n].kinds
    BY <2>1, <2>2, <2>3 DEF By
  <2>5. c = CellAt(key, n, c.work.pair.sample)
    BY <2>1, <2>2, <2>3 DEF CellAt
  <2> QED
    BY <2>1, <2>2, <2>3, <2>4, <2>5
<1>4. PICK c0 \in Cells : GroupOf(c0) = key
  BY DEF Groups
<1>5. /\ key.example \in Examples /\ key.kind \in Evaluators[n].kinds
      /\ key = [example |-> key.example, name |-> key.name, kind |-> key.kind, by |-> 0]
  BY <1>3, <1>4
<1>6. ASSUME NEW s \in Samples, [example |-> key.example, sample |-> s] \in Pairs
      PROVE  CellAt(key, n, s) \in Members(key) /\ CellAt(key, n, s).work \in Work
  <2>1. PICK w \in Work : w = [pair |-> [example |-> key.example, sample |-> s], by |-> n]
    BY <1>2, <1>6 DEF Work
  <2>2. w.by = n /\ w.pair.example = key.example /\ key.kind \in By(w).kinds
    BY <1>5, <2>1 DEF By
  <2>3. PICK c : c = [work |-> w, kind |-> key.kind]
    OBVIOUS
  <2>4. c \in Cells /\ c.work = w /\ c.kind = key.kind
    BY <1>1, <2>2, <2>3, CellOf
  <2>5. GroupOf(c) = key
    BY <1>5, <2>2, <2>4 DEF GroupOf, By
  <2> QED
    BY <2>1, <2>3, <2>4, <2>5 DEF CellAt, Members
<1>7. ASSUME NEW c \in Members(key)
      PROVE  \E s \in Samples : [example |-> key.example, sample |-> s] \in Pairs /\ c = CellAt(key, n, s)
  BY <1>3 DEF Members
<1> QED
  BY <1>5, <1>6, <1>7

\* The record of a sample: whole, or an error.
LEMMA RecordOfSample ==
  ASSUME Finished, NEW n \in DOMAIN Evaluators, Evaluators[n].family = "structural",
         NEW key, key.example \in Examples, key.kind \in Evaluators[n].kinds,
         NEW s \in Samples, CellAt(key, n, s).work \in Work
  PROVE  /\ RecordOf(CellAt(key, n, s)) # Nothing
         /\ RecordOf(CellAt(key, n, s)) \in Marked
         /\ RecordOf(CellAt(key, n, s)).error <=> s \notin WholeOf(key.example)
         /\ s \in WholeOf(key.example) => \A side \in Sides :
              RecordOf(CellAt(key, n, s))[side] = MatchesOf(n, key.example, side)[s]
<1> DEFINE x == key.example
           c == CellAt(key, n, s)
           e == Evaluators[n]
<1>1. PICK w \in Work : w = c.work
  OBVIOUS
<1>2. /\ w.pair = [example |-> x, sample |-> s] /\ w.by = n /\ By(w) = e
      /\ c.kind = key.kind /\ w.pair \in Pairs
  <2>1. w.pair = [example |-> x, sample |-> s] /\ w.by = n /\ c.kind = key.kind
    BY <1>1 DEF CellAt
  <2> QED
    BY <2>1 DEF By, Work
<1>3. tasks[w].result = Tested(w) /\ Fair(tasks[w].result) /\ raw \in Raws
  BY <1>2 DEF Finished
<1>4. s \in WholeOf(x) <=> ~Upstream(w.pair)
  BY <1>2, <1>3, WholeIsNotBroken DEF WholeOf
<1>5. RecordOf(c) \in Marked \cup {Nothing}
  BY <1>1, <1>3, RecordIsMarked
<1>6. CASE s \notin WholeOf(x)
  <2>1. tasks[c.work].result = Broken
    BY <1>1, <1>3, <1>4, <1>6 DEF Tested
  <2>2. RecordOf(c) = [source |-> Half, target |-> Half, error |-> TRUE, samples |-> 1]
    BY <2>1 DEF RecordOf, Broken
  <2>3. RecordOf(c).error /\ RecordOf(c) # Nothing
    <3>1. Half \in 0..One
      BY Scores
    <3>2. RecordOf(c) \in Marked
      BY <2>2, <3>1 DEF Marked
    <3>3. RecordOf(c) # Nothing
      BY <3>2, NothingIsNoMark
    <3> HIDE DEF c
    <3> QED
      BY <2>2, <3>3
  <2> QED
    BY <1>5, <1>6, <2>3
<1>7. CASE s \in WholeOf(x)
  <2> DEFINE src == Matches(e.arg, Text(w.pair, "source"))
             tgt == Matches(e.arg, Text(w.pair, "target"))
  <2>1. tasks[c.work].result = Single(e, src, tgt)
    BY <1>1, <1>2, <1>3, <1>4, <1>7 DEF Tested, Structural
  <2>2. PICK a, b : a = src /\ b = tgt
    OBVIOUS
  <2>3. RecordOf(c) = [source |-> a, target |-> b, error |-> FALSE, samples |-> 1]
    <3>1. c.kind \in e.kinds
      BY <1>2
    <3>2. PICK r : r = Single(e, a, b) /\ tasks[c.work].result = r
      BY <2>1, <2>2
    <3>3. ~r.broken /\ c.kind \in DOMAIN r.marks /\ r.marks[c.kind].source = a /\ r.marks[c.kind].target = b
      BY <3>1, <3>2 DEF Single, Measured
    <3> HIDE DEF c
    <3> QED
      BY <3>2, <3>3 DEF RecordOf
  <2>4. a \in 0..One /\ b \in 0..One
    BY <1>2, <1>3, <2>2, MatchesAreScores DEF Sides
  <2>5. RecordOf(c) \in Marked /\ ~RecordOf(c).error
    BY <2>3, <2>4 DEF Marked
  <2>6. RecordOf(c) # Nothing
    BY <2>5, NothingIsNoMark
  <2>7. MatchesOf(n, x, "source")[s] = a /\ MatchesOf(n, x, "target")[s] = b
    <3>1. \A side \in Sides : MatchesOf(n, x, side)[s] = Matches(e.arg, Text(w.pair, side))
      BY <1>2, <1>3, <1>7, MatchesDivide
    <3> QED
      BY <2>2, <3>1 DEF Sides
  <2>8. \A side \in Sides : RecordOf(c)[side] = MatchesOf(n, x, side)[s]
    <3> HIDE DEF c
    <3> QED
      BY <2>3, <2>7 DEF Sides
  <2> QED
    BY <1>7, <2>5, <2>6, <2>8
<1> QED
  BY <1>6, <1>7

\* Its good members are the cells of the whole samples, and add up to what the
\* evaluator makes of these.
LEMMA GoodIsWhole ==
  ASSUME Finished, NEW n \in DOMAIN Evaluators, Evaluators[n].family = "structural", HasOwnName(n),
         NEW key \in Groups, key.name = Evaluators[n].name
  PROVE  /\ Cardinality(Good(Members(key))) = Cardinality(WholeOf(key.example))
         /\ IsFiniteSet(Good(Members(key)))
         /\ \A side \in Sides : SumFunction([c \in Good(Members(key)) |-> RecordOf(c)[side]])
                               = SumFunction(MatchesOf(n, key.example, side))
<1> DEFINE x == key.example
           good == Good(Members(key))
           whole == WholeOf(x)
           b == [s \in whole |-> CellAt(key, n, s)]
<1>1. raw \in Raws /\ x \in Examples /\ key.kind \in Evaluators[n].kinds
  BY GroupIsOfSamples DEF Finished
<1>2. \A s \in whole : s \in Samples /\ [example |-> x, sample |-> s] \in Pairs
  BY <1>1, WholeIsNotBroken DEF WholeOf
<1>3. ASSUME NEW s \in whole
      PROVE  /\ CellAt(key, n, s) \in good
             /\ \A side \in Sides : RecordOf(CellAt(key, n, s))[side] = MatchesOf(n, x, side)[s]
  <2>1. s \in Samples /\ CellAt(key, n, s) \in Members(key) /\ CellAt(key, n, s).work \in Work
    BY <1>2, GroupIsOfSamples
  <2>2. /\ RecordOf(CellAt(key, n, s)) # Nothing /\ ~RecordOf(CellAt(key, n, s)).error
        /\ \A side \in Sides : RecordOf(CellAt(key, n, s))[side] = MatchesOf(n, x, side)[s]
    BY <1>1, <2>1, RecordOfSample
  <2> QED
    BY <2>1, <2>2 DEF Good
<1>4. ASSUME NEW c \in good PROVE \E s \in whole : c = CellAt(key, n, s)
  <2>1. c \in Members(key) /\ ~RecordOf(c).error
    BY DEF Good
  <2>2. PICK s \in Samples : [example |-> x, sample |-> s] \in Pairs /\ c = CellAt(key, n, s)
    BY <2>1, GroupIsOfSamples
  <2>3. CellAt(key, n, s).work \in Work
    BY <2>2, GroupIsOfSamples
  <2>4. RecordOf(CellAt(key, n, s)).error <=> s \notin whole
    BY <1>1, <2>3, RecordOfSample
  <2> QED
    BY <2>1, <2>2, <2>4
<1>5. \A s, t : CellAt(key, n, s) = CellAt(key, n, t) => s = t
  <2> SUFFICES ASSUME NEW s, NEW t, CellAt(key, n, s) = CellAt(key, n, t) PROVE s = t
    OBVIOUS
  <2>1. CellAt(key, n, s).work.pair.sample = s /\ CellAt(key, n, t).work.pair.sample = t
    BY DEF CellAt
  <2> QED
    BY <2>1
<1>6. IsFiniteSet(whole)
  BY WholeIsFinite
<1> HIDE DEF good, whole
<1>7. b \in Bijection(whole, good) /\ \A s \in whole : b[s] = CellAt(key, n, s)
  BY <1>3, <1>4, <1>5 DEF Bijection, Injection, Surjection, IsInjective
<1> HIDE DEF b
<1>8. Cardinality(good) = Cardinality(whole) /\ IsFiniteSet(good)
  <2>1. ExistsBijection(whole, good)
    BY <1>7 DEF ExistsBijection
  <2> QED
    BY <1>6, <2>1, FS_Bijection
<1>9. ASSUME NEW side \in Sides
      PROVE  SumFunction([c \in good |-> RecordOf(c)[side]]) = SumFunction(MatchesOf(n, x, side))
  <2> DEFINE f == MatchesOf(n, x, side)
             g == [c \in good |-> RecordOf(c)[side]]
  <2>1. DOMAIN f = whole /\ \A s \in whole : f[s] \in Int
    <3>1. DOMAIN f = whole
      BY MatchesAre DEF whole
    <3>2. ASSUME NEW s \in whole PROVE f[s] \in Int
      BY <1>1, MatchesDivide DEF whole
    <3> QED
      BY <3>1, <3>2
  <2>2. DOMAIN g = good /\ \A c \in good : g[c] = RecordOf(c)[side]
    OBVIOUS
  <2>3. \A s \in whole : b[s] \in good /\ RecordOf(b[s])[side] = f[s]
    BY <1>3, <1>7
  <2> HIDE DEF f, g
  <2>4. \A s \in DOMAIN f : f[s] \in Int /\ f[s] = g[b[s]]
    BY <2>1, <2>2, <2>3
  <2>5. SumFunction(f) = SumFunction(g)
    BY <1>6, <1>7, <2>1, <2>2, <2>4, SumRenamed
  <2> QED
    BY <2>5 DEF f, g
<1> QED
  BY <1>8, <1>9 DEF good, whole

\* So the record of the key is the mean over the whole samples.
LEMMA ReducedIsMean ==
  ASSUME Finished, NEW n \in DOMAIN Evaluators, Evaluators[n].family = "structural", HasOwnName(n),
         NEW key \in Groups, key.name = Evaluators[n].name, Reduce(Members(key)) # Nothing
  PROVE  IsMeanOfWhole(Reduce(Members(key)), n, key.example)
<1> DEFINE x == key.example
           group == Members(key)
           whole == WholeOf(x)
<1>0. PICK record : record = Reduce(group)
  OBVIOUS
<1>1. raw \in Raws /\ DOMAIN tasks = Work /\ x \in Examples /\ key.kind \in Evaluators[n].kinds
  BY GroupIsOfSamples DEF Finished
<1>2. IsFiniteSet(group)
  BY <1>1, MembersAreFinite
<1>3. IsFiniteSet(whole) /\ Cardinality(whole) \in 0..NSamples /\ NSamples \in Nat
  BY WholeIsFinite, StageAssumption
<1>4. ASSUME NEW c \in group
      PROVE  \E s \in Samples :
               /\ c = CellAt(key, n, s)
               /\ RecordOf(c) \in Marked
               /\ RecordOf(c).error <=> s \notin whole
               /\ s \in whole => \A side \in Sides : RecordOf(c)[side] = MatchesOf(n, x, side)[s]
  <2>1. PICK s \in Samples : [example |-> x, sample |-> s] \in Pairs /\ c = CellAt(key, n, s)
    BY GroupIsOfSamples
  <2>2. CellAt(key, n, s).work \in Work
    BY <2>1, GroupIsOfSamples
  <2> QED
    BY <1>1, <2>1, <2>2, RecordOfSample
<1> HIDE DEF group, whole
<1>5. \A c \in group : RecordOf(c) \in Marked \cup {Nothing}
  <2> TAKE c \in group
  <2> QED
    BY <1>4
<1>6. Good(group) = {} <=> whole = {}
  <2>1. Cardinality(Good(group)) = Cardinality(whole) /\ IsFiniteSet(Good(group))
    BY GoodIsWhole DEF group, whole
  <2> QED
    BY <1>3, <2>1, FS_EmptySet
<1>7. CASE \E c \in group :
              /\ RecordOf(c) \in Marked
              /\ record = RecordOf(c) \/ record = [RecordOf(c) EXCEPT !.samples = Cardinality(group)]
              /\ group = {c} \/ Good(group) = {}
  <2> SUFFICES IsMeanOfWhole(record, n, x)
    BY <1>0 DEF group
  <2>1. PICK c \in group :
              /\ RecordOf(c) \in Marked
              /\ record = RecordOf(c) \/ record = [RecordOf(c) EXCEPT !.samples = Cardinality(group)]
              /\ group = {c} \/ Good(group) = {}
    BY <1>7
  <2>2. record.error = RecordOf(c).error /\ \A side \in Sides : record[side] = RecordOf(c)[side]
    <3>1. PICK r \in Marked, k \in Nat :
            r = RecordOf(c) /\ (record = r \/ record = [r EXCEPT !.samples = k])
      BY <1>2, <2>1, FS_CardinalityType
    <3>2. record.error = r.error /\ record.source = r.source /\ record.target = r.target
      BY <3>1 DEF Marked
    <3> QED
      BY <3>1, <3>2 DEF Sides
  <2>3. PICK s \in Samples :
          /\ c = CellAt(key, n, s)
          /\ RecordOf(c).error <=> s \notin whole
          /\ s \in whole => \A side \in Sides : RecordOf(c)[side] = MatchesOf(n, x, side)[s]
    BY <1>4
  <2>4. CASE whole = {}
    BY <2>2, <2>3, <2>4 DEF IsMeanOfWhole, whole
  <2>5. CASE whole # {}
    <3>1. group = {c}
      BY <1>6, <2>1, <2>5
    <3>2. ASSUME NEW t \in whole PROVE t = s
      <4>1. t \in Samples /\ [example |-> x, sample |-> t] \in Pairs
        BY <1>1, WholeIsNotBroken DEF WholeOf, whole
      <4>2. CellAt(key, n, t) = c
        BY <3>1, <4>1, GroupIsOfSamples DEF group
      <4>3. CellAt(key, n, t).work.pair.sample = t /\ CellAt(key, n, s).work.pair.sample = s
        BY DEF CellAt
      <4> QED
        BY <2>3, <4>2, <4>3
    <3>3. whole = {s}
      BY <2>5, <3>2
    <3>4. Cardinality(whole) = 1
      BY <3>3, FS_Singleton
    <3>5. ASSUME NEW side \in Sides
          PROVE  record[side] * Cardinality(whole) = SumFunction(MatchesOf(n, x, side))
      <4>1. PICK f : f = MatchesOf(n, x, side)
        OBVIOUS
      <4>2. DOMAIN f = {s} /\ f[s] \in Int
        <5>1. DOMAIN f = whole
          BY <4>1, MatchesAre DEF whole
        <5>2. s \in WholeOf(x)
          BY <3>3 DEF whole
        <5>3. f[s] \in Int
          BY <1>1, <4>1, <5>2, MatchesDivide
        <5> QED
          BY <3>3, <5>1, <5>3
      <4>3. SumFunction(f) = f[s]
        BY <4>2, SumOne
      <4>4. record[side] = f[s]
        BY <2>2, <2>3, <3>3, <4>1
      <4>5. PICK v \in Int : v = f[s]
        BY <4>2
      <4> QED
        BY <3>4, <4>1, <4>3, <4>4, <4>5
    <3> QED
      BY <2>2, <2>3, <2>5, <3>3, <3>5 DEF IsMeanOfWhole, whole
  <2> QED
    BY <2>4, <2>5
<1>8. CASE Good(group) # {} /\ record = MeanRecord(group)
  <2> SUFFICES IsMeanOfWhole(record, n, x)
    BY <1>0 DEF group
  <2>1. whole # {} /\ record.error = FALSE
    BY <1>6, <1>8 DEF MeanRecord
  <2>2. ASSUME NEW side \in Sides
        PROVE  record[side] * Cardinality(whole) = SumFunction(MatchesOf(n, x, side))
    <3>1. PICK f : f = MatchesOf(n, x, side)
      OBVIOUS
    <3>2. record[side] = Mean(Good(group), side)
      BY <1>8 DEF MeanRecord, Sides
    <3>3. PICK k \in 1..NSamples : k = Cardinality(whole)
      BY <1>3, <2>1, FS_EmptySet
    <3>4. Mean(Good(group), side) = SumFunction(f) \div k
      BY <3>1, <3>3, GoodIsWhole DEF Mean, group, whole
    <3>5. DOMAIN f = whole /\ \A s \in whole : f[s] \in Int /\ f[s] % k = 0
      <4>1. DOMAIN f = whole
        BY <3>1, MatchesAre DEF whole
      <4>2. ASSUME NEW s \in whole PROVE f[s] \in Int /\ f[s] % k = 0
        BY <1>1, <3>1, MatchesDivide DEF whole
      <4> QED
        BY <4>1, <4>2
    <3>6. PICK v \in Int : v = SumFunction(f) /\ v % k = 0
      BY <1>3, <3>5, SumMultiple
    <3>7. (v \div k) * k = v
      BY <1>3, <3>6
    <3> QED
      BY <3>1, <3>2, <3>3, <3>4, <3>6, <3>7
  <2> QED
    BY <2>1, <2>2 DEF IsMeanOfWhole, whole
<1> QED
  <2>1. Reduce(group) # Nothing
    BY DEF group
  <2>2. \/ \E c \in group :
              /\ RecordOf(c) \in Marked
              /\ record = RecordOf(c) \/ record = [RecordOf(c) EXCEPT !.samples = Cardinality(group)]
              /\ group = {c} \/ Good(group) = {}
        \/ Good(group) # {} /\ record = MeanRecord(group)
    BY <1>0, <1>2, <1>5, <2>1, ReduceFacts
  <2> QED
    BY <1>7, <1>8, <2>2

-----------------------------------------------------------------------------
(* What coverage counts *)

\* No other evaluator has the name of an agent-trace evaluator.
AgentsHaveOwnNames == \A n \in DOMAIN Evaluators : IsAgentTrace(Evaluators[n]) => HasOwnName(n)

\* The examples that an axis has to account for.
Due(axis) ==
  {x \in Examples : HasPair(x) /\ (IsAgentAxis(axis) => \A side \in Sides : Traced(x, side))}

KeysOf(axis) == {key \in DOMAIN AllCells : AxisOf(key) = axis}

\* The keys there are.
LEMMA KeysAre ==
  /\ DOMAIN AllCells = Groups \cup AgentKeys
  /\ \A key \in DOMAIN AllCells :
       AllCells[key] = IF key.by = 0 THEN Reduce(Members(key)) ELSE AgentRecord(key.example)
BY DEF AllCells

\* A key of the folded cells.
LEMMA GroupKey ==
  ASSUME DOMAIN tasks = Work, NEW key \in Groups
  PROVE  \E n \in CallEvaluators :
           /\ n \in DOMAIN Evaluators /\ key.kind \in Evaluators[n].kinds
           /\ key = [example |-> key.example, name |-> Evaluators[n].name, kind |-> key.kind, by |-> 0]
           /\ key.example \in Examples /\ HasPair(key.example)
           /\ AxisOf(key) = <<Evaluators[n].name, key.kind>>
<1>1. PICK c \in Cells : key = GroupOf(c)
  BY DEF Groups
<1>2. /\ c.work.by \in CallEvaluators /\ c.work.by \in DOMAIN Evaluators
      /\ c.kind \in By(c.work).kinds
      /\ c.work.pair \in Pairs /\ c.work.pair.example \in Examples
  BY CellFacts
<1>3. PICK n, x, kind : n = c.work.by /\ x = c.work.pair.example /\ kind = c.kind
  OBVIOUS
<1>4. key = [example |-> x, name |-> Evaluators[n].name, kind |-> kind, by |-> 0]
  BY <1>1, <1>3 DEF GroupOf, By
<1>5. key.example = x /\ key.kind = kind /\ key.name = Evaluators[n].name
  BY <1>4
<1>6. HasPair(x)
  BY <1>2, <1>3 DEF HasPair
<1>7. AxisOf(key) = <<Evaluators[n].name, key.kind>>
  BY <1>5 DEF AxisOf
<1> QED
  BY <1>2, <1>3, <1>4, <1>5, <1>6, <1>7 DEF By

\* Every example with a pair has one for each axis of each evaluator of calls.
LEMMA GroupOfExample ==
  ASSUME DOMAIN tasks = Work, NEW n \in CallEvaluators, NEW kind \in Evaluators[n].kinds,
         NEW x \in Examples, HasPair(x)
  PROVE  [example |-> x, name |-> Evaluators[n].name, kind |-> kind, by |-> 0] \in Groups
<1>1. PICK p \in Pairs : p.example = x
  BY DEF HasPair
<1>2. PICK w \in Work : w = [pair |-> p, by |-> n]
  BY DEF Work
<1>3. w.pair.example = x /\ w.by = n
  BY <1>1, <1>2
<1>4. PICK c : c = [work |-> w, kind |-> kind]
  OBVIOUS
<1>5. c \in Cells
  BY <1>3, <1>4, CellOf DEF By
<1>6. GroupOf(c) = [example |-> x, name |-> Evaluators[n].name, kind |-> kind, by |-> 0]
  BY <1>3, <1>4 DEF GroupOf, By
<1> QED
  BY <1>5, <1>6 DEF Groups

\* A key of the agents.
LEMMA AgentKey ==
  ASSUME NEW key \in AgentKeys
  PROVE  \E n \in DOMAIN Evaluators :
           /\ n \notin CallEvaluators /\ key.kind \in Evaluators[n].kinds
           /\ key = [example |-> key.example, name |-> Evaluators[n].name, kind |-> key.kind, by |-> n]
           /\ key.example \in Examples /\ HasPair(key.example)
           /\ \A side \in Sides : Traced(key.example, side)
           /\ AxisOf(key) = <<Evaluators[n].name, key.kind>>
<1>1. PICK n \in DOMAIN Evaluators \ CallEvaluators,
           x \in {x \in Examples : HasPair(x) /\ \A side \in Sides : Traced(x, side)} :
             \E kind \in Evaluators[n].kinds :
               key = [example |-> x, name |-> Evaluators[n].name, kind |-> kind, by |-> n]
  BY DEF AgentKeys
<1>2. PICK kind \in Evaluators[n].kinds :
        key = [example |-> x, name |-> Evaluators[n].name, kind |-> kind, by |-> n]
  BY <1>1
<1>3. key.example = x /\ key.kind = kind /\ key.name = Evaluators[n].name
  BY <1>2
<1>4. AxisOf(key) = <<Evaluators[n].name, key.kind>>
  BY <1>3 DEF AxisOf
<1> QED
  BY <1>2, <1>3, <1>4

\* Every example whose traces were imported has one for each axis of an agent
\* evaluator.
LEMMA AgentKeyOfExample ==
  ASSUME NEW n \in DOMAIN Evaluators, n \notin CallEvaluators, NEW kind \in Evaluators[n].kinds,
         NEW x \in Examples, HasPair(x), \A side \in Sides : Traced(x, side)
  PROVE  [example |-> x, name |-> Evaluators[n].name, kind |-> kind, by |-> n] \in AgentKeys
<1> DEFINE Keys(m, y) == {[example |-> y, name |-> Evaluators[m].name, kind |-> k, by |-> m] :
                            k \in Evaluators[m].kinds}
           key == [example |-> x, name |-> Evaluators[n].name, kind |-> kind, by |-> n]
           Imported == {y \in Examples : HasPair(y) /\ \A side \in Sides : Traced(y, side)}
<1>1. key \in Keys(n, x)
  OBVIOUS
<1>2. n \in DOMAIN Evaluators \ CallEvaluators /\ x \in Imported
  OBVIOUS
<1>3. AgentKeys = UNION {Keys(m, y) : m \in DOMAIN Evaluators \ CallEvaluators, y \in Imported}
  BY DEF AgentKeys
<1> HIDE DEF Keys, key, Imported
<1>4. key \in AgentKeys
  BY <1>1, <1>2, <1>3
<1> QED
  BY <1>4 DEF key

\* The keys of an axis are as many as the examples it has to account for: one
\* for each.
LEMMA KeysOfAxis ==
  ASSUME DOMAIN tasks = Work, AgentsHaveOwnNames, NEW axis \in Axes
  PROVE  /\ \A key \in KeysOf(axis) : key.example \in Due(axis)
         /\ \A x \in Due(axis) : \E key \in KeysOf(axis) : key.example = x
         /\ \A k, l \in KeysOf(axis) : k.example = l.example => k = l
<1>1. PICK n \in DOMAIN Evaluators : \E kind \in Evaluators[n].kinds : axis = <<Evaluators[n].name, kind>>
  BY DEF Axes
<1>2. PICK kind \in Evaluators[n].kinds : axis = <<Evaluators[n].name, kind>>
  BY <1>1
<1>3. \A m \in DOMAIN Evaluators : m \in CallEvaluators <=> ~IsAgentTrace(Evaluators[m])
  BY DEF CallEvaluators
<1>4. \A m, k : <<Evaluators[m].name, k>> = axis => Evaluators[m].name = Evaluators[n].name /\ k = kind
  BY <1>2
<1>5. IsAgentAxis(axis) <=> IsAgentTrace(Evaluators[n])
  <2>1. axis[1] = Evaluators[n].name
    BY <1>2
  <2>2. \A m \in DOMAIN Evaluators :
          IsAgentTrace(Evaluators[m]) /\ Evaluators[m].name = Evaluators[n].name => m = n
    BY DEF AgentsHaveOwnNames, HasOwnName
  <2> QED
    BY <2>1, <2>2 DEF IsAgentAxis
<1>6. CASE IsAgentTrace(Evaluators[n])
  <2>1. ASSUME NEW key \in KeysOf(axis)
        PROVE  /\ key = [example |-> key.example, name |-> Evaluators[n].name, kind |-> kind, by |-> n]
               /\ key.example \in Due(axis)
    <3>1. key \in Groups \/ key \in AgentKeys
      BY KeysAre DEF KeysOf
    <3>2. AxisOf(key) = axis
      BY DEF KeysOf
    <3>3. \A m \in DOMAIN Evaluators : Evaluators[m].name = Evaluators[n].name => m = n
      BY <1>6 DEF AgentsHaveOwnNames, HasOwnName
    <3>4. key \notin Groups
      <4> SUFFICES ASSUME key \in Groups PROVE FALSE
        OBVIOUS
      <4>1. PICK m \in CallEvaluators : m \in DOMAIN Evaluators /\ AxisOf(key) = <<Evaluators[m].name, key.kind>>
        BY GroupKey
      <4>2. m = n
        BY <1>4, <3>2, <3>3, <4>1
      <4> QED
        BY <1>3, <1>6, <4>2
    <3>5. PICK m \in DOMAIN Evaluators :
             /\ key = [example |-> key.example, name |-> Evaluators[m].name, kind |-> key.kind, by |-> m]
             /\ key.example \in Examples /\ HasPair(key.example)
             /\ \A side \in Sides : Traced(key.example, side)
             /\ AxisOf(key) = <<Evaluators[m].name, key.kind>>
      BY <3>1, <3>4, AgentKey
    <3>6. m = n /\ key.kind = kind
      BY <1>4, <3>2, <3>3, <3>5
    <3> QED
      BY <3>5, <3>6 DEF Due
  <2>2. ASSUME NEW x \in Due(axis) PROVE \E key \in KeysOf(axis) : key.example = x
    <3>1. x \in Examples /\ HasPair(x) /\ \A side \in Sides : Traced(x, side)
      BY <1>5, <1>6 DEF Due
    <3>2. PICK key : key = [example |-> x, name |-> Evaluators[n].name, kind |-> kind, by |-> n]
      OBVIOUS
    <3>3. key \in AgentKeys
      BY <1>3, <1>6, <3>1, <3>2, AgentKeyOfExample
    <3>4. AxisOf(key) = axis /\ key.example = x
      BY <1>2, <3>2 DEF AxisOf
    <3> QED
      BY <3>3, <3>4, KeysAre DEF KeysOf
  <2>3. ASSUME NEW k \in KeysOf(axis), NEW l \in KeysOf(axis), k.example = l.example PROVE k = l
    BY <2>1, <2>3
  <2> QED
    BY <2>1, <2>2, <2>3
<1>7. CASE ~IsAgentTrace(Evaluators[n])
  <2>1. ASSUME NEW key \in KeysOf(axis)
        PROVE  /\ key = [example |-> key.example, name |-> Evaluators[n].name, kind |-> kind, by |-> 0]
               /\ key.example \in Due(axis)
    <3>1. key \in Groups \/ key \in AgentKeys
      BY KeysAre DEF KeysOf
    <3>2. AxisOf(key) = axis
      BY DEF KeysOf
    <3>3. key \notin AgentKeys
      <4> SUFFICES ASSUME key \in AgentKeys PROVE FALSE
        OBVIOUS
      <4>1. PICK m \in DOMAIN Evaluators : m \notin CallEvaluators /\ AxisOf(key) = <<Evaluators[m].name, key.kind>>
        BY AgentKey
      <4>2. IsAgentTrace(Evaluators[m]) /\ Evaluators[m].name = Evaluators[n].name
        BY <1>3, <1>4, <3>2, <4>1
      <4>3. m = n
        BY <4>2 DEF AgentsHaveOwnNames, HasOwnName
      <4> QED
        BY <1>7, <4>2, <4>3
    <3>4. PICK m \in CallEvaluators :
             /\ key = [example |-> key.example, name |-> Evaluators[m].name, kind |-> key.kind, by |-> 0]
             /\ key.example \in Examples /\ HasPair(key.example)
             /\ AxisOf(key) = <<Evaluators[m].name, key.kind>>
      BY <3>1, <3>3, GroupKey
    <3>5. Evaluators[m].name = Evaluators[n].name /\ key.kind = kind
      BY <1>4, <3>2, <3>4
    <3> QED
      BY <1>5, <1>7, <3>4, <3>5 DEF Due
  <2>2. ASSUME NEW x \in Due(axis) PROVE \E key \in KeysOf(axis) : key.example = x
    <3>1. x \in Examples /\ HasPair(x)
      BY DEF Due
    <3>2. PICK key : key = [example |-> x, name |-> Evaluators[n].name, kind |-> kind, by |-> 0]
      OBVIOUS
    <3>3. key \in Groups
      BY <1>3, <1>7, <3>1, <3>2, GroupOfExample
    <3>4. AxisOf(key) = axis /\ key.example = x
      BY <1>2, <3>2 DEF AxisOf
    <3> QED
      BY <3>3, <3>4, KeysAre DEF KeysOf
  <2>3. ASSUME NEW k \in KeysOf(axis), NEW l \in KeysOf(axis), k.example = l.example PROVE k = l
    BY <2>1, <2>3
  <2> QED
    BY <2>1, <2>2, <2>3
<1> QED
  BY <1>6, <1>7

\* Keys of different examples are as many as the examples.
LEMMA OneForEach ==
  ASSUME NEW K, NEW D, IsFiniteSet(D), \A k \in K : k.example \in D,
         \A x \in D : \E k \in K : k.example = x,
         \A k, l \in K : k.example = l.example => k = l
  PROVE  Cardinality(K) = Cardinality(D)
<1> DEFINE b == [k \in K |-> k.example]
<1>1. b \in Bijection(K, D)
  BY DEF Bijection, Injection, Surjection, IsInjective
<1> HIDE DEF b
<1>2. b \in Injection(K, D) /\ b \in Surjection(K, D)
  BY <1>1 DEF Bijection
<1> QED
  BY <1>2, FS_Injection

\* The coverage that is written, next to the scores that were.
LEMMA CoverageCounts ==
  ASSUME DOMAIN tasks = Work, AgentsHaveOwnNames, NEW axis \in Axes,
         NEW mine, mine = {key \in Recorded(AllCells) : AxisOf(key) = axis},
         NEW measured, measured = {key.example : key \in mine},
         NEW cov, cov = CoverageFor(AllCells)
  PROVE  IF Due(axis) = {} THEN axis \notin DOMAIN cov
         ELSE /\ axis \in DOMAIN cov
              /\ cov[axis].attempted = Cardinality(Due(axis))
              /\ measured \cup cov[axis].unmeasured = Due(axis)
              /\ measured \cap cov[axis].unmeasured = {}
              /\ Cardinality(mine) = Cardinality(measured)
<1>1. /\ \A key \in KeysOf(axis) : key.example \in Due(axis)
      /\ \A x \in Due(axis) : \E key \in KeysOf(axis) : key.example = x
      /\ \A k, l \in KeysOf(axis) : k.example = l.example => k = l
  BY KeysOfAxis
<1>2. DOMAIN cov = {AxisOf(key) : key \in DOMAIN AllCells}
  BY DEF CoverageFor
<1>3. axis \in DOMAIN cov <=> KeysOf(axis) # {}
  BY <1>2 DEF KeysOf
<1>4. CASE Due(axis) = {}
  BY <1>1, <1>3, <1>4
<1>5. CASE Due(axis) # {}
  <2>1. axis \in DOMAIN cov
    BY <1>1, <1>3, <1>5
  <2>2. cov[axis] = [attempted |-> Cardinality(KeysOf(axis)),
                     unmeasured |-> {key.example : key \in KeysOf(axis) \ Recorded(AllCells)}]
    BY <1>2, <2>1 DEF CoverageFor, KeysOf
  <2>3. IsFiniteSet(Due(axis))
    BY PairsAreFinite, FS_Subset DEF Due
  <2>4. cov[axis].attempted = Cardinality(Due(axis))
    BY <1>1, <2>2, <2>3, OneForEach
  <2>5. mine = KeysOf(axis) \cap Recorded(AllCells)
    BY DEF KeysOf, Recorded
  <2>6. cov[axis].unmeasured = {key.example : key \in KeysOf(axis) \ Recorded(AllCells)}
    BY <2>2
  <2>7. measured \cup cov[axis].unmeasured = Due(axis) /\ measured \cap cov[axis].unmeasured = {}
    BY <1>1, <2>5, <2>6
  <2>8. Cardinality(mine) = Cardinality(measured)
    <3>1. measured \subseteq Due(axis)
      BY <2>7
    <3>2. IsFiniteSet(measured)
      BY <2>3, <3>1, FS_Subset
    <3>3. /\ \A k \in mine : k.example \in measured
          /\ \A x \in measured : \E k \in mine : k.example = x
          /\ \A k, l \in mine : k.example = l.example => k = l
      BY <1>1, <2>5
    <3> QED
      BY <3>2, <3>3, OneForEach
  <2> QED
    BY <1>5, <2>1, <2>4, <2>7, <2>8
<1> QED
  BY <1>4, <1>5

-----------------------------------------------------------------------------
(* The steps and what was measured *)

\* A structural task that is done has what its evaluator was told.
Exact(w, t) == By(w).family = "structural" /\ t.state = "done" => t.result = Tested(w)

ScoresAreMeans ==
  \A key \in DOMAIN scores :
    /\ scores[key] \in Marked
    /\ \A n \in DOMAIN Evaluators :
         Evaluators[n].family = "structural" /\ HasOwnName(n) /\ Evaluators[n].name = key.name =>
           IsMeanOfWhole(scores[key], n, key.example)

Kept ==
  /\ raw \in Raws /\ suite \in BOOLEAN /\ caching \in BOOLEAN
  /\ evaluation \in 0..MaxEvaluations /\ failures \in 0..MaxFailures
  /\ phase \in {"idle", "scoring", "recorded"}
  /\ ~caching => verdicts = <<>> /\ embedded = {}
  /\ tasks = <<>> \/ DOMAIN tasks = Work
  /\ phase # "idle" => DOMAIN tasks = Work
  /\ \A w \in DOMAIN tasks : Fair(tasks[w].result) /\ Exact(w, tasks[w])
  /\ phase = "recorded" => Finished /\ scores = Restrict(AllCells, Recorded(AllCells))
  /\ ScoresAreMeans

\* raw.jsonl is not written: the work stays what it is.
LEMMA SameWork == ASSUME raw' = raw PROVE Pairs' = Pairs /\ Work' = Work
<1>1. \A x, s, side : RowsOf(x, s, side)' = RowsOf(x, s, side)
  BY DEF RowsOf
<1>2. Pairs' = Pairs
  BY <1>1 DEF Pairs
<1> QED
  BY <1>2 DEF Work

\* So does what a structural evaluator makes of it.
LEMMA SameTests ==
  ASSUME raw' = raw
  PROVE  /\ \A w : Tested(w)' = Tested(w)
         /\ \A record, n, x : IsMeanOfWhole(record, n, x)' <=> IsMeanOfWhole(record, n, x)
<1>1. \A x, s, side : RowsOf(x, s, side)' = RowsOf(x, s, side)
  BY DEF RowsOf
<1>2. \A pair, side : CallOf(pair, side)' = CallOf(pair, side)
  BY <1>1 DEF CallOf
<1>3. \A w : Tested(w)' = Tested(w)
  <2> TAKE w
  <2>1. Upstream(w.pair)' <=> Upstream(w.pair)
    BY <1>2 DEF Upstream
  <2>2. Structural(By(w), w.pair)' = Structural(By(w), w.pair)
    BY <1>2 DEF Structural, Text
  <2> QED
    BY <2>1, <2>2 DEF Tested
<1>4. \A x : WholeOf(x)' = WholeOf(x)
  BY <1>1 DEF WholeOf, IsWhole
<1>5. \A n, x, side : MatchesOf(n, x, side)' = MatchesOf(n, x, side)
  BY <1>1, <1>4 DEF MatchesOf
<1>6. \A record, n, x : IsMeanOfWhole(record, n, x)' <=> IsMeanOfWhole(record, n, x)
  BY <1>4, <1>5 DEF IsMeanOfWhole
<1> QED
  BY <1>3, <1>6

\* The cells of tasks that stay.
LEMMA SameCells ==
  ASSUME raw' = raw, tasks' = tasks
  PROVE  AllCells' = AllCells
<1>1. Cells' = Cells
  BY DEF Cells
<1>2. \A c : RecordOf(c)' = RecordOf(c)
  BY DEF RecordOf
<1>3. Groups' = Groups /\ \A key : Members(key)' = Members(key)
  BY <1>1 DEF Groups, Members
<1>4. \A group, side : Mean(group, side)' = Mean(group, side)
  BY <1>2 DEF Mean
<1>5. \A group : Reduce(group)' = Reduce(group)
  BY <1>2, <1>4 DEF Reduce
<1>6. AgentKeys' = AgentKeys
  BY SameWork DEF AgentKeys, HasPair
<1> QED
  BY <1>3, <1>5, <1>6 DEF AllCells

\* The records that an evaluation writes are scores, and those of a structural
\* evaluator the means over the whole samples.
LEMMA RecordsAreMeans ==
  ASSUME Finished, NEW key \in Recorded(AllCells)
  PROVE  /\ AllCells[key] \in Marked
         /\ \A n \in DOMAIN Evaluators :
              Evaluators[n].family = "structural" /\ HasOwnName(n) /\ Evaluators[n].name = key.name =>
                IsMeanOfWhole(AllCells[key], n, key.example)
<1>1. key \in DOMAIN AllCells /\ AllCells[key] # Nothing
  BY DEF Recorded
<1>2. DOMAIN tasks = Work
  BY DEF Finished
<1>3. CASE key \in Groups
  <2>1. key.by = 0
    <3>1. PICK n : key = [example |-> key.example, name |-> Evaluators[n].name, kind |-> key.kind, by |-> 0]
      BY <1>2, <1>3, GroupKey
    <3> QED
      BY <3>1
  <2>2. PICK record : record = Reduce(Members(key)) /\ AllCells[key] = record
    BY <1>1, <2>1, KeysAre
  <2>3. \A c \in Members(key) : RecordOf(c) \in Marked \cup {Nothing}
    <3> TAKE c \in Members(key)
    <3>1. c.work \in Work
      BY <1>2, CellFacts DEF Members
    <3> QED
      BY <3>1, RecordIsMarked DEF Finished
  <2>4. record \in Marked
    BY <1>1, <1>2, <2>2, <2>3, MembersAreFinite, ReduceIsMarked
  <2> QED
    BY <1>1, <1>3, <2>2, <2>4, ReducedIsMean
<1>4. CASE key \in AgentKeys
  <2>1. PICK n \in DOMAIN Evaluators :
          /\ n \notin CallEvaluators
          /\ key = [example |-> key.example, name |-> Evaluators[n].name, kind |-> key.kind, by |-> n]
          /\ key.example \in Examples
    BY <1>4, AgentKey
  <2>2. key.by = n /\ key.name = Evaluators[n].name
    BY <2>1
  <2>3. n # 0
    BY StageAssumption
  <2>4. AllCells[key] = AgentRecord(key.example)
    BY <1>1, <2>2, <2>3, KeysAre
  <2>5. TraceMark(key.example) \in 0..One /\ One \in 0..One
    BY <2>1, Scores, ScoreAssumption
  <2>6. AllCells[key] \in Marked
    BY <2>4, <2>5 DEF AgentRecord, Marked
  <2>7. ASSUME NEW m \in DOMAIN Evaluators, Evaluators[m].family = "structural", HasOwnName(m),
               Evaluators[m].name = key.name
        PROVE  FALSE
    <3>1. m = n
      BY <2>2, <2>7 DEF HasOwnName
    <3> QED
      BY <2>1, <2>7, <3>1 DEF CallEvaluators, IsAgentTrace
  <2> QED
    BY <2>6, <2>7
<1> QED
  BY <1>1, <1>3, <1>4, KeysAre

\* A task of this evaluation moves: the rest of what is kept is as it was.
LEMMA MoveKeeps ==
  ASSUME Kept, NEW w \in DOMAIN tasks, NEW u, Becomes(w, u), Fair(u.result), Exact(w, u),
         phase = "scoring", UNCHANGED <<raw, suite, caching, evaluation, phase, scores>>,
         failures' \in 0..MaxFailures, ~caching => UNCHANGED <<verdicts, embedded>>
  PROVE  Kept'
<1>1. DOMAIN tasks = Work /\ Work' = Work /\ DOMAIN tasks' = DOMAIN tasks
  BY SameWork DEF Kept, Becomes
<1>2. ASSUME NEW v \in DOMAIN tasks' PROVE Fair(tasks'[v].result) /\ Exact(v, tasks[v])'
  <2>1. PICK t : t = tasks'[v]
    OBVIOUS
  <2>2. Fair(t.result) /\ Exact(v, t)
    BY <1>1, <2>1 DEF Kept, Becomes
  <2> QED
    BY <2>1, <2>2, SameTests DEF Exact
<1>3. ScoresAreMeans'
  BY SameTests DEF Kept, ScoresAreMeans
<1> QED
  BY <1>1, <1>2, <1>3 DEF Kept, Fair

\* The tasks of this evaluation that ask nobody.
LEMMA ScoreIsExact == ASSUME Inv, Kept, NEW w \in DOMAIN tasks, Score(w) PROVE Kept'
<1>1. phase = "scoring" /\ DOMAIN tasks = Work /\ raw \in Raws
  BY DEF Kept, Score, MayStart
<1>2. PICK r : r = Ready(w)
  OBVIOUS
<1>3. PICK u : Becomes(w, u) /\ u.state = "done" /\ u.result = r
  BY <1>2, DoneDoes DEF Inv, Score
<1>4. Fair(u.result)
  BY <1>1, <1>2, <1>3, ReadyIsFair DEF Score
<1>5. Exact(w, u)
  BY <1>2, <1>3, ReadyIsTested DEF Exact
<1> QED
  BY <1>1, <1>3, <1>4, <1>5, MoveKeeps DEF Score, Kept

\* Those that are put to a provider.
LEMMA AskIsExact == ASSUME Inv, Kept, NEW w \in DOMAIN tasks, Ask(w) PROVE Kept'
<1>1. phase = "scoring"
  BY DEF Ask, MayStart
<1>2. PICK u : Becomes(w, u) /\ u.state = "asking" /\ u.result = tasks[w].result
  BY AskDoes DEF Inv
<1>3. Fair(u.result)
  BY <1>2 DEF Kept
<1>4. Exact(w, u)
  BY <1>2 DEF Exact
<1> QED
  BY <1>1, <1>2, <1>3, <1>4, MoveKeeps DEF Ask, Kept

\* An answer that waits for the cache is no result yet.
LEMMA JudgeIsExact == ASSUME Inv, Kept, NEW w \in DOMAIN tasks, JudgeAnswers(w) PROVE Kept'
<1>1. /\ phase = "scoring"
      /\ UNCHANGED <<raw, suite, caching, verdicts, embedded, evaluation, phase, scores, failures>>
  BY DEF JudgeAnswers, IsAsking
<1>2. PICK letter : Receive(w, letter)
  BY DEF JudgeAnswers
<1>3. PICK u : Becomes(w, u) /\ u.state = "answered" /\ u.result = tasks[w].result
  BY <1>2, AnswerDoes DEF Inv
<1>4. Fair(u.result)
  BY <1>3 DEF Kept
<1>5. Exact(w, u)
  BY <1>3 DEF Exact
<1> QED
  BY <1>1, <1>3, <1>4, <1>5, MoveKeeps DEF Kept

\* What a provider answers is a score, and no structural evaluator asks one.
LEMMA AnswerIsExact ==
  ASSUME Inv, Kept, NEW w \in DOMAIN tasks,
         \/ KeepVerdict(w) \/ JudgeFails(w) \/ KeepFails(w)
         \/ EmbeddingsAnswer(w) \/ EmbeddingFails(w)
  PROVE  Kept'
<1>1. /\ phase = "scoring" /\ By(w).family # "structural"
      /\ UNCHANGED <<raw, suite, caching, evaluation, phase, scores>>
  <2>1. tasks[w].state = "answered" => By(w).family = "llm_judge"
    BY DEF Inv, Held, Answered
  <2> QED
    BY <2>1 DEF KeepVerdict, JudgeFails, KeepFails, EmbeddingsAnswer, EmbeddingFails, IsAsking, IsAnswered
<1>2. raw \in Raws /\ w.pair \in Pairs
  BY <1>1 DEF Kept, Work
<1>3. \E r : Done(w, r) /\ Fair(r)
  <2>1. CASE KeepVerdict(w)
    <3>1. PICK letter, o : Done(w, ScoreFromVerdict(By(w), letter, o))
      BY <2>1 DEF KeepVerdict
    <3> QED
      BY <3>1, VerdictIsFair
  <2>2. CASE EmbeddingsAnswer(w)
    BY <1>2, <2>2, SemanticIsFair DEF EmbeddingsAnswer
  <2>3. CASE JudgeFails(w) \/ KeepFails(w) \/ EmbeddingFails(w)
    BY <2>3, EmptyIsFair DEF JudgeFails, KeepFails, EmbeddingFails
  <2> QED
    BY <2>1, <2>2, <2>3
<1>4. PICK u : Becomes(w, u) /\ u.state = "done" /\ Fair(u.result)
  <2>1. PICK r : Done(w, r) /\ Fair(r)
    BY <1>3
  <2> QED
    BY <2>1, DoneDoes DEF Inv
<1>5. failures' \in 0..MaxFailures
  <2>1. failures' = failures \/ (failures < MaxFailures /\ failures' = failures + 1)
    BY DEF KeepVerdict, JudgeFails, KeepFails, EmbeddingsAnswer, EmbeddingFails
  <2> QED
    BY <2>1, StageAssumption DEF Kept
<1>6. ~caching => UNCHANGED <<verdicts, embedded>>
  <2>1. ~caching => verdicts' = verdicts
    BY DEF KeepVerdict, JudgeFails, KeepFails, EmbeddingsAnswer, EmbeddingFails
  <2>2. ~caching => embedded' = embedded
    BY DEF KeepVerdict, JudgeFails, KeepFails, EmbeddingsAnswer, EmbeddingFails, Remembered
  <2> QED
    BY <2>1, <2>2
<1>7. Exact(w, u)
  BY <1>1 DEF Exact
<1> QED
  BY <1>1, <1>4, <1>5, <1>6, <1>7, MoveKeeps

\* An evaluation begins with nothing measured.
LEMMA BeginIsExact == ASSUME Kept, Begin PROVE Kept'
<1>1. UNCHANGED <<raw, suite, caching, verdicts, embedded, scores, failures>> /\ phase' = "scoring"
  BY DEF Begin
<1>2. PICK work : work = Work
  OBVIOUS
<1>3. tasks' = [w \in work |-> Waiting]
  BY <1>2 DEF Begin
<1>4. DOMAIN tasks' = Work'
  BY <1>1, <1>2, <1>3, SameWork
<1>5. ASSUME NEW w \in DOMAIN tasks' PROVE Fair(tasks'[w].result) /\ Exact(w, tasks[w])'
  <2>1. tasks'[w] = Waiting
    BY <1>3
  <2>2. Waiting.result = Unmeasured /\ Waiting.state = "waiting"
    BY DEF Waiting
  <2> QED
    BY <2>1, <2>2, EmptyIsFair DEF Exact
<1>6. evaluation' \in 0..MaxEvaluations
  BY StageAssumption DEF Kept, Begin
<1>7. ScoresAreMeans'
  BY <1>1, SameTests DEF Kept, ScoresAreMeans
<1> QED
  BY <1>1, <1>4, <1>5, <1>6, <1>7 DEF Kept, Fair

\* scores.jsonl is written when every task is done.
LEMMA WriteIsExact == ASSUME Kept, WriteScores PROVE Kept'
<1>1. /\ UNCHANGED <<raw, suite, caching, verdicts, embedded, evaluation, tasks, failures>>
      /\ phase = "scoring" /\ phase' = "recorded"
      /\ \A w \in DOMAIN tasks : tasks[w].state = "done"
  BY DEF WriteScores, AllDone
<1>2. DOMAIN tasks = Work /\ Work' = Work
  BY <1>1, SameWork DEF Kept
<1>3. Finished
  BY <1>1, <1>2 DEF Kept, Finished, Exact
<1>4. Finished'
  <2>1. \A w : Tested(w)' = Tested(w)
    BY <1>1, SameTests
  <2> QED
    BY <1>1, <1>2, <1>3, <2>1 DEF Finished, Fair
<1>5. PICK cells : cells = AllCells /\ cells = AllCells'
  BY <1>1, SameCells
<1>6. scores' = Restrict(cells, Recorded(cells))
  BY <1>5 DEF WriteScores
<1>7. scores' = Restrict(AllCells', Recorded(AllCells'))
  BY <1>5, <1>6
<1>8. ScoresAreMeans'
  <2>1. DOMAIN scores' = Recorded(cells) /\ \A key \in DOMAIN scores' : scores'[key] = cells[key]
    BY <1>6 DEF Restrict
  <2>2. ASSUME NEW key \in DOMAIN scores'
        PROVE  /\ scores'[key] \in Marked
               /\ \A n \in DOMAIN Evaluators :
                    Evaluators[n].family = "structural" /\ HasOwnName(n) /\ Evaluators[n].name = key.name =>
                      IsMeanOfWhole(scores'[key], n, key.example)
    BY <1>3, <1>5, <2>1, RecordsAreMeans
  <2> QED
    BY <1>1, <2>2, SameTests DEF ScoresAreMeans, Marked
<1>9. \A w \in DOMAIN tasks' : Fair(tasks'[w].result) /\ Exact(w, tasks[w])'
  BY <1>1, SameTests DEF Kept, Exact
<1>10. (phase = "recorded" => Finished /\ scores = Restrict(AllCells, Recorded(AllCells)))'
  BY <1>4, <1>7 DEF Recorded
<1> QED
  BY <1>1, <1>2, <1>8, <1>9, <1>10 DEF Kept, Fair

\* An evaluation that ends, or is killed, leaves no task.
LEMMA EndIsExact == ASSUME Kept, WriteCoverage \/ Kill PROVE Kept'
<1>1. /\ UNCHANGED <<raw, suite, caching, verdicts, embedded, evaluation, scores, failures>>
      /\ phase' = "idle" /\ tasks' = <<>>
  BY DEF WriteCoverage, Kill
<1>2. ScoresAreMeans'
  BY <1>1, SameTests DEF Kept, ScoresAreMeans
<1> QED
  BY <1>1, <1>2 DEF Kept

\* Nothing happens, or one of two embeddings is cached.
LEMMA StutterIsExact ==
  ASSUME Kept, UNCHANGED vars \/ \E w \in DOMAIN tasks : KeepEmbedding(w)
  PROVE  Kept'
<1>1. /\ UNCHANGED <<raw, suite, caching, verdicts, evaluation, phase, tasks, scores, failures>>
      /\ ~caching => embedded' = embedded
  BY DEF vars, KeepEmbedding, Remembered
<1> Work' = Work /\ AllCells' = AllCells
  BY <1>1, SameWork, SameCells
<1>2. ScoresAreMeans'
  BY <1>1, SameTests DEF Kept, ScoresAreMeans
<1>3. \A w \in DOMAIN tasks' : Fair(tasks'[w].result) /\ Exact(w, tasks[w])'
  BY <1>1, SameTests DEF Kept, Exact
<1>4. (phase = "recorded" => Finished /\ scores = Restrict(AllCells, Recorded(AllCells)))'
  <2>1. Finished => Finished'
    <3>1. \A w : Tested(w)' = Tested(w)
      BY <1>1, SameTests
    <3> QED
      BY <1>1, <3>1 DEF Finished, Fair
  <2>2. PICK cells : cells = AllCells /\ cells = AllCells'
    BY <1>1
  <2> QED
    BY <1>1, <2>1, <2>2 DEF Kept, Recorded
<1> QED
  BY <1>1, <1>2, <1>3, <1>4 DEF Kept, Fair

-----------------------------------------------------------------------------
(* The theorems *)

\* The invariant holds at first and every step keeps it.
LEMMA InvHolds == Spec => []Inv
<1>1. Init => Inv
  <2> SUFFICES ASSUME Init PROVE Inv
    OBVIOUS
  <2>1. tasks = <<>> /\ verdicts = <<>> /\ heard = {} /\ saved = {} /\ evaluation = 0
    BY DEF Init
  <2>2. Shape
    BY <2>1 DEF Shape
  <2> QED
    BY <2>1, <2>2 DEF Inv, Held, Bought, RerunBuysNothing
<1>2. Inv /\ [Next]_vars => Inv'
  <2> SUFFICES ASSUME Inv, [Next]_vars PROVE Inv'
    OBVIOUS
  <2>1. CASE UNCHANGED <<raw, suite, caching, verdicts, evaluation, tasks, heard, saved>>
    <3>1. Shape'
      BY <2>1 DEF Inv, Shape
    <3>2. Held'
      <4>1. \A k \in DOMAIN verdicts' : Remembers(k)'
        BY <2>1 DEF Inv, Held, Remembers
      <4>2. \A w \in DOMAIN tasks' : Credited(w, tasks[w])' /\ Answered(w, tasks[w])'
        BY <2>1, SameTexts DEF Inv, Held, Credited, Answered
      <4> QED
        BY <4>1, <4>2 DEF Held
    <3>3. Bought'
      BY <2>1, SameTexts DEF Inv, Bought, Fresh, IsOpen, RerunBuysNothing
    <3> QED
      BY <3>1, <3>2, <3>3 DEF Inv
  <2>2. CASE Begin \/ WriteCoverage \/ Kill
    BY <2>2, EvaluationKeeps
  <2>3. CASE \E w \in DOMAIN tasks :
               \/ Score(w) \/ Ask(w)
               \/ JudgeAnswers(w) \/ KeepVerdict(w)
               \/ JudgeFails(w) \/ KeepFails(w) \/ EmbeddingsAnswer(w) \/ EmbeddingFails(w)
    BY <2>3, ScoreKeeps, AskKeeps, JudgeAnswersKeeps, KeepVerdictKeeps, OthersKeep
  <2>4. CASE WriteScores
    BY <2>1, <2>4 DEF WriteScores
  <2>5. CASE \E w \in DOMAIN tasks : KeepEmbedding(w)
    BY <2>1, <2>5 DEF KeepEmbedding
  <2> QED
    BY <2>1, <2>2, <2>3, <2>4, <2>5 DEF Next, vars
<1> QED
  BY <1>1, <1>2, PTL DEF Spec

\* What is kept holds at first and after every step.
LEMMA KeptHolds == Spec => []Kept
<1>1. Init => Kept
  BY StageAssumption DEF Init, Kept, ScoresAreMeans
<1>2. Inv /\ Kept /\ [Next]_vars => Kept'
  BY ScoreIsExact, AskIsExact, JudgeIsExact, AnswerIsExact, BeginIsExact, WriteIsExact, EndIsExact, StutterIsExact
     DEF Next
<1> QED
  BY <1>1, <1>2, InvHolds, PTL DEF Spec

\* Credit goes to the side the judge preferred, whichever way the two answers
\* were shown and whichever evaluation, example or sample left the verdict.
THEOREM CreditIsTheJudges == Spec => []VerdictsAreTheJudges
<1>1. Inv => VerdictsAreTheJudges
  BY DEF Inv, Held, Credited, Asked, Shows, VerdictsAreTheJudges
<1> QED
  BY <1>1, InvHolds, PTL

\* With the cache on, a question whose verdict has reached the cache is never
\* put to the judge by a later evaluation, whatever was killed or failed since.
THEOREM RerunsAreFree == Spec => []RerunBuysNothing
<1>1. Inv => RerunBuysNothing
  BY DEF Inv, Bought, RerunBuysNothing
<1> QED
  BY <1>1, InvHolds, PTL

\* Every task is waiting, asking, answered or done and belongs to this evaluation's work,
\* every score of scores.jsonl is between none and full marks whatever was
\* broken or unmeasured on the way to it, and without the cache nothing is kept.
THEOREM TypesHold == Spec => []TypeOK
<1>1. Inv /\ Kept => TypeOK
  <2> SUFFICES ASSUME Inv, Kept PROVE TypeOK
    OBVIOUS
  <2>1. \A w \in DOMAIN tasks : tasks[w].state \in {"waiting", "asking", "answered", "done"}
    BY DEF Inv, Shape, IsTask
  <2>2. \A key \in DOMAIN scores : \A side \in Sides : scores[key][side] \in 0..One
    BY DEF Kept, ScoresAreMeans, Marked, Sides
  <2> QED
    BY <2>1, <2>2 DEF Kept, TypeOK
<1> QED
  BY <1>1, InvHolds, KeptHolds, PTL

\* A failed, truncated or missing sample moves no score: the record of a
\* structural evaluator is an error exactly if no sample of the example came
\* back whole, and else the mean over those that did.  Evaluators that share
\* their name share their records too, so each has one of its own here.
THEOREM BrokenSamplesAreLeftOut ==
  ASSUME \A n \in DOMAIN Evaluators : Evaluators[n].family = "structural" => HasOwnName(n)
  PROVE  Spec => []BrokenSamplesMoveNothing
<1>1. Kept => BrokenSamplesMoveNothing
  BY DEF Kept, ScoresAreMeans, IsMeanOfWhole, WholeOf, MatchesOf, BrokenSamplesMoveNothing
<1> QED
  BY <1>1, KeptHolds, PTL

\* Right after an evaluation every axis accounts for each example it is due:
\* one record or one unmeasured entry, never both, never two.  An evaluator of
\* agent traces that shared its name with another would write a second record.
THEOREM AttemptsAreAccounted == ASSUME AgentsHaveOwnNames PROVE Spec => EveryAttemptIsAccounted
<1> DEFINE Accounted ==
      phase = "recorded" /\ coverage' # coverage =>
        \A axis \in Axes :
          LET mine == {key \in DOMAIN scores : AxisOf(key) = axis}
              measured == {key.example : key \in mine}
              due == {x \in Examples : HasPair(x) /\ (IsAgentAxis(axis) => \A side \in Sides : Traced(x, side))}
          IN  IF due = {} THEN axis \notin DOMAIN coverage'
              ELSE /\ axis \in DOMAIN coverage'
                   /\ coverage'[axis].attempted = Cardinality(due)
                   /\ measured \cup coverage'[axis].unmeasured = due
                   /\ measured \cap coverage'[axis].unmeasured = {}
                   /\ Cardinality(mine) = Cardinality(measured)
<1>1. Kept /\ [Next]_vars => Accounted
  <2> SUFFICES ASSUME Kept, [Next]_vars, phase = "recorded", coverage' # coverage, NEW axis \in Axes
               PROVE  LET mine == {key \in DOMAIN scores : AxisOf(key) = axis}
                          measured == {key.example : key \in mine}
                      IN  IF Due(axis) = {} THEN axis \notin DOMAIN coverage'
                          ELSE /\ axis \in DOMAIN coverage'
                               /\ coverage'[axis].attempted = Cardinality(Due(axis))
                               /\ measured \cup coverage'[axis].unmeasured = Due(axis)
                               /\ measured \cap coverage'[axis].unmeasured = {}
                               /\ Cardinality(mine) = Cardinality(measured)
    BY DEF Due
  <2>1. WriteCoverage
    BY DEF Next, vars, Begin, WriteScores, Kill, Score, Ask, JudgeAnswers, JudgeFails,
           KeepVerdict, KeepFails, KeepEmbedding, EmbeddingsAnswer, EmbeddingFails
  <2>2. coverage' = CoverageFor(AllCells) /\ DOMAIN tasks = Work
    BY <2>1 DEF WriteCoverage, Kept
  <2>3. DOMAIN scores = Recorded(AllCells)
    <3>1. scores = Restrict(AllCells, Recorded(AllCells))
      BY DEF Kept
    <3> QED
      BY <3>1 DEF Restrict
  <2> QED
    BY <2>2, <2>3, CoverageCounts, SMTT(30)
<1> QED
  BY <1>1, KeptHolds, PTL DEF Spec, EveryAttemptIsAccounted, Due

=============================================================================
