--------------------------- MODULE RunStagesProofs ---------------------------
(***************************************************************************)
(* What the stages hand on, for any number of overlapping commands, any    *)
(* policies, narrators, rows and bounds (Types); and, for one command at a *)
(* time, that the coverage in state.json is that of scores.jsonl (Paired). *)
(***************************************************************************)
EXTENDS RunStages, TLAPS

State == [status : {"in_progress", "completed"}, coverage : 0..MaxScorings, config : Configs]

Scores == [scoring : 1..MaxScorings, of : 1..Rows, short : BOOLEAN, empty : BOOLEAN]

Evaluating == {"opening", "writing scores", "writing state"}

\* What a command knows, by the step it is at.
IsLocal(l) ==
  \/ l = Idle
  \/ l \in [step : {"running", "scoring"}, state : State]
  \/ l \in [step : Evaluating, state : State, scores : Scores]
  \/ l \in [step : {"reading scores"}, policy : Policies, coverage : 0..MaxScorings]
  \/ l \in [step : {"writing analysis", "deciding"}, policy : Policies, analysis : Analyses]
  \/ l.step \in {"narrating", "rendering"}

Types ==
  /\ config \in Configs
  /\ state = NoState \/ state \in State
  /\ rows \in 0..Rows
  /\ scores \in Scores \cup Unreadable
  /\ analysis \in Unreadable \/ analysis \in Analyses
  /\ decision \in Unreadable \/ decision \in Decisions
  /\ proc = [p \in Commands |-> proc[p]]
  /\ \A p \in Commands : IsLocal(proc[p])
  /\ cut \in BOOLEAN /\ cutAnalyze \in BOOLEAN
  /\ scorings \in 0..MaxScorings /\ edits \in 0..MaxEdits /\ kills \in 0..MaxKills

\* s has the coverage of the scores on disk.
Covers(s) == scores # NoFile => scores \in Scores /\ ~scores.short /\ scores.scoring = s.coverage

\* An evaluate that is between its two files is what makes them disagree, and
\* a run that goes on holds the state it will write back.
PairedAt(p) ==
  /\ proc[p].step \in {"running", "scoring"} \cup Evaluating => state # NoState
  /\ ~cut /\ proc[p].step = "running" => Covers(proc[p].state)
  /\ ~cut => proc[p].step \notin {"writing scores", "writing state"}
  /\ proc[p].step \in Evaluating => ~proc[p].scores.short
  /\ proc[p].step = "writing state" => scores = proc[p].scores

Paired ==
  /\ state = NoState => scores = NoFile
  /\ ~cut => Covers(state)
  /\ \A p \in Commands : PairedAt(p)

OneAtATime == \A p, q \in Commands : p = q

Inv == Types /\ Paired

-----------------------------------------------------------------------------
(* Locals *)

\* The bounds are numbers.
LEMMA Constants ==
  /\ Rows \in Nat /\ Rows >= 1 /\ MaxScorings \in Nat /\ MaxEdits \in Nat /\ MaxKills \in Nat
BY RunStagesAssumption

\* A file that is there can be told from one that is missing or torn.
LEMMA ScoresAreReadable == ASSUME NEW s \in Scores PROVE s # NoFile /\ s # Torn
<1>1. s = [scoring |-> s.scoring, of |-> s.of, short |-> s.short, empty |-> s.empty]
  BY DEF Scores
<1>2. DOMAIN s = {"scoring", "of", "short", "empty"}
  BY <1>1
<1>3. DOMAIN NoFile = {"missing"} /\ DOMAIN Torn = {"torn"}
  BY DEF NoFile, Torn
<1> QED
  BY <1>2, <1>3

\* Nor is a state that is there the missing one.
LEMMA StateIsThere == ASSUME NEW s \in State PROVE s # NoState
BY DEF State, NoState

\* What each step of a command knows.
LEMMA Knows ==
  ASSUME NEW l, IsLocal(l)
  PROVE  /\ l.step \in {"running", "scoring"} => l.state \in State
         /\ l.step \in Evaluating =>
              /\ l \in [step : Evaluating, state : State, scores : Scores]
              /\ l.state \in State /\ l.scores \in Scores
         /\ l.step = "reading scores" => l.policy \in Policies /\ l.coverage \in 0..MaxScorings
         /\ l.step \in {"writing analysis", "deciding"} =>
              /\ l \in [step : {"writing analysis", "deciding"}, policy : Policies, analysis : Analyses]
              /\ l.policy \in Policies /\ l.analysis \in Analyses
         /\ l.step \in Steps
<1>1. CASE l = Idle
  BY <1>1 DEF Idle, Evaluating, Steps
<1>2. CASE l \in [step : {"running", "scoring"}, state : State]
  BY <1>2 DEF Evaluating, Steps
<1>3. CASE l \in [step : Evaluating, state : State, scores : Scores]
  BY <1>3 DEF Evaluating, Steps
<1>4. CASE l \in [step : {"reading scores"}, policy : Policies, coverage : 0..MaxScorings]
  BY <1>4 DEF Evaluating, Steps
<1>5. CASE l \in [step : {"writing analysis", "deciding"}, policy : Policies, analysis : Analyses]
  BY <1>5 DEF Evaluating, Steps
<1>6. CASE l.step \in {"narrating", "rendering"}
  BY <1>6 DEF Evaluating, Steps
<1> QED
  BY <1>1, <1>2, <1>3, <1>4, <1>5, <1>6 DEF IsLocal

\* A command enters a step; the others stay where they are.
Enters(p, l) ==
  /\ proc' = [q \in Commands |-> proc'[q]]
  /\ proc'[p] = l
  /\ \A q \in Commands \ {p} : proc'[q] = proc[q]
  /\ \A q \in Commands : IsLocal(proc'[q])

\* Enter does that.
LEMMA Entered ==
  ASSUME Types, NEW p \in Commands, NEW l, IsLocal(l), Enter(p, l)
  PROVE  Enters(p, l)
<1>1. proc' = [proc EXCEPT ![p] = l] /\ proc = [q \in Commands |-> proc[q]]
  BY DEF Enter, Types
<1>2. proc'[p] = l /\ \A q \in Commands \ {p} : proc'[q] = proc[q]
  BY <1>1
<1>3. proc' = [q \in Commands |-> proc'[q]]
  BY <1>1
<1>4. \A q \in Commands : IsLocal(proc[q])
  BY DEF Types
<1>5. \A q \in Commands : IsLocal(proc'[q])
  BY <1>2, <1>4
<1> QED
  BY <1>2, <1>3, <1>5 DEF Enters

\* So does leaving.
LEMMA Left ==
  ASSUME Types, NEW p \in Commands, Leave(p)
  PROVE  Enters(p, Idle) /\ Idle.step = "idle"
BY Entered DEF Leave, Idle, IsLocal

-----------------------------------------------------------------------------
(* Every step of a command keeps Types, and Paired when there is one command *)

Keeps == Types' /\ (OneAtATime /\ Paired => Paired')

\* With one command it is enough to look at that one.
LEMMA Alone ==
  ASSUME OneAtATime, NEW p \in Commands, PairedAt(p)',
         (state = NoState => scores = NoFile)', (~cut => Covers(state))'
  PROVE  Paired'
<1>1. \A q \in Commands : q = p
  BY DEF OneAtATime
<1> QED
  BY <1>1 DEF Paired

\* A fresh run has no scores, and a resumed one takes its state along.
LEMMA LaunchKeeps == ASSUME Types, NEW p \in Commands, Launch(p) PROVE Keeps
<1>1. state' \in State /\ (state' = state \/ (state = NoState /\ state'.coverage = 0))
  <2>1. CASE state = NoState /\ state' = [status |-> "in_progress", coverage |-> 0, config |-> config]
    BY <2>1, Constants DEF Types, State
  <2>2. CASE state.status = "in_progress" /\ state' = state
    BY <2>2 DEF Types, NoState
  <2> QED
    BY <2>1, <2>2 DEF Launch
<1>2. PICK s \in State : s = state'
  BY <1>1
<1>3. UNCHANGED <<config, rows, scores, analysis, decision, insights, report, history, bounds>>
  BY DEF Launch
<1> DEFINE l == [step |-> "running", state |-> s]
<1>4. IsLocal(l)
  BY DEF IsLocal
<1>5. Enters(p, l)
  BY <1>2, <1>4, Entered DEF Launch
<1>6. Types'
  BY <1>1, <1>3, <1>5 DEF Types, Enters, history, bounds
<1>7. ASSUME OneAtATime, Paired PROVE Paired'
  <2>1. state' # NoState
    BY <1>1, StateIsThere
  <2>2. ~cut => Covers(s)'
    BY <1>1, <1>2, <1>3, <1>7 DEF Paired, Covers, history
  <2>3. proc'[p] = l /\ l.step = "running" /\ l.state = s /\ cut' = cut
    BY <1>3, <1>5 DEF Enters, history
  <2> HIDE DEF l
  <2>4. PairedAt(p)'
    BY <1>2, <2>1, <2>2, <2>3 DEF PairedAt, Evaluating, Covers
  <2>5. (~cut => Covers(state))'
    BY <1>2, <2>2, <2>3 DEF Covers
  <2> QED
    BY <1>7, <2>1, <2>4, <2>5, Alone
<1> QED
  BY <1>6, <1>7 DEF Keeps

\* A checkpoint writes back the state the run holds.
LEMMA AddRowKeeps == ASSUME Types, NEW p \in Commands, AddRow(p) PROVE Keeps
<1>1. proc[p].step = "running" /\ proc[p].state \in State
  BY Knows DEF AddRow, At, Types
<1>2. state' = state \/ state' = proc[p].state
  BY DEF AddRow
<1>3. UNCHANGED <<config, scores, analysis, decision, proc, history, bounds>> /\ rows' \in 0..Rows
  BY Constants DEF AddRow, Types
<1>4. Types'
  BY <1>1, <1>2, <1>3 DEF Types, history, bounds
<1>5. ASSUME OneAtATime, Paired PROVE Paired'
  <2>1. state # NoState /\ state' # NoState
    BY <1>1, <1>2, <1>5, StateIsThere DEF Paired, PairedAt
  <2>2. ~cut => Covers(state)'
    BY <1>1, <1>2, <1>3, <1>5 DEF Paired, PairedAt, Covers
  <2>3. PairedAt(p)'
    BY <1>3, <1>5, <2>1 DEF Paired, PairedAt, Covers, history
  <2> QED
    BY <1>3, <1>5, <2>1, <2>2, <2>3, Alone DEF history
<1> QED
  BY <1>4, <1>5 DEF Keeps

\* The completed state keeps the coverage.
LEMMA FinishRunKeeps == ASSUME Types, NEW p \in Commands, FinishRun(p) PROVE Keeps
<1>1. proc[p].step = "running" /\ proc[p].state \in State
  BY Knows DEF FinishRun, At, Types
<1>2. state' = [proc[p].state EXCEPT !.status = "completed"]
  BY DEF FinishRun
<1>3. state' \in State /\ state'.coverage = proc[p].state.coverage
  BY <1>1, <1>2 DEF State
<1>4. UNCHANGED <<config, rows, scores, analysis, decision, history, bounds>> /\ Enters(p, Idle)
  BY Left DEF FinishRun
<1>5. Types'
  BY <1>3, <1>4 DEF Types, Enters, history, bounds
<1>6. ASSUME OneAtATime, Paired PROVE Paired'
  <2>1. state' # NoState
    BY <1>3, StateIsThere
  <2>2. ~cut => Covers(state)'
    BY <1>1, <1>3, <1>4, <1>6 DEF Paired, PairedAt, Covers
  <2>3. PairedAt(p)'
    BY <1>4 DEF PairedAt, Enters, Evaluating, Idle
  <2> QED
    BY <1>4, <1>6, <2>1, <2>2, <2>3, Alone DEF history
<1> QED
  BY <1>5, <1>6 DEF Keeps

\* evaluate begins with the state on disk.
LEMMA StartEvaluateKeeps == ASSUME Types, NEW p \in Commands, StartEvaluate(p) PROVE Keeps
<1>1. state \in State
  BY DEF StartEvaluate, Types
<1> DEFINE l == [step |-> "scoring", state |-> state]
<1>2. IsLocal(l)
  BY <1>1 DEF IsLocal
<1>3. Enters(p, l) /\ UNCHANGED <<config, files, history, bounds>>
  BY <1>2, Entered DEF StartEvaluate
<1>4. Types'
  BY <1>3 DEF Types, Enters, files, history, bounds
<1>5. ASSUME OneAtATime, Paired PROVE Paired'
  <2>1. state # NoState
    BY DEF StartEvaluate
  <2>2. PairedAt(p)'
    BY <1>3, <2>1 DEF PairedAt, Enters, Evaluating, files
  <2> QED
    BY <1>3, <1>5, <2>1, <2>2, Alone DEF Paired, Covers, files, history
<1> QED
  BY <1>4, <1>5 DEF Keeps

\* A scoring is whole until it is written.
LEMMA ScoreKeeps == ASSUME Types, NEW p \in Commands, Score(p) PROVE Keeps
<1>1. proc[p].step = "scoring" /\ proc[p].state \in State
  BY Knows DEF Score, At, Types
<1>2. UNCHANGED <<config, files, history, edits, kills>>
  BY DEF Score
<1>3. CASE rows = 0
  <2>1. Enters(p, Idle) /\ scorings' = scorings
    BY <1>3, Left DEF Score
  <2>2. Types'
    BY <1>2, <2>1 DEF Types, Enters, files, history
  <2>3. ASSUME OneAtATime, Paired PROVE Paired'
    <3>1. PairedAt(p)'
      BY <2>1 DEF PairedAt, Enters, Evaluating, Idle
    <3> QED
      BY <1>2, <2>3, <3>1, Alone DEF Paired, Covers, files, history
  <2> QED
    BY <2>2, <2>3 DEF Keeps
<1>4. CASE rows # 0
  <2>1. scorings' \in 1..MaxScorings /\ rows \in 1..Rows
    BY <1>4, Constants DEF Score, Types
  <2>2. PICK n \in 1..MaxScorings : n = scorings'
    BY <2>1
  <2>2a. PICK nothing \in BOOLEAN :
          Enter(p, [step |-> "opening", state |-> proc[p].state,
                    scores |-> [scoring |-> n, of |-> rows, short |-> FALSE, empty |-> nothing]])
    BY <1>4, <2>2 DEF Score
  <2> DEFINE s == [scoring |-> n, of |-> rows, short |-> FALSE, empty |-> nothing]
             l == [step |-> "opening", state |-> proc[p].state, scores |-> s]
  <2>3. s \in Scores /\ ~s.short
    BY <2>1 DEF Scores
  <2>4. IsLocal(l)
    BY <1>1, <2>3 DEF IsLocal, Evaluating
  <2>5. Enters(p, l)
    BY <2>2a, <2>4, Entered
  <2>6. Types'
    BY <1>2, <2>1, <2>5 DEF Types, Enters, files, history
  <2>7. ASSUME OneAtATime, Paired PROVE Paired'
    <3>1. state # NoState
      BY <1>1, <2>7 DEF Paired, PairedAt
    <3>2. PairedAt(p)'
      BY <1>2, <2>3, <2>5, <3>1 DEF PairedAt, Enters, files
    <3> QED
      BY <1>2, <2>7, <3>1, <3>2, Alone DEF Paired, Covers, files, history
  <2> QED
    BY <2>6, <2>7 DEF Keeps
<1> QED
  BY <1>3, <1>4

\* From here until the coverage is written, the run is cut.
LEMMA OpenScoresKeeps == ASSUME Types, NEW p \in Commands, OpenScores(p) PROVE Keeps
<1>1. /\ proc[p].step = "opening" /\ proc[p].scores \in Scores
      /\ proc[p] \in [step : Evaluating, state : State, scores : Scores]
  BY Knows DEF OpenScores, At, Types, Evaluating
<1>2. scores' \in Scores \cup Unreadable /\ scores' # NoFile
  <2>1. \A e \in BOOLEAN : [proc[p].scores EXCEPT !.short = TRUE, !.empty = e] \in Scores
    BY <1>1 DEF Scores
  <2>2. Torn # NoFile
    <3>1. DOMAIN Torn = {"torn"} /\ DOMAIN NoFile = {"missing"}
      BY DEF Torn, NoFile
    <3> QED
      BY <3>1
  <2> QED
    BY <2>1, <2>2, ScoresAreReadable DEF OpenScores, Unreadable
<1>3. cut' = TRUE /\ UNCHANGED <<config, state, rows, analysis, decision, cutAnalyze, bounds>>
  BY DEF OpenScores
<1> DEFINE l == [proc[p] EXCEPT !.step = "writing scores"]
<1>4. l \in [step : Evaluating, state : State, scores : Scores] /\ l.step = "writing scores"
      /\ l.scores = proc[p].scores
  BY <1>1 DEF Evaluating
<1>5. Enters(p, l)
  <2>1. IsLocal(l)
    BY <1>4 DEF IsLocal
  <2> QED
    BY <2>1, Entered DEF OpenScores
<1> HIDE DEF l
<1>6. Types'
  BY <1>2, <1>3, <1>5 DEF Types, Enters, bounds
<1>7. ASSUME OneAtATime, Paired PROVE Paired'
  <2>1. state # NoState /\ ~l.scores.short
    BY <1>1, <1>4, <1>7 DEF Paired, PairedAt, Evaluating
  <2>2. PairedAt(p)'
    BY <1>3, <1>4, <1>5, <2>1 DEF PairedAt, Enters
  <2> QED
    BY <1>3, <1>7, <2>1, <2>2, Alone
<1> QED
  BY <1>6, <1>7 DEF Keeps

\* The scores are whole and those the command holds.
LEMMA WriteScoresKeeps == ASSUME Types, NEW p \in Commands, WriteScores(p) PROVE Keeps
<1>1. /\ proc[p].step = "writing scores" /\ proc[p].scores \in Scores
      /\ proc[p] \in [step : Evaluating, state : State, scores : Scores]
  BY Knows DEF WriteScores, At, Types, Evaluating
<1>2. scores' = proc[p].scores /\ UNCHANGED <<config, state, rows, analysis, decision, history, bounds>>
  BY DEF WriteScores
<1> DEFINE l == [proc[p] EXCEPT !.step = "writing state"]
<1>3. l \in [step : Evaluating, state : State, scores : Scores] /\ l.step = "writing state"
      /\ l.scores = proc[p].scores
  BY <1>1 DEF Evaluating
<1>4. Enters(p, l)
  <2>1. IsLocal(l)
    BY <1>3 DEF IsLocal
  <2> QED
    BY <2>1, Entered DEF WriteScores
<1> HIDE DEF l
<1>5. Types'
  BY <1>1, <1>2, <1>4 DEF Types, Enters, history, bounds
<1>6. ASSUME OneAtATime, Paired PROVE Paired'
  <2>1. state # NoState /\ ~l.scores.short /\ cut
    BY <1>1, <1>3, <1>6 DEF Paired, PairedAt, Evaluating
  <2>2. PairedAt(p)'
    BY <1>2, <1>3, <1>4, <2>1 DEF PairedAt, Enters, history
  <2> QED
    BY <1>2, <1>6, <2>1, <2>2, Alone DEF history
<1> QED
  BY <1>5, <1>6 DEF Keeps

\* Now the coverage is that of the scores on disk.
LEMMA WriteCoverageKeeps == ASSUME Types, NEW p \in Commands, WriteCoverage(p) PROVE Keeps
<1>1. proc[p].step = "writing state" /\ proc[p].scores \in Scores /\ proc[p].state \in State
  BY Knows DEF WriteCoverage, At, Types, Evaluating
<1>2. /\ state' = [proc[p].state EXCEPT !.coverage = proc[p].scores.scoring] /\ cut' = FALSE
      /\ UNCHANGED <<config, rows, scores, analysis, decision, cutAnalyze, bounds>>
  BY DEF WriteCoverage
<1>3. proc[p].scores.scoring \in 0..MaxScorings
  <2>1. PICK s \in Scores : s = proc[p].scores
    BY <1>1
  <2>2. s.scoring \in 1..MaxScorings
    BY DEF Scores
  <2> QED
    BY <2>1, <2>2, Constants
<1>4. state' \in State /\ state'.coverage = proc[p].scores.scoring
  BY <1>1, <1>2, <1>3 DEF State
<1>5. Enters(p, Idle)
  BY Left DEF WriteCoverage
<1>6. Types'
  BY <1>2, <1>4, <1>5 DEF Types, Enters, bounds
<1>7. ASSUME OneAtATime, Paired PROVE Paired'
  <2>1. state' # NoState
    BY <1>4, StateIsThere
  <2>2. scores = proc[p].scores /\ ~proc[p].scores.short
    BY <1>1, <1>7 DEF Paired, PairedAt, Evaluating
  <2>3. Covers(state)'
    BY <1>1, <1>2, <1>4, <2>2 DEF Covers
  <2> QED
    <3>1. PairedAt(p)'
      BY <1>5 DEF PairedAt, Enters, Evaluating, Idle
    <3> QED
      BY <1>7, <2>1, <2>3, <3>1, Alone
<1> QED
  BY <1>6, <1>7 DEF Keeps

\* A step that touches neither the state nor the scores, into a step that
\* belongs to no run or evaluate.
LEMMA Elsewhere ==
  ASSUME NEW p \in Commands, NEW l, Enters(p, l), UNCHANGED <<state, scores, cut>>,
         l.step \notin {"running", "scoring"} \cup Evaluating, OneAtATime, Paired
  PROVE  Paired'
<1>1. PairedAt(p)'
  BY DEF PairedAt, Enters, Evaluating
<1> QED
  BY <1>1, Alone DEF Paired, Covers

\* analyze reads the policy and the coverage.
LEMMA StartAnalyzeKeeps == ASSUME Types, NEW p \in Commands, StartAnalyze(p) PROVE Keeps
<1>1. state \in State
  BY DEF StartAnalyze, Types
<1> DEFINE l == [step |-> "reading scores", policy |-> config.policy, coverage |-> state.coverage]
<1>2. IsLocal(l)
  BY <1>1 DEF IsLocal, Types, State, Configs
<1>3. Enters(p, l) /\ UNCHANGED <<config, files, history, bounds>>
  BY <1>2, Entered DEF StartAnalyze
<1>4. Types'
  BY <1>3 DEF Types, Enters, files, history, bounds
<1>5. ASSUME OneAtATime, Paired PROVE Paired'
  BY <1>3, <1>5, Elsewhere DEF Evaluating, files, history
<1> QED
  BY <1>4, <1>5 DEF Keeps

\* An analysis is of scores that can be read.
LEMMA ReadScoresKeeps == ASSUME Types, NEW p \in Commands, ReadScores(p) PROVE Keeps
<1>1. proc[p].step = "reading scores" /\ proc[p].policy \in Policies /\ proc[p].coverage \in 0..MaxScorings
  BY Knows DEF ReadScores, At, Types
<1>2. UNCHANGED <<config, files, history, bounds>>
  BY DEF ReadScores
<1>3. PICK l : Enters(p, l) /\ l.step \in {"idle", "writing analysis"}
  <2>1. CASE scores \in Unreadable \/ scores.empty
    BY <2>1, Left DEF ReadScores
  <2>2. CASE scores \notin Unreadable /\ ~scores.empty
    <3> DEFINE m == [step |-> "writing analysis", policy |-> proc[p].policy,
                     analysis |-> [scores |-> scores, coverage |-> proc[p].coverage,
                                   policy |-> proc[p].policy]]
    <3>1. scores \in Scores
      BY <2>2 DEF Types
    <3>2. [scores |-> scores, coverage |-> proc[p].coverage, policy |-> proc[p].policy] \in Analyses
      BY <1>1, <2>2, <3>1 DEF Analyses, Scores
    <3>3. IsLocal(m) /\ m.step = "writing analysis"
      BY <1>1, <3>2 DEF IsLocal
    <3>4. Enter(p, m)
      BY <2>2 DEF ReadScores
    <3> HIDE DEF m
    <3>5. Enters(p, m)
      BY <3>3, <3>4, Entered
    <3> QED
      BY <3>3, <3>5
  <2> QED
    BY <2>1, <2>2
<1>4. Types'
  BY <1>2, <1>3 DEF Types, Enters, files, history, bounds
<1>5. ASSUME OneAtATime, Paired PROVE Paired'
  BY <1>2, <1>3, <1>5, Elsewhere DEF Evaluating, files, history
<1> QED
  BY <1>4, <1>5 DEF Keeps

\* The analysis on disk is the one computed.
LEMMA WriteAnalysisKeeps == ASSUME Types, NEW p \in Commands, WriteAnalysis(p) PROVE Keeps
<1>1. /\ proc[p].step = "writing analysis" /\ proc[p].analysis \in Analyses
      /\ proc[p] \in [step : {"writing analysis", "deciding"}, policy : Policies, analysis : Analyses]
  BY Knows DEF WriteAnalysis, At, Types
<1>2. /\ analysis' = proc[p].analysis /\ cutAnalyze' = TRUE
      /\ UNCHANGED <<config, state, rows, scores, decision, cut, bounds>>
  BY DEF WriteAnalysis
<1> DEFINE l == [proc[p] EXCEPT !.step = "deciding"]
<1>3. /\ l \in [step : {"writing analysis", "deciding"}, policy : Policies, analysis : Analyses]
      /\ l.step = "deciding"
  BY <1>1
<1>4. Enters(p, l)
  <2>1. IsLocal(l)
    BY <1>3 DEF IsLocal
  <2> QED
    BY <2>1, Entered DEF WriteAnalysis
<1> HIDE DEF l
<1>5. Types'
  BY <1>1, <1>2, <1>4 DEF Types, Enters, bounds
<1>6. ASSUME OneAtATime, Paired PROVE Paired'
  BY <1>2, <1>3, <1>4, <1>6, Elsewhere DEF Evaluating
<1> QED
  BY <1>5, <1>6 DEF Keeps

\* A decision is of the analysis just written.
LEMMA DecideKeeps == ASSUME Types, NEW p \in Commands, Decide(p) PROVE Keeps
<1>1. proc[p].step = "deciding" /\ proc[p].analysis \in Analyses /\ proc[p].policy \in Policies
  BY Knows DEF Decide, At, Types
<1>2. UNCHANGED <<config, state, rows, scores, analysis, cut, bounds>> /\ Enters(p, Idle)
  BY Left DEF Decide
<1>3. cutAnalyze' \in BOOLEAN /\ (decision' = decision \/ decision' \in Decisions)
  <2>1. [of |-> proc[p].analysis, policy |-> proc[p].policy] \in Decisions
    BY <1>1 DEF Decisions
  <2>2. cutAnalyze \in BOOLEAN
    BY DEF Types
  <2> QED
    BY <2>1, <2>2 DEF Decide
<1>4. Types'
  BY <1>2, <1>3 DEF Types, Enters, bounds
<1>5. ASSUME OneAtATime, Paired PROVE Paired'
  BY <1>2, <1>5, Elsewhere DEF Evaluating, Idle
<1> QED
  BY <1>4, <1>5 DEF Keeps

\* report only reads what the others wrote.
LEMMA StartReportKeeps == ASSUME Types, NEW p \in Commands, StartReport(p) PROVE Keeps
<1>1. PICK l : Enter(p, l) /\ l.step = "narrating"
  BY DEF StartReport
<1>2. Enters(p, l) /\ UNCHANGED <<config, files, history, bounds>>
  BY <1>1, Entered DEF StartReport, IsLocal
<1>3. Types'
  BY <1>2 DEF Types, Enters, files, history, bounds
<1>4. ASSUME OneAtATime, Paired PROVE Paired'
  BY <1>1, <1>2, <1>4, Elsewhere DEF Evaluating, files, history
<1> QED
  BY <1>3, <1>4 DEF Keeps

\* The narrative is a file of its own.
LEMMA NarrateKeeps == ASSUME Types, NEW p \in Commands, Narrate(p) PROVE Keeps
<1>1. PICK l : Enter(p, l) /\ l.step = "rendering"
  BY DEF Narrate
<1>2. UNCHANGED <<config, state, rows, scores, analysis, decision, history, scorings, edits>>
  BY DEF Narrate
<1>3. kills' \in 0..MaxKills
  BY Constants DEF Narrate, Types
<1>4. Enters(p, l)
  BY <1>1, Entered DEF IsLocal
<1>5. Types'
  BY <1>2, <1>3, <1>4 DEF Types, Enters, history
<1>6. ASSUME OneAtATime, Paired PROVE Paired'
  BY <1>1, <1>2, <1>4, <1>6, Elsewhere DEF Evaluating, history
<1> QED
  BY <1>5, <1>6 DEF Keeps

\* So is the report.
LEMMA RenderKeeps == ASSUME Types, NEW p \in Commands, Render(p) PROVE Keeps
<1>1. Enters(p, Idle) /\ UNCHANGED <<config, state, rows, scores, analysis, decision, history, bounds>>
  BY Left DEF Render
<1>2. Types'
  BY <1>1 DEF Types, Enters, history, bounds
<1>3. ASSUME OneAtATime, Paired PROVE Paired'
  BY <1>1, <1>3, Elsewhere DEF Evaluating, Idle, history
<1> QED
  BY <1>2, <1>3 DEF Keeps

\* A kill leaves the state and the scores as they were.
LEMMA KillKeeps == ASSUME Types, NEW p \in Commands, Kill(p) PROVE Keeps
<1>1. Enters(p, Idle) /\ UNCHANGED <<config, state, rows, scores, cut, scorings, edits>>
  BY Left DEF Kill
<1>2. kills' \in 0..MaxKills
  <2>1. kills < MaxKills /\ kills' = kills + 1
    BY DEF Kill
  <2>2. kills \in 0..MaxKills
    BY DEF Types
  <2> QED
    BY <2>1, <2>2, Constants
<1>3. /\ analysis' = analysis \/ analysis' = Torn
      /\ decision' = decision \/ decision' = Torn
      /\ cutAnalyze' \in BOOLEAN
  BY DEF Kill, Types
<1>4. Types'
  BY <1>1, <1>2, <1>3 DEF Types, Enters, Unreadable
<1>5. ASSUME OneAtATime, Paired PROVE Paired'
  BY <1>1, <1>5, Elsewhere DEF Evaluating, Idle
<1> QED
  BY <1>4, <1>5 DEF Keeps

\* Every step, the edits of evalshift.yaml among them.
LEMMA NextKeeps == ASSUME Types, [Next]_vars PROVE Keeps
<1>1. CASE UNCHANGED vars
  <2>1. Types'
    BY <1>1 DEF Types, vars, files, history, bounds
  <2>2. Paired => Paired'
    BY <1>1 DEF Paired, PairedAt, Covers, vars, files, history
  <2> QED
    BY <2>1, <2>2 DEF Keeps
<1>2. CASE EditConfig
  <2>1. UNCHANGED <<files, proc, history, scorings, kills>> /\ config' \in Configs /\ edits' \in 0..MaxEdits
    BY <1>2, Constants DEF EditConfig, Types
  <2>2. Types'
    BY <2>1 DEF Types, files, history
  <2>3. Paired => Paired'
    BY <2>1 DEF Paired, PairedAt, Covers, files, history
  <2> QED
    BY <2>2, <2>3 DEF Keeps
<1>3. CASE \E p \in Commands :
             \/ Launch(p) \/ StartEvaluate(p) \/ StartAnalyze(p) \/ StartReport(p)
             \/ Step(p) \/ Kill(p)
  BY <1>3, LaunchKeeps, AddRowKeeps, FinishRunKeeps, StartEvaluateKeeps, ScoreKeeps, OpenScoresKeeps,
     WriteScoresKeeps, WriteCoverageKeeps, StartAnalyzeKeeps, ReadScoresKeeps,
     WriteAnalysisKeeps, DecideKeeps, StartReportKeeps, NarrateKeeps, RenderKeeps,
     KillKeeps
     DEF Step, RunStep, EvaluateStep, AnalyzeStep, ReportStep
<1> QED
  BY <1>1, <1>2, <1>3 DEF Next

-----------------------------------------------------------------------------
(* The theorems *)

\* The types hold at first.
LEMMA InitTypes == Init => Types
<1> SUFFICES ASSUME Init PROVE Types
  OBVIOUS
<1>1. proc = [p \in Commands |-> proc[p]] /\ \A p \in Commands : IsLocal(proc[p])
  BY DEF Init, IsLocal
<1>2. rows \in 0..Rows /\ scorings \in 0..MaxScorings /\ edits \in 0..MaxEdits /\ kills \in 0..MaxKills
  BY Constants DEF Init
<1> QED
  BY <1>1, <1>2 DEF Init, Types, Unreadable

\* Whatever commands overlap and are killed, a stage is never handed a file of
\* a kind it cannot read: each is missing, torn or of its type.
THEOREM TypesHold == Spec => []TypeOK
<1>1. Types /\ [Next]_vars => Types'
  BY NextKeeps DEF Keeps
<1>2. Types => TypeOK
  BY Knows DEF Types, TypeOK, State, Scores
<1> QED
  BY <1>1, <1>2, InitTypes, PTL DEF Spec

\* With one command at a time, through any kills, resumes and edits: between
\* commands the coverage in state.json is that of the scores beside it, unless
\* the last evaluate was killed between the two.
THEOREM CoverageIsOfTheScores ==
  ASSUME OneAtATime
  PROVE  Spec => []ScoresAndCoverageAgree
<1>1. Init => Paired
  <2> SUFFICES ASSUME Init, NEW p \in Commands PROVE PairedAt(p)
    BY DEF Init, Paired, Covers
  <2>1. proc[p].step = "idle"
    BY DEF Init, Idle
  <2> QED
    BY <2>1 DEF PairedAt, Evaluating
<1>2. Inv /\ [Next]_vars => Inv'
  BY NextKeeps DEF Keeps, Inv
<1>3. Inv => ScoresAndCoverageAgree
  BY DEF Inv, Paired, Covers, ScoresAndCoverageAgree
<1>4. Init => Inv
  BY <1>1, InitTypes DEF Inv
<1> QED
  BY <1>2, <1>3, <1>4, PTL DEF Spec

=============================================================================
