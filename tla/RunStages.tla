------------------------------ MODULE RunStages ------------------------------
(***************************************************************************)
(* The stages that follow one another in a run directory: run, evaluate,   *)
(* analyze and report, each a command of its own (`evalshift compare` is   *)
(* the four in a row), and the files they hand on: state.json, raw.jsonl,  *)
(* scores.jsonl, analysis.json, migration_decision.json, insights.json and *)
(* report.html.                                                            *)
(*                                                                         *)
(* A file is known by what it was computed from.  A scoring gets a number, *)
(* since a judge may score the same rows differently the next time.  The   *)
(* user edits evalshift.yaml between commands and may kill any of them.    *)
(***************************************************************************)
EXTENDS Naturals, FiniteSets

CONSTANTS
    Commands,    \* commands that may overlap, one per process slot
    Policies,    \* what migration_policy can say, "none" when it is left out
    Narrators,   \* models that can write the narrative
    Rows,        \* pairs of rows, source and target, of a whole run
    MaxScorings, \* bound: scorings
    MaxEdits,    \* bound: edits of evalshift.yaml
    MaxKills     \* bound: kills, and narratives that fail

ASSUME RunStagesAssumption ==
    /\ Commands # {}
    /\ Policies # {} /\ Narrators # {}
    /\ Rows \in Nat \ {0}
    /\ MaxScorings \in Nat /\ MaxEdits \in Nat /\ MaxKills \in Nat

VARIABLES
    config,    \* evalshift.yaml
    state,     \* state.json
    rows,      \* pairs of rows in raw.jsonl
    scores,    \* scores.jsonl
    analysis,  \* analysis.json
    decision,  \* migration_decision.json
    insights,  \* insights.json
    report,    \* report.html
    proc,      \* per slot: the command that runs there, its step and its locals
    cut,       \* history: an evaluate was killed between its two files
    cutAnalyze,\* history: likewise an analyze, or it found no policy
    scorings, edits, kills

files == <<state, rows, scores, analysis, decision, insights, report>>
history == <<cut, cutAnalyze>>
bounds == <<scorings, edits, kills>>
vars == <<config, files, proc, history, bounds>>

Configs == [policy : Policies, narrator : Narrators]

NoFile == [missing |-> TRUE]
Torn == [torn |-> TRUE]
Unreadable == {NoFile, Torn}

NoState == [status |-> "none", coverage |-> 0]

Idle == [step |-> "idle"]

Steps == {"idle", "running", "scoring", "opening", "writing scores", "writing state",
          "reading scores", "writing analysis", "deciding", "narrating", "rendering"}

Init ==
    /\ config \in Configs
    /\ state = NoState
    /\ rows = 0
    /\ scores = NoFile /\ analysis = NoFile /\ decision = NoFile
    /\ insights = NoFile /\ report = NoFile
    /\ proc = [p \in Commands |-> Idle]
    /\ cut = FALSE /\ cutAnalyze = FALSE
    /\ scorings = 0 /\ edits = 0 /\ kills = 0

Enter(p, local) == proc' = [proc EXCEPT ![p] = local]

Leave(p) == Enter(p, Idle)

At(p, step) == proc[p].step = step

-----------------------------------------------------------------------------
(* run *)

\* Mutant: a resumed run starts from a state of its own making.
LaunchAnew(p) ==
    /\ At(p, "idle")
    /\ \/ state = NoState
       \/ state.status = "in_progress" /\ state.config = config
    /\ state' = [status |-> "in_progress", coverage |-> 0, config |-> config]
    /\ Enter(p, [step |-> "running", state |-> state'])
    /\ UNCHANGED <<config, rows, scores, analysis, decision, insights, report, history, bounds>>

\* A run pins the config it was created with; resuming it needs the same one.
Launch(p) ==
    /\ At(p, "idle")
    /\ \/ /\ state = NoState
          /\ state' = [status |-> "in_progress", coverage |-> 0, config |-> config]
       \/ /\ state.status = "in_progress"
          /\ state.config = config
          /\ UNCHANGED state
    /\ Enter(p, [step |-> "running", state |-> state'])
    /\ UNCHANGED <<config, rows, scores, analysis, decision, insights, report, history, bounds>>

\* Mutant: a resumed run makes rows that are there already.
AddAnyRow(p) ==
    /\ At(p, "running")
    /\ rows' = rows + 1
    /\ rows <= Rows
    /\ state' \in {state, proc[p].state}
    /\ UNCHANGED <<config, scores, analysis, decision, insights, report, proc, history, bounds>>

\* A row, and now and then a checkpoint of the state in memory.
AddRow(p) ==
    /\ At(p, "running")
    /\ rows < Rows
    /\ rows' = rows + 1
    /\ state' \in {state, proc[p].state}
    /\ UNCHANGED <<config, scores, analysis, decision, insights, report, proc, history, bounds>>

FinishRun(p) ==
    /\ At(p, "running")
    /\ rows = Rows
    /\ state' = [proc[p].state EXCEPT !.status = "completed"]
    /\ Leave(p)
    /\ UNCHANGED <<config, rows, scores, analysis, decision, insights, report, history, bounds>>

-----------------------------------------------------------------------------
(* evaluate: of a completed run, or of one in progress with a warning *)

StartEvaluate(p) ==
    /\ At(p, "idle")
    /\ state # NoState
    /\ scorings < MaxScorings
    /\ Enter(p, [step |-> "scoring", state |-> state])
    /\ UNCHANGED <<config, files, history, bounds>>

\* Without a pair of rows there is nothing to score.  With them, what is
\* configured may still measure none of them: the scoring is empty.
Score(p) ==
    /\ At(p, "scoring")
    /\ IF rows = 0
         THEN Leave(p) /\ UNCHANGED scorings
         ELSE /\ scorings < MaxScorings
              /\ scorings' = scorings + 1
              /\ \E nothing \in BOOLEAN :
                   Enter(p, [step |-> "opening", state |-> proc[p].state,
                             scores |-> [scoring |-> scorings', of |-> rows,
                                         short |-> FALSE, empty |-> nothing]])
    /\ UNCHANGED <<config, files, history, edits, kills>>

\* scores.jsonl is written in place: until it is closed it may be empty, end
\* inside a line, or end at one.
OpenScores(p) ==
    /\ At(p, "opening")
    /\ \/ ~proc[p].scores.empty /\ scores' = Torn
       \/ \E nothing \in BOOLEAN :
            /\ proc[p].scores.empty => nothing
            /\ scores' = [proc[p].scores EXCEPT !.short = TRUE, !.empty = nothing]
    /\ cut' = TRUE
    /\ Enter(p, [proc[p] EXCEPT !.step = "writing scores"])
    /\ UNCHANGED <<config, state, rows, analysis, decision, insights, report, cutAnalyze, bounds>>

WriteScores(p) ==
    /\ At(p, "writing scores")
    /\ scores' = proc[p].scores
    /\ Enter(p, [proc[p] EXCEPT !.step = "writing state"])
    /\ UNCHANGED <<config, state, rows, analysis, decision, insights, report, history, bounds>>

\* The coverage goes into the state that was read when the command began.
WriteCoverage(p) ==
    /\ At(p, "writing state")
    /\ state' = [proc[p].state EXCEPT !.coverage = proc[p].scores.scoring]
    /\ cut' = FALSE
    /\ Leave(p)
    /\ UNCHANGED <<config, rows, scores, analysis, decision, insights, report, cutAnalyze, bounds>>

-----------------------------------------------------------------------------
(* analyze *)

StartAnalyze(p) ==
    /\ At(p, "idle")
    /\ state # NoState
    /\ Enter(p, [step |-> "reading scores", policy |-> config.policy, coverage |-> state.coverage])
    /\ UNCHANGED <<config, files, history, bounds>>

\* An empty file ends the command too, and leaves an earlier analysis in place.
ReadScores(p) ==
    /\ At(p, "reading scores")
    /\ IF scores \in Unreadable \/ scores.empty
         THEN Leave(p)
         ELSE Enter(p, [step |-> "writing analysis", policy |-> proc[p].policy,
                        analysis |-> [scores |-> scores, coverage |-> proc[p].coverage,
                                      policy |-> proc[p].policy]])
    /\ UNCHANGED <<config, files, history, bounds>>

\* Mutant: an analysis that is there already is kept.
KeepAnalysis(p) ==
    /\ At(p, "writing analysis")
    /\ analysis' = IF analysis \in Unreadable THEN proc[p].analysis ELSE analysis
    /\ cutAnalyze' = TRUE
    /\ Enter(p, [proc[p] EXCEPT !.step = "deciding"])
    /\ UNCHANGED <<config, state, rows, scores, decision, insights, report, cut, bounds>>

WriteAnalysis(p) ==
    /\ At(p, "writing analysis")
    /\ analysis' = proc[p].analysis
    /\ cutAnalyze' = TRUE
    /\ Enter(p, [proc[p] EXCEPT !.step = "deciding"])
    /\ UNCHANGED <<config, state, rows, scores, decision, insights, report, cut, bounds>>

\* Without a policy no decision is written, and one from before stays.
Decide(p) ==
    /\ At(p, "deciding")
    /\ IF proc[p].policy = "none"
         THEN UNCHANGED <<decision, cutAnalyze>>
         ELSE /\ decision' = [of |-> proc[p].analysis, policy |-> proc[p].policy]
              /\ cutAnalyze' = FALSE
    /\ Leave(p)
    /\ UNCHANGED <<config, state, rows, scores, analysis, insights, report, cut, bounds>>

-----------------------------------------------------------------------------
(* report *)

\* The payload is read from the files; an unreadable one ends the command, a
\* missing decision does not, and neither do scores without a row.
StartReport(p) ==
    /\ At(p, "idle")
    /\ state # NoState
    /\ analysis \notin Unreadable /\ scores \notin Unreadable /\ decision # Torn
    /\ Enter(p, [step |-> "narrating", narrator |-> config.narrator,
                 analysis |-> analysis, decision |-> decision, scores |-> scores])
    /\ UNCHANGED <<config, files, history, bounds>>

InsightsHash(p) == [config |-> state.config, narrator |-> proc[p].narrator]

\* What a narrative written now is about.
Story == [analysis |-> analysis, decision |-> decision]

\* ensure_insight: the cached narrative when its hash still holds, otherwise a
\* new one, or none when generating it fails.
Narrate(p) ==
    /\ At(p, "narrating")
    /\ LET rendering(story) == Enter(p, [step |-> "rendering", narrative |-> story,
                                         analysis |-> proc[p].analysis,
                                         decision |-> proc[p].decision, scores |-> proc[p].scores])
       IN IF insights \notin Unreadable /\ insights.hash = InsightsHash(p)
            THEN rendering(insights.story) /\ UNCHANGED <<insights, kills>>
            ELSE \/ /\ insights' = [hash |-> InsightsHash(p), story |-> Story]
                    /\ rendering(Story)
                    /\ UNCHANGED kills
                 \/ /\ kills < MaxKills
                    /\ kills' = kills + 1
                    /\ rendering(NoFile)
                    /\ UNCHANGED insights
    /\ UNCHANGED <<config, state, rows, scores, analysis, decision, report, history, scorings, edits>>

Render(p) ==
    /\ At(p, "rendering")
    /\ report' = [analysis |-> proc[p].analysis, decision |-> proc[p].decision,
                  scores |-> proc[p].scores, narrative |-> proc[p].narrative]
    /\ Leave(p)
    /\ UNCHANGED <<config, state, rows, scores, analysis, decision, insights, history, bounds>>

-----------------------------------------------------------------------------
(* The user *)

\* evalshift.yaml is read by every stage when it starts.
EditConfig ==
    /\ edits < MaxEdits
    /\ edits' = edits + 1
    /\ config' \in Configs \ {config}
    /\ UNCHANGED <<files, proc, history, scorings, kills>>

\* A kill, with the file being written left as it was or truncated.  state.json
\* is replaced in one step.
Kill(p) ==
    /\ ~At(p, "idle")
    /\ kills < MaxKills
    /\ kills' = kills + 1
    /\ Leave(p)
    /\ \/ UNCHANGED <<analysis, decision, insights, report, cutAnalyze>>
       \/ /\ At(p, "writing analysis")
          /\ analysis' = Torn /\ cutAnalyze' = TRUE
          /\ UNCHANGED <<decision, insights, report>>
       \/ /\ At(p, "deciding") /\ proc[p].policy # "none"
          /\ decision' = Torn
          /\ UNCHANGED <<analysis, insights, report, cutAnalyze>>
       \/ /\ At(p, "narrating")
          /\ insights' = Torn
          /\ UNCHANGED <<analysis, decision, report, cutAnalyze>>
       \/ /\ At(p, "rendering")
          /\ report' = Torn
          /\ UNCHANGED <<analysis, decision, insights, cutAnalyze>>
    /\ UNCHANGED <<config, state, rows, scores, cut, scorings, edits>>

RunStep(p) == AddRow(p) \/ FinishRun(p)
EvaluateStep(p) == Score(p) \/ OpenScores(p) \/ WriteScores(p) \/ WriteCoverage(p)
AnalyzeStep(p) == ReadScores(p) \/ WriteAnalysis(p) \/ Decide(p)
ReportStep(p) == Narrate(p) \/ Render(p)

Step(p) == RunStep(p) \/ EvaluateStep(p) \/ AnalyzeStep(p) \/ ReportStep(p)

Next ==
    \/ \E p \in Commands :
         \/ Launch(p) \/ StartEvaluate(p) \/ StartAnalyze(p) \/ StartReport(p)
         \/ Step(p) \/ Kill(p)
    \/ EditConfig

Spec == Init /\ [][Next]_vars

\* A command that was started takes its steps; a user who wants the result
\* starts evaluate, analyze and report over and over.  Nothing has to be killed
\* or edited.
Fairness ==
    \A p \in Commands :
        /\ WF_vars(Step(p))
        /\ SF_vars(StartEvaluate(p)) /\ SF_vars(StartAnalyze(p)) /\ SF_vars(StartReport(p))
        /\ SF_vars(Launch(p))

FairSpec == Spec /\ Fairness

-----------------------------------------------------------------------------
(* Properties *)

Analyses == [scores : [scoring : 1..MaxScorings, of : 1..Rows, short : BOOLEAN, empty : {FALSE}],
             coverage : 0..MaxScorings, policy : Policies]

Decisions == [of : Analyses, policy : Policies]

\* The type of every file: what a stage can be handed by the one before.
TypeOK ==
    /\ config \in Configs
    /\ state = NoState \/ state \in [status : {"in_progress", "completed"},
                                    coverage : 0..MaxScorings, config : Configs]
    /\ rows \in 0..Rows
    /\ \/ scores \in [scoring : 1..MaxScorings, of : 1..Rows, short : BOOLEAN, empty : BOOLEAN]
       \/ scores \in Unreadable
    /\ analysis \in Unreadable \/ analysis \in Analyses
    /\ decision \in Unreadable \/ decision \in Decisions
    /\ \A p \in Commands : proc[p].step \in Steps
    /\ cut \in BOOLEAN /\ cutAnalyze \in BOOLEAN
    /\ scorings \in 0..MaxScorings /\ edits \in 0..MaxEdits /\ kills \in 0..MaxKills

Quiet == \A p \in Commands : At(p, "idle")

\* Between commands the coverage in state.json, which alone remembers the pairs
\* no evaluator could score, is that of the scores beside it: through any kills
\* and resumes of the run, unless the last evaluate was killed between the two.
ScoresAndCoverageAgree ==
    Quiet /\ ~cut /\ scores # NoFile => ~scores.short /\ scores.scoring = state.coverage

\* No kill and no edit leaves anything that running evaluate, analyze and report
\* again would not put right: in the end every figure and the verdict of the
\* report are those of the scores on disk under the policy of evalshift.yaml.
\* A scoring that measured nothing is the exception: analyze refuses it, and
\* what was analyzed before stays, in the report too.
RerunRepairs ==
    <>[](scores \notin Unreadable /\ ~scores.short /\ ~scores.empty /\ config.policy # "none" =>
           /\ analysis \notin Unreadable /\ analysis.scores = scores
           /\ analysis.policy = config.policy
           /\ decision = [of |-> analysis, policy |-> config.policy]
           /\ report # NoFile /\ report # Torn
           /\ report.analysis = analysis /\ report.decision = decision
           /\ report.scores = scores)

=============================================================================
