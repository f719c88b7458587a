------------------------------ MODULE RunStore ------------------------------
(***************************************************************************)
(* All run directories under .evalshift/runs and the processes that share  *)
(* them: `run` and `compare` (fresh or --resume), `evaluate`, the          *)
(* retention sweep after a completed run, and `runs clean`                 *)
(* (runner/checkpoint.py, runner/orchestrator.py, cli/commands/runs.py).   *)
(*                                                                         *)
(* A run id is a number: the order in which directory names sort, which    *)
(* within one day is the order of random hex digits and says nothing of    *)
(* age.  The inside of one run is RunLoop's; here an item is one row.      *)
(***************************************************************************)
EXTENDS Naturals, FiniteSets, Sequences

CONSTANTS
  Procs,           \* processes, each running one command at a time
  Ids,             \* run ids, a set of numbers in the order of their names
  Suites,          \* suites; the config hash of a run covers its suite's path
  Models,          \* (source, target) pairs a user may ask for
  Items,           \* the work items of a suite
  CheckpointEvery, \* CHECKPOINT_EVERY
  MaxRuns,         \* retention.max_runs_per_suite after EVALSHIFT_MAX_RUNS; 0 is off
  HasTtl,          \* whether retention.run_ttl_days is set
  CleanRules,      \* the options `runs clean` may be given
  MaxCommands,     \* bound: commands that users start
  MaxExpired,      \* bound: directories past the TTL at any time
  MaxFaults,       \* bound: processes killed, appends and removals cut short
  Absent, NoState, NoId, AnySuite

RunState == [status : {"in_progress", "completed"}, models : Models]

\* raw.jsonl: not made yet, ending in a whole line, in part of one, or in part
\* of a character, which makes the whole file unreadable.
Tails == {"none", "clean", "torn", "undecodable"}

ASSUME StoreAssumption ==
  /\ Ids \subseteq Nat /\ IsFiniteSet(Ids) /\ IsFiniteSet(Items) /\ IsFiniteSet(Procs)
  /\ CheckpointEvery \in Nat \ {0} /\ MaxRuns \in Nat /\ MaxCommands \in Nat /\ MaxFaults \in Nat /\ MaxExpired \in Nat
  /\ HasTtl \in BOOLEAN
  /\ CleanRules \subseteq [max : Nat, ttl : BOOLEAN, suite : Suites \cup {AnySuite}]
  /\ NoId \notin Ids /\ AnySuite \notin Suites
  /\ NoState \notin RunState /\ Absent \notin [suite : Suites, state : RunState \cup {NoState},
                                               raw : Tails, rows : [Items -> Seq(Models)]]

VARIABLES
  dirs,     \* what each run directory holds
  born,     \* the run directories ever made, oldest first
  touched,  \* those present in the order of their mtime, oldest first
  expired,  \* those whose mtime is older than the TTL
  jobs,     \* what each process is doing
  past,     \* what was done to a run that its users were told not to do
  started,  \* commands started so far
  faults    \* faults so far

vars == <<dirs, born, touched, expired, jobs, past, started, faults>>

-----------------------------------------------------------------------------
\* state.json (absent when it cannot be read) and the rows of raw.jsonl, each
\* with the models of the launch that made it.
Dir == [suite : Suites, state : RunState \cup {NoState}, raw : Tails,
        rows : [Items -> UNION {[1..k -> Models] : k \in 0..Cardinality(Procs)}]]

NoRows == [i \in Items |-> <<>>]

NewDir(suite) == [suite |-> suite, state |-> NoState, raw |-> "none", rows |-> NoRows]

Rule == [max : Nat, ttl : BOOLEAN, suite : Suites \cup {AnySuite}]

Deeds == {"shared", "remodelled", "early", "swallowed", "raced", "evicted", "pruned",
          "outdated", "counted"}

Files == {"state.json", "raw.jsonl"}

Idle == [pc |-> "idle", id |-> NoId, suite |-> AnySuite, todo |-> {},
         state |-> NoState, models |-> NoState, doomed |-> {}, stale |-> {}, files |-> {}, keep |-> NoId,
         rule |-> NoState]

Present == {n \in Ids : dirs[n] # Absent}

\* What there is to remove of a run; scores and reports are left out.
FilesOf(n) ==
  {f \in Files : \/ f = "state.json" /\ dirs[n].state # NoState
                 \/ f = "raw.jsonl" /\ dirs[n].raw # "none"}

\* read_state succeeds.
Readable(n) == n \in Present /\ dirs[n].state # NoState

\* _is_in_progress: a directory without a readable state is not.
InProgress(n) == Readable(n) /\ dirs[n].state.status = "in_progress"

Completed(n) == Readable(n) /\ dirs[n].state.status = "completed"

At(seq, n) == CHOOSE k \in DOMAIN seq : seq[k] = n

\* No run is in the order of the mtimes twice.
Without(seq, n) ==
  IF n \notin {seq[k] : k \in DOMAIN seq} THEN seq
  ELSE [k \in 1..Len(seq) - 1 |-> seq[IF k < At(seq, n) THEN k ELSE k + 1]]

\* The processes that are calling models for a run.
Workers(n) == {p \in Procs : jobs[p].pc = "calling" /\ jobs[p].id = n}

\* The processes that rely on the rows of a run.
Users(n) == {p \in Procs : jobs[p].pc \in {"calling", "scoring", "scored"} /\ jobs[p].id = n}

\* prune_runs has judged the run and rmtree is at work, or about to be.
UnderRemoval(n) == \E p \in Procs : jobs[p].pc \in {"condemned", "removing"} /\ jobs[p].id = n

\* Mutant: a resume that reads no rows.
RecordedNone(n) == {}

\* completed_call_keys: an item with a row is done, whichever models made it.
Recorded(n) == {i \in Items : dirs[n].rows[i] # <<>>}

\* list_runs, then the one that find_latest_in_progress returns.
FindLatestInProgress ==
  LET found == {n \in Present : InProgress(n)}
  IN  IF found = {} THEN NoId ELSE CHOOSE n \in found : \A m \in found : m <= n

-----------------------------------------------------------------------------
(* Retention *)

\* Mutant: one group for all suites.
GroupAll(rule, s) == {n \in Present : rule.suite \in {s, AnySuite}}

Group(rule, s) == {n \in Present : dirs[n].suite = s /\ rule.suite \in {s, AnySuite}}

\* The newest by mtime that the count rule spares in a suite.
Newest(group, max) ==
  {n \in group : Cardinality({m \in group : At(touched, m) > At(touched, n)}) < max}

\* prune_runs up to its loop: the two rules, each suite by itself.
Doomed(rule) ==
  UNION {LET group == Group(rule, s)
         IN  (IF rule.ttl THEN group \cap expired ELSE {})
             \cup (IF rule.max > 0 THEN group \ Newest(group, rule.max) ELSE {})
         : s \in Suites}

\* Mutant: the status is looked at when the runs are listed only.
SparedKept(job, n) == n = job.keep

\* The loop of prune_runs: what is spared is judged when its turn comes.
Spared(job, n) == n = job.keep \/ InProgress(n)

Retention == [max |-> MaxRuns, ttl |-> HasTtl, suite |-> AnySuite]

Sweep(rule, keep) == [Idle EXCEPT !.pc = "pruning", !.doomed = Doomed(rule), !.keep = keep]

-----------------------------------------------------------------------------
(* Effects on the disk *)

\* An entry of the directory was made or replaced: its mtime is now.
Touch(p, n, job) ==
  /\ touched' = Append(Without(touched, n), n)
  /\ expired' = expired \ {n}
  /\ jobs' = [q \in Procs |->
                IF q = p THEN job
                ELSE [jobs[q] EXCEPT !.stale = @ \cup (jobs[q].doomed \cap {n})]]

\* A run's directory as it is, or as mkdir makes it when it is gone.
DirOf(n, suite) == IF n \in Present THEN dirs[n] ELSE NewDir(suite)

\* write_state, which makes the directory when it is gone.
Stored(n, suite, state) ==
  [dirs EXCEPT ![n] = [DirOf(n, suite) EXCEPT !.state = state]]

\* A row appended to a line that was cut continues it and is lost with it.
Swallowed(n) == n \in Present /\ dirs[n].raw \in {"torn", "undecodable"}

\* append_call, which makes the directory as well.
Appended(n, suite, i, models) ==
  LET old == DirOf(n, suite)
  IN  [dirs EXCEPT ![n] =
         IF Swallowed(n)
         THEN [old EXCEPT !.raw = IF @ = "torn" THEN "clean" ELSE @]
         ELSE [old EXCEPT !.raw = "clean", !.rows = [old.rows EXCEPT ![i] = Append(@, models)]]]

\* append_call cut short: part of a line, perhaps of a character, and no row.
Torn(n, suite, raw) ==
  [dirs EXCEPT ![n] = [DirOf(n, suite) EXCEPT !.raw = raw]]

Note(n, deed, happened) ==
  past' = IF happened THEN [past EXCEPT ![n] = @ \cup {deed}] ELSE past

SetJob(p, job) == jobs' = [jobs EXCEPT ![p] = job]

\* A user starts a command in an idle process.
Starts(p) ==
  /\ jobs[p].pc = "idle" /\ started < MaxCommands
  /\ started' = started + 1 /\ UNCHANGED faults

-----------------------------------------------------------------------------
(* run and compare *)

Init ==
  /\ dirs = [n \in Ids |-> Absent]
  /\ born = <<>> /\ touched = <<>> /\ expired = {}
  /\ jobs = [p \in Procs |-> Idle]
  /\ past = [n \in Ids |-> {}]
  /\ started = 0 /\ faults = 0

\* _setup_run for a fresh run, as far as write_state's mkdir.
MakeDirectory(p, s, m) ==
  /\ Starts(p)
  /\ \E n \in Ids \ {born[k] : k \in DOMAIN born} :
       /\ dirs' = [dirs EXCEPT ![n] = NewDir(s)]
       /\ born' = Append(born, n)
       /\ Touch(p, n, [Idle EXCEPT !.pc = "starting", !.id = n, !.suite = s,
                                   !.todo = Items, !.models = m,
                                   !.state = [status |-> "in_progress", models |-> m]])
  /\ UNCHANGED past

\* The rest of that write_state; the temporary file needs the directory.
WriteFirstState(p) ==
  LET job == jobs[p] IN
  /\ job.pc = "starting"
  /\ IF job.id \in Present
     THEN /\ dirs' = Stored(job.id, job.suite, job.state)
          /\ Touch(p, job.id, [job EXCEPT !.pc = "calling"])
          /\ Note(job.id, "raced", UnderRemoval(job.id))
     ELSE SetJob(p, Idle) /\ UNCHANGED <<dirs, touched, expired, past>>
  /\ UNCHANGED <<born, started, faults>>

\* _setup_run with --resume: the latest run decides, and is refused when its
\* hash is another suite's or its rows cannot be read.  The models asked for now are not compared.
Resume(p, s, m) ==
  /\ Starts(p)
  /\ LET n == FindLatestInProgress IN
       /\ n # NoId /\ dirs[n].suite = s /\ dirs[n].raw # "undecodable"
       /\ SetJob(p, [Idle EXCEPT !.pc = "calling", !.id = n, !.suite = s,
                                 !.todo = Items \ Recorded(n), !.models = m,
                                 !.state = dirs[n].state])
       /\ past' = [past EXCEPT ![n] = @ \cup (IF Workers(n) # {} THEN {"shared"} ELSE {})
                                        \cup (IF m # dirs[n].state.models THEN {"remodelled"} ELSE {})]
  /\ UNCHANGED <<dirs, born, touched, expired>>

\* The append makes raw.jsonl, an entry of the directory.
IsNewFile(n) == n \notin Present \/ dirs[n].raw = "none"

\* _do_one under the write lock: the row, and every so often a checkpoint of
\* the state this process holds.
Call(p, i) ==
  LET job == jobs[p]
      left == job.todo \ {i}
      next == [job EXCEPT !.todo = left]
      row == Appended(job.id, job.suite, i, job.models)
      isCheckpoint == (Cardinality(Items) - Cardinality(left)) % CheckpointEvery = 0
  IN
  /\ job.pc = "calling" /\ i \in job.todo
  /\ dirs' = IF isCheckpoint THEN [row EXCEPT ![job.id].state = job.state] ELSE row
  /\ IF isCheckpoint \/ IsNewFile(job.id) THEN Touch(p, job.id, next)
     ELSE SetJob(p, next) /\ UNCHANGED <<touched, expired>>
  /\ past' = [past EXCEPT ![job.id] =
                @ \cup (IF Swallowed(job.id) THEN {"swallowed"} ELSE {})
                  \cup (IF isCheckpoint /\ UnderRemoval(job.id) THEN {"raced"} ELSE {})]
  /\ UNCHANGED <<born, started, faults>>

\* The process is killed inside the append, or the disk takes no more of it.
CallIsTorn(p, i) ==
  LET job == jobs[p] IN
  /\ job.pc = "calling" /\ i \in job.todo
  /\ faults < MaxFaults /\ faults' = faults + 1
  /\ \E raw \in {"torn", "undecodable"} :
       /\ job.id \in Present /\ dirs[job.id].raw = "undecodable" => raw = "undecodable"
       /\ dirs' = Torn(job.id, job.suite, raw)
  /\ IF IsNewFile(job.id) THEN Touch(p, job.id, Idle)
     ELSE SetJob(p, Idle) /\ UNCHANGED <<touched, expired>>
  /\ UNCHANGED <<born, past, started>>

\* The end of _process_work.
Finish(p) ==
  LET job == jobs[p] IN
  /\ job.pc = "calling" /\ job.todo = {}
  /\ dirs' = Stored(job.id, job.suite, [job.state EXCEPT !.status = "completed"])
  /\ Touch(p, job.id, [Idle EXCEPT !.pc = "finished", !.id = job.id])
  /\ UNCHANGED <<born, past, started, faults>>

\* A list that has on it what another sweep left of a run.
CountRemains ==
  past' = [n \in Ids |-> past[n] \cup (IF n \in Present /\ "evicted" \in past[n]
                                        THEN {"counted"} ELSE {})]

\* _prune_old_runs as far as its list.
PruneOldRuns(p) ==
  /\ jobs[p].pc = "finished"
  /\ SetJob(p, Sweep(Retention, jobs[p].id)) /\ CountRemains
  /\ UNCHANGED <<dirs, born, touched, expired, started, faults>>

-----------------------------------------------------------------------------
(* The sweep *)

\* Mutant: a removed run is still counted by the TTL.
GoneStill(n) ==
  /\ dirs' = [dirs EXCEPT ![n] = Absent]
  /\ touched' = Without(touched, n) /\ UNCHANGED expired

Gone(n) ==
  /\ dirs' = [dirs EXCEPT ![n] = Absent]
  /\ touched' = Without(touched, n) /\ expired' = expired \ {n}

\* The sweep is through with a run, removed or not, and takes its next turn.
NextTurn(job) ==
  [job EXCEPT !.pc = "pruning", !.doomed = @ \ {job.id}, !.stale = @ \ {job.id},
              !.files = {}, !.id = NoId]

\* One turn of the loop.  What it finds neither spared nor gone it removes, but
\* not at once: other processes go on between this look and the removal.
JudgeOne(p) ==
  LET job == jobs[p] IN
  /\ job.pc = "pruning" /\ job.doomed # {}
  /\ LET n == CHOOSE m \in job.doomed : \A k \in job.doomed : m <= k
         turn == [job EXCEPT !.id = n]
     IN  SetJob(p, IF Spared(job, n) \/ n \notin Present THEN NextTurn(turn)
                   ELSE [turn EXCEPT !.pc = "condemned"])
  /\ UNCHANGED <<dirs, born, touched, expired, past, started, faults>>

\* rmtree lists the directory, and removes only what it has listed.
ListFiles(p) ==
  LET job == jobs[p] IN
  /\ job.pc = "condemned"
  /\ SetJob(p, IF job.id \notin Present THEN NextTurn(job)
               ELSE [job EXCEPT !.pc = "removing", !.files = FilesOf(job.id)])
  /\ UNCHANGED <<dirs, born, touched, expired, past, started, faults>>

\* What is on record when a sweep takes a file of run n, or n itself.
Evict(job, deeds) ==
  past' = [past EXCEPT ![job.id] = @ \cup {"evicted"} \cup deeds
                                     \cup (IF job.id \in job.stale THEN {"outdated"} ELSE {})]

\* The files go one by one, in the order the disk lists them.
Unlink(p, f) ==
  LET job == jobs[p]
      n == job.id
      rest == [job EXCEPT !.files = @ \ {f}, !.doomed = @ \ {n}, !.stale = @ \ {n}]
  IN
  /\ job.pc = "removing" /\ f \in job.files
  /\ n \in Present /\ f \in FilesOf(n)
  /\ dirs' = [dirs EXCEPT ![n] = IF f = "state.json" THEN [dirs[n] EXCEPT !.state = NoState]
                                 ELSE [dirs[n] EXCEPT !.raw = "none", !.rows = NoRows]]
  /\ Touch(p, n, rest)
  /\ Evict(job, IF f = "raw.jsonl" /\ Users(n) # {} THEN {"pruned"} ELSE {})
  /\ UNCHANGED <<born, started, faults>>

\* A listed file that another sweep took first: rmtree passes over it or, in
\* older Pythons, fails and leaves the rest.
UnlinkGone(p, f) ==
  LET job == jobs[p] IN
  /\ job.pc = "removing" /\ f \in job.files
  /\ job.id \in Present => f \notin FilesOf(job.id)
  /\ \/ SetJob(p, [job EXCEPT !.files = @ \ {f}])
     \/ SetJob(p, NextTurn(job))
  /\ UNCHANGED <<dirs, born, touched, expired, past, started, faults>>

\* The rmdir at the end, which fails on a directory that is not empty again.
RemoveDirectory(p) ==
  LET job == jobs[p]
      n == job.id
  IN
  /\ job.pc = "removing" /\ job.files = {}
  /\ SetJob(p, NextTurn(job))
  /\ IF n \in Present /\ FilesOf(n) = {} THEN Gone(n) /\ Evict(job, {})
     ELSE UNCHANGED <<dirs, touched, expired, past>>
  /\ UNCHANGED <<born, started, faults>>

\* rmtree runs into an error and the sweep goes on with its next run.
RemovalFails(p) ==
  /\ jobs[p].pc = "removing"
  /\ faults < MaxFaults /\ faults' = faults + 1
  /\ SetJob(p, NextTurn(jobs[p]))
  /\ UNCHANGED <<dirs, born, touched, expired, past, started>>

\* runs_clean: the preview, and the question when it is not empty.
Preview(p, rule) ==
  /\ Starts(p)
  /\ rule.max > 0 \/ rule.ttl
  /\ \E n \in Doomed(rule) : ~Spared(Idle, n)
  /\ SetJob(p, [Idle EXCEPT !.pc = "asking", !.rule = rule])
  /\ UNCHANGED <<dirs, born, touched, expired, past>>

\* The answer: no, or a second prune_runs that lists anew.
Confirm(p) ==
  LET job == jobs[p] IN
  /\ job.pc = "asking"
  /\ \/ SetJob(p, Idle) /\ UNCHANGED past
     \/ SetJob(p, Sweep(job.rule, NoId)) /\ CountRemains
  /\ UNCHANGED <<dirs, born, touched, expired, started, faults>>

-----------------------------------------------------------------------------
(* evaluate *)

\* run_evaluate as far as its rows.  A run in progress is scored with a
\* warning; one without a pair of rows, or with unreadable ones, is refused.
Scorable(n) == Readable(n) /\ dirs[n].raw # "undecodable" /\ Recorded(n) # {}

ReadRun(p, n) ==
  /\ IF Scorable(n)
     THEN /\ SetJob(p, [Idle EXCEPT !.pc = "scoring", !.id = n,
                                    !.suite = dirs[n].suite, !.state = dirs[n].state])
          /\ Note(n, "early", InProgress(n))
     ELSE SetJob(p, Idle) /\ UNCHANGED past
  /\ UNCHANGED <<dirs, born, touched, expired>>

Evaluate(p, n) ==
  /\ Starts(p) /\ Scorable(n)
  /\ ReadRun(p, n)

\* After its sweep `compare` evaluates its run; `run` and `clean` end.
PruneEnds(p) ==
  LET job == jobs[p] IN
  /\ job.pc = "pruning" /\ job.doomed = {}
  /\ \/ job.keep # NoId /\ ReadRun(p, job.keep)
     \/ SetJob(p, Idle) /\ UNCHANGED <<dirs, born, touched, expired, past>>
  /\ UNCHANGED <<started, faults>>

\* scores.jsonl is opened in a directory that must exist, and may be new to it.
WriteScores(p) ==
  LET job == jobs[p] IN
  /\ job.pc = "scoring"
  /\ IF job.id \in Present
     THEN \/ Touch(p, job.id, [job EXCEPT !.pc = "scored"])
          \/ SetJob(p, [job EXCEPT !.pc = "scored"]) /\ UNCHANGED <<touched, expired>>
     ELSE SetJob(p, Idle) /\ UNCHANGED <<touched, expired>>
  /\ UNCHANGED <<dirs, born, past, started, faults>>

\* Mutant: the coverage in a state of its own, not in the one read.
WriteCoverageAnew(p) ==
  LET job == jobs[p] IN
  /\ job.pc = "scored"
  /\ dirs' = Stored(job.id, job.suite, [job.state EXCEPT !.status = "in_progress"])
  /\ Touch(p, job.id, Idle)
  /\ Note(job.id, "raced", UnderRemoval(job.id))
  /\ UNCHANGED <<born, started, faults>>

\* write_state with the coverage added to the state read at the start.
WriteCoverage(p) ==
  LET job == jobs[p] IN
  /\ job.pc = "scored"
  /\ dirs' = Stored(job.id, job.suite, job.state)
  /\ Touch(p, job.id, Idle)
  /\ Note(job.id, "raced", job.state.status = "in_progress" /\ UnderRemoval(job.id))
  /\ UNCHANGED <<born, started, faults>>

-----------------------------------------------------------------------------
(* The environment *)

Kill(p) ==
  /\ jobs[p].pc # "idle" /\ faults < MaxFaults
  /\ faults' = faults + 1
  /\ SetJob(p, Idle)
  /\ UNCHANGED <<dirs, born, touched, expired, past, started>>

\* Time passes: the oldest mtime that was not past the TTL now is.
Age ==
  /\ HasTtl \/ \E rule \in CleanRules : rule.ttl
  /\ Cardinality(expired) < MaxExpired /\ Cardinality(expired) < Len(touched)
  /\ expired' = expired \cup {touched[Cardinality(expired) + 1]}
  /\ UNCHANGED <<dirs, born, touched, jobs, past, started, faults>>

Next ==
  \/ \E p \in Procs :
       \/ \E s \in Suites, m \in Models : MakeDirectory(p, s, m) \/ Resume(p, s, m)
       \/ WriteFirstState(p) \/ \E i \in Items : Call(p, i) \/ CallIsTorn(p, i)
       \/ Finish(p) \/ PruneOldRuns(p) \/ JudgeOne(p) \/ PruneEnds(p)
       \/ ListFiles(p) \/ \E f \in Files : Unlink(p, f) \/ UnlinkGone(p, f)
       \/ RemoveDirectory(p) \/ RemovalFails(p)
       \/ \E rule \in CleanRules : Preview(p, rule)
       \/ Confirm(p)
       \/ \E n \in Ids : Evaluate(p, n)
       \/ WriteScores(p) \/ WriteCoverage(p)
       \/ Kill(p)
  \/ Age

Spec == Init /\ [][Next]_vars

-----------------------------------------------------------------------------
(* Properties *)

\* Types of everything on the disk and in the processes (runner/models.py,
\* checkpoint.py): only present directories have an mtime, and the expired
\* ones are the oldest.
TypeOK ==
  /\ dirs \in [Ids -> Dir \cup {Absent}]
  /\ {touched[k] : k \in DOMAIN touched} = Present /\ Len(touched) = Cardinality(Present)
  /\ expired \subseteq Present
  /\ expired = {touched[k] : k \in 1..Cardinality(expired)}
  /\ Present \subseteq {born[k] : k \in DOMAIN born}
  /\ past \in [Ids -> SUBSET Deeds]
  /\ \A p \in Procs : /\ jobs[p].todo \subseteq Items /\ jobs[p].doomed \subseteq Ids
                      /\ jobs[p].state \in RunState \cup {NoState}
                      /\ jobs[p].files \subseteq Files
                      /\ jobs[p].pc \notin {"idle", "asking", "pruning"} => jobs[p].id \in Ids

\* A run that is being worked on keeps its directory and its state, whatever
\* sweeps, cleans, faults and evaluations go on beside it (prune_runs: "an
\* in_progress run ... never evicted").  The exceptions: two processes were put
\* to work on it, an evaluation of the unfinished run wrote the state it had
\* read back later, or the run became one in progress between a sweep's look at
\* it and the removal.
WorkedOnRunsSurvive ==
  [][\A n \in Ids :
       Workers(n) # {} /\ Readable(n) /\ past'[n] \cap {"shared", "early", "raced"} = {}
       => Readable(n)']_vars

\* A run that says it is completed has one row for each item, made by the
\* models it names (resume's skip set, _process_work's last write), through
\* any faults, resumes, sweeps and evaluations; or a sweep, or what one left
\* behind, has taken all its rows at once.  The exceptions are a run that two
\* processes resumed at once, one resumed with other --from / --to, one whose
\* rows were removed under a process that relied on them, and one of whose
\* rows was appended to a line cut short.
CompletedRunsAreWhole ==
  \A n \in Ids :
    Completed(n) /\ past[n] \cap {"shared", "remodelled", "pruned", "swallowed"} = {}
    => \/ \A i \in Items : dirs[n].rows[i] = <<dirs[n].state.models>>
       \/ "evicted" \in past[n] /\ dirs[n].raw = "none" /\ dirs[n].rows = NoRows

\* A completed run never goes back to in_progress, where a resume would take
\* it up and retention would never touch it: evaluate writes back the state
\* it read, so this holds for runs that were complete when it began.
CompletedStaysCompleted ==
  [][\A n \in Ids :
       Completed(n) /\ past'[n] \cap {"shared", "early"} = {}
       => (~InProgress(n))']_vars

\* A sweep by count never takes the newest run of a suite ("a rarely-run
\* suite isn't evicted just because another suite is busy",
\* docs/configuration.md): when it lays hands on a run, a newer one of its own
\* suite is beside it that no sweep has touched, although other sweeps and
\* commands went on since the list.  At risk are a run that was written to
\* after a sweep had listed it, and what a sweep lists that took the remains
\* of a half-removed run, whose mtime is fresh, for the newest.
SuitesKeepTheirNewest ==
  [][\A n \in Present \ expired :
       /\ "evicted" \in past'[n] \ past[n]
       /\ \A m \in Ids : past'[m] \cap {"outdated", "counted"} = {}
       => \E m \in Present : /\ dirs[m].suite = dirs[n].suite
                             /\ At(touched, m) > At(touched, n)
                             /\ "evicted" \notin past[m]]_vars

=============================================================================
