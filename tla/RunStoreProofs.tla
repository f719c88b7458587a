--------------------------- MODULE RunStoreProofs ---------------------------
(***************************************************************************)
(* What processes that share .evalshift/runs cannot do to each other's     *)
(* runs, for any processes, suites, models, items, rules and bounds.       *)
(*                                                                         *)
(* Exclusive, Settled, Watched and Whole say of one run who works on it,   *)
(* who removes it and what they hold of it; each names the deeds of `past` *)
(* it does not speak of.  Ordered and Aging say of all of them together    *)
(* how old they are and what the sweeps under way may still remove,        *)
(* Counted how many rows they have.                                        *)
(***************************************************************************)
EXTENDS RunStore, FiniteSetTheorems, WellFoundedInduction, TLAPS

Born == {born[k] : k \in DOMAIN born}

Run == [suite : Suites, state : RunState \cup {NoState}, raw : Tails, rows : [Items -> Seq(Models)]]

Making == {"starting", "calling"}
Scoring == {"scoring", "scored"}
Removal == {"condemned", "removing"}

Job ==
  [pc : Making \cup Scoring \cup Removal \cup {"idle", "asking", "finished", "pruning"},
   id : Ids \cup {NoId}, suite : Suites \cup {AnySuite}, todo : SUBSET Items,
   state : RunState \cup {NoState}, models : Models \cup {NoState},
   doomed : SUBSET Ids, stale : SUBSET Ids, files : SUBSET Files, keep : Ids \cup {NoId},
   rule : CleanRules \cup {NoState}]

\* The types the steps need; a run's id is never another run's, and what is
\* not there has no rows.
Shape ==
  /\ dirs \in [Ids -> Run \cup {Absent}]
  /\ born \in Seq(Ids)
  /\ jobs \in [Procs -> Job]
  /\ past \in [Ids -> SUBSET Deeds]
  /\ Present \subseteq Born
  /\ \A n \in Present : dirs[n].raw = "none" => dirs[n].rows = NoRows
  /\ \A p \in Procs :
       /\ jobs[p].pc \in Making \cup Scoring =>
            jobs[p].id \in Born /\ jobs[p].state \in RunState /\ jobs[p].suite \in Suites
       /\ jobs[p].pc \in Making =>
            jobs[p].models \in Models /\ jobs[p].state.status = "in_progress"
       /\ jobs[p].pc \in Removal => jobs[p].id \in Ids

Makes(p, n) == jobs[p].pc \in Making /\ jobs[p].id = n
Scores(p, n) == jobs[p].pc \in Scoring /\ jobs[p].id = n
On(p, n) == Makes(p, n) \/ Scores(p, n)

StateOf(n) == IF n \in Present THEN dirs[n].state ELSE NoState
RowsOf(n) == IF n \in Present THEN dirs[n].rows ELSE NoRows
Missing(n) == {i \in Items : RowsOf(n)[i] = <<>>}

\* A run that is being made is being made by one process, from nothing.
Exclusive(n) ==
  /\ \A p, q \in Procs :
       jobs[p].pc = "starting" /\ jobs[p].id = n =>
         ~Readable(n) /\ RowsOf(n) = NoRows /\ (On(q, n) => q = p)
  /\ "shared" \notin past[n] => \A p, q \in Procs : Makes(p, n) /\ Makes(q, n) => p = q

\* Once a run is complete nobody makes it or holds it for unfinished, unless
\* it was evaluated before it was complete.
Settled(n) ==
  "shared" \notin past[n] /\ "early" \notin past[n] =>
    \A p \in Procs :
      /\ Makes(p, n) => ~Completed(n)
      /\ Scores(p, n) => /\ ~InProgress(n) /\ jobs[p].state.status = "completed"
                         /\ \A q \in Procs : ~Makes(q, n)

\* What a sweep removes is not in progress, unless it became so meanwhile.
Watched(n) == "raced" \notin past[n] /\ UnderRemoval(n) => ~InProgress(n)

\* What a process holds of a run agrees with its directory and with what the
\* others hold.
Agree(n) ==
  \A p \in Procs : On(p, n) =>
    /\ \A i \in Items : RowsOf(n)[i] \in {<<>>, <<jobs[p].state.models>>}
    /\ Readable(n) => jobs[p].state.models = dirs[n].state.models
    /\ \A q \in Procs : On(q, n) => jobs[q].state.models = jobs[p].state.models

\* Who makes a run has the missing items left, and no other models.
Left(n) ==
  \A p \in Procs : Makes(p, n) =>
    /\ jobs[p].state.models = jobs[p].models
    /\ jobs[p].todo = Missing(n)
    /\ Completed(n) => Missing(n) = {}

\* The rows of a run are of its models, and of a complete one all there or,
\* after a sweep, none.
Full(n) ==
  /\ \A p \in Procs : Scores(p, n) /\ jobs[p].state.status = "completed" => Missing(n) = {}
  /\ Readable(n) => \A i \in Items : RowsOf(n)[i] \in {<<>>, <<dirs[n].state.models>>}
  /\ Completed(n) => Missing(n) = {} \/ ("evicted" \in past[n] /\ dirs[n].raw = "none")

Unmixed(n) == past[n] \cap {"shared", "remodelled", "pruned", "swallowed"} = {}

Whole(n) == Unmixed(n) => Agree(n) /\ Left(n) /\ Full(n)

Good(n) == Exclusive(n) /\ Settled(n) /\ Watched(n) /\ Whole(n)

Inv == Shape /\ \A n \in Ids : Good(n)

(* Ids *)

\* Of finitely many sets one has no other inside it.
LEMMA NoneInside ==
  ASSUME NEW S, IsFiniteSet(S), S # {}, NEW f \in [S -> SUBSET S]
  PROVE  \E x \in S : \A y \in S : ~(f[y] \subseteq f[x] /\ f[y] # f[x])
<1> DEFINE T == {f[x] : x \in S}
           R == StrictSubsetOrdering(S)
<1>1. \A x \in S : IsFiniteSet(f[x]) /\ f[x] \subseteq S
  BY FS_Subset
<1>2. T # {} /\ T \subseteq FiniteSubsetsOf(S)
  BY <1>1 DEF FiniteSubsetsOf
<1>3. \E b \in T : \A d \in T : <<d, b>> \notin R
  <2>1. IsWellFoundedOn(R, FiniteSubsetsOf(S))
    BY FS_StrictSubsetOrderingWellFounded
  <2> HIDE DEF T, R
  <2> QED
    BY <1>2, <2>1, WFMin
<1>4. PICK x \in S : \A y \in S : <<f[y], f[x]>> \notin R
  BY <1>3
<1> QED
  BY <1>1, <1>4 DEF StrictSubsetOrdering

\* Some ids have a first and a last in the order of their names.
LEMMA FirstAndLast ==
  ASSUME NEW S \in SUBSET Ids, S # {}
  PROVE  (\E n \in S : \A m \in S : m <= n) /\ (\E n \in S : \A m \in S : n <= m)
<1>1. IsFiniteSet(S) /\ \A n \in S : n \in Nat
  BY StoreAssumption, FS_Subset
<1>2. \E n \in S : \A m \in S : n <= m
  <2> DEFINE f == [n \in S |-> {m \in S : m < n}]
  <2>1. f \in [S -> SUBSET S] /\ \A n \in S : f[n] = {m \in S : m < n}
    OBVIOUS
  <2> HIDE DEF f
  <2>2. PICK n \in S : \A m \in S : ~(f[m] \subseteq f[n] /\ f[m] # f[n])
    BY <1>1, <2>1, NoneInside
  <2>3. ASSUME NEW m \in S, m < n PROVE FALSE
    <3>1. \A k \in S : k < m => k < n
      BY <1>1, <2>3
    <3>2. m \notin f[m] /\ m \in f[n] /\ f[m] \subseteq f[n]
      BY <1>1, <2>1, <2>3, <3>1
    <3> QED
      BY <2>2, <3>2
  <2> QED
    BY <1>1, <2>3
<1>3. \E n \in S : \A m \in S : m <= n
  <2> DEFINE f == [n \in S |-> {m \in S : n < m}]
  <2>1. f \in [S -> SUBSET S] /\ \A n \in S : f[n] = {m \in S : n < m}
    OBVIOUS
  <2> HIDE DEF f
  <2>2. PICK n \in S : \A m \in S : ~(f[m] \subseteq f[n] /\ f[m] # f[n])
    BY <1>1, <2>1, NoneInside
  <2>3. ASSUME NEW m \in S, n < m PROVE FALSE
    <3>1. \A k \in S : m < k => n < k
      BY <1>1, <2>3
    <3>2. m \notin f[m] /\ m \in f[n] /\ f[m] \subseteq f[n]
      BY <1>1, <2>1, <2>3, <3>1
    <3> QED
      BY <2>2, <3>2
  <2> QED
    BY <1>1, <2>3
<1> QED
  BY <1>2, <1>3

\* find_latest_in_progress returns a run that is in progress.
LEMMA LatestIsInProgress ==
  FindLatestInProgress # NoId => FindLatestInProgress \in Ids /\ InProgress(FindLatestInProgress)
<1> DEFINE found == {n \in Present : InProgress(n)}
<1>1. CASE found = {}
  BY <1>1 DEF FindLatestInProgress
<1>2. CASE found # {}
  <2>1. found \in SUBSET Ids
    BY DEF Present
  <2>2. \E n \in found : \A m \in found : m <= n
    BY <1>2, <2>1, FirstAndLast
  <2>3. FindLatestInProgress \in found
    BY <1>2, <2>2 DEF FindLatestInProgress
  <2> QED
    BY <2>3 DEF Present
<1> QED
  BY <1>1, <1>2

\* The directory whose turn it is in a sweep is one of the list.
LEMMA TurnIsOfTheList ==
  ASSUME NEW D \in SUBSET Ids, D # {}
  PROVE  (CHOOSE m \in D : \A k \in D : m <= k) \in D
<1>1. \E m \in D : \A k \in D : m <= k
  BY FirstAndLast
<1> QED
  BY <1>1

\* A sweep lists nothing but runs.
LEMMA DoomedAreRuns == ASSUME NEW rule PROVE Doomed(rule) \in SUBSET Ids
  BY DEF Doomed, Group, Present

-----------------------------------------------------------------------------
(* What each action does, in one form *)

-----------------------------------------------------------------------------
(* What each action does, in one form *)

\* p's job becomes job; the others' stay, but for what a sweep yet has to judge.
Becomes(p, job) ==
  /\ jobs' \in [Procs -> Job]
  /\ jobs'[p] = job
  /\ \A q \in Procs \ {p} :
       /\ jobs'[q].pc = jobs[q].pc /\ jobs'[q].id = jobs[q].id
       /\ jobs'[q].suite = jobs[q].suite /\ jobs'[q].todo = jobs[q].todo
       /\ jobs'[q].state = jobs[q].state /\ jobs'[q].models = jobs[q].models

\* p's job goes on as it is, at the next step.
GoesOn(p, todo) ==
  \E job \in Job :
    /\ Becomes(p, job) /\ job.todo = todo
    /\ \/ jobs[p].pc \in Making /\ job.pc = "calling"
       \/ jobs[p].pc \in Scoring /\ job.pc = "scored"
    /\ job.id = jobs[p].id /\ job.suite = jobs[p].suite
    /\ job.state = jobs[p].state /\ job.models = jobs[p].models

\* p works on no run now, and takes none on to remove but one not in progress.
Leaves(p) ==
  \E job \in Job :
    /\ Becomes(p, job) /\ job.pc \notin Making \cup Scoring
    /\ job.pc \in Removal => /\ job.id \in Ids
                             /\ \/ jobs[p].pc \in Removal /\ job.id = jobs[p].id
                                \/ jobs[p].pc = "pruning" /\ ~InProgress(job.id)

\* The directory of n holds this now, in the suite it had.
Writes(n, state, raw, rows) ==
  \E run \in Run :
    /\ dirs' = [dirs EXCEPT ![n] = run]
    /\ run.state = state /\ run.raw = raw /\ run.rows = rows
    /\ raw = "none" => rows = NoRows
    /\ n \in Present => run.suite = dirs[n].suite

\* p writes to the directory of its run, and what has to be noted of it is.
Works(p, state, raw, rows, deeds) ==
  LET n == jobs[p].id IN
  /\ jobs[p].pc \in Making \cup Scoring /\ n \in Ids /\ born' = born
  /\ deeds \in SUBSET {"swallowed", "raced"} /\ past' = [past EXCEPT ![n] = @ \cup deeds]
  /\ Writes(n, state, raw, rows)
  /\ \/ jobs[p].pc \in Making /\ state = StateOf(n)
     \/ state = jobs[p].state /\ (state.status = "completed" \/ (UnderRemoval(n) => "raced" \in deeds))
     \/ /\ jobs[p].pc \in Making /\ jobs[p].todo = {} /\ Leaves(p)
        /\ state = [jobs[p].state EXCEPT !.status = "completed"]

\* SetJob and Touch in that form.
LEMMA SetBecomes ==
  ASSUME Shape, NEW p \in Procs, NEW job \in Job, SetJob(p, job)
  PROVE  Becomes(p, job)
  BY DEF Shape, SetJob, Becomes

\* Touching a directory tells the sweeps that listed it, and nothing else.
LEMMA TouchBecomes ==
  ASSUME Shape, NEW p \in Procs, NEW n \in Ids, NEW job \in Job, Touch(p, n, job)
  PROVE  Becomes(p, job)
<1> DEFINE other(q) == [jobs[q] EXCEPT !.stale = @ \cup (jobs[q].doomed \cap {n})]
<1>1. \A q \in Procs : jobs[q] \in Job
  BY DEF Shape
<1>2. \A q \in Procs :
        /\ other(q) \in Job /\ other(q).pc = jobs[q].pc /\ other(q).id = jobs[q].id
        /\ other(q).suite = jobs[q].suite /\ other(q).todo = jobs[q].todo
        /\ other(q).state = jobs[q].state /\ other(q).models = jobs[q].models
  BY <1>1 DEF Job
<1>3. jobs' = [q \in Procs |-> IF q = p THEN job ELSE other(q)]
  BY DEF Touch
<1> HIDE DEF other
<1>4. \A q \in Procs : jobs'[q] \in Job
  BY <1>2, <1>3
<1> QED
  BY <1>2, <1>3, <1>4 DEF Becomes

\* The directory a write begins with.
LEMMA WhatIsThere ==
  ASSUME Shape, NEW n \in Ids, NEW suite \in Suites
  PROVE  /\ DirOf(n, suite) \in Run /\ DirOf(n, suite).state = StateOf(n)
         /\ DirOf(n, suite).rows = RowsOf(n) /\ (n \in Present => DirOf(n, suite) = dirs[n])
         /\ DirOf(n, suite).raw = "none" => RowsOf(n) = NoRows
  BY DEF DirOf, StateOf, RowsOf, NewDir, NoRows, Run, Shape, Present, Tails

\* write_state, also into a directory that is gone.
LEMMA StoredWrites ==
  ASSUME Shape, NEW n \in Ids, NEW suite \in Suites, NEW state \in RunState \cup {NoState},
         dirs' = Stored(n, suite, state)
  PROVE  \E raw \in Tails : /\ Writes(n, state, raw, RowsOf(n))
                            /\ n \in Present => raw = dirs[n].raw
<1> DEFINE old == DirOf(n, suite)
           run == [old EXCEPT !.state = state]
<1>1. /\ old \in Run /\ old.rows = RowsOf(n) /\ (n \in Present => old = dirs[n])
      /\ old.raw = "none" => RowsOf(n) = NoRows
  BY WhatIsThere
<1>2. dirs' = [dirs EXCEPT ![n] = run]
  BY DEF Stored
<1> HIDE DEF old
<1>3. /\ run \in Run /\ run.state = state /\ run.raw = old.raw /\ run.rows = RowsOf(n)
      /\ run.suite = old.suite /\ old.raw \in Tails
  BY <1>1 DEF Run
<1> HIDE DEF run
<1>4. Writes(n, state, old.raw, RowsOf(n))
  BY <1>1, <1>2, <1>3 DEF Writes
<1> QED
  BY <1>1, <1>3, <1>4

\* The job of a process with nothing to do.
LEMMA IdleIsAJob == Idle \in Job /\ Idle.pc = "idle" /\ Idle.pc \notin Making \cup Scoring \cup Removal
  BY DEF Idle, Job, Making, Scoring, Removal

\* A process that has nothing to do leaves its run.
LEMMA ToIdle ==
  ASSUME Shape, NEW p \in Procs, SetJob(p, Idle)
  PROVE  Leaves(p)
  BY IdleIsAJob, SetBecomes DEF Leaves

\* A directory that never was, and its process.
LEMMA MakeDirectoryDoes ==
  ASSUME Shape, NEW p \in Procs, NEW s \in Suites, NEW m \in Models, MakeDirectory(p, s, m)
  PROVE  \E n \in Ids \ Born, job \in Job :
           /\ Becomes(p, job) /\ job.pc = "starting" /\ job.id = n /\ job.suite = s
           /\ job.todo = Items /\ job.models = m
           /\ job.state = [status |-> "in_progress", models |-> m]
           /\ Writes(n, NoState, "none", NoRows) /\ born' = Append(born, n) /\ past' = past
<1> DEFINE started0 == [status |-> "in_progress", models |-> m]
           job(n) == [Idle EXCEPT !.pc = "starting", !.id = n, !.suite = s, !.todo = Items,
                                  !.models = m, !.state = started0]
<1>1. PICK n \in Ids \ Born :
        /\ dirs' = [dirs EXCEPT ![n] = NewDir(s)]
        /\ born' = Append(born, n) /\ Touch(p, n, job(n))
  BY DEF MakeDirectory, Born
<1>2. /\ job(n) \in Job /\ job(n).pc = "starting" /\ job(n).id = n /\ job(n).suite = s
      /\ job(n).todo = Items /\ job(n).models = m /\ job(n).state = started0
  BY DEF Idle, Job, Making, RunState
<1>3. Becomes(p, job(n))
  BY <1>1, <1>2, TouchBecomes
<1>4. /\ NewDir(s) \in Run /\ NewDir(s).state = NoState /\ NewDir(s).raw = "none" /\ NewDir(s).rows = NoRows
  BY DEF Run, NewDir, NoRows, Tails
<1>5. n \notin Present
  BY DEF Shape
<1>6. Writes(n, NoState, "none", NoRows)
  BY <1>1, <1>4, <1>5 DEF Writes
<1>7. past' = past
  BY DEF MakeDirectory
<1> HIDE DEF job
<1> QED
  BY <1>1, <1>2, <1>3, <1>6, <1>7

\* The run a process works on, and what it has left to do.
LEMMA WorkIsOfARun ==
  ASSUME Shape, NEW p \in Procs, jobs[p].pc \in Making \cup Scoring
  PROVE  jobs[p].id \in Ids /\ jobs[p].todo \in SUBSET Items
<1>1. jobs[p] \in Job /\ jobs[p].id \in Born /\ born \in Seq(Ids)
  BY DEF Shape
<1>2. Born \subseteq Ids
  BY <1>1 DEF Born
<1> QED
  BY <1>1, <1>2 DEF Job

\* The first state.json, if the directory is still there.
LEMMA WriteFirstStateDoes ==
  ASSUME Shape, NEW p \in Procs, WriteFirstState(p)
  PROVE  /\ jobs[p].pc = "starting" /\ born' = born
         /\ \/ /\ GoesOn(p, jobs[p].todo)
               /\ \E raw \in Tails, deeds \in SUBSET {"raced"} :
                    Works(p, jobs[p].state, raw, RowsOf(jobs[p].id), deeds)
            \/ dirs' = dirs /\ past' = past /\ Leaves(p)
<1> DEFINE n == jobs[p].id
           job == [jobs[p] EXCEPT !.pc = "calling"]
           deeds == IF UnderRemoval(n) THEN {"raced"} ELSE {}
<1>1. jobs[p].pc = "starting" /\ jobs[p].pc \in Making \cup Scoring /\ born' = born
  BY DEF WriteFirstState, Making
<1>2. jobs[p] \in Job /\ n \in Ids /\ jobs[p].state \in RunState /\ jobs[p].suite \in Suites
  BY <1>1, WorkIsOfARun DEF Shape
<1>3. /\ job \in Job /\ job.pc = "calling" /\ job.todo = jobs[p].todo /\ job.id = n
      /\ job.suite = jobs[p].suite /\ job.state = jobs[p].state /\ job.models = jobs[p].models
  BY <1>2 DEF Job, Making
<1>4. CASE n \in Present
  <2>1. dirs' = Stored(n, jobs[p].suite, jobs[p].state) /\ Touch(p, n, job) /\ Note(n, "raced", UnderRemoval(n))
    BY <1>4 DEF WriteFirstState
  <2>2. Becomes(p, job)
    BY <1>2, <1>3, <2>1, TouchBecomes
  <2>3. PICK raw \in Tails : Writes(n, jobs[p].state, raw, RowsOf(n))
    BY <1>2, <2>1, StoredWrites
  <2>4. past' = [past EXCEPT ![n] = @ \cup deeds]
    BY <1>2, <2>1 DEF Note, Shape
  <2> HIDE DEF job
  <2>5. GoesOn(p, jobs[p].todo)
    BY <1>1, <1>3, <2>2 DEF GoesOn, Making
  <2>6. Works(p, jobs[p].state, raw, RowsOf(n), deeds)
    BY <1>1, <1>2, <2>3, <2>4 DEF Works
  <2>7. deeds \in SUBSET {"raced"}
    OBVIOUS
  <2> QED
    BY <1>1, <2>5, <2>6, <2>7
<1>5. CASE n \notin Present
  <2>1. SetJob(p, Idle) /\ dirs' = dirs /\ past' = past
    BY <1>5 DEF WriteFirstState
  <2> QED
    BY <1>1, <2>1, ToIdle
<1> QED
  BY <1>4, <1>5

\* The latest unfinished run gets one process more.
LEMMA ResumeDoes ==
  ASSUME Shape, NEW p \in Procs, NEW s \in Suites, NEW m \in Models, Resume(p, s, m)
  PROVE  \E n \in Ids, job \in Job :
           /\ InProgress(n) /\ dirs' = dirs /\ born' = born
           /\ Becomes(p, job) /\ job.pc = "calling" /\ job.id = n /\ job.suite = s
           /\ job.todo = Items \ Recorded(n) /\ job.models = m /\ job.state = dirs[n].state
           /\ past' = [past EXCEPT ![n] = @ \cup (IF Workers(n) # {} THEN {"shared"} ELSE {})
                                 \cup (IF m # dirs[n].state.models THEN {"remodelled"} ELSE {})]
<1> DEFINE n == FindLatestInProgress
           job == [Idle EXCEPT !.pc = "calling", !.id = n, !.suite = s,
                               !.todo = Items \ Recorded(n), !.models = m, !.state = dirs[n].state]
<1>1. n \in Ids /\ InProgress(n) /\ dirs[n].state \in RunState
  BY LatestIsInProgress, StoreAssumption DEF Resume, Shape, InProgress, Readable, Present, Run
<1>2. SetJob(p, job) /\ dirs' = dirs /\ born' = born
  BY DEF Resume
<1>3. past' = [past EXCEPT ![n] = @ \cup (IF Workers(n) # {} THEN {"shared"} ELSE {})
                                   \cup (IF m # dirs[n].state.models THEN {"remodelled"} ELSE {})]
  BY DEF Resume
<1> HIDE DEF n
<1>4. /\ job \in Job /\ job.pc = "calling" /\ job.id = n /\ job.suite = s
      /\ job.todo = Items \ Recorded(n) /\ job.models = m /\ job.state = dirs[n].state
  BY <1>1 DEF Idle, Job, Making
<1>5. Becomes(p, job)
  BY <1>2, <1>4, SetBecomes
<1> HIDE DEF job
<1> QED
  BY <1>1, <1>2, <1>3, <1>4, <1>5

\* The rows after an append: one more, or none when it was lost.
RowsWith(n, i, models) == [RowsOf(n) EXCEPT ![i] = Append(@, models)]

\* The directories d are as now, but for these rows in n.
HasRows(d, n, rows) ==
  \E run \in Run :
    /\ d = [dirs EXCEPT ![n] = run]
    /\ run.state = StateOf(n) /\ run.raw # "none" /\ run.rows = rows
    /\ n \in Present => run.suite = dirs[n].suite

\* append_call.
LEMMA AppendedWrites ==
  ASSUME Shape, NEW n \in Ids, NEW suite \in Suites, NEW i \in Items, NEW models \in Models
  PROVE  /\ Swallowed(n) => HasRows(Appended(n, suite, i, models), n, RowsOf(n))
         /\ ~Swallowed(n) => HasRows(Appended(n, suite, i, models), n, RowsWith(n, i, models))
<1> DEFINE old == DirOf(n, suite)
           rows == RowsWith(n, i, models)
           joined == [old EXCEPT !.raw = IF old.raw = "torn" THEN "clean" ELSE old.raw]
           added == [old EXCEPT !.raw = "clean", !.rows = rows]
<1>1. /\ old \in Run /\ old.state = StateOf(n) /\ old.rows = RowsOf(n) /\ (n \in Present => old = dirs[n])
  BY WhatIsThere
<1>2. rows \in [Items -> Seq(Models)] /\ rows = [old.rows EXCEPT ![i] = Append(@, models)]
  <2>1. RowsOf(n) \in [Items -> Seq(Models)]
    BY <1>1 DEF Run
  <2> QED
    BY <1>1, <2>1 DEF RowsWith
<1>3. Appended(n, suite, i, models) = [dirs EXCEPT ![n] = IF Swallowed(n) THEN joined ELSE added]
  BY <1>2 DEF Appended
<1>4. Swallowed(n) => old.raw \in {"torn", "undecodable"}
  BY <1>1 DEF Swallowed
<1> HIDE DEF old, rows
<1>5. /\ joined \in Run /\ joined.state = old.state /\ joined.rows = old.rows /\ joined.suite = old.suite
      /\ joined.raw = IF old.raw = "torn" THEN "clean" ELSE old.raw
  BY <1>1 DEF Run, Tails
<1>6. /\ added \in Run /\ added.state = old.state /\ added.rows = rows /\ added.suite = old.suite
      /\ added.raw = "clean"
  BY <1>1, <1>2 DEF Run, Tails
<1> HIDE DEF joined, added
<1>7. CASE Swallowed(n)
  BY <1>1, <1>3, <1>4, <1>5, <1>7 DEF HasRows
<1>8. CASE ~Swallowed(n)
  BY <1>1, <1>3, <1>6, <1>8 DEF rows, HasRows
<1> QED
  BY <1>7, <1>8

\* A row, and perhaps a checkpoint of the state the process holds.
LEMMA CallDoes ==
  ASSUME Shape, NEW p \in Procs, NEW i \in Items, Call(p, i)
  PROVE  /\ jobs[p].pc = "calling" /\ i \in jobs[p].todo
         /\ GoesOn(p, jobs[p].todo \ {i})
         /\ \E state, raw, rows, deeds :
              /\ Works(p, state, raw, rows, deeds) /\ raw # "none"
              /\ \/ rows = RowsWith(jobs[p].id, i, jobs[p].models)
                 \/ rows = RowsOf(jobs[p].id) /\ "swallowed" \in deeds
<1> DEFINE n == jobs[p].id
           job == [jobs[p] EXCEPT !.todo = jobs[p].todo \ {i}]
           row == Appended(n, jobs[p].suite, i, jobs[p].models)
           isCheckpoint == (Cardinality(Items) - Cardinality(jobs[p].todo \ {i})) % CheckpointEvery = 0
           deeds == (IF Swallowed(n) THEN {"swallowed"} ELSE {})
                    \cup (IF isCheckpoint /\ UnderRemoval(n) THEN {"raced"} ELSE {})
           state == IF isCheckpoint THEN jobs[p].state ELSE StateOf(n)
           rows == IF Swallowed(n) THEN RowsOf(n) ELSE RowsWith(n, i, jobs[p].models)
<1>1. jobs[p].pc = "calling" /\ i \in jobs[p].todo /\ born' = born /\ jobs[p].pc \in Making \cup Scoring
  BY DEF Call, Making
<1>2. /\ jobs[p] \in Job /\ n \in Ids /\ jobs[p].state \in RunState
      /\ jobs[p].suite \in Suites /\ jobs[p].models \in Models
  BY <1>1, WorkIsOfARun DEF Shape, Making
<1>3. /\ job \in Job /\ job.pc = "calling" /\ job.todo = jobs[p].todo \ {i} /\ job.id = n
      /\ job.suite = jobs[p].suite /\ job.state = jobs[p].state /\ job.models = jobs[p].models
  BY <1>1, <1>2 DEF Job
<1>4. Touch(p, n, job) \/ SetJob(p, job)
  BY DEF Call
<1>5. GoesOn(p, jobs[p].todo \ {i})
  <2>1. Becomes(p, job)
    BY <1>2, <1>3, <1>4, TouchBecomes, SetBecomes
  <2> HIDE DEF job
  <2> QED
    BY <1>1, <1>3, <2>1 DEF GoesOn, Making
<1>6. dirs' = IF isCheckpoint THEN [row EXCEPT ![n].state = jobs[p].state] ELSE row
  BY DEF Call
<1>7. past' = [past EXCEPT ![n] = @ \cup deeds]
  BY <1>2 DEF Call, Shape
<1>8. PICK run \in Run :
        /\ row = [dirs EXCEPT ![n] = run]
        /\ run.state = StateOf(n) /\ run.raw # "none"
        /\ run.rows = rows
        /\ n \in Present => run.suite = dirs[n].suite
  <2>1. HasRows(row, n, rows)
    BY <1>2, AppendedWrites
  <2> QED
    BY <2>1 DEF HasRows
<1> DEFINE new == [run EXCEPT !.state = state]
<1>9. state \in RunState \cup {NoState}
  BY <1>2 DEF StateOf, Shape, Run, Present
<1>10. dirs' = [dirs EXCEPT ![n] = new]
  <2>1. CASE isCheckpoint
    BY <1>2, <1>6, <1>8, <2>1 DEF Shape
  <2>2. CASE ~isCheckpoint
    <3>1. new = run
      BY <1>8, <2>2 DEF Run
    <3> QED
      BY <1>6, <1>8, <2>2, <3>1
  <2> QED
    BY <2>1, <2>2
<1>11. deeds \in SUBSET {"swallowed", "raced"} /\ (Swallowed(n) => "swallowed" \in deeds)
       /\ (isCheckpoint /\ UnderRemoval(n) => "raced" \in deeds)
  OBVIOUS
<1>12. state = StateOf(n) \/ (state = jobs[p].state /\ isCheckpoint)
  OBVIOUS
<1> HIDE DEF state, rows, deeds, isCheckpoint, row
<1>13. /\ new \in Run /\ new.state = state /\ new.raw = run.raw /\ new.rows = rows /\ new.suite = run.suite
       /\ run.raw \in Tails
  BY <1>8, <1>9 DEF Run
<1> HIDE DEF new
<1>14. Writes(n, state, run.raw, rows)
  BY <1>8, <1>10, <1>13 DEF Writes
<1>15. Works(p, state, run.raw, rows, deeds)
  BY <1>1, <1>2, <1>7, <1>11, <1>12, <1>14 DEF Works, Making
<1>16. \/ rows = RowsWith(n, i, jobs[p].models)
       \/ rows = RowsOf(n) /\ "swallowed" \in deeds
  BY <1>11 DEF rows
<1> QED
  BY <1>1, <1>5, <1>8, <1>12, <1>13, <1>15, <1>16

\* An append cut short leaves a tail and no row.
LEMMA CallIsTornDoes ==
  ASSUME Shape, NEW p \in Procs, NEW i \in Items, CallIsTorn(p, i)
  PROVE  /\ jobs[p].pc = "calling" /\ i \in jobs[p].todo /\ Leaves(p)
         /\ \E raw \in Tails : /\ Works(p, StateOf(jobs[p].id), raw, RowsOf(jobs[p].id), {})
                               /\ raw # "none"
<1> DEFINE n == jobs[p].id
           old == DirOf(n, jobs[p].suite)
<1>1. jobs[p].pc = "calling" /\ i \in jobs[p].todo /\ jobs[p].pc \in Making \cup Scoring
  BY DEF CallIsTorn, Making
<1>2. n \in Ids /\ jobs[p].suite \in Suites
  BY <1>1, WorkIsOfARun DEF Shape
<1>3. PICK raw \in {"torn", "undecodable"} : dirs' = Torn(n, jobs[p].suite, raw)
  BY DEF CallIsTorn
<1>4. Leaves(p)
  <2>1. Touch(p, n, Idle) \/ SetJob(p, Idle)
    BY DEF CallIsTorn
  <2> QED
    BY <1>2, <2>1, IdleIsAJob, TouchBecomes, SetBecomes DEF Leaves
<1>5. past' = [past EXCEPT ![n] = @ \cup {}] /\ born' = born
  BY <1>2 DEF CallIsTorn, Shape
<1>6. old \in Run /\ old.state = StateOf(n) /\ old.rows = RowsOf(n) /\ (n \in Present => old = dirs[n])
  BY <1>2, WhatIsThere
<1> DEFINE run == [old EXCEPT !.raw = raw]
<1>7. dirs' = [dirs EXCEPT ![n] = run]
  BY <1>3 DEF Torn
<1> HIDE DEF old
<1>8. run \in Run /\ run.state = StateOf(n) /\ run.raw = raw /\ run.rows = RowsOf(n) /\ run.suite = old.suite
  BY <1>6 DEF Run, Tails
<1> HIDE DEF run
<1>9. Writes(n, StateOf(n), raw, RowsOf(n)) /\ raw \in Tails /\ raw # "none"
  BY <1>6, <1>7, <1>8 DEF Writes, Tails
<1> QED
  BY <1>1, <1>2, <1>4, <1>5, <1>9 DEF Works, Making

\* The last write of a launch with nothing left to do.
LEMMA FinishDoes ==
  ASSUME Shape, NEW p \in Procs, Finish(p)
  PROVE  /\ jobs[p].pc = "calling" /\ Leaves(p) /\ jobs[p].todo = {}
         /\ \E raw \in Tails :
              Works(p, [jobs[p].state EXCEPT !.status = "completed"], raw, RowsOf(jobs[p].id), {})
<1> DEFINE n == jobs[p].id
           state == [jobs[p].state EXCEPT !.status = "completed"]
           job == [Idle EXCEPT !.pc = "finished", !.id = n]
<1>1. jobs[p].pc = "calling" /\ born' = born /\ jobs[p].todo = {} /\ jobs[p].pc \in Making \cup Scoring
  BY DEF Finish, Making
<1>2. n \in Ids /\ jobs[p].state \in RunState /\ jobs[p].suite \in Suites
  BY <1>1, WorkIsOfARun DEF Shape
<1>3. state \in RunState /\ state.status = "completed"
  BY <1>2 DEF RunState
<1>4. dirs' = Stored(n, jobs[p].suite, state) /\ Touch(p, n, job)
  BY DEF Finish
<1>5. past' = [past EXCEPT ![n] = @ \cup {}]
  BY <1>2 DEF Finish, Shape
<1>6. job \in Job /\ job.pc \notin Making \cup Scoring /\ job.pc \notin Removal
  BY <1>2 DEF Idle, Job, Making, Scoring, Removal
<1> HIDE DEF state, job
<1>7. Leaves(p)
  BY <1>2, <1>4, <1>6, TouchBecomes DEF Leaves
<1>8. PICK raw \in Tails : Writes(n, state, raw, RowsOf(n))
  BY <1>2, <1>3, <1>4, StoredWrites
<1>9. Works(p, state, raw, RowsOf(n), {})
  BY <1>1, <1>2, <1>3, <1>5, <1>7, <1>8 DEF Works, Making, state
<1> QED
  BY <1>1, <1>7, <1>9 DEF state

\* The state that was read, written back.
LEMMA WriteCoverageDoes ==
  ASSUME Shape, NEW p \in Procs, WriteCoverage(p)
  PROVE  /\ jobs[p].pc = "scored" /\ Leaves(p)
         /\ \E raw \in Tails, deeds \in SUBSET {"raced"} :
              Works(p, jobs[p].state, raw, RowsOf(jobs[p].id), deeds)
<1> DEFINE n == jobs[p].id
           deeds == IF jobs[p].state.status = "in_progress" /\ UnderRemoval(n) THEN {"raced"} ELSE {}
<1>1. jobs[p].pc = "scored" /\ born' = born /\ jobs[p].pc \in Making \cup Scoring
  BY DEF WriteCoverage, Scoring
<1>2. n \in Ids /\ jobs[p].state \in RunState /\ jobs[p].suite \in Suites
  BY <1>1, WorkIsOfARun DEF Shape
<1>3. /\ dirs' = Stored(n, jobs[p].suite, jobs[p].state) /\ Touch(p, n, Idle)
      /\ Note(n, "raced", jobs[p].state.status = "in_progress" /\ UnderRemoval(n))
  BY DEF WriteCoverage
<1>4. past' = [past EXCEPT ![n] = @ \cup deeds]
  BY <1>2, <1>3 DEF Note, Shape
<1>5. Leaves(p)
  BY <1>2, <1>3, IdleIsAJob, TouchBecomes DEF Leaves
<1>6. PICK raw \in Tails : Writes(n, jobs[p].state, raw, RowsOf(n))
  BY <1>2, <1>3, StoredWrites
<1>7. deeds \in SUBSET {"raced"} /\ deeds \in SUBSET {"swallowed", "raced"}
  OBVIOUS
<1>8. \/ jobs[p].state.status = "completed"
      \/ UnderRemoval(n) => "raced" \in deeds
  BY <1>2 DEF RunState
<1> HIDE DEF deeds
<1>9. Works(p, jobs[p].state, raw, RowsOf(n), deeds)
  BY <1>1, <1>2, <1>4, <1>6, <1>7, <1>8 DEF Works
<1> QED
  BY <1>1, <1>5, <1>7, <1>9


\* p leaves the disk alone.  At most, it is noted that remains were listed.
Aside(p) ==
  /\ dirs' = dirs /\ born' = born /\ Leaves(p)
  /\ past' \in [Ids -> SUBSET Deeds]
  /\ \A n \in Ids : past'[n] = past[n] \/ past'[n] = past[n] \cup {"counted"}

\* p removes a file of a run, or its empty directory.
Takes(p, n, deeds) ==
  /\ n \in Present /\ born' = born /\ Leaves(p)
  /\ jobs[p].pc \in Removal /\ jobs[p].id = n
  /\ deeds \in SUBSET {"evicted", "pruned", "outdated"} /\ "evicted" \in deeds
  /\ past' = [past EXCEPT ![n] = @ \cup deeds]
  /\ \/ Writes(n, NoState, dirs[n].raw, dirs[n].rows)
     \/ Writes(n, dirs[n].state, "none", NoRows) /\ (Users(n) # {} => "pruned" \in deeds)
     \/ dirs' = [dirs EXCEPT ![n] = Absent] /\ RowsOf(n) = NoRows /\ ~Readable(n)

\* A process that leaves, and nothing else.
LEMMA LeavesAside ==
  ASSUME Shape, NEW p \in Procs, Leaves(p), dirs' = dirs, born' = born, past' = past
  PROVE  Aside(p)
  BY DEF Shape, Aside

\* A sweep's list.
LEMMA SweepIsAJob ==
  ASSUME NEW rule, NEW keep \in Ids \cup {NoId}
  PROVE  Sweep(rule, keep) \in Job /\ Sweep(rule, keep).pc \notin Making \cup Scoring \cup Removal
<1>1. Doomed(rule) \in SUBSET Ids
  BY DoomedAreRuns
<1> DEFINE doomed == Doomed(rule)
<1> HIDE DEF doomed
<1>2. /\ [Idle EXCEPT !.pc = "pruning", !.doomed = doomed, !.keep = keep] \in Job
      /\ [Idle EXCEPT !.pc = "pruning", !.doomed = doomed, !.keep = keep].pc = "pruning"
  BY <1>1 DEF doomed, Idle, Job
<1> QED
  BY <1>2 DEF Sweep, doomed, Making, Scoring, Removal

\* What a sweep lists it only reads.
LEMMA CountsRemains ==
  ASSUME Shape, CountRemains
  PROVE  /\ past' \in [Ids -> SUBSET Deeds]
         /\ \A n \in Ids : past'[n] = past[n] \/ past'[n] = past[n] \cup {"counted"}
  BY DEF Shape, CountRemains, Deeds

\* The sweep after a run begins.
LEMMA PruneOldRunsDoes ==
  ASSUME Shape, NEW p \in Procs, PruneOldRuns(p)
  PROVE  Aside(p)
<1> DEFINE job == Sweep(Retention, jobs[p].id)
<1>1. job \in Job /\ job.pc \notin Making \cup Scoring \cup Removal
  BY SweepIsAJob DEF Shape, Job
<1>2. SetJob(p, job) /\ CountRemains /\ dirs' = dirs /\ born' = born
  BY DEF PruneOldRuns
<1> HIDE DEF job
<1>3. Leaves(p)
  BY <1>1, <1>2, SetBecomes DEF Leaves
<1> QED
  BY <1>2, <1>3, CountsRemains DEF Aside

\* A preview only asks.
LEMMA PreviewDoes ==
  ASSUME Shape, NEW p \in Procs, NEW rule \in CleanRules, Preview(p, rule)
  PROVE  Aside(p)
<1> DEFINE job == [Idle EXCEPT !.pc = "asking", !.rule = rule]
<1>1. job \in Job /\ job.pc = "asking"
  BY DEF Idle, Job
<1>2. SetJob(p, job) /\ dirs' = dirs /\ past' = past /\ born' = born
  BY DEF Preview
<1> HIDE DEF job
<1>3. Leaves(p)
  BY <1>1, <1>2, SetBecomes DEF Leaves, Making, Scoring, Removal
<1> QED
  BY <1>2, <1>3, LeavesAside

\* The sweep of `runs clean` begins, or not.
LEMMA ConfirmDoes ==
  ASSUME Shape, NEW p \in Procs, Confirm(p)
  PROVE  Aside(p)
<1> DEFINE job == Sweep(jobs[p].rule, NoId)
<1>1. job \in Job /\ job.pc \notin Making \cup Scoring \cup Removal
  BY SweepIsAJob
<1>2. /\ \/ SetJob(p, Idle) /\ past' = past
         \/ SetJob(p, job) /\ CountRemains
      /\ dirs' = dirs /\ born' = born
  BY DEF Confirm
<1> HIDE DEF job
<1>3. CASE SetJob(p, Idle) /\ past' = past
  BY <1>2, <1>3, ToIdle, LeavesAside
<1>4. CASE SetJob(p, job) /\ CountRemains
  <2>1. Leaves(p)
    BY <1>1, <1>4, SetBecomes DEF Leaves
  <2> QED
    BY <1>2, <1>4, <2>1, CountsRemains DEF Aside
<1> QED
  BY <1>2, <1>3, <1>4

\* A killed process leaves everything where it is.
LEMMA KillDoes ==
  ASSUME Shape, NEW p \in Procs, Kill(p)
  PROVE  Aside(p)
  BY ToIdle, LeavesAside DEF Kill

\* The sweep's next turn.
LEMMA NextTurnIsAJob ==
  ASSUME NEW job \in Job
  PROVE  NextTurn(job) \in Job /\ NextTurn(job).pc = "pruning"
         /\ NextTurn(job).pc \notin Making \cup Scoring \cup Removal
<1> DEFINE a == [job EXCEPT !.pc = "pruning"]
           b == [a EXCEPT !.doomed = job.doomed \ {job.id}]
           c == [b EXCEPT !.stale = job.stale \ {job.id}]
           d == [c EXCEPT !.files = {}]
           e == [d EXCEPT !.id = NoId]
<1>1. a \in Job /\ a.pc = "pruning"
  BY DEF Job
<1>2. b \in Job /\ b.pc = "pruning"
  <2>1. job.doomed \ {job.id} \in SUBSET Ids
    BY DEF Job
  <2> HIDE DEF a
  <2> QED
    BY <1>1, <2>1 DEF Job
<1>3. c \in Job /\ c.pc = "pruning"
  <2>1. job.stale \ {job.id} \in SUBSET Ids
    BY DEF Job
  <2> HIDE DEF b
  <2> QED
    BY <1>2, <2>1 DEF Job
<1>4. d \in Job /\ d.pc = "pruning"
  <2> HIDE DEF c
  <2> QED
    BY <1>3 DEF Job
<1>5. e \in Job /\ e.pc = "pruning"
  <2> HIDE DEF d
  <2> QED
    BY <1>4 DEF Job
<1>6. NextTurn(job) = e
  BY DEF NextTurn
<1> QED
  BY <1>5, <1>6 DEF Making, Scoring, Removal

\* A process that takes its next turn leaves its run.
LEMMA TurnsLeave ==
  ASSUME Shape, NEW p \in Procs, NEW job \in Job, SetJob(p, NextTurn(job))
  PROVE  Leaves(p)
  BY NextTurnIsAJob, SetBecomes DEF Leaves

\* A sweep condemns no run it finds in progress.
LEMMA JudgeOneDoes ==
  ASSUME Shape, NEW p \in Procs, JudgeOne(p)
  PROVE  Aside(p)
<1> DEFINE n == CHOOSE m \in jobs[p].doomed : \A k \in jobs[p].doomed : m <= k
           turn == [jobs[p] EXCEPT !.id = n]
           job == [turn EXCEPT !.pc = "condemned"]
<1>1. jobs[p].pc = "pruning" /\ jobs[p].doomed # {} /\ dirs' = dirs /\ born' = born /\ past' = past
  BY DEF JudgeOne
<1>2. jobs[p] \in Job /\ jobs[p].doomed \in SUBSET Ids
  BY DEF Shape, Job
<1>3. n \in Ids
  BY <1>1, <1>2, TurnIsOfTheList
<1>4. \/ SetJob(p, NextTurn(turn))
      \/ SetJob(p, job) /\ ~Spared(jobs[p], n)
  BY DEF JudgeOne
<1> HIDE DEF n
<1>5. turn \in Job /\ turn.id = n
  BY <1>2, <1>3 DEF Job
<1> HIDE DEF turn
<1>6. job \in Job /\ job.pc = "condemned" /\ job.id = n
  BY <1>5 DEF Job, Removal
<1> HIDE DEF job
<1>7. CASE SetJob(p, NextTurn(turn))
  BY <1>1, <1>5, <1>7, TurnsLeave, LeavesAside
<1>8. CASE SetJob(p, job) /\ ~Spared(jobs[p], n)
  <2>1. ~InProgress(n)
    BY <1>8 DEF Spared
  <2>2. Becomes(p, job)
    BY <1>6, <1>8, SetBecomes
  <2>3. Leaves(p)
    BY <1>1, <1>3, <1>6, <2>1, <2>2 DEF Leaves, Making, Scoring
  <2> QED
    BY <1>1, <2>3, LeavesAside
<1> QED
  BY <1>4, <1>7, <1>8

\* The steps of rmtree that touch nothing.
LEMMA RemovalAside ==
  ASSUME Shape, NEW p \in Procs,
         \/ ListFiles(p) \/ RemovalFails(p)
         \/ \E f \in Files : UnlinkGone(p, f)
         \/ RemoveDirectory(p) /\ dirs' = dirs /\ past' = past
  PROVE  Aside(p)
<1> DEFINE id == jobs[p].id
           removing == [jobs[p] EXCEPT !.pc = "removing", !.files = FilesOf(id)]
           rest(f) == [jobs[p] EXCEPT !.files = @ \ {f}]
<1>1. jobs[p] \in Job
  BY DEF Shape
<1>2. jobs[p].pc \in Removal /\ dirs' = dirs /\ born' = born /\ past' = past
  BY DEF ListFiles, RemovalFails, UnlinkGone, RemoveDirectory, Removal
<1>3. id \in Ids
  BY <1>2 DEF Shape
<1>4. FilesOf(id) \in SUBSET Files
  BY DEF FilesOf
<1>5. removing \in Job /\ removing.pc \in Removal /\ removing.id = id
  BY <1>1, <1>4 DEF Job, Removal
<1>6. \A f : rest(f) \in Job /\ rest(f).pc \in Removal /\ rest(f).id = id
  BY <1>1, <1>2 DEF Job
<1>7. \/ SetJob(p, NextTurn(jobs[p])) \/ SetJob(p, removing)
      \/ \E f \in Files : SetJob(p, rest(f))
  BY DEF ListFiles, RemovalFails, UnlinkGone, RemoveDirectory
<1> HIDE DEF removing, rest
<1>8. \A job \in Job : job.pc \in Removal /\ job.id = id /\ SetJob(p, job) => Leaves(p)
  <2> SUFFICES ASSUME NEW job \in Job, job.pc \in Removal, job.id = id, SetJob(p, job) PROVE Leaves(p)
    OBVIOUS
  <2>1. Becomes(p, job)
    BY SetBecomes
  <2> QED
    BY <1>2, <1>3, <2>1 DEF Leaves, Making, Scoring, Removal
<1>9. Leaves(p)
  BY <1>1, <1>5, <1>6, <1>7, <1>8, TurnsLeave
<1> QED
  BY <1>2, <1>9, LeavesAside

\* What Evict notes.
LEMMA EvictNotes ==
  ASSUME Shape, NEW p \in Procs, jobs[p].id \in Ids, NEW deeds \in SUBSET {"pruned"}, Evict(jobs[p], deeds)
  PROVE  \E all \in SUBSET {"evicted", "pruned", "outdated"} :
           /\ "evicted" \in all /\ deeds \subseteq all
           /\ past' = [past EXCEPT ![jobs[p].id] = @ \cup all]
           /\ "outdated" \notin all => jobs[p].id \notin jobs[p].stale
<1> DEFINE all == {"evicted"} \cup deeds \cup (IF jobs[p].id \in jobs[p].stale THEN {"outdated"} ELSE {})
<1>1. past' = [past EXCEPT ![jobs[p].id] = @ \cup all]
  BY DEF Evict, Shape
<1>2. /\ all \in SUBSET {"evicted", "pruned", "outdated"} /\ "evicted" \in all /\ deeds \subseteq all
      /\ "outdated" \notin all => jobs[p].id \notin jobs[p].stale
  OBVIOUS
<1> HIDE DEF all
<1> QED
  BY <1>1, <1>2

\* A file is removed.
LEMMA UnlinkDoes ==
  ASSUME Shape, NEW p \in Procs, NEW f \in Files, Unlink(p, f)
  PROVE  \E deeds : Takes(p, jobs[p].id, deeds)
<1> DEFINE n == jobs[p].id
           rest == [jobs[p] EXCEPT !.files = @ \ {f}, !.doomed = @ \ {n}, !.stale = @ \ {n}]
           used == IF f = "raw.jsonl" /\ Users(n) # {} THEN {"pruned"} ELSE {}
<1>1. /\ jobs[p].pc = "removing" /\ jobs[p].pc \in Removal /\ born' = born /\ n \in Present /\ n \in Ids
      /\ jobs[p] \in Job
  BY DEF Unlink, Removal, Shape
<1>2. Touch(p, n, rest) /\ Evict(jobs[p], used)
  BY DEF Unlink
<1>3. rest \in Job /\ rest.pc = "removing" /\ rest.id = n
  BY <1>1 DEF Job
<1> HIDE DEF rest
<1>4. Leaves(p)
  <2>1. Becomes(p, rest)
    BY <1>1, <1>2, <1>3, TouchBecomes
  <2> QED
    BY <1>1, <1>3, <2>1 DEF Leaves, Making, Scoring, Removal
<1>5. used \in SUBSET {"pruned"} /\ (f = "raw.jsonl" /\ Users(n) # {} => "pruned" \in used)
  OBVIOUS
<1> HIDE DEF used
<1>6. PICK deeds \in SUBSET {"evicted", "pruned", "outdated"} :
        /\ "evicted" \in deeds /\ used \subseteq deeds
        /\ past' = [past EXCEPT ![n] = @ \cup deeds]
  BY <1>1, <1>2, <1>5, EvictNotes
<1>7. dirs[n] \in Run /\ (dirs[n].raw = "none" => dirs[n].rows = NoRows) /\ NoRows \in [Items -> Seq(Models)]
  BY <1>1 DEF Shape, Present, NoRows
<1>8. CASE f = "state.json"
  <2> DEFINE run == [dirs[n] EXCEPT !.state = NoState]
  <2>1. dirs' = [dirs EXCEPT ![n] = run]
    BY <1>8 DEF Unlink
  <2>2. run \in Run /\ run.state = NoState /\ run.raw = dirs[n].raw /\ run.rows = dirs[n].rows /\ run.suite = dirs[n].suite
    BY <1>7 DEF Run
  <2> HIDE DEF run
  <2>3. Writes(n, NoState, dirs[n].raw, dirs[n].rows)
    BY <1>7, <2>1, <2>2 DEF Writes
  <2> QED
    BY <1>1, <1>4, <1>6, <2>3 DEF Takes
<1>9. CASE f = "raw.jsonl"
  <2> DEFINE run == [dirs[n] EXCEPT !.raw = "none", !.rows = NoRows]
  <2>1. dirs' = [dirs EXCEPT ![n] = run]
    BY <1>9 DEF Unlink
  <2>2. run \in Run /\ run.state = dirs[n].state /\ run.raw = "none" /\ run.rows = NoRows /\ run.suite = dirs[n].suite
    BY <1>7 DEF Run, Tails
  <2> HIDE DEF run
  <2>3. Writes(n, dirs[n].state, "none", NoRows)
    BY <1>7, <2>1, <2>2 DEF Writes
  <2>4. Users(n) # {} => "pruned" \in deeds
    BY <1>5, <1>6, <1>9
  <2> QED
    BY <1>1, <1>4, <1>6, <2>3, <2>4 DEF Takes
<1> QED
  BY <1>8, <1>9 DEF Files

\* The directory goes once it is empty; if it is not, nothing does.
LEMMA RemoveDirectoryDoes ==
  ASSUME Shape, NEW p \in Procs, RemoveDirectory(p)
  PROVE  Aside(p) \/ \E deeds : Takes(p, jobs[p].id, deeds)
<1> DEFINE n == jobs[p].id
<1>1. /\ jobs[p].pc \in Removal /\ born' = born /\ n \in Ids /\ jobs[p] \in Job
      /\ SetJob(p, NextTurn(jobs[p]))
  BY DEF RemoveDirectory, Removal, Shape
<1>2. CASE n \in Present /\ FilesOf(n) = {}
  <2>1. dirs' = [dirs EXCEPT ![n] = Absent] /\ Evict(jobs[p], {})
    BY <1>2 DEF RemoveDirectory, Gone
  <2>2. PICK deeds \in SUBSET {"evicted", "pruned", "outdated"} :
          /\ "evicted" \in deeds
          /\ past' = [past EXCEPT ![n] = @ \cup deeds]
    BY <1>1, <2>1, EvictNotes
  <2>3. dirs[n].raw = "none" /\ dirs[n].state = NoState
    BY <1>2 DEF FilesOf, Files
  <2>4. RowsOf(n) = NoRows /\ ~Readable(n)
    BY <1>2, <2>3 DEF Shape, RowsOf, Readable
  <2>5. Leaves(p)
    BY <1>1, TurnsLeave
  <2> QED
    BY <1>1, <1>2, <2>1, <2>2, <2>4, <2>5 DEF Takes
<1>3. CASE ~(n \in Present /\ FilesOf(n) = {})
  <2>1. dirs' = dirs /\ past' = past
    BY <1>3 DEF RemoveDirectory
  <2> QED
    BY <2>1, RemovalAside
<1> QED
  BY <1>2, <1>3

\* p begins to evaluate n and holds its state; of one in progress that is noted.
Reads(p, n) ==
  \E job \in Job :
    /\ n \in Ids /\ Readable(n) /\ Recorded(n) # {} /\ dirs' = dirs /\ born' = born
    /\ Becomes(p, job) /\ job.pc = "scoring" /\ job.id = n
    /\ job.suite = dirs[n].suite /\ job.state = dirs[n].state
    /\ past' = [past EXCEPT ![n] = @ \cup (IF InProgress(n) THEN {"early"} ELSE {})]

\* An evaluation begins, or there is nothing to evaluate.
LEMMA ReadRunDoes ==
  ASSUME Shape, NEW p \in Procs, NEW n \in Ids \cup {NoId}, ReadRun(p, n)
  PROVE  Aside(p) \/ Reads(p, n)
<1> DEFINE job == [Idle EXCEPT !.pc = "scoring", !.id = n, !.suite = dirs[n].suite, !.state = dirs[n].state]
<1>1. dirs' = dirs /\ born' = born
  BY DEF ReadRun
<1>2. CASE Scorable(n)
  <2>1. n \in Ids /\ Readable(n) /\ Recorded(n) # {} /\ dirs[n] \in Run /\ dirs[n].state \in RunState
    BY <1>2 DEF Scorable, Readable, Present, Shape, Run
  <2>2. /\ job \in Job /\ job.pc = "scoring" /\ job.id = n
        /\ job.suite = dirs[n].suite /\ job.state = dirs[n].state
    BY <2>1 DEF Idle, Job, Scoring, Run
  <2>3. SetJob(p, job) /\ Note(n, "early", InProgress(n))
    BY <1>2 DEF ReadRun
  <2>4. past' = [past EXCEPT ![n] = @ \cup (IF InProgress(n) THEN {"early"} ELSE {})]
    BY <2>1, <2>3 DEF Note, Shape
  <2> HIDE DEF job
  <2>5. Becomes(p, job)
    BY <2>2, <2>3, SetBecomes
  <2> QED
    BY <1>1, <2>1, <2>2, <2>4, <2>5 DEF Reads
<1>3. CASE ~Scorable(n)
  <2>1. SetJob(p, Idle) /\ past' = past
    BY <1>3 DEF ReadRun
  <2> QED
    BY <1>1, <2>1, ToIdle, LeavesAside
<1> QED
  BY <1>2, <1>3

\* After the sweep of `compare` its own run is evaluated.
LEMMA PruneEndsDoes ==
  ASSUME Shape, NEW p \in Procs, PruneEnds(p)
  PROVE  Aside(p) \/ \E n \in Ids : Reads(p, n)
<1>1. jobs[p].keep \in Ids \cup {NoId}
  BY DEF Shape, Job
<1>2. CASE ReadRun(p, jobs[p].keep)
  BY <1>1, <1>2, ReadRunDoes DEF Reads
<1>3. CASE SetJob(p, Idle) /\ dirs' = dirs /\ born' = born /\ past' = past
  BY <1>3, ToIdle, LeavesAside
<1> QED
  BY <1>2, <1>3 DEF PruneEnds

\* scores.jsonl, if the directory is still there.
LEMMA WriteScoresDoes ==
  ASSUME Shape, NEW p \in Procs, WriteScores(p)
  PROVE  \/ Aside(p)
         \/ jobs[p].pc \in Scoring /\ dirs' = dirs /\ past' = past /\ born' = born /\ GoesOn(p, jobs[p].todo)
<1> DEFINE job == [jobs[p] EXCEPT !.pc = "scored"]
<1>1. jobs[p].pc \in Making \cup Scoring /\ jobs[p].pc \in Scoring /\ dirs' = dirs /\ past' = past /\ born' = born
  BY DEF WriteScores, Scoring
<1>2. jobs[p] \in Job /\ jobs[p].id \in Ids
  BY <1>1, WorkIsOfARun DEF Shape
<1>3. /\ job \in Job /\ job.pc = "scored" /\ job.todo = jobs[p].todo /\ job.id = jobs[p].id
      /\ job.suite = jobs[p].suite /\ job.state = jobs[p].state /\ job.models = jobs[p].models
  BY <1>2 DEF Job, Scoring
<1>4. Touch(p, jobs[p].id, job) \/ SetJob(p, job) \/ SetJob(p, Idle)
  BY DEF WriteScores
<1> HIDE DEF job
<1>5. CASE SetJob(p, Idle)
  BY <1>1, <1>5, ToIdle, LeavesAside
<1>6. CASE Touch(p, jobs[p].id, job) \/ SetJob(p, job)
  <2>1. Becomes(p, job)
    BY <1>2, <1>3, <1>6, TouchBecomes, SetBecomes
  <2> QED
    BY <1>1, <1>3, <2>1 DEF GoesOn
<1> QED
  BY <1>4, <1>5, <1>6

\* Time and stuttering leave runs and processes alone.
LEMMA RestDoes == ASSUME Age \/ UNCHANGED vars PROVE UNCHANGED <<dirs, born, jobs, past>>
  BY DEF Age, vars

\* A write is of one directory.
LEMMA WritesOne ==
  ASSUME Shape, NEW n \in Ids, NEW state, NEW raw, NEW rows, Writes(n, state, raw, rows)
  PROVE  /\ dirs' \in [Ids -> Run \cup {Absent}]
         /\ n \in Present' /\ dirs'[n].state = state /\ dirs'[n].raw = raw /\ dirs'[n].rows = rows
         /\ raw = "none" => rows = NoRows
         /\ \A r \in Ids \ {n} : dirs'[r] = dirs[r]
         /\ Present' = Present \cup {n}
  BY StoreAssumption DEF Shape, Writes, Present, Run

-----------------------------------------------------------------------------
(* The kinds of steps *)

\* p makes the directory of a new run.
Begins(p) ==
  \E n \in Ids \ Born, s \in Suites, m \in Models, job \in Job :
    /\ Becomes(p, job) /\ job.pc = "starting" /\ job.id = n /\ job.suite = s
    /\ job.todo = Items /\ job.models = m
    /\ job.state = [status |-> "in_progress", models |-> m]
    /\ Writes(n, NoState, "none", NoRows) /\ born' = Append(born, n) /\ past' = past

\* p takes up a run in progress.
Resumes(p) ==
  \E n \in Ids, s \in Suites, m \in Models, job \in Job :
    /\ InProgress(n) /\ dirs' = dirs /\ born' = born
    /\ Becomes(p, job) /\ job.pc = "calling" /\ job.id = n /\ job.suite = s
    /\ job.todo = Items \ Recorded(n) /\ job.models = m /\ job.state = dirs[n].state
    /\ past' = [past EXCEPT ![n] = @ \cup (IF Workers(n) # {} THEN {"shared"} ELSE {})
                                 \cup (IF m # dirs[n].state.models THEN {"remodelled"} ELSE {})]

\* p writes to its run without a row.
Rewrites(p) ==
  \E state, raw, deeds :
    /\ Works(p, state, raw, RowsOf(jobs[p].id), deeds)
    /\ Leaves(p) \/ GoesOn(p, jobs[p].todo)

\* p writes a row, which is lost if it ends up on a line that was cut.
AddsRow(p, i) ==
  \E state, raw, rows, deeds :
    /\ jobs[p].pc = "calling" /\ i \in jobs[p].todo /\ raw # "none"
    /\ Works(p, state, raw, rows, deeds) /\ GoesOn(p, jobs[p].todo \ {i})
    /\ \/ rows = RowsWith(jobs[p].id, i, jobs[p].models)
       \/ rows = RowsOf(jobs[p].id) /\ "swallowed" \in deeds

\* p has written the scores of its run, beside what the model has of it.
HasScored(p) ==
  /\ jobs[p].pc \in Scoring /\ dirs' = dirs /\ past' = past /\ born' = born
  /\ GoesOn(p, jobs[p].todo)

\* A step of p is of one of these kinds.
Does(p) ==
  \/ Aside(p) \/ Begins(p) \/ Resumes(p) \/ Rewrites(p) \/ HasScored(p)
  \/ \E i \in Items : AddsRow(p, i)
  \/ \E n \in Ids : Reads(p, n)
  \/ \E deeds : Takes(p, jobs[p].id, deeds)

\* Each action of the next-state relation is of one kind.
LEMMA Kinds ==
  ASSUME Shape, [Next]_vars
  PROVE  (\E p \in Procs : Does(p)) \/ UNCHANGED <<dirs, born, jobs, past>>
<1>1. ASSUME NEW p \in Procs, NEW s \in Suites, NEW m \in Models, MakeDirectory(p, s, m) PROVE Does(p)
  <2>1. PICK n \in Ids \ Born, job \in Job :
          /\ Becomes(p, job) /\ job.pc = "starting" /\ job.id = n /\ job.suite = s
          /\ job.todo = Items /\ job.models = m
          /\ job.state = [status |-> "in_progress", models |-> m]
          /\ Writes(n, NoState, "none", NoRows) /\ born' = Append(born, n) /\ past' = past
    BY <1>1, MakeDirectoryDoes
  <2>2. Begins(p)
    BY <2>1 DEF Begins
  <2> QED
    BY <2>2 DEF Does
<1>2. ASSUME NEW p \in Procs, NEW s \in Suites, NEW m \in Models, Resume(p, s, m) PROVE Does(p)
  BY <1>2, ResumeDoes DEF Does, Resumes
<1>3. ASSUME NEW p \in Procs, WriteFirstState(p) PROVE Does(p)
  <2>1. CASE dirs' = dirs /\ past' = past /\ Leaves(p)
    BY <1>3, <2>1, WriteFirstStateDoes, LeavesAside DEF Does
  <2> QED
    BY <1>3, <2>1, WriteFirstStateDoes DEF Does, Rewrites
<1>4. ASSUME NEW p \in Procs, NEW i \in Items, Call(p, i) PROVE Does(p)
  <2>1. AddsRow(p, i)
    BY <1>4, CallDoes DEF AddsRow
  <2> QED
    BY <2>1 DEF Does
<1>5. ASSUME NEW p \in Procs, NEW i \in Items, CallIsTorn(p, i) PROVE Does(p)
  BY <1>5, CallIsTornDoes DEF Does, Rewrites
<1>6. ASSUME NEW p \in Procs, Finish(p) PROVE Does(p)
  BY <1>6, FinishDoes DEF Does, Rewrites
<1>7. ASSUME NEW p \in Procs, PruneOldRuns(p) \/ JudgeOne(p) \/ ListFiles(p) \/ RemovalFails(p)
                              \/ Confirm(p) \/ Kill(p) \/ \E f \in Files : UnlinkGone(p, f)
      PROVE  Does(p)
  BY <1>7, PruneOldRunsDoes, JudgeOneDoes, RemovalAside, ConfirmDoes, KillDoes DEF Does
<1>8. ASSUME NEW p \in Procs, NEW rule \in CleanRules, Preview(p, rule) PROVE Does(p)
  BY <1>8, PreviewDoes DEF Does
<1>9. ASSUME NEW p \in Procs, NEW f \in Files, Unlink(p, f) PROVE Does(p)
  BY <1>9, UnlinkDoes DEF Does
<1>10. ASSUME NEW p \in Procs, RemoveDirectory(p) PROVE Does(p)
  BY <1>10, RemoveDirectoryDoes DEF Does
<1>11. ASSUME NEW p \in Procs, PruneEnds(p) PROVE Does(p)
  BY <1>11, PruneEndsDoes DEF Does
<1>12. ASSUME NEW p \in Procs, NEW n \in Ids, Evaluate(p, n) PROVE Does(p)
  BY <1>12, ReadRunDoes DEF Does, Evaluate
<1>13. ASSUME NEW p \in Procs, WriteScores(p) PROVE Does(p)
  BY <1>13, WriteScoresDoes DEF Does, HasScored
<1>14. ASSUME NEW p \in Procs, WriteCoverage(p) PROVE Does(p)
  BY <1>14, WriteCoverageDoes DEF Does, Rewrites
<1>15. CASE Age \/ UNCHANGED vars
  BY <1>15, RestDoes
<1> QED
  BY <1>1, <1>2, <1>3, <1>4, <1>5, <1>6, <1>7, <1>8, <1>9, <1>10, <1>11, <1>12, <1>13, <1>14, <1>15, Zenon
  DEF Next

-----------------------------------------------------------------------------
(* Shape *)

\* A new directory is one of those ever made.
LEMMA AppendsBorn ==
  ASSUME Shape, NEW n \in Ids, born' = Append(born, n)
  PROVE  born' \in Seq(Ids) /\ Born' = Born \cup {n}
  BY DEF Shape, Born

\* Every variable starts in its type.
LEMMA ShapeInit == Init => Shape
<1> SUFFICES ASSUME Init PROVE Shape
  OBVIOUS
<1>1. jobs \in [Procs -> Job] /\ \A p \in Procs : jobs[p].pc = "idle"
  BY IdleIsAJob DEF Init, Idle
<1> QED
  BY <1>1 DEF Init, Shape, Making, Scoring, Removal, Present, Deeds

\* The types of the directories.
DirsOk ==
  /\ dirs \in [Ids -> Run \cup {Absent}]
  /\ \A n \in Present : dirs[n].raw = "none" => dirs[n].rows = NoRows

\* The types of a job.
JobOk(job, made) ==
  /\ job.pc \in Making \cup Scoring => job.id \in made /\ job.state \in RunState /\ job.suite \in Suites
  /\ job.pc \in Making => job.models \in Models /\ job.state.status = "in_progress"
  /\ job.pc \in Removal => job.id \in Ids

\* What a step writes or removes has its types.
LEMMA WritesKeepDirs ==
  ASSUME Shape, NEW n \in Ids, NEW state, NEW raw, NEW rows,
         Writes(n, state, raw, rows) \/ dirs' = [dirs EXCEPT ![n] = Absent]
  PROVE  DirsOk' /\ Present' \subseteq Present \cup {n}
<1>1. CASE Writes(n, state, raw, rows)
  <2>1. /\ dirs' \in [Ids -> Run \cup {Absent}]
        /\ dirs'[n].raw = raw /\ dirs'[n].rows = rows
        /\ raw = "none" => rows = NoRows
        /\ \A r \in Ids \ {n} : dirs'[r] = dirs[r]
        /\ Present' = Present \cup {n}
    BY <1>1, WritesOne
  <2> QED
    BY <2>1 DEF DirsOk, Shape, Present, NoRows
<1>2. CASE dirs' = [dirs EXCEPT ![n] = Absent]
  BY <1>2 DEF DirsOk, Shape, Present, NoRows
<1> QED
  BY <1>1, <1>2

\* It is enough to look at the process that took the step.
LEMMA OneKeepsShape ==
  ASSUME Shape, NEW p \in Procs, NEW job \in Job, Becomes(p, job), JobOk(job, Born'),
         born' \in Seq(Ids), Born \subseteq Born', DirsOk', Present' \subseteq Born', past' \in [Ids -> SUBSET Deeds]
  PROVE  Shape'
<1>1. \A q \in Procs : JobOk(jobs'[q], Born')
  BY DEF Shape, Becomes, JobOk
<1> QED
  BY <1>1 DEF Shape, DirsOk, JobOk, Becomes

\* A process that goes on, or leaves its run.
LEMMA JobsKeepShape ==
  ASSUME Shape, NEW p \in Procs, born' = born, DirsOk', Present' \subseteq Born, past' \in [Ids -> SUBSET Deeds],
         Leaves(p) \/ \E todo : GoesOn(p, todo)
  PROVE  Shape'
<1>1. Born' = Born /\ born' \in Seq(Ids)
  BY DEF Born, Shape
<1>2. PICK job \in Job : Becomes(p, job) /\ JobOk(job, Born)
  <2>1. CASE Leaves(p)
    BY <2>1 DEF Leaves, JobOk
  <2>2. ASSUME NEW todo, GoesOn(p, todo) PROVE \E job \in Job : Becomes(p, job) /\ JobOk(job, Born)
    BY <2>2 DEF GoesOn, JobOk, Shape, Making, Scoring, Removal
  <2> QED
    BY <2>1, <2>2
<1> QED
  BY <1>1, <1>2, OneKeepsShape

\* Every step keeps the types and the ids of runs that are worked on.
LEMMA ShapeStep == Shape /\ [Next]_vars => Shape'
<1> SUFFICES ASSUME Shape, [Next]_vars PROVE Shape'
  OBVIOUS
<1>0. DirsOk /\ Present \subseteq Born /\ past \in [Ids -> SUBSET Deeds]
      /\ born \in Seq(Ids) /\ Born \subseteq Ids
  BY DEF Shape, DirsOk, Born
<1>00. dirs' = dirs => DirsOk' /\ Present' = Present
  BY <1>0 DEF DirsOk, Present
<1>1. ASSUME NEW p \in Procs, Aside(p) PROVE Shape'
  BY <1>0, <1>00, <1>1, JobsKeepShape DEF Aside
<1>2. ASSUME NEW p \in Procs, Begins(p) PROVE Shape'
  <2>1. PICK n \in Ids \ Born, s \in Suites, m \in Models, job \in Job :
          /\ Becomes(p, job) /\ job.pc = "starting" /\ job.id = n /\ job.suite = s
          /\ job.todo = Items /\ job.models = m
          /\ job.state = [status |-> "in_progress", models |-> m]
          /\ Writes(n, NoState, "none", NoRows) /\ born' = Append(born, n) /\ past' = past
    BY <1>2 DEF Begins
  <2>2. born' \in Seq(Ids) /\ Born' = Born \cup {n}
    BY <2>1, AppendsBorn
  <2>3. DirsOk' /\ Present' \subseteq Present \cup {n}
    BY <2>1, WritesKeepDirs
  <2>4. JobOk(job, Born')
    BY <2>1, <2>2 DEF JobOk, Making, Scoring, Removal, RunState
  <2> QED
    BY <1>0, <2>1, <2>2, <2>3, <2>4, OneKeepsShape
<1>3. ASSUME NEW p \in Procs, Resumes(p) PROVE Shape'
  <2>1. PICK n \in Ids, s \in Suites, m \in Models, job \in Job :
          /\ InProgress(n) /\ dirs' = dirs /\ born' = born
          /\ Becomes(p, job) /\ job.pc = "calling" /\ job.id = n /\ job.suite = s
          /\ job.todo = Items \ Recorded(n) /\ job.models = m /\ job.state = dirs[n].state
          /\ past' = [past EXCEPT ![n] = @ \cup (IF Workers(n) # {} THEN {"shared"} ELSE {})
                                       \cup (IF m # dirs[n].state.models THEN {"remodelled"} ELSE {})]
    BY <1>3 DEF Resumes
  <2>2. dirs[n].state \in RunState /\ dirs[n].state.status = "in_progress" /\ n \in Born
    BY <2>1 DEF Shape, InProgress, Readable, Present, Run
  <2>3. past' \in [Ids -> SUBSET Deeds]
    BY <2>1 DEF Shape, Deeds
  <2>4. Born' = Born
    BY <2>1 DEF Born
  <2>5. JobOk(job, Born')
    BY <2>1, <2>2, <2>4 DEF JobOk, Making, Scoring, Removal
  <2> QED
    BY <1>0, <1>00, <2>1, <2>3, <2>4, <2>5, OneKeepsShape
<1>4. ASSUME NEW p \in Procs, NEW state, NEW raw, NEW rows, NEW deeds, Works(p, state, raw, rows, deeds),
             Leaves(p) \/ \E todo : GoesOn(p, todo)
      PROVE  Shape'
  <2>1. jobs[p].id \in Ids /\ jobs[p].id \in Born /\ born' = born
    BY <1>4 DEF Works, Shape
  <2>2. DirsOk' /\ Present' \subseteq Present \cup {jobs[p].id}
    BY <1>4, <2>1, WritesKeepDirs DEF Works
  <2>3. past' \in [Ids -> SUBSET Deeds]
    BY <1>4 DEF Works, Shape, Deeds
  <2> QED
    BY <1>0, <1>4, <2>1, <2>2, <2>3, JobsKeepShape
<1>5. ASSUME NEW p \in Procs, Rewrites(p) \/ \E i \in Items : AddsRow(p, i) PROVE Shape'
  BY <1>4, <1>5 DEF Rewrites, AddsRow
<1>6. ASSUME NEW p \in Procs, HasScored(p) PROVE Shape'
  BY <1>0, <1>00, <1>6, JobsKeepShape DEF HasScored
<1>7. ASSUME NEW p \in Procs, NEW n \in Ids, Reads(p, n) PROVE Shape'
  <2>1. PICK job \in Job :
          /\ Readable(n) /\ dirs' = dirs /\ born' = born
          /\ Becomes(p, job) /\ job.pc = "scoring" /\ job.id = n
          /\ job.suite = dirs[n].suite /\ job.state = dirs[n].state
          /\ past' = [past EXCEPT ![n] = @ \cup (IF InProgress(n) THEN {"early"} ELSE {})]
    BY <1>7 DEF Reads
  <2>2. n \in Born /\ dirs[n].state \in RunState /\ dirs[n].suite \in Suites
    BY <2>1 DEF Shape, Readable, Present, Run
  <2>3. past' \in [Ids -> SUBSET Deeds]
    BY <2>1 DEF Shape, Deeds
  <2>4. Born' = Born
    BY <2>1 DEF Born
  <2>5. JobOk(job, Born')
    BY <2>1, <2>2, <2>4 DEF JobOk, Making, Scoring, Removal
  <2> QED
    BY <1>0, <1>00, <2>1, <2>3, <2>4, <2>5, OneKeepsShape
<1>8. ASSUME NEW p \in Procs, NEW deeds, Takes(p, jobs[p].id, deeds) PROVE Shape'
  <2>1. jobs[p].id \in Ids /\ jobs[p].id \in Present /\ born' = born /\ Leaves(p)
    BY <1>8 DEF Takes, Present
  <2>2. DirsOk' /\ Present' \subseteq Present \cup {jobs[p].id}
    BY <1>8, <2>1, WritesKeepDirs DEF Takes
  <2>3. past' \in [Ids -> SUBSET Deeds]
    BY <1>8 DEF Takes, Shape, Deeds
  <2> QED
    BY <1>0, <2>1, <2>2, <2>3, JobsKeepShape
<1>9. CASE UNCHANGED <<dirs, born, jobs, past>>
  BY <1>9 DEF Shape, Born, Present
<1> QED
  BY <1>1, <1>2, <1>3, <1>5, <1>6, <1>7, <1>8, <1>9, Kinds DEF Does

-----------------------------------------------------------------------------
(* One run *)

\* The invariant holds before the first command.
LEMMA InvInit == Init => Inv
<1> SUFFICES ASSUME Init PROVE Inv
  OBVIOUS
<1>1. Shape /\ \A p \in Procs : jobs[p].pc = "idle"
  BY ShapeInit DEF Init, Idle
<1> QED
  BY <1>1 DEF Init, Inv, Good, Exclusive, Settled, Watched, Whole, Agree, Left, Full, UnderRemoval, On,
               Makes, Scores, Making, Scoring, Completed, Readable, Present

\* What the processes other than p do about the run r is as before.
OthersStay(p, r) ==
  \A q \in Procs \ {p} :
    /\ (Makes(q, r)' <=> Makes(q, r)) /\ (Scores(q, r)' <=> Scores(q, r)) /\ (On(q, r)' <=> On(q, r))
    /\ jobs'[q].pc = jobs[q].pc /\ jobs'[q].id = jobs[q].id /\ jobs'[q].todo = jobs[q].todo
    /\ jobs'[q].state = jobs[q].state /\ jobs'[q].models = jobs[q].models

\* It is, when p's job becomes another.
LEMMA OthersWork ==
  ASSUME NEW p \in Procs, NEW job \in Job, Becomes(p, job), NEW r \in Ids
  PROVE  /\ OthersStay(p, r)
         /\ jobs'[p] = job
         /\ (Makes(p, r)' <=> (job.pc \in Making /\ job.id = r))
         /\ (Scores(p, r)' <=> (job.pc \in Scoring /\ job.id = r))
         /\ (On(p, r)' <=> (job.pc \in Making \cup Scoring /\ job.id = r))
  BY DEF OthersStay, Becomes, Makes, Scores, On

\* A directory left alone says the same of its run.
LEMMA SameDirectory ==
  ASSUME NEW r \in Ids, dirs'[r] = dirs[r]
  PROVE  /\ (Readable(r)' <=> Readable(r)) /\ (InProgress(r)' <=> InProgress(r))
         /\ (Completed(r)' <=> Completed(r)) /\ (r \in Present' <=> r \in Present)
         /\ RowsOf(r)' = RowsOf(r) /\ Missing(r)' = Missing(r)
  BY DEF Readable, InProgress, Completed, RowsOf, Missing, Present, NoRows

\* A run whose directory p's step does not change, and that p does not take up
\* or condemn while it is in progress, stays good.
LEMMA Elsewhere ==
  ASSUME NEW r \in Ids, Good(r), NEW p \in Procs, NEW job \in Job, Becomes(p, job),
         ~(job.pc \in Making \cup Scoring /\ job.id = r),
         job.pc \in Removal /\ job.id = r => ~InProgress(r) \/ (jobs[p].pc \in Removal /\ jobs[p].id = r),
         dirs'[r] = dirs[r], past'[r] = past[r] \/ past'[r] = past[r] \cup {"counted"}
  PROVE  Good(r)'
<1>1. OthersStay(p, r) /\ ~Makes(p, r)' /\ ~Scores(p, r)' /\ ~On(p, r)'
      /\ ~(jobs'[p].pc = "starting" /\ jobs'[p].id = r)
  BY OthersWork DEF Making
<1>2. /\ (Readable(r)' <=> Readable(r)) /\ (InProgress(r)' <=> InProgress(r)) /\ (Completed(r)' <=> Completed(r))
      /\ RowsOf(r)' = RowsOf(r) /\ Missing(r)' = Missing(r)
  BY SameDirectory
<1>3. \A deed \in {"shared", "early", "raced", "remodelled", "pruned", "swallowed", "evicted"} :
        deed \in past'[r] <=> deed \in past[r]
  OBVIOUS
<1>4. Exclusive(r)'
  BY <1>1, <1>2, <1>3 DEF Good, Exclusive, OthersStay
<1>5. Settled(r)'
  BY <1>1, <1>2, <1>3 DEF Good, Settled, OthersStay
<1>6. Watched(r)'
  <2>1. UnderRemoval(r)' => UnderRemoval(r) \/ ~InProgress(r)
    BY <1>1, OthersWork DEF UnderRemoval, OthersStay, Removal
  <2> QED
    BY <1>2, <1>3, <2>1 DEF Good, Watched
<1>7. Whole(r)'
  <2> SUFFICES ASSUME Unmixed(r)' PROVE Agree(r)' /\ Left(r)' /\ Full(r)'
    BY DEF Whole
  <2>1. Agree(r) /\ Left(r) /\ Full(r)
    BY <1>3 DEF Good, Whole, Unmixed
  <2>2. Agree(r)'
    BY <1>1, <1>2, <2>1 DEF Agree, OthersStay
  <2>3. Left(r)'
    BY <1>1, <1>2, <2>1 DEF Left, OthersStay
  <2>4. Full(r)'
    BY <1>1, <1>2, <1>3, <2>1 DEF Full, OthersStay
  <2> QED
    BY <2>2, <2>3, <2>4
<1> QED
  BY <1>4, <1>5, <1>6, <1>7 DEF Good

\* What a written directory says of its run.
LEMMA WrittenRun ==
  ASSUME Shape, NEW n \in Ids, NEW state, NEW raw, NEW rows, Writes(n, state, raw, rows)
  PROVE  /\ n \in Present' /\ dirs'[n].state = state /\ dirs'[n].raw = raw
         /\ (Readable(n)' <=> (state # NoState))
         /\ (InProgress(n)' <=> (state # NoState /\ state.status = "in_progress"))
         /\ (Completed(n)' <=> (state # NoState /\ state.status = "completed"))
         /\ RowsOf(n)' = rows /\ Missing(n)' = {i \in Items : rows[i] = <<>>}
         /\ rows \in [Items -> Seq(Models)] /\ state \in RunState \cup {NoState}
<1>1. /\ n \in Present' /\ dirs'[n].state = state /\ dirs'[n].rows = rows /\ dirs'[n].raw = raw
      /\ dirs' \in [Ids -> Run \cup {Absent}]
  BY WritesOne
<1>2. dirs'[n] \in Run
  BY <1>1 DEF Present
<1> QED
  BY <1>1, <1>2 DEF Readable, InProgress, Completed, RowsOf, Missing, Run

\* What there is to know of a state that is there.
LEMMA TwoStatuses ==
  ASSUME Shape, NEW n \in Ids
  PROVE  /\ Readable(n) => /\ dirs[n].state \in RunState /\ (InProgress(n) <=> ~Completed(n))
                           /\ n \in Present /\ StateOf(n) = dirs[n].state
         /\ ~Readable(n) => StateOf(n) = NoState /\ ~InProgress(n) /\ ~Completed(n)
         /\ NoState \notin RunState
         /\ RowsOf(n) \in [Items -> Seq(Models)]
  BY StoreAssumption DEF Shape, Readable, InProgress, Completed, Present, Run, RunState, StateOf, RowsOf, NoRows

\* A process that leaves a run it does not write, and that nobody notes.
LEMMA AsideKeepsGood ==
  ASSUME Inv, NEW p \in Procs, Aside(p), NEW r \in Ids
  PROVE  Good(r)'
<1>1. PICK job \in Job :
        /\ Becomes(p, job) /\ job.pc \notin Making \cup Scoring
        /\ job.pc \in Removal => \/ jobs[p].pc \in Removal /\ job.id = jobs[p].id
                                 \/ ~InProgress(job.id)
  BY DEF Aside, Leaves
<1> QED
  BY <1>1, Elsewhere DEF Aside, Inv

\* A new run has one process and nothing yet.
LEMMA BeginsKeepsGood ==
  ASSUME Inv, NEW p \in Procs, Begins(p), NEW r \in Ids
  PROVE  Good(r)'
<1>0. Shape /\ Good(r)
  BY DEF Inv
<1>1. PICK n \in Ids \ Born, m \in Models, job \in Job :
        /\ Becomes(p, job) /\ job.pc = "starting" /\ job.id = n
        /\ job.todo = Items /\ job.models = m
        /\ job.state = [status |-> "in_progress", models |-> m]
        /\ Writes(n, NoState, "none", NoRows) /\ past' = past
  BY DEF Begins
<1>2. CASE r # n
  <2>1. dirs'[r] = dirs[r]
    BY <1>0, <1>1, <1>2, WritesOne
  <2> QED
    BY <1>0, <1>1, <1>2, <2>1, Elsewhere DEF Removal
<1>3. CASE r = n
  <2>1. \A q \in Procs : ~Makes(q, n) /\ ~Scores(q, n) /\ ~On(q, n)
    BY <1>0, <1>1 DEF Shape, Makes, Scores, On
  <2>2. /\ Makes(p, n)' /\ ~Scores(p, n)' /\ On(p, n)' /\ jobs'[p] = job /\ OthersStay(p, n)
    <3>1. job.pc \in Making /\ job.pc \notin Scoring
      BY <1>1 DEF Making, Scoring
    <3> QED
      BY <1>1, <3>1, OthersWork
  <2>3. /\ ~Readable(n)' /\ ~InProgress(n)' /\ ~Completed(n)' /\ RowsOf(n)' = NoRows
        /\ Missing(n)' = {i \in Items : NoRows[i] = <<>>}
    BY <1>0, <1>1, WrittenRun
  <2>4. Missing(n)' = Items /\ \A i \in Items : NoRows[i] = <<>>
    BY <2>3 DEF NoRows
  <2>5. \A q \in Procs : On(q, n)' => q = p
    BY <2>1, <2>2 DEF OthersStay
  <2>6. \A q \in Procs : (Makes(q, n)' => q = p) /\ ~Scores(q, n)'
    BY <2>1, <2>2 DEF OthersStay
  <2>7. Exclusive(n)'
    BY <2>3, <2>5, <2>6 DEF Exclusive, On, Makes, Making
  <2>8. Settled(n)' /\ Watched(n)'
    BY <2>3, <2>6 DEF Settled, Watched
  <2>9. Agree(n)' /\ Left(n)' /\ Full(n)'
    <3>1. jobs'[p].todo = Items /\ jobs'[p].models = m /\ jobs'[p].state.models = m
      BY <1>1, <2>2
    <3>2. Agree(n)'
      BY <2>3, <2>4, <2>5 DEF Agree
    <3>3. Left(n)'
      BY <2>3, <2>4, <2>6, <3>1 DEF Left
    <3>4. Full(n)'
      BY <2>3, <2>6 DEF Full
    <3> QED
      BY <3>2, <3>3, <3>4
  <2> QED
    BY <1>3, <2>7, <2>8, <2>9 DEF Good, Whole
<1> QED
  BY <1>2, <1>3

\* Whoever resumes a run is its only process, or it is noted.
LEMMA ResumesKeepsGood ==
  ASSUME Inv, NEW p \in Procs, Resumes(p), NEW r \in Ids
  PROVE  Good(r)'
<1>0. Shape /\ Good(r)
  BY DEF Inv
<1>1. PICK n \in Ids, s \in Suites, m \in Models, job \in Job :
        /\ InProgress(n) /\ dirs' = dirs /\ born' = born
        /\ Becomes(p, job) /\ job.pc = "calling" /\ job.id = n /\ job.suite = s
        /\ job.todo = Items \ Recorded(n) /\ job.models = m /\ job.state = dirs[n].state
        /\ past' = [past EXCEPT ![n] = @ \cup (IF Workers(n) # {} THEN {"shared"} ELSE {})
                                     \cup (IF m # dirs[n].state.models THEN {"remodelled"} ELSE {})]
  BY DEF Resumes
<1>2. CASE r # n
  BY <1>0, <1>1, <1>2, Elsewhere DEF Shape, Removal
<1>3. CASE r = n
  <2>1. /\ Readable(n) /\ ~Completed(n) /\ n \in Present /\ dirs[n].state \in RunState
    BY <1>0, <1>1, TwoStatuses DEF InProgress
  <2>2. /\ (Readable(n)' <=> Readable(n)) /\ (InProgress(n)' <=> InProgress(n)) /\ (Completed(n)' <=> Completed(n))
        /\ RowsOf(n)' = RowsOf(n) /\ Missing(n)' = Missing(n) /\ dirs'[n] = dirs[n]
    BY <1>1, SameDirectory
  <2>3. /\ past[n] \subseteq past'[n] /\ (Workers(n) # {} => "shared" \in past'[n])
        /\ (m # dirs[n].state.models => "remodelled" \in past'[n])
    BY <1>0, <1>1 DEF Shape
  <2>4. \A q \in Procs : ~(jobs[q].pc = "starting" /\ jobs[q].id = n)
    BY <1>0, <1>3, <2>1 DEF Good, Exclusive
  <2>5. "shared" \notin past'[n] => \A q \in Procs : ~Makes(q, n)
    BY <2>3, <2>4 DEF Workers, Makes, Making
  <2>6. Makes(p, n)' /\ ~Scores(p, n)' /\ jobs'[p] = job /\ OthersStay(p, n)
    <3>1. job.pc \in Making /\ job.pc \notin Scoring /\ job.id = n
      BY <1>1 DEF Making, Scoring
    <3> QED
      BY <1>1, <3>1, OthersWork
  <2>7. Exclusive(n)'
    BY <1>1, <2>4, <2>5, <2>6 DEF Exclusive, OthersStay
  <2>8. Settled(n)'
    BY <1>0, <1>1, <1>3, <2>1, <2>2, <2>3, <2>5, <2>6 DEF Settled, Good, OthersStay
  <2>9. Watched(n)'
    <3>1. job.pc \notin Removal
      BY <1>1 DEF Removal
    <3>2. UnderRemoval(n)' => UnderRemoval(n)
      BY <2>6, <3>1 DEF UnderRemoval, OthersStay, Removal
    <3> QED
      BY <1>0, <1>3, <2>2, <2>3, <3>2 DEF Good, Watched
  <2>10. Whole(n)'
    <3> SUFFICES ASSUME Unmixed(n)' PROVE Agree(n)' /\ Left(n)' /\ Full(n)'
      BY DEF Whole
    <3>1. /\ Agree(n) /\ Left(n) /\ Full(n) /\ m = dirs[n].state.models
          /\ \A q \in Procs : ~Makes(q, n)
      BY <1>0, <1>3, <2>3, <2>5 DEF Unmixed, Whole, Good
    <3>2. jobs'[p].state = dirs[n].state /\ jobs'[p].models = m /\ jobs'[p].todo = Missing(n)
      BY <1>1, <2>1, <2>6 DEF Missing, Recorded, RowsOf
    <3>3. \A q \in Procs : Makes(q, n)' => q = p
      BY <2>6, <3>1 DEF OthersStay
    <3>4. \A i \in Items : RowsOf(n)[i] \in {<<>>, <<dirs[n].state.models>>}
      BY <2>1, <3>1 DEF Full
    <3>5. \A q \in Procs : On(q, n)' => jobs'[q].state.models = dirs[n].state.models
      BY <2>1, <2>6, <3>1, <3>2 DEF Agree, OthersStay
    <3>6. Agree(n)'
      BY <2>2, <3>4, <3>5 DEF Agree
    <3>7. Left(n)'
      BY <2>1, <2>2, <3>1, <3>2, <3>3 DEF Left
    <3>8. Full(n)'
      BY <2>1, <2>2, <2>6, <3>1, <3>4 DEF Full, OthersStay
    <3> QED
      BY <3>6, <3>7, <3>8
  <2> QED
    BY <1>3, <2>7, <2>8, <2>9, <2>10 DEF Good
<1> QED
  BY <1>2, <1>3

\* A process that goes on with its run or leaves it is on no other, and
\* removes none.
LEMMA GoingOn ==
  ASSUME Shape, NEW p \in Procs, jobs[p].pc \in Making \cup Scoring, NEW todo, NEW n, n = jobs[p].id,
         Leaves(p) \/ GoesOn(p, todo)
  PROVE  /\ OthersStay(p, n)
         /\ jobs'[p].pc # "starting"
         /\ Makes(p, n)' => Makes(p, n)
         /\ Scores(p, n)' => Scores(p, n)
         /\ On(p, n)' => /\ On(p, n) /\ GoesOn(p, todo)
                                  /\ jobs'[p].state = jobs[p].state /\ jobs'[p].models = jobs[p].models
                                  /\ jobs'[p].todo = todo
         /\ UnderRemoval(n)' => UnderRemoval(n)
         /\ Leaves(p) => ~On(p, n)'
<1>1. n \in Ids
  BY WorkIsOfARun
<1>2. CASE Leaves(p)
  <2>1. PICK job \in Job : Becomes(p, job) /\ job.pc \notin Making \cup Scoring /\ job.pc \notin Removal
    BY <1>2 DEF Leaves, Making, Scoring, Removal
  <2>2. OthersStay(p, n) /\ jobs'[p] = job
        /\ ~Makes(p, n)' /\ ~Scores(p, n)' /\ ~On(p, n)'
    BY <1>1, <2>1, OthersWork
  <2>3. UnderRemoval(n)' => UnderRemoval(n)
    BY <2>1, <2>2 DEF UnderRemoval, OthersStay, Removal
  <2> QED
    BY <2>1, <2>2, <2>3 DEF Making
<1>3. CASE GoesOn(p, todo)
  <2>1. PICK job \in Job :
          /\ Becomes(p, job) /\ job.todo = todo
          /\ \/ jobs[p].pc \in Making /\ job.pc = "calling"
             \/ jobs[p].pc \in Scoring /\ job.pc = "scored"
          /\ job.id = jobs[p].id /\ job.suite = jobs[p].suite
          /\ job.state = jobs[p].state /\ job.models = jobs[p].models
    BY <1>3 DEF GoesOn
  <2>2. OthersStay(p, n) /\ jobs'[p] = job
    BY <1>1, <2>1, OthersWork
  <2>3. UnderRemoval(n)' => UnderRemoval(n)
    BY <2>1, <2>2 DEF UnderRemoval, OthersStay
  <2>4. jobs'[p].pc \notin Removal /\ jobs'[p].pc # "starting" /\ jobs[p].pc \notin Removal
    BY <2>1, <2>2 DEF Making, Scoring, Removal
  <2>5. ~Leaves(p)
    BY <2>1, <2>2 DEF Leaves, Becomes, Making, Scoring
  <2> QED
    BY <1>3, <2>1, <2>2, <2>3, <2>4, <2>5 DEF Makes, Scores, On, Making, Scoring
<1> QED
  BY <1>2, <1>3

\* Whoever writes to its run does not disturb who else is on it.
LEMMA WorkKeepsWatch ==
  ASSUME Inv, NEW p \in Procs, NEW n \in Ids, n = jobs[p].id, NEW state, NEW raw, NEW rows, NEW deeds, NEW todo,
         Works(p, state, raw, rows, deeds), Leaves(p) \/ GoesOn(p, todo)
  PROVE  Exclusive(n)' /\ Settled(n)' /\ Watched(n)'
<1>0. Shape /\ Good(n) /\ On(p, n) /\ jobs[p].pc \in Making \cup Scoring
      /\ (Makes(p, n) <=> jobs[p].pc \in Making) /\ (Scores(p, n) <=> jobs[p].pc \in Scoring)
  BY DEF Inv, Works, On, Makes, Scores
<1>1. /\ OthersStay(p, n) /\ jobs'[p].pc # "starting"
      /\ (Makes(p, n)' => Makes(p, n)) /\ (Scores(p, n)' => Scores(p, n))
      /\ (On(p, n)' => jobs'[p].state = jobs[p].state)
      /\ UnderRemoval(n)' => UnderRemoval(n)
      /\ Leaves(p) => ~On(p, n)'
  BY <1>0, GoingOn
<1>2. /\ (Readable(n)' <=> (state # NoState))
      /\ (InProgress(n)' <=> (state # NoState /\ state.status = "in_progress"))
      /\ (Completed(n)' <=> (state # NoState /\ state.status = "completed"))
  BY <1>0, WrittenRun DEF Works
<1>3. /\ \/ jobs[p].pc \in Making /\ state = StateOf(n)
         \/ state = jobs[p].state /\ (state.status = "completed" \/ (UnderRemoval(n) => "raced" \in deeds))
         \/ /\ jobs[p].pc \in Making /\ jobs[p].todo = {} /\ Leaves(p)
            /\ state = [jobs[p].state EXCEPT !.status = "completed"]
      /\ past' = [past EXCEPT ![n] = @ \cup deeds] /\ deeds \in SUBSET {"swallowed", "raced"}
  BY DEF Works
<1>4. jobs[p].state \in RunState /\ (jobs[p].pc \in Making => jobs[p].state.status = "in_progress")
  BY <1>0 DEF Shape
<1>5. [jobs[p].state EXCEPT !.status = "completed"].status = "completed"
  BY <1>4 DEF RunState
<1>6. past'[n] = past[n] \cup deeds
  BY <1>0, <1>3 DEF Shape
<1>7. \A q \in Procs : Makes(q, n)' => Makes(q, n)
  BY <1>1 DEF OthersStay
<1>8. \A q \in Procs : Scores(q, n)' => Scores(q, n) /\ jobs'[q].state = jobs[q].state
  BY <1>1 DEF OthersStay, On
<1>9. /\ state = StateOf(n) /\ state # NoState => Readable(n) /\ dirs[n].state = state
      /\ NoState \notin RunState
  BY <1>0, TwoStatuses
<1>10. Exclusive(n)'
  <2>1. \A q \in Procs : jobs'[q].pc = "starting" => jobs'[q].id # n
    BY <1>0, <1>1 DEF OthersStay, Good, Exclusive
  <2>2. "shared" \notin past'[n] => \A q, o \in Procs : Makes(q, n) /\ Makes(o, n) => q = o
    BY <1>0, <1>6 DEF Good, Exclusive
  <2> QED
    BY <1>7, <2>1, <2>2 DEF Exclusive
<1>11. Settled(n)'
  <2> SUFFICES ASSUME "shared" \notin past'[n], "early" \notin past'[n], NEW q \in Procs
               PROVE  /\ Makes(q, n)' => ~Completed(n)'
                      /\ Scores(q, n)' => /\ ~InProgress(n)' /\ jobs'[q].state.status = "completed"
                                          /\ \A o \in Procs : ~Makes(o, n)'
    BY DEF Settled
  <2>1. \A o \in Procs :
          /\ Makes(o, n) => ~Completed(n)
          /\ Scores(o, n) => /\ ~InProgress(n) /\ jobs[o].state.status = "completed"
                             /\ \A w \in Procs : ~Makes(w, n)
    BY <1>0, <1>6 DEF Good, Settled
  <2>2. \A o, w \in Procs : Makes(o, n) /\ Makes(w, n) => o = w
    BY <1>0, <1>6 DEF Good, Exclusive
  <2>3. CASE jobs[p].pc \in Making /\ state = StateOf(n)
    BY <1>0, <1>2, <1>7, <1>8, <1>9, <2>1, <2>3 DEF Completed, InProgress
  <2>4. CASE state = jobs[p].state
    BY <1>0, <1>2, <1>4, <1>7, <1>8, <2>1, <2>4
  <2>5. CASE jobs[p].pc \in Making /\ jobs[p].todo = {} /\ Leaves(p)
                /\ state = [jobs[p].state EXCEPT !.status = "completed"]
    <3>1. ~Makes(p, n)'
      BY <1>1, <2>5 DEF On
    <3> QED
      BY <1>0, <1>2, <1>5, <1>7, <1>8, <2>1, <2>2, <2>5, <3>1
  <2> QED
    BY <1>3, <2>3, <2>4, <2>5
<1>12. Watched(n)'
  BY <1>0, <1>1, <1>2, <1>3, <1>5, <1>6, <1>9 DEF Good, Watched, InProgress
<1> QED
  BY <1>10, <1>11, <1>12

\* A write that leaves the rows, or loses one on a line that was cut, keeps
\* what is known of them.
LEMMA RewriteKeepsWhole ==
  ASSUME Inv, NEW p \in Procs, NEW n \in Ids, n = jobs[p].id,
         NEW state, NEW raw, NEW deeds, Works(p, state, raw, RowsOf(n), deeds),
         Leaves(p) \/ GoesOn(p, jobs[p].todo)
  PROVE  Whole(n)'
<1>0. Shape /\ Good(n) /\ On(p, n) /\ jobs[p].pc \in Making \cup Scoring
      /\ (Makes(p, n) <=> jobs[p].pc \in Making) /\ (Scores(p, n) <=> jobs[p].pc \in Scoring)
  BY DEF Inv, Works, On, Makes, Scores
<1>1. /\ OthersStay(p, n)
      /\ (Makes(p, n)' => Makes(p, n)) /\ (Scores(p, n)' => Scores(p, n))
      /\ On(p, n)' => /\ On(p, n) /\ jobs'[p].state = jobs[p].state
                      /\ jobs'[p].models = jobs[p].models /\ jobs'[p].todo = jobs[p].todo
      /\ Leaves(p) => ~On(p, n)'
  BY <1>0, GoingOn
<1>2. /\ (Readable(n)' <=> (state # NoState)) /\ dirs'[n].state = state
      /\ (Completed(n)' <=> (state # NoState /\ state.status = "completed"))
      /\ RowsOf(n)' = RowsOf(n) /\ Missing(n)' = Missing(n)
  BY <1>0, WrittenRun DEF Works, Missing
<1>3. /\ \/ jobs[p].pc \in Making /\ state = StateOf(n)
         \/ state = jobs[p].state
         \/ /\ jobs[p].pc \in Making /\ jobs[p].todo = {} /\ Leaves(p)
            /\ state = [jobs[p].state EXCEPT !.status = "completed"]
      /\ past' = [past EXCEPT ![n] = @ \cup deeds]
  BY DEF Works
<1>4. jobs[p].state \in RunState /\ (jobs[p].pc \in Making => jobs[p].state.status = "in_progress")
  BY <1>0 DEF Shape
<1>5. [jobs[p].state EXCEPT !.status = "completed"].models = jobs[p].state.models
  BY <1>4 DEF RunState
<1>6. past'[n] = past[n] \cup deeds
  BY <1>0, <1>3 DEF Shape
<1>7. \A q \in Procs :
        /\ Makes(q, n)' => Makes(q, n) /\ jobs'[q].todo = jobs[q].todo /\ jobs'[q].models = jobs[q].models
        /\ On(q, n)' => On(q, n) /\ jobs'[q].state = jobs[q].state
        /\ Scores(q, n)' => Scores(q, n)
  BY <1>1 DEF OthersStay, On
<1>8. /\ state = StateOf(n) /\ state # NoState => Readable(n) /\ dirs[n].state = state
      /\ NoState \notin RunState
  BY <1>0, TwoStatuses
<1> SUFFICES ASSUME Unmixed(n)' PROVE Agree(n)' /\ Left(n)' /\ Full(n)'
  BY DEF Whole
<1>9. Agree(n) /\ Left(n) /\ Full(n)
  BY <1>0, <1>6 DEF Good, Whole, Unmixed
<1>10. Readable(n)' => dirs'[n].state.models = jobs[p].state.models
  <2>1. CASE jobs[p].pc \in Making /\ state = StateOf(n)
    BY <1>0, <1>2, <1>8, <1>9, <2>1 DEF Agree
  <2> QED
    BY <1>2, <1>3, <1>5, <2>1
<1>11. Completed(n)' => Missing(n) = {}
  <2>1. CASE jobs[p].pc \in Making /\ state = StateOf(n)
    BY <1>0, <1>2, <1>8, <1>9, <2>1 DEF Left, Completed
  <2>2. CASE state = jobs[p].state
    BY <1>0, <1>2, <1>4, <1>9, <2>2 DEF Full
  <2>3. CASE jobs[p].pc \in Making /\ jobs[p].todo = {}
    BY <1>0, <1>9, <2>3 DEF Left
  <2> QED
    BY <1>3, <2>1, <2>2, <2>3
<1>12. \A i \in Items : RowsOf(n)[i] \in {<<>>, <<jobs[p].state.models>>}
  BY <1>0, <1>9 DEF Agree
<1>13. \A q \in Procs : On(q, n)' => jobs'[q].state.models = jobs[p].state.models
  BY <1>0, <1>7, <1>9 DEF Agree
<1>14. Agree(n)'
  BY <1>2, <1>10, <1>12, <1>13 DEF Agree
<1>15. Left(n)'
  BY <1>2, <1>7, <1>9, <1>11 DEF Left, On
<1>16. Full(n)'
  BY <1>2, <1>7, <1>9, <1>10, <1>11, <1>12 DEF Full, On
<1> QED
  BY <1>14, <1>15, <1>16

\* A row that is written is of an item that had none, and of the run's models.
LEMMA RowKeepsWhole ==
  ASSUME Inv, NEW p \in Procs, NEW n \in Ids, n = jobs[p].id, NEW i \in Items,
         jobs[p].pc = "calling", i \in jobs[p].todo,
         NEW state, NEW raw, NEW deeds, Works(p, state, raw, RowsWith(n, i, jobs[p].models), deeds),
         GoesOn(p, jobs[p].todo \ {i})
  PROVE  Whole(n)'
<1> DEFINE rows == RowsWith(n, i, jobs[p].models)
<1>0. Shape /\ Good(n) /\ On(p, n) /\ jobs[p].pc \in Making /\ Makes(p, n) /\ ~Scores(p, n)
      /\ jobs[p].pc \in Making \cup Scoring
  BY DEF Inv, On, Makes, Scores, Making, Scoring
<1>1. /\ OthersStay(p, n) /\ (Scores(p, n)' => Scores(p, n))
      /\ On(p, n)' => /\ jobs'[p].state = jobs[p].state
                      /\ jobs'[p].models = jobs[p].models /\ jobs'[p].todo = jobs[p].todo \ {i}
      /\ Leaves(p) => ~On(p, n)'
  BY <1>0, GoingOn
<1>2. /\ (Readable(n)' <=> (state # NoState)) /\ dirs'[n].state = state
      /\ (Completed(n)' <=> (state # NoState /\ state.status = "completed"))
      /\ RowsOf(n)' = rows /\ Missing(n)' = {k \in Items : rows[k] = <<>>}
  BY <1>0, WrittenRun DEF Works
<1>3. /\ \/ state = StateOf(n)
         \/ state = jobs[p].state
         \/ jobs[p].todo = {}
      /\ past' = [past EXCEPT ![n] = @ \cup deeds]
  BY DEF Works
<1>4. jobs[p].state \in RunState /\ jobs[p].state.status = "in_progress"
      /\ RowsOf(n) \in [Items -> Seq(Models)] /\ NoState \notin RunState /\ jobs[p].models \in Models
  BY <1>0, TwoStatuses DEF Shape
<1>5. rows = [RowsOf(n) EXCEPT ![i] = Append(RowsOf(n)[i], jobs[p].models)]
  BY <1>4 DEF RowsWith
<1>6. past'[n] = past[n] \cup deeds
  BY <1>0, <1>3 DEF Shape
<1>8. state = StateOf(n) /\ state # NoState => Readable(n) /\ dirs[n].state = state
  BY <1>0, TwoStatuses
<1> HIDE DEF rows
<1> SUFFICES ASSUME Unmixed(n)' PROVE Agree(n)' /\ Left(n)' /\ Full(n)'
  BY DEF Whole
<1>9. Agree(n) /\ Left(n) /\ Full(n) /\ "shared" \notin past[n]
  BY <1>0, <1>6 DEF Good, Whole, Unmixed
<1>10. /\ jobs[p].todo = Missing(n) /\ jobs[p].state.models = jobs[p].models
       /\ \A k \in Items : RowsOf(n)[k] \in {<<>>, <<jobs[p].models>>}
       /\ Readable(n) => dirs[n].state.models = jobs[p].models
       /\ \A q \in Procs : On(q, n) => jobs[q].state.models = jobs[p].models
  BY <1>0, <1>9 DEF Agree, Left
<1>11. RowsOf(n)[i] = <<>>
  BY <1>10 DEF Missing
<1>12. /\ rows[i] = <<jobs[p].models>> /\ \A k \in Items \ {i} : rows[k] = RowsOf(n)[k]
  BY <1>4, <1>5, <1>11
<1>13. \A k \in Items : rows[k] \in {<<>>, <<jobs[p].models>>}
  BY <1>10, <1>12
<1>14. Missing(n)' = Missing(n) \ {i}
  <2>1. <<jobs[p].models>> # <<>>
    OBVIOUS
  <2>2. {k \in Items : rows[k] = <<>>} = Missing(n) \ {i}
    BY <1>12, <2>1 DEF Missing
  <2> QED
    BY <1>2, <2>2
<1>15. ~Completed(n)' /\ (Readable(n)' => state.models = jobs[p].models)
  <2>1. ~Completed(n)
    BY <1>0, <1>9, <1>10 DEF Left
  <2> QED
    BY <1>2, <1>3, <1>4, <1>8, <1>10, <2>1 DEF Completed
<1>16. \A q \in Procs : Makes(q, n)' => q = p
  BY <1>0, <1>1, <1>9 DEF Good, Exclusive, OthersStay
<1>17. \A q \in Procs : On(q, n)' => jobs'[q].state.models = jobs[p].models
  BY <1>1, <1>10 DEF OthersStay
<1>18. Agree(n)'
  BY <1>2, <1>13, <1>15, <1>17 DEF Agree
<1>19. Left(n)'
  <2>1. (jobs'[p].state.models = jobs'[p].models /\ jobs'[p].todo = Missing(n)') \/ ~Makes(p, n)'
    BY <1>1, <1>10, <1>14 DEF On
  <2> QED
    BY <1>15, <1>16, <2>1 DEF Left
<1>20. Full(n)'
  <2>1. \A q \in Procs : Scores(q, n)' => Scores(q, n) /\ jobs'[q].state = jobs[q].state
    BY <1>0, <1>1 DEF OthersStay
  <2>2. \A q \in Procs : Scores(q, n)' => jobs'[q].state.status # "completed"
    BY <1>9, <1>10, <2>1 DEF Full
  <2> QED
    BY <1>2, <1>13, <1>15, <2>2 DEF Full
<1> QED
  BY <1>18, <1>19, <1>20

\* So a process that writes to its run keeps all that is known of it.
LEMMA WorkKeepsGood ==
  ASSUME Inv, NEW p \in Procs, Rewrites(p) \/ \E i \in Items : AddsRow(p, i), NEW r \in Ids
  PROVE  Good(r)'
<1>1. PICK state, raw, rows, deeds, todo :
        Works(p, state, raw, rows, deeds) /\ (Leaves(p) \/ GoesOn(p, todo))
  BY DEF Rewrites, AddsRow
<1>2. PICK n \in Ids : n = jobs[p].id
  BY <1>1 DEF Works
<1>3. Shape /\ Good(r) /\ Good(n)
  BY DEF Inv
<1>4. jobs[p].pc \in Making \cup Scoring /\ Writes(n, state, raw, rows)
      /\ past' = [past EXCEPT ![n] = @ \cup deeds]
  BY <1>1, <1>2 DEF Works
<1>5. CASE r # n
  <2>1. PICK job \in Job :
          /\ Becomes(p, job)
          /\ ~(job.pc \in Making \cup Scoring /\ job.id = r) /\ job.pc \notin Removal
    <3>1. CASE Leaves(p)
      BY <1>4, <3>1 DEF Leaves, Making, Scoring, Removal
    <3>2. CASE GoesOn(p, todo)
      BY <1>2, <1>4, <1>5, <3>2 DEF GoesOn, Making, Scoring, Removal
    <3> QED
      BY <1>1, <3>1, <3>2
  <2>2. dirs'[r] = dirs[r] /\ past'[r] = past[r]
    BY <1>3, <1>4, <1>5, WritesOne DEF Shape
  <2> QED
    BY <1>3, <2>1, <2>2, Elsewhere
<1>6. CASE r = n
  <2>1. Exclusive(n)' /\ Settled(n)' /\ Watched(n)'
    BY <1>1, <1>2, WorkKeepsWatch
  <2>2. CASE Rewrites(p)
    BY <1>2, <1>6, <2>1, <2>2, RewriteKeepsWhole DEF Rewrites, Good
  <2>3. ASSUME NEW i \in Items, AddsRow(p, i) PROVE Good(n)'
    <3>1. PICK state1, raw1, rows1, deeds1 :
            /\ jobs[p].pc = "calling" /\ i \in jobs[p].todo
            /\ Works(p, state1, raw1, rows1, deeds1) /\ GoesOn(p, jobs[p].todo \ {i})
            /\ \/ rows1 = RowsWith(n, i, jobs[p].models)
               \/ "swallowed" \in deeds1
      BY <1>2, <2>3 DEF AddsRow
    <3>2. CASE rows1 = RowsWith(n, i, jobs[p].models)
      BY <1>2, <2>1, <3>1, <3>2, RowKeepsWhole DEF Good
    <3>3. CASE "swallowed" \in deeds1
      <4>1. past'[n] = past[n] \cup deeds1
        BY <1>2, <1>3, <3>1 DEF Works, Shape
      <4> QED
        BY <2>1, <3>3, <4>1 DEF Good, Whole, Unmixed
    <3> QED
      BY <3>1, <3>2, <3>3
  <2> QED
    BY <1>6, <2>2, <2>3
<1> QED
  BY <1>5, <1>6

\* A process that only goes on with its run changes nothing of it.
LEMMA HasScoredKeepsGood ==
  ASSUME Inv, NEW p \in Procs, HasScored(p), NEW r \in Ids
  PROVE  Good(r)'
<1>1. PICK job \in Job :
        /\ Becomes(p, job) /\ job.pc = "scored" /\ job.id = jobs[p].id
        /\ job.state = jobs[p].state /\ jobs[p].pc \in Scoring
        /\ dirs' = dirs /\ past' = past
  BY DEF HasScored, GoesOn, Making, Scoring
<1>2. Good(r)
  BY DEF Inv
<1>3. CASE r # jobs[p].id
  BY <1>1, <1>2, <1>3, Elsewhere DEF Removal
<1>4. CASE r = jobs[p].id
  <2>1. OthersStay(p, r) /\ jobs'[p] = job /\ ~Makes(p, r)' /\ Scores(p, r) /\ On(p, r) /\ ~Makes(p, r)
    BY <1>1, <1>4, OthersWork DEF Makes, Scores, On, Making, Scoring
  <2>2. \A q \in Procs :
          /\ (Makes(q, r)' <=> Makes(q, r)) /\ (Scores(q, r)' => Scores(q, r)) /\ (On(q, r)' => On(q, r))
          /\ jobs'[q].state = jobs[q].state
          /\ Makes(q, r) => jobs'[q].todo = jobs[q].todo /\ jobs'[q].models = jobs[q].models
          /\ jobs'[q].pc = "starting" => jobs[q].pc = "starting" /\ jobs'[q].id = jobs[q].id
    BY <1>1, <2>1 DEF OthersStay
  <2>3. /\ (Readable(r)' <=> Readable(r)) /\ (InProgress(r)' <=> InProgress(r)) /\ (Completed(r)' <=> Completed(r))
        /\ RowsOf(r)' = RowsOf(r) /\ Missing(r)' = Missing(r) /\ dirs'[r] = dirs[r] /\ past'[r] = past[r]
    BY <1>1, SameDirectory
  <2>4. UnderRemoval(r)' => UnderRemoval(r)
    BY <1>1, <2>1 DEF UnderRemoval, OthersStay
  <2>5. Exclusive(r)' /\ Settled(r)' /\ Watched(r)'
    BY <1>2, <2>2, <2>3, <2>4 DEF Good, Exclusive, Settled, Watched
  <2>6. Agree(r) => Agree(r)'
    BY <2>2, <2>3 DEF Agree
  <2>7. Left(r) => Left(r)'
    BY <2>2, <2>3 DEF Left
  <2>8. Full(r) => Full(r)'
    BY <2>2, <2>3 DEF Full
  <2> QED
    BY <1>2, <2>3, <2>5, <2>6, <2>7, <2>8 DEF Good, Whole, Unmixed
<1> QED
  BY <1>3, <1>4

\* An evaluation holds what its run says of itself.
LEMMA ReadsKeepsGood ==
  ASSUME Inv, NEW p \in Procs, NEW n \in Ids, Reads(p, n), NEW r \in Ids
  PROVE  Good(r)'
<1>0. Shape /\ Good(r)
  BY DEF Inv
<1>1. PICK job \in Job :
        /\ Readable(n) /\ Recorded(n) # {} /\ dirs' = dirs
        /\ Becomes(p, job) /\ job.pc = "scoring" /\ job.id = n /\ job.state = dirs[n].state
        /\ past' = [past EXCEPT ![n] = @ \cup (IF InProgress(n) THEN {"early"} ELSE {})]
  BY DEF Reads
<1>2. CASE r # n
  BY <1>0, <1>1, <1>2, Elsewhere DEF Shape, Removal
<1>3. CASE r = n
  <2>1. /\ n \in Present /\ dirs[n].state \in RunState /\ (InProgress(n) <=> ~Completed(n))
    BY <1>0, <1>1, TwoStatuses
  <2>2. /\ (Readable(n)' <=> Readable(n)) /\ (InProgress(n)' <=> InProgress(n)) /\ (Completed(n)' <=> Completed(n))
        /\ RowsOf(n)' = RowsOf(n) /\ Missing(n)' = Missing(n) /\ dirs'[n] = dirs[n]
    BY <1>1, SameDirectory
  <2>3. /\ past[n] \subseteq past'[n] /\ (InProgress(n) => "early" \in past'[n])
        /\ past'[n] \subseteq past[n] \cup {"early"}
    BY <1>0, <1>1 DEF Shape
  <2>4. \A q \in Procs : ~(jobs[q].pc = "starting" /\ jobs[q].id = n)
    BY <1>0, <1>1, <1>3 DEF Good, Exclusive
  <2>5. ~Makes(p, n)' /\ jobs'[p] = job /\ OthersStay(p, n)
    <3>1. job.pc \notin Making
      BY <1>1 DEF Making
    <3> QED
      BY <1>1, <3>1, OthersWork
  <2>6. \A q \in Procs : Makes(q, n)' => Makes(q, n) /\ jobs'[q].todo = jobs[q].todo
                                         /\ jobs'[q].models = jobs[q].models /\ jobs'[q].state = jobs[q].state
    BY <2>5 DEF OthersStay
  <2>7. Exclusive(n)'
    BY <1>0, <1>1, <1>3, <2>3, <2>4, <2>5, <2>6 DEF Good, Exclusive, OthersStay
  <2>8. Settled(n)'
    <3> SUFFICES ASSUME "shared" \notin past'[n], "early" \notin past'[n] PROVE Settled(n)'
      BY DEF Settled
    <3>1. Completed(n) /\ ~InProgress(n) /\ dirs[n].state.status = "completed"
      BY <1>1, <2>1, <2>3 DEF Completed
    <3>2. \A q \in Procs : ~Makes(q, n)
      BY <1>0, <1>3, <2>3, <3>1 DEF Good, Settled
    <3>3. \A q \in Procs \ {p} : Scores(q, n)' => jobs'[q].state.status = "completed"
      BY <1>0, <1>3, <2>3, <2>5 DEF Good, Settled, OthersStay
    <3> QED
      BY <1>1, <2>2, <2>5, <2>6, <3>1, <3>2, <3>3 DEF Settled
  <2>9. Watched(n)'
    <3>1. job.pc \notin Removal
      BY <1>1 DEF Removal
    <3>2. UnderRemoval(n)' => UnderRemoval(n)
      BY <2>5, <3>1 DEF UnderRemoval, OthersStay, Removal
    <3> QED
      BY <1>0, <1>3, <2>2, <2>3, <3>2 DEF Good, Watched
  <2>10. Whole(n)'
    <3> SUFFICES ASSUME Unmixed(n)' PROVE Agree(n)' /\ Left(n)' /\ Full(n)'
      BY DEF Whole
    <3>1. /\ Agree(n) /\ Left(n) /\ Full(n)
      BY <1>0, <1>3, <2>3 DEF Unmixed, Whole, Good
    <3>2. \A q \in Procs : On(q, n)' => jobs'[q].state.models = dirs[n].state.models
      BY <1>1, <2>5, <3>1 DEF Agree, OthersStay
    <3>3. \A i \in Items : RowsOf(n)[i] \in {<<>>, <<dirs[n].state.models>>}
      BY <1>1, <3>1 DEF Full
    <3>4. Agree(n)'
      BY <2>2, <3>2, <3>3 DEF Agree
    <3>5. Left(n)'
      BY <2>2, <2>6, <3>1 DEF Left
    <3>6. \A q \in Procs : Scores(q, n)' /\ jobs'[q].state.status = "completed" => Missing(n) = {}
      <4>1. Completed(n) => Missing(n) = {}
        <5>1. dirs[n].raw = "none" => dirs[n].rows = NoRows
          BY <1>0, <2>1 DEF Shape
        <5>2. dirs[n].raw # "none"
          BY <1>1, <5>1 DEF Recorded, NoRows
        <5> QED
          BY <3>1, <5>2 DEF Full
      <4>2. dirs[n].state.status = "completed" => Completed(n)
        BY <1>1 DEF Completed
      <4> QED
        BY <1>1, <2>5, <3>1, <4>1, <4>2 DEF Full, OthersStay
    <3>7. Full(n)'
      BY <2>2, <2>3, <3>1, <3>3, <3>6 DEF Full
    <3> QED
      BY <3>4, <3>5, <3>7
  <2> QED
    BY <1>3, <2>7, <2>8, <2>9, <2>10 DEF Good
<1> QED
  BY <1>2, <1>3

\* What a sweep takes of a run it takes from nobody, or it is noted.
LEMMA TakesKeepsGood ==
  ASSUME Inv, NEW p \in Procs, NEW deeds, NEW n, n = jobs[p].id, Takes(p, n, deeds), NEW r \in Ids
  PROVE  Good(r)'
<1>0. Shape /\ Good(r) /\ n \in Ids /\ n \in Present
  BY DEF Inv, Takes, Present
<1>1. PICK job \in Job :
        /\ Becomes(p, job) /\ job.pc \notin Making \cup Scoring
        /\ job.pc \in Removal => job.id = n
  BY DEF Takes, Leaves, Removal
<1>2. /\ jobs[p].pc \in Removal /\ deeds \in SUBSET {"evicted", "pruned", "outdated"} /\ "evicted" \in deeds
      /\ past' = [past EXCEPT ![n] = @ \cup deeds]
      /\ \/ Writes(n, NoState, dirs[n].raw, dirs[n].rows)
         \/ Writes(n, dirs[n].state, "none", NoRows) /\ (Users(n) # {} => "pruned" \in deeds)
         \/ dirs' = [dirs EXCEPT ![n] = Absent] /\ RowsOf(n) = NoRows /\ ~Readable(n)
  BY DEF Takes
<1>3. CASE r # n
  <2>1. dirs'[r] = dirs[r] /\ past'[r] = past[r]
    BY <1>0, <1>2, <1>3, WritesOne DEF Shape
  <2> QED
    BY <1>0, <1>1, <1>3, <2>1, Elsewhere
<1>4. CASE r = n
  <2>1. OthersStay(p, n) /\ ~Makes(p, n)' /\ ~Scores(p, n)' /\ ~On(p, n)' /\ jobs'[p].pc \notin Making
    BY <1>0, <1>1, OthersWork
  <2>2. \A q \in Procs :
          /\ (Makes(q, n)' => Makes(q, n)) /\ (Scores(q, n)' => Scores(q, n)) /\ (On(q, n)' => On(q, n))
          /\ On(q, n)' => jobs'[q].state = jobs[q].state /\ jobs'[q].todo = jobs[q].todo
                          /\ jobs'[q].models = jobs[q].models
          /\ jobs'[q].pc = "starting" => jobs[q].pc = "starting" /\ jobs'[q].id = jobs[q].id
          /\ On(q, n)' => q \in Users(n) \/ (jobs[q].pc = "starting" /\ jobs[q].id = n)
    BY <2>1 DEF OthersStay, On, Makes, Scores, Making, Scoring, Users
  <2>3. \A deed \in {"shared", "early", "raced", "remodelled", "swallowed"} : deed \in past'[n] <=> deed \in past[n]
    BY <1>0, <1>2 DEF Shape
  <2>4. deeds \subseteq past'[n] /\ past[n] \subseteq past'[n]
    BY <1>0, <1>2 DEF Shape
  <2>5. /\ Readable(n)' => Readable(n) /\ dirs'[n].state = dirs[n].state
        /\ InProgress(n)' => InProgress(n)
        /\ Completed(n)' => Completed(n)
        /\ RowsOf(n)' = RowsOf(n) \/ RowsOf(n)' = NoRows
    <3>1. RowsOf(n) = dirs[n].rows
      BY <1>0 DEF RowsOf
    <3>2. CASE Writes(n, NoState, dirs[n].raw, dirs[n].rows)
      BY <1>0, <3>1, <3>2, WrittenRun
    <3>3. CASE Writes(n, dirs[n].state, "none", NoRows)
      BY <1>0, <3>3, WrittenRun DEF Readable, InProgress, Completed
    <3>4. CASE dirs' = [dirs EXCEPT ![n] = Absent]
      BY <1>0, <3>4 DEF Shape, Readable, InProgress, Completed, RowsOf, Present, NoRows
    <3> QED
      BY <1>2, <3>2, <3>3, <3>4
  <2>6. UnderRemoval(n)' => UnderRemoval(n)
    BY <1>2, <1>4, <2>1 DEF UnderRemoval, OthersStay, Removal
  <2>7. Exclusive(n)'
    BY <1>0, <1>4, <2>2, <2>3, <2>5 DEF Good, Exclusive
  <2>8. Settled(n)'
    BY <1>0, <1>4, <2>2, <2>3, <2>5 DEF Good, Settled, On
  <2>9. Watched(n)'
    BY <1>0, <1>4, <2>3, <2>5, <2>6 DEF Good, Watched
  <2>10. Whole(n)'
    <3> SUFFICES ASSUME Unmixed(n)' PROVE Agree(n)' /\ Left(n)' /\ Full(n)'
      BY DEF Whole
    <3>1. /\ Agree(n) /\ Left(n) /\ Full(n) /\ "pruned" \notin deeds
      BY <1>0, <1>4, <2>4 DEF Unmixed, Whole, Good
    <3>2. \/ Writes(n, NoState, dirs[n].raw, dirs[n].rows)
          \/ Writes(n, dirs[n].state, "none", NoRows) /\ Users(n) = {}
          \/ dirs' = [dirs EXCEPT ![n] = Absent] /\ RowsOf(n) = NoRows
      BY <1>2, <3>1
    <3>3. RowsOf(n)' = RowsOf(n) \/ (RowsOf(n)' = NoRows /\ \A q \in Procs : ~On(q, n)')
      <4>1. CASE Writes(n, NoState, dirs[n].raw, dirs[n].rows)
        BY <1>0, <4>1, WrittenRun DEF RowsOf
      <4>2. CASE Writes(n, dirs[n].state, "none", NoRows) /\ Users(n) = {}
        <5>1. RowsOf(n)' = NoRows
          BY <1>0, <4>2, WrittenRun
        <5>2. \A q \in Procs : On(q, n)' => RowsOf(n) = NoRows
          BY <1>0, <1>4, <2>2, <4>2 DEF Good, Exclusive
        <5> QED
          BY <5>1, <5>2
      <4>3. CASE dirs' = [dirs EXCEPT ![n] = Absent] /\ RowsOf(n) = NoRows
        BY <1>0, <4>3 DEF RowsOf, Present, Shape, NoRows
      <4> QED
        BY <3>2, <4>1, <4>2, <4>3
    <3>4. Readable(n)' => dirs'[n].raw = "none"
      <4>1. CASE Writes(n, NoState, dirs[n].raw, dirs[n].rows)
        BY <1>0, <4>1, WrittenRun
      <4>2. CASE Writes(n, dirs[n].state, "none", NoRows)
        BY <1>0, <4>2, WrittenRun
      <4>3. CASE dirs' = [dirs EXCEPT ![n] = Absent]
        BY <1>0, <4>3 DEF Readable, Present, Shape
      <4> QED
        BY <3>2, <4>1, <4>2, <4>3
    <3>5. Missing(n)' = {i \in Items : RowsOf(n)'[i] = <<>>} /\ Missing(n) = {i \in Items : RowsOf(n)[i] = <<>>}
      BY DEF Missing
    <3>6. \A i \in Items : NoRows[i] = <<>>
      BY DEF NoRows
    <3>7. Agree(n)'
      BY <2>2, <2>5, <3>1, <3>3 DEF Agree
    <3>8. Left(n)'
      <4>1. \A q \in Procs : Makes(q, n)' => On(q, n)'
        BY DEF On
      <4> QED
        BY <2>2, <2>5, <3>1, <3>3, <3>5, <4>1 DEF Left
    <3>9. Full(n)'
      <4>1. \A q \in Procs : Scores(q, n)' => On(q, n)'
        BY DEF On
      <4>2. Completed(n)' => "evicted" \in past'[n] /\ dirs'[n].raw = "none"
        BY <1>2, <2>4, <3>4 DEF Completed
      <4>3. \A q \in Procs : Scores(q, n)' /\ jobs'[q].state.status = "completed" => Missing(n)' = {}
        BY <2>2, <3>1, <3>3, <3>5, <4>1 DEF Full
      <4>4. Readable(n)' => \A i \in Items : RowsOf(n)'[i] \in {<<>>, <<dirs'[n].state.models>>}
        BY <2>5, <3>1, <3>3, <3>6 DEF Full
      <4> QED
        BY <4>2, <4>3, <4>4 DEF Full
    <3> QED
      BY <3>7, <3>8, <3>9
  <2> QED
    BY <1>4, <2>7, <2>8, <2>9, <2>10 DEF Good
<1> QED
  BY <1>3, <1>4

\* Every step keeps what is known of every run.
LEMMA InvStep == Inv /\ [Next]_vars => Inv'
<1> SUFFICES ASSUME Inv, [Next]_vars PROVE Inv'
  OBVIOUS
<1>1. Shape'
  BY ShapeStep DEF Inv
<1>2. ASSUME NEW r \in Ids PROVE Good(r)'
  <2>1. ASSUME NEW p \in Procs, Does(p) PROVE Good(r)'
    <3>1. ASSUME NEW deeds, Takes(p, jobs[p].id, deeds) PROVE Good(r)'
      BY <3>1, TakesKeepsGood
    <3> QED
      BY <2>1, <3>1, AsideKeepsGood, BeginsKeepsGood, ResumesKeepsGood, WorkKeepsGood, HasScoredKeepsGood,
         ReadsKeepsGood DEF Does
  <2>2. CASE UNCHANGED <<dirs, born, jobs, past>>
    <3>1. Good(r)
      BY DEF Inv
    <3> QED
      BY <2>2, <3>1 DEF Good, Exclusive, Settled, Watched, Whole, Unmixed, Agree, Left, Full, UnderRemoval,
                        On, Makes, Scores, RowsOf, Missing, InProgress, Completed, Readable, Present
  <2> QED
    BY <2>1, <2>2, Kinds DEF Inv
<1> QED
  BY <1>1, <1>2 DEF Inv

\* The invariant of all reachable states.
LEMMA SpecInv == Spec => []Inv
  BY InvInit, InvStep, PTL DEF Spec

-----------------------------------------------------------------------------
(* What a step does to a run that can be read *)

\* Notes stay; only a sweep that has judged it makes it unreadable; only a
\* process that holds it for unfinished makes it so.
Changes(n) ==
  /\ past[n] \subseteq past'[n]
  /\ Readable(n) =>
       /\ ~Readable(n)' => UnderRemoval(n)
       /\ InProgress(n)' =>
            \/ InProgress(n)
            \/ \E p \in Procs : On(p, n) /\ jobs[p].state.status = "in_progress"

\* A step that leaves the directory alone.
LEMMA LeftAlone ==
  ASSUME NEW n \in Ids, dirs'[n] = dirs[n], past[n] \subseteq past'[n]
  PROVE  Changes(n)
  BY SameDirectory DEF Changes

\* A write by a process that works on the run.
LEMMA WrittenInTurn ==
  ASSUME Shape, NEW p \in Procs, NEW state, NEW raw, NEW rows, NEW deeds, Works(p, state, raw, rows, deeds),
         NEW r \in Ids
  PROVE  Changes(r)
<1>1. PICK n \in Ids : n = jobs[p].id
  BY DEF Works
<1>2. /\ jobs[p].pc \in Making \cup Scoring /\ Writes(n, state, raw, rows)
      /\ past' = [past EXCEPT ![n] = @ \cup deeds]
      /\ \/ state = StateOf(n)
         \/ state = jobs[p].state
         \/ state = [jobs[p].state EXCEPT !.status = "completed"]
  BY <1>1 DEF Works
<1>3. On(p, n) /\ jobs[p].state \in RunState
  BY <1>1, <1>2 DEF On, Makes, Scores, Shape
<1>4. [jobs[p].state EXCEPT !.status = "completed"] \in RunState
      /\ [jobs[p].state EXCEPT !.status = "completed"].status = "completed"
  BY <1>3 DEF RunState
<1>5. past[r] \subseteq past'[r]
  BY <1>2 DEF Shape
<1>6. CASE r # n
  BY <1>2, <1>5, <1>6, WritesOne, LeftAlone
<1>7. CASE r = n
  <2>1. (Readable(n)' <=> state # NoState) /\ (InProgress(n)' <=> state # NoState /\ state.status = "in_progress")
    BY <1>2, WrittenRun
  <2>2. Readable(n) => StateOf(n) = dirs[n].state /\ StateOf(n) \in RunState
    BY TwoStatuses
  <2>3. Readable(n) => Readable(n)'
    BY <1>2, <1>3, <1>4, <2>1, <2>2, TwoStatuses
  <2>4. Readable(n) /\ InProgress(n)' /\ ~InProgress(n) => jobs[p].state.status = "in_progress"
    BY <1>2, <1>4, <2>1, <2>2 DEF InProgress
  <2> QED
    BY <1>3, <1>5, <1>7, <2>3, <2>4 DEF Changes
<1> QED
  BY <1>6, <1>7

\* Whatever the step.
LEMMA StepChanges ==
  ASSUME Inv, [Next]_vars, NEW r \in Ids
  PROVE  Changes(r)
<1>0. Shape /\ past \in [Ids -> SUBSET Deeds]
  BY DEF Inv, Shape
<1>1. ASSUME NEW p \in Procs, Aside(p) PROVE Changes(r)
  BY <1>1, LeftAlone DEF Aside
<1>2. ASSUME NEW p \in Procs, Begins(p) PROVE Changes(r)
  <2>1. PICK n \in Ids \ Born : Writes(n, NoState, "none", NoRows) /\ past' = past
    BY <1>2 DEF Begins
  <2>2. CASE r # n
    BY <1>0, <2>1, <2>2, WritesOne, LeftAlone
  <2>3. CASE r = n
    BY <1>0, <2>1, <2>3 DEF Changes, Readable, Shape
  <2> QED
    BY <2>2, <2>3
<1>3. ASSUME NEW p \in Procs, Resumes(p) PROVE Changes(r)
  <2>1. dirs' = dirs /\ past[r] \subseteq past'[r]
    BY <1>0, <1>3 DEF Resumes
  <2> QED
    BY <2>1, LeftAlone
<1>4. ASSUME NEW p \in Procs, Rewrites(p) \/ \E i \in Items : AddsRow(p, i) PROVE Changes(r)
  BY <1>0, <1>4, WrittenInTurn DEF Rewrites, AddsRow
<1>5. ASSUME NEW p \in Procs, HasScored(p) PROVE Changes(r)
  BY <1>5, LeftAlone DEF HasScored
<1>6. ASSUME NEW p \in Procs, NEW n \in Ids, Reads(p, n) PROVE Changes(r)
  <2>1. dirs' = dirs /\ past[r] \subseteq past'[r]
    BY <1>0, <1>6 DEF Reads
  <2> QED
    BY <2>1, LeftAlone
<1>7. ASSUME NEW p \in Procs, NEW deeds, Takes(p, jobs[p].id, deeds) PROVE Changes(r)
  <2>1. PICK n \in Ids : n = jobs[p].id /\ n \in Present
    BY <1>7 DEF Takes, Present
  <2>2. /\ past' = [past EXCEPT ![n] = @ \cup deeds] /\ UnderRemoval(n)
        /\ \/ Writes(n, NoState, dirs[n].raw, dirs[n].rows)
           \/ Writes(n, dirs[n].state, "none", NoRows)
           \/ dirs' = [dirs EXCEPT ![n] = Absent] /\ ~Readable(n)
    BY <1>7, <2>1 DEF Takes, UnderRemoval, Removal
  <2>3. past[r] \subseteq past'[r]
    BY <1>0, <2>2
  <2>4. CASE r # n
    <3>1. dirs'[r] = dirs[r]
      BY <1>0, <2>2, <2>4, WritesOne DEF Shape
    <3> QED
      BY <2>3, <3>1, LeftAlone
  <2>5. CASE r = n
    <3>1. Readable(n) /\ InProgress(n)' => InProgress(n)
      BY <1>0, <2>2, WrittenRun DEF InProgress
    <3> QED
      BY <2>2, <2>3, <2>5, <3>1 DEF Changes
  <2> QED
    BY <2>4, <2>5
<1>8. CASE UNCHANGED <<dirs, born, jobs, past>>
  BY <1>8, LeftAlone
<1> QED
  BY <1>0, <1>1, <1>2, <1>3, <1>4, <1>5, <1>6, <1>7, <1>8, Kinds DEF Does

-----------------------------------------------------------------------------
(* The properties *)

\* "An in-progress run is never evicted" (prune_runs): a run that is worked
\* on stays readable, but for the exceptions the property names.
THEOREM InProgressRunsSurvive == Spec => WorkedOnRunsSurvive
<1>1. ASSUME Inv, [Next]_vars, NEW n \in Ids,
             Workers(n) # {}, Readable(n), past'[n] \cap {"shared", "early", "raced"} = {}
      PROVE  Readable(n)'
  <2>1. Changes(n) /\ Good(n) /\ Shape
    BY <1>1, StepChanges DEF Inv
  <2>2. past[n] \cap {"shared", "early", "raced"} = {}
    BY <1>1, <2>1 DEF Changes
  <2>3. ~Completed(n)
    BY <1>1, <2>1, <2>2 DEF Good, Settled, Workers, Makes, Making
  <2>4. InProgress(n)
    BY <1>1, <2>1, <2>3, TwoStatuses
  <2>5. ~UnderRemoval(n)
    BY <2>1, <2>2, <2>4 DEF Good, Watched
  <2> QED
    BY <1>1, <2>1, <2>5 DEF Changes
<1> DEFINE step == \A n \in Ids :
                     Workers(n) # {} /\ Readable(n) /\ past'[n] \cap {"shared", "early", "raced"} = {}
                     => Readable(n)'
<1>2. Inv /\ [Next]_vars => [step]_vars
  BY <1>1
<1> HIDE DEF step
<1>3. Spec => [][step]_vars
  BY <1>2, SpecInv, PTL DEF Spec
<1> QED
  BY <1>3 DEF step, WorkedOnRunsSurvive

\* A completed run never goes back to in_progress, where a resume would take
\* it up and retention would never touch it (evaluate's write_state).
THEOREM CompletionIsFinal == Spec => CompletedStaysCompleted
<1>1. ASSUME Inv, [Next]_vars, NEW n \in Ids,
             Completed(n), past'[n] \cap {"shared", "early"} = {}
      PROVE  (~InProgress(n))'
  <2>1. Changes(n) /\ Good(n) /\ Shape
    BY <1>1, StepChanges DEF Inv
  <2>2. past[n] \cap {"shared", "early"} = {}
    BY <1>1, <2>1 DEF Changes
  <2>3. Readable(n) /\ ~InProgress(n)
    BY <1>1, <2>1, TwoStatuses DEF Completed
  <2>4. \A p \in Procs : /\ ~Makes(p, n)
                         /\ Scores(p, n) => jobs[p].state.status # "in_progress"
    BY <1>1, <2>1, <2>2 DEF Good, Settled
  <2> QED
    BY <1>1, <2>1, <2>3, <2>4 DEF Changes, On
<1> DEFINE step == \A n \in Ids :
                     Completed(n) /\ past'[n] \cap {"shared", "early"} = {} => (~InProgress(n))'
<1>2. Inv /\ [Next]_vars => [step]_vars
  BY <1>1
<1> HIDE DEF step
<1>3. Spec => [][step]_vars
  BY <1>2, SpecInv, PTL DEF Spec
<1> QED
  BY <1>3 DEF step, CompletedStaysCompleted

\* A completed run has one row for each item, made by the models its state
\* names, or a sweep has taken them all (a resume's skip set, _process_work's
\* last write, rmtree file by file).
THEOREM CompletedMeansWhole == Spec => []CompletedRunsAreWhole
<1>1. ASSUME Inv, NEW n \in Ids, Completed(n),
             past[n] \cap {"shared", "remodelled", "pruned", "swallowed"} = {}
      PROVE  \/ \A i \in Items : dirs[n].rows[i] = <<dirs[n].state.models>>
             \/ "evicted" \in past[n] /\ dirs[n].raw = "none" /\ dirs[n].rows = NoRows
  <2>1. Full(n) /\ Readable(n) /\ n \in Present /\ RowsOf(n) = dirs[n].rows
    BY <1>1 DEF Inv, Good, Completed, Readable, RowsOf, Whole, Unmixed
  <2>2. CASE Missing(n) = {}
    <3>1. \A i \in Items : dirs[n].rows[i] # <<>>
      BY <2>1, <2>2 DEF Missing
    <3> QED
      BY <2>1, <3>1 DEF Full
  <2>3. CASE "evicted" \in past[n] /\ dirs[n].raw = "none"
    BY <1>1, <2>1, <2>3 DEF Inv, Shape
  <2> QED
    BY <1>1, <2>1, <2>2, <2>3 DEF Full
<1>2. Inv => CompletedRunsAreWhole
  BY <1>1 DEF CompletedRunsAreWhole
<1> QED
  BY <1>2, SpecInv, PTL

-----------------------------------------------------------------------------
(* Sequences without repetition *)

Elems(s) == {s[k] : k \in DOMAIN s}

OneEach(s) == s \in Seq(Ids) /\ \A k, l \in DOMAIN s : s[k] = s[l] => k = l

\* b is before a in s.
Precedes(s, b, a) == \E i, j \in DOMAIN s : i < j /\ s[i] = b /\ s[j] = a

\* E is what s begins with.
BeginsWith(s, E) == \E e \in 0..Len(s) : E = {s[k] : k \in 1..e}

\* The place of a run is the one place where it is.
LEMMA PlaceOf ==
  ASSUME NEW s, OneEach(s), NEW n \in Elems(s)
  PROVE  At(s, n) \in 1..Len(s) /\ s[At(s, n)] = n /\ \A k \in 1..Len(s) : s[k] = n => k = At(s, n)
<1>1. s \in Seq(Ids) /\ DOMAIN s = 1..Len(s) /\ \A k, l \in DOMAIN s : s[k] = s[l] => k = l
  BY DEF OneEach
<1>2. \E k \in DOMAIN s : s[k] = n
  BY DEF Elems
<1>3. At(s, n) \in DOMAIN s /\ s[At(s, n)] = n
  BY <1>2 DEF At
<1> QED
  BY <1>1, <1>3

\* A run that leaves the order leaves the others in theirs.
LEMMA WithoutKeepsOrder ==
  ASSUME NEW s, OneEach(s), NEW n
  PROVE  /\ OneEach(Without(s, n)) /\ Elems(Without(s, n)) = Elems(s) \ {n}
         /\ \A a, b : Precedes(s, b, a) /\ a # n /\ b # n => Precedes(Without(s, n), b, a)
         /\ \A E : BeginsWith(s, E) => BeginsWith(Without(s, n), E \ {n})
<1>0. s \in Seq(Ids) /\ DOMAIN s = 1..Len(s) /\ Len(s) \in Nat /\ \A k, l \in DOMAIN s : s[k] = s[l] => k = l
  BY DEF OneEach
<1>1. CASE n \notin Elems(s)
  <2>1. Without(s, n) = s /\ Elems(s) \ {n} = Elems(s)
    BY <1>1 DEF Without, Elems
  <2>2. \A E : BeginsWith(s, E) => E \ {n} = E
    BY <1>0, <1>1 DEF BeginsWith, Elems
  <2> QED
    BY <2>1, <2>2
<1>2. CASE n \in Elems(s)
  <2> DEFINE at == At(s, n)
             h(k) == IF k < at THEN k ELSE k + 1
             back(j) == IF j < at THEN j ELSE j - 1
             w == Without(s, n)
  <2>1. at \in 1..Len(s) /\ s[at] = n /\ \A k \in 1..Len(s) : s[k] = n => k = at
    BY <1>2, PlaceOf
  <2>2. w = [k \in 1..Len(s) - 1 |-> s[h(k)]]
    BY <1>2 DEF Without, Elems
  <2> HIDE DEF at, w
  <2>3. \A k \in 1..Len(s) - 1 : h(k) \in 1..Len(s) /\ h(k) # at /\ w[k] = s[h(k)] /\ w[k] # n /\ w[k] \in Ids
    <3> SUFFICES ASSUME NEW k \in 1..Len(s) - 1
                 PROVE  h(k) \in 1..Len(s) /\ h(k) # at /\ w[k] = s[h(k)] /\ w[k] # n /\ w[k] \in Ids
      OBVIOUS
    <3>1. h(k) \in 1..Len(s) /\ h(k) # at
      BY <1>0, <2>1
    <3>2. w[k] = s[h(k)]
      BY <2>2
    <3> HIDE DEF h
    <3>3. s[h(k)] \in Ids /\ s[h(k)] # n
      BY <1>0, <2>1, <3>1
    <3> QED
      BY <3>1, <3>2, <3>3
  <2>4. \A j \in 1..Len(s) : s[j] # n =>
          back(j) \in 1..Len(s) - 1 /\ h(back(j)) = j /\ w[back(j)] = s[j]
    <3> SUFFICES ASSUME NEW j \in 1..Len(s), s[j] # n
                 PROVE  back(j) \in 1..Len(s) - 1 /\ h(back(j)) = j /\ w[back(j)] = s[j]
      OBVIOUS
    <3>1. j # at /\ j \in Nat /\ at \in Nat
      BY <2>1
    <3>2. back(j) \in 1..Len(s) - 1 /\ h(back(j)) = j
      BY <1>0, <2>1, <3>1
    <3> HIDE DEF h, back
    <3> QED
      BY <2>3, <3>2
  <2>5. /\ \A k, l \in 1..Len(s) - 1 : h(k) = h(l) => k = l
        /\ \A i, j \in 1..Len(s) : i < j /\ i # at /\ j # at => back(i) < back(j)
    BY <1>0, <2>1
  <2>6. Len(w) = Len(s) - 1 /\ DOMAIN w = 1..Len(w) /\ w \in Seq(Ids)
    <3> HIDE DEF h
    <3>1. w \in [1..Len(s) - 1 -> Ids] /\ Len(s) - 1 \in Nat
      BY <1>0, <2>1, <2>2, <2>3
    <3> QED
      BY <3>1
  <2> HIDE DEF h, back
  <2>7. OneEach(w)
    BY <1>0, <2>3, <2>5, <2>6 DEF OneEach
  <2>8. Elems(w) = Elems(s) \ {n}
    BY <1>0, <2>3, <2>4, <2>6 DEF Elems
  <2>9. ASSUME NEW a, NEW b, Precedes(s, b, a), a # n, b # n PROVE Precedes(w, b, a)
    <3>1. PICK i, j \in 1..Len(s) : i < j /\ s[i] = b /\ s[j] = a
      BY <1>0, <2>9 DEF Precedes
    <3>2. back(i) < back(j) /\ back(i) \in DOMAIN w /\ back(j) \in DOMAIN w
      BY <2>1, <2>4, <2>5, <2>6, <2>9, <3>1
    <3> QED
      BY <2>4, <2>9, <3>1, <3>2 DEF Precedes
  <2>10. ASSUME NEW E, BeginsWith(s, E) PROVE BeginsWith(w, E \ {n})
    <3>1. PICK e \in 0..Len(s) : E = {s[k] : k \in 1..e}
      BY <2>10 DEF BeginsWith
    <3> DEFINE d == IF e < at THEN e ELSE e - 1
    <3>2. /\ d \in 0..Len(w)
          /\ \A k \in 1..d : k \in 1..Len(s) - 1 /\ h(k) \in 1..e
          /\ \A k \in 1..e : k \in 1..Len(s) /\ (k # at => back(k) \in 1..d)
      BY <1>0, <2>1, <2>6 DEF h, back
    <3> HIDE DEF d
    <3>3. ASSUME NEW x \in E \ {n} PROVE x \in {w[k] : k \in 1..d}
      <4>1. PICK k \in 1..e : x = s[k]
        BY <3>1
      <4>2. k \in 1..Len(s) /\ k # at
        BY <2>1, <3>2, <4>1
      <4>3. back(k) \in 1..d /\ w[back(k)] = x
        BY <2>4, <3>2, <3>3, <4>1, <4>2
      <4> QED
        BY <4>3
    <3>4. ASSUME NEW k \in 1..d PROVE w[k] \in E \ {n}
      BY <2>3, <3>1, <3>2, <3>4
    <3> QED
      BY <3>2, <3>3, <3>4 DEF BeginsWith
  <2> QED
    BY <2>7, <2>8, <2>9, <2>10 DEF w
<1> QED
  BY <1>1, <1>2

\* A run that is touched comes last.
LEMMA TouchedComesLast ==
  ASSUME NEW s, OneEach(s), NEW n \in Ids
  PROVE  LET t == Append(Without(s, n), n)
         IN  /\ OneEach(t) /\ Elems(t) = Elems(s) \cup {n}
             /\ \A a, b : Precedes(s, b, a) /\ a # n /\ b # n => Precedes(t, b, a)
             /\ \A b \in Elems(s) \ {n} : Precedes(t, b, n)
             /\ \A E : BeginsWith(s, E) => BeginsWith(t, E \ {n})
<1> DEFINE w == Without(s, n)
           t == Append(w, n)
<1>1. /\ OneEach(w) /\ Elems(w) = Elems(s) \ {n}
      /\ \A a, b : Precedes(s, b, a) /\ a # n /\ b # n => Precedes(w, b, a)
      /\ \A E : BeginsWith(s, E) => BeginsWith(w, E \ {n})
  BY WithoutKeepsOrder
<1> HIDE DEF w
<1>2. w \in Seq(Ids) /\ Len(w) \in Nat /\ DOMAIN w = 1..Len(w) /\ \A k, l \in DOMAIN w : w[k] = w[l] => k = l
  BY <1>1 DEF OneEach
<1>3. /\ t \in Seq(Ids) /\ Len(t) = Len(w) + 1 /\ DOMAIN t = 1..Len(t) /\ t[Len(t)] = n
      /\ \A k \in 1..Len(w) : t[k] = w[k]
  BY <1>2
<1>4. \A k \in DOMAIN w : w[k] # n /\ k \in DOMAIN t /\ k < Len(t)
  BY <1>1, <1>2, <1>3 DEF Elems
<1> HIDE DEF t
<1>5. \A k \in DOMAIN t : k \in DOMAIN w \/ k = Len(t)
  BY <1>2, <1>3
<1>6. OneEach(t)
  BY <1>2, <1>3, <1>4, <1>5 DEF OneEach
<1>7. Elems(t) = Elems(s) \cup {n}
  <2>1. Len(t) \in DOMAIN t
    BY <1>2, <1>3
  <2>2. Elems(t) = Elems(w) \cup {n}
    BY <1>2, <1>3, <1>4, <1>5, <2>1 DEF Elems
  <2> QED
    BY <1>1, <2>2
<1>8. ASSUME NEW a, NEW b, Precedes(w, b, a) PROVE Precedes(t, b, a)
  BY <1>2, <1>3, <1>4, <1>8 DEF Precedes
<1>9. ASSUME NEW b \in Elems(s) \ {n} PROVE Precedes(t, b, n)
  <2>1. PICK k \in DOMAIN w : w[k] = b
    BY <1>1, <1>9 DEF Elems
  <2>2. Len(t) \in DOMAIN t
    BY <1>2, <1>3
  <2> QED
    BY <1>2, <1>3, <1>4, <2>1, <2>2 DEF Precedes
<1>10. ASSUME NEW E, BeginsWith(w, E) PROVE BeginsWith(t, E)
  <2>1. PICK e \in 0..Len(w) : E = {w[k] : k \in 1..e}
    BY <1>10 DEF BeginsWith
  <2>2. e \in 0..Len(t) /\ \A k \in 1..e : k \in 1..Len(w)
    BY <1>2, <1>3
  <2>3. E = {t[k] : k \in 1..e}
    BY <1>3, <2>1, <2>2
  <2> QED
    BY <2>2, <2>3 DEF BeginsWith
<1> QED
  BY <1>1, <1>6, <1>7, <1>8, <1>9, <1>10 DEF t, w

\* What s begins with has as many runs as places.
LEMMA BeginsWithAsMany ==
  ASSUME NEW s, OneEach(s), NEW e \in 0..Len(s)
  PROVE  IsFiniteSet({s[k] : k \in 1..e}) /\ Cardinality({s[k] : k \in 1..e}) = e
<1> DEFINE E == {s[k] : k \in 1..e}
           f == [k \in 1..e |-> s[k]]
<1>1. s \in Seq(Ids) /\ Len(s) \in Nat /\ e \in Nat /\ DOMAIN s = 1..Len(s)
  BY DEF OneEach
<1>2. \A k \in 1..e : k \in DOMAIN s
  BY <1>1
<1>3. f \in [1..e -> E] /\ \A k \in 1..e : f[k] = s[k]
  OBVIOUS
<1>4. \A k, l \in 1..e : f[k] = f[l] => k = l
  BY <1>2, <1>3 DEF OneEach
<1>5. \A x \in E : \E k \in 1..e : f[k] = x
  BY <1>3
<1> HIDE DEF f, E
<1>6. f \in Bijection(1..e, E)
  BY <1>3, <1>4, <1>5 DEF Bijection, Injection, Surjection, IsInjective
<1>7. ExistsBijection(1..e, E)
  BY <1>6 DEF ExistsBijection
<1>8. IsFiniteSet(1..e) /\ Cardinality(1..e) = e
  BY <1>1, FS_Interval
<1> QED
  BY <1>7, <1>8, FS_Bijection DEF E

-----------------------------------------------------------------------------
(* The order of the mtimes, and what the sweeps still have to judge *)

\* The runs a sweep has laid hands on.
Evicted == {n \in Ids : "evicted" \in past[n]}

\* What a sweep has listed and nobody has written to since.
Unjudged(p) == jobs[p].doomed \ jobs[p].stale

\* A sweep has its list, and removes what is on it or what it has begun with.
SweepOk(job, gone) ==
  /\ job.pc \notin {"pruning"} \cup Removal => job.doomed = {}
  /\ job.pc = "asking" => job.rule \in CleanRules
  /\ job.pc = "finished" => job.id \in Ids
  /\ job.pc = "condemned" => job.id \in job.doomed
  /\ job.pc = "removing" => job.id \in job.doomed \cup gone

Sweeps == \A p \in Procs : SweepOk(jobs[p], Evicted)

\* Every present directory has one mtime, and the expired ones are the oldest.
Ordered == OneEach(touched) /\ Elems(touched) = Present /\ BeginsWith(touched, expired)

\* No sweep took what was written to since it was listed, or counted remains.
Undisturbed == \A m \in Ids : past[m] \cap {"outdated", "counted"} = {}

\* A newer run of its suite is there, and no sweep has touched that.
Outlived(n) ==
  \E m \in Present : dirs[m].suite = dirs[n].suite /\ Precedes(touched, n, m) /\ m \notin Evicted

\* What a sweep may still remove is past the TTL, or its suite has a newer run.
Aging ==
  Undisturbed => \A p \in Procs : \A n \in Unjudged(p) \cap Present : n \in expired \/ Outlived(n)

\* A directory is written to: no sweep that listed it before may remove it unnoticed.
Touching ==
  \E n \in Ids :
    /\ touched' = Append(Without(touched, n), n) /\ expired' = expired \ {n}
    /\ Present' = Present \cup {n} /\ Evicted' = Evicted
    /\ \A q \in Procs : Unjudged(q)' \subseteq Unjudged(q) \ {n}

\* The directories stay as they are; a sweep may list them.
Judging ==
  /\ touched' = touched /\ expired' = expired /\ Present' = Present /\ Evicted' = Evicted
  /\ \A q \in Procs : \/ Unjudged(q)' \subseteq Unjudged(q)
                      \/ /\ \E rule \in Rule : Unjudged(q)' \subseteq Doomed(rule)
                         /\ \A m \in Present \cap Evicted : "counted" \in past'[m]

\* A sweep takes a file of a run, which is then the newest, or its directory.
Evicting ==
  \E n \in Present :
    /\ expired' = expired \ {n} /\ Evicted' = Evicted \cup {n}
    /\ \A q \in Procs : Unjudged(q)' \subseteq Unjudged(q)
    /\ \/ touched' = Without(touched, n) /\ Present' = Present \ {n}
       \/ /\ touched' = Append(Without(touched, n), n) /\ Present' = Present
          /\ \A q \in Procs : n \notin Unjudged(q)'
    /\ (\E p \in Procs : n \in Unjudged(p)) \/ n \in Evicted \/ "outdated" \in past'[n]

\* Another directory passes the TTL.
Ageing ==
  /\ touched' = touched /\ Present' = Present /\ Evicted' = Evicted
  /\ Cardinality(expired) < Len(touched)
  /\ expired' = expired \cup {touched[Cardinality(expired) + 1]}
  /\ \A q \in Procs : Unjudged(q)' \subseteq Unjudged(q)

SuitesStay == \A m \in Present \cap Present' : dirs'[m].suite = dirs[m].suite

\* What any step is to the mtimes, the suites and the sweeps.
OnDisk == (Touching \/ Judging \/ Evicting \/ Ageing) /\ SuitesStay /\ Sweeps'

\* A touch, for the sweeps.
LEMMA TouchOnSweeps ==
  ASSUME Shape, Sweeps, NEW p \in Procs, NEW n \in Ids, NEW job, Touch(p, n, job),
         Evicted \subseteq Evicted', SweepOk(job, Evicted')
  PROVE  /\ Sweeps' /\ touched' = Append(Without(touched, n), n) /\ expired' = expired \ {n}
         /\ Unjudged(p)' = job.doomed \ job.stale
         /\ \A q \in Procs \ {p} : Unjudged(q)' \subseteq Unjudged(q) \ {n}
<1> DEFINE other(q) == [jobs[q] EXCEPT !.stale = @ \cup (jobs[q].doomed \cap {n})]
<1>1. \A q \in Procs :
        /\ other(q).pc = jobs[q].pc /\ other(q).id = jobs[q].id /\ other(q).rule = jobs[q].rule
        /\ other(q).doomed = jobs[q].doomed
        /\ other(q).stale = jobs[q].stale \cup (jobs[q].doomed \cap {n})
  BY DEF Shape, Job
<1>2. /\ jobs' = [q \in Procs |-> IF q = p THEN job ELSE other(q)]
      /\ touched' = Append(Without(touched, n), n) /\ expired' = expired \ {n}
  BY DEF Touch
<1> HIDE DEF other
<1>3. jobs'[p] = job /\ \A q \in Procs \ {p} : jobs'[q] = other(q)
  BY <1>2
<1>4. \A q \in Procs \ {p} : Unjudged(q)' \subseteq Unjudged(q) \ {n}
  BY <1>1, <1>3 DEF Unjudged
<1>5. Sweeps'
  BY <1>1, <1>3 DEF Sweeps, SweepOk
<1>6. Unjudged(p)' = job.doomed \ job.stale
  BY <1>3 DEF Unjudged
<1> QED
  BY <1>2, <1>4, <1>5, <1>6

\* A step of one process alone, for the sweeps.
LEMMA SetOnSweeps ==
  ASSUME Shape, Sweeps, NEW p \in Procs, NEW job, SetJob(p, job),
         Evicted \subseteq Evicted', SweepOk(job, Evicted')
  PROVE  /\ Sweeps' /\ Unjudged(p)' = job.doomed \ job.stale
         /\ \A q \in Procs \ {p} : Unjudged(q)' = Unjudged(q)
<1>1. jobs'[p] = job /\ \A q \in Procs \ {p} : jobs'[q] = jobs[q]
  BY DEF Shape, SetJob
<1>2. Sweeps'
  BY <1>1 DEF Sweeps, SweepOk
<1> QED
  BY <1>1, <1>2 DEF Unjudged

\* So does one that leaves the directories alone too.
LEMMA SetIsJudging ==
  ASSUME Shape, Sweeps, NEW p \in Procs, NEW job, SweepOk(job, Evicted), SetJob(p, job),
         Present' = Present, SuitesStay, touched' = touched, expired' = expired, Evicted' = Evicted,
         \/ job.doomed \ job.stale \subseteq Unjudged(p)
         \/ /\ \E rule \in Rule : job.doomed \ job.stale \subseteq Doomed(rule)
            /\ \A m \in Present \cap Evicted : "counted" \in past'[m]
  PROVE  OnDisk
<1>1. /\ Sweeps' /\ Unjudged(p)' = job.doomed \ job.stale
      /\ \A q \in Procs \ {p} : Unjudged(q)' = Unjudged(q)
  BY SetOnSweeps
<1>2. \A q \in Procs : \/ Unjudged(q)' \subseteq Unjudged(q)
                       \/ /\ \E rule \in Rule : Unjudged(q)' \subseteq Doomed(rule)
                          /\ \A m \in Present \cap Evicted : "counted" \in past'[m]
  BY <1>1
<1> QED
  BY <1>1, <1>2 DEF OnDisk, Judging

\* Nothing on the disk changes, and no sweep has laid hands on anything.
StandsStill == Present' = Present /\ SuitesStay /\ Evicted' = Evicted

\* A run is there after a step that leaves the others alone.
Puts(n) == Present' = Present \cup {n} /\ SuitesStay /\ Evicted' = Evicted

\* What is on record of a run but no eviction.
LEMMA NotEvicted ==
  ASSUME Shape, NEW n \in Ids, NEW deeds, "evicted" \notin deeds,
         past' = [past EXCEPT ![n] = @ \cup deeds]
  PROVE  Evicted' = Evicted
  BY DEF Shape, Evicted

\* Same disk and same record.
LEMMA NothingMoves ==
  ASSUME dirs' = dirs
  PROVE  /\ Present' = Present /\ SuitesStay
         /\ past' = past => StandsStill
         /\ Evicted' = Evicted => StandsStill
  BY DEF Present, SuitesStay, Evicted, StandsStill

\* A write puts one run in its directory.
LEMMA WritesPut ==
  ASSUME Shape, NEW n \in Ids, NEW state, NEW raw, NEW rows, Writes(n, state, raw, rows)
  PROVE  Present' = Present \cup {n} /\ SuitesStay
<1>1. /\ \A r \in Ids \ {n} : dirs'[r] = dirs[r]
      /\ Present' = Present \cup {n}
  BY WritesOne
<1>2. n \in Present => dirs'[n].suite = dirs[n].suite
  BY DEF Writes, Shape
<1> QED
  BY <1>1, <1>2 DEF SuitesStay, Present

\* So does work on it.
LEMMA WorksPut ==
  ASSUME Shape, NEW p \in Procs, NEW state, NEW raw, NEW rows, NEW deeds, Works(p, state, raw, rows, deeds)
  PROVE  Puts(jobs[p].id)
<1> DEFINE n == jobs[p].id
<1>1. n \in Ids /\ Writes(n, state, raw, rows) /\ past' = [past EXCEPT ![n] = @ \cup deeds] /\ "evicted" \notin deeds
  BY DEF Works
<1> HIDE DEF n
<1>2. Present' = Present \cup {n} /\ SuitesStay
  BY <1>1, WritesPut
<1>3. Evicted' = Evicted
  BY <1>1, NotEvicted
<1> QED
  BY <1>2, <1>3 DEF Puts, n

\* The first write, a row, a checkpoint, the last write: a touch by a process
\* that has no sweep, or no touch.
LEMMA WorkOnDisk ==
  ASSUME Shape, Sweeps, NEW p \in Procs, NEW n \in Ids, NEW job, SweepOk(job, Evicted), job.doomed = {}, Puts(n),
         \/ Touch(p, n, job)
         \/ SetJob(p, job) /\ touched' = touched /\ expired' = expired /\ n \in Present
  PROVE  OnDisk
<1>1. Present' = Present \cup {n} /\ SuitesStay /\ Evicted' = Evicted
  BY DEF Puts
<1>2. CASE Touch(p, n, job)
  <2>1. /\ Sweeps' /\ touched' = Append(Without(touched, n), n) /\ expired' = expired \ {n}
        /\ Unjudged(p)' = job.doomed \ job.stale
        /\ \A q \in Procs \ {p} : Unjudged(q)' \subseteq Unjudged(q) \ {n}
    BY <1>1, <1>2, TouchOnSweeps
  <2>2. Touching
    BY <1>1, <2>1 DEF Touching
  <2> QED
    BY <1>1, <2>1, <2>2 DEF OnDisk
<1>3. CASE SetJob(p, job) /\ touched' = touched /\ expired' = expired /\ n \in Present
  <2>1. Present' = Present
    BY <1>1, <1>3
  <2> QED
    BY <1>1, <1>3, <2>1, SetIsJudging
<1> QED
  BY <1>2, <1>3

\* The next turn of a sweep, for its list.
LEMMA TurnOnSweeps ==
  ASSUME NEW job \in Job, NEW gone
  PROVE  /\ SweepOk(NextTurn(job), gone)
         /\ NextTurn(job).doomed = job.doomed \ {job.id} /\ NextTurn(job).stale = job.stale \ {job.id}
  BY DEF NextTurn, Job, SweepOk, Removal

\* A sweep that takes its next turn and leaves the disk alone.
LEMMA TurnOnDisk ==
  ASSUME Shape, Sweeps, NEW p \in Procs, NEW job \in Job, SetJob(p, NextTurn(job)), StandsStill,
         job.doomed = jobs[p].doomed, job.stale = jobs[p].stale, touched' = touched, expired' = expired
  PROVE  OnDisk
<1> DEFINE next == NextTurn(job)
<1>1. SweepOk(next, Evicted) /\ next.doomed = job.doomed \ {job.id} /\ next.stale = job.stale \ {job.id}
  BY TurnOnSweeps
<1>2. SetJob(p, next)
  OBVIOUS
<1> HIDE DEF next
<1>3. next.doomed \ next.stale \subseteq Unjudged(p)
  BY <1>1 DEF Unjudged
<1> QED
  BY <1>1, <1>2, <1>3, SetIsJudging DEF StandsStill

\* A look at a run.
LEMMA JudgeOneOnDisk ==
  ASSUME Shape, Sweeps, NEW p \in Procs, JudgeOne(p)
  PROVE  OnDisk
<1> DEFINE n == CHOOSE m \in jobs[p].doomed : \A k \in jobs[p].doomed : m <= k
           turn == [jobs[p] EXCEPT !.id = n]
           job == [turn EXCEPT !.pc = "condemned"]
<1>1. jobs[p].pc = "pruning" /\ jobs[p].doomed # {} /\ UNCHANGED <<dirs, touched, expired, past>>
  BY DEF JudgeOne
<1>2. jobs[p] \in Job /\ jobs[p].doomed \in SUBSET Ids
  BY DEF Shape, Job
<1>3. n \in jobs[p].doomed /\ n \in Ids
  BY <1>1, <1>2, TurnIsOfTheList
<1>4. SetJob(p, NextTurn(turn)) \/ SetJob(p, job)
  BY DEF JudgeOne
<1> HIDE DEF n
<1>5. turn \in Job /\ turn.id = n /\ turn.doomed = jobs[p].doomed /\ turn.stale = jobs[p].stale
  BY <1>2, <1>3 DEF Job
<1> HIDE DEF turn
<1>6. /\ job.pc = "condemned" /\ job.id = n
      /\ job.doomed = jobs[p].doomed /\ job.stale = jobs[p].stale
  BY <1>5 DEF Job
<1> HIDE DEF job
<1>7. SweepOk(job, Evicted) /\ job.doomed \ job.stale \subseteq Unjudged(p)
  BY <1>3, <1>6 DEF SweepOk, Removal, Unjudged
<1>8. StandsStill /\ touched' = touched /\ expired' = expired
  BY <1>1, NothingMoves
<1> QED
  BY <1>4, <1>5, <1>7, <1>8, TurnOnDisk, SetIsJudging DEF StandsStill

\* The steps of rmtree that touch nothing.
LEMMA RemovalOnDisk ==
  ASSUME Shape, Sweeps, NEW p \in Procs,
         \/ ListFiles(p) \/ RemovalFails(p)
         \/ \E f \in Files : UnlinkGone(p, f)
         \/ RemoveDirectory(p) /\ dirs' = dirs /\ past' = past /\ touched' = touched /\ expired' = expired
  PROVE  OnDisk
<1> DEFINE id == jobs[p].id
           removing == [jobs[p] EXCEPT !.pc = "removing", !.files = FilesOf(id)]
           rest(f) == [jobs[p] EXCEPT !.files = @ \ {f}]
<1>1. jobs[p] \in Job /\ SweepOk(jobs[p], Evicted)
  BY DEF Shape, Sweeps
<1>2. jobs[p].pc \in Removal /\ UNCHANGED <<dirs, touched, expired, past>>
  BY DEF ListFiles, RemovalFails, UnlinkGone, RemoveDirectory, Removal
<1>3. /\ removing.pc = "removing" /\ removing.id = id
      /\ removing.doomed = jobs[p].doomed /\ removing.stale = jobs[p].stale
  BY <1>1 DEF Job
<1>4. \A f : /\ rest(f).pc = jobs[p].pc /\ rest(f).id = id /\ rest(f).rule = jobs[p].rule
             /\ rest(f).doomed = jobs[p].doomed /\ rest(f).stale = jobs[p].stale
  BY <1>1 DEF Job
<1>5. \/ SetJob(p, NextTurn(jobs[p]))
      \/ jobs[p].pc \in Removal /\ SetJob(p, removing)
      \/ \E f \in Files : SetJob(p, rest(f))
  BY <1>2 DEF ListFiles, RemovalFails, UnlinkGone, RemoveDirectory
<1> HIDE DEF removing, rest
<1>6. SweepOk(removing, Evicted) /\ \A f : SweepOk(rest(f), Evicted)
  BY <1>1, <1>2, <1>3, <1>4 DEF SweepOk, Removal
<1>7. /\ removing.doomed \ removing.stale \subseteq Unjudged(p)
      /\ \A f : rest(f).doomed \ rest(f).stale \subseteq Unjudged(p)
  BY <1>3, <1>4 DEF Unjudged
<1>8. StandsStill /\ touched' = touched /\ expired' = expired
  BY <1>2, NothingMoves
<1>9. CASE SetJob(p, NextTurn(jobs[p]))
  BY <1>1, <1>8, <1>9, TurnOnDisk
<1>10. CASE SetJob(p, removing)
  BY <1>6, <1>7, <1>8, <1>10, SetIsJudging DEF StandsStill
<1>11. ASSUME NEW f \in Files, SetJob(p, rest(f)) PROVE OnDisk
  BY <1>6, <1>7, <1>8, <1>11, SetIsJudging DEF StandsStill
<1> QED
  BY <1>5, <1>9, <1>10, <1>11

\* A removal notes itself, and whether what it takes was written to.
LEMMA EvictsOne ==
  ASSUME Shape, NEW p \in Procs, NEW n \in Ids, n = jobs[p].id, NEW deeds \in SUBSET {"pruned"}, Evict(jobs[p], deeds)
  PROVE  Evicted' = Evicted \cup {n} /\ (n \in jobs[p].stale => "outdated" \in past'[n])
<1>1. \E all : /\ "evicted" \in all /\ past' = [past EXCEPT ![n] = @ \cup all]
               /\ "outdated" \notin all => n \notin jobs[p].stale
  BY EvictNotes
<1> QED
  BY <1>1 DEF Shape, Evicted

\* A file is removed.
LEMMA UnlinkOnDisk ==
  ASSUME Shape, Sweeps, NEW p \in Procs, NEW f \in Files, Unlink(p, f)
  PROVE  OnDisk
<1> DEFINE n == jobs[p].id
           rest == [jobs[p] EXCEPT !.files = @ \ {f}, !.doomed = @ \ {n}, !.stale = @ \ {n}]
           used == IF f = "raw.jsonl" /\ Users(n) # {} THEN {"pruned"} ELSE {}
           run == IF f = "state.json" THEN [dirs[n] EXCEPT !.state = NoState]
                  ELSE [dirs[n] EXCEPT !.raw = "none", !.rows = NoRows]
<1>1. /\ jobs[p].pc = "removing" /\ n \in Present /\ n \in Ids
      /\ jobs[p] \in Job /\ SweepOk(jobs[p], Evicted)
  BY DEF Unlink, Shape, Sweeps, Removal
<1>2. Touch(p, n, rest) /\ Evict(jobs[p], used) /\ dirs' = [dirs EXCEPT ![n] = run]
  BY DEF Unlink
<1>3. /\ rest.pc = "removing" /\ rest.id = n /\ rest.doomed = jobs[p].doomed \ {n}
      /\ rest.stale = jobs[p].stale \ {n}
  BY <1>1 DEF Job
<1>4. run \in Run /\ run.suite = dirs[n].suite /\ run # Absent
  <2>1. dirs[n] \in Run /\ NoRows \in [Items -> Seq(Models)]
    BY <1>1 DEF Shape, Present, NoRows
  <2>2. run \in Run /\ run.suite = dirs[n].suite
    BY <2>1 DEF Run, Tails
  <2> HIDE DEF run
  <2> QED
    BY <2>2, StoreAssumption DEF Run
<1>5. used \in SUBSET {"pruned"}
  OBVIOUS
<1> HIDE DEF rest, used, run
<1>6. Present' = Present /\ SuitesStay
  BY <1>1, <1>2, <1>4 DEF Shape, Present, SuitesStay
<1>7. Evicted' = Evicted \cup {n} /\ (n \in jobs[p].stale => "outdated" \in past'[n])
  BY <1>1, <1>2, <1>5, EvictsOne
<1>8. SweepOk(rest, Evicted')
  BY <1>3, <1>7 DEF SweepOk, Removal
<1>9. /\ Sweeps' /\ touched' = Append(Without(touched, n), n) /\ expired' = expired \ {n}
      /\ Unjudged(p)' = rest.doomed \ rest.stale
      /\ \A q \in Procs \ {p} : Unjudged(q)' \subseteq Unjudged(q) \ {n}
  BY <1>1, <1>2, <1>7, <1>8, TouchOnSweeps
<1>10. \A q \in Procs : Unjudged(q)' \subseteq Unjudged(q) \ {n}
  BY <1>3, <1>9 DEF Unjudged
<1>11. n \in Unjudged(p) \/ n \in Evicted \/ "outdated" \in past'[n]
  BY <1>1, <1>7 DEF SweepOk, Unjudged
<1>12. Evicting
  BY <1>1, <1>6, <1>7, <1>9, <1>10, <1>11 DEF Evicting
<1> QED
  BY <1>6, <1>9, <1>12 DEF OnDisk

\* The directory goes.
LEMMA RemoveDirectoryOnDisk ==
  ASSUME Shape, Sweeps, NEW p \in Procs, RemoveDirectory(p)
  PROVE  OnDisk
<1> DEFINE n == jobs[p].id
           next == NextTurn(jobs[p])
<1>1. /\ jobs[p].pc = "removing" /\ n \in Ids /\ jobs[p] \in Job /\ SweepOk(jobs[p], Evicted)
      /\ SetJob(p, next)
  BY DEF RemoveDirectory, Shape, Sweeps, Removal
<1>2. CASE n \in Present /\ FilesOf(n) = {}
  <2>1. /\ dirs' = [dirs EXCEPT ![n] = Absent] /\ Evict(jobs[p], {})
        /\ touched' = Without(touched, n) /\ expired' = expired \ {n}
    BY <1>2 DEF RemoveDirectory, Gone
  <2>2. Present' = Present \ {n} /\ SuitesStay
    BY <1>1, <2>1 DEF Shape, Present, SuitesStay
  <2>3. Evicted' = Evicted \cup {n} /\ (n \in jobs[p].stale => "outdated" \in past'[n])
    BY <1>1, <2>1, EvictsOne
  <2>4. /\ SweepOk(next, Evicted') /\ next.doomed = jobs[p].doomed \ {n}
        /\ next.stale = jobs[p].stale \ {n}
    BY <1>1, TurnOnSweeps
  <2> HIDE DEF next
  <2>5. /\ Sweeps' /\ Unjudged(p)' = next.doomed \ next.stale
        /\ \A q \in Procs \ {p} : Unjudged(q)' = Unjudged(q)
    BY <1>1, <2>3, <2>4, SetOnSweeps
  <2>6. \A q \in Procs : Unjudged(q)' \subseteq Unjudged(q)
    BY <2>4, <2>5 DEF Unjudged
  <2>7. n \in Unjudged(p) \/ n \in Evicted \/ "outdated" \in past'[n]
    BY <1>1, <2>3 DEF SweepOk, Unjudged
  <2>8. Evicting
    BY <1>2, <2>1, <2>2, <2>3, <2>6, <2>7 DEF Evicting
  <2> QED
    BY <2>2, <2>5, <2>8 DEF OnDisk
<1>3. CASE ~(n \in Present /\ FilesOf(n) = {})
  <2>1. dirs' = dirs /\ past' = past /\ touched' = touched /\ expired' = expired
    BY <1>3 DEF RemoveDirectory
  <2> QED
    BY <2>1, RemovalOnDisk
<1> QED
  BY <1>2, <1>3

\* The beginning of an evaluation.
LEMMA ReadRunOnDisk ==
  ASSUME Shape, Sweeps, NEW p \in Procs, NEW n \in Ids \cup {NoId}, ReadRun(p, n)
  PROVE  OnDisk
<1> DEFINE job == [Idle EXCEPT !.pc = "scoring", !.id = n, !.suite = dirs[n].suite, !.state = dirs[n].state]
<1>1. (SetJob(p, job) \/ SetJob(p, Idle)) /\ UNCHANGED <<dirs, touched, expired>>
  BY DEF ReadRun
<1>2. /\ SweepOk(job, Evicted) /\ job.doomed = {}
      /\ SweepOk(Idle, Evicted) /\ Idle.doomed = {}
  BY DEF Idle, SweepOk, Removal
<1>3. Evicted' = Evicted
  <2>1. CASE Scorable(n)
    <3>1. n \in Ids /\ Note(n, "early", InProgress(n))
      BY <2>1 DEF ReadRun, Scorable, Readable, Present
    <3> QED
      BY <3>1 DEF Note, Evicted, Shape
  <2>2. CASE ~Scorable(n)
    BY <2>2 DEF ReadRun, Evicted
  <2> QED
    BY <2>1, <2>2
<1>4. StandsStill
  BY <1>1, <1>3, NothingMoves
<1> HIDE DEF job
<1> QED
  BY <1>1, <1>2, <1>4, SetIsJudging DEF StandsStill

\* The sweeps of the retention and of `runs clean` list under a rule.
LEMMA ListingOnDisk ==
  ASSUME Shape, Sweeps, NEW p \in Procs, NEW rule \in Rule, NEW keep,
         SetJob(p, Sweep(rule, keep)), CountRemains, UNCHANGED <<dirs, touched, expired>>
  PROVE  OnDisk
<1> DEFINE job == Sweep(rule, keep)
<1>1. SweepOk(job, Evicted) /\ job.doomed = Doomed(rule)
  BY DEF Sweep, Idle, SweepOk, Removal
<1> HIDE DEF job
<1>2. job.doomed \ job.stale \subseteq Doomed(rule)
  BY <1>1
<1>3. SetJob(p, job)
  BY DEF job
<1>4. Evicted' = Evicted /\ \A m \in Present \cap Evicted : "counted" \in past'[m]
  BY DEF CountRemains, Evicted, Present, Shape
<1>5. StandsStill
  BY <1>4, NothingMoves
<1> QED
  BY <1>1, <1>2, <1>3, <1>4, <1>5, SetIsJudging DEF StandsStill

\* The rules there are.
LEMMA RulesAreRules == Retention \in Rule /\ CleanRules \subseteq Rule
  BY StoreAssumption DEF Retention, Rule

\* Time and stuttering.
LEMMA RestOnDisk == ASSUME Shape, Sweeps, Age \/ UNCHANGED vars PROVE OnDisk
<1>1. dirs' = dirs /\ jobs' = jobs /\ past' = past
  BY DEF Age, vars
<1>2. /\ Sweeps' /\ Present' = Present /\ SuitesStay /\ Evicted' = Evicted
      /\ \A q \in Procs : Unjudged(q)' = Unjudged(q)
  BY <1>1 DEF Sweeps, Present, SuitesStay, Unjudged, Evicted
<1>3. CASE Age
  BY <1>2, <1>3 DEF Age, OnDisk, Ageing
<1>4. CASE UNCHANGED vars
  BY <1>2, <1>4 DEF vars, OnDisk, Judging
<1> QED
  BY <1>3, <1>4

\* An idle process has no sweep.
LEMMA IdleSweeps == SweepOk(Idle, Evicted) /\ Idle.doomed = {} /\ Idle.stale = {}
  BY DEF SweepOk, Idle, Removal

\* What a run's own processes do.
LEMMA MakerOnDisk ==
  ASSUME Shape, Sweeps, NEW p \in Procs,
         \/ WriteFirstState(p) \/ Finish(p) \/ WriteScores(p) \/ WriteCoverage(p)
         \/ \E i \in Items : Call(p, i) \/ CallIsTorn(p, i)
  PROVE  OnDisk
<1> DEFINE n == jobs[p].id
           calling == [jobs[p] EXCEPT !.pc = "calling"]
           scored == [jobs[p] EXCEPT !.pc = "scored"]
           finished == [Idle EXCEPT !.pc = "finished", !.id = n]
           left(i) == [jobs[p] EXCEPT !.todo = jobs[p].todo \ {i}]
           fits(job) == /\ SweepOk(job, Evicted) /\ job.doomed = {}
                        /\ \/ Touch(p, n, job)
                           \/ SetJob(p, job) /\ touched' = touched /\ expired' = expired /\ n \in Present
<1>1. jobs[p].pc \in Making \cup Scoring /\ n \in Ids /\ jobs[p] \in Job /\ jobs[p].doomed = {}
  <2>1. jobs[p].pc \in Making \cup Scoring
    BY DEF WriteFirstState, Finish, WriteScores, WriteCoverage, Call, CallIsTorn, Making, Scoring
  <2> QED
    BY <2>1, WorkIsOfARun DEF Shape, Sweeps, SweepOk, Making, Scoring, Removal
<1>2. /\ SweepOk(calling, Evicted) /\ calling.doomed = {}
      /\ SweepOk(scored, Evicted) /\ scored.doomed = {}
      /\ SweepOk(finished, Evicted) /\ finished.doomed = {}
      /\ jobs[p].pc = "calling" => \A i : SweepOk(left(i), Evicted) /\ left(i).doomed = {}
  BY <1>1 DEF Job, Idle, SweepOk, Removal, Making, Scoring
<1>3. n \in Present /\ dirs' = dirs /\ past' = past => Puts(n)
  BY NothingMoves DEF Puts, StandsStill
<1>4. \A job : fits(job) /\ Puts(n) => OnDisk
  BY <1>1, WorkOnDisk
<1>5. ASSUME n \notin Present, SetJob(p, Idle), dirs' = dirs, past' = past, touched' = touched, expired' = expired
      PROVE  OnDisk
  BY <1>5, IdleSweeps, NothingMoves, SetIsJudging DEF StandsStill
<1> HIDE DEF n
<1>6. CASE WriteFirstState(p)
  <2>1. CASE n \in Present
    <3>1. fits(calling)
      BY <1>2, <1>6, <2>1 DEF WriteFirstState, n
    <3>2. Puts(n)
      BY <1>3, <1>6, <2>1, WriteFirstStateDoes, WorksPut DEF n
    <3> QED
      BY <1>4, <3>1, <3>2
  <2>2. CASE n \notin Present
    BY <1>5, <1>6, <2>2 DEF WriteFirstState, n
  <2> QED
    BY <2>1, <2>2
<1>7. CASE Finish(p)
  <2>1. fits(finished)
    BY <1>2, <1>7 DEF Finish, n
  <2>2. Puts(n)
    BY <1>7, FinishDoes, WorksPut DEF n
  <2> QED
    BY <1>4, <2>1, <2>2
<1>8. CASE WriteScores(p)
  <2>1. CASE n \in Present
    <3>1. fits(scored)
      BY <1>2, <1>8, <2>1 DEF WriteScores, n
    <3>2. Puts(n)
      BY <1>3, <1>8, <2>1 DEF WriteScores
    <3> QED
      BY <1>4, <3>1, <3>2
  <2>2. CASE n \notin Present
    BY <1>5, <1>8, <2>2 DEF WriteScores, n
  <2> QED
    BY <2>1, <2>2
<1>9. CASE WriteCoverage(p)
  <2>1. fits(Idle)
    BY <1>9, IdleSweeps DEF WriteCoverage, n
  <2>2. Puts(n)
    BY <1>9, WriteCoverageDoes, WorksPut DEF n
  <2> QED
    BY <1>4, <2>1, <2>2
<1>10. ASSUME NEW i \in Items, Call(p, i) PROVE OnDisk
  <2>1. fits(left(i))
    BY <1>2, <1>10 DEF Call, IsNewFile, n
  <2>2. Puts(n)
    BY <1>10, CallDoes, WorksPut DEF n
  <2> QED
    BY <1>4, <2>1, <2>2
<1>11. ASSUME NEW i \in Items, CallIsTorn(p, i) PROVE OnDisk
  <2>1. fits(Idle)
    BY <1>11, IdleSweeps DEF CallIsTorn, IsNewFile, n
  <2>2. Puts(n)
    BY <1>11, CallIsTornDoes, WorksPut DEF n
  <2> QED
    BY <1>4, <2>1, <2>2
<1> QED
  BY <1>6, <1>7, <1>8, <1>9, <1>10, <1>11

\* Whatever the step.
LEMMA StepOnDisk ==
  ASSUME Shape, Sweeps, [Next]_vars
  PROVE  OnDisk
<1>1. ASSUME NEW p \in Procs, NEW s \in Suites, NEW m \in Models, MakeDirectory(p, s, m) PROVE OnDisk
  <2> DEFINE job(n) == [Idle EXCEPT !.pc = "starting", !.id = n, !.suite = s, !.todo = Items, !.models = m,
                                    !.state = [status |-> "in_progress", models |-> m]]
  <2>1. PICK n \in Ids \ Born : dirs' = [dirs EXCEPT ![n] = NewDir(s)] /\ Touch(p, n, job(n)) /\ past' = past
    BY <1>1 DEF MakeDirectory, Born
  <2>2. SweepOk(job(n), Evicted) /\ job(n).doomed = {}
    BY DEF Idle, SweepOk, Removal
  <2> HIDE DEF job
  <2>3. NewDir(s) # Absent /\ n \notin Present
    <3>1. NewDir(s) \in [suite : Suites, state : RunState \cup {NoState}, raw : Tails, rows : [Items -> Seq(Models)]]
      BY DEF NewDir, NoRows, Tails
    <3> QED
      BY <3>1, StoreAssumption DEF Shape
  <2>4. Puts(n)
    BY <2>1, <2>3 DEF Puts, Shape, Present, SuitesStay, Evicted
  <2> QED
    BY <2>1, <2>2, <2>4, WorkOnDisk
<1>2. ASSUME NEW p \in Procs, NEW s \in Suites, NEW m \in Models, Resume(p, s, m) PROVE OnDisk
  <2> DEFINE n == FindLatestInProgress
             job == [Idle EXCEPT !.pc = "calling", !.id = n, !.suite = s,
                                 !.todo = Items \ Recorded(n), !.models = m, !.state = dirs[n].state]
             deeds == (IF Workers(n) # {} THEN {"shared"} ELSE {})
                      \cup (IF m # dirs[n].state.models THEN {"remodelled"} ELSE {})
  <2>1. SetJob(p, job) /\ UNCHANGED <<dirs, touched, expired>> /\ n \in Ids
    BY <1>2, LatestIsInProgress DEF Resume
  <2>2. past' = [past EXCEPT ![n] = @ \cup deeds] /\ "evicted" \notin deeds
    BY <1>2 DEF Resume
  <2> HIDE DEF n, deeds
  <2>3. SweepOk(job, Evicted) /\ job.doomed = {}
    BY DEF Idle, SweepOk, Removal
  <2> HIDE DEF job
  <2>4. StandsStill
    BY <2>1, <2>2, NotEvicted, NothingMoves
  <2> QED
    BY <2>1, <2>3, <2>4, SetIsJudging DEF StandsStill
<1>3. ASSUME NEW p \in Procs,
             \/ WriteFirstState(p) \/ Finish(p) \/ WriteScores(p) \/ WriteCoverage(p)
             \/ \E i \in Items : Call(p, i) \/ CallIsTorn(p, i)
      PROVE  OnDisk
  BY <1>3, MakerOnDisk
<1>4. ASSUME NEW p \in Procs,
             JudgeOne(p) \/ ListFiles(p) \/ RemovalFails(p) \/ RemoveDirectory(p)
             \/ \E f \in Files : Unlink(p, f) \/ UnlinkGone(p, f)
      PROVE  OnDisk
  BY <1>4, JudgeOneOnDisk, RemovalOnDisk, UnlinkOnDisk, RemoveDirectoryOnDisk
<1>5. ASSUME NEW p \in Procs, PruneOldRuns(p) PROVE OnDisk
  BY <1>5, ListingOnDisk, RulesAreRules DEF PruneOldRuns
<1>6. ASSUME NEW p \in Procs, PruneEnds(p) PROVE OnDisk
  <2>1. \/ ReadRun(p, jobs[p].keep)
        \/ SetJob(p, Idle) /\ UNCHANGED <<dirs, touched, expired, past>>
    BY <1>6 DEF PruneEnds
  <2>2. jobs[p].keep \in Ids \cup {NoId}
    BY DEF Shape, Job
  <2>3. CASE SetJob(p, Idle) /\ UNCHANGED <<dirs, touched, expired, past>>
    BY <2>3, IdleSweeps, NothingMoves, SetIsJudging DEF StandsStill
  <2> QED
    BY <2>1, <2>2, <2>3, ReadRunOnDisk
<1>7. ASSUME NEW p \in Procs, NEW rule \in CleanRules, Preview(p, rule) PROVE OnDisk
  <2> DEFINE job == [Idle EXCEPT !.pc = "asking", !.rule = rule]
  <2>1. SweepOk(job, Evicted) /\ job.doomed = {}
    BY DEF SweepOk, Idle, Removal
  <2>2. SetJob(p, job) /\ UNCHANGED <<dirs, touched, expired, past>>
    BY <1>7 DEF Preview
  <2> HIDE DEF job
  <2> QED
    BY <2>1, <2>2, NothingMoves, SetIsJudging DEF StandsStill
<1>8. ASSUME NEW p \in Procs, Confirm(p) PROVE OnDisk
  <2>1. jobs[p].rule \in Rule
    BY <1>8, RulesAreRules DEF Confirm, Sweeps, SweepOk
  <2>2. /\ \/ SetJob(p, Idle) /\ past' = past
           \/ SetJob(p, Sweep(jobs[p].rule, NoId)) /\ CountRemains
        /\ UNCHANGED <<dirs, touched, expired>>
    BY <1>8 DEF Confirm
  <2>3. CASE SetJob(p, Idle) /\ past' = past
    BY <2>2, <2>3, IdleSweeps, NothingMoves, SetIsJudging DEF StandsStill
  <2> QED
    BY <2>1, <2>2, <2>3, ListingOnDisk
<1>9. ASSUME NEW p \in Procs, NEW n \in Ids, Evaluate(p, n) PROVE OnDisk
  BY <1>9, ReadRunOnDisk DEF Evaluate
<1>10. ASSUME NEW p \in Procs, Kill(p) PROVE OnDisk
  BY <1>10, IdleSweeps, NothingMoves, SetIsJudging DEF Kill, StandsStill
<1>11. CASE Age \/ UNCHANGED vars
  BY <1>11, RestOnDisk
<1> QED
  BY <1>1, <1>2, <1>3, <1>4, <1>5, <1>6, <1>7, <1>8, <1>9, <1>10, <1>11, Zenon DEF Next

\* The order of the mtimes is kept by every step.
LEMMA OrderedStep ==
  ASSUME Ordered, OnDisk
  PROVE  Ordered'
<1>0. OneEach(touched) /\ Elems(touched) = Present /\ BeginsWith(touched, expired)
  BY DEF Ordered
<1>1. CASE Touching
  <2>1. PICK n \in Ids :
          /\ touched' = Append(Without(touched, n), n) /\ expired' = expired \ {n}
          /\ Present' = Present \cup {n}
    BY <1>1 DEF Touching
  <2> DEFINE t == Append(Without(touched, n), n)
  <2>2. OneEach(t) /\ Elems(t) = Present \cup {n} /\ BeginsWith(t, expired \ {n})
    BY <1>0, TouchedComesLast
  <2> HIDE DEF t
  <2>3. touched' = t
    BY <2>1 DEF t
  <2> QED
    BY <2>1, <2>2, <2>3 DEF Ordered
<1>2. CASE Judging
  BY <1>0, <1>2 DEF Judging, Ordered
<1>3. CASE Evicting
  <2>1. PICK n \in Present :
          /\ expired' = expired \ {n}
          /\ \/ touched' = Without(touched, n) /\ Present' = Present \ {n}
             \/ touched' = Append(Without(touched, n), n) /\ Present' = Present
    BY <1>3 DEF Evicting
  <2> DEFINE w == Without(touched, n)
             t == Append(Without(touched, n), n)
  <2>2. /\ OneEach(w) /\ Elems(w) = Present \ {n} /\ BeginsWith(w, expired \ {n})
        /\ OneEach(t) /\ Elems(t) = Present /\ BeginsWith(t, expired \ {n})
    <3>1. n \in Ids /\ Present \cup {n} = Present
      BY DEF Present
    <3> QED
      BY <1>0, <3>1, WithoutKeepsOrder, TouchedComesLast
  <2>3. (touched' = w /\ Present' = Present \ {n}) \/ (touched' = t /\ Present' = Present)
    BY <2>1
  <2> HIDE DEF w, t
  <2> QED
    BY <2>1, <2>2, <2>3 DEF Ordered
<1>4. CASE Ageing
  <2>1. PICK e \in 0..Len(touched) : expired = {touched[k] : k \in 1..e}
    BY <1>0 DEF BeginsWith
  <2>2. Cardinality(expired) = e /\ Len(touched) \in Nat
    <3>1. Cardinality({touched[k] : k \in 1..e}) = e
      BY <1>0, BeginsWithAsMany
    <3>2. Cardinality(expired) = e
      BY <2>1, <3>1, Zenon
    <3> QED
      BY <1>0, <3>2 DEF OneEach
  <2>3. e + 1 \in 0..Len(touched) /\ expired' = expired \cup {touched[e + 1]} /\ 1..e + 1 = (1..e) \cup {e + 1}
    BY <1>4, <2>2 DEF Ageing
  <2>4. expired' = {touched[k] : k \in 1..e + 1}
    BY <2>1, <2>3
  <2>5. BeginsWith(touched, expired')
    BY <2>3, <2>4 DEF BeginsWith
  <2> QED
    BY <1>0, <1>4, <2>5 DEF Ageing, Ordered
<1> QED
  BY <1>1, <1>2, <1>3, <1>4 DEF OnDisk

\* A list spares the newest of a suite, and what it takes by age is expired.
LEMMA ListedAreOld ==
  ASSUME Ordered, NEW rule \in Rule, NEW n \in Doomed(rule)
  PROVE  \/ n \in expired
         \/ \E m \in Present : dirs[m].suite = dirs[n].suite /\ Precedes(touched, n, m)
<1>0. OneEach(touched) /\ Elems(touched) = Present
  BY DEF Ordered
<1>1. PICK s \in Suites :
        n \in (IF rule.ttl THEN Group(rule, s) \cap expired ELSE {})
              \cup (IF rule.max > 0 THEN Group(rule, s) \ Newest(Group(rule, s), rule.max) ELSE {})
  BY DEF Doomed
<1>2. CASE n \in expired
  BY <1>2
<1>3. CASE n \notin expired
  <2> DEFINE G == Group(rule, s)
             newer == {m \in G : At(touched, m) > At(touched, n)}
  <2>1. n \in G /\ rule.max > 0 /\ n \notin Newest(G, rule.max)
    BY <1>1, <1>3
  <2>2. ~(Cardinality(newer) < rule.max)
    BY <2>1 DEF Newest
  <2>3. rule.max \in Nat
    BY DEF Rule
  <2>4. newer # {}
    BY <2>1, <2>2, <2>3, FS_EmptySet
  <2>5. PICK m \in G : At(touched, m) > At(touched, n)
    BY <2>4
  <2>6. m \in Present /\ n \in Present /\ dirs[m].suite = s /\ dirs[n].suite = s
    BY <2>1 DEF Group
  <2>7. /\ At(touched, m) \in 1..Len(touched) /\ touched[At(touched, m)] = m
        /\ At(touched, n) \in 1..Len(touched) /\ touched[At(touched, n)] = n
    BY <1>0, <2>6, PlaceOf
  <2>8. DOMAIN touched = 1..Len(touched) /\ Len(touched) \in Nat
    BY <1>0 DEF OneEach
  <2>9. Precedes(touched, n, m)
    BY <2>5, <2>7, <2>8 DEF Precedes
  <2> QED
    BY <2>6, <2>9
<1> QED
  BY <1>2, <1>3

\* What is before an expired directory is expired, and before is transitive.
LEMMA OlderStill ==
  ASSUME Ordered, NEW a, NEW b, Precedes(touched, b, a)
  PROVE  /\ a # b /\ (a \in expired => b \in expired)
         /\ \A c : Precedes(touched, a, c) => Precedes(touched, b, c)
<1>0. /\ touched \in Seq(Ids) /\ DOMAIN touched = 1..Len(touched) /\ Len(touched) \in Nat
      /\ \A k, l \in DOMAIN touched : touched[k] = touched[l] => k = l
  BY DEF Ordered, OneEach
<1>1. PICK i, j \in 1..Len(touched) : i < j /\ touched[i] = b /\ touched[j] = a
  BY <1>0 DEF Precedes
<1>2. a # b
  BY <1>0, <1>1
<1>3. ASSUME a \in expired PROVE b \in expired
  <2>1. PICK e \in 0..Len(touched) : expired = {touched[k] : k \in 1..e}
    BY DEF Ordered, BeginsWith
  <2>2. PICK k \in 1..e : touched[k] = a
    BY <1>3, <2>1
  <2>3. k \in 1..Len(touched)
    BY <1>0
  <2>4. k = j
    BY <1>0, <1>1, <2>2, <2>3
  <2>5. i \in 1..e
    BY <1>0, <1>1, <2>4
  <2> QED
    BY <1>1, <2>1, <2>5
<1>4. ASSUME NEW c, Precedes(touched, a, c) PROVE Precedes(touched, b, c)
  <2>1. PICK k, l \in 1..Len(touched) : k < l /\ touched[k] = a /\ touched[l] = c
    BY <1>0, <1>4 DEF Precedes
  <2>2. k = j
    BY <1>0, <1>1, <2>1
  <2>3. i < l
    BY <1>0, <1>1, <2>1, <2>2
  <2> QED
    BY <1>0, <1>1, <2>1, <2>3 DEF Precedes
<1> QED
  BY <1>2, <1>3, <1>4

\* Who is before whom is on the disk.
LEMMA PlacedArePresent ==
  ASSUME Ordered, NEW a, NEW b, Precedes(touched, b, a)
  PROVE  a \in Present /\ b \in Present
  BY DEF Ordered, Elems, Precedes

\* A run that a sweep may remove stays past its TTL or behind a newer run.
LEMMA AgingStep ==
  ASSUME Ordered, Aging, OnDisk, \A m \in Ids : past[m] \subseteq past'[m]
  PROVE  Aging'
<1> SUFFICES ASSUME Undisturbed', NEW p \in Procs, NEW n \in Unjudged(p)', n \in Present'
             PROVE  n \in expired' \/ Outlived(n)'
  BY DEF Aging
<1>0. \A q \in Procs : \A r \in Unjudged(q) \cap Present : r \in expired \/ Outlived(r)
  <2>1. Undisturbed
    BY DEF Undisturbed
  <2> QED
    BY <2>1 DEF Aging
<1>1. OneEach(touched) /\ Elems(touched) = Present
  BY DEF Ordered
<1>2. SuitesStay
  BY DEF OnDisk
<1>3. CASE Touching
  <2>1. PICK x \in Ids :
          /\ touched' = Append(Without(touched, x), x) /\ expired' = expired \ {x}
          /\ Present' = Present \cup {x} /\ Evicted' = Evicted
          /\ \A q \in Procs : Unjudged(q)' \subseteq Unjudged(q) \ {x}
    BY <1>3 DEF Touching
  <2>2. n # x /\ n \in Present /\ n \in Unjudged(p)
    BY <2>1
  <2> DEFINE t == Append(Without(touched, x), x)
  <2>3. /\ \A a, b : Precedes(touched, b, a) /\ a # x /\ b # x => Precedes(t, b, a)
        /\ \A b \in Present \ {x} : Precedes(t, b, x)
    BY <1>1, TouchedComesLast
  <2> HIDE DEF t
  <2>4. touched' = t
    BY <2>1 DEF t
  <2>5. CASE n \in expired
    BY <2>1, <2>2, <2>5
  <2>6. ASSUME NEW m \in Present, dirs[m].suite = dirs[n].suite, Precedes(touched, n, m), m \notin Evicted
        PROVE  Outlived(n)'
    <3>1. m \in Present' /\ dirs'[m].suite = dirs'[n].suite /\ m \notin Evicted'
      BY <1>2, <2>1, <2>2, <2>6 DEF SuitesStay
    <3>2. Precedes(t, n, m)
      BY <2>2, <2>3, <2>6
    <3> QED
      BY <2>4, <3>1, <3>2 DEF Outlived
  <2> QED
    BY <1>0, <2>2, <2>5, <2>6 DEF Outlived
<1>4. CASE Judging
  <2>1. touched' = touched /\ expired' = expired /\ Present' = Present /\ Evicted' = Evicted
    BY <1>4 DEF Judging
  <2>2. \A m \in Present : dirs'[m].suite = dirs[m].suite
    BY <1>2, <2>1 DEF SuitesStay
  <2>3. n \in expired \/ Outlived(n)
    <3>1. CASE n \in Unjudged(p)
      BY <1>0, <2>1, <3>1
    <3>2. CASE n \notin Unjudged(p)
      <4>1. PICK rule \in Rule : n \in Doomed(rule)
        BY <1>4, <3>2 DEF Judging
      <4>2. \A m \in Present \cap Evicted : "counted" \in past'[m]
        BY <1>4, <3>2 DEF Judging
      <4>3. \A m \in Present : m \notin Evicted
        BY <4>2 DEF Undisturbed, Present
      <4>4. n \in expired \/ \E m \in Present : dirs[m].suite = dirs[n].suite /\ Precedes(touched, n, m)
        BY <4>1, ListedAreOld
      <4> QED
        BY <4>3, <4>4 DEF Outlived
    <3> QED
      BY <3>1, <3>2
  <2>4. Outlived(n) => Outlived(n)'
    BY <2>1, <2>2 DEF Outlived
  <2> QED
    BY <2>1, <2>3, <2>4
<1>5. CASE Evicting
  <2>1. PICK x \in Present :
          /\ expired' = expired \ {x} /\ Evicted' = Evicted \cup {x}
          /\ \A q \in Procs : Unjudged(q)' \subseteq Unjudged(q)
          /\ \/ touched' = Without(touched, x) /\ Present' = Present \ {x}
             \/ /\ touched' = Append(Without(touched, x), x) /\ Present' = Present
                /\ \A q \in Procs : x \notin Unjudged(q)'
          /\ (\E q \in Procs : x \in Unjudged(q)) \/ x \in Evicted \/ "outdated" \in past'[x]
    BY <1>5 DEF Evicting
  <2>2. n # x /\ n \in Present /\ n \in Unjudged(p) /\ x \in Ids
    BY <2>1 DEF Present
  <2>3. /\ n \in expired \/ Outlived(n)
        /\ x \notin Evicted => x \in expired \/ Outlived(x)
    BY <1>0, <2>1, <2>2 DEF Undisturbed
  <2>4. \A a, b : Precedes(touched, b, a) /\ a # x /\ b # x => Precedes(touched', b, a)
    <3> DEFINE w == Without(touched, x)
               t == Append(Without(touched, x), x)
    <3>1. \A a, b : Precedes(touched, b, a) /\ a # x /\ b # x => Precedes(w, b, a) /\ Precedes(t, b, a)
      BY <1>1, <2>2, WithoutKeepsOrder, TouchedComesLast
    <3>2. touched' = w \/ touched' = t
      BY <2>1
    <3> HIDE DEF w, t
    <3> QED
      BY <3>1, <3>2
  <2>5. ASSUME NEW m \in Present, dirs[m].suite = dirs[n].suite, Precedes(touched, n, m), m \notin Evicted, m # x
        PROVE  Outlived(n)'
    <3>1. m \in Present' /\ dirs'[m].suite = dirs'[n].suite /\ m \notin Evicted'
      BY <1>2, <2>1, <2>2, <2>5 DEF SuitesStay
    <3>2. Precedes(touched', n, m)
      BY <2>2, <2>4, <2>5
    <3> QED
      BY <3>1, <3>2 DEF Outlived
  <2>6. CASE n \in expired
    BY <2>1, <2>2, <2>6
  <2>7. ASSUME dirs[x].suite = dirs[n].suite, Precedes(touched, n, x), x \notin Evicted, n \notin expired
        PROVE  Outlived(n)'
    <3>1. x \notin expired
      BY <2>7, OlderStill
    <3>2. PICK y \in Present : dirs[y].suite = dirs[x].suite /\ Precedes(touched, x, y) /\ y \notin Evicted
      BY <2>3, <2>7, <3>1 DEF Outlived
    <3>3. Precedes(touched, n, y) /\ y # x
      BY <2>7, <3>2, OlderStill
    <3> QED
      BY <2>5, <2>7, <3>2, <3>3
  <2> QED
    BY <2>3, <2>5, <2>6, <2>7 DEF Outlived
<1>6. CASE Ageing
  <2>1. /\ touched' = touched /\ expired \subseteq expired' /\ Present' = Present /\ Evicted' = Evicted
        /\ n \in Unjudged(p)
    BY <1>6 DEF Ageing
  <2>2. n \in expired \/ Outlived(n)
    BY <1>0, <2>1
  <2>3. \A m \in Present : dirs'[m].suite = dirs[m].suite
    BY <1>2, <2>1 DEF SuitesStay
  <2>4. Outlived(n) => Outlived(n)'
    BY <2>1, <2>3 DEF Outlived
  <2> QED
    BY <2>1, <2>2, <2>4
<1> QED
  BY <1>3, <1>4, <1>5, <1>6 DEF OnDisk

\* The two invariants together.
SweepInv == Inv /\ Sweeps /\ Ordered /\ Aging

\* They hold before the first command.
LEMMA SweepInvInit == Init => SweepInv
<1> SUFFICES ASSUME Init PROVE SweepInv
  OBVIOUS
<1>1. Inv
  BY InvInit
<1>2. \A p \in Procs : jobs[p] = Idle
  BY DEF Init
<1>3. Sweeps
  BY <1>2, IdleSweeps DEF Sweeps
<1>4. touched = <<>> /\ expired = {} /\ Present = {}
  BY DEF Init, Present
<1>5. Ordered
  <2>1. OneEach(touched) /\ Elems(touched) = {}
    BY <1>4 DEF OneEach, Elems
  <2>2. 0 \in 0..Len(touched) /\ 1..0 = {}
    BY <1>4
  <2>3. BeginsWith(touched, expired)
    BY <1>4, <2>2 DEF BeginsWith
  <2> QED
    BY <1>4, <2>1, <2>3 DEF Ordered
<1>6. Aging
  BY <1>4 DEF Aging
<1> QED
  BY <1>1, <1>3, <1>5, <1>6 DEF SweepInv

\* Every step keeps them.
LEMMA SweepInvStep == SweepInv /\ [Next]_vars => SweepInv'
<1> SUFFICES ASSUME SweepInv, [Next]_vars PROVE SweepInv'
  OBVIOUS
<1>1. Inv /\ Inv' /\ Shape /\ Sweeps /\ Ordered /\ Aging
  BY InvStep DEF SweepInv, Inv
<1>2. OnDisk
  BY <1>1, StepOnDisk
<1>3. \A m \in Ids : past[m] \subseteq past'[m]
  BY <1>1, StepChanges DEF Changes
<1> QED
  BY <1>1, <1>2, <1>3, OrderedStep, AgingStep DEF SweepInv, OnDisk

\* So they hold always.
LEMMA SpecSweepInv == Spec => []SweepInv
  BY SweepInvInit, SweepInvStep, PTL DEF Spec

-----------------------------------------------------------------------------
(* The newest of a suite *)

\* What a sweep may not do to the run n.
KeepsNewest(n) ==
  /\ "evicted" \in past'[n] \ past[n]
  /\ \A m \in Ids : past'[m] \cap {"outdated", "counted"} = {}
  => \E m \in Present : /\ dirs[m].suite = dirs[n].suite
                        /\ At(touched, m) > At(touched, n)
                        /\ "evicted" \notin past[m]

\* "A rarely-run suite isn't evicted just because another suite is busy"
\* (docs/configuration.md): when a sweep first takes a file of a run that is
\* not past its TTL, or its directory, a newer run of its own suite that no
\* sweep has touched is beside it, whatever goes on between the list, the look
\* and the removal.
THEOREM NewestSurvives == Spec => SuitesKeepTheirNewest
<1>1. ASSUME SweepInv, [Next]_vars, NEW n \in Present \ expired, "evicted" \in past'[n] \ past[n],
             \A m \in Ids : past'[m] \cap {"outdated", "counted"} = {}
      PROVE  \E m \in Present : /\ dirs[m].suite = dirs[n].suite
                                /\ At(touched, m) > At(touched, n)
                                /\ "evicted" \notin past[m]
  <2>1. OnDisk /\ Aging /\ Ordered
    BY <1>1, StepOnDisk DEF SweepInv, Inv
  <2>2. n \in Ids /\ n \in Evicted' /\ n \notin Evicted
    BY <1>1 DEF Present, Evicted
  <2>3. \E p \in Procs : n \in Unjudged(p)
    <3>1. Evicting
      BY <2>1, <2>2 DEF OnDisk, Touching, Judging, Ageing
    <3>2. PICK x \in Present : /\ Evicted' = Evicted \cup {x}
                               /\ (\E p \in Procs : x \in Unjudged(p)) \/ x \in Evicted \/ "outdated" \in past'[x]
      BY <3>1 DEF Evicting
    <3>3. x = n
      BY <2>2, <3>2
    <3> QED
      BY <1>1, <2>2, <3>2, <3>3
  <2>4. Undisturbed
    <3>1. \A m \in Ids : past[m] \subseteq past'[m]
      BY <1>1, StepChanges DEF Changes, SweepInv
    <3> QED
      BY <1>1, <3>1 DEF Undisturbed
  <2>5. PICK m \in Present : dirs[m].suite = dirs[n].suite /\ Precedes(touched, n, m) /\ m \notin Evicted
    BY <1>1, <2>1, <2>2, <2>3, <2>4 DEF Aging, Outlived
  <2>6. /\ OneEach(touched) /\ m \in Elems(touched) /\ n \in Elems(touched)
        /\ DOMAIN touched = 1..Len(touched) /\ Len(touched) \in Nat
    BY <1>1, <2>1, <2>5 DEF Ordered, OneEach
  <2>7. PICK i, j \in 1..Len(touched) : i < j /\ touched[i] = n /\ touched[j] = m
    BY <2>5, <2>6 DEF Precedes
  <2>8. i = At(touched, n) /\ j = At(touched, m)
    BY <2>6, <2>7, PlaceOf
  <2>9. At(touched, m) > At(touched, n)
    <3> DEFINE a == At(touched, m)
               b == At(touched, n)
    <3>1. i = b /\ j = a /\ i < j /\ i \in Nat /\ j \in Nat
      BY <2>6, <2>7, <2>8
    <3> HIDE DEF a, b
    <3>2. a > b
      BY <3>1
    <3> QED
      BY <3>2 DEF a, b
  <2>10. "evicted" \notin past[m]
    BY <2>5 DEF Evicted, Present
  <2> QED
    BY <2>5, <2>9, <2>10
<1> DEFINE step == \A n \in Present \ expired : KeepsNewest(n)
<1>2. SweepInv /\ [Next]_vars => [step]_vars
  BY <1>1 DEF KeepsNewest
<1> HIDE DEF step
<1>3. Spec => [][step]_vars
  BY <1>2, SpecSweepInv, PTL DEF Spec
<1> QED
  BY <1>3 DEF step, KeepsNewest, SuitesKeepTheirNewest

-----------------------------------------------------------------------------
(* Types *)

\* p is still to make a row of item i.
Waits(p, n, i) == Makes(p, n) /\ i \in jobs[p].todo

Through(n, i) == {p \in Procs : ~Waits(p, n, i)}

\* An item has at most as many rows as there are processes that are not about
\* to make another: each takes up an item once, when it has none.
Counted == \A n \in Present, i \in Items : Len(dirs[n].rows[i]) <= Cardinality(Through(n, i))

\* What keeps that so, but for a row that is made.
NoNewWork(n, i) == \A p \in Procs : Waits(p, n, i)' => Waits(p, n, i)

SameRows(n, i) ==
  n \in Present' => \/ dirs'[n].rows[i] = <<>>
                    \/ n \in Present /\ dirs'[n].rows[i] = dirs[n].rows[i]

Keeps == \A n \in Ids, i \in Items : NoNewWork(n, i) /\ SameRows(n, i)

\* Processes are finitely many.
LEMMA ThroughIsFinite ==
  ASSUME NEW T \in SUBSET Procs
  PROVE  /\ IsFiniteSet(T) /\ Cardinality(T) \in Nat /\ Cardinality(T) <= Cardinality(Procs)
         /\ \A S \in SUBSET T : Cardinality(S) \in Nat /\ Cardinality(S) <= Cardinality(T)
  BY StoreAssumption, FS_Subset, FS_CardinalityType

\* Present directories hold rows.
LEMMA RowsAreSequences ==
  ASSUME Shape, NEW n \in Present, NEW i \in Items
  PROVE  dirs[n].rows[i] \in Seq(Models) /\ Len(dirs[n].rows[i]) \in Nat
<1>1. dirs[n] \in Run
  BY DEF Shape, Present
<1>2. dirs[n].rows \in [Items -> Seq(Models)]
  BY <1>1 DEF Run
<1>3. dirs[n].rows[i] \in Seq(Models)
  BY <1>2
<1> QED
  BY <1>3

\* One run's item, when nobody takes it up and no row of it is made.
LEMMA KeptItem ==
  ASSUME Shape, Shape', Counted, NEW n \in Ids, n \in Present', NEW i \in Items, NoNewWork(n, i), SameRows(n, i)
  PROVE  (Len(dirs[n].rows[i]) <= Cardinality(Through(n, i)))'
<1> DEFINE T == Through(n, i)
<1>1. T' \in SUBSET Procs /\ T \in SUBSET T'
  BY DEF Through, NoNewWork
<1>2. Cardinality(T') \in Nat /\ Cardinality(T) \in Nat /\ Cardinality(T) <= Cardinality(T')
  BY <1>1, ThroughIsFinite
<1>3. CASE dirs'[n].rows[i] = <<>>
  BY <1>2, <1>3
<1>4. CASE n \in Present /\ dirs'[n].rows[i] = dirs[n].rows[i]
  <2>1. Len(dirs[n].rows[i]) <= Cardinality(T) /\ Len(dirs[n].rows[i]) \in Nat
    BY <1>4, RowsAreSequences DEF Counted
  <2> HIDE DEF T
  <2>2. Len(dirs'[n].rows[i]) <= Cardinality(T')
    BY <1>2, <1>4, <2>1
  <2> QED
    BY <2>2 DEF T
<1> QED
  BY <1>3, <1>4 DEF SameRows

\* So it is, for all of them.
LEMMA KeptItems ==
  ASSUME Shape, Shape', Counted, Keeps
  PROVE  Counted'
<1> SUFFICES ASSUME NEW n \in Present', NEW i \in Items
             PROVE  (Len(dirs[n].rows[i]) <= Cardinality(Through(n, i)))'
  BY DEF Counted
<1>1. n \in Ids
  BY DEF Present
<1> QED
  BY <1>1, KeptItem DEF Keeps

\* A process that leaves, or goes on with no more to do, takes up nothing.
LEMMA LeavesNoWork ==
  ASSUME NEW p \in Procs,
         \/ Leaves(p)
         \/ \E todo \in SUBSET jobs[p].todo : GoesOn(p, todo)
         \/ \E job \in Job : Becomes(p, job) /\ job.pc = "scoring",
         NEW n, NEW i
  PROVE  NoNewWork(n, i)
  BY DEF Leaves, GoesOn, Becomes, NoNewWork, Waits, Makes, Making, Scoring

\* Directories left alone, and one whose rows are left or taken.
LEMMA LeavesRows ==
  ASSUME Shape, NEW n \in Ids, NEW i \in Items,
         \/ dirs' = dirs
         \/ \E k \in Ids : dirs' = [dirs EXCEPT ![k] = Absent]
         \/ \E k \in Ids : \E state, raw, rows : Writes(k, state, raw, rows) /\ rows \in {NoRows, RowsOf(k)}
  PROVE  SameRows(n, i)
<1>1. CASE dirs' = dirs
  BY <1>1 DEF SameRows, Present
<1>2. ASSUME NEW k \in Ids, dirs' = [dirs EXCEPT ![k] = Absent] PROVE SameRows(n, i)
  BY <1>2 DEF SameRows, Present, Shape
<1>3. ASSUME NEW k \in Ids, NEW state, NEW raw, NEW rows, Writes(k, state, raw, rows), rows \in {NoRows, RowsOf(k)}
      PROVE  SameRows(n, i)
  <2>1. /\ dirs'[k].rows = rows /\ Present' = Present \cup {k}
        /\ \A r \in Ids \ {k} : dirs'[r] = dirs[r]
    BY <1>3, WritesOne
  <2> QED
    BY <1>3, <2>1 DEF SameRows, RowsOf, NoRows
<1> QED
  BY <1>1, <1>2, <1>3

\* A step that does both.
LEMMA KeepsThem ==
  ASSUME Shape, NEW p \in Procs,
         \/ Leaves(p)
         \/ \E todo \in SUBSET jobs[p].todo : GoesOn(p, todo)
         \/ \E job \in Job : Becomes(p, job) /\ job.pc = "scoring",
         \/ dirs' = dirs
         \/ \E k \in Ids : dirs' = [dirs EXCEPT ![k] = Absent]
         \/ \E k \in Ids : \E state, raw, rows : Writes(k, state, raw, rows) /\ rows \in {NoRows, RowsOf(k)}
  PROVE  Keeps
<1> SUFFICES ASSUME NEW n \in Ids, NEW i \in Items PROVE NoNewWork(n, i) /\ SameRows(n, i)
  BY DEF Keeps
<1>1. NoNewWork(n, i)
  BY LeavesNoWork
<1>2. SameRows(n, i)
  BY LeavesRows
<1> QED
  BY <1>1, <1>2

\* A row is made by a process that was to make it, or lost.
LEMMA RowCounts ==
  ASSUME Shape, Shape', Counted, NEW p \in Procs, NEW i \in Items, AddsRow(p, i)
  PROVE  Counted'
<1>1. PICK state, raw, rows, deeds :
        /\ jobs[p].pc = "calling" /\ i \in jobs[p].todo
        /\ Works(p, state, raw, rows, deeds) /\ GoesOn(p, jobs[p].todo \ {i})
        /\ \/ rows = RowsWith(jobs[p].id, i, jobs[p].models)
           \/ rows = RowsOf(jobs[p].id)
  BY DEF AddsRow
<1>2. PICK k \in Ids : k = jobs[p].id
  BY <1>1, WorkIsOfARun DEF Making
<1>3. Writes(k, state, raw, rows) /\ jobs[p].models \in Models
  BY <1>1, <1>2 DEF Works, Shape, Making
<1>4. CASE rows = RowsOf(k)
  <2>1. Keeps
    BY <1>1, <1>3, <1>4, KeepsThem
  <2> QED
    BY <2>1, KeptItems
<1>5. CASE rows = RowsWith(k, i, jobs[p].models)
  <2> SUFFICES ASSUME NEW n \in Present', NEW j \in Items
               PROVE  (Len(dirs[n].rows[j]) <= Cardinality(Through(n, j)))'
    BY DEF Counted
  <2>1. /\ dirs'[k].rows = [RowsOf(k) EXCEPT ![i] = Append(@, jobs[p].models)]
        /\ Present' = Present \cup {k} /\ \A r \in Ids \ {k} : dirs'[r] = dirs[r]
    BY <1>3, <1>5, WritesOne DEF RowsWith
  <2>2. n \in Ids /\ NoNewWork(n, j)
    BY <1>1, LeavesNoWork DEF Present
  <2>3. RowsOf(k) \in [Items -> Seq(Models)]
    BY TwoStatuses
  <2>4. CASE n # k \/ j # i
    <3>1. SameRows(n, j)
      BY <2>1, <2>2, <2>3, <2>4 DEF SameRows, RowsOf, NoRows
    <3> QED
      BY <2>2, <3>1, KeptItem
  <2>5. CASE n = k /\ j = i
    <3> DEFINE T == Through(k, i)
               U == Through(k, i)'
    <3>1. U = T \cup {p} /\ p \notin T
      <4>1. Waits(p, k, i)
        BY <1>1, <1>2 DEF Waits, Makes, Making
      <4>2. ~Waits(p, k, i)'
        BY <1>1 DEF Waits, GoesOn, Becomes
      <4>3. \A q \in Procs \ {p} : Waits(q, k, i)' <=> Waits(q, k, i)
        BY <1>1 DEF Waits, Makes, GoesOn, Becomes
      <4> QED
        BY <4>1, <4>2, <4>3 DEF Through
    <3>2. T \in SUBSET Procs
      BY DEF Through
    <3> HIDE DEF T, U
    <3>3. Cardinality(U) = Cardinality(T) + 1 /\ Cardinality(T) \in Nat
      BY <3>1, <3>2, ThroughIsFinite, FS_AddElement
    <3>4. dirs'[k].rows[i] = Append(RowsOf(k)[i], jobs[p].models)
      BY <2>1, <2>3
    <3>5. Len(dirs'[k].rows[i]) = Len(RowsOf(k)[i]) + 1 /\ Len(RowsOf(k)[i]) \in Nat
      <4>1. RowsOf(k)[i] \in Seq(Models)
        BY <2>3
      <4> QED
        BY <1>3, <3>4, <4>1
    <3>6. Len(RowsOf(k)[i]) <= Cardinality(T)
      <4>1. CASE k \in Present
        BY <4>1 DEF T, Counted, RowsOf
      <4>2. CASE k \notin Present
        <5>1. RowsOf(k)[i] = <<>>
          BY <4>2 DEF RowsOf, NoRows
        <5> QED
          BY <3>3, <5>1
      <4> QED
        BY <4>1, <4>2
    <3>7. Len(dirs'[k].rows[i]) <= Cardinality(U)
      BY <3>3, <3>5, <3>6
    <3> QED
      BY <2>5, <3>7 DEF U
  <2> QED
    BY <2>4, <2>5
<1> QED
  BY <1>1, <1>2, <1>4, <1>5

\* A resume takes up the items without a row.
LEMMA ResumeCounts ==
  ASSUME Shape, Shape', Counted, NEW p \in Procs, Resumes(p)
  PROVE  Counted'
<1> SUFFICES ASSUME NEW n \in Present', NEW i \in Items
             PROVE  (Len(dirs[n].rows[i]) <= Cardinality(Through(n, i)))'
  BY DEF Counted
<1>1. PICK k \in Ids, job \in Job :
        /\ dirs' = dirs /\ Becomes(p, job) /\ job.id = k /\ job.todo = Items \ Recorded(k)
  BY DEF Resumes
<1>2. n \in Ids /\ SameRows(n, i)
  BY <1>1, LeavesRows DEF Present
<1>3. CASE n = k /\ i \notin Recorded(k)
  <2>1. dirs'[n].rows[i] = <<>>
    BY <1>1, <1>3 DEF Recorded
  <2>2. Cardinality(Through(n, i)') \in Nat
    <3>1. Through(n, i)' \in SUBSET Procs
      BY DEF Through
    <3> QED
      BY <3>1, ThroughIsFinite
  <2> QED
    BY <2>1, <2>2
<1>4. CASE ~(n = k /\ i \notin Recorded(k))
  <2>1. NoNewWork(n, i)
    BY <1>1, <1>4 DEF NoNewWork, Waits, Makes, Becomes
  <2> QED
    BY <1>2, <2>1, KeptItem
<1> QED
  BY <1>3, <1>4

\* A new run has no rows.
LEMMA BeginsCounts ==
  ASSUME Shape, Shape', Counted, NEW p \in Procs, Begins(p)
  PROVE  Counted'
<1> SUFFICES ASSUME NEW n \in Present', NEW i \in Items
             PROVE  (Len(dirs[n].rows[i]) <= Cardinality(Through(n, i)))'
  BY DEF Counted
<1>1. PICK k \in Ids \ Born, job \in Job :
        Becomes(p, job) /\ job.id = k /\ Writes(k, NoState, "none", NoRows)
  BY DEF Begins
<1>2. /\ dirs'[k].rows = NoRows /\ Present' = Present \cup {k}
      /\ \A r \in Ids \ {k} : dirs'[r] = dirs[r]
  BY <1>1, WritesOne
<1>3. n \in Ids
  BY DEF Present
<1>4. CASE n = k
  <2>1. dirs'[n].rows[i] = <<>>
    BY <1>2, <1>4 DEF NoRows
  <2>2. Cardinality(Through(n, i)') \in Nat
    <3>1. Through(n, i)' \in SUBSET Procs
      BY DEF Through
    <3> QED
      BY <3>1, ThroughIsFinite
  <2> QED
    BY <2>1, <2>2
<1>5. CASE n # k
  <2>1. NoNewWork(n, i) /\ SameRows(n, i)
    BY <1>1, <1>2, <1>3, <1>5 DEF NoNewWork, SameRows, Waits, Makes, Becomes
  <2> QED
    BY <1>3, <2>1, KeptItem
<1> QED
  BY <1>4, <1>5

\* Whatever the step.
LEMMA CountedStep ==
  ASSUME Shape, Shape', Counted, [Next]_vars
  PROVE  Counted'
<1>1. ASSUME NEW p \in Procs, Begins(p) PROVE Counted'
  BY <1>1, BeginsCounts
<1>2. ASSUME NEW p \in Procs, Resumes(p) PROVE Counted'
  BY <1>2, ResumeCounts
<1>3. ASSUME NEW p \in Procs, NEW i \in Items, AddsRow(p, i) PROVE Counted'
  BY <1>3, RowCounts
<1>4. ASSUME NEW p \in Procs, Aside(p) \/ HasScored(p) PROVE Counted'
  BY <1>4, KeepsThem, KeptItems DEF Aside, HasScored
<1>5. ASSUME NEW p \in Procs, NEW n \in Ids, Reads(p, n) PROVE Counted'
  <2>1. dirs' = dirs /\ \E job \in Job : Becomes(p, job) /\ job.pc = "scoring"
    BY <1>5 DEF Reads
  <2> QED
    BY <2>1, KeepsThem, KeptItems
<1>6. ASSUME NEW p \in Procs, Rewrites(p) PROVE Counted'
  <2>1. PICK state, raw, deeds :
          /\ Works(p, state, raw, RowsOf(jobs[p].id), deeds)
          /\ Leaves(p) \/ GoesOn(p, jobs[p].todo)
    BY <1>6 DEF Rewrites
  <2>2. jobs[p].id \in Ids /\ Writes(jobs[p].id, state, raw, RowsOf(jobs[p].id))
    BY <2>1 DEF Works
  <2> QED
    BY <2>1, <2>2, KeepsThem, KeptItems
<1>7. ASSUME NEW p \in Procs, NEW n, n = jobs[p].id, NEW deeds, Takes(p, n, deeds) PROVE Counted'
  <2>1. n \in Ids /\ Leaves(p) /\ RowsOf(n) = dirs[n].rows
    BY <1>7 DEF Takes, Present, RowsOf
  <2>2. \/ Writes(n, NoState, dirs[n].raw, RowsOf(n))
        \/ Writes(n, dirs[n].state, "none", NoRows)
        \/ dirs' = [dirs EXCEPT ![n] = Absent]
    BY <1>7, <2>1 DEF Takes
  <2> QED
    BY <2>1, <2>2, KeepsThem, KeptItems
<1>8. CASE UNCHANGED <<dirs, born, jobs, past>>
  BY <1>8 DEF Counted, Present, Through, Waits, Makes
<1>9. ASSUME NEW p \in Procs, Does(p) PROVE Counted'
  BY <1>1, <1>2, <1>3, <1>4, <1>5, <1>6, <1>7, <1>9 DEF Does
<1> QED
  BY <1>8, <1>9, Kinds

\* The types follow from what was said of rows, mtimes and sweeps.
LEMMA TypesFollow == SweepInv /\ Counted => TypeOK
<1> SUFFICES ASSUME SweepInv, Counted PROVE TypeOK
  OBVIOUS
<1>1. Shape /\ Sweeps /\ Ordered
  BY DEF SweepInv, Inv
<1>2. dirs \in [Ids -> Dir \cup {Absent}]
  <2> SUFFICES ASSUME NEW n \in Present PROVE dirs[n] \in Dir
    BY <1>1 DEF Shape, Present
  <2>1. dirs[n] \in Run
    BY <1>1 DEF Shape, Present
  <2> DEFINE R == UNION {[1..k -> Models] : k \in 0..Cardinality(Procs)}
  <2>2. ASSUME NEW i \in Items PROVE dirs[n].rows[i] \in R
    <3> DEFINE row == dirs[n].rows[i]
               T == Through(n, i)
    <3>1. T \in SUBSET Procs
      BY DEF Through
    <3>2. row \in Seq(Models) /\ Len(row) \in Nat
      BY <1>1, RowsAreSequences
    <3>3. Len(row) <= Cardinality(T)
      BY DEF Counted
    <3> HIDE DEF T, row
    <3>4. Cardinality(T) \in Nat /\ Cardinality(T) <= Cardinality(Procs) /\ Cardinality(Procs) \in Nat
      BY <3>1, ThroughIsFinite
    <3>5. Len(row) \in 0..Cardinality(Procs) /\ row \in [1..Len(row) -> Models]
      BY <3>2, <3>3, <3>4
    <3>6. row \in R
      BY <3>5, Zenon
    <3> QED
      BY <3>6 DEF row
  <2> HIDE DEF R
  <2>3. dirs[n].rows \in [Items -> R]
    BY <2>1, <2>2 DEF Run
  <2> QED
    BY <2>1, <2>3 DEF Run, Dir, R
<1>3. Elems(touched) = Present /\ Len(touched) = Cardinality(Present)
  <2>1. Len(touched) \in 0..Len(touched) /\ DOMAIN touched = 1..Len(touched) /\ OneEach(touched)
    BY <1>1 DEF Ordered, OneEach
  <2>2. Cardinality({touched[k] : k \in 1..Len(touched)}) = Len(touched)
    BY <2>1, BeginsWithAsMany
  <2>3. {touched[k] : k \in 1..Len(touched)} = Present
    BY <1>1, <2>1 DEF Ordered, Elems
  <2> QED
    BY <1>1, <2>2, <2>3 DEF Ordered
<1>4. expired \subseteq Present /\ expired = {touched[k] : k \in 1..Cardinality(expired)}
  <2>1. PICK e \in 0..Len(touched) : expired = {touched[k] : k \in 1..e}
    BY <1>1 DEF Ordered, BeginsWith
  <2>2. Cardinality({touched[k] : k \in 1..e}) = e
    BY <1>1, BeginsWithAsMany DEF Ordered
  <2>3. Cardinality(expired) = e
    BY <2>1, <2>2, Zenon
  <2>4. \A k \in 1..e : k \in DOMAIN touched
    BY <1>1 DEF Ordered, OneEach
  <2>5. expired \subseteq Elems(touched)
    BY <2>1, <2>4 DEF Elems
  <2> QED
    BY <1>3, <2>1, <2>3, <2>5
<1>5. \A p \in Procs : /\ jobs[p].todo \subseteq Items /\ jobs[p].doomed \subseteq Ids
                       /\ jobs[p].state \in RunState \cup {NoState}
                       /\ jobs[p].files \subseteq Files
                       /\ jobs[p].pc \notin {"idle", "asking", "pruning"} => jobs[p].id \in Ids
  <2> SUFFICES ASSUME NEW p \in Procs
               PROVE  /\ jobs[p].todo \subseteq Items /\ jobs[p].doomed \subseteq Ids
                      /\ jobs[p].state \in RunState \cup {NoState}
                      /\ jobs[p].files \subseteq Files
                      /\ jobs[p].pc \notin {"idle", "asking", "pruning"} => jobs[p].id \in Ids
    OBVIOUS
  <2>1. jobs[p] \in Job
    BY <1>1 DEF Shape
  <2>2. jobs[p].pc \in Making \cup Scoring => jobs[p].id \in Ids
    BY <1>1, WorkIsOfARun
  <2>3. jobs[p].pc = "finished" => jobs[p].id \in Ids
    BY <1>1 DEF Sweeps, SweepOk
  <2>4. jobs[p].pc \in Removal => jobs[p].id \in Ids
    BY <1>1 DEF Shape
  <2> QED
    BY <2>1, <2>2, <2>3, <2>4 DEF Job
<1> QED
  BY <1>1, <1>2, <1>3, <1>4, <1>5 DEF TypeOK, Shape, Born, Elems

\* Types of everything on the disk and in the processes (runner/models.py,
\* checkpoint.py): an item never has more rows than there are processes, only
\* present directories have an mtime, and the expired ones are the oldest.
THEOREM TypeCorrect == Spec => []TypeOK
<1>1. Init => SweepInv /\ Counted
  <2> SUFFICES ASSUME Init PROVE Counted
    BY SweepInvInit
  <2> QED
    BY DEF Init, Counted, Present
<1>2. SweepInv /\ Counted /\ [Next]_vars => SweepInv' /\ Counted'
  <2> SUFFICES ASSUME SweepInv, Counted, [Next]_vars PROVE Counted'
    BY SweepInvStep
  <2>1. Shape /\ Shape'
    BY ShapeStep DEF SweepInv, Inv
  <2> QED
    BY <2>1, CountedStep
<1> QED
  BY <1>1, <1>2, TypesFollow, PTL DEF Spec
=============================================================================
