------------------------------- MODULE RunLoop -------------------------------
(***************************************************************************)
(* One run directory of `evalshift run`, from the launch that creates it   *)
(* to the launch that completes it: runner/orchestrator.py drives the work *)
(* list, runner/checkpoint.py keeps state.json and raw.jsonl.              *)
(*                                                                         *)
(* The process is one asyncio event loop.  A task per pending work item    *)
(* waits for the semaphore, awaits its model call, then runs a synchronous *)
(* block under the write lock: append the row, count it, checkpoint every  *)
(* CheckpointEvery rows.  The process may be killed anywhere, in the       *)
(* middle of that block too, and the user may launch `--resume`.           *)
(*                                                                         *)
(* What a row says is abstracted to the work item it answers: an errored   *)
(* call is recorded, counted and skipped on resume like any other.         *)
(***************************************************************************)
EXTENDS Naturals, FiniteSets

CONSTANTS
    NItems,           \* length of the work list
    Concurrency,      \* defaults.concurrency
    CheckpointEvery,  \* CHECKPOINT_EVERY
    MaxKills,         \* bound: launches that end in a kill or an error
    MaxTears          \* bound: appends that reach the disk incompletely

ASSUME RunLoopAssumption ==
    /\ NItems \in Nat
    /\ Concurrency \in Nat \ {0}
    /\ CheckpointEvery \in Nat \ {0}
    /\ MaxKills \in Nat
    /\ MaxTears \in Nat

Items == 1..NItems

VARIABLES
    \* the process: lost when it ends
    proc,       \* which part of run_orchestrator is executing
    phase,      \* where each work item's task stands
    completed,  \* the `completed` counter the tasks share
    \* the run directory
    saved,      \* state.json
    rows,       \* terminated raw.jsonl lines that parse, per work item
    tail,       \* the text after the last newline of raw.jsonl
    decodes,    \* raw.jsonl is UTF-8 from end to end
    \* history and bounds
    approved,   \* the cost was confirmed, or needed no confirmation
    mangled,    \* items with a row that was swallowed by a malformed line
    kills, tears

disk == <<saved, rows, tail, decodes>>
vars == <<proc, phase, completed, disk, approved, mangled, kills, tears>>

NoRun == [status |-> "absent", completed |-> 0]
RunState == [status : {"in_progress", "completed", "failed"}, completed : Nat]

Phases == {"idle", "waiting", "calling", "answered", "appended",
           "done", "failed", "skipped"}

\* The end of raw.jsonl: nothing after the last newline, a whole row whose
\* newline is missing, or text no reader can parse.
Tails == Items \cup {0, NItems + 1}
Clean == 0
Garbled == NItems + 1

\* Every variable keeps its type; state.json in particular only ever holds
\* documents of the RunState schema, or resume could not read it back.
TypeOK ==
    /\ proc \in {"down", "asking", "running", "aborting"}
    /\ phase \in [Items -> Phases]
    /\ completed \in Nat
    /\ saved \in RunState \cup {NoRun}
    /\ rows \in [Items -> Nat]
    /\ tail \in Tails
    /\ decodes \in BOOLEAN
    /\ approved \in BOOLEAN
    /\ mangled \in SUBSET Items
    /\ kills \in 0..MaxKills
    /\ tears \in 0..MaxTears

Init ==
    /\ proc = "down"
    /\ phase = [i \in Items |-> "idle"]
    /\ completed = 0
    /\ saved = NoRun
    /\ rows = [i \in Items |-> 0]
    /\ tail = Clean
    /\ decodes = TRUE
    /\ approved = FALSE
    /\ mangled = {}
    /\ kills = 0
    /\ tears = 0

-----------------------------------------------------------------------------
(* raw.jsonl *)

\* A line is a row exactly when it holds one whole JSON object, with or
\* without its newline; iter_calls drops every other line.
CompletedCallKeys == {i \in Items : rows[i] > 0 \/ tail = i}

\* append_call, complete: the row continues whatever the file ends with.
AppendCall(i) ==
    /\ rows' = [rows EXCEPT ![i] = IF tail = Clean THEN @ + 1 ELSE @]
    /\ mangled' = IF tail = Clean THEN mangled
                                  ELSE mangled \cup {i} \cup ({tail} \cap Items)
    /\ tail' = Clean
    /\ UNCHANGED decodes

\* append_call, cut short: part of the row, or all of it but the newline.  A
\* part may end inside a multi-byte character, and the file is read strictly.
TearAppend(i) ==
    /\ tears < MaxTears
    /\ tears' = tears + 1
    /\ IF tail = Clean
         THEN tail' \in {i, Garbled} /\ UNCHANGED mangled
         ELSE tail' = Garbled /\ mangled' = mangled \cup ({tail} \cap Items)
    /\ decodes' \in IF tail' = Garbled THEN {decodes, FALSE} ELSE {decodes}
    /\ UNCHANGED rows

-----------------------------------------------------------------------------
(* Launching *)

\* A fresh launch: state.json exists before the cost question is asked, which
\* it is when the estimate is above COST_CONFIRM_THRESHOLD_USD and --yes absent.
LaunchFresh(ask) ==
    /\ proc = "down"
    /\ saved = NoRun
    /\ saved' = [status |-> "in_progress", completed |-> 0]
    /\ completed' = 0
    /\ proc' = IF ask THEN "asking" ELSE "running"
    /\ phase' = [i \in Items |-> IF ask THEN "idle" ELSE "waiting"]
    /\ approved' = ~ask
    /\ UNCHANGED <<rows, tail, decodes, mangled, kills, tears>>

Confirm ==
    /\ proc = "asking"
    /\ proc' = "running"
    /\ phase' = [i \in Items |-> "waiting"]
    /\ approved' = TRUE
    /\ UNCHANGED <<completed, disk, mangled, kills, tears>>

Decline ==
    /\ proc = "asking"
    /\ saved' = [saved EXCEPT !.status = "failed"]
    /\ proc' = "down"
    /\ UNCHANGED <<phase, completed, rows, tail, decodes, approved, mangled, kills, tears>>

\* Mutant: resume trusts the checkpoint counter instead of the rows.
ResumeByCounter ==
    /\ proc = "down"
    /\ saved.status = "in_progress"
    /\ proc' = "running"
    /\ phase' = [i \in Items |-> IF i <= saved.completed THEN "skipped" ELSE "waiting"]
    /\ completed' = saved.completed
    /\ UNCHANGED <<disk, approved, mangled, kills, tears>>

\* --resume: the rows that parse are skipped and counted, the rest are pending.
Resume ==
    /\ proc = "down"
    /\ saved.status = "in_progress"
    /\ decodes
    /\ proc' = "running"
    /\ phase' = [i \in Items |-> IF i \in CompletedCallKeys THEN "skipped" ELSE "waiting"]
    /\ completed' = Cardinality(CompletedCallKeys)
    /\ UNCHANGED <<disk, approved, mangled, kills, tears>>

\* --resume finds no in-progress run and RunAborted is raised, or reading
\* raw.jsonl raises UnicodeDecodeError.
ResumeRefused ==
    /\ proc = "down"
    /\ saved.status = "in_progress" => ~decodes
    /\ UNCHANGED vars

-----------------------------------------------------------------------------
(* The event loop *)

\* The block under the write lock never awaits: while one task is in it no
\* other task, and no handler of the loop, runs.
LoopFree == \A i \in Items : phase[i] # "appended"

Alive == proc \in {"running", "aborting"} /\ LoopFree

\* Mutant: a task that recorded its row keeps its permit.
HoldingForever(ph) == {i \in Items : ph[i] \in {"calling", "answered", "appended", "done"}}

\* `async with sem` spans the call and the record that follows it.
Holding(ph) == {i \in Items : ph[i] \in {"calling", "answered", "appended"}}

\* asyncio.Semaphore wakes its waiters in the order they arrived, which is
\* the order of the work list.
Acquire(i) ==
    /\ Alive
    /\ phase[i] = "waiting"
    /\ \A j \in Items : phase[j] = "waiting" => i <= j
    /\ Cardinality(Holding(phase)) < Concurrency
    /\ phase' = [phase EXCEPT ![i] = "calling"]
    /\ UNCHANGED <<proc, completed, disk, approved, mangled, kills, tears>>

\* _execute returns a Call: a response, a cache hit or a ModelClientError.
Answer(i) ==
    /\ Alive
    /\ phase[i] = "calling"
    /\ phase' = [phase EXCEPT ![i] = "answered"]
    /\ UNCHANGED <<proc, completed, disk, approved, mangled, kills, tears>>

\* Any other exception (the cache database, rendering) leaves the task;
\* gather re-raises it and the launch ends, but the other tasks still run
\* while run_orchestrator closes the cache.
TaskFails(i) ==
    /\ Alive
    /\ kills < MaxKills
    /\ phase[i] = "calling"
    /\ phase' = [phase EXCEPT ![i] = "failed"]
    /\ proc' = "aborting"
    /\ kills' = IF proc = "running" THEN kills + 1 ELSE kills
    /\ UNCHANGED <<completed, disk, approved, mangled, tears>>

Record(i) ==
    /\ Alive
    /\ phase[i] = "answered"
    /\ AppendCall(i)
    /\ phase' = [phase EXCEPT ![i] = "appended"]
    /\ UNCHANGED <<proc, completed, saved, approved, kills, tears>>

\* The append raises (a full disk): what reached the file stays there.
RecordFails(i) ==
    /\ Alive
    /\ kills < MaxKills
    /\ phase[i] = "answered"
    /\ TearAppend(i)
    /\ phase' = [phase EXCEPT ![i] = "failed"]
    /\ proc' = "aborting"
    /\ kills' = IF proc = "running" THEN kills + 1 ELSE kills
    /\ UNCHANGED <<completed, saved, approved>>

\* The rest of the block: count the row and, every CheckpointEvery rows,
\* rewrite state.json.
Count(i) ==
    /\ phase[i] = "appended"
    /\ phase' = [phase EXCEPT ![i] = "done"]
    /\ completed' = completed + 1
    /\ saved' = IF completed' % CheckpointEvery = 0
                  THEN [status |-> "in_progress", completed |-> completed']
                  ELSE saved
    /\ UNCHANGED <<proc, rows, tail, decodes, approved, mangled, kills, tears>>

\* The progress callback or the checkpoint raises: the row stays appended and
\* counted, state.json stays as it was.
CountFails(i) ==
    /\ phase[i] = "appended"
    /\ kills < MaxKills
    /\ phase' = [phase EXCEPT ![i] = "done"]
    /\ completed' = completed + 1
    /\ proc' = "aborting"
    /\ kills' = IF proc = "running" THEN kills + 1 ELSE kills
    /\ UNCHANGED <<disk, approved, mangled, tears>>

\* Mutant: the run completes once the calls are answered, rows or no rows.
FinishOnAnswers ==
    /\ proc = "running"
    /\ \A i \in Items : phase[i] \in {"answered", "done", "skipped"}
    /\ saved' = [status |-> "completed", completed |-> completed]
    /\ proc' = "down"
    /\ phase' = [i \in Items |-> "idle"]
    /\ completed' = 0
    /\ UNCHANGED <<rows, tail, decodes, approved, mangled, kills, tears>>

\* gather returns: the state is written once more, as completed.
Finish ==
    /\ proc = "running"
    /\ \A i \in Items : phase[i] \in {"done", "skipped"}
    /\ saved' = [status |-> "completed", completed |-> completed]
    /\ proc' = "down"
    /\ phase' = [i \in Items |-> "idle"]
    /\ completed' = 0
    /\ UNCHANGED <<rows, tail, decodes, approved, mangled, kills, tears>>

-----------------------------------------------------------------------------
(* How a launch ends early: all that remains is the run directory *)

Gone ==
    /\ proc' = "down"
    /\ phase' = [i \in Items |-> "idle"]
    /\ completed' = 0

\* asyncio.run cancels the tasks that are left, each at an await.
Unwind ==
    /\ proc = "aborting"
    /\ LoopFree
    /\ Gone
    /\ UNCHANGED <<disk, approved, mangled, kills, tears>>

\* Killed between two writes (or EOF at the cost prompt).  state.json is
\* replaced atomically, so it is the old or the new one.
Kill ==
    /\ proc # "down"
    /\ kills < MaxKills
    /\ kills' = kills + 1
    /\ Gone
    /\ UNCHANGED <<disk, approved, mangled, tears>>

\* Killed while a row is being written.
KillMidAppend(i) ==
    /\ Alive
    /\ kills < MaxKills
    /\ kills' = kills + 1
    /\ phase[i] = "answered"
    /\ TearAppend(i)
    /\ Gone
    /\ UNCHANGED <<saved, approved>>

-----------------------------------------------------------------------------

Next ==
    \/ \E ask \in BOOLEAN : LaunchFresh(ask)
    \/ Confirm \/ Decline \/ Resume \/ ResumeRefused
    \/ \E i \in Items :
         \/ Acquire(i) \/ Answer(i) \/ TaskFails(i)
         \/ Record(i) \/ RecordFails(i) \/ Count(i) \/ CountFails(i)
         \/ KillMidAppend(i)
    \/ Finish \/ Unwind \/ Kill

Spec == Init /\ [][Next]_vars

\* The loop runs the tasks that are ready, and a call ends: the client bounds
\* the attempts, and LiteLLM's default timeout bounds each of them.  Nobody has
\* to launch, answer the prompt, fail or be killed.
Fairness ==
    /\ WF_vars(Finish) /\ WF_vars(Unwind)
    /\ \A i \in Items :
         WF_vars(Acquire(i)) /\ WF_vars(Answer(i)) /\ WF_vars(Record(i)) /\ WF_vars(Count(i))

FairSpec == Spec /\ Fairness

-----------------------------------------------------------------------------
(* What the run directory promises *)

\* A completed run has a row for every work item, save those an incomplete
\* append swallowed: the summary, evaluate and push trust the status alone.
CompletedIsRecorded ==
    saved.status = "completed" => decodes /\ Items \subseteq CompletedCallKeys \cup mangled

\* Nothing is lost unless an append reached the disk incompletely.
OnlyTearsLose == tears = 0 => decodes /\ mangled = {}

\* However often the run is killed and resumed, no work item is recorded (and
\* paid for) twice: evaluate would silently keep the last of the two rows.
RecordedOnce == \A i \in Items : rows[i] + (IF tail = i THEN 1 ELSE 0) <= 1

\* completed_evaluations never runs ahead of raw.jsonl, across kills between
\* the append and the checkpoint and across the recount a resume makes.
CheckpointNotAhead ==
    tears = 0 => saved.completed <= Cardinality(CompletedCallKeys)

\* A run the user declined stays failed and is never resumed into spending.
DeclinedNeverSpends ==
    saved.status = "failed" =>
        /\ ~approved
        /\ proc = "down"
        /\ \A i \in Items : rows[i] = 0

\* A finished run directory is final: no launch writes it again.
FinishedIsFinal ==
    [][saved.status \in {"completed", "failed"} => UNCHANGED disk]_vars

\* A launch nothing interrupts ends with the run completed: no permit of the
\* semaphore leaks and no task is left waiting for the lock.
LaunchCompletes ==
    (proc = "running") ~> (saved.status = "completed" \/ proc # "running")

\* The run directory implements the abstract ledger: the rows a reader of
\* raw.jsonl finds are the entries, the swallowed ones are the losses.
Ledger == INSTANCE RunLedger WITH ledger <- CompletedCallKeys,
                                  lost <- mangled,
                                  status <- saved.status

ImplementsLedger == Ledger!LedgerSpec

-----------------------------------------------------------------------------
(* The inductive invariant the proofs rest on *)

Counted == {i \in Items : phase[i] \in {"done", "skipped"}}

\* Tasks exist only inside a launch, and only of an in-progress run.
TasksOfALaunch ==
    /\ proc \in {"down", "asking"} => \A i \in Items : phase[i] = "idle"
    /\ proc # "down" => saved.status = "in_progress"

\* A task past its append has its row, one before it has none yet.
PhaseMatchesRows ==
    \A i \in Items :
        /\ phase[i] \in {"appended", "done", "skipped"} => i \in CompletedCallKeys \cup mangled
        /\ phase[i] \in {"waiting", "calling", "answered"} => i \notin CompletedCallKeys

\* Nothing is written before the cost question is settled.
NothingBeforeAnswer ==
    saved.status \in {"absent", "failed"} \/ proc = "asking" =>
        /\ \A i \in Items : rows[i] = 0
        /\ tail = Clean
        /\ decodes
        /\ ~approved

\* The two counters never run ahead of the rows.
CountersFollowRows ==
    /\ completed <= Cardinality(Counted)
    /\ CheckpointNotAhead

\* A whole file ends with a newline.
CleanUntilTorn == tears = 0 => tail = Clean

\* A process that can still finish the run reads what it wrote.
RunningDecodes == proc \in {"asking", "running"} => decodes

\* Together, inductive: what a launch holds in memory agrees with what it has
\* left on disk, so that a kill at any step leaves a directory resume can trust.
Inv ==
    /\ TypeOK
    /\ TasksOfALaunch
    /\ PhaseMatchesRows
    /\ NothingBeforeAnswer
    /\ CountersFollowRows
    /\ CleanUntilTorn
    /\ RunningDecodes
    /\ CompletedIsRecorded
    /\ OnlyTearsLose
    /\ RecordedOnce

=============================================================================
