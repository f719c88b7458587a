------------------------------ MODULE HostedPush ------------------------------
(***************************************************************************)
(* `evalshift push` of one local run: hosted/push.py, the push checkpoint  *)
(* of runner/checkpoint.py, the bundle file of hosted/bundle.py, and the   *)
(* hosted service as far as the client can tell it from the answers.       *)
(*                                                                         *)
(* One push at a time.  The bundle on disk is identified with its bytes: a *)
(* project (manifest.project_slug) and a body, which a rebuild may change  *)
(* and, being deterministic, may restore.  The client run id never changes.*)
(* Every request may be lost, may be answered by an error, or may take     *)
(* effect with its answer lost; the process may be killed between any two  *)
(* steps; `evalshift bundle` may run at any time it is allowed to.         *)
(***************************************************************************)
EXTENDS Naturals

CONSTANTS
    Projects,           \* org/project slugs
    Bodies,             \* what the rest of a bundle can say
    RebuildDuringPush,  \* another process rebuilds the bundle while a push runs
    MaxAttempts,        \* _put_with_retries' max_attempts
    MaxFaults,          \* bound: lost or refused requests, kills, runs the server drops
    MaxBuilds           \* bound: bundles built

ASSUME HostedPushAssumption ==
    /\ Projects # {} /\ Bodies # {}
    /\ "none" \notin Projects /\ "failed" \notin Projects
    /\ RebuildDuringPush \in BOOLEAN
    /\ MaxAttempts \in Nat \ {0}
    /\ MaxFaults \in Nat
    /\ MaxBuilds \in Nat

VARIABLES
    \* the run directory
    bundle,      \* run_bundle.json.gz
    checkpoint,  \* push_state.json
    writable,    \* whether push_state.json can be written and removed now
    builder,     \* the bytes a build_bundle in progress is writing
    \* the push process
    pc,          \* the step push_bundle is at
    mine,        \* its local variables
    \* the hosted service
    projects,    \* projects that exist
    server,      \* per project: the run registered under this client run id
    minted,      \* run ids handed out so far
    \* history and bounds
    outlived,    \* the checkpoint on disk is one a push failed to drop
    outcome,     \* the project whose run URL the last push printed, "failed" or "none"
    faults, builds

marker == <<checkpoint, outlived>>
disk == <<bundle, marker, writable, builder>>
hosted == <<projects, server, minted>>
bounds == <<faults, builds>>
vars == <<disk, pc, mine, hosted, outcome, bounds>>

Bundles == [project : Projects, body : Bodies]
Missing == [project |-> "none", body |-> "missing"]
Torn == [project |-> "none", body |-> "torn"]      \* truncated by a kill

NoCheckpoint == [id |-> 0, project |-> "none", sha |-> Missing]
NoRun == [id |-> 0, status |-> "none", bytes |-> Missing]
Locals == [manifest |-> Missing, sha |-> Missing, data |-> Missing,
           id |-> 0, attempt |-> 1, answer |-> "none"]

Steps == {"idle", "building", "loading", "digesting", "checking", "initiating",
          "creating", "reinitiating", "reading", "putting", "remembering",
          "finalizing", "answered"}

\* The type of every variable: _put_with_retries never counts past its
\* max_attempts, and the manifest in hand is that of a whole bundle.
TypeOK ==
    /\ bundle \in Bundles \cup {Missing, Torn}
    /\ checkpoint.id \in Nat
    /\ writable \in BOOLEAN
    /\ builder \in Bundles \cup {Missing}
    /\ pc \in Steps
    /\ mine.manifest \in Bundles \cup {Missing}
    /\ mine.attempt \in 1..MaxAttempts
    /\ projects \in SUBSET Projects
    /\ \A p \in Projects : server[p].status \in {"none", "pending", "available"}
    /\ minted \in Nat
    /\ outlived \in BOOLEAN
    /\ outcome \in Projects \cup {"none", "failed"}
    /\ faults \in 0..MaxFaults
    /\ builds \in 0..MaxBuilds

Init ==
    /\ bundle = Missing
    /\ checkpoint = NoCheckpoint
    /\ writable \in BOOLEAN
    /\ builder = Missing
    /\ pc = "idle"
    /\ mine = Locals
    /\ projects \in SUBSET Projects
    /\ server = [p \in Projects |-> NoRun]
    /\ minted = 0
    /\ outlived = FALSE
    /\ outcome = "none"
    /\ faults = 0
    /\ builds = 0

Fault == faults < MaxFaults /\ faults' = faults + 1

\* The push is over: its process ends, with a URL printed or exit code 1.
End(result) ==
    /\ pc' = "idle"
    /\ mine' = Locals
    /\ outcome' = result

-----------------------------------------------------------------------------
(* The bundle file, written in place *)

\* build_bundle opens the target for writing, which truncates it.
StartBuild(b) ==
    /\ builder = Missing
    /\ builds < MaxBuilds
    /\ builds' = builds + 1
    /\ builder' = b
    /\ bundle' = Torn
    /\ UNCHANGED <<marker, writable, hosted, faults>>

\* `evalshift bundle`, a process of its own.
Rebuild(b) ==
    /\ pc = "idle" \/ RebuildDuringPush
    /\ StartBuild(b)
    /\ UNCHANGED <<pc, mine, outcome>>

FinishBuild ==
    /\ builder # Missing
    /\ bundle' = builder
    /\ builder' = Missing
    /\ pc' = IF pc = "building" THEN "loading" ELSE pc
    /\ UNCHANGED <<marker, writable, mine, hosted, outcome, bounds>>

KillBuild ==
    /\ builder # Missing
    /\ Fault
    /\ builder' = Missing
    /\ IF pc = "building" THEN End("failed") ELSE UNCHANGED <<pc, mine, outcome>>
    /\ UNCHANGED <<bundle, marker, writable, hosted, builds>>

-----------------------------------------------------------------------------
(* Before the network *)

\* push_local_run builds the bundle only when the file is missing.
Push ==
    /\ pc = "idle"
    /\ builder = Missing \/ RebuildDuringPush
    /\ outcome' = "none"
    /\ UNCHANGED mine
    /\ \/ /\ bundle # Missing
          /\ pc' = "loading"
          /\ UNCHANGED <<disk, hosted, bounds>>
       \/ /\ bundle = Missing
          /\ pc' = "building"
          /\ \E b \in Bundles : StartBuild(b)

\* load_bundle and validate_bundle: the manifest is taken from the bytes read.
Load ==
    /\ pc = "loading"
    /\ IF bundle \in Bundles
         THEN /\ mine' = [mine EXCEPT !.manifest = bundle]
              /\ pc' = "digesting"
              /\ UNCHANGED outcome
         ELSE End("failed")
    /\ UNCHANGED <<disk, hosted, bounds>>

\* --project names another project than the bundle's (counted as a fault, so
\* that a user who repeats it for ever is no part of the liveness property).
RefuseProject ==
    /\ pc = "digesting"
    /\ Fault
    /\ End("failed")
    /\ UNCHANGED <<disk, hosted, builds>>

Digest ==
    /\ pc = "digesting"
    /\ mine' = [mine EXCEPT !.sha = bundle]
    /\ pc' = "checking"
    /\ UNCHANGED <<disk, hosted, outcome, bounds>>

\* Mutant: a checkpoint is followed whatever bundle it was written for.
DescribesAnyPush == checkpoint.project = mine.manifest.project

DescribesThisPush ==
    /\ checkpoint.project = mine.manifest.project
    /\ checkpoint.sha = mine.sha

\* _forget_push, best effort: a checkpoint it cannot remove is still there for
\* the next push.
Forget ==
    /\ checkpoint' = IF writable THEN NoCheckpoint ELSE checkpoint
    /\ outlived' = (checkpoint' # NoCheckpoint)

\* Mutant: the checkpoint is looked at only after the upload.
IgnoreCheckpoint ==
    /\ pc = "checking"
    /\ pc' = "initiating"
    /\ UNCHANGED <<disk, mine, hosted, outcome, bounds>>

\* _resume_push: an interrupted push of this very bundle is finalized, any
\* other checkpoint is dropped and the push starts over.
CheckResume ==
    /\ pc = "checking"
    /\ IF checkpoint = NoCheckpoint
         THEN pc' = "initiating" /\ UNCHANGED <<mine, marker>>
         ELSE IF DescribesThisPush
         THEN /\ mine' = [mine EXCEPT !.id = checkpoint.id]
              /\ pc' = "finalizing"
              /\ UNCHANGED marker
         ELSE Forget /\ pc' = "initiating" /\ UNCHANGED mine
    /\ UNCHANGED <<bundle, writable, builder, hosted, outcome, bounds>>

-----------------------------------------------------------------------------
(* Registering the run: POST /runs, creating the project once if it is missing *)

Initiate ==
    /\ pc \in {"initiating", "reinitiating"}
    /\ LET p == mine.manifest.project
           run == server[p]
       IN \/ /\ p \notin projects
             /\ IF pc = "initiating"
                  THEN pc' = "creating" /\ UNCHANGED <<mine, outcome>>
                  ELSE End("failed")
             /\ UNCHANGED <<server, minted>>
          \/ /\ p \in projects
             /\ run.status = "available"
             /\ End(p)
             /\ UNCHANGED <<server, minted>>
          \/ /\ p \in projects
             /\ run.status = "pending"
             /\ mine' = [mine EXCEPT !.id = run.id]
             /\ pc' = "reading"
             /\ UNCHANGED <<server, minted, outcome>>
          \/ /\ p \in projects
             /\ run.status = "none"
             /\ minted' = minted + 1
             /\ server' = [server EXCEPT ![p] =
                             [id |-> minted', status |-> "pending", bytes |-> Missing]]
             /\ mine' = [mine EXCEPT !.id = minted']
             /\ pc' = "reading"
             /\ UNCHANGED outcome
    /\ UNCHANGED <<disk, projects, bounds>>

\* The service refuses (402, 5xx, a 404 with --no-create-project) or cannot be reached.
InitiateFails ==
    /\ pc \in {"initiating", "reinitiating", "creating"}
    /\ Fault
    /\ End("failed")
    /\ UNCHANGED <<disk, hosted, builds>>

\* The service registers the run and its answer is lost.
InitiateAnswerLost ==
    /\ pc \in {"initiating", "reinitiating"}
    /\ Fault
    /\ mine.manifest.project \in projects
    /\ server[mine.manifest.project].status = "none"
    /\ minted' = minted + 1
    /\ server' = [server EXCEPT ![mine.manifest.project] =
                    [id |-> minted', status |-> "pending", bytes |-> Missing]]
    /\ End("failed")
    /\ UNCHANGED <<disk, projects, builds>>

\* _auto_create_project: listed already, or created.
CreateProject ==
    /\ pc = "creating"
    /\ projects' = projects \cup {mine.manifest.project}
    /\ pc' = "reinitiating"
    /\ UNCHANGED <<disk, mine, server, minted, outcome, bounds>>

-----------------------------------------------------------------------------
(* Uploading *)

\* bundle_path.read_bytes(): the file again, not the bytes that were digested.
ReadBytes ==
    /\ pc = "reading"
    /\ mine' = [mine EXCEPT !.data = bundle]
    /\ pc' = "putting"
    /\ UNCHANGED <<disk, hosted, outcome, bounds>>

\* The signed URL belongs to the run it was made for.
Store(s) ==
    [p \in Projects |->
       IF s[p].id = mine.id /\ s[p].status = "pending"
         THEN [s[p] EXCEPT !.bytes = mine.data]
         ELSE s[p]]

Put ==
    /\ pc = "putting"
    /\ server' = Store(server)
    /\ pc' = "remembering"
    /\ UNCHANGED <<disk, mine, projects, minted, outcome, bounds>>

\* Mutant: one attempt more than max_attempts.
RetryOnceMore ==
    /\ pc = "putting"
    /\ mine.attempt <= MaxAttempts
    /\ Fault
    /\ server' \in {server, Store(server)}
    /\ mine' = [mine EXCEPT !.attempt = @ + 1]
    /\ UNCHANGED <<disk, pc, projects, minted, outcome, builds>>

\* A connection error, a timeout or a transient status, with the bytes stored
\* or not: the next attempt follows until they are used up.
PutAgain ==
    /\ pc = "putting"
    /\ mine.attempt < MaxAttempts
    /\ Fault
    /\ server' \in {server, Store(server)}
    /\ mine' = [mine EXCEPT !.attempt = @ + 1]
    /\ UNCHANGED <<disk, pc, projects, minted, outcome, builds>>

\* The last attempt fails, or a status no retry can change.
PutFails ==
    /\ pc = "putting"
    /\ Fault
    /\ server' \in {server, Store(server)}
    /\ End("failed")
    /\ UNCHANGED <<disk, projects, minted, builds>>

-----------------------------------------------------------------------------
(* Publishing *)

\* _remember_push: the resume hint, best effort.  It replaces the file by a
\* rename, so a write that fails leaves the checkpoint that was there.
Remember ==
    /\ pc = "remembering"
    /\ pc' = "finalizing"
    /\ IF writable
         THEN /\ checkpoint' =
                   [id |-> mine.id, project |-> mine.manifest.project, sha |-> mine.sha]
              /\ outlived' = FALSE
         ELSE UNCHANGED marker
    /\ UNCHANGED <<bundle, writable, builder, mine, hosted, outcome, bounds>>

\* POST finalize_url reaches the service, which publishes a pending run whose
\* bytes are a valid bundle and refuses a run it does not have.  Of a run it
\* has published already it may say either.
Publish ==
    /\ pc = "finalizing"
    /\ \/ \E p \in Projects :
            /\ server[p].id = mine.id
            /\ server[p].status = "pending"
            /\ server[p].bytes \in Bundles
            /\ server' = [server EXCEPT ![p].status = "available"]
            /\ mine' = [mine EXCEPT !.answer = "ok"]
       \/ /\ \E p \in Projects : server[p].id = mine.id /\ server[p].status = "available"
          /\ mine' \in {[mine EXCEPT !.answer = a] : a \in {"ok", "error"}}
          /\ UNCHANGED server
       \/ /\ \A p \in Projects :
               ~(server[p].id = mine.id /\ (server[p].bytes \in Bundles))
          /\ mine' = [mine EXCEPT !.answer = "error"]
          /\ UNCHANGED server
    /\ pc' = "answered"
    /\ UNCHANGED <<disk, projects, minted, outcome, bounds>>

\* The service cannot be reached, or refuses (402, 5xx).
PublishFails ==
    /\ pc = "finalizing"
    /\ Fault
    /\ mine' = [mine EXCEPT !.answer = "error"]
    /\ pc' = "answered"
    /\ UNCHANGED <<disk, hosted, outcome, builds>>

\* The service publishes the run and its answer is lost.
PublishAnswerLost ==
    /\ pc = "answered"
    /\ mine.answer = "ok"
    /\ Fault
    /\ mine' = [mine EXCEPT !.answer = "error"]
    /\ UNCHANGED <<disk, pc, hosted, outcome, builds>>

\* Mutant: a finalize that failed keeps its checkpoint for the next push.
KeepOnError ==
    /\ pc = "answered"
    /\ IF mine.answer = "ok" THEN Forget ELSE UNCHANGED marker
    /\ End(IF mine.answer = "ok" THEN mine.manifest.project ELSE "failed")
    /\ UNCHANGED <<bundle, writable, builder, hosted, bounds>>

\* _finalize drops the checkpoint either way.
FinishPush ==
    /\ pc = "answered"
    /\ Forget
    /\ End(IF mine.answer = "ok" THEN mine.manifest.project ELSE "failed")
    /\ UNCHANGED <<bundle, writable, builder, hosted, bounds>>

-----------------------------------------------------------------------------
(* The environment *)

\* A kill, or an exception nothing catches.
KillPush ==
    /\ pc \notin {"idle", "building"}
    /\ Fault
    /\ End("failed")
    /\ UNCHANGED <<disk, hosted, builds>>

\* The run directory refuses writes and removals for as long as it is read-only,
\* its disk full or the file held open: for one call, or for many pushes.
Protect ==
    /\ writable
    /\ Fault
    /\ writable' = FALSE
    /\ UNCHANGED <<bundle, marker, builder, pc, mine, hosted, outcome, builds>>

Unprotect ==
    /\ ~writable
    /\ writable' = TRUE
    /\ UNCHANGED <<bundle, marker, builder, pc, mine, hosted, outcome, bounds>>

\* The service drops a run that was never finalized.
DropPending ==
    /\ Fault
    /\ \E p \in Projects :
         /\ server[p].status = "pending"
         /\ server' = [server EXCEPT ![p] = NoRun]
    /\ UNCHANGED <<disk, pc, mine, projects, minted, outcome, builds>>

PushStep ==
    \/ Load \/ RefuseProject \/ Digest \/ CheckResume
    \/ Initiate \/ InitiateFails \/ InitiateAnswerLost \/ CreateProject
    \/ ReadBytes \/ Put \/ PutAgain \/ PutFails \/ Remember
    \/ Publish \/ PublishFails \/ PublishAnswerLost \/ FinishPush

Next ==
    \/ Push \/ PushStep \/ FinishBuild
    \/ \E b \in Bundles : Rebuild(b)
    \/ KillBuild \/ KillPush \/ DropPending \/ Protect \/ Unprotect

Spec == Init /\ [][Next]_vars

\* A push that was started takes its steps: every request has a timeout.  The
\* user pushes again as long as it takes.  Nothing has to fail.
Fairness == WF_vars(PushStep) /\ WF_vars(FinishBuild) /\ WF_vars(Push)

FairSpec == Spec /\ Fairness

-----------------------------------------------------------------------------
(* Properties *)

\* A checkpoint is only ever about a run the service holds bytes for: a push
\* that follows it never asks to publish a run nobody uploaded.
CheckpointMeansUploaded ==
    \A p \in Projects :
        checkpoint.id # 0 /\ server[p].id = checkpoint.id => server[p].bytes # Missing

\* Publishing the run of project p publishes the bundle that was digested.
OwnBytes(p) == server[p].bytes = mine.sha /\ p = mine.manifest.project

Publishes(p) == server[p].status = "pending" /\ server'[p].status = "available"

\* Resuming rather than uploading: _resume_push sends no bytes.
Resuming == mine.data = Missing

\* What a push publishes is the bundle it digested, in that bundle's project,
\* when the bytes were left there by a push that was killed, too.  Except where
\* it resumes from a checkpoint that an earlier push had failed to drop.
PublishesItsOwnBundle ==
    [][\A p \in Projects : Publishes(p) => OwnBytes(p) \/ (Resuming /\ outlived)]_vars

\* A push that prints a URL prints the URL of a published run.
SuccessIsPublished == outcome \in Projects => server[outcome].status = "available"

\* A bundle the service holds and the checkpoint remembers is not sent again.
NoSecondUpload ==
    [][pc = "putting" /\ pc' = "remembering" =>
         checkpoint # [id |-> mine.id, project |-> mine.manifest.project, sha |-> mine.data]]_vars

\* The file on disk is no bundle, or the service shows its run.
Published(b) == bundle \notin Bundles \/ server[b.project].status = "available"

\* As long as the file on disk is a bundle and the user keeps pushing, the run
\* is published in the end: no checkpoint, however stale, strands it, unless it
\* is one that cannot be removed.
EventuallyPublished ==
    [](bundle \in Bundles => <>(Published(bundle) \/ (outlived /\ ~writable)))

=============================================================================
