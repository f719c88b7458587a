-------------------------- MODULE HostedPushProofs --------------------------
(***************************************************************************)
(* What a push never does wrong, for any projects, bundles and bounds.     *)
(* Inv says whose run an id is, which bytes the service holds under it and *)
(* what the checkpoint remembers of it; Undisturbed, that nothing rebuilds *)
(* the bundle between two steps of a push, which the bundle's identity     *)
(* with its digest rests on and which holds when RebuildDuringPush does    *)
(* not.                                                                    *)
(***************************************************************************)
EXTENDS HostedPush, TLAPS

Files == Bundles \cup {Missing, Torn}

Shape ==
    /\ bundle \in Files
    /\ checkpoint \in [id : Nat, project : Projects \cup {"none"}, sha : Files]
    /\ builder \in Bundles \cup {Missing}
    /\ pc \in Steps
    /\ mine \in [manifest : Bundles \cup {Missing}, sha : Files, data : Files,
                 id : Nat, attempt : 1..MaxAttempts, answer : {"none", "ok", "error"}]
    /\ projects \in SUBSET Projects
    /\ server \in [Projects -> [id : Nat, status : {"none", "pending", "available"}, bytes : Files]]
    /\ minted \in Nat
    /\ outcome \in Projects \cup {"none", "failed"}
    /\ faults \in 0..MaxFaults
    /\ builds \in 0..MaxBuilds
    /\ pc \notin {"idle", "building", "loading"} => mine.manifest \in Bundles /\ bundle # Missing

\* Kept apart from Shape for the provers.
Flags == writable \in BOOLEAN /\ outlived \in BOOLEAN

Registering == {"initiating", "creating", "reinitiating"}
Sending == {"reading", "putting", "remembering"}

\* An id is handed out once, to one project, and every holder of it knows to
\* which.
IdsAreOwned ==
    /\ checkpoint.id <= minted /\ mine.id <= minted
    /\ checkpoint = NoCheckpoint \/ checkpoint.id # 0
    /\ pc \in Sending \cup {"finalizing", "answered"} <=> mine.id # 0
    /\ \A p \in Projects :
         /\ server[p].id <= minted
         /\ server[p].id = 0 <=> server[p].status = "none"
         /\ server[p].id # 0 /\ server[p].id = checkpoint.id => p = checkpoint.project
         /\ server[p].id # 0 /\ server[p].id = mine.id => p = mine.manifest.project
         /\ \A q \in Projects : server[p].id # 0 /\ server[p].id = server[q].id => p = q

\* What the service holds under the ids that are still going to be used.
BytesAreHeld ==
    /\ \A p \in Projects : server[p].status = "available" => server[p].bytes \in Bundles
    /\ CheckpointMeansUploaded
    /\ pc \in {"putting", "remembering"} => mine.data # Missing
    /\ pc \notin {"putting", "remembering", "finalizing", "answered"} => Resuming
    /\ pc = "remembering" =>
         \A p \in Projects : server[p].id = mine.id => server[p].bytes # Missing

\* A push that gets as far as the network has no checkpoint left, or one it
\* failed to drop, which is not about this push.
NoStaleCheckpoint ==
    pc \in Registering \cup Sending =>
        checkpoint = NoCheckpoint \/ (outlived /\ ~DescribesThisPush)

\* A yes of the service is about this push's run, and stays true.
AnswersAreTrue ==
    /\ mine.answer = "ok" => pc = "answered" /\ server[mine.manifest.project].status = "available"
    /\ SuccessIsPublished

Inv == Shape /\ Flags /\ IdsAreOwned /\ BytesAreHeld /\ NoStaleCheckpoint /\ AnswersAreTrue

\* With no rebuild during a push, one bundle is read, digested, sent, stored
\* and remembered; only under a checkpoint that outlived its push have the
\* bytes been replaced by another push's.
Undisturbed ==
    /\ pc \notin {"idle", "building"} => builder = Missing
    /\ pc \notin {"idle", "building", "loading"} => bundle = mine.manifest
    /\ pc \notin {"idle", "building", "loading", "digesting"} => mine.sha = bundle
    /\ pc \in {"putting", "remembering"} => mine.data = bundle
    /\ \A p \in Projects : server[p].status = "pending" =>
         /\ pc \in {"remembering", "finalizing", "answered"} /\ server[p].id = mine.id =>
              server[p].bytes = mine.sha \/ (Resuming /\ outlived)
         /\ server[p].id = checkpoint.id => server[p].bytes = checkpoint.sha \/ outlived

-----------------------------------------------------------------------------
(* Shape *)

\* The marks of a missing and of a truncated file are no bundles.
LEMMA NoneIsNoBundle == Missing \notin Bundles /\ Torn \notin Bundles /\ Torn # Missing
  BY HostedPushAssumption DEF Bundles, Missing, Torn

\* Every variable starts in its type, with no push at work.
LEMMA ShapeInit == Init => Shape
  BY HostedPushAssumption DEF Init, Shape, Files, Locals, NoCheckpoint, NoRun, Steps

\* Every step keeps the types, and the file a push has loaded is not removed.
LEMMA ShapeStep == Shape /\ [Next]_vars => Shape'
<1> SUFFICES ASSUME Shape, [Next]_vars PROVE Shape'
  OBVIOUS
<1> USE HostedPushAssumption, NoneIsNoBundle
<1> USE DEF Shape, Files, Steps, marker, disk, hosted, bounds
<1>1. CASE Push
  BY <1>1 DEF Push, StartBuild
<1>2. CASE Load
  BY <1>2 DEF Load, End, Locals
<1>3. CASE RefuseProject
  BY <1>3 DEF RefuseProject, Fault, End, Locals
<1>4. CASE Digest
  BY <1>4 DEF Digest
<1>5. CASE CheckResume
  BY <1>5 DEF CheckResume, Forget, NoCheckpoint
<1>6. CASE Initiate
  BY <1>6 DEF Initiate, End, Locals, Bundles
<1>7. CASE InitiateFails
  BY <1>7 DEF InitiateFails, Fault, End, Locals
<1>8. CASE InitiateAnswerLost
  BY <1>8 DEF InitiateAnswerLost, Fault, End, Locals
<1>9. CASE CreateProject
  BY <1>9 DEF CreateProject, Bundles
<1>10. CASE ReadBytes
  BY <1>10 DEF ReadBytes
<1>11. CASE Put
  BY <1>11 DEF Put, Store
<1>12. CASE PutAgain
  BY <1>12, SMTT(30) DEF PutAgain, Fault, Store
<1>13. CASE PutFails
  BY <1>13 DEF PutFails, Fault, End, Locals, Store
<1>14. CASE Remember
  BY <1>14 DEF Remember, Bundles
<1>15. CASE Publish
  BY <1>15, SMTT(30) DEF Publish
<1>16. CASE PublishFails
  BY <1>16 DEF PublishFails, Fault
<1>17. CASE PublishAnswerLost
  BY <1>17 DEF PublishAnswerLost, Fault
<1>18. CASE FinishPush
  BY <1>18 DEF FinishPush, Forget, NoCheckpoint, End, Locals, Bundles
<1>19. CASE FinishBuild
  BY <1>19 DEF FinishBuild
<1>20. ASSUME NEW b \in Bundles, Rebuild(b) PROVE Shape'
  BY <1>20 DEF Rebuild, StartBuild
<1>21. CASE KillBuild
  BY <1>21 DEF KillBuild, Fault, End, Locals
<1>22. CASE KillPush
  BY <1>22 DEF KillPush, Fault, End, Locals
<1>23. CASE DropPending
  BY <1>23 DEF DropPending, Fault, NoRun
<1>24. CASE Protect
  BY <1>24 DEF Protect, Fault
<1>25. CASE Unprotect
  BY <1>25 DEF Unprotect
<1>26. CASE UNCHANGED vars
  BY <1>26 DEF vars
<1> QED
  BY <1>1, <1>2, <1>3, <1>4, <1>5, <1>6, <1>7, <1>8, <1>9, <1>10, <1>11, <1>12, <1>13, <1>14, <1>15, <1>16, <1>17, <1>18, <1>19, <1>20, <1>21, <1>22, <1>23, <1>24, <1>25, <1>26, Zenon DEF Next, PushStep

\* The disk's permission and the mark of a surviving checkpoint are truth values.
LEMMA FlagsStep == Flags /\ [Next]_vars => Flags'
<1> SUFFICES ASSUME Flags, [Next]_vars PROVE Flags'
  OBVIOUS
<1> USE DEF Flags
<1>1. CASE UNCHANGED <<writable, outlived>>
  BY <1>1
<1>2. CASE CheckResume
  BY <1>2, Zenon DEF CheckResume, Forget, marker
<1>3. CASE Remember
  BY <1>3, Zenon DEF Remember, marker
<1>4. CASE FinishPush
  BY <1>4, Zenon DEF FinishPush, Forget
<1>5. CASE Protect \/ Unprotect
  BY <1>5, Zenon DEF Protect, Unprotect, marker
<1>6. CASE Push \/ FinishBuild \/ KillBuild \/ KillPush \/ DropPending \/ \E b \in Bundles : Rebuild(b)
  <2>1. UNCHANGED <<writable, outlived>>
    BY <1>6 DEF Push, StartBuild, FinishBuild, KillBuild, KillPush, DropPending, Rebuild, disk, marker
  <2> QED
    BY <2>1, <1>1
<1>7. CASE Load \/ RefuseProject \/ Digest \/ Initiate \/ InitiateFails \/ InitiateAnswerLost \/ CreateProject
  <2>1. UNCHANGED <<writable, outlived>>
    BY <1>7 DEF Load, RefuseProject, Digest, Initiate, InitiateFails, InitiateAnswerLost, CreateProject, disk, marker
  <2> QED
    BY <2>1, <1>1
<1>8. CASE ReadBytes \/ Put \/ PutAgain \/ PutFails \/ Publish \/ PublishFails \/ PublishAnswerLost
  <2>1. UNCHANGED <<writable, outlived>>
    BY <1>8 DEF ReadBytes, Put, PutAgain, PutFails, Publish, PublishFails, PublishAnswerLost, disk, marker
  <2> QED
    BY <2>1, <1>1
<1>9. CASE UNCHANGED vars
  <2>1. UNCHANGED <<writable, outlived>>
    BY <1>9 DEF vars, disk, marker
  <2> QED
    BY <2>1, <1>1
<1> QED
  BY <1>2, <1>3, <1>4, <1>5, <1>6, <1>7, <1>8, <1>9, Zenon DEF Next, PushStep

-----------------------------------------------------------------------------
(* Ids, bytes, checkpoint and answers *)

\* The invariant holds before the first push.
LEMMA InvInit == Init => Inv
<1>1. Init => Flags
  BY Zenon DEF Init, Flags
<1> QED
  BY <1>1, ShapeInit, HostedPushAssumption, NoneIsNoBundle DEF Inv, Init, IdsAreOwned, BytesAreHeld, Resuming, CheckpointMeansUploaded, NoStaleCheckpoint, AnswersAreTrue, SuccessIsPublished, Registering, Sending, NoCheckpoint, NoRun, Locals

\* A new id is larger than any that is held; the other steps pass ids on.
LEMMA IdsStep == Inv /\ [Next]_vars => IdsAreOwned'
<1> SUFFICES ASSUME Inv, Shape', [Next]_vars PROVE IdsAreOwned'
  BY ShapeStep DEF Inv
<1> USE HostedPushAssumption, NoneIsNoBundle
<1> USE DEF Shape, Files, Steps, marker, disk, hosted, bounds, Inv, IdsAreOwned, Registering, Sending, NoCheckpoint
<1>1. CASE Push
  BY <1>1 DEF Push, StartBuild
<1>2. CASE Load
  BY <1>2 DEF Load, End, Locals
<1>3. CASE RefuseProject
  BY <1>3 DEF RefuseProject, Fault, End, Locals
<1>4. CASE Digest
  BY <1>4 DEF Digest
<1>5. CASE CheckResume
  BY <1>5 DEF CheckResume, Forget, DescribesThisPush
<1>6. CASE Initiate
  BY <1>6 DEF Initiate, End, Locals, Bundles, NoRun
<1>7. CASE InitiateFails
  BY <1>7 DEF InitiateFails, Fault, End, Locals
<1>8. CASE InitiateAnswerLost
  BY <1>8 DEF InitiateAnswerLost, Fault, End, Locals, Bundles
<1>9. CASE CreateProject
  BY <1>9 DEF CreateProject, Bundles
<1>10. CASE ReadBytes
  BY <1>10 DEF ReadBytes
<1>11. CASE Put
  BY <1>11 DEF Put, Store
<1>12. CASE PutAgain
  BY <1>12, SMTT(30) DEF PutAgain, Fault, Store
<1>13. CASE PutFails
  BY <1>13 DEF PutFails, Fault, End, Locals, Store
<1>14. CASE Remember
  BY <1>14 DEF Remember, Bundles
<1>15. CASE Publish
  BY <1>15, SMTT(30) DEF Publish
<1>16. CASE PublishFails
  BY <1>16 DEF PublishFails, Fault
<1>17. CASE PublishAnswerLost
  BY <1>17 DEF PublishAnswerLost, Fault
<1>18. CASE FinishPush
  BY <1>18 DEF FinishPush, Forget, End, Locals, Bundles
<1>19. CASE FinishBuild
  BY <1>19 DEF FinishBuild
<1>20. ASSUME NEW b \in Bundles, Rebuild(b) PROVE IdsAreOwned'
  BY <1>20 DEF Rebuild, StartBuild
<1>21. CASE KillBuild
  BY <1>21 DEF KillBuild, Fault, End, Locals
<1>22. CASE KillPush
  BY <1>22 DEF KillPush, Fault, End, Locals
<1>23. CASE DropPending
  BY <1>23 DEF DropPending, Fault, NoRun
<1>24. CASE Protect
  BY <1>24 DEF Protect, Fault
<1>25. CASE Unprotect
  BY <1>25 DEF Unprotect
<1>26. CASE UNCHANGED vars
  BY <1>26 DEF vars
<1> QED
  BY <1>1, <1>2, <1>3, <1>4, <1>5, <1>6, <1>7, <1>8, <1>9, <1>10, <1>11, <1>12, <1>13, <1>14, <1>15, <1>16, <1>17, <1>18, <1>19, <1>20, <1>21, <1>22, <1>23, <1>24, <1>25, <1>26, Zenon DEF Next, PushStep

\* Bytes are stored before an id is remembered, and stay.
LEMMA BytesStep == Inv /\ [Next]_vars => BytesAreHeld'
<1> SUFFICES ASSUME Inv, Shape', [Next]_vars PROVE BytesAreHeld'
  BY ShapeStep DEF Inv
<1> USE HostedPushAssumption, NoneIsNoBundle
<1> USE DEF Shape, Files, Steps, marker, disk, hosted, bounds, Inv, IdsAreOwned, BytesAreHeld, CheckpointMeansUploaded, NoStaleCheckpoint, Sending, Registering, NoCheckpoint, Resuming
<1>1. CASE Push
  BY <1>1 DEF Push, StartBuild
<1>2. CASE Load
  BY <1>2 DEF Load, End, Locals
<1>3. CASE RefuseProject
  BY <1>3 DEF RefuseProject, Fault, End, Locals
<1>4. CASE Digest
  BY <1>4 DEF Digest
<1>5. CASE CheckResume
  BY <1>5 DEF CheckResume, Forget
<1>6. CASE Initiate
  BY <1>6 DEF Initiate, End, Locals, Bundles
<1>7. CASE InitiateFails
  BY <1>7 DEF InitiateFails, Fault, End, Locals
<1>8. CASE InitiateAnswerLost
  BY <1>8 DEF InitiateAnswerLost, Fault, End, Locals, Bundles
<1>9. CASE CreateProject
  BY <1>9 DEF CreateProject, Bundles
<1>10. CASE ReadBytes
  BY <1>10 DEF ReadBytes
<1>11. CASE Put
  BY <1>11 DEF Put, Store
<1>12. CASE PutAgain
  BY <1>12, SMTT(30) DEF PutAgain, Fault, Store
<1>13. CASE PutFails
  BY <1>13 DEF PutFails, Fault, End, Locals, Store
<1>14. CASE Remember
  BY <1>14 DEF Remember, Bundles
<1>15. CASE Publish
  BY <1>15, SMTT(30) DEF Publish
<1>16. CASE PublishFails
  BY <1>16 DEF PublishFails, Fault
<1>17. CASE PublishAnswerLost
  BY <1>17 DEF PublishAnswerLost, Fault
<1>18. CASE FinishPush
  BY <1>18 DEF FinishPush, Forget, End, Locals, Bundles
<1>19. CASE FinishBuild
  BY <1>19 DEF FinishBuild
<1>20. ASSUME NEW b \in Bundles, Rebuild(b) PROVE BytesAreHeld'
  BY <1>20 DEF Rebuild, StartBuild
<1>21. CASE KillBuild
  BY <1>21 DEF KillBuild, Fault, End, Locals
<1>22. CASE KillPush
  BY <1>22 DEF KillPush, Fault, End, Locals
<1>23. CASE DropPending
  BY <1>23 DEF DropPending, Fault, NoRun
<1>24. CASE Protect
  BY <1>24 DEF Protect, Fault
<1>25. CASE Unprotect
  BY <1>25 DEF Unprotect
<1>26. CASE UNCHANGED vars
  BY <1>26 DEF vars
<1> QED
  BY <1>1, <1>2, <1>3, <1>4, <1>5, <1>6, <1>7, <1>8, <1>9, <1>10, <1>11, <1>12, <1>13, <1>14, <1>15, <1>16, <1>17, <1>18, <1>19, <1>20, <1>21, <1>22, <1>23, <1>24, <1>25, <1>26, Zenon DEF Next, PushStep

\* CheckResume drops what it does not follow.
LEMMA CheckpointStep == Inv /\ [Next]_vars => NoStaleCheckpoint'
<1> SUFFICES ASSUME Inv, Shape', [Next]_vars PROVE NoStaleCheckpoint'
  BY ShapeStep DEF Inv
<1> USE HostedPushAssumption, NoneIsNoBundle
<1> USE DEF Shape, Files, Steps, marker, disk, hosted, bounds, Inv, NoStaleCheckpoint, Registering, Sending, DescribesThisPush
<1>1. CASE Push
  BY <1>1 DEF Push, StartBuild
<1>2. CASE Load
  BY <1>2 DEF Load, End, Locals
<1>3. CASE RefuseProject
  BY <1>3 DEF RefuseProject, Fault, End, Locals
<1>4. CASE Digest
  BY <1>4 DEF Digest
<1>5. CASE CheckResume
  BY <1>5 DEF CheckResume, Forget, NoCheckpoint
<1>6. CASE Initiate
  BY <1>6 DEF Initiate, End, Locals, Bundles
<1>7. CASE InitiateFails
  BY <1>7 DEF InitiateFails, Fault, End, Locals
<1>8. CASE InitiateAnswerLost
  BY <1>8 DEF InitiateAnswerLost, Fault, End, Locals, Bundles
<1>9. CASE CreateProject
  BY <1>9 DEF CreateProject, Bundles
<1>10. CASE ReadBytes
  BY <1>10 DEF ReadBytes
<1>11. CASE Put
  BY <1>11 DEF Put, Store
<1>12. CASE PutAgain
  BY <1>12, SMTT(30) DEF PutAgain, Fault, Store
<1>13. CASE PutFails
  BY <1>13 DEF PutFails, Fault, End, Locals, Store
<1>14. CASE Remember
  BY <1>14 DEF Remember, Bundles
<1>15. CASE Publish
  BY <1>15, SMTT(30) DEF Publish
<1>16. CASE PublishFails
  BY <1>16 DEF PublishFails, Fault
<1>17. CASE PublishAnswerLost
  BY <1>17 DEF PublishAnswerLost, Fault
<1>18. CASE FinishPush
  BY <1>18 DEF FinishPush, Forget, NoCheckpoint, End, Locals, Bundles
<1>19. CASE FinishBuild
  BY <1>19 DEF FinishBuild
<1>20. ASSUME NEW b \in Bundles, Rebuild(b) PROVE NoStaleCheckpoint'
  BY <1>20 DEF Rebuild, StartBuild
<1>21. CASE KillBuild
  BY <1>21 DEF KillBuild, Fault, End, Locals
<1>22. CASE KillPush
  BY <1>22 DEF KillPush, Fault, End, Locals
<1>23. CASE DropPending
  BY <1>23 DEF DropPending, Fault, NoRun
<1>24. CASE Protect
  BY <1>24 DEF Protect, Fault
<1>25. CASE Unprotect
  BY <1>25 DEF Unprotect
<1>26. CASE UNCHANGED vars
  BY <1>26 DEF vars
<1> QED
  BY <1>1, <1>2, <1>3, <1>4, <1>5, <1>6, <1>7, <1>8, <1>9, <1>10, <1>11, <1>12, <1>13, <1>14, <1>15, <1>16, <1>17, <1>18, <1>19, <1>20, <1>21, <1>22, <1>23, <1>24, <1>25, <1>26, Zenon DEF Next, PushStep

\* The service says yes to the run of this push only, and keeps it.
LEMMA AnswersStep == Inv /\ [Next]_vars => AnswersAreTrue'
<1> SUFFICES ASSUME Inv, Shape', [Next]_vars PROVE AnswersAreTrue'
  BY ShapeStep DEF Inv
<1> USE HostedPushAssumption, NoneIsNoBundle
<1> USE DEF Shape, Files, Steps, marker, disk, hosted, bounds, Inv, IdsAreOwned, AnswersAreTrue, SuccessIsPublished, Sending
<1>1. CASE Push
  BY <1>1 DEF Push, StartBuild
<1>2. CASE Load
  BY <1>2 DEF Load, End, Locals
<1>3. CASE RefuseProject
  BY <1>3 DEF RefuseProject, Fault, End, Locals
<1>4. CASE Digest
  BY <1>4 DEF Digest
<1>5. CASE CheckResume
  BY <1>5 DEF CheckResume, Forget, NoCheckpoint
<1>6. CASE Initiate
  BY <1>6 DEF Initiate, End, Locals, Bundles
<1>7. CASE InitiateFails
  BY <1>7 DEF InitiateFails, Fault, End, Locals
<1>8. CASE InitiateAnswerLost
  BY <1>8 DEF InitiateAnswerLost, Fault, End, Locals, Bundles
<1>9. CASE CreateProject
  BY <1>9 DEF CreateProject, Bundles
<1>10. CASE ReadBytes
  BY <1>10 DEF ReadBytes
<1>11. CASE Put
  BY <1>11 DEF Put, Store
<1>12. CASE PutAgain
  BY <1>12, SMTT(30) DEF PutAgain, Fault, Store
<1>13. CASE PutFails
  BY <1>13 DEF PutFails, Fault, End, Locals, Store
<1>14. CASE Remember
  BY <1>14 DEF Remember, Bundles
<1>15. CASE Publish
  <2>1. \A p \in Projects : server[p].status = "available" => server'[p].status = "available"
    BY <1>15, SMTT(30) DEF Publish
  <2>2. mine'.answer = "ok" =>
          \E p \in Projects : server[p].id = mine.id /\ server'[p].status = "available"
    <3>1. ASSUME NEW p \in Projects, server[p].id = mine.id,
                 server' = [server EXCEPT ![p].status = "available"]
          PROVE server'[p].status = "available"
      BY <3>1
    <3> QED
      BY <1>15, <3>1 DEF Publish
  <2>3. mine'.manifest = mine.manifest /\ pc' = "answered" /\ outcome' = outcome
    BY <1>15, SMTT(30) DEF Publish
  <2> QED
    BY <1>15, <2>1, <2>2, <2>3 DEF Publish
<1>16. CASE PublishFails
  BY <1>16 DEF PublishFails, Fault
<1>17. CASE PublishAnswerLost
  BY <1>17 DEF PublishAnswerLost, Fault
<1>18. CASE FinishPush
  BY <1>18 DEF FinishPush, Forget, NoCheckpoint, End, Locals, Bundles
<1>19. CASE FinishBuild
  BY <1>19 DEF FinishBuild
<1>20. ASSUME NEW b \in Bundles, Rebuild(b) PROVE AnswersAreTrue'
  BY <1>20 DEF Rebuild, StartBuild
<1>21. CASE KillBuild
  BY <1>21 DEF KillBuild, Fault, End, Locals
<1>22. CASE KillPush
  BY <1>22 DEF KillPush, Fault, End, Locals
<1>23. CASE DropPending
  BY <1>23 DEF DropPending, Fault, NoRun
<1>24. CASE Protect
  BY <1>24 DEF Protect, Fault
<1>25. CASE Unprotect
  BY <1>25 DEF Unprotect
<1>26. CASE UNCHANGED vars
  BY <1>26 DEF vars
<1> QED
  BY <1>1, <1>2, <1>3, <1>4, <1>5, <1>6, <1>7, <1>8, <1>9, <1>10, <1>11, <1>12, <1>13, <1>14, <1>15, <1>16, <1>17, <1>18, <1>19, <1>20, <1>21, <1>22, <1>23, <1>24, <1>25, <1>26, Zenon DEF Next, PushStep

\* The invariant is inductive.
LEMMA InvStep == Inv /\ [Next]_vars => Inv'
<1> SUFFICES ASSUME Inv, [Next]_vars PROVE Inv'
  OBVIOUS
<1>1. Shape'
  BY ShapeStep DEF Inv
<1> QED
  BY <1>1, FlagsStep, IdsStep, BytesStep, CheckpointStep, AnswersStep, Zenon DEF Inv

\* ... and holds in every state a push can be in.
LEMMA AlwaysInv == Spec => []Inv
<1> QED
  BY InvInit, InvStep, PTL DEF Spec

-----------------------------------------------------------------------------
(* Without a rebuild during a push *)

\* Nothing is stored, remembered or read before the first push.
LEMMA UndisturbedInit == Init => Undisturbed
  BY HostedPushAssumption, NoneIsNoBundle DEF Undisturbed, Init, NoCheckpoint, NoRun, Locals

\* Only a rebuild could come between the read, the digest and the upload.
LEMMA UndisturbedStep ==
    ASSUME RebuildDuringPush = FALSE
    PROVE  Inv /\ Undisturbed /\ [Next]_vars => Undisturbed'
<1> SUFFICES ASSUME Inv, Inv', Undisturbed, [Next]_vars PROVE Undisturbed'
  BY InvStep
<1> USE HostedPushAssumption, NoneIsNoBundle
<1> USE DEF Shape, Files, Steps, marker, disk, hosted, bounds, Inv, IdsAreOwned, BytesAreHeld, NoStaleCheckpoint, Undisturbed, Sending, Registering, NoCheckpoint, Resuming
<1>1. CASE Push
  BY <1>1 DEF Push, StartBuild
<1>2. CASE Load
  BY <1>2 DEF Load, End, Locals
<1>3. CASE RefuseProject
  BY <1>3 DEF RefuseProject, Fault, End, Locals
<1>4. CASE Digest
  BY <1>4 DEF Digest
<1>5. CASE CheckResume
  BY <1>5 DEF CheckResume, Forget, DescribesThisPush
<1>6. CASE Initiate
  BY <1>6 DEF Initiate, End, Locals, Bundles
<1>7. CASE InitiateFails
  BY <1>7 DEF InitiateFails, Fault, End, Locals
<1>8. CASE InitiateAnswerLost
  BY <1>8 DEF InitiateAnswerLost, Fault, End, Locals, Bundles
<1>9. CASE CreateProject
  BY <1>9 DEF CreateProject, Bundles
<1>10. CASE ReadBytes
  BY <1>10 DEF ReadBytes
<1>11. CASE Put
  BY <1>11 DEF Put, Store
<1>12. CASE PutAgain
  BY <1>12, SMTT(30) DEF PutAgain, Fault, Store
<1>13. CASE PutFails
  BY <1>13 DEF PutFails, Fault, End, Locals, Store
<1>14. CASE Remember
  BY <1>14 DEF Remember, Bundles
<1>15. CASE Publish
  BY <1>15, SMTT(30) DEF Publish
<1>16. CASE PublishFails
  BY <1>16 DEF PublishFails, Fault
<1>17. CASE PublishAnswerLost
  BY <1>17 DEF PublishAnswerLost, Fault
<1>18. CASE FinishPush
  <2>1. /\ pc' = "idle" /\ UNCHANGED <<server, builder>>
        /\ checkpoint' = NoCheckpoint \/ (checkpoint' # NoCheckpoint /\ outlived')
    BY <1>18 DEF FinishPush, Forget, End
  <2>2. CASE checkpoint' = NoCheckpoint
    BY <2>1, <2>2
  <2>3. CASE outlived'
    BY <2>1, <2>3
  <2> QED
    BY <2>1, <2>2, <2>3
<1>19. CASE FinishBuild
  BY <1>19 DEF FinishBuild
<1>20. ASSUME NEW b \in Bundles, Rebuild(b) PROVE Undisturbed'
  BY <1>20 DEF Rebuild, StartBuild
<1>21. CASE KillBuild
  BY <1>21 DEF KillBuild, Fault, End, Locals
<1>22. CASE KillPush
  BY <1>22 DEF KillPush, Fault, End, Locals
<1>23. CASE DropPending
  BY <1>23 DEF DropPending, Fault, NoRun
<1>24. CASE Protect
  BY <1>24 DEF Protect, Fault
<1>25. CASE Unprotect
  BY <1>25 DEF Unprotect
<1>26. CASE UNCHANGED vars
  BY <1>26 DEF vars
<1> QED
  BY <1>1, <1>2, <1>3, <1>4, <1>5, <1>6, <1>7, <1>8, <1>9, <1>10, <1>11, <1>12, <1>13, <1>14, <1>15, <1>16, <1>17, <1>18, <1>19, <1>20, <1>21, <1>22, <1>23, <1>24, <1>25, <1>26, Zenon DEF Next, PushStep

-----------------------------------------------------------------------------
(* The theorems *)

\* The type invariant of hosted/push.py's state and of the service's.
THEOREM TypeCorrect == Spec => []TypeOK
<1>1. Inv => TypeOK
  <2>1. Inv => Flags /\ Shape
    BY DEF Inv
  <2>2. Shape /\ Flags => TypeOK
    <3> SUFFICES ASSUME Shape, Flags PROVE TypeOK
      OBVIOUS
    <3>1. writable \in BOOLEAN /\ outlived \in BOOLEAN
      BY Zenon DEF Flags
    <3>2. /\ bundle \in Bundles \cup {Missing, Torn}
          /\ checkpoint.id \in Nat
          /\ builder \in Bundles \cup {Missing}
          /\ pc \in Steps
          /\ mine.manifest \in Bundles \cup {Missing}
          /\ mine.attempt \in 1..MaxAttempts
      BY DEF Shape, Files
    <3>3. /\ projects \in SUBSET Projects
          /\ \A p \in Projects : server[p].status \in {"none", "pending", "available"}
          /\ minted \in Nat
          /\ outcome \in Projects \cup {"none", "failed"}
          /\ faults \in 0..MaxFaults
          /\ builds \in 0..MaxBuilds
      BY DEF Shape, Files
    <3> QED
      BY <3>1, <3>2, <3>3, Zenon DEF TypeOK
  <2> QED
    BY <2>1, <2>2
<1> QED
  BY <1>1, AlwaysInv, PTL

\* A checkpoint push_state.json names a run whose bytes the service has.
THEOREM CheckpointsAreUploaded == Spec => []CheckpointMeansUploaded
<1>1. Inv => CheckpointMeansUploaded
  BY DEF Inv, BytesAreHeld
<1> QED
  BY <1>1, AlwaysInv, PTL

\* The run whose URL push_bundle returned is published.
THEOREM SuccessMeansPublished == Spec => []SuccessIsPublished
<1>1. Inv => SuccessIsPublished
  BY DEF Inv, AnswersAreTrue
<1> QED
  BY <1>1, AlwaysInv, PTL

\* With the bundle left alone while a push runs, _resume_push finalizes what
\* the checkpoint remembers: push_bundle does not upload it again.
THEOREM NoUploadTwice ==
    ASSUME RebuildDuringPush = FALSE
    PROVE  Spec => NoSecondUpload
<1>1. Inv /\ Undisturbed /\ [Next]_vars =>
        [pc = "putting" /\ pc' = "remembering" =>
           checkpoint # [id |-> mine.id, project |-> mine.manifest.project, sha |-> mine.data]]_vars
  <2> SUFFICES ASSUME Inv, Undisturbed, pc = "putting"
               PROVE  checkpoint # [id |-> mine.id, project |-> mine.manifest.project, sha |-> mine.data]
    OBVIOUS
  <2>1. mine.data = mine.sha /\ mine.id # 0
    BY DEF Undisturbed, Inv, IdsAreOwned, Sending
  <2>2. checkpoint = NoCheckpoint \/ ~DescribesThisPush
    BY DEF Inv, NoStaleCheckpoint, Sending
  <2> QED
    BY <2>1, <2>2 DEF DescribesThisPush, NoCheckpoint
<1>2. Inv /\ Undisturbed /\ [Next]_vars => Undisturbed'
  BY UndisturbedStep
<1> QED
  BY <1>1, <1>2, AlwaysInv, UndisturbedInit, PTL DEF Spec, NoSecondUpload

\* With the bundle left alone while a push runs, push_bundle publishes the
\* bytes whose digest it took, in their own project, whichever writes and
\* removals of the checkpoint fail and whenever they do; the one exception is
\* a push that resumes from a checkpoint _forget_push had left behind.
THEOREM OwnBundlePublished ==
    ASSUME RebuildDuringPush = FALSE
    PROVE  Spec => PublishesItsOwnBundle
<1>1. Inv /\ Undisturbed /\ [Next]_vars =>
        [\A p \in Projects : Publishes(p) => OwnBytes(p) \/ (Resuming /\ outlived)]_vars
  <2> SUFFICES ASSUME Inv, Undisturbed, Next, NEW p \in Projects,
                      server[p].status = "pending", server'[p].status = "available"
               PROVE  OwnBytes(p) \/ (Resuming /\ outlived)
    BY DEF vars, hosted, Publishes
  <2>1. Publish
    <3>1. server' # server
      OBVIOUS
    <3>2. CASE Push \/ FinishBuild \/ KillBuild \/ KillPush \/ \E b \in Bundles : Rebuild(b)
      BY <3>1, <3>2 DEF Push, StartBuild, FinishBuild, KillBuild, KillPush, Rebuild, disk, hosted
    <3>3. CASE Load \/ RefuseProject \/ Digest \/ CheckResume \/ InitiateFails \/ CreateProject
      BY <3>1, <3>3 DEF Load, RefuseProject, Digest, CheckResume, InitiateFails, CreateProject, hosted
    <3>4. CASE ReadBytes \/ Remember \/ PublishFails \/ PublishAnswerLost \/ FinishPush
      BY <3>1, <3>4 DEF ReadBytes, Remember, PublishFails, PublishAnswerLost, FinishPush, hosted
    <3>5. CASE Initiate \/ InitiateAnswerLost
      BY <3>5, HostedPushAssumption DEF Initiate, InitiateAnswerLost, Inv, Shape
    <3>6. CASE Put \/ PutAgain \/ PutFails
      BY <3>6 DEF Put, PutAgain, PutFails, Store, Inv, Shape, hosted
    <3>7. CASE DropPending
      BY <3>7 DEF DropPending, NoRun, Inv, Shape
    <3>8. CASE Protect \/ Unprotect
      BY <3>1, <3>8 DEF Protect, Unprotect, hosted
    <3> QED
      BY <3>2, <3>3, <3>4, <3>5, <3>6, <3>7, <3>8, Zenon DEF Next, PushStep
  <2>2. pc = "finalizing" /\ server[p].id = mine.id
    BY <2>1 DEF Publish, Inv, Shape
  <2> QED
    BY <2>2 DEF Inv, IdsAreOwned, Undisturbed, Sending, OwnBytes
<1>2. Inv /\ Undisturbed /\ [Next]_vars => Undisturbed'
  BY UndisturbedStep
<1> QED
  BY <1>1, <1>2, AlwaysInv, UndisturbedInit, PTL DEF Spec, PublishesItsOwnBundle
=============================================================================
