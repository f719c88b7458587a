---------------------------- MODULE RunLoopProofs ----------------------------
(***************************************************************************)
(* Proofs about RunLoop, for every number of work items, concurrency,      *)
(* checkpoint interval, and number of kills and torn appends.              *)
(***************************************************************************)
EXTENDS RunLoop, FiniteSetTheorems, TLAPS

-----------------------------------------------------------------------------
(* The work list is finite, so its subsets can be counted *)

LEMMA ItemsFinite ==
    /\ IsFiniteSet(Items)
    /\ \A S \in SUBSET Items : IsFiniteSet(S) /\ Cardinality(S) \in Nat
<1>1. IsFiniteSet(Items)
  BY FS_Interval, RunLoopAssumption DEF Items
<1>2. ASSUME NEW S \in SUBSET Items PROVE IsFiniteSet(S) /\ Cardinality(S) \in Nat
  BY <1>1, FS_Subset, FS_CardinalityType
<1> QED
  BY <1>1, <1>2

\* A set of work items that only grows never counts fewer.
LEMMA CountMonotone ==
    ASSUME NEW S \in SUBSET Items, NEW T \in SUBSET Items, S \subseteq T
    PROVE  Cardinality(S) <= Cardinality(T)
  BY ItemsFinite, FS_Subset

\* One more work item counts one more.
LEMMA CountOneMore ==
    ASSUME NEW S \in SUBSET Items, NEW i \in Items, i \notin S
    PROVE  Cardinality(S \cup {i}) = Cardinality(S) + 1
  BY ItemsFinite, FS_AddElement

-----------------------------------------------------------------------------
(* Types *)

LEMMA TypeInit == Init => TypeOK
<1> SUFFICES ASSUME Init PROVE TypeOK
  OBVIOUS
<1>1. approved \in BOOLEAN /\ decodes \in BOOLEAN
  BY Zenon DEF Init
<1>2. /\ phase \in [Items -> Phases]
      /\ rows \in [Items -> Nat]
      /\ completed \in Nat
      /\ kills \in 0..MaxKills
      /\ tears \in 0..MaxTears
  BY RunLoopAssumption DEF Init, Phases
<1> QED
  BY <1>1, <1>2 DEF Init, TypeOK, Tails, Clean

\* What a torn append leaves is still a file with a tail, and its losses items.
LEMMA TearType ==
    ASSUME TypeOK, NEW i \in Items, TearAppend(i)
    PROVE  /\ tail' \in Tails
           /\ decodes' \in BOOLEAN
           /\ mangled' \in SUBSET Items
           /\ rows' = rows
           /\ tears' \in 0..MaxTears
<1>1. decodes' \in BOOLEAN
  <2>1. decodes' = decodes \/ decodes' = FALSE
    BY Zenon DEF TearAppend
  <2> QED
    BY <2>1, Zenon DEF TypeOK
<1>2. tail' \in Tails /\ mangled' \in SUBSET Items
  BY DEF TearAppend, TypeOK, Tails, Garbled
<1>3. tears' \in 0..MaxTears
  BY RunLoopAssumption DEF TearAppend, TypeOK
<1>4. rows' = rows
  BY DEF TearAppend
<1> QED
  BY <1>1, <1>2, <1>3, <1>4

LEMMA TypeStep == TypeOK /\ [Next]_vars => TypeOK'
<1> SUFFICES ASSUME TypeOK, [Next]_vars PROVE TypeOK'
  OBVIOUS
<1> USE RunLoopAssumption DEF TypeOK
<1>0. /\ CompletedCallKeys \in SUBSET Items
      /\ Cardinality(CompletedCallKeys) \in Nat
      /\ \A j \in Items : {j} \cup ({tail} \cap Items) \subseteq Items
  BY ItemsFinite DEF CompletedCallKeys
<1>1. ASSUME NEW ask \in BOOLEAN, LaunchFresh(ask) PROVE TypeOK'
  <2>1. approved' \in BOOLEAN
    BY <1>1, Zenon DEF LaunchFresh
  <2> QED
    BY <1>1, <2>1 DEF LaunchFresh, RunState, Phases
<1>2. CASE Confirm
  BY <1>2 DEF Confirm, Phases, disk
<1>3. CASE Decline
  BY <1>3 DEF Decline, RunState, NoRun
<1>4. CASE Resume
  BY <1>4, <1>0 DEF Resume, Phases, disk
<1>5. CASE ResumeRefused
  BY <1>5 DEF ResumeRefused, vars, disk
<1>6. ASSUME NEW i \in Items, Acquire(i) PROVE TypeOK'
  BY <1>6 DEF Acquire, Phases, disk
<1>7. ASSUME NEW i \in Items, Answer(i) PROVE TypeOK'
  BY <1>7 DEF Answer, Phases, disk
<1>8. ASSUME NEW i \in Items, TaskFails(i) PROVE TypeOK'
  BY <1>8 DEF TaskFails, Phases, disk
<1>9. ASSUME NEW i \in Items, Record(i) PROVE TypeOK'
  BY <1>9, <1>0 DEF Record, AppendCall, Phases, Tails, Clean
<1>10. ASSUME NEW i \in Items, RecordFails(i) PROVE TypeOK'
  BY <1>10, TearType DEF RecordFails, Phases
<1>11. ASSUME NEW i \in Items, Count(i) PROVE TypeOK'
  BY <1>11 DEF Count, Phases, RunState
<1>12. ASSUME NEW i \in Items, CountFails(i) PROVE TypeOK'
  BY <1>12 DEF CountFails, Phases, disk
<1>13. ASSUME NEW i \in Items, KillMidAppend(i) PROVE TypeOK'
  BY <1>13, TearType DEF KillMidAppend, Gone, Phases
<1>14. CASE Finish
  BY <1>14 DEF Finish, Phases, RunState
<1>15. CASE Unwind
  BY <1>15 DEF Unwind, Gone, Phases, disk
<1>16. CASE Kill
  BY <1>16 DEF Kill, Gone, Phases, disk
<1>17. CASE UNCHANGED vars
  BY <1>17 DEF vars, disk
<1> QED
  BY <1>1, <1>2, <1>3, <1>4, <1>5, <1>6, <1>7, <1>8, <1>9, <1>10, <1>11,
     <1>12, <1>13, <1>14, <1>15, <1>16, <1>17 DEF Next

\* In every launch sequence every variable keeps its type.
THEOREM TypeCorrect == Spec => []TypeOK
<1>1. Init => TypeOK
  BY TypeInit
<1>2. TypeOK /\ [Next]_vars => TypeOK'
  BY TypeStep
<1> QED
  BY <1>1, <1>2, PTL DEF Spec
-----------------------------------------------------------------------------
(* What an append does to the rows a reader finds *)

\* A whole append adds its row; if the file ended badly it loses that row and
\* whatever stood after the last newline, and nothing else.
LEMMA KeysAfterAppend ==
    ASSUME TypeOK, RecordedOnce, NEW i \in Items, i \notin CompletedCallKeys, AppendCall(i)
    PROVE  /\ mangled \subseteq mangled'
           /\ CompletedCallKeys \subseteq CompletedCallKeys' \cup mangled'
           /\ CompletedCallKeys' \subseteq CompletedCallKeys \cup {i}
           /\ i \in CompletedCallKeys' \cup mangled'
           /\ tail = Clean => /\ mangled' = mangled
                              /\ CompletedCallKeys' = CompletedCallKeys \cup {i}
           /\ tail' = Clean
           /\ RecordedOnce'
<1> USE DEF TypeOK, AppendCall, CompletedCallKeys, Items, Tails, Clean, Garbled
<1>1. CASE tail = Clean
  BY <1>1, RunLoopAssumption DEF RecordedOnce
<1>2. CASE tail # Clean
  BY <1>2, RunLoopAssumption DEF RecordedOnce
<1> QED
  BY <1>1, <1>2

\* A torn append leaves at most one more readable row, its own, and loses at
\* most what stood after the last newline.
LEMMA KeysAfterTear ==
    ASSUME TypeOK, RecordedOnce, NEW i \in Items, i \notin CompletedCallKeys, TearAppend(i)
    PROVE  /\ mangled \subseteq mangled'
           /\ CompletedCallKeys \subseteq CompletedCallKeys' \cup mangled'
           /\ CompletedCallKeys' \subseteq CompletedCallKeys \cup {i}
           /\ tears' # 0
           /\ RecordedOnce'
<1>0. tears' # 0 /\ rows' = rows
  BY DEF TypeOK, TearAppend
<1>1. CASE tail = Clean
  BY <1>0, <1>1, RunLoopAssumption
  DEF RecordedOnce, TypeOK, TearAppend, CompletedCallKeys, Items, Tails, Clean, Garbled
<1>2. CASE tail # Clean
  BY <1>0, <1>2, RunLoopAssumption
  DEF RecordedOnce, TypeOK, TearAppend, CompletedCallKeys, Items, Tails, Clean, Garbled
<1> QED
  BY <1>1, <1>2

-----------------------------------------------------------------------------
(* The invariant without its counters *)

Shape ==
    /\ TypeOK
    /\ TasksOfALaunch
    /\ PhaseMatchesRows
    /\ NothingBeforeAnswer
    /\ CleanUntilTorn
    /\ RunningDecodes
    /\ CompletedIsRecorded
    /\ OnlyTearsLose
    /\ RecordedOnce

LEMMA ShapeInit == Init => Shape
<1> SUFFICES ASSUME Init PROVE Shape
  OBVIOUS
<1>1. TypeOK
  BY TypeInit
<1>2. TasksOfALaunch /\ PhaseMatchesRows /\ RecordedOnce
  BY DEF Init, TasksOfALaunch, PhaseMatchesRows, RecordedOnce, NoRun,
         CompletedCallKeys, Clean, Items
<1>3. NothingBeforeAnswer /\ CleanUntilTorn /\ CompletedIsRecorded
  BY DEF Init, NothingBeforeAnswer, CleanUntilTorn, CompletedIsRecorded, NoRun, Clean
<1>4. RunningDecodes /\ OnlyTearsLose
  BY DEF Init, RunningDecodes, OnlyTearsLose
<1> QED
  BY <1>1, <1>2, <1>3, <1>4 DEF Shape

\* A step that leaves the run directory alone keeps the invariant as soon as
\* the tasks it leaves behind agree with that directory.
LEMMA QuietStep ==
    ASSUME Shape, TypeOK', UNCHANGED <<disk, mangled, tears>>,
           approved' = approved \/ (proc' # "asking" /\ saved.status = "in_progress"),
           proc' = "asking" => proc = "asking",
           TasksOfALaunch', PhaseMatchesRows', RunningDecodes'
    PROVE  Shape'
<1> USE DEF Shape, disk
<1>1. CompletedCallKeys' = CompletedCallKeys
  BY DEF CompletedCallKeys
<1>2. NothingBeforeAnswer'
  BY DEF NothingBeforeAnswer, TasksOfALaunch
<1>3. CleanUntilTorn' /\ CompletedIsRecorded' /\ OnlyTearsLose' /\ RecordedOnce'
  BY <1>1 DEF CleanUntilTorn, CompletedIsRecorded, OnlyTearsLose, RecordedOnce
<1> QED
  BY <1>2, <1>3

LEMMA ShapeStep == Shape /\ [Next]_vars => Shape'
<1> SUFFICES ASSUME Shape, [Next]_vars PROVE Shape'
  OBVIOUS
<1>0. TypeOK /\ TypeOK'
  BY TypeStep DEF Shape
<1> USE <1>0 DEF Shape
<1>1. ASSUME NEW ask \in BOOLEAN, LaunchFresh(ask) PROVE Shape'
  <2>1. CompletedCallKeys' = CompletedCallKeys /\ CompletedCallKeys = {}
    BY <1>1 DEF LaunchFresh, CompletedCallKeys, NothingBeforeAnswer, NoRun, Items, Clean
  <2>2. TasksOfALaunch' /\ PhaseMatchesRows'
    BY <1>1, <2>1 DEF LaunchFresh, TypeOK, TasksOfALaunch, PhaseMatchesRows
  <2>3. NothingBeforeAnswer' /\ CompletedIsRecorded'
    BY <1>1 DEF LaunchFresh, NothingBeforeAnswer, CompletedIsRecorded, NoRun
  <2>4. CleanUntilTorn' /\ RunningDecodes' /\ OnlyTearsLose' /\ RecordedOnce'
    BY <1>1 DEF LaunchFresh, NothingBeforeAnswer, NoRun, CleanUntilTorn, RunningDecodes,
       OnlyTearsLose, RecordedOnce
  <2> QED
    BY <2>2, <2>3, <2>4
<1>2. CASE Confirm
  <2>1. CompletedCallKeys' = CompletedCallKeys /\ CompletedCallKeys = {}
    BY <1>2 DEF Confirm, CompletedCallKeys, NothingBeforeAnswer, disk, Items, Clean
  <2>2. TasksOfALaunch' /\ PhaseMatchesRows' /\ RunningDecodes'
    BY <1>2, <2>1
    DEF Confirm, TypeOK, TasksOfALaunch, PhaseMatchesRows, RunningDecodes, disk
  <2> QED
    BY <1>2, <2>2, QuietStep DEF Confirm, TasksOfALaunch
<1>3. CASE Decline
  <2>1. CompletedCallKeys' = CompletedCallKeys
    BY <1>3 DEF Decline, CompletedCallKeys
  <2>2. TasksOfALaunch' /\ PhaseMatchesRows'
    BY <1>3, <2>1 DEF Decline, TasksOfALaunch, PhaseMatchesRows
  <2>3. NothingBeforeAnswer' /\ CompletedIsRecorded'
    BY <1>3 DEF Decline, NothingBeforeAnswer, CompletedIsRecorded, TypeOK, RunState, NoRun
  <2>4. CleanUntilTorn' /\ RunningDecodes' /\ OnlyTearsLose' /\ RecordedOnce'
    BY <1>3 DEF Decline, CleanUntilTorn, RunningDecodes, OnlyTearsLose, RecordedOnce
  <2> QED
    BY <2>2, <2>3, <2>4
<1>4. CASE Resume
  <2>1. CompletedCallKeys' = CompletedCallKeys
    BY <1>4 DEF Resume, CompletedCallKeys, disk
  <2>2. TasksOfALaunch' /\ PhaseMatchesRows' /\ RunningDecodes'
    BY <1>4, <2>1
    DEF Resume, TypeOK, TasksOfALaunch, PhaseMatchesRows, RunningDecodes, disk
  <2> QED
    BY <1>4, <2>2, QuietStep DEF Resume
<1>5. ASSUME NEW i \in Items, Acquire(i) \/ Answer(i) \/ TaskFails(i) PROVE Shape'
  <2>1. CompletedCallKeys' = CompletedCallKeys
    BY <1>5 DEF Acquire, Answer, TaskFails, CompletedCallKeys, disk
  <2>2. TasksOfALaunch' /\ PhaseMatchesRows' /\ RunningDecodes'
    BY <1>5, <2>1 DEF Acquire, Answer, TaskFails, Alive, TypeOK, TasksOfALaunch,
       PhaseMatchesRows, RunningDecodes, disk
  <2> QED
    BY <1>5, <2>2, QuietStep DEF Acquire, Answer, TaskFails, Alive
<1>6. ASSUME NEW i \in Items, Record(i) PROVE Shape'
  <2>1. i \notin CompletedCallKeys /\ AppendCall(i)
    BY <1>6 DEF Record, PhaseMatchesRows
  <2>2. TasksOfALaunch' /\ NothingBeforeAnswer'
    BY <1>6 DEF Record, Alive, TypeOK, TasksOfALaunch, NothingBeforeAnswer
  <2>3. PhaseMatchesRows'
    BY <1>6, <2>1, KeysAfterAppend DEF Record, TypeOK, PhaseMatchesRows
  <2>4. CleanUntilTorn' /\ RecordedOnce' /\ CompletedIsRecorded'
    BY <1>6, <2>1, KeysAfterAppend
    DEF Record, Alive, TasksOfALaunch, CleanUntilTorn, CompletedIsRecorded
  <2>5. RunningDecodes' /\ OnlyTearsLose'
    BY <1>6, <2>1, KeysAfterAppend
    DEF Record, AppendCall, RunningDecodes, OnlyTearsLose, CleanUntilTorn
  <2> QED
    BY <2>2, <2>3, <2>4, <2>5
<1>7. ASSUME NEW i \in Items, RecordFails(i) PROVE Shape'
  <2>1. i \notin CompletedCallKeys /\ TearAppend(i)
    BY <1>7 DEF RecordFails, PhaseMatchesRows
  <2>2. TasksOfALaunch' /\ NothingBeforeAnswer'
    BY <1>7 DEF RecordFails, Alive, TypeOK, TasksOfALaunch, NothingBeforeAnswer
  <2>3. PhaseMatchesRows'
    BY <1>7, <2>1, KeysAfterTear DEF RecordFails, TypeOK, PhaseMatchesRows
  <2>4. CleanUntilTorn' /\ RecordedOnce' /\ CompletedIsRecorded'
    BY <1>7, <2>1, KeysAfterTear
    DEF RecordFails, Alive, TasksOfALaunch, CleanUntilTorn, CompletedIsRecorded
  <2>5. RunningDecodes' /\ OnlyTearsLose'
    BY <1>7, <2>1, KeysAfterTear DEF RecordFails, RunningDecodes, OnlyTearsLose
  <2> QED
    BY <2>2, <2>3, <2>4, <2>5
<1>8. ASSUME NEW i \in Items, Count(i) PROVE Shape'
  <2>1. CompletedCallKeys' = CompletedCallKeys
    BY <1>8 DEF Count, CompletedCallKeys
  <2>2. proc # "down" /\ proc # "asking" /\ saved'.status = "in_progress"
    BY <1>8 DEF Count, TypeOK, TasksOfALaunch
  <2>3. TasksOfALaunch' /\ NothingBeforeAnswer' /\ CompletedIsRecorded'
    BY <1>8, <2>2 DEF Count, TasksOfALaunch, NothingBeforeAnswer, CompletedIsRecorded
  <2>4. PhaseMatchesRows'
    BY <1>8, <2>1 DEF Count, TypeOK, PhaseMatchesRows
  <2>5. CleanUntilTorn' /\ RunningDecodes' /\ OnlyTearsLose' /\ RecordedOnce'
    BY <1>8 DEF Count, CleanUntilTorn, RunningDecodes, OnlyTearsLose, RecordedOnce
  <2> QED
    BY <2>3, <2>4, <2>5
<1>9. ASSUME NEW i \in Items, CountFails(i) PROVE Shape'
  <2>1. CompletedCallKeys' = CompletedCallKeys
    BY <1>9 DEF CountFails, CompletedCallKeys, disk
  <2>2. TasksOfALaunch' /\ PhaseMatchesRows' /\ RunningDecodes'
    BY <1>9, <2>1
    DEF CountFails, TypeOK, TasksOfALaunch, PhaseMatchesRows, RunningDecodes, disk
  <2> QED
    BY <1>9, <2>2, QuietStep DEF CountFails
<1>10. ASSUME NEW i \in Items, KillMidAppend(i) PROVE Shape'
  <2>1. i \notin CompletedCallKeys /\ TearAppend(i)
    BY <1>10 DEF KillMidAppend, PhaseMatchesRows
  <2>2. TasksOfALaunch' /\ PhaseMatchesRows' /\ RunningDecodes'
    BY <1>10 DEF KillMidAppend, Gone, TasksOfALaunch, PhaseMatchesRows, RunningDecodes
  <2>3. NothingBeforeAnswer' /\ CompletedIsRecorded'
    BY <1>10 DEF KillMidAppend, Gone, Alive, TasksOfALaunch, NothingBeforeAnswer,
       CompletedIsRecorded
  <2>4. CleanUntilTorn' /\ OnlyTearsLose' /\ RecordedOnce'
    BY <2>1, KeysAfterTear DEF CleanUntilTorn, OnlyTearsLose
  <2> QED
    BY <2>2, <2>3, <2>4
<1>11. CASE Finish
  <2>1. CompletedCallKeys' = CompletedCallKeys
    BY <1>11 DEF Finish, CompletedCallKeys
  <2>2. TasksOfALaunch' /\ PhaseMatchesRows' /\ NothingBeforeAnswer'
    BY <1>11 DEF Finish, TasksOfALaunch, PhaseMatchesRows, NothingBeforeAnswer
  <2>3. CompletedIsRecorded'
    BY <1>11, <2>1 DEF Finish, PhaseMatchesRows, RunningDecodes, CompletedIsRecorded
  <2>4. CleanUntilTorn' /\ RunningDecodes' /\ OnlyTearsLose' /\ RecordedOnce'
    BY <1>11 DEF Finish, CleanUntilTorn, RunningDecodes, OnlyTearsLose, RecordedOnce
  <2> QED
    BY <2>2, <2>3, <2>4
<1>12. CASE Unwind \/ Kill
  <2>1. TasksOfALaunch' /\ PhaseMatchesRows' /\ RunningDecodes'
    BY <1>12 DEF Unwind, Kill, Gone, TasksOfALaunch, PhaseMatchesRows, RunningDecodes
  <2> QED
    BY <1>12, <2>1, QuietStep DEF Unwind, Kill, Gone
<1>13. CASE ResumeRefused \/ UNCHANGED vars
  <2>1. CompletedCallKeys' = CompletedCallKeys
    BY <1>13 DEF ResumeRefused, vars, CompletedCallKeys, disk
  <2>2. TasksOfALaunch' /\ PhaseMatchesRows' /\ RunningDecodes'
    BY <1>13, <2>1
    DEF ResumeRefused, vars, disk, TasksOfALaunch, PhaseMatchesRows, RunningDecodes
  <2> QED
    BY <1>13, <2>2, QuietStep DEF ResumeRefused, vars
<1> QED
  BY <1>1, <1>2, <1>3, <1>4, <1>5, <1>6, <1>7, <1>8, <1>9, <1>10, <1>11, <1>12, <1>13
  DEF Next
-----------------------------------------------------------------------------
(* The counters *)

\* The rows of a file no append has torn are never fewer after a step.
LEMMA KeysGrow ==
    ASSUME Shape, [Next]_vars, tears' = 0
    PROVE  tears = 0 /\ CompletedCallKeys \subseteq CompletedCallKeys'
<1>0. TypeOK /\ TypeOK'
  BY TypeStep DEF Shape
<1>1. CASE UNCHANGED <<rows, tail>> /\ UNCHANGED tears
  BY <1>1 DEF CompletedCallKeys
<1>2. ASSUME NEW i \in Items, Record(i)
      PROVE  tears = 0 /\ CompletedCallKeys \subseteq CompletedCallKeys'
  <2>1. i \notin CompletedCallKeys /\ AppendCall(i) /\ tears = 0
    BY <1>2 DEF Record, PhaseMatchesRows, Shape
  <2> QED
    BY <2>1, KeysAfterAppend DEF Shape, CleanUntilTorn
<1>3. ASSUME NEW i \in Items, TearAppend(i) PROVE FALSE
  BY <1>3, <1>0 DEF TearAppend, TypeOK
<1> QED
  BY <1>1, <1>2, <1>3
  DEF Next, LaunchFresh, Confirm, Decline, Resume, ResumeRefused, Acquire, Answer, TaskFails,
      RecordFails, Count, CountFails, KillMidAppend, Finish, Unwind, Kill, vars, disk

\* The counter follows the tasks that are through their block.
LEMMA CompletedStep ==
    ASSUME Shape, [Next]_vars, completed <= Cardinality(Counted)
    PROVE  completed' <= Cardinality(Counted')
<1>0. /\ TypeOK /\ TypeOK'
      /\ Counted \in SUBSET Items /\ Counted' \in SUBSET Items
      /\ Cardinality(Counted) \in Nat /\ Cardinality(Counted') \in Nat
  BY TypeStep, ItemsFinite DEF Shape, Counted
<1>1. CASE completed' = 0
  BY <1>0, <1>1
<1>2. CASE completed' = completed /\ Counted \subseteq Counted'
  BY <1>0, <1>2, CountMonotone DEF TypeOK
<1>3. ASSUME NEW i \in Items, Count(i) \/ CountFails(i)
      PROVE  completed' <= Cardinality(Counted')
  <2>1. i \notin Counted /\ Counted' = Counted \cup {i} /\ completed' = completed + 1
    BY <1>0, <1>3 DEF Count, CountFails, Counted, TypeOK
  <2>2. Cardinality(Counted') = Cardinality(Counted) + 1
    BY <1>0, <2>1, CountOneMore
  <2> QED
    BY <1>0, <2>1, <2>2 DEF TypeOK
<1>4. CASE Resume
  <2>1. Counted' = CompletedCallKeys
    BY <1>4 DEF Resume, Counted, CompletedCallKeys
  <2> QED
    BY <1>0, <1>4, <2>1 DEF Resume
<1>5. CASE \/ \E ask \in BOOLEAN : LaunchFresh(ask)
           \/ Finish \/ Unwind \/ Kill
           \/ \E i \in Items : KillMidAppend(i)
  BY <1>1, <1>5 DEF LaunchFresh, Finish, Unwind, Kill, KillMidAppend, Gone
<1>6. CASE Confirm \/ Decline \/ ResumeRefused \/ UNCHANGED vars
  BY <1>0, <1>2, <1>6
  DEF Confirm, Decline, ResumeRefused, vars, Counted, Shape, TasksOfALaunch
<1>7. ASSUME NEW i \in Items,
             Acquire(i) \/ Answer(i) \/ TaskFails(i) \/ Record(i) \/ RecordFails(i)
      PROVE  completed' <= Cardinality(Counted')
  BY <1>0, <1>2, <1>7
  DEF Acquire, Answer, TaskFails, Record, RecordFails, Counted, TypeOK
<1> QED
  BY <1>3, <1>4, <1>5, <1>6, <1>7 DEF Next

LEMMA CountersStep == Shape /\ CountersFollowRows /\ [Next]_vars => CountersFollowRows'
<1> SUFFICES ASSUME Shape, CountersFollowRows, [Next]_vars
             PROVE  CountersFollowRows'
  OBVIOUS
<1>0. Shape' /\ TypeOK /\ TypeOK'
  BY ShapeStep DEF Shape
<1>1. completed' <= Cardinality(Counted')
  BY CompletedStep DEF CountersFollowRows
<1>2. ASSUME tears' = 0 PROVE saved'.completed <= Cardinality(CompletedCallKeys')
  <2>1. tears = 0 /\ CompletedCallKeys \subseteq CompletedCallKeys'
    BY <1>2, KeysGrow
  <2>2. /\ CompletedCallKeys \in SUBSET Items /\ CompletedCallKeys' \in SUBSET Items
        /\ Counted \in SUBSET Items /\ Counted' \in SUBSET Items
        /\ Cardinality(CompletedCallKeys) \in Nat /\ Cardinality(CompletedCallKeys') \in Nat
        /\ Cardinality(Counted) \in Nat /\ Cardinality(Counted') \in Nat
    BY ItemsFinite DEF CompletedCallKeys, Counted
  <2>3. Counted \subseteq CompletedCallKeys /\ Counted' \subseteq CompletedCallKeys'
    BY <1>0, <1>2, <2>1 DEF Shape, Counted, PhaseMatchesRows, OnlyTearsLose
  <2>4. CASE saved' = saved
    BY <1>0, <2>1, <2>2, <2>4, CountMonotone
    DEF CountersFollowRows, CheckpointNotAhead, TypeOK, RunState, NoRun
  <2>5. CASE saved'.completed = completed'
    BY <1>0, <1>1, <2>2, <2>3, <2>5, CountMonotone DEF TypeOK
  <2>6. CASE saved'.completed = completed
    BY <1>0, <2>1, <2>2, <2>3, <2>6, CountMonotone DEF TypeOK, CountersFollowRows
  <2>7. CASE saved'.completed = saved.completed
    BY <1>0, <2>1, <2>2, <2>7, CountMonotone
    DEF CountersFollowRows, CheckpointNotAhead, TypeOK, RunState, NoRun
  <2> QED
    BY <1>0, <2>4, <2>5, <2>6, <2>7
    DEF Next, LaunchFresh, Confirm, Decline, Resume, ResumeRefused, Acquire, Answer, TaskFails,
        Record, RecordFails, Count, CountFails, KillMidAppend, Finish, Unwind, Kill, vars, disk,
        TypeOK, RunState, NoRun
<1> QED
  BY <1>1, <1>2 DEF CountersFollowRows, CheckpointNotAhead

-----------------------------------------------------------------------------
(* The theorems *)

\* The invariant the code relies on when it trusts a directory after a kill.
THEOREM Invariant == Spec => []Inv
<1>1. Init => Inv
  <2> SUFFICES ASSUME Init PROVE Inv
    OBVIOUS
  <2>1. Shape
    BY ShapeInit
  <2>2. CountersFollowRows
    BY ItemsFinite
    DEF Init, CountersFollowRows, CheckpointNotAhead, NoRun, Counted, CompletedCallKeys
  <2> QED
    BY <2>1, <2>2 DEF Inv, Shape
<1>2. Inv /\ [Next]_vars => Inv'
  BY ShapeStep, CountersStep DEF Inv, Shape
<1> QED
  BY <1>1, <1>2, PTL DEF Spec

\* A completed run has a row for every work item but those a torn append
\* swallowed, whatever the interleaving of tasks, kills and resumes.
THEOREM CompletedRunsAreRecorded == Spec => []CompletedIsRecorded
  BY Invariant, PTL DEF Inv

\* Only an append the disk did not take whole can lose a row.
THEOREM LossesComeFromTears == Spec => []OnlyTearsLose
  BY Invariant, PTL DEF Inv

\* No sequence of kills and resumes records a work item twice.
THEOREM NoRowTwice == Spec => []RecordedOnce
  BY Invariant, PTL DEF Inv

\* The checkpointed count never claims a row that raw.jsonl does not hold.
THEOREM CheckpointBehindRows == Spec => []CheckpointNotAhead
  BY Invariant, PTL DEF Inv, CountersFollowRows

\* A run the user declined has no row and is not approved.
THEOREM DeclinedRunsSpendNothing == Spec => []DeclinedNeverSpends
<1>1. Inv => DeclinedNeverSpends
  BY DEF Inv, DeclinedNeverSpends, NothingBeforeAnswer, TasksOfALaunch, TypeOK
<1> QED
  BY Invariant, <1>1, PTL

\* A step never writes the directory of a settled run.
THEOREM SettledRunsAreFinal == Spec => FinishedIsFinal
<1>1. Inv /\ [Next]_vars => (saved.status \in {"completed", "failed"} => UNCHANGED disk)
  <2> SUFFICES ASSUME Inv, [Next]_vars, saved.status \in {"completed", "failed"}
               PROVE  UNCHANGED disk
    OBVIOUS
  <2>1. proc = "down" /\ \A i \in Items : phase[i] = "idle"
    BY DEF Inv, TypeOK, TasksOfALaunch
  <2> QED
    BY <2>1
    DEF Next, LaunchFresh, Confirm, Decline, Resume, ResumeRefused, Acquire, Answer, TaskFails,
        Record, RecordFails, Count, CountFails, KillMidAppend, Finish, Unwind, Kill, Alive,
        NoRun, vars, disk
<1> QED
  BY Invariant, <1>1, PTL DEF Spec, FinishedIsFinal

-----------------------------------------------------------------------------
(* The run directory implements the ledger *)

\* A torn append enters its row, loses the row it ran into, or is not noticed.
LEMMA TearSimulation ==
    ASSUME Inv, NEW i \in Items, i \notin CompletedCallKeys, TearAppend(i),
           saved.status = "in_progress", saved' = saved
    PROVE  [Ledger!LedgerNext]_(Ledger!ledgerVars)
<1> USE DEF Ledger!LedgerNext, Ledger!ledgerVars, Ledger!Enter, Ledger!Lose
<1>0. TypeOK /\ rows' = rows /\ NItems \in Nat
  BY RunLoopAssumption DEF Inv, TearAppend
<1>1. CASE tail = Clean /\ tail' = i
  <2>1. CompletedCallKeys' = CompletedCallKeys \cup {i} /\ mangled' = mangled
    BY <1>0, <1>1 DEF TearAppend, CompletedCallKeys, Items, Clean
  <2> QED
    BY <2>1
<1>2. CASE tail = Clean /\ tail' = Garbled
  <2>1. CompletedCallKeys' = CompletedCallKeys /\ mangled' = mangled
    BY <1>0, <1>2 DEF TearAppend, CompletedCallKeys, Items, Clean, Garbled
  <2> QED
    BY <2>1
<1>3. CASE tail # Clean
  <2> DEFINE S == {tail} \cap Items
  <2>1. mangled' = mangled \cup S /\ tail' = Garbled
    BY <1>3 DEF TearAppend
  <2>2. CompletedCallKeys' = CompletedCallKeys \ S
    BY <1>0, <2>1 DEF Inv, RecordedOnce, TypeOK, CompletedCallKeys, Items, Garbled
  <2>3. S \in SUBSET Items
    OBVIOUS
  <2> QED
    BY <2>1, <2>2, <2>3
<1> QED
  BY <1>1, <1>2, <1>3 DEF TearAppend

LEMMA LedgerStep == Inv /\ [Next]_vars => [Ledger!LedgerNext]_(Ledger!ledgerVars)
<1> SUFFICES ASSUME Inv, [Next]_vars PROVE [Ledger!LedgerNext]_(Ledger!ledgerVars)
  OBVIOUS
<1>0. TypeOK /\ NItems \in Nat
  BY RunLoopAssumption DEF Inv
<1> USE DEF Ledger!LedgerNext, Ledger!ledgerVars
<1>1. ASSUME NEW ask \in BOOLEAN, LaunchFresh(ask)
      PROVE  [Ledger!LedgerNext]_(Ledger!ledgerVars)
  <2>1. CompletedCallKeys' = CompletedCallKeys
    BY <1>1 DEF LaunchFresh, CompletedCallKeys
  <2> QED
    BY <1>1, <2>1 DEF LaunchFresh, NoRun, Ledger!Open
<1>2. CASE Decline
  <2>1. CompletedCallKeys' = CompletedCallKeys /\ CompletedCallKeys = {}
    BY <1>2 DEF Decline, CompletedCallKeys, Inv, NothingBeforeAnswer, Items, Clean
  <2>2. saved.status = "in_progress" /\ saved'.status = "failed"
    BY <1>0, <1>2 DEF Decline, Inv, TasksOfALaunch, TypeOK, RunState, NoRun
  <2> QED
    BY <1>2, <2>1, <2>2 DEF Decline, Ledger!Abandon
<1>3. CASE Finish
  <2>1. CompletedCallKeys' = CompletedCallKeys
    BY <1>3 DEF Finish, CompletedCallKeys
  <2>2. Items \subseteq CompletedCallKeys \cup mangled
    BY <1>3 DEF Finish, Inv, PhaseMatchesRows
  <2>3. saved.status = "in_progress" /\ saved'.status = "completed"
    BY <1>3 DEF Finish, Inv, TasksOfALaunch
  <2> QED
    BY <1>3, <2>1, <2>2, <2>3 DEF Finish, Ledger!Close
<1>4. ASSUME NEW i \in Items, Record(i) PROVE [Ledger!LedgerNext]_(Ledger!ledgerVars)
  <2>1. i \notin CompletedCallKeys /\ AppendCall(i)
    BY <1>4 DEF Record, Inv, PhaseMatchesRows
  <2>2. saved.status = "in_progress" /\ saved' = saved
    BY <1>4 DEF Record, Alive, Inv, TasksOfALaunch
  <2>3. CASE tail = Clean
    BY <1>0, <2>1, <2>2, <2>3, KeysAfterAppend DEF Inv, Ledger!Enter
  <2>4. CASE tail # Clean
    <3> DEFINE S == {i} \cup ({tail} \cap Items)
    <3>1. mangled' = mangled \cup S /\ rows' = rows /\ tail' = Clean
      BY <1>0, <2>1, <2>4 DEF AppendCall, TypeOK
    <3>2. CompletedCallKeys' = CompletedCallKeys \ S
      BY <1>0, <2>1, <3>1 DEF Inv, RecordedOnce, TypeOK, CompletedCallKeys, Items, Clean
    <3>3. S \in SUBSET Items
      OBVIOUS
    <3> QED
      BY <2>2, <3>1, <3>2, <3>3 DEF Ledger!Lose
  <2> QED
    BY <2>3, <2>4
<1>5. ASSUME NEW i \in Items, RecordFails(i) \/ KillMidAppend(i)
      PROVE  [Ledger!LedgerNext]_(Ledger!ledgerVars)
  <2>1. i \notin CompletedCallKeys /\ TearAppend(i)
    BY <1>5 DEF RecordFails, KillMidAppend, Inv, PhaseMatchesRows
  <2>2. saved.status = "in_progress" /\ saved' = saved
    BY <1>5 DEF RecordFails, KillMidAppend, Alive, Inv, TasksOfALaunch
  <2> QED
    BY <2>1, <2>2, TearSimulation
<1>6. ASSUME NEW i \in Items, Count(i) PROVE UNCHANGED Ledger!ledgerVars
  <2>1. CompletedCallKeys' = CompletedCallKeys /\ mangled' = mangled
    BY <1>6 DEF Count, CompletedCallKeys
  <2>2. saved'.status = saved.status
    BY <1>6 DEF Count, Inv, TypeOK, TasksOfALaunch
  <2> QED
    BY <2>1, <2>2
<1>7. CASE UNCHANGED <<disk, mangled>>
  BY <1>7 DEF disk, CompletedCallKeys
<1> QED
  BY <1>1, <1>2, <1>3, <1>4, <1>5, <1>6, <1>7
  DEF Next, Confirm, Resume, ResumeRefused, Acquire, Answer, TaskFails, CountFails,
      Unwind, Kill, vars

\* Every behaviour of the launches is a behaviour of the ledger.
THEOREM RunsImplementLedger == Spec => ImplementsLedger
<1>1. Init => Ledger!LedgerInit
  BY RunLoopAssumption
  DEF Init, Ledger!LedgerInit, NoRun, CompletedCallKeys, Items, Clean
<1> QED
  BY Invariant, <1>1, LedgerStep, PTL DEF Spec, ImplementsLedger, Ledger!LedgerSpec
=============================================================================
