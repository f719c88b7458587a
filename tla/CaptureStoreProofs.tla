-------------------------- MODULE CaptureStoreProofs --------------------------
(***************************************************************************)
(* Theorems about CaptureStore, for any turns, suites, toolsets, regions   *)
(* and bounds.                                                             *)
(***************************************************************************)
EXTENDS CaptureStore, FiniteSetTheorems, WellFoundedInduction, TLAPS

-----------------------------------------------------------------------------
(* Fields of the records that are updated in place *)

IsCase(c) == {"toolset", "whole"} \subseteq DOMAIN c

PassFields == {"step", "options", "read", "suites", "queue", "built", "owners", "blind"}

JobFits ==
    /\ At("writing") => IsCase(job.case)
    /\ At("promoting") => PassFields \subseteq DOMAIN job

CasesFit == \A c \in cases : IsCase(c)

\* Tearing or mending a case changes nothing else in it.
LEMMA Mended ==
    ASSUME NEW c, IsCase(c), NEW w
    PROVE  /\ IsCase([c EXCEPT !.whole = w])
           /\ [c EXCEPT !.whole = w].toolset = c.toolset
  BY Zenon DEF IsCase

LEMMA NewCaseFits ==
    ASSUME NEW t, NEW name, NEW content
    PROVE  /\ IsCase(Case(t, name, content))
           /\ Case(t, name, content).toolset = First[t]
  BY DEF IsCase, Case

\* A turn dealt with leaves the queue, its content has an owner, and sync
\* goes on.
LEMMA TurnDone ==
    ASSUME JobFits, NEW t, SyncTurn(t)
    PROVE  /\ At("promoting") /\ job'.step = "promoting"
           /\ PassFields \subseteq DOMAIN job'
           /\ job'.queue = job.queue \ {t}
           /\ \/ OwnersOf(job.built[t]) # {} /\ job'.owners = job.owners
              \/ job'.owners = job.owners \cup {[content |-> job.built[t], name |-> t]}
           /\ job'.suites = job.suites /\ job'.read = job.read
           /\ job'.options = job.options /\ job'.blind = job.blind
           /\ job'.built = job.built
<1>1. At("promoting") /\ PassFields \subseteq DOMAIN job
  BY DEF SyncTurn, JobFits
<1>2. job' = [job EXCEPT !.queue = job.queue \ {t},
                         !.owners = IF OwnersOf(job.built[t]) # {} THEN job.owners
                                    ELSE job.owners \cup {[content |-> job.built[t], name |-> t]}]
  BY Zenon DEF SyncTurn, Enter
<1>3. PICK owners :
        /\ job' = [job EXCEPT !.queue = job.queue \ {t}, !.owners = owners]
        /\ \/ OwnersOf(job.built[t]) # {} /\ owners = job.owners
           \/ owners = job.owners \cup {[content |-> job.built[t], name |-> t]}
  BY <1>2, Zenon
<1>4. /\ job'.step = job.step /\ DOMAIN job' = DOMAIN job
      /\ job'.queue = job.queue \ {t} /\ job'.owners = owners
      /\ job'.suites = job.suites /\ job'.read = job.read
      /\ job'.options = job.options /\ job'.blind = job.blind /\ job'.built = job.built
  BY <1>1, <1>3, Zenon DEF PassFields
<1> QED
  BY <1>1, <1>3, <1>4, Zenon DEF At

\* A command that has rebuilt an index ends, goes on, or turns to the region.
LEMMA ReindexJob ==
    ASSUME Reindex
    PROVE  /\ \/ job' = Idle
              \/ job' = Indexing(job.kind, job.suites, job.ahead \ {Least(job.ahead)})
              \/ job' = [step |-> "wiring", suites |-> job.suites]
           /\ job'.step \in {"idle", "indexing", "wiring"}
<1>1. \/ job' = Idle
      \/ job' = Indexing(job.kind, job.suites, job.ahead \ {Least(job.ahead)})
      \/ job' = [step |-> "wiring", suites |-> job.suites]
  BY Zenon DEF Reindex, Enter
<1> QED
  BY <1>1 DEF Idle, Indexing

LEMMA KilledWrite ==
    ASSUME NEW c, KillMidCase(c)
    PROVE  job' = Idle /\ UNCHANGED <<turns, toolsets, golden, region, raced>>
  BY Zenon DEF KillMidCase, Fault, Enter

\* A kill inside the rewrite of evalshift.yaml, and its return from a copy, touch
\* the region only.
LEMMA KilledWire ==
    ASSUME KillMidWire
    PROVE  job' = Idle /\ UNCHANGED <<turns, toolsets, dirs, cases, golden, raced>>
  BY Zenon DEF KillMidWire, Fault, Enter

LEMMA ConfigRestored ==
    ASSUME RestoreConfig
    PROVE  /\ job.step = "idle"
           /\ UNCHANGED <<turns, toolsets, dirs, cases, golden, job, raced, bounds>>
  BY Zenon DEF RestoreConfig, At

LEMMA PutCases ==
    ASSUME NEW c, NEW d \in Put(c)
    PROVE  d = c \/ d \in cases
  BY DEF Put

-----------------------------------------------------------------------------
(* No case loses its toolset *)

\* What is about to become a case has its toolset.
WritesWhatIsThere ==
    /\ At("writing") => job.case.toolset \in toolsets
    /\ At("promoting") => \A t \in job.queue : First[t] \in toolsets

\* A sweep takes nothing a case refers to.
CasesAreSpared ==
    At("asking") \/ At("sweeping") => \A c \in cases : c.toolset \notin job.orphans

ToolsInv == JobFits /\ CasesFit /\ CasesKeepTheirTools /\ WritesWhatIsThere /\ CasesAreSpared

LEMMA ToolsInit == Init => ToolsInv
  BY DEF Init, ToolsInv, JobFits, CasesFit, CasesKeepTheirTools, WritesWhatIsThere,
         CasesAreSpared, At, Idle

\* A kill in the middle of a write leaves old cases and at most the torn one.
LEMMA TornWrite ==
    ASSUME ToolsInv, NEW c, IsCase(c), c.toolset \in toolsets, KillMidCase(c)
    PROVE  ToolsInv'
<1>1. \A d \in cases' : IsCase(d) /\ d.toolset \in toolsets
  <2> SUFFICES ASSUME NEW d \in cases' PROVE IsCase(d) /\ d.toolset \in toolsets
    OBVIOUS
  <2>1. d \in cases \/ d = [c EXCEPT !.whole = FALSE]
    <3>1. d \in cases \/ d \in Put([c EXCEPT !.whole = FALSE])
      BY Zenon DEF KillMidCase
    <3> QED
      BY <3>1, PutCases, Zenon
  <2>2. IsCase([c EXCEPT !.whole = FALSE]) /\ [c EXCEPT !.whole = FALSE].toolset = c.toolset
    BY Mended, Zenon
  <2> QED
    BY <2>1, <2>2, Zenon DEF ToolsInv, CasesFit, CasesKeepTheirTools
<1>2. job' = Idle /\ toolsets' = toolsets
  BY KilledWrite
<1> QED
  BY <1>1, <1>2 DEF ToolsInv, JobFits, CasesFit, CasesKeepTheirTools, WritesWhatIsThere,
                    CasesAreSpared, At, Idle

LEMMA ToolsStep == ToolsInv /\ [Next]_vars => ToolsInv'
<1> SUFFICES ASSUME ToolsInv, [Next]_vars PROVE ToolsInv'
  OBVIOUS
<1> USE DEF ToolsInv, JobFits, CasesFit, CasesKeepTheirTools, WritesWhatIsThere,
            CasesAreSpared, At, Enter, Idle, IsCase, PassFields
<1>1. ASSUME NEW t \in Turns, BeginTurn(t) PROVE ToolsInv'
  <2>1. toolsets \subseteq toolsets' /\ UNCHANGED <<cases, job>>
    BY <1>1, Zenon DEF BeginTurn
  <2> QED
    BY <2>1
<1>2. ASSUME NEW t \in Turns, EndTurn(t) PROVE ToolsInv'
  <2>1. UNCHANGED <<toolsets, cases, job>>
    BY <1>2, Zenon DEF EndTurn
  <2> QED
    BY <2>1
<1>3. ASSUME NEW t \in Turns, NEW name, NEW force, NEW allowErrored, StartPromote(t, name, force, allowErrored) PROVE ToolsInv'
  <2>1. job'.step = "writing" /\ UNCHANGED <<toolsets, cases>>
    BY <1>3 DEF StartPromote
  <2>2. job'.case = Case(t, name, Content(t, {})) /\ First[t] \in toolsets
    BY <1>3 DEF StartPromote, Blocked
  <2> QED
    BY <2>1, <2>2, NewCaseFits
<1>4. ASSUME WriteCase PROVE ToolsInv'
  <2>1. \A c \in cases' : c = job.case \/ c \in cases
    BY <1>4, PutCases DEF WriteCase
  <2> QED
    BY <1>4, <2>1 DEF WriteCase, Indexing
<1>5. ASSUME NEW scope, NEW options \in Choices, StartSync(scope, options) PROVE ToolsInv'
  BY <1>5 DEF StartSync
<1>6. ASSUME BuildSuite PROVE ToolsInv'
  BY <1>6 DEF BuildSuite, Blocked
<1>7. ASSUME NEW t \in Turns, SyncTurn(t) PROVE ToolsInv'
  <2>1. /\ job.step = "promoting" /\ job'.step = "promoting"
        /\ job'.queue = job.queue \ {t}
        /\ PassFields \subseteq DOMAIN job'
    BY <1>7, TurnDone
  <2>2. First[t] \in toolsets /\ toolsets' = toolsets
    BY <1>7 DEF SyncTurn, IsHead
  <2>3. \A c \in cases' : c = NewCase(t) \/ c \in cases
    <3>1. cases' = cases \/ cases' = Put(NewCase(t))
      BY <1>7, Zenon DEF SyncTurn
    <3> QED
      BY <3>1, PutCases, Zenon
  <2>4. IsCase(NewCase(t)) /\ NewCase(t).toolset = First[t]
    BY NewCaseFits DEF NewCase
  <2>5. \A c \in cases' : IsCase(c) /\ c.toolset \in toolsets
    BY <2>2, <2>3, <2>4, Zenon
  <2> QED
    BY <2>1, <2>2, <2>5
<1>8. ASSUME NextSuite PROVE ToolsInv'
  BY <1>8 DEF NextSuite, SeedNext, IndexAll, Indexing
<1>9. ASSUME Reindex PROVE ToolsInv'
  <2>1. UNCHANGED <<toolsets, cases>>
    BY <1>9, Zenon DEF Reindex
  <2>2. job'.step \in {"idle", "indexing", "wiring"}
    BY <1>9, ReindexJob
  <2> QED
    BY <2>1, <2>2
<1>10. ASSUME Wire PROVE ToolsInv'
  BY <1>10 DEF Wire
<1>11. ASSUME NEW scope, NEW all, StartClean(scope, all) PROVE ToolsInv'
  BY <1>11 DEF StartClean, Cleaning
<1>12. ASSUME Confirm PROVE ToolsInv'
  BY <1>12 DEF Confirm, Cleaning
<1>13. ASSUME Decline PROVE ToolsInv'
  BY <1>13 DEF Decline
<1>14. ASSUME CountRefs PROVE ToolsInv'
  <2>1. UNCHANGED <<toolsets, cases>>
    BY <1>14 DEF CountRefs
  <2>2. job' = Idle \/ job' = Sweeping("asking", toolsets \ LiveRefs)
    BY <1>14, Zenon DEF CountRefs, Enter
  <2>3. \A c \in cases : c.toolset \in LiveRefs
    BY DEF LiveRefs
  <2> QED
    BY <2>1, <2>2, <2>3 DEF Sweeping
<1>15. ASSUME ConfirmSweep PROVE ToolsInv'
  BY <1>15 DEF ConfirmSweep, Sweeping
<1>16. ASSUME NEW t \in Turns, DeleteCapture(t) PROVE ToolsInv'
  <2>1. UNCHANGED <<toolsets, cases>> /\ job'.step \in {"counting", "deleting"}
    BY <1>16 DEF DeleteCapture, Cleaning
  <2> QED
    BY <2>1
<1>17. ASSUME NEW ref, Sweep(ref) PROVE ToolsInv'
  BY <1>17 DEF Sweep, Sweeping
<1>18. ASSUME Kill PROVE ToolsInv'
  BY <1>18 DEF Kill, Fault
<1>19. ASSUME KillMidPromote PROVE ToolsInv'
  BY <1>19, TornWrite DEF KillMidPromote
<1>20. ASSUME KillMidIndex PROVE ToolsInv'
  <2>1. UNCHANGED <<toolsets, cases>> /\ job' = Idle
    BY <1>20, Zenon DEF KillMidIndex, Fault
  <2> QED
    BY <2>1
<1>21. ASSUME NEW t \in Turns, KillMidSync(t) PROVE ToolsInv'
  <2>1. IsCase(NewCase(t)) /\ NewCase(t).toolset = First[t]
    BY NewCaseFits DEF NewCase
  <2> QED
    BY <1>21, <2>1, TornWrite DEF KillMidSync, IsHead
<1>22. ASSUME NEW c \in cases, RepairCase(c) PROVE ToolsInv'
  <2>1. IsCase([c EXCEPT !.whole = TRUE]) /\ [c EXCEPT !.whole = TRUE].toolset = c.toolset
    BY Mended, Zenon
  <2>2. \A d \in cases' : d = [c EXCEPT !.whole = TRUE] \/ d \in cases
    <3>1. cases' = cases \ {c} \/ cases' = Put([c EXCEPT !.whole = TRUE])
      BY <1>22, Zenon DEF RepairCase
    <3> QED
      BY <3>1, PutCases, Zenon
  <2>3. \A d \in cases' : IsCase(d) /\ d.toolset \in toolsets
    BY <2>1, <2>2, Zenon
  <2>4. job' = job /\ toolsets' = toolsets /\ job.step = "idle"
    BY <1>22, Zenon DEF RepairCase
  <2> QED
    BY <2>3, <2>4
<1>23. ASSUME NEW t \in Turns, RemoveTornCapture(t) PROVE ToolsInv'
  <2>1. UNCHANGED <<toolsets, cases, job>>
    BY <1>23, Zenon DEF RemoveTornCapture
  <2> QED
    BY <2>1
<1>24. CASE UNCHANGED vars
  BY <1>24 DEF vars, bounds
<1>25. ASSUME KillMidWire PROVE ToolsInv'
  BY <1>25, KilledWire
<1>26. ASSUME RestoreConfig PROVE ToolsInv'
  BY <1>26, ConfigRestored
<1> QED
  BY <1>1, <1>2, <1>3, <1>4, <1>5, <1>6, <1>7, <1>8, <1>9, <1>10, <1>11, <1>12, <1>13, <1>14, <1>15, <1>16, <1>17, <1>18, <1>19, <1>20, <1>21, <1>22, <1>23, <1>24, <1>25, <1>26, Zenon
     DEF Next, Agent, PromoteCommand, SyncCommand, CleanCommand, Kills, Hand

\* Whatever is promoted, synced, cleaned, killed, repaired or recorded in
\* between, the toolset a promoted case was made under stays on disk.
THEOREM PromotedCasesKeepTools == Spec => []CasesKeepTheirTools
<1>1. ToolsInv => CasesKeepTheirTools
  BY DEF ToolsInv
<1> QED
  BY <1>1, ToolsInit, ToolsStep, PTL DEF Spec

-----------------------------------------------------------------------------
(* No capture loses its toolsets, but for turns that raced a sweep *)

TurnsFit == turns \in [Turns -> {"unrecorded", "live", "whole", "torn", "gone"}]

\* A turn on disk or under way has its toolsets.  While a sweep is at work
\* every turn under way is one that raced it.
TurnsAreSpared ==
    \A t \in Turns \ raced :
        /\ turns[t] \in {"live", "whole"} => Refs(t) \subseteq toolsets
        /\ At("asking") \/ At("sweeping") =>
             /\ turns[t] # "live"
             /\ turns[t] = "whole" => Refs(t) \cap job.orphans = {}

TurnsInv == TurnsFit /\ TurnsAreSpared

LEMMA TurnsInit == Init => TurnsInv
  BY DEF Init, TurnsInv, TurnsFit, TurnsAreSpared

\* Steps that touch neither turns nor toolsets, nor begin a sweep.
LEMMA TurnsFrame ==
    ASSUME TurnsInv, UNCHANGED <<turns, toolsets, raced>>,
           ~At("asking")', ~At("sweeping")'
    PROVE  TurnsInv'
  BY DEF TurnsInv, TurnsFit, TurnsAreSpared

LEMMA TurnsStep == ToolsInv /\ TurnsInv /\ [Next]_vars => TurnsInv'
<1> SUFFICES ASSUME ToolsInv, TurnsInv, [Next]_vars PROVE TurnsInv'
  OBVIOUS
<1>1. ASSUME NEW t \in Turns, BeginTurn(t) PROVE TurnsInv'
  BY <1>1 DEF BeginTurn, TurnsInv, TurnsFit, TurnsAreSpared, At
<1>2. ASSUME NEW t \in Turns, EndTurn(t) PROVE TurnsInv'
  BY <1>2 DEF EndTurn, TurnsInv, TurnsFit, TurnsAreSpared, At
<1>3. ASSUME NEW t \in Turns, NEW name, NEW force, NEW allowErrored, StartPromote(t, name, force, allowErrored) PROVE TurnsInv'
  BY <1>3, TurnsFrame DEF StartPromote, At, Enter, Idle
<1>4. ASSUME WriteCase PROVE TurnsInv'
  BY <1>4, TurnsFrame DEF WriteCase, Indexing, At, Enter, Idle
<1>5. ASSUME NEW scope, NEW options \in Choices, StartSync(scope, options) PROVE TurnsInv'
  BY <1>5, TurnsFrame DEF StartSync, At, Enter, Idle
<1>6. ASSUME BuildSuite PROVE TurnsInv'
  BY <1>6, TurnsFrame DEF BuildSuite, At, Enter, Idle
<1>7. ASSUME NEW t \in Turns, SyncTurn(t) PROVE TurnsInv'
  <2>1. job'.step = "promoting"
    BY <1>7, TurnDone DEF ToolsInv
  <2>2. UNCHANGED <<turns, toolsets, raced>>
    BY <1>7, Zenon DEF SyncTurn
  <2> QED
    BY <2>1, <2>2, TurnsFrame DEF At
<1>8. ASSUME NextSuite PROVE TurnsInv'
  BY <1>8, TurnsFrame DEF NextSuite, SeedNext, IndexAll, Indexing, At, Enter, Idle
<1>9. ASSUME Reindex PROVE TurnsInv'
  <2>1. UNCHANGED <<turns, toolsets, raced>>
    BY <1>9, Zenon DEF Reindex
  <2>2. job'.step \in {"idle", "indexing", "wiring"}
    BY <1>9, ReindexJob
  <2> QED
    BY <2>1, <2>2, TurnsFrame DEF At
<1>10. ASSUME Wire PROVE TurnsInv'
  BY <1>10, TurnsFrame DEF Wire, At, Enter, Idle
<1>11. ASSUME NEW scope, NEW all, StartClean(scope, all) PROVE TurnsInv'
  BY <1>11, TurnsFrame DEF StartClean, Cleaning, At, Enter, Idle
<1>12. ASSUME Confirm PROVE TurnsInv'
  BY <1>12, TurnsFrame DEF Confirm, Cleaning, At, Enter, Idle
<1>13. ASSUME Decline PROVE TurnsInv'
  BY <1>13, TurnsFrame DEF Decline, At, Enter, Idle
<1>14. ASSUME CountRefs PROVE TurnsInv'
  <2>1. UNCHANGED <<turns, toolsets>> /\ raced \subseteq raced'
    BY <1>14 DEF CountRefs
  <2>2. \/ job' = Idle
        \/ /\ job' = Sweeping("asking", toolsets \ LiveRefs)
           /\ raced' = raced \cup {t \in Turns : turns[t] = "live"}
    BY <1>14, Zenon DEF CountRefs, Enter
  <2>3. \A t \in Turns : turns[t] = "whole" => Refs(t) \subseteq LiveRefs
    BY DEF LiveRefs, OnDisk
  <2> QED
    BY <2>1, <2>2, <2>3 DEF Sweeping, Idle, TurnsInv, TurnsFit, TurnsAreSpared, At
<1>15. ASSUME ConfirmSweep PROVE TurnsInv'
  BY <1>15 DEF ConfirmSweep, Sweeping, Enter, TurnsInv, TurnsFit, TurnsAreSpared, At
<1>16. ASSUME NEW t \in Turns, DeleteCapture(t) PROVE TurnsInv'
  BY <1>16 DEF DeleteCapture, Cleaning, Enter, TurnsInv, TurnsFit, TurnsAreSpared, At
<1>17. ASSUME NEW ref, Sweep(ref) PROVE TurnsInv'
  BY <1>17 DEF Sweep, Sweeping, Enter, Idle, TurnsInv, TurnsFit, TurnsAreSpared, At
<1>18. ASSUME Kill PROVE TurnsInv'
  BY <1>18, TurnsFrame DEF Kill, Fault, At, Enter, Idle
<1>19. ASSUME KillMidPromote PROVE TurnsInv'
  BY <1>19, KilledWrite, TurnsFrame DEF KillMidPromote, At, Idle
<1>20. ASSUME KillMidIndex PROVE TurnsInv'
  <2>1. job' = Idle /\ UNCHANGED <<turns, toolsets, raced>>
    BY <1>20, Zenon DEF KillMidIndex, Fault, Enter
  <2> QED
    BY <2>1, TurnsFrame DEF At, Idle
<1>21. ASSUME NEW t \in Turns, KillMidSync(t) PROVE TurnsInv'
  BY <1>21, KilledWrite, TurnsFrame DEF KillMidSync, At, Idle
<1>22. ASSUME NEW c \in cases, RepairCase(c) PROVE TurnsInv'
  <2>1. job.step = "idle" /\ UNCHANGED <<turns, toolsets, raced, job>>
    BY <1>22, Zenon DEF RepairCase, At
  <2> QED
    BY <2>1, TurnsFrame DEF At
<1>23. ASSUME NEW t \in Turns, RemoveTornCapture(t) PROVE TurnsInv'
  BY <1>23 DEF RemoveTornCapture, TurnsInv, TurnsFit, TurnsAreSpared, At
<1>24. CASE UNCHANGED vars
  BY <1>24 DEF vars, bounds, TurnsInv, TurnsFit, TurnsAreSpared, At
<1>25. ASSUME KillMidWire PROVE TurnsInv'
  BY <1>25, KilledWire, TurnsFrame DEF At, Idle
<1>26. ASSUME RestoreConfig PROVE TurnsInv'
  BY <1>26, ConfigRestored, TurnsFrame DEF At
<1> QED
  BY <1>1, <1>2, <1>3, <1>4, <1>5, <1>6, <1>7, <1>8, <1>9, <1>10, <1>11, <1>12, <1>13, <1>14, <1>15, <1>16, <1>17, <1>18, <1>19, <1>20, <1>21, <1>22, <1>23, <1>24, <1>25, <1>26, Zenon
     DEF Next, Agent, PromoteCommand, SyncCommand, CleanCommand, Kills, Hand

\* A capture that can still be promoted, or holds several calls, keeps every
\* toolset it was offered, unless its turn was under way during a sweep.
THEOREM CapturesKeepTools == Spec => []TurnsKeepTheirTools
<1>1. TurnsInv => TurnsKeepTheirTools
  BY DEF TurnsInv, TurnsAreSpared, TurnsKeepTheirTools, OnDisk
<1> QED
  BY <1>1, ToolsInit, ToolsStep, TurnsInit, TurnsStep, PTL DEF Spec

\* Nothing that still needs a toolset loses it.
THEOREM NeededToolsAreKept == Spec => []ToolsAreKept
<1>1. CasesKeepTheirTools /\ TurnsKeepTheirTools => ToolsAreKept
  BY DEF ToolsAreKept
<1> QED
  BY <1>1, PromotedCasesKeepTools, CapturesKeepTools, PTL

-----------------------------------------------------------------------------
(* Sync indexes every suite it saw before it turns to evalshift.yaml *)

IsIndexed(s) == golden[s] = [state |-> "whole", rows |-> Index(s)]

\* The suites behind a rebuild in progress are done, and nothing changes a
\* case until the last of them is.
IndexInv ==
    /\ DOMAIN golden = Suites
    /\ At("seeding") \/ At("promoting") => job.suites \subseteq Suites
    /\ At("indexing") =>
         /\ job.kind \in {"promote", "sync"}
         /\ job.kind = "sync" =>
              /\ job.suites \subseteq Suites
              /\ \A s \in job.suites \ job.ahead : IsIndexed(s)
    /\ SyncedSuitesAreIndexed

LEMMA IndexInit == Init => IndexInv
  BY DEF Init, IndexInv, SyncedSuitesAreIndexed, At, Idle

\* Steps beside the command leave cases, indexes and the command alone.
LEMMA IndexBeside ==
    ASSUME IndexInv, UNCHANGED <<cases, golden, job>>
    PROVE  IndexInv'
  BY DEF IndexInv, SyncedSuitesAreIndexed, IsIndexed, Index, CasesOf, At

\* A command that is not sync, or ended, has promised nothing.
LEMMA IndexFree ==
    ASSUME DOMAIN golden' = Suites,
           job'.step \notin {"seeding", "promoting", "indexing", "wiring"}
    PROVE  IndexInv'
  BY DEF IndexInv, SyncedSuitesAreIndexed, At

\* The next suite joins those that are done; with the last one all are.
LEMMA ReindexAdds ==
    ASSUME IndexInv, Reindex PROVE IndexInv'
<1> DEFINE s == Least(job.ahead)
           done == [state |-> "whole", rows |-> Index(s)]
<1>1. At("indexing") /\ cases' = cases
  BY Zenon DEF Reindex
<1>2. golden' = golden \/ golden' = [golden EXCEPT ![s] = done]
  BY Zenon DEF Reindex
<1>3. DOMAIN golden' = Suites
  BY <1>2, Zenon DEF IndexInv
<1>4. CASE job' = Idle
  BY <1>3, <1>4, IndexFree DEF Idle
<1>5. CASE job' # Idle
  <2>1. golden' = [golden EXCEPT ![s] = done]
    BY <1>5, Zenon DEF Reindex, Enter
  <2>2. \/ /\ job' = Indexing(job.kind, job.suites, job.ahead \ {s})
        \/ /\ job' = [step |-> "wiring", suites |-> job.suites]
           /\ job.ahead = {s} /\ job.kind # "promote"
    BY <1>5, Zenon DEF Reindex, Enter
  <2>3. ASSUME job.kind = "sync", NEW u \in job.suites \ (job.ahead \ {s})
        PROVE  golden'[u] = [state |-> "whole", rows |-> Index(u)]
    <3>1. u \in Suites
      BY <1>1, <2>3 DEF IndexInv
    <3>2. CASE u = s
      BY <2>1, <3>1, <3>2, Zenon DEF IndexInv
    <3>3. CASE u # s
      <4>1. golden[u] = [state |-> "whole", rows |-> Index(u)]
        BY <1>1, <2>3, <3>3 DEF IndexInv, IsIndexed
      <4> QED
        BY <2>1, <3>1, <3>3, <4>1, Zenon DEF IndexInv
    <3> QED
      BY <3>2, <3>3
  <2>4. \A u : Index(u)' = Index(u)
    BY <1>1 DEF Index, CasesOf
  <2> HIDE DEF s, done
  <2>5. CASE job' = Indexing(job.kind, job.suites, job.ahead \ {s})
    BY <1>1, <1>3, <2>3, <2>4, <2>5
       DEF IndexInv, SyncedSuitesAreIndexed, IsIndexed, Indexing, At
  <2>6. CASE job' = [step |-> "wiring", suites |-> job.suites] /\ job.ahead = {s}
                    /\ job.kind # "promote"
    BY <1>1, <1>3, <2>3, <2>4, <2>6
       DEF IndexInv, SyncedSuitesAreIndexed, IsIndexed, At
  <2> QED
    BY <2>2, <2>5, <2>6
<1> QED
  BY <1>4, <1>5

LEMMA IndexStep == ToolsInv /\ IndexInv /\ [Next]_vars => IndexInv'
<1> SUFFICES ASSUME ToolsInv, IndexInv, [Next]_vars PROVE IndexInv'
  OBVIOUS
<1> DOMAIN golden = Suites
  BY DEF IndexInv
<1>1. ASSUME NEW t \in Turns, BeginTurn(t) PROVE IndexInv'
  <2>1. UNCHANGED <<cases, golden, job>>
    BY <1>1, Zenon DEF BeginTurn
  <2> QED
    BY <2>1, IndexBeside
<1>2. ASSUME NEW t \in Turns, EndTurn(t) PROVE IndexInv'
  <2>1. UNCHANGED <<cases, golden, job>>
    BY <1>2, Zenon DEF EndTurn
  <2> QED
    BY <2>1, IndexBeside
<1>3. ASSUME NEW t \in Turns, NEW name, NEW force, NEW allowErrored, StartPromote(t, name, force, allowErrored) PROVE IndexInv'
  BY <1>3, IndexFree DEF StartPromote, Enter, Idle
<1>4. ASSUME WriteCase PROVE IndexInv'
  BY <1>4 DEF WriteCase, Indexing, Enter, IndexInv, SyncedSuitesAreIndexed, At
<1>5. ASSUME NEW scope, NEW options \in Choices, StartSync(scope, options) PROVE IndexInv'
  <2>1. /\ job'.step = "seeding" /\ golden' = golden
        /\ job'.suites \subseteq Suites
    BY <1>5, CaptureStoreAssumption DEF StartSync, OnDisk, Enter
  <2> QED
    BY <2>1 DEF IndexInv, SyncedSuitesAreIndexed, At
<1>6. ASSUME BuildSuite PROVE IndexInv'
  <2>1. /\ job'.step = "promoting" /\ job'.suites = job.suites
        /\ At("seeding") /\ golden' = golden
    BY <1>6 DEF BuildSuite, Enter
  <2> QED
    BY <2>1 DEF IndexInv, SyncedSuitesAreIndexed, At
<1>7. ASSUME NEW t \in Turns, SyncTurn(t) PROVE IndexInv'
  <2>1. /\ At("promoting") /\ job'.step = "promoting" /\ job'.suites = job.suites
    BY <1>7, TurnDone DEF ToolsInv
  <2>2. golden' = golden
    BY <1>7, Zenon DEF SyncTurn
  <2> QED
    BY <2>1, <2>2 DEF IndexInv, SyncedSuitesAreIndexed, At
<1>8. ASSUME NextSuite PROVE IndexInv'
  BY <1>8 DEF NextSuite, SeedNext, IndexAll, Indexing, Enter, Idle,
            IndexInv, SyncedSuitesAreIndexed, At
<1>9. ASSUME Reindex PROVE IndexInv'
  BY <1>9, ReindexAdds
<1>10. ASSUME Wire PROVE IndexInv'
  BY <1>10, IndexFree DEF Wire, Enter, Idle
<1>11. ASSUME NEW scope, NEW all, StartClean(scope, all) PROVE IndexInv'
  BY <1>11, IndexFree DEF StartClean, Cleaning, Enter, Idle
<1>12. ASSUME Confirm PROVE IndexInv'
  BY <1>12, IndexFree DEF Confirm, Cleaning, Enter, Idle
<1>13. ASSUME Decline PROVE IndexInv'
  BY <1>13, IndexFree DEF Decline, Enter, Idle
<1>14. ASSUME CountRefs PROVE IndexInv'
  <2>1. golden' = golden
    BY <1>14 DEF CountRefs
  <2>2. job'.step \in {"idle", "asking"}
    BY <1>14 DEF CountRefs, Sweeping, Enter, Idle
  <2> QED
    BY <2>1, <2>2, IndexFree
<1>15. ASSUME ConfirmSweep PROVE IndexInv'
  BY <1>15, IndexFree DEF ConfirmSweep, Sweeping, Enter, Idle
<1>16. ASSUME NEW t \in Turns, DeleteCapture(t) PROVE IndexInv'
  <2>1. golden' = golden
    BY <1>16 DEF DeleteCapture
  <2>2. job'.step \in {"counting", "deleting"}
    BY <1>16, Zenon DEF DeleteCapture, Cleaning, Enter
  <2> QED
    BY <2>1, <2>2, IndexFree
<1>17. ASSUME NEW ref, Sweep(ref) PROVE IndexInv'
  BY <1>17, IndexFree DEF Sweep, Sweeping, Enter, Idle
<1>18. ASSUME Kill PROVE IndexInv'
  BY <1>18, IndexFree DEF Kill, Fault, Enter, Idle
<1>19. ASSUME KillMidPromote PROVE IndexInv'
  BY <1>19, KilledWrite, IndexFree DEF KillMidPromote, Idle
<1>20. ASSUME KillMidIndex PROVE IndexInv'
  <2>1. job' = Idle /\ DOMAIN golden' = Suites
    BY <1>20, Zenon DEF KillMidIndex, Fault, Enter
  <2> QED
    BY <2>1, IndexFree DEF Idle
<1>21. ASSUME NEW t \in Turns, KillMidSync(t) PROVE IndexInv'
  BY <1>21, KilledWrite, IndexFree DEF KillMidSync, Idle
<1>22. ASSUME NEW c \in cases, RepairCase(c) PROVE IndexInv'
  <2>1. job.step = "idle" /\ UNCHANGED <<golden, job>>
    BY <1>22, Zenon DEF RepairCase, At
  <2> QED
    BY <2>1, IndexFree
<1>23. ASSUME NEW t \in Turns, RemoveTornCapture(t) PROVE IndexInv'
  <2>1. UNCHANGED <<cases, golden, job>>
    BY <1>23, Zenon DEF RemoveTornCapture
  <2> QED
    BY <2>1, IndexBeside
<1>24. CASE UNCHANGED vars
  BY <1>24, IndexBeside DEF vars
<1>25. ASSUME KillMidWire PROVE IndexInv'
  BY <1>25, KilledWire, IndexFree DEF Idle
<1>26. ASSUME RestoreConfig PROVE IndexInv'
  BY <1>26, ConfigRestored, IndexBeside
<1> QED
  BY <1>1, <1>2, <1>3, <1>4, <1>5, <1>6, <1>7, <1>8, <1>9, <1>10, <1>11, <1>12, <1>13, <1>14, <1>15, <1>16, <1>17, <1>18, <1>19, <1>20, <1>21, <1>22, <1>23, <1>24, <1>25, <1>26, Zenon
     DEF Next, Agent, PromoteCommand, SyncCommand, CleanCommand, Kills, Hand

\* Whatever earlier commands left behind, a sync that gets as far as
\* evalshift.yaml has an index of all cases for every suite it saw.
THEOREM SyncMendsTheIndex == Spec => []SyncedSuitesAreIndexed
<1>1. IndexInv => SyncedSuitesAreIndexed
  BY DEF IndexInv
<1> QED
  BY <1>1, ToolsInit, ToolsStep, IndexInit, IndexStep, PTL DEF Spec

-----------------------------------------------------------------------------
(* Clean, without --all, deletes what a readable case holds *)

HeldByACase(t) == \E c \in cases : c.from = t /\ c.whole

\* What was picked stays promoted: nothing changes a case before it is gone.
CleanInv ==
    (At("confirming") \/ At("deleting")) /\ ~job.all =>
        \A t \in job.picked : HeldByACase(t)

LEMMA CleanInit == Init => CleanInv
  BY DEF Init, CleanInv, At, Idle

LEMMA CleanBeside ==
    ASSUME CleanInv, UNCHANGED <<cases, job>> PROVE CleanInv'
  BY DEF CleanInv, HeldByACase, At

LEMMA CleanFree ==
    ASSUME job'.step \notin {"confirming", "deleting"} PROVE CleanInv'
  BY DEF CleanInv, At

LEMMA CleanStep == ToolsInv /\ CleanInv /\ [Next]_vars => CleanInv'
<1> SUFFICES ASSUME ToolsInv, CleanInv, [Next]_vars PROVE CleanInv'
  OBVIOUS
<1>1. ASSUME NEW t \in Turns, BeginTurn(t) PROVE CleanInv'
  <2>1. UNCHANGED <<cases, job>>
    BY <1>1, Zenon DEF BeginTurn
  <2> QED
    BY <2>1, CleanBeside
<1>2. ASSUME NEW t \in Turns, EndTurn(t) PROVE CleanInv'
  <2>1. UNCHANGED <<cases, job>>
    BY <1>2, Zenon DEF EndTurn
  <2> QED
    BY <2>1, CleanBeside
<1>3. ASSUME NEW t \in Turns, NEW name, NEW force, NEW allowErrored, StartPromote(t, name, force, allowErrored) PROVE CleanInv'
  BY <1>3, CleanFree DEF StartPromote, Enter, Idle
<1>4. ASSUME WriteCase PROVE CleanInv'
  BY <1>4, CleanFree DEF WriteCase, Indexing, Enter, Idle
<1>5. ASSUME NEW scope, NEW options \in Choices, StartSync(scope, options) PROVE CleanInv'
  BY <1>5, CleanFree DEF StartSync, Enter, Idle
<1>6. ASSUME BuildSuite PROVE CleanInv'
  BY <1>6, CleanFree DEF BuildSuite, Enter, Idle
<1>7. ASSUME NEW t \in Turns, SyncTurn(t) PROVE CleanInv'
  BY <1>7, TurnDone, CleanFree DEF ToolsInv
<1>8. ASSUME NextSuite PROVE CleanInv'
  BY <1>8, CleanFree DEF NextSuite, SeedNext, IndexAll, Indexing, Enter, Idle
<1>9. ASSUME Reindex PROVE CleanInv'
  BY <1>9, ReindexJob, CleanFree
<1>10. ASSUME Wire PROVE CleanInv'
  BY <1>10, CleanFree DEF Wire, Enter, Idle
<1>11. ASSUME NEW scope, NEW all \in BOOLEAN, StartClean(scope, all) PROVE CleanInv'
  <2>1. cases' = cases
    BY <1>11 DEF StartClean
  <2>2. \/ job' = [step |-> "counting"]
        \/ job' = Cleaning("confirming", all,
             {t \in OnDisk : SuiteOf[t] \in scope /\ (all \/ t \in Promoted)})
    BY <1>11, Zenon DEF StartClean, Enter
  <2>3. \A t \in Promoted : HeldByACase(t)
    BY DEF Promoted, Readable, HeldByACase
  <2> QED
    BY <2>1, <2>2, <2>3 DEF Cleaning, CleanInv, HeldByACase, At
<1>12. ASSUME Confirm PROVE CleanInv'
  BY <1>12 DEF Confirm, Cleaning, Enter, CleanInv, HeldByACase, At
<1>13. ASSUME Decline PROVE CleanInv'
  BY <1>13, CleanFree DEF Decline, Enter, Idle
<1>14. ASSUME CountRefs PROVE CleanInv'
  <2>1. job'.step \in {"idle", "asking"}
    BY <1>14 DEF CountRefs, Sweeping, Enter, Idle
  <2> QED
    BY <2>1, CleanFree
<1>15. ASSUME ConfirmSweep PROVE CleanInv'
  BY <1>15, CleanFree DEF ConfirmSweep, Sweeping, Enter, Idle
<1>16. ASSUME NEW t \in Turns, DeleteCapture(t) PROVE CleanInv'
  <2>1. \/ job' = [step |-> "counting"]
        \/ job' = Cleaning("deleting", job.all, job.picked \ {t})
    BY <1>16, Zenon DEF DeleteCapture, Enter
  <2>2. At("deleting") /\ cases' = cases
    BY <1>16 DEF DeleteCapture
  <2> QED
    BY <2>1, <2>2 DEF Cleaning, CleanInv, HeldByACase, At
<1>17. ASSUME NEW ref, Sweep(ref) PROVE CleanInv'
  BY <1>17, CleanFree DEF Sweep, Sweeping, Enter, Idle
<1>18. ASSUME Kill PROVE CleanInv'
  BY <1>18, CleanFree DEF Kill, Fault, Enter, Idle
<1>19. ASSUME KillMidPromote PROVE CleanInv'
  BY <1>19, KilledWrite, CleanFree DEF KillMidPromote, Idle
<1>20. ASSUME KillMidIndex PROVE CleanInv'
  <2>1. job' = Idle
    BY <1>20, Zenon DEF KillMidIndex, Fault, Enter
  <2> QED
    BY <2>1, CleanFree DEF Idle
<1>21. ASSUME NEW t \in Turns, KillMidSync(t) PROVE CleanInv'
  BY <1>21, KilledWrite, CleanFree DEF KillMidSync, Idle
<1>22. ASSUME NEW c \in cases, RepairCase(c) PROVE CleanInv'
  <2>1. job.step = "idle" /\ job' = job
    BY <1>22, Zenon DEF RepairCase, At
  <2> QED
    BY <2>1, CleanFree
<1>23. ASSUME NEW t \in Turns, RemoveTornCapture(t) PROVE CleanInv'
  <2>1. UNCHANGED <<cases, job>>
    BY <1>23, Zenon DEF RemoveTornCapture
  <2> QED
    BY <2>1, CleanBeside
<1>24. CASE UNCHANGED vars
  BY <1>24, CleanBeside DEF vars
<1>25. ASSUME KillMidWire PROVE CleanInv'
  BY <1>25, KilledWire, CleanFree DEF Idle
<1>26. ASSUME RestoreConfig PROVE CleanInv'
  BY <1>26, ConfigRestored, CleanBeside
<1> QED
  BY <1>1, <1>2, <1>3, <1>4, <1>5, <1>6, <1>7, <1>8, <1>9, <1>10, <1>11, <1>12, <1>13, <1>14, <1>15, <1>16, <1>17, <1>18, <1>19, <1>20, <1>21, <1>22, <1>23, <1>24, <1>25, <1>26, Zenon
     DEF Next, Agent, PromoteCommand, SyncCommand, CleanCommand, Kills, Hand

\* At a clean's deletions, a whole capture goes only when it was picked.
LEMMA OnlyPickedGo ==
    ASSUME TurnsInv, [Next]_vars, At("deleting"), NEW t \in Turns,
           turns[t] = "whole", turns'[t] = "gone"
    PROVE  t \in job.picked
<1>1. CASE \E u \in Turns : DeleteCapture(u)
  BY <1>1 DEF DeleteCapture, TurnsInv, TurnsFit
<1>2. CASE \E u \in Turns : BeginTurn(u) \/ EndTurn(u)
  BY <1>2 DEF BeginTurn, EndTurn, TurnsInv, TurnsFit
<1>3. CASE \E u \in Turns : RemoveTornCapture(u)
  BY <1>3 DEF RemoveTornCapture, At
<1>4. CASE turns' = turns
  BY <1>4
<1>5. \/ \E u \in Turns : DeleteCapture(u) \/ BeginTurn(u) \/ EndTurn(u) \/ RemoveTornCapture(u)
      \/ turns' = turns
  BY Zenon DEF Next, Agent, PromoteCommand, SyncCommand, CleanCommand, Kills, Hand,
       StartPromote, WriteCase, StartSync, BuildSuite, SyncTurn, NextSuite, Reindex, Wire,
       StartClean, Confirm, Decline, CountRefs, ConfirmSweep, Sweep, Kill, KillMidPromote,
       KillMidIndex, KillMidWire, KillMidSync, KillMidCase, Fault, RepairCase, RestoreConfig, vars
<1> QED
  BY <1>1, <1>2, <1>3, <1>4, <1>5

\* Without --all, clean deletes a capture only when a case that can be read
\* was made of it.
THEOREM CleanDeletesThePromoted == Spec => CleanKeepsTheUnpromoted
<1>1. ASSUME CleanInv, TurnsInv, [Next]_vars
      PROVE  At("deleting") /\ ~job.all =>
                \A t \in Turns : turns[t] = "whole" /\ turns'[t] = "gone" =>
                    \E c \in cases : c.from = t /\ c.whole
  BY <1>1, OnlyPickedGo DEF CleanInv, HeldByACase
<1> QED
  BY <1>1, ToolsInit, ToolsStep, TurnsInit, TurnsStep, CleanInit, CleanStep, PTL
     DEF Spec, CleanKeepsTheUnpromoted

-----------------------------------------------------------------------------
(* Sync leaves other entries of the region alone *)

\* The region is rewritten or cut by a sync that wires, or taken from a copy.
LEMMA RegionMoves ==
    ASSUME [Next]_vars
    PROVE  \/ region' = region
           \/ (At("wiring") /\ region' \in {CutRegion, Rewritten})
           \/ (~At("wiring") /\ region' \in Regions)
<1>1. ASSUME Wire PROVE region' = region \/ (At("wiring") /\ region' = Rewritten)
  BY <1>1, Zenon DEF Wire
<1>2. ASSUME KillMidWire PROVE At("wiring") /\ region' \in {CutRegion, Rewritten}
  BY <1>2, Zenon DEF KillMidWire
<1>3. ASSUME RestoreConfig PROVE ~At("wiring") /\ region' \in Regions
  BY <1>3 DEF RestoreConfig, At
<1>4. region' = region \/ Wire \/ KillMidWire \/ RestoreConfig
  BY Zenon DEF Next, Agent, PromoteCommand, SyncCommand, CleanCommand, Kills, Hand,
       BeginTurn, EndTurn, StartPromote, WriteCase, StartSync, BuildSuite, SyncTurn,
       NextSuite, Reindex, StartClean, Confirm, Decline, CountRefs, DeleteCapture,
       ConfirmSweep, Sweep, Kill, KillMidPromote, KillMidIndex, KillMidSync, KillMidCase,
       RepairCase, RemoveTornCapture, vars
<1> QED
  BY <1>1, <1>2, <1>3, <1>4

\* An entry of a suite the sync has not seen, or one that is pinned, outlives
\* the rewrite of a region that parses, and the kill inside it that has got past
\* the region; a kill that cuts the region takes them.
THEOREM SyncSparesOtherEntries == Spec => OtherEntriesSurvive
<1>1. ASSUME [Next]_vars
      PROVE  At("wiring") /\ region.parses /\ region'.marked =>
                \A s \in Suites :
                    s \notin job.suites \/ ~region.entries[s].managed =>
                        region'.entries[s] = region.entries[s]
  <2>1. CASE At("wiring") /\ region.parses /\ region' = Rewritten
    BY <2>1 DEF Rewritten, Existing, BuildEntries
  <2>2. CASE region' = region
    BY <2>2
  <2>3. CASE region' = CutRegion
    BY <2>3 DEF CutRegion
  <2>4. CASE ~At("wiring")
    BY <2>4
  <2>5. region' \in {region, Rewritten, CutRegion} \/ ~At("wiring")
    BY <1>1, RegionMoves
  <2> QED
    BY <2>1, <2>2, <2>3, <2>4, <2>5
<1> QED
  BY <1>1, PTL DEF Spec, OtherEntriesSurvive

-----------------------------------------------------------------------------
(* Every file and every job is of its type *)

Steps == {"idle", "writing", "seeding", "promoting", "indexing", "wiring",
          "confirming", "deleting", "counting", "asking", "sweeping"}

CaseFields == {"suite", "name", "from", "content", "toolset", "whole"}

CaseTyped(c) ==
    /\ CaseFields \subseteq DOMAIN c
    /\ c.suite \in Suites /\ c.name \in Names /\ c.from \in Turns
    /\ c.whole \in BOOLEAN /\ c.toolset \in Toolsets

OneOfAName(cs) == \A c, d \in cs : d.suite = c.suite /\ d.name = c.name => d = c

\* Cases, the directories they are in, and the ones about to be written.
CaseTypes ==
    /\ \A c \in cases : CaseTyped(c) /\ c.suite \in dirs
    /\ OneOfAName(cases)
    /\ dirs \subseteq Suites
    /\ At("writing") => CaseTyped(job.case)
    /\ At("seeding") \/ At("promoting") => job.read \subseteq Turns
    /\ At("promoting") => job.queue \subseteq Turns

\* An index holds the toolsets of its cases, and so does the region.
IndexTypes ==
    /\ DOMAIN golden = Suites
    /\ \A s \in Suites :
         /\ golden[s].state \in {"missing", "whole", "torn"}
         /\ \A r \in golden[s].rows : r.toolset \in Toolsets
    /\ region.marked \in BOOLEAN /\ region.parses \in BOOLEAN
    /\ \A s \in Suites : region.entries[s].toolsets \subseteq Toolsets

CountTypes ==
    /\ toolsets \subseteq Toolsets
    /\ job.step \in Steps
    /\ raced \subseteq Turns
    /\ faults \in 0..MaxFaults /\ commands \in 0..MaxCommands

TypesInv == CaseTypes /\ IndexTypes /\ CountTypes

LEMMA Constants ==
    /\ Turns \subseteq Names
    /\ SuiteOf \in [Turns -> Suites] /\ AliasOf \in [Turns -> SUBSET Names]
    /\ First \in [Turns -> Toolsets \cup {Unstamped}] /\ Unstamped \notin Toolsets
    /\ Later \in [Turns -> SUBSET Toolsets]
    /\ MaxFaults \in Nat /\ MaxCommands \in Nat
    /\ \A r \in Regions :
         /\ r.marked \in BOOLEAN /\ r.parses \in BOOLEAN
         /\ \A s \in Suites : r.entries[s].toolsets \subseteq Toolsets
  BY CaptureStoreAssumption DEF Turns, Names

LEMMA RefsAreToolsets == \A t \in Turns : Refs(t) \subseteq Toolsets
  BY Constants DEF Refs

\* The steps that write cases or prepare to; all others leave cases alone and
\* are not writing one.
CaseSteps ==
    \/ PromoteCommand \/ BuildSuite \/ NextSuite \/ KillMidPromote
    \/ \E scope \in Scopes, options \in Choices : StartSync(scope, options)
    \/ \E t \in Turns : SyncTurn(t)
    \/ \E t \in Turns : KillMidSync(t)
    \/ \E c \in cases : RepairCase(c)

LEMMA OtherSteps ==
    ASSUME [Next]_vars, ~CaseSteps
    PROVE  /\ UNCHANGED <<cases, dirs>>
           /\ job' = job \/ job'.step \notin {"writing", "seeding", "promoting"}
<1> DEFINE Goal == /\ UNCHANGED <<cases, dirs>>
                   /\ job' = job \/ job'.step \notin {"writing", "seeding", "promoting"}
<1>1. ASSUME NEW t, BeginTurn(t) PROVE Goal
  BY <1>1, Zenon DEF BeginTurn
<1>2. ASSUME NEW t, EndTurn(t) PROVE Goal
  BY <1>2, Zenon DEF EndTurn
<1>3. ASSUME Reindex PROVE Goal
  <2>1. UNCHANGED <<cases, dirs>>
    BY <1>3, Zenon DEF Reindex
  <2> QED
    BY <1>3, <2>1, ReindexJob
<1>4. ASSUME Wire PROVE Goal
  BY <1>4 DEF Wire, Enter, Idle
<1>5. ASSUME NEW scope, NEW all, StartClean(scope, all) PROVE Goal
  BY <1>5 DEF StartClean, Cleaning, Enter
<1>6. ASSUME Confirm PROVE Goal
  BY <1>6 DEF Confirm, Cleaning, Enter
<1>7. ASSUME Decline PROVE Goal
  BY <1>7 DEF Decline, Enter, Idle
<1>8. ASSUME CountRefs PROVE Goal
  <2>1. UNCHANGED <<cases, dirs>>
    BY <1>8, Zenon DEF CountRefs
  <2>2. job' = Idle \/ job' = Sweeping("asking", toolsets \ LiveRefs)
    BY <1>8, Zenon DEF CountRefs, Enter
  <2> QED
    BY <2>1, <2>2 DEF Sweeping, Idle
<1>9. ASSUME ConfirmSweep PROVE Goal
  BY <1>9 DEF ConfirmSweep, Sweeping, Enter
<1>10. ASSUME NEW t, DeleteCapture(t) PROVE Goal
  BY <1>10 DEF DeleteCapture, Cleaning, Enter
<1>11. ASSUME NEW ref, Sweep(ref) PROVE Goal
  BY <1>11 DEF Sweep, Sweeping, Enter, Idle
<1>12. ASSUME Kill PROVE Goal
  BY <1>12 DEF Kill, Fault, Enter, Idle
<1>13. ASSUME KillMidIndex PROVE Goal
  <2>1. job' = Idle /\ UNCHANGED <<cases, dirs>>
    BY <1>13, Zenon DEF KillMidIndex, Fault, Enter
  <2> QED
    BY <2>1 DEF Idle
<1>14. ASSUME NEW t, RemoveTornCapture(t) PROVE Goal
  BY <1>14, Zenon DEF RemoveTornCapture
<1>15. ASSUME UNCHANGED vars PROVE Goal
  BY <1>15, Zenon DEF vars
<1>16. ASSUME KillMidWire PROVE Goal
  BY <1>16, KilledWire DEF Idle
<1>17. ASSUME RestoreConfig PROVE Goal
  BY <1>17, ConfigRestored
<1>18. \/ \E t \in Turns : BeginTurn(t) \/ EndTurn(t)
       \/ Reindex \/ Wire
       \/ CleanCommand \/ Kill \/ KillMidIndex \/ KillMidWire \/ RestoreConfig
       \/ \E t \in Turns : RemoveTornCapture(t)
       \/ UNCHANGED vars
  BY Zenon DEF Next, Agent, SyncCommand, Kills, Hand, CaseSteps
<1> HIDE DEF Goal
<1>19. CleanCommand => Goal
  BY <1>5, <1>6, <1>7, <1>8, <1>9, <1>10, <1>11, Zenon DEF CleanCommand
<1>20. Goal
  BY <1>1, <1>2, <1>3, <1>4, <1>12, <1>13, <1>14, <1>15, <1>18, <1>19, <1>16, <1>17, Zenon
<1> QED
  BY <1>20 DEF Goal

LEMMA CaseKept ==
    ASSUME NEW c, CaseTyped(c), NEW w \in BOOLEAN
    PROVE  /\ CaseTyped([c EXCEPT !.whole = w])
           /\ [c EXCEPT !.whole = w].suite = c.suite
           /\ [c EXCEPT !.whole = w].name = c.name
  BY Zenon DEF CaseTyped, CaseFields

LEMMA CaseIsTyped ==
    ASSUME NEW t \in Turns, NEW name \in Names, First[t] \in Toolsets, NEW content
    PROVE  CaseTyped(Case(t, name, content))
  BY Constants DEF Case, CaseTyped, CaseFields

\* A case is written over the one of its name.
LEMMA PutTyped ==
    ASSUME CaseTypes, NEW c, CaseTyped(c)
    PROVE  /\ \A d \in Put(c) : CaseTyped(d) /\ d.suite \in dirs \cup {c.suite}
           /\ OneOfAName(Put(c))
           /\ dirs \cup {c.suite} \subseteq Suites
<1>1. c.suite \in Suites
  BY DEF CaseTyped
<1>2. \A d \in Put(c) : CaseTyped(d) /\ d.suite \in dirs \cup {c.suite}
  BY Zenon DEF CaseTypes, Put
<1>3. OneOfAName(Put(c))
  BY Zenon DEF CaseTypes, Put, OneOfAName
<1> QED
  BY <1>1, <1>2, <1>3 DEF CaseTypes

LEMMA CaseInit == Init => CaseTypes
  BY DEF Init, CaseTypes, OneOfAName, At, Idle

\* A kill in the middle of a write leaves at most a torn case of its type.
LEMMA TornTyped ==
    ASSUME CaseTypes, NEW c, CaseTyped(c), KillMidCase(c)
    PROVE  CaseTypes'
<1>1. CaseTyped([c EXCEPT !.whole = FALSE]) /\ [c EXCEPT !.whole = FALSE].suite = c.suite
  BY CaseKept
<1>2. dirs' = dirs \cup {c.suite} /\ (cases' = cases \/ cases' = Put([c EXCEPT !.whole = FALSE]))
  BY Zenon DEF KillMidCase
<1>3. c.suite \in Suites /\ job' = Idle
  BY KilledWrite DEF CaseTyped
<1>4. CASE cases' = cases
  BY <1>2, <1>3, <1>4 DEF CaseTypes, At, Idle
<1>5. CASE cases' = Put([c EXCEPT !.whole = FALSE])
  <2> DEFINE torn == [c EXCEPT !.whole = FALSE]
  <2>1. cases' = Put(torn) /\ CaseTyped(torn) /\ torn.suite = c.suite
    BY <1>1, <1>5
  <2> HIDE DEF torn
  <2>2. /\ \A d \in cases' : CaseTyped(d) /\ d.suite \in dirs'
        /\ OneOfAName(cases') /\ dirs' \subseteq Suites
    BY <1>2, <2>1, PutTyped
  <2> QED
    BY <1>3, <2>2 DEF CaseTypes, At, Idle
<1> QED
  BY <1>2, <1>4, <1>5

LEMMA CaseStep == ToolsInv /\ CaseTypes /\ toolsets \subseteq Toolsets /\ [Next]_vars => CaseTypes'
<1> SUFFICES ASSUME ToolsInv, CaseTypes, toolsets \subseteq Toolsets, [Next]_vars PROVE CaseTypes'
  OBVIOUS
<1>1. ASSUME NEW t \in Turns, NEW name \in {t} \cup AliasOf[t], NEW force, NEW allowErrored,
             StartPromote(t, name, force, allowErrored)
      PROVE  CaseTypes'
  <2>1. /\ job' = [step |-> "writing", case |-> Case(t, name, Content(t, {}))]
        /\ First[t] \in toolsets /\ UNCHANGED <<cases, dirs>>
    BY <1>1, Zenon DEF StartPromote, Blocked, Enter
  <2>2. name \in Names
    BY Constants
  <2>3. CaseTyped(Case(t, name, Content(t, {})))
    BY <2>1, <2>2, CaseIsTyped
  <2> HIDE DEF CaseTyped
  <2> QED
    BY <2>1, <2>3 DEF CaseTypes, At
<1>2. ASSUME WriteCase PROVE CaseTypes'
  <2>1. /\ CaseTyped(job.case) /\ cases' = Put(job.case) /\ dirs' = dirs \cup {job.case.suite}
        /\ job'.step = "indexing"
    BY <1>2 DEF WriteCase, CaseTypes, Enter, Indexing
  <2> QED
    BY <2>1, PutTyped DEF CaseTypes, At
<1>3. ASSUME BuildSuite PROVE CaseTypes'
  <2>1. /\ At("seeding") /\ job'.step = "promoting" /\ job'.queue \subseteq job.read
        /\ job'.read = job.read /\ UNCHANGED <<cases, dirs>>
    BY <1>3 DEF BuildSuite, Enter
  <2> QED
    BY <2>1 DEF CaseTypes, At
<1>4. ASSUME KillMidPromote PROVE CaseTypes'
  BY <1>4, TornTyped DEF KillMidPromote, CaseTypes
<1>5. ASSUME NEW t \in Turns, At("promoting"), IsHead(t) PROVE CaseTyped(NewCase(t))
  <2>1. First[t] \in Toolsets /\ t \in Names
    BY <1>5, Constants DEF ToolsInv, WritesWhatIsThere, IsHead
  <2> QED
    BY <2>1, CaseIsTyped DEF NewCase
<1>6. ASSUME NEW t \in Turns, SyncTurn(t) PROVE CaseTypes'
  <2>1. /\ At("promoting") /\ job'.step = "promoting" /\ job'.queue = job.queue \ {t}
        /\ job'.read = job.read
    BY <1>6, TurnDone DEF ToolsInv
  <2>2. \/ UNCHANGED <<cases, dirs>>
        \/ cases' = Put(NewCase(t)) /\ dirs' = dirs \cup {SuiteOf[t]}
    BY <1>6, Zenon DEF SyncTurn
  <2>3. CaseTyped(NewCase(t)) /\ NewCase(t).suite = SuiteOf[t]
    <3>1. NewCase(t).suite = SuiteOf[t]
      BY DEF NewCase, Case
    <3> QED
      BY <1>5, <1>6, <3>1 DEF SyncTurn
  <2>4. /\ \A d \in cases' : CaseTyped(d) /\ d.suite \in dirs'
        /\ OneOfAName(cases') /\ dirs' \subseteq Suites
    <3>1. CASE UNCHANGED <<cases, dirs>>
      BY <3>1 DEF CaseTypes
    <3>2. CASE cases' = Put(NewCase(t)) /\ dirs' = dirs \cup {SuiteOf[t]}
      BY <2>3, <3>2, PutTyped
    <3> QED
      BY <2>2, <3>1, <3>2
  <2> QED
    BY <2>1, <2>4 DEF CaseTypes, At
<1>7. ASSUME NEW t \in Turns, KillMidSync(t) PROVE CaseTypes'
  BY <1>5, <1>7, TornTyped DEF KillMidSync
<1>8. ASSUME NEW c \in cases, RepairCase(c) PROVE CaseTypes'
  <2> DEFINE mended == [c EXCEPT !.whole = TRUE]
  <2>1. /\ job' = job /\ dirs' = dirs /\ At("idle")
        /\ cases' = cases \ {c} \/ cases' = Put(mended)
    BY <1>8, Zenon DEF RepairCase
  <2>2. CaseTyped(mended) /\ mended.suite = c.suite /\ c.suite \in dirs
    BY CaseKept DEF CaseTypes
  <2> HIDE DEF mended
  <2>3. /\ \A d \in cases' : CaseTyped(d) /\ d.suite \in dirs'
        /\ OneOfAName(cases') /\ dirs' \subseteq Suites
    <3>1. CASE cases' = cases \ {c}
      BY <2>1, <3>1 DEF CaseTypes, OneOfAName
    <3>2. CASE cases' = Put(mended)
      <4>1. dirs \cup {mended.suite} = dirs
        BY <2>2
      <4> QED
        BY <2>1, <2>2, <3>2, <4>1, PutTyped
    <3> QED
      BY <2>1, <3>1, <3>2
  <2> QED
    BY <2>1, <2>3 DEF CaseTypes, At
<1>9. ASSUME NEW scope, NEW options, StartSync(scope, options) PROVE CaseTypes'
  <2>1. job'.step = "seeding" /\ job'.read \subseteq Turns /\ UNCHANGED <<cases, dirs>>
    BY <1>9 DEF StartSync, Enter, OnDisk
  <2> QED
    BY <2>1 DEF CaseTypes, At
<1>10. ASSUME NextSuite PROVE CaseTypes'
  <2>1. /\ UNCHANGED <<cases, dirs>> /\ At("promoting")
        /\ \/ job'.step = "seeding" /\ job'.read = job.read
           \/ job'.step \in {"idle", "indexing"}
    BY <1>10 DEF NextSuite, SeedNext, IndexAll, Indexing, Enter, Idle
  <2> QED
    BY <2>1 DEF CaseTypes, At
<1>11. CASE ~CaseSteps
  <2>1. /\ UNCHANGED <<cases, dirs>>
        /\ job' = job \/ job'.step \notin {"writing", "seeding", "promoting"}
    BY <1>11, OtherSteps
  <2> QED
    BY <2>1 DEF CaseTypes, At
<1> QED
  BY <1>1, <1>2, <1>3, <1>4, <1>6, <1>7, <1>8, <1>11, <1>9, <1>10, Zenon DEF CaseSteps, PromoteCommand

LEMMA IndexTypesInit == Init => IndexTypes
  BY Constants DEF Init, IndexTypes, NoIndex

\* What a rebuild writes comes from cases.
LEMMA RowsAreTyped ==
    ASSUME CaseTypes, NEW s, NEW r \in Index(s)
    PROVE  r.toolset \in Toolsets
  BY DEF Index, Row, CasesOf, CaseTypes, CaseTyped

LEMMA IndexTypesStep == CaseTypes /\ IndexTypes /\ [Next]_vars => IndexTypes'
<1> SUFFICES ASSUME CaseTypes, IndexTypes, [Next]_vars PROVE IndexTypes'
  OBVIOUS
<1>1. golden' = golden \/ Reindex \/ KillMidIndex
  BY Zenon DEF Next, Agent, PromoteCommand, SyncCommand, CleanCommand, Kills, Hand,
       BeginTurn, EndTurn, StartPromote, WriteCase, StartSync, BuildSuite, SyncTurn,
       NextSuite, StartClean, Confirm, Decline, CountRefs, DeleteCapture, Reindex,
       ConfirmSweep, Sweep, Kill, KillMidPromote, KillMidIndex, KillMidSync, KillMidCase,
       KillMidWire, RestoreConfig, Fault, RepairCase, RemoveTornCapture, vars, Wire
<1>2. PICK s, g : /\ golden' = golden \/ golden' = [golden EXCEPT ![s] = g]
                  /\ g.state \in {"missing", "whole", "torn"}
                  /\ \A r \in g.rows : r.toolset \in Toolsets
  <2> DEFINE least == Least(job.ahead)
             done == [state |-> "whole", rows |-> Index(least)]
  <2>1. /\ done.state = "whole" /\ \A r \in done.rows : r.toolset \in Toolsets
        /\ TornIndex.state = "torn" /\ TornIndex.rows = {}
    BY RowsAreTyped DEF TornIndex
  <2>2. golden' = golden \/ golden' = [golden EXCEPT ![least] = done]
                         \/ golden' = [golden EXCEPT ![least] = TornIndex]
    BY <1>1, Zenon DEF Reindex, KillMidIndex
  <2> HIDE DEF done, least
  <2> QED
    BY <2>1, <2>2
<1>3. /\ DOMAIN golden' = Suites
      /\ \A u \in Suites :
           /\ golden'[u].state \in {"missing", "whole", "torn"}
           /\ \A r \in golden'[u].rows : r.toolset \in Toolsets
  BY <1>2 DEF IndexTypes
<1>4. /\ region'.marked \in BOOLEAN /\ region'.parses \in BOOLEAN
      /\ \A u \in Suites : region'.entries[u].toolsets \subseteq Toolsets
  <2>1. CASE region' = region
    BY <2>1 DEF IndexTypes
  <2>2. CASE region' = Rewritten
    <3>1. \A u \in Suites : Existing[u].toolsets \subseteq Toolsets
      BY DEF Existing, NoEntries, NoEntry, IndexTypes
    <3>2. \A u \in Suites : Entry(u).toolsets \subseteq Toolsets
      BY DEF Entry, IndexTypes
    <3> QED
      BY <2>2, <3>1, <3>2 DEF Rewritten, BuildEntries
  <2>3. CASE region' = CutRegion
    BY <2>3 DEF CutRegion, NoEntries, NoEntry
  <2>4. CASE region' \in Regions
    BY <2>4, Constants
  <2> QED
    BY RegionMoves, <2>1, <2>2, <2>3, <2>4
<1> QED
  BY <1>3, <1>4 DEF IndexTypes

LEMMA CountInit == Init => CountTypes
  BY Constants DEF Init, CountTypes, Steps, Idle

LEMMA CountStep == ToolsInv /\ CountTypes /\ [Next]_vars => CountTypes'
<1> SUFFICES ASSUME ToolsInv, CountTypes, [Next]_vars PROVE CountTypes'
  OBVIOUS
<1> USE DEF CountTypes, Steps
<1>1. ASSUME NEW t \in Turns, BeginTurn(t) PROVE CountTypes'
  <2>1. toolsets' \subseteq Toolsets
    BY <1>1, RefsAreToolsets DEF BeginTurn
  <2>2. raced' \subseteq Turns /\ UNCHANGED <<job, faults, commands>>
    BY <1>1 DEF BeginTurn, bounds
  <2> QED
    BY <2>1, <2>2
<1>2. ASSUME NEW t \in Turns, EndTurn(t) PROVE CountTypes'
  <2>1. UNCHANGED <<toolsets, job, raced, commands>>
    BY <1>2 DEF EndTurn
  <2>2. faults' = faults \/ (faults' = faults + 1 /\ faults < MaxFaults)
    BY <1>2, Zenon DEF EndTurn
  <2> QED
    BY <2>1, <2>2, Constants
<1>3. ASSUME NEW t \in Turns, NEW name, NEW force, NEW allowErrored, StartPromote(t, name, force, allowErrored) PROVE CountTypes'
  BY <1>3, Constants DEF StartPromote, Typed, Enter
<1>4. ASSUME WriteCase PROVE CountTypes'
  BY <1>4 DEF WriteCase, Indexing, Enter, bounds
<1>5. ASSUME NEW scope, NEW options \in Choices, StartSync(scope, options) PROVE CountTypes'
  BY <1>5, Constants DEF StartSync, Typed, Enter
<1>6. ASSUME BuildSuite PROVE CountTypes'
  BY <1>6 DEF BuildSuite, Enter, bounds
<1>7. ASSUME NEW t \in Turns, SyncTurn(t) PROVE CountTypes'
  <2>1. job'.step = "promoting"
    BY <1>7, TurnDone DEF ToolsInv
  <2>2. UNCHANGED <<toolsets, raced, bounds>>
    BY <1>7, Zenon DEF SyncTurn
  <2> QED
    BY <2>1, <2>2 DEF bounds
<1>8. ASSUME NextSuite PROVE CountTypes'
  BY <1>8 DEF NextSuite, SeedNext, IndexAll, Indexing, Enter, Idle, bounds
<1>9. ASSUME Reindex PROVE CountTypes'
  <2>1. UNCHANGED <<toolsets, raced, bounds>>
    BY <1>9, Zenon DEF Reindex
  <2>2. job'.step \in {"idle", "indexing", "wiring"}
    BY <1>9, ReindexJob
  <2> QED
    BY <2>1, <2>2 DEF bounds
<1>10. ASSUME Wire PROVE CountTypes'
  BY <1>10 DEF Wire, Enter, Idle, bounds
<1>11. ASSUME NEW scope, NEW all, StartClean(scope, all) PROVE CountTypes'
  <2>1. job'.step \in {"counting", "confirming"}
    BY <1>11 DEF StartClean, Cleaning, Enter
  <2>2. /\ commands < MaxCommands /\ commands' = commands + 1
        /\ UNCHANGED <<toolsets, raced, faults>>
    BY <1>11, Zenon DEF StartClean, Typed
  <2> QED
    BY <2>1, <2>2, Constants
<1>12. ASSUME Confirm PROVE CountTypes'
  BY <1>12 DEF Confirm, Cleaning, Enter, bounds
<1>13. ASSUME Decline PROVE CountTypes'
  BY <1>13 DEF Decline, Enter, Idle, bounds
<1>14. ASSUME CountRefs PROVE CountTypes'
  <2>1. UNCHANGED <<toolsets, bounds>>
    BY <1>14, Zenon DEF CountRefs
  <2>2. /\ job' = Idle \/ job' = Sweeping("asking", toolsets \ LiveRefs)
        /\ raced' = raced \/ raced' = raced \cup {t \in Turns : turns[t] = "live"}
    BY <1>14, Zenon DEF CountRefs, Enter
  <2>3. raced' \subseteq Turns
    BY <2>2
  <2>4. job'.step \in {"idle", "asking"}
    BY <2>2 DEF Idle, Sweeping
  <2> QED
    BY <2>1, <2>3, <2>4 DEF bounds
<1>15. ASSUME ConfirmSweep PROVE CountTypes'
  BY <1>15 DEF ConfirmSweep, Sweeping, Enter, bounds
<1>16. ASSUME NEW t \in Turns, DeleteCapture(t) PROVE CountTypes'
  BY <1>16 DEF DeleteCapture, Cleaning, Enter, bounds
<1>17. ASSUME NEW ref, Sweep(ref) PROVE CountTypes'
  BY <1>17 DEF Sweep, Sweeping, Enter, Idle, bounds
<1>18. ASSUME UNCHANGED <<toolsets, raced>>, Fault PROVE CountTypes'
  BY <1>18, Constants DEF Fault, Enter, Idle
<1>19. ASSUME Kill PROVE CountTypes'
  BY <1>18, <1>19 DEF Kill, Fault
<1>20. ASSUME NEW c, KillMidCase(c) PROVE CountTypes'
  <2>1. Fault /\ UNCHANGED <<toolsets, raced>>
    BY <1>20, Zenon DEF KillMidCase, Fault
  <2> QED
    BY <1>18, <2>1
<1>21. ASSUME KillMidIndex PROVE CountTypes'
  <2>1. Fault /\ UNCHANGED <<toolsets, raced>>
    BY <1>21, Zenon DEF KillMidIndex, Fault
  <2> QED
    BY <1>18, <2>1
<1>22. ASSUME NEW c \in cases, RepairCase(c) PROVE CountTypes'
  <2>1. UNCHANGED <<toolsets, job, raced, bounds>>
    BY <1>22, Zenon DEF RepairCase
  <2> QED
    BY <2>1 DEF bounds
<1>23. ASSUME NEW t \in Turns, RemoveTornCapture(t) PROVE CountTypes'
  BY <1>23 DEF RemoveTornCapture, bounds
<1>24. ASSUME UNCHANGED vars PROVE CountTypes'
  BY <1>24 DEF vars, bounds
<1>25. ASSUME KillMidWire PROVE CountTypes'
  <2>1. Fault /\ UNCHANGED <<toolsets, raced>>
    BY <1>25, KilledWire DEF KillMidWire
  <2> QED
    BY <1>18, <2>1
<1>26. ASSUME RestoreConfig PROVE CountTypes'
  BY <1>26, ConfigRestored DEF bounds
<1> QED
  BY <1>1, <1>2, <1>3, <1>4, <1>5, <1>6, <1>7, <1>8, <1>9, <1>10, <1>11, <1>12, <1>13, <1>14, <1>15, <1>16, <1>17, <1>19, <1>20, <1>21, <1>22, <1>23, <1>24, <1>25, <1>26, Zenon
     DEF Next, Agent, PromoteCommand, SyncCommand, CleanCommand, Kills, Hand,
         KillMidPromote, KillMidSync

LEMMA TypesHold == Spec => [](ToolsInv /\ TurnsInv /\ TypesInv)
<1>1. Init => ToolsInv /\ TurnsInv /\ TypesInv
  BY ToolsInit, TurnsInit, CaseInit, IndexTypesInit, CountInit DEF TypesInv
<1>2. ToolsInv /\ TurnsInv /\ TypesInv /\ [Next]_vars => (ToolsInv /\ TurnsInv /\ TypesInv)'
  <2>1. TypesInv => toolsets \subseteq Toolsets
    BY DEF TypesInv, CountTypes
  <2> QED
    BY <2>1, ToolsStep, TurnsStep, CaseStep, IndexTypesStep, CountStep DEF TypesInv
<1> QED
  BY <1>1, <1>2, PTL DEF Spec

\* Whatever the agent and the commands do, are killed at and are repaired
\* after: no suite holds two cases of one name, each index and the region name
\* known toolsets, and a command works on what there is.
THEOREM TypeCorrect == Spec => []TypeOK
<1>1. TurnsInv /\ TypesInv => TypeOK
  <2> SUFFICES ASSUME TurnsInv, TypesInv PROVE TypeOK
    OBVIOUS
  <2>1. /\ turns \in [Turns -> {"unrecorded", "live", "whole", "torn", "gone"}]
        /\ toolsets \subseteq Toolsets /\ dirs \subseteq Suites
        /\ raced \subseteq Turns
        /\ faults \in 0..MaxFaults /\ commands \in 0..MaxCommands
        /\ job.step \in Steps
    BY DEF TurnsInv, TurnsFit, TypesInv, CaseTypes, CountTypes
  <2>2. \A c \in cases :
          /\ c.suite \in dirs /\ c.name \in Names /\ c.from \in Turns
          /\ c.whole \in BOOLEAN /\ c.toolset \in Toolsets
          /\ \A d \in cases : d.suite = c.suite /\ d.name = c.name => d = c
    BY DEF TypesInv, CaseTypes, CaseTyped, OneOfAName
  <2>3. /\ \A s \in Suites : golden[s].state \in {"missing", "whole", "torn"}
        /\ region.marked \in BOOLEAN /\ region.parses \in BOOLEAN
        /\ \A s \in Suites : region.entries[s].toolsets \subseteq Toolsets
    BY DEF TypesInv, IndexTypes
  <2> QED
    BY <2>1, <2>2, <2>3, Zenon DEF TypeOK, Steps
<1> QED
  BY <1>1, TypesHold, PTL

-----------------------------------------------------------------------------
(* Sync writes no content a second time *)

\* The least of some numbers is one of them: their sets of smaller numbers are
\* finite, so one of these has no other inside it.
LEMMA LeastIsOne ==
    ASSUME NEW S \in SUBSET Nat, S # {}
    PROVE  Least(S) \in S /\ \A y \in S : Least(S) <= y
<1> DEFINE Below(x) == {y \in S : y < x}
           T == {Below(x) : x \in S}
           R == StrictSubsetOrdering(Nat)
<1>1. \A x \in S : x \in Nat
  OBVIOUS
<1>2. T \subseteq FiniteSubsetsOf(Nat)
  <2> SUFFICES ASSUME NEW x \in S PROVE Below(x) \in FiniteSubsetsOf(Nat)
    OBVIOUS
  <2>1. IsFiniteSet(0 .. x)
    BY FS_Interval
  <2>2. Below(x) \subseteq 0 .. x
    <3> SUFFICES ASSUME NEW y \in Below(x) PROVE y \in 0 .. x
      OBVIOUS
    <3>1. y \in S /\ y < x
      OBVIOUS
    <3>2. x \in Nat /\ y \in Nat
      BY <1>1, <3>1
    <3> QED
      BY <3>1, <3>2
  <2>3. IsFiniteSet(Below(x))
    BY <2>1, <2>2, FS_Subset
  <2> QED
    BY <2>3 DEF FiniteSubsetsOf
<1>3. \E b \in T : \A d \in T : <<d, b>> \notin R
  <2>1. T # {} /\ IsWellFoundedOn(R, FiniteSubsetsOf(Nat))
    BY FS_StrictSubsetOrderingWellFounded
  <2> HIDE DEF T, R
  <2> QED
    BY <1>2, <2>1, WFMin
<1>4. PICK x \in S : \A y \in S : <<Below(y), Below(x)>> \notin R
  BY <1>3
<1>5. ASSUME NEW y \in S PROVE x <= y
  <2> SUFFICES ASSUME y < x PROVE FALSE
    BY <1>1
  <2>1. Below(y) \subseteq Below(x) /\ y \in Below(x) /\ y \notin Below(y)
    <3>1. x \in Nat /\ y \in Nat
      BY <1>1
    <3>2. ASSUME NEW z \in S, z < y PROVE z < x
      <4>1. z \in Nat
        BY <1>1
      <4> QED
        BY <3>1, <3>2, <4>1
    <3>3. ~(y < y)
      BY <3>1
    <3> QED
      BY <3>2, <3>3, Zenon
  <2>2. Below(y) # Below(x)
    BY <2>1
  <2>3. Below(y) \in SUBSET Nat /\ Below(x) \in SUBSET Nat
    OBVIOUS
  <2> HIDE DEF Below
  <2> QED
    BY <1>4, <2>1, <2>2, <2>3 DEF StrictSubsetOrdering
<1> QED
  BY <1>5 DEF Least

\* While sync goes through a suite whose cases it could read, every content
\* in that suite has an owner; and one named for a turn still ahead is of a
\* case that is there.
OwnersKnow(t) ==
    /\ \A u \in job.queue : SuiteOf[u] = SuiteOf[t]
    /\ \A c \in CasesOf(SuiteOf[t]) : \E o \in job.owners : o.content = c.content
    /\ \A o \in job.owners :
         o.name = t => \E c \in CasesOf(SuiteOf[t]) : c.name = t /\ c.content = o.content

TwinInv ==
    At("promoting") /\ ~job.blind =>
        ~job.options.keep /\ \A t \in job.queue : OwnersKnow(t)

LEMMA TwinInit == Init => TwinInv
  BY DEF Init, TwinInv, At, Idle

\* The owners read from the cases that are there know every content.
LEMMA OwnersAreCases ==
    ASSUME CaseTypes, NEW s, Readable(CasesOf(s))
    PROVE  /\ \A c \in CasesOf(s) : \E o \in Owners(s) : o.content = c.content
           /\ \A o \in Owners(s) :
                \E c \in CasesOf(s) : c.name = o.name /\ c.content = o.content
<1> DEFINE names(c) == {d.name : d \in {e \in CasesOf(s) : e.content = c.content}}
           owner(c) == [content |-> c.content, name |-> Least(names(c))]
<1>1. Owners(s) = {owner(c) : c \in CasesOf(s)}
  BY Zenon DEF Owners
<1>2. ASSUME NEW c \in CasesOf(s)
      PROVE  \E d \in CasesOf(s) : d.name = Least(names(c)) /\ d.content = c.content
  <2>1. c.name \in names(c)
    BY <1>2
  <2>2. names(c) \subseteq Names
    BY DEF CasesOf, CaseTypes, CaseTyped
  <2>3. names(c) \in SUBSET Nat /\ names(c) # {}
    BY <2>1, <2>2 DEF Names
  <2>4. Least(names(c)) \in names(c)
    <3> HIDE DEF names
    <3> QED
      BY <2>3, LeastIsOne
  <2> QED
    BY <2>4
<1>3. \A c \in CasesOf(s) : owner(c).content = c.content /\ owner(c).name = Least(names(c))
  OBVIOUS
<1> HIDE DEF owner, names
<1> QED
  BY <1>1, <1>2, <1>3

LEMMA TwinStep == ToolsInv /\ CaseTypes /\ TwinInv /\ [Next]_vars => TwinInv'
<1> SUFFICES ASSUME ToolsInv, CaseTypes, TwinInv, [Next]_vars PROVE TwinInv'
  OBVIOUS
<1>1. ASSUME job'.step # "promoting" PROVE TwinInv'
  BY <1>1 DEF TwinInv, At
<1>2. ASSUME NEW t \in Turns, NEW name, NEW force, NEW allowErrored,
             StartPromote(t, name, force, allowErrored)
      PROVE  TwinInv'
  BY <1>1, <1>2 DEF StartPromote, Enter
<1>3. ASSUME WriteCase PROVE TwinInv'
  BY <1>1, <1>3 DEF WriteCase, Indexing, Enter
<1>4. ASSUME NEW c, KillMidCase(c) PROVE TwinInv'
  BY <1>1, <1>4, KilledWrite DEF Idle
<1>5. ASSUME NEW scope, NEW options, StartSync(scope, options) PROVE TwinInv'
  BY <1>1, <1>5 DEF StartSync, Enter
<1>6. ASSUME NextSuite PROVE TwinInv'
  BY <1>1, <1>6 DEF NextSuite, SeedNext, IndexAll, Indexing, Enter, Idle
<1>7. ASSUME NEW c \in cases, RepairCase(c) PROVE TwinInv'
  <2>1. job'.step = "idle"
    BY <1>7, Zenon DEF RepairCase, At
  <2> QED
    BY <1>1, <2>1
<1>8. ASSUME BuildSuite PROVE TwinInv'
  <2> DEFINE s == Least(job.ahead)
  <2>1. /\ cases' = cases
        /\ job'.queue \subseteq {t \in job.read : SuiteOf[t] = s}
        /\ job'.options = job.options
        /\ job'.owners = IF job.options.keep THEN {} ELSE Owners(s)
        /\ job'.blind = (job.options.keep \/ ~Readable(CasesOf(s)))
    BY <1>8 DEF BuildSuite, Enter
  <2> HIDE DEF s
  <2> SUFFICES ASSUME ~job'.blind
               PROVE  ~job'.options.keep /\ \A t \in job'.queue : OwnersKnow(t)'
    BY DEF TwinInv, At
  <2>2. ~job.options.keep /\ Readable(CasesOf(s)) /\ job'.owners = Owners(s)
    BY <2>1
  <2>3. /\ \A c \in CasesOf(s) : \E o \in job'.owners : o.content = c.content
        /\ \A o \in job'.owners :
             \E c \in CasesOf(s) : c.name = o.name /\ c.content = o.content
    BY <2>2, OwnersAreCases
  <2>4. ASSUME NEW t \in job'.queue PROVE OwnersKnow(t)'
    <3>1. SuiteOf[t] = s /\ \A u \in job'.queue : SuiteOf[u] = s
      BY <2>1
    <3>2. CasesOf(SuiteOf[t])' = CasesOf(s)
      BY <2>1, <3>1 DEF CasesOf
    <3> QED
      BY <2>3, <3>1, <3>2 DEF OwnersKnow
  <2> QED
    BY <2>1, <2>2, <2>4
<1>9. ASSUME NEW t \in Turns, SyncTurn(t) PROVE TwinInv'
  <2>1. /\ At("promoting") /\ job'.queue = job.queue \ {t}
        /\ \/ OwnersOf(job.built[t]) # {} /\ job'.owners = job.owners
           \/ job'.owners = job.owners \cup {[content |-> job.built[t], name |-> t]}
        /\ job'.options = job.options /\ job'.blind = job.blind
    BY <1>9, TurnDone DEF ToolsInv
  <2>2. cases' = cases \/ cases' = Put(NewCase(t))
    BY <1>9, Zenon DEF SyncTurn
  <2>3. t \in job.queue
    BY <1>9 DEF SyncTurn, IsHead
  <2>4. NewCase(t).suite = SuiteOf[t] /\ NewCase(t).name = t /\ NewCase(t).content = job.built[t]
    BY DEF NewCase, Case
  <2> SUFFICES ASSUME ~job'.blind
               PROVE  ~job'.options.keep /\ \A u \in job'.queue : OwnersKnow(u)'
    BY DEF TwinInv, At
  <2>5. ~job.options.keep /\ \A u \in job.queue : OwnersKnow(u)
    BY <2>1 DEF TwinInv
  <2>6. job.owners \subseteq job'.owners /\ \E o \in job'.owners : o.content = job.built[t]
    <3>1. CASE OwnersOf(job.built[t]) # {} /\ job'.owners = job.owners
      BY <3>1 DEF OwnersOf
    <3>2. CASE job'.owners = job.owners \cup {[content |-> job.built[t], name |-> t]}
      <4>1. [content |-> job.built[t], name |-> t] \in job'.owners
        BY <3>2, Zenon
      <4>2. [content |-> job.built[t], name |-> t].content = job.built[t]
        OBVIOUS
      <4> QED
        BY <3>2, <4>1, <4>2, Zenon
    <3> QED
      BY <2>1, <3>1, <3>2
  <2>7. \A o \in job'.owners : o \in job.owners \/ o.name = t
    BY <2>1
  <2>8. ASSUME NEW u \in job'.queue PROVE OwnersKnow(u)'
    <3>1. u \in job.queue /\ u # t /\ SuiteOf[u] = SuiteOf[t] /\ OwnersKnow(u)
      BY <2>1, <2>3, <2>5, <2>8 DEF OwnersKnow
    <3>2. \A v \in job'.queue : SuiteOf[v] = SuiteOf[u]
      BY <2>1, <3>1 DEF OwnersKnow
    <3>3. ASSUME NEW c \in CasesOf(SuiteOf[u])'
          PROVE  \E o \in job'.owners : o.content = c.content
      <4>1. c \in CasesOf(SuiteOf[u]) \/ c = NewCase(t)
        BY <2>2, <3>3, PutCases DEF CasesOf
      <4> QED
        BY <2>4, <2>6, <3>1, <4>1 DEF OwnersKnow
    <3>4. ASSUME NEW o \in job'.owners, o.name = u
          PROVE  \E c \in CasesOf(SuiteOf[u])' : c.name = u /\ c.content = o.content
      <4>1. PICK c \in CasesOf(SuiteOf[u]) : c.name = u /\ c.content = o.content
        BY <2>7, <3>1, <3>4 DEF OwnersKnow
      <4>2. c \in cases'
        BY <2>2, <2>4, <3>1, <4>1 DEF Put, CasesOf
      <4> QED
        BY <4>1, <4>2 DEF CasesOf
    <3> QED
      BY <3>2, <3>3, <3>4 DEF OwnersKnow
  <2> QED
    BY <2>1, <2>5, <2>8
<1>10. CASE ~CaseSteps
  <2>1. cases' = cases /\ (job' = job \/ job'.step \notin {"writing", "seeding", "promoting"})
    BY <1>10, OtherSteps
  <2>2. CASE UNCHANGED <<cases, job>>
    BY <2>2 DEF TwinInv, OwnersKnow, CasesOf, At
  <2> QED
    BY <1>1, <2>1, <2>2
<1> QED
  BY <1>2, <1>3, <1>4, <1>5, <1>6, <1>7, <1>8, <1>9, <1>10, Zenon
     DEF CaseSteps, PromoteCommand, KillMidPromote, KillMidSync

\* What sync writes has no owner, or is owned by the case it replaces.
LEMMA WrittenIsNoTwin ==
    ASSUME TwinInv, NEW t \in Turns, At("promoting"), ~job.blind, IsHead(t), IsWritten(t),
           NEW d \in cases, d.suite = SuiteOf[t], d.name # t, d.content = job.built[t]
    PROVE  \E e \in cases : e.suite = SuiteOf[t] /\ e.name = t /\ e.content = job.built[t]
<1>1. t \in job.queue /\ OwnersKnow(t) /\ ~job.options.keep
  BY DEF TwinInv, IsHead
<1>2. OwnersOf(job.built[t]) # {}
  BY <1>1 DEF OwnersKnow, OwnersOf, CasesOf
<1>3. OwnersOf(job.built[t]) = {t}
  BY <1>1, <1>2 DEF IsWritten, IsDuplicate
<1>4. PICK o \in job.owners : o.name = t /\ o.content = job.built[t]
  BY <1>3 DEF OwnersOf
<1> QED
  BY <1>1, <1>4 DEF OwnersKnow, CasesOf

\* Over any number of syncs, kills and repairs, and whichever case had the
\* content first: no sync gives it a second case in the suite, unless asked to
\* keep duplicates or unable to read the cases that are there.
THEOREM SyncWritesNoTwin == Spec => SyncAddsNoTwin
<1> DEFINE NoTwin ==
      At("promoting") /\ ~job.blind =>
        \A c \in cases' \ cases, d \in cases' :
            c.suite = d.suite /\ c.name # d.name /\ c.content = d.content =>
                \E e \in cases : /\ e.suite = c.suite /\ e.name = c.name
                                 /\ e.content = c.content
<1>1. ASSUME TwinInv, ToolsInv, [Next]_vars PROVE NoTwin
  <2> SUFFICES ASSUME At("promoting"), ~job.blind,
                      NEW c \in cases' \ cases, NEW d \in cases',
                      c.suite = d.suite, c.name # d.name, c.content = d.content
               PROVE  \E e \in cases : /\ e.suite = c.suite /\ e.name = c.name
                                       /\ e.content = c.content
    OBVIOUS
  <2>1. \/ cases' = cases
        \/ \E t \in Turns : SyncTurn(t) \/ KillMidSync(t)
    <3>1. \/ cases' = cases
          \/ \E t \in Turns : SyncTurn(t) \/ KillMidSync(t)
          \/ At("writing") \/ At("idle")
      BY <1>1, OtherSteps, Zenon DEF CaseSteps, PromoteCommand, StartPromote, WriteCase,
         BuildSuite, NextSuite, KillMidPromote, StartSync, RepairCase
    <3> QED
      BY <3>1 DEF At
  <2>2. PICK t \in Turns : SyncTurn(t) \/ KillMidSync(t)
    BY <2>1
  <2>3. IsHead(t) /\ (cases' # cases => IsWritten(t))
    BY <2>2, Zenon DEF SyncTurn, KillMidSync
  <2>4. PICK n : /\ cases' = cases \/ cases' = Put(n)
                 /\ n.suite = SuiteOf[t] /\ n.name = t /\ n.content = job.built[t]
    <3> DEFINE torn == [NewCase(t) EXCEPT !.whole = FALSE]
    <3>1. /\ NewCase(t).suite = SuiteOf[t] /\ NewCase(t).name = t
          /\ NewCase(t).content = job.built[t]
          /\ torn.suite = SuiteOf[t] /\ torn.name = t /\ torn.content = job.built[t]
      BY DEF NewCase, Case
    <3>2. cases' = cases \/ cases' = Put(NewCase(t)) \/ cases' = Put(torn)
      BY <2>2, Zenon DEF SyncTurn, KillMidSync, KillMidCase
    <3> HIDE DEF torn
    <3> QED
      BY <3>1, <3>2
  <2>5. c = n /\ d \in cases
    BY <2>4, PutCases
  <2> QED
    BY <1>1, <2>3, <2>4, <2>5, WrittenIsNoTwin
<1>2. Spec => [](TwinInv /\ ToolsInv)
  <2>1. Init => TwinInv /\ ToolsInv /\ TurnsInv /\ TypesInv
    BY TwinInit, ToolsInit, TurnsInit, CaseInit, IndexTypesInit, CountInit DEF TypesInv
  <2>2. TypesInv => CaseTypes
    BY DEF TypesInv
  <2> QED
    BY <2>1, <2>2, TwinStep, TwinInit, TypesHold, PTL DEF Spec
<1> HIDE DEF NoTwin
<1>3. TwinInv /\ ToolsInv /\ [Next]_vars => [NoTwin]_vars
  BY <1>1, Zenon
<1>4. Spec => [][NoTwin]_vars
  BY <1>2, <1>3, PTL DEF Spec
<1> QED
  BY <1>4 DEF NoTwin, SyncAddsNoTwin
=============================================================================
