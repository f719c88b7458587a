----------------------------- MODULE CaptureStore -----------------------------
(***************************************************************************)
(* The capture directory of a project: the turns an agent recorded         *)
(* (captures/), the toolsets they were offered (toolsets/), the cases they *)
(* were promoted to and the golden.jsonl that indexes them (suites/), and  *)
(* the managed region of evalshift.yaml.                                   *)
(*                                                                         *)
(* One user types `capture promote`, `sync` and `clean`, one at a time,    *)
(* while the instrumented agent keeps recording.  The commands may be      *)
(* killed at any point, inside a write too; the user repairs files by hand.*)
(*                                                                         *)
(* A turn is a number, in the order capture ids sort.  What it would       *)
(* replay is its Exchange: two turns with the same one say the same thing. *)
(***************************************************************************)
EXTENDS Naturals, FiniteSets

CONSTANTS
    NumTurns,   \* turns the agent may record
    NumNames,   \* names a case may have: those of the turns, and more
    AliasOf,    \* per turn, the names the user may promote it --as
    NumSuites,  \* suites
    Toolsets,   \* fingerprints of toolsets
    SuiteOf,    \* per turn, its suite
    TalkOf,     \* per turn, its conversation, 0 for none
    Place,      \* per turn, its rank by turn_index, then created_at
    Exchange,   \* per turn, what it says and is told
    First,      \* per turn, the toolset of its first model call, or Unstamped
    Later,      \* per turn, the toolsets of the calls after that
    Errored,    \* turns with an error event
    Regions,    \* what the region may hold before the first command
    Choices,    \* options the user may give sync
    MaxLive,    \* bound: turns under way at once
    MaxFaults,  \* bound: kills, and captures the agent leaves unreadable
    MaxCommands \* bound: commands the user types

Turns == 1..NumTurns
Names == 1..NumNames
Suites == 1..NumSuites
Unstamped == 0

Options == [force : BOOLEAN, keep : BOOLEAN, allowErrored : BOOLEAN]

ASSUME CaptureStoreAssumption ==
    /\ NumTurns \in Nat /\ NumSuites \in Nat /\ NumNames \in Nat
    /\ NumTurns <= NumNames
    /\ SuiteOf \in [Turns -> Suites]
    /\ AliasOf \in [Turns -> SUBSET Names]
    /\ TalkOf \in [Turns -> Nat] /\ Place \in [Turns -> Nat]
    /\ Exchange \in [Turns -> Nat]
    /\ Unstamped \notin Toolsets
    /\ First \in [Turns -> Toolsets \cup {Unstamped}]
    /\ Later \in [Turns -> SUBSET Toolsets]
    /\ Errored \subseteq Turns
    /\ \A r \in Regions :
         /\ r.marked \in BOOLEAN /\ r.parses \in BOOLEAN
         /\ DOMAIN r.entries = Suites
         /\ \A s \in Suites : r.entries[s].toolsets \subseteq Toolsets
    /\ Choices \subseteq Options
    /\ MaxLive \in Nat /\ MaxFaults \in Nat /\ MaxCommands \in Nat

VARIABLES
    turns,     \* per turn, its capture file
    toolsets,  \* sidecars on disk
    dirs,      \* suites with a directory under suites/
    cases,     \* promoted case files, readable or torn
    golden,    \* per suite, golden.jsonl
    region,    \* the managed region of evalshift.yaml
    job,       \* the command at work and its locals
    raced,     \* history: turns under way while a sweep counted or deleted
    faults, commands

bounds == <<faults, commands>>
vars == <<turns, toolsets, dirs, cases, golden, region, job, raced, bounds>>

-----------------------------------------------------------------------------
(* Turns and what they are built into *)

OnDisk == {t \in Turns : turns[t] = "whole"}

\* Every toolset a turn's calls were offered.
Refs(t) == ({First[t]} \ {Unstamped}) \cup Later[t]

\* Sync takes single turns by id, then conversations as they first appear,
\* each turn by turn.
Lead(t, among) ==
    CHOOSE u \in among : /\ TalkOf[u] = TalkOf[t]
                         /\ \A v \in among : TalkOf[v] = TalkOf[t] => u <= v

Precedes(t, u) == Place[t] < Place[u] \/ (Place[t] = Place[u] /\ t < u)

Before(t, u, among) ==
    IF TalkOf[t] = 0 THEN TalkOf[u] # 0 \/ t < u
    ELSE /\ TalkOf[u] # 0
         /\ IF TalkOf[t] = TalkOf[u] THEN Precedes(t, u)
            ELSE Lead(t, among) < Lead(u, among)

\* Refused: no toolset, its sidecar gone, several toolsets, or a failed turn.
Blocked(t, allowErrored) ==
    \/ First[t] \notin toolsets
    \/ Cardinality(Refs(t)) > 1
    \/ t \in Errored /\ ~allowErrored

\* The earlier turns of its conversation, without those that are refused.
Prior(t, among, allowErrored) ==
    {u \in among : /\ TalkOf[t] # 0
                   /\ TalkOf[u] = TalkOf[t]
                   /\ Precedes(u, t)
                   /\ ~Blocked(u, allowErrored)}

History(prior) ==
    [i \in 1..Cardinality(prior) |->
        Exchange[CHOOSE t \in prior :
                    Cardinality({u \in prior : Precedes(u, t)}) = i - 1]]

\* What an example replays: its inputs and its history.
Content(t, prior) == [input |-> Exchange[t], history |-> History(prior)]

Case(t, name, content) ==
    [suite |-> SuiteOf[t], name |-> name, from |-> t, content |-> content,
     toolset |-> First[t], whole |-> TRUE]

-----------------------------------------------------------------------------
(* Cases and the index *)

CasesOf(s) == {c \in cases : c.suite = s}

Readable(cs) == \A c \in cs : c.whole

\* Mutant: the file of that name stays.
PutBeside(c) == cases \cup {c}

Put(c) == {d \in cases : d.suite # c.suite \/ d.name # c.name} \cup {c}

Exists(c) == \E d \in cases : d.suite = c.suite /\ d.name = c.name

Row(c) == [id |-> c.name, content |-> c.content, toolset |-> c.toolset]

Index(s) == {Row(c) : c \in CasesOf(s)}

NoIndex == [state |-> "missing", rows |-> {}]
TornIndex == [state |-> "torn", rows |-> {}]

NoEntry == [managed |-> TRUE, toolsets |-> {}]

NoEntries == [s \in Suites |-> NoEntry]

\* The region lies between two markers; a file cut before the second has none.
CutRegion == [marked |-> FALSE, parses |-> TRUE, entries |-> NoEntries]

Idle == [step |-> "idle"]

Enter(local) == job' = local

Indexing(kind, suites, ahead) ==
    [step |-> "indexing", kind |-> kind, suites |-> suites, ahead |-> ahead]

Cleaning(step, all, picked) == [step |-> step, all |-> all, picked |-> picked]

Sweeping(step, orphans) == [step |-> step, orphans |-> orphans]

At(step) == job.step = step

\* The next command, once the one before is done with.
Typed ==
    /\ At("idle")
    /\ commands < MaxCommands
    /\ commands' = commands + 1

Least(S) == CHOOSE x \in S : \A y \in S : x <= y

Init ==
    /\ turns = [t \in Turns |-> "unrecorded"]
    /\ toolsets = {}
    /\ dirs = {}
    /\ cases = {}
    /\ golden = [s \in Suites |-> NoIndex]
    /\ region \in Regions
    /\ job = Idle
    /\ raced = {}
    /\ faults = 0 /\ commands = 0

-----------------------------------------------------------------------------
(* The agent: it stores the toolsets as it calls, the capture at the end *)

BeginTurn(t) ==
    /\ turns[t] = "unrecorded"
    /\ Cardinality({u \in Turns : turns[u] = "live"}) < MaxLive
    /\ turns' = [turns EXCEPT ![t] = "live"]
    /\ toolsets' = toolsets \cup Refs(t)
    /\ raced' = IF job.step \in {"asking", "sweeping"} THEN raced \cup {t} ELSE raced
    /\ UNCHANGED <<dirs, cases, golden, region, job, bounds>>

EndTurn(t) ==
    /\ turns[t] = "live"
    /\ \/ turns' = [turns EXCEPT ![t] = "whole"] /\ UNCHANGED faults
       \/ /\ faults < MaxFaults
          /\ turns' = [turns EXCEPT ![t] = "torn"]
          /\ faults' = faults + 1
    /\ UNCHANGED <<toolsets, dirs, cases, golden, region, job, raced, commands>>

-----------------------------------------------------------------------------
(* promote *)

StartPromote(t, name, force, allowErrored) ==
    /\ Typed
    /\ turns[t] = "whole"
    /\ ~Blocked(t, allowErrored)
    /\ LET case == Case(t, name, Content(t, {})) IN
        /\ Exists(case) => force
        /\ Enter([step |-> "writing", case |-> case])
    /\ UNCHANGED <<turns, toolsets, dirs, cases, golden, region, raced, faults>>

WriteCase ==
    /\ At("writing")
    /\ dirs' = dirs \cup {job.case.suite}
    /\ cases' = Put(job.case)
    /\ Enter(Indexing("promote", {job.case.suite}, {job.case.suite}))
    /\ UNCHANGED <<turns, toolsets, golden, region, raced, bounds>>

-----------------------------------------------------------------------------
(* sync *)

StartSync(scope, options) ==
    /\ Typed
    /\ LET read == {t \in OnDisk : SuiteOf[t] \in scope}
           suites == {SuiteOf[t] : t \in read}
       IN /\ read # {}
          /\ Enter([step |-> "seeding", options |-> options, read |-> read,
                    suites |-> suites, ahead |-> suites])
    /\ UNCHANGED <<turns, toolsets, dirs, cases, golden, region, raced, faults>>

\* Mutant: only the cases of this sync own their content.
NoOwners(s) == {}

\* Which case has which content; nobody knows if one cannot be read.
Owners(s) ==
    IF Readable(CasesOf(s))
      THEN {[content |-> c.content,
             name |-> Least({d.name : d \in {e \in CasesOf(s) : e.content = c.content}})] :
               c \in CasesOf(s)}
      ELSE {}

\* Of the next suite the owners are read and every example is built.
BuildSuite ==
    /\ At("seeding")
    /\ LET s == Least(job.ahead)
           allowed == job.options.allowErrored
           among == {t \in job.read : SuiteOf[t] = s}
           queue == {t \in among : ~Blocked(t, allowed)}
       IN Enter([step |-> "promoting", options |-> job.options, read |-> job.read,
                 suites |-> job.suites, ahead |-> job.ahead \ {s},
                 queue |-> queue, among |-> among,
                 built |-> [t \in queue |-> Content(t, Prior(t, among, allowed))],
                 owners |-> IF job.options.keep THEN {} ELSE Owners(s),
                 blind |-> job.options.keep \/ ~Readable(CasesOf(s))])
    /\ UNCHANGED <<turns, toolsets, dirs, cases, golden, region, raced, bounds>>

IsHead(t) == t \in job.queue /\ \A u \in job.queue \ {t} : Before(t, u, job.among)

OwnersOf(content) == {o.name : o \in {p \in job.owners : p.content = content}}

IsDuplicate(t) == ~job.options.keep /\ OwnersOf(job.built[t]) \notin {{}, {t}}

NewCase(t) == Case(t, t, job.built[t])

\* A case that is there already stays as it is unless forced.
IsWritten(t) == ~IsDuplicate(t) /\ (Exists(NewCase(t)) => job.options.force)

SyncTurn(t) ==
    /\ At("promoting")
    /\ IsHead(t)
    /\ IF IsWritten(t) THEN /\ dirs' = dirs \cup {SuiteOf[t]}
                            /\ cases' = Put(NewCase(t))
                       ELSE UNCHANGED <<dirs, cases>>
    /\ LET content == job.built[t] IN
        Enter([job EXCEPT !.queue = @ \ {t},
                          !.owners = IF OwnersOf(content) # {} THEN @
                                     ELSE @ \cup {[content |-> content, name |-> t]}])
    /\ UNCHANGED <<turns, toolsets, golden, region, raced, bounds>>

SeedNext ==
    Enter([step |-> "seeding", options |-> job.options, read |-> job.read,
           suites |-> job.suites, ahead |-> job.ahead])

IndexAll(suites) ==
    Enter(IF suites = {} THEN Idle ELSE Indexing("sync", suites, suites))

\* After the last suite, every suite sync has seen and that has a directory is
\* indexed anew.
NextSuite ==
    /\ At("promoting")
    /\ job.queue = {}
    /\ IF job.ahead # {} THEN SeedNext ELSE IndexAll(job.suites \cap dirs)
    /\ UNCHANGED <<turns, toolsets, dirs, cases, golden, region, raced, bounds>>

\* Mutant: an index that is there is not rebuilt.
ReindexMissing ==
    /\ At("indexing")
    /\ LET s == Least(job.ahead) IN
        /\ golden' = IF golden[s].state = "whole" THEN golden
                     ELSE [golden EXCEPT ![s] = [state |-> "whole", rows |-> Index(s)]]
        /\ Enter(IF job.ahead # {s} THEN Indexing(job.kind, job.suites, job.ahead \ {s})
                 ELSE IF job.kind = "promote" THEN Idle
                 ELSE [step |-> "wiring", suites |-> job.suites])
    /\ UNCHANGED <<turns, toolsets, dirs, cases, region, raced, bounds>>

\* The index is rebuilt from all case files.  One that cannot be read ends the
\* command there and then, and so does an index without a row once it is there.
Reindex ==
    /\ At("indexing")
    /\ LET s == Least(job.ahead) IN
        IF Readable(CasesOf(s))
          THEN /\ golden' = [golden EXCEPT ![s] = [state |-> "whole", rows |-> Index(s)]]
               /\ Enter(IF Index(s) = {} THEN Idle
                        ELSE IF job.ahead # {s} THEN Indexing(job.kind, job.suites, job.ahead \ {s})
                        ELSE IF job.kind = "promote" THEN Idle
                        ELSE [step |-> "wiring", suites |-> job.suites])
          ELSE Enter(Idle) /\ UNCHANGED golden
    /\ UNCHANGED <<turns, toolsets, dirs, cases, region, raced, bounds>>

Entry(s) == [managed |-> TRUE, toolsets |-> {r.toolset : r \in golden[s].rows}]

\* Entries of other suites are carried forward, those a person pinned as well.
BuildEntries(existing, suites) ==
    [s \in Suites |-> IF s \in suites /\ existing[s].managed THEN Entry(s) ELSE existing[s]]

\* A region that is no YAML reads as one without entries.
Existing == IF region.parses THEN region.entries ELSE NoEntries

Rewritten ==
    [marked |-> TRUE, parses |-> TRUE, entries |-> BuildEntries(Existing, job.suites)]

\* With --print, or without markers to write between, the file stays.
Wire ==
    /\ At("wiring")
    /\ \/ region.marked /\ region' = Rewritten
       \/ UNCHANGED region
    /\ Enter(Idle)
    /\ UNCHANGED <<turns, toolsets, dirs, cases, golden, raced, bounds>>

-----------------------------------------------------------------------------
(* clean *)

\* Turns a case was made of; none at all if one case cannot be read.
Promoted == IF Readable(cases) THEN {c.from : c \in cases} ELSE {}

StartClean(scope, all) ==
    /\ Typed
    /\ LET picked == {t \in OnDisk : SuiteOf[t] \in scope /\ (all \/ t \in Promoted)} IN
        Enter(IF picked = {} THEN [step |-> "counting"]
              ELSE Cleaning("confirming", all, picked))
    /\ UNCHANGED <<turns, toolsets, dirs, cases, golden, region, raced, faults>>

Decline ==
    /\ job.step \in {"confirming", "asking"}
    /\ Enter(Idle)
    /\ UNCHANGED <<turns, toolsets, dirs, cases, golden, region, raced, bounds>>

Confirm ==
    /\ At("confirming")
    /\ Enter(Cleaning("deleting", job.all, job.picked))
    /\ UNCHANGED <<turns, toolsets, dirs, cases, golden, region, raced, bounds>>

DeleteCapture(t) ==
    /\ At("deleting")
    /\ t \in job.picked
    /\ turns' = [turns EXCEPT ![t] = "gone"]
    /\ Enter(IF job.picked = {t} THEN [step |-> "counting"]
             ELSE Cleaning("deleting", job.all, job.picked \ {t}))
    /\ UNCHANGED <<toolsets, dirs, cases, golden, region, raced, bounds>>

\* Mutant: the toolset of the first call stands for all.
LiveFirstRefs == {First[t] : t \in OnDisk} \cup {c.toolset : c \in cases}

\* What captures of any suite, promoted or not, and cases still refer to.
LiveRefs == (UNION {Refs(t) : t \in OnDisk}) \cup {c.toolset : c \in cases}

\* Nothing is swept unless every capture and every case can be read.
CountRefs ==
    /\ At("counting")
    /\ LET orphans == toolsets \ LiveRefs
           readable == Readable(cases) /\ \A t \in Turns : turns[t] # "torn"
       IN IF orphans = {} \/ ~readable
            THEN Enter(Idle) /\ UNCHANGED raced
            ELSE /\ Enter(Sweeping("asking", orphans))
                 /\ raced' = raced \cup {t \in Turns : turns[t] = "live"}
    /\ UNCHANGED <<turns, toolsets, dirs, cases, golden, region, bounds>>

ConfirmSweep ==
    /\ At("asking")
    /\ Enter(Sweeping("sweeping", job.orphans))
    /\ UNCHANGED <<turns, toolsets, dirs, cases, golden, region, raced, bounds>>

Sweep(ref) ==
    /\ At("sweeping")
    /\ ref \in job.orphans
    /\ toolsets' = toolsets \ {ref}
    /\ Enter(IF job.orphans = {ref} THEN Idle
             ELSE Sweeping("sweeping", job.orphans \ {ref}))
    /\ UNCHANGED <<turns, dirs, cases, golden, region, raced, bounds>>

-----------------------------------------------------------------------------
(* Kills: a file being written is left torn *)

Fault ==
    /\ faults < MaxFaults
    /\ faults' = faults + 1
    /\ Enter(Idle)
    /\ UNCHANGED <<turns, toolsets, raced, commands>>

Kill ==
    /\ ~At("idle")
    /\ Fault
    /\ UNCHANGED <<dirs, cases, golden, region>>

\* The directory is there; the file is not, or not to its end.
KillMidCase(case) ==
    /\ dirs' = dirs \cup {case.suite}
    /\ cases' \in {cases, Put([case EXCEPT !.whole = FALSE])}
    /\ Fault
    /\ UNCHANGED <<golden, region>>

KillMidPromote == At("writing") /\ KillMidCase(job.case)

KillMidSync(t) ==
    At("promoting") /\ IsHead(t) /\ IsWritten(t) /\ KillMidCase(NewCase(t))

KillMidIndex ==
    /\ At("indexing")
    /\ Readable(CasesOf(Least(job.ahead)))
    /\ golden' = [golden EXCEPT ![Least(job.ahead)] = TornIndex]
    /\ Fault
    /\ UNCHANGED <<dirs, cases, region>>

\* evalshift.yaml is truncated and written over: the kill cuts it before the
\* end of the region, or after.
KillMidWire ==
    /\ At("wiring")
    /\ region.marked
    /\ region' \in {CutRegion, Rewritten}
    /\ Fault
    /\ UNCHANGED <<dirs, cases, golden>>

-----------------------------------------------------------------------------
(* The user's hand: files that cannot be read are removed or repaired *)

\* A case that cannot be read is removed, or made whole.
RepairCase(c) ==
    /\ At("idle")
    /\ ~c.whole
    /\ cases' \in {cases \ {c}, Put([c EXCEPT !.whole = TRUE])}
    /\ UNCHANGED <<turns, toolsets, dirs, golden, region, job, raced, bounds>>

RemoveTornCapture(t) ==
    /\ At("idle")
    /\ turns[t] = "torn"
    /\ turns' = [turns EXCEPT ![t] = "gone"]
    /\ UNCHANGED <<toolsets, dirs, cases, golden, region, job, raced, bounds>>

\* evalshift.yaml is taken back from where the user keeps a copy.
RestoreConfig ==
    /\ At("idle")
    /\ ~region.marked
    /\ region' \in Regions
    /\ UNCHANGED <<turns, toolsets, dirs, cases, golden, job, raced, bounds>>

-----------------------------------------------------------------------------
Scopes == {Suites} \cup {{s} : s \in Suites}

Agent == \E t \in Turns : BeginTurn(t) \/ EndTurn(t)

PromoteCommand ==
    \/ \E t \in Turns : \E name \in {t} \cup AliasOf[t], force, allowErrored \in BOOLEAN :
          StartPromote(t, name, force, allowErrored)
    \/ WriteCase

SyncCommand ==
    \/ \E scope \in Scopes, options \in Choices : StartSync(scope, options)
    \/ \E t \in Turns : SyncTurn(t)
    \/ BuildSuite \/ NextSuite \/ Reindex \/ Wire

CleanCommand ==
    \/ \E scope \in Scopes, all \in BOOLEAN : StartClean(scope, all)
    \/ Confirm \/ Decline \/ CountRefs \/ ConfirmSweep
    \/ \E t \in Turns : DeleteCapture(t)
    \/ \E ref \in Toolsets : Sweep(ref)

Kills ==
    \/ Kill \/ KillMidPromote \/ KillMidIndex \/ KillMidWire
    \/ \E t \in Turns : KillMidSync(t)

Hand ==
    \/ \E c \in cases : RepairCase(c)
    \/ \E t \in Turns : RemoveTornCapture(t)
    \/ RestoreConfig

Next == Agent \/ PromoteCommand \/ SyncCommand \/ CleanCommand \/ Kills \/ Hand

Spec == Init /\ [][Next]_vars

-----------------------------------------------------------------------------
(* Properties *)

\* Names of cases differ within a suite, an index that was written whole has
\* rows of readable examples only, and a command works on what there is.
TypeOK ==
    /\ turns \in [Turns -> {"unrecorded", "live", "whole", "torn", "gone"}]
    /\ toolsets \subseteq Toolsets
    /\ dirs \subseteq Suites
    /\ \A c \in cases :
         /\ c.suite \in dirs /\ c.name \in Names /\ c.from \in Turns
         /\ c.whole \in BOOLEAN /\ c.toolset \in Toolsets
         /\ \A d \in cases : d.suite = c.suite /\ d.name = c.name => d = c
    /\ \A s \in Suites : golden[s].state \in {"missing", "whole", "torn"}
    /\ region.marked \in BOOLEAN /\ region.parses \in BOOLEAN
    /\ \A s \in Suites : region.entries[s].toolsets \subseteq Toolsets
    /\ job.step \in {"idle", "writing", "seeding", "promoting", "indexing", "wiring",
                     "confirming", "deleting", "counting", "asking", "sweeping"}
    /\ raced \subseteq Turns
    /\ faults \in 0..MaxFaults /\ commands \in 0..MaxCommands

\* The toolset a case refers to is never swept, whatever captures are deleted
\* and whatever files were unreadable at the time: not even that of a case a
\* kill left torn, which may be made whole again.
CasesKeepTheirTools == \A c \in cases : c.toolset \in toolsets

\* Nor are the toolsets of a capture, promoted or not, of any of its calls,
\* except of a turn that was under way while a sweep counted or deleted.
TurnsKeepTheirTools == \A t \in OnDisk \ raced : Refs(t) \subseteq toolsets

\* Together: nothing that still needs a toolset loses it.
ToolsAreKept == CasesKeepTheirTools /\ TurnsKeepTheirTools

\* A sync gives no content a second case in its suite, over any number of
\* syncs and whichever case had it first, unless asked to keep duplicates or
\* unable to read the cases that are there.
SyncAddsNoTwin ==
    [][At("promoting") /\ ~job.blind =>
        \A c \in cases' \ cases, d \in cases' :
            c.suite = d.suite /\ c.name # d.name /\ c.content = d.content =>
                \E e \in cases : /\ e.suite = c.suite /\ e.name = c.name
                                 /\ e.content = c.content]_vars

\* A sync that gets as far as evalshift.yaml has indexed every case of every
\* suite it saw, those an interrupted command or a repair left out as well.
SyncedSuitesAreIndexed ==
    At("wiring") =>
        \A s \in job.suites : golden[s] = [state |-> "whole", rows |-> Index(s)]

\* Without --all, clean deletes no capture that is not held by a readable
\* case: the capture a torn case was written from is still there to force.
CleanKeepsTheUnpromoted ==
    [][At("deleting") /\ ~job.all =>
        \A t \in Turns : turns[t] = "whole" /\ turns'[t] = "gone" =>
            \E c \in cases : c.from = t /\ c.whole]_vars

\* The entries of suites a sync has not seen, and those that were pinned,
\* outlive it as they are, whether it ends or is killed inside the rewrite:
\* excepted are a region that was no YAML and a kill that cuts the file before
\* the region's end, which takes every entry with it.
OtherEntriesSurvive ==
    [][At("wiring") /\ region.parses /\ region'.marked =>
        \A s \in Suites :
            s \notin job.suites \/ ~region.entries[s].managed =>
                region'.entries[s] = region.entries[s]]_vars

=============================================================================
