-------------------------- MODULE ModelCallsProofs --------------------------
(***************************************************************************)
(* What the items of a run, its resumes and the cache cannot do to each    *)
(* other's answers, for any work list, requests, concurrency and bounds.   *)
(*                                                                         *)
(* Types and Counts give the types; Own says whose answers a task, a row   *)
(* and the cache hold; Known says which refusals this launch knows about.  *)
(***************************************************************************)
EXTENDS ModelCalls, TLAPS

Answers == [request : Requests, nth : Nat \ {0}, truncated : BOOLEAN,
            controlled : BOOLEAN, launch : Nat, by : Items]

Task == [phase : Phases, round : Nat, attempt : 0..MaxAttempts, temperature : BOOLEAN,
         got : Seq(Answers), hits : Nat]

Row == [error : BOOLEAN, answers : Seq(Answers), cached : BOOLEAN, hits : Nat,
        truncated : BOOLEAN]

Types ==
  /\ status \in {"none", "in_progress", "completed"}
  /\ caching \in BOOLEAN /\ up \in BOOLEAN
  /\ declared \subseteq Models /\ memo \subseteq Models
  /\ rows \in [Items -> Row]
  /\ cache \in [Requests -> Answers \cup {NoEntry}]
  /\ task \in [Items -> Task]
  /\ given \in [Requests -> Nat]
  /\ launches \in 0..MaxLaunches /\ faults \in 0..MaxFaults

\* The answers a task holds are those of its rounds, one each; in the phase
\* "put" that of the current round is among them.
GotOf(i, t) ==
  /\ t.round \in 1..RoundsOf[i]
  /\ t.phase \in {"queued", "lookup", "send", "wait"} => Len(t.got) = t.round - 1
  /\ t.phase = "put" => Len(t.got) = t.round
  /\ t.phase = "record" => Len(t.got) = RoundsOf[i]
  /\ Len(t.got) <= RoundsOf[i]
  /\ \A k \in 1..Len(t.got) : t.got[k].request = Request(i, k)

RowOf(i, r) ==
  /\ Len(r.answers) \in {0, RoundsOf[i]}
  /\ \A k \in 1..Len(r.answers) : r.answers[k].request = Request(i, k)

\* Whose the answers are.
Own ==
  /\ \A i \in Items : GotOf(i, task[i]) /\ RowOf(i, rows[i])
  /\ \A q \in Requests : cache[q] # NoEntry => cache[q].request = q

\* An answer that exists was given, and a model that gave it without its
\* temperature in this launch is known, first to the client and then to the run.
Backed(a) ==
  /\ a.nth <= given[a.request]
  /\ a.launch <= launches
  /\ a.launch = launches /\ ~a.controlled =>
       /\ up => a.request.model \in memo
       /\ status = "completed" => a.request.model \in declared

Known ==
  /\ up => status = "in_progress"
  /\ ~up => \A i \in Items : task[i].phase \in {"idle", "done"}
  /\ \A i \in Items :
       /\ \A k \in 1..Len(task[i].got) : Backed(task[i].got[k])
       /\ \A k \in 1..Len(rows[i].answers) : Backed(rows[i].answers[k])
       /\ task[i].phase = "wait" /\ ~task[i].temperature => ModelOf[i] \in memo
  /\ \A q \in Requests : cache[q] # NoEntry => Backed(cache[q])

\* Only i makes request q.
Alone(i, q) == \A j \in Items \ {i} : \A l \in 1..RoundsOf[j] : Request(j, l) # q

\* With the cache on, a round that is on its way to the provider was missed.
Missed ==
  caching => \A i \in Items :
    task[i].phase \in {"send", "wait"} /\ Alone(i, Key(i, task[i].round)) =>
      cache[Key(i, task[i].round)] = NoEntry

Inv == Types /\ Own /\ Known /\ Missed

-----------------------------------------------------------------------------
(* Requests and tasks *)

\* What a request says of the round that makes it.
LEMMA RequestFacts ==
  ASSUME NEW i \in Items, NEW k \in 1..RoundsOf[i]
  PROVE  /\ Request(i, k) \in Requests
         /\ Request(i, k).model = ModelOf[i]
         /\ Request(i, k).round = k
         /\ Request(i, k).sample = SampleOf[i]
         /\ Request(i, k).content = ContentOf[i]
         /\ Key(i, k) = Request(i, k)
BY DEF Requests, Request, Key

\* The types of the constants.
LEMMA Constants ==
  /\ \A i \in Items : RoundsOf[i] \in Nat /\ RoundsOf[i] >= 1 /\ ModelOf[i] \in Models
  /\ MaxAttempts \in Nat /\ MaxAttempts >= 1 /\ MaxFaults \in Nat /\ MaxLaunches \in Nat
BY ModelCallsAssumption DEF Models

\* An answer is no missing entry.
LEMMA AnswerIsEntry == ASSUME NEW a \in Answers PROVE a # NoEntry
<1>1. a.nth # 0
  BY DEF Answers
<1>2. NoEntry.nth = 0
  BY DEF NoEntry
<1> QED
  BY <1>1, <1>2

\* A new task has no answers.
LEMMA IdleTask ==
  /\ Idle \in Task
  /\ Idle.got = <<>> /\ Idle.round = 1 /\ Idle.phase = "idle"
BY Constants DEF Idle, Task, Phases

\* A missing row, and that of an error, have no answers.
LEMMA EmptyRows ==
  /\ NoRow \in Row /\ ErrorRow \in Row
  /\ NoRow.answers = <<>> /\ ErrorRow.answers = <<>>
<1>1. <<>> \in Seq(Answers)
  OBVIOUS
<1> QED
  BY <1>1 DEF NoRow, ErrorRow, Row

\* i's task becomes u, the others stay.
Becomes(i, u) ==
  /\ task' \in [Items -> Task]
  /\ task'[i] = u
  /\ \A j \in Items \ {i} : task'[j] = task[j]

\* Assigning one task.
LEMMA Assigned ==
  ASSUME Types, NEW i \in Items, NEW u \in Task, task' = [task EXCEPT ![i] = u]
  PROVE  Becomes(i, u)
BY DEF Becomes, Types

\* Goto changes the phase only.
LEMMA Went ==
  ASSUME Types, NEW i \in Items, NEW phase \in Phases, Goto(i, phase)
  PROVE  \E u \in Task :
           /\ Becomes(i, u) /\ u.phase = phase
           /\ u.got = task[i].got /\ u.round = task[i].round
           /\ u.temperature = task[i].temperature
<1> DEFINE u == [task[i] EXCEPT !.phase = phase]
<1>1. task[i] \in Task
  BY DEF Types
<1>2. u \in Task /\ u.phase = phase /\ u.got = task[i].got /\ u.round = task[i].round
      /\ u.temperature = task[i].temperature
  BY <1>1 DEF Task
<1>3. task' = [task EXCEPT ![i] = u]
  BY DEF Goto
<1>4. Becomes(i, u)
  BY <1>2, <1>3, Assigned
<1> QED
  BY <1>2, <1>4

\* Advance goes to the next round or ends the replay.
LEMMA Advanced ==
  ASSUME Types, NEW i \in Items, NEW t \in Task, t.round \in 1..RoundsOf[i], Advance(i, t)
  PROVE  \E u \in Task :
           /\ Becomes(i, u) /\ u.got = t.got
           /\ \/ u.phase = "record" /\ u.round = t.round /\ t.round = RoundsOf[i]
              \/ u.phase = "lookup" /\ u.round = t.round + 1 /\ t.round < RoundsOf[i]
<1> DEFINE v == [t EXCEPT !.attempt = 0, !.phase = "record"]
           w == [t EXCEPT !.attempt = 0, !.phase = "lookup", !.round = @ + 1]
<1>1. t.round \in Nat /\ RoundsOf[i] \in Nat
  BY Constants DEF Task
<1>2. 0 \in 0..MaxAttempts
  BY Constants
<1>3. v \in Task /\ v.phase = "record" /\ v.round = t.round /\ v.got = t.got
  BY <1>2 DEF Task, Phases
<1>4. w \in Task /\ w.phase = "lookup" /\ w.round = t.round + 1 /\ w.got = t.got
  <2>1. PICK n \in Nat : n = t.round + 1
    BY <1>1
  <2>2. w = [t EXCEPT !.attempt = 0, !.phase = "lookup", !.round = n]
    BY <2>1
  <2> QED
    BY <1>2, <2>1, <2>2 DEF Task, Phases
<1>5. CASE t.round = RoundsOf[i]
  <2>1. task' = [task EXCEPT ![i] = v]
    BY <1>5 DEF Advance
  <2>2. Becomes(i, v)
    BY <1>3, <2>1, Assigned
  <2> QED
    BY <1>3, <1>5, <2>2
<1>6. CASE t.round # RoundsOf[i]
  <2>1. task' = [task EXCEPT ![i] = w]
    BY <1>6 DEF Advance
  <2>2. Becomes(i, w)
    BY <1>4, <2>1, Assigned
  <2>3. t.round < RoundsOf[i]
    BY <1>1, <1>6
  <2> QED
    BY <1>4, <2>2, <2>3
<1> QED
  BY <1>5, <1>6

\* One more answer, to the round the task is in, behind those it has.
LEMMA Appended ==
  ASSUME NEW i \in Items, NEW t \in Task, GotOf(i, t), Len(t.got) = t.round - 1,
         NEW a \in Answers, a.request = Request(i, t.round), NEW g, g = Append(t.got, a)
  PROVE  /\ g \in Seq(Answers)
         /\ Len(g) = t.round
         /\ \A k \in 1..Len(g) : g[k].request = Request(i, k) /\ (g[k] = a \/ g[k] = t.got[k])
         /\ \A k \in 1..Len(g) : k # Len(g) => k \in 1..Len(t.got) /\ g[k] = t.got[k]
         /\ g[Len(g)] = a
<1>1. t.got \in Seq(Answers) /\ t.round \in Nat /\ Len(t.got) \in Nat
  BY DEF Task
<1>2. g \in Seq(Answers) /\ Len(g) = Len(t.got) + 1
  BY <1>1
<1>3. Len(g) = t.round
  BY <1>1, <1>2
<1>4. \A k \in 1..Len(g) : g[k] = IF k = Len(g) THEN a ELSE t.got[k]
  BY <1>1, <1>2
<1>5. \A k \in 1..Len(g) : k # Len(g) => k \in 1..Len(t.got)
  BY <1>1, <1>2
<1>6. t.round \in 1..RoundsOf[i] /\ 1 <= t.round
  BY Constants DEF GotOf
<1> QED
  BY <1>2, <1>3, <1>4, <1>5, <1>6 DEF GotOf

-----------------------------------------------------------------------------
(* One step of one item *)

\* What a step of item i leaves and what it may change: its own task, its row,
\* the cache where i's keys point, and more refusals and answers known.
Frame(i, u) ==
  /\ Becomes(i, u)
  /\ up /\ UNCHANGED <<status, caching, declared, up, launches>>
  /\ faults' \in 0..MaxFaults
  /\ memo \subseteq memo' /\ memo' \subseteq Models
  /\ given' \in [Requests -> Nat] /\ \A q \in Requests : given[q] <= given'[q]
  /\ rows' \in [Items -> Row] /\ \A j \in Items \ {i} : rows'[j] = rows[j]
  /\ cache' \in [Requests -> Answers \cup {NoEntry}]
  /\ \A q \in Requests :
       \/ cache'[q] = cache[q]
       \/ \E k \in 1..RoundsOf[i] : q = Request(i, k)

\* What the step hands on is i's own.
Hands(i, u) ==
  /\ GotOf(i, u)
  /\ \A k \in 1..Len(u.got) : Backed(u.got[k])'
  /\ u.phase = "wait" /\ ~u.temperature => ModelOf[i] \in memo'
  /\ \/ rows'[i] = rows[i]
     \/ RowOf(i, rows'[i]) /\ \A k \in 1..Len(rows'[i].answers) : Backed(rows[i].answers[k])'
  /\ \A q \in Requests :
       \/ cache'[q] = cache[q]
       \/ cache'[q].request = q /\ Backed(cache[q])'
  /\ caching /\ u.phase \in {"send", "wait"} /\ Alone(i, Key(i, u.round)) =>
       cache'[Key(i, u.round)] = NoEntry

\* What was backed stays so.
LEMMA StaysBacked ==
  ASSUME Types, NEW i \in Items, NEW u \in Task, Frame(i, u), NEW a \in Answers, Backed(a)
  PROVE  Backed(a)'
<1>1. a.request \in Requests /\ a.nth \in Nat
  BY DEF Answers
<1>2. given[a.request] \in Nat /\ given'[a.request] \in Nat /\ given[a.request] <= given'[a.request]
  BY <1>1 DEF Types, Frame
<1>3. a.nth <= given'[a.request]
  BY <1>1, <1>2 DEF Backed
<1> QED
  BY <1>3 DEF Backed, Frame

\* Such a step keeps the invariant.
LEMMA FrameKeeps ==
  ASSUME Inv, NEW i \in Items, NEW u \in Task, Frame(i, u), Hands(i, u)
  PROVE  Inv'
<1>1. Types'
  BY DEF Inv, Types, Frame, Becomes
<1>2. Own'
  <2>1. \A j \in Items : GotOf(j, task'[j])
    BY DEF Inv, Own, Frame, Becomes, Hands
  <2>2. \A j \in Items : RowOf(j, rows'[j])
    BY DEF Inv, Own, Frame, Hands
  <2>3. \A q \in Requests : cache'[q] # NoEntry => cache'[q].request = q
    BY DEF Inv, Own, Hands
  <2> QED
    BY <2>1, <2>2, <2>3 DEF Own, GotOf, RowOf
<1>3. Known'
  <2>1. (up => status = "in_progress")' /\ up'
    BY DEF Inv, Known, Frame
  <2>2. ASSUME NEW j \in Items PROVE \A k \in 1..Len(task'[j].got) : Backed(task[j].got[k])'
    <3>1. CASE j = i
      BY <3>1 DEF Frame, Becomes, Hands, Backed
    <3>2. CASE j # i
      <4>1. task'[j] = task[j] /\ task[j].got \in Seq(Answers)
        BY <3>2 DEF Inv, Types, Task, Frame, Becomes
      <4>2. \A k \in 1..Len(task[j].got) : task[j].got[k] \in Answers /\ Backed(task[j].got[k])
        BY <4>1 DEF Inv, Known
      <4> QED
        BY <4>1, <4>2, StaysBacked DEF Inv, Backed
    <3> QED
      BY <3>1, <3>2
  <2>3. ASSUME NEW j \in Items PROVE \A k \in 1..Len(rows'[j].answers) : Backed(rows[j].answers[k])'
    <3>1. CASE rows'[j] = rows[j]
      <4>1. rows[j].answers \in Seq(Answers)
        BY DEF Inv, Types, Row
      <4>2. \A k \in 1..Len(rows[j].answers) : rows[j].answers[k] \in Answers /\ Backed(rows[j].answers[k])
        BY <4>1 DEF Inv, Known
      <4> QED
        BY <3>1, <4>1, <4>2, StaysBacked DEF Inv, Backed
    <3>2. CASE rows'[j] # rows[j]
      BY <3>2 DEF Frame, Hands
    <3> QED
      BY <3>1, <3>2
  <2>4. ASSUME NEW j \in Items, task'[j].phase = "wait", ~task'[j].temperature PROVE ModelOf[j] \in memo'
    BY <2>4 DEF Inv, Known, Frame, Becomes, Hands
  <2>5. ASSUME NEW q \in Requests, cache'[q] # NoEntry PROVE Backed(cache[q])'
    <3>1. CASE cache'[q] = cache[q]
      <4>1. cache[q] \in Answers /\ Backed(cache[q])
        BY <2>5, <3>1 DEF Inv, Types, Known
      <4> QED
        BY <3>1, <4>1, StaysBacked DEF Inv, Backed
    <3>2. CASE cache'[q] # cache[q]
      BY <3>2 DEF Hands
    <3> QED
      BY <3>1, <3>2
  <2> QED
    BY <2>1, <2>2, <2>3, <2>4, <2>5 DEF Known
<1>4. Missed'
  <2> SUFFICES ASSUME caching', NEW j \in Items, task'[j].phase \in {"send", "wait"},
                      Alone(j, Key(j, task'[j].round))
               PROVE  cache'[Key(j, task'[j].round)] = NoEntry
    BY DEF Missed, Alone, Key, Request
  <2>1. CASE j = i
    BY <2>1 DEF Frame, Becomes, Hands
  <2>2. CASE j # i
    <3>1. task'[j] = task[j] /\ caching
      BY <2>2 DEF Frame, Becomes
    <3>2. cache[Key(j, task[j].round)] = NoEntry
      BY <3>1 DEF Inv, Missed
    <3>3. task[j].round \in 1..RoundsOf[j]
      BY DEF Inv, Own, GotOf
    <3>4. Key(j, task[j].round) \in Requests
      BY <3>3, RequestFacts
    <3>5. \A k \in 1..RoundsOf[i] : Key(j, task[j].round) # Request(i, k)
      BY <2>2, <3>1 DEF Alone
    <3> QED
      BY <3>1, <3>2, <3>4, <3>5 DEF Frame
  <2> QED
    BY <2>1, <2>2
<1> QED
  BY <1>1, <1>2, <1>3, <1>4 DEF Inv

-----------------------------------------------------------------------------
(* Every action of an item is such a step *)

\* A task that is under way is a task of a running process.
LEMMA Working ==
  ASSUME Inv, NEW i \in Items, task[i].phase \notin {"idle", "done"}
  PROVE  /\ up /\ task[i] \in Task /\ GotOf(i, task[i])
         /\ task[i].got \in Seq(Answers)
         /\ \A k \in 1..Len(task[i].got) : task[i].got[k] \in Answers /\ Backed(task[i].got[k])
         /\ Request(i, task[i].round) \in Requests
         /\ Key(i, task[i].round) = Request(i, task[i].round)
<1>1. up /\ task[i] \in Task /\ GotOf(i, task[i])
  BY DEF Inv, Types, Own, Known
<1>2. task[i].got \in Seq(Answers) /\ task[i].round \in 1..RoundsOf[i]
  BY <1>1 DEF Task, GotOf
<1>3. \A k \in 1..Len(task[i].got) : task[i].got[k] \in Answers /\ Backed(task[i].got[k])
  BY <1>2 DEF Inv, Known
<1> QED
  BY <1>1, <1>2, <1>3, RequestFacts

\* One answer fewer than rounds begun, in the phases before an answer.
LEMMA Before ==
  ASSUME Inv, NEW i \in Items, task[i].phase \in {"queued", "lookup", "send", "wait"}
  PROVE  Len(task[i].got) = task[i].round - 1
BY DEF Inv, Own, GotOf

\* The same step seen through files, process and bounds.
LEMMA FrameOfTask ==
  ASSUME Inv, NEW i \in Items, up, NEW u \in Task, Becomes(i, u),
         UNCHANGED <<files, cache, up, given, launches>>,
         faults' \in 0..MaxFaults,
         memo \subseteq memo', memo' \subseteq Models
  PROVE  Frame(i, u)
BY DEF Inv, Types, Frame, files

\* A task that keeps its answers, its round and what it knows of the model.
LEMMA KeepsAnswers ==
  ASSUME Inv, NEW i \in Items, task[i].phase \notin {"idle", "done"},
         NEW u \in Task, Frame(i, u), UNCHANGED <<rows, cache>>,
         u.got = task[i].got, u.round = task[i].round,
         \/ u.phase \in {"send", "wait"} /\ task[i].phase \in {"queued", "lookup", "send", "wait"}
         \/ u.phase = "failed",
         u.phase = "wait" /\ ~u.temperature => ModelOf[i] \in memo',
         caching /\ u.phase \in {"send", "wait"} =>
           task[i].phase \in {"send", "wait"} \/ cache[Key(i, u.round)] = NoEntry
  PROVE  Hands(i, u)
<1>1. GotOf(i, u)
  BY Working DEF GotOf
<1>2. \A k \in 1..Len(u.got) : Backed(u.got[k])'
  BY Working, StaysBacked DEF Inv
<1>3. caching /\ u.phase \in {"send", "wait"} /\ Alone(i, Key(i, u.round)) => cache'[Key(i, u.round)] = NoEntry
  BY DEF Inv, Missed
<1> QED
  BY <1>1, <1>2, <1>3 DEF Hands

\* A hit hands on an answer to the very request; a miss says the entry is not there.
LEMMA LookupKeeps == ASSUME Inv, NEW i \in Items, Lookup(i) PROVE Inv'
<1> DEFINE t == task[i]
           entry == cache[Key(i, t.round)]
<1>1. t.phase \in {"queued", "lookup"}
  BY DEF Lookup, HasPermit
<1>2. /\ up /\ t \in Task /\ GotOf(i, t) /\ Len(t.got) = t.round - 1
      /\ Key(i, t.round) \in Requests /\ Key(i, t.round) = Request(i, t.round)
      /\ Types /\ t.round \in 1..RoundsOf[i]
  BY <1>1, Working, Before DEF Inv, GotOf
<1>3. UNCHANGED <<files, cache, up, memo, given, bounds>>
  BY DEF Lookup
<1>4. faults' \in 0..MaxFaults /\ launches' = launches /\ memo \subseteq memo' /\ memo' \subseteq Models
  BY <1>2, <1>3 DEF Types, bounds
<1>5. CASE entry # NoEntry
  <2> DEFINE v == [t EXCEPT !.got = Append(@, entry), !.hits = @ + 1]
  <2>1. entry \in Answers /\ entry.request = Request(i, t.round) /\ Backed(entry)
    BY <1>2, <1>5 DEF Inv, Types, Own, Known
  <2>2. PICK g \in Seq(Answers) : g = Append(t.got, entry)
    <3>1. t.got \in Seq(Answers)
      BY <1>2 DEF Task
    <3>2. Append(t.got, entry) \in Seq(Answers)
      <4> HIDE DEF t, entry
      <4> QED
        BY <2>1, <3>1
    <3> QED
      BY <3>2
  <2>3. PICK n \in Nat : n = t.hits + 1
    BY <1>2 DEF Task
  <2>4. v = [t EXCEPT !.got = g, !.hits = n]
    BY <2>2, <2>3
  <2>5. v \in Task /\ v.got = g /\ v.round = t.round
    BY <1>2, <2>4 DEF Task
  <2>6. Advance(i, v)
    BY <1>5 DEF Lookup, Hit
  <2> HIDE DEF v
  <2>7. PICK u \in Task :
          /\ Becomes(i, u) /\ u.got = g
          /\ \/ u.phase = "record" /\ u.round = t.round /\ t.round = RoundsOf[i]
             \/ u.phase = "lookup" /\ u.round = t.round + 1 /\ t.round < RoundsOf[i]
    BY <1>2, <2>5, <2>6, Advanced
  <2>8. Frame(i, u)
    BY <1>2, <1>3, <1>4, <2>7, FrameOfTask
  <2>9. /\ Len(g) = t.round
        /\ \A k \in 1..Len(g) : g[k].request = Request(i, k) /\ (g[k] = entry \/ g[k] = t.got[k])
        /\ \A k \in 1..Len(g) : k # Len(g) => k \in 1..Len(t.got) /\ g[k] = t.got[k]
        /\ g[Len(g)] = entry
    <3> HIDE DEF t, entry
    <3>1. t \in Task /\ GotOf(i, t) /\ Len(t.got) = t.round - 1
      BY <1>2
    <3>2. entry \in Answers /\ entry.request = Request(i, t.round)
      BY <2>1
    <3>3. g = Append(t.got, entry)
      BY <2>2
    <3> QED
      BY <3>1, <3>2, <3>3, Appended
  <2>10. \A k \in 1..Len(g) : g[k] \in Answers /\ Backed(g[k])
    BY <1>1, <2>1, <2>2, <2>9, Working
  <2>11. GotOf(i, u)
    <3>1. Len(u.got) = t.round /\ t.round <= RoundsOf[i] /\ RoundsOf[i] \in Nat /\ t.round \in Nat
      BY <1>2, <2>7, <2>9, Constants
    <3>2. u.round \in 1..RoundsOf[i] /\ (u.phase = "lookup" => u.round = t.round + 1)
          /\ (u.phase = "record" => t.round = RoundsOf[i]) /\ u.phase \in {"lookup", "record"}
      BY <1>2, <2>7, <3>1
    <3>3. \A k \in 1..Len(u.got) : u.got[k].request = Request(i, k)
      BY <2>7, <2>9
    <3> QED
      BY <3>1, <3>2, <3>3 DEF GotOf
  <2>12. \A k \in 1..Len(u.got) : Backed(u.got[k])'
    BY <1>2, <2>7, <2>8, <2>10, StaysBacked
  <2>13. Hands(i, u)
    BY <1>3, <2>7, <2>11, <2>12 DEF Hands, files
  <2> QED
    BY <2>8, <2>13, FrameKeeps
<1>6. CASE entry = NoEntry
  <2>1. Goto(i, "send")
    BY <1>6 DEF Lookup
  <2>2. PICK u \in Task : /\ Becomes(i, u) /\ u.phase = "send" /\ u.got = t.got
                          /\ u.round = t.round /\ u.temperature = t.temperature
    BY <1>2, <2>1, Went DEF Phases
  <2>3. Frame(i, u)
    BY <1>2, <1>3, <1>4, <2>2, FrameOfTask
  <2>4. Hands(i, u)
    BY <1>1, <1>3, <1>6, <2>2, <2>3, KeepsAnswers DEF files
  <2> QED
    BY <2>3, <2>4, FrameKeeps
<1> QED
  BY <1>5, <1>6

\* What the client has learnt about the model decides if the temperature goes with it.
LEMMA SendKeeps == ASSUME Inv, NEW i \in Items, Send(i) PROVE Inv'
<1> DEFINE t == task[i]
           u == [t EXCEPT !.phase = "wait", !.attempt = 1, !.temperature = ModelOf[i] \notin memo]
<1>1. t.phase \in {"queued", "lookup", "send"} /\ (caching => t.phase = "send")
  BY DEF Send, HasPermit
<1>2. up /\ t \in Task /\ Types
  BY <1>1, Working DEF Inv
<1>3. UNCHANGED <<files, cache, up, memo, given, bounds>>
  BY DEF Send
<1>4. 1 \in 0..MaxAttempts
  BY Constants
<1>5. PICK b \in BOOLEAN : b <=> ModelOf[i] \notin memo
  OBVIOUS
<1>6. b = (ModelOf[i] \notin memo)
  BY <1>5
<1>7. u = [t EXCEPT !.phase = "wait", !.attempt = 1, !.temperature = b]
  BY <1>6
<1>8. u \in Task /\ u.phase = "wait" /\ u.got = t.got /\ u.round = t.round /\ u.temperature = b
  BY <1>2, <1>4, <1>7 DEF Task, Phases
<1>9. task' = [task EXCEPT ![i] = u]
  BY DEF Send
<1> HIDE DEF u
<1>10. Becomes(i, u)
  BY <1>2, <1>8, <1>9, Assigned
<1>11. Frame(i, u)
  BY <1>2, <1>3, <1>8, <1>10, FrameOfTask DEF Types, bounds
<1>12. Hands(i, u)
  <2>1. u.phase = "wait" /\ ~u.temperature => ModelOf[i] \in memo'
    BY <1>3, <1>5, <1>8
  <2> QED
    BY <1>1, <1>3, <1>8, <1>11, <2>1, KeepsAnswers DEF files
<1> QED
  BY <1>8, <1>11, <1>12, FrameKeeps

\* A refusal is remembered with the parameter dropped.
LEMMA TemperatureRefusedKeeps == ASSUME Inv, NEW i \in Items, TemperatureRefused(i) PROVE Inv'
<1> DEFINE t == task[i]
           u == [t EXCEPT !.temperature = FALSE]
<1>1. t.phase = "wait"
  BY DEF TemperatureRefused
<1>2. up /\ t \in Task /\ Types
  BY <1>1, Working DEF Inv
<1>3. UNCHANGED <<files, cache, up, given, bounds>> /\ memo' = memo \cup {ModelOf[i]}
  BY DEF TemperatureRefused
<1>4. u \in Task /\ u.phase = "wait" /\ u.got = t.got /\ u.round = t.round
  BY <1>1, <1>2 DEF Task
<1>5. task' = [task EXCEPT ![i] = u]
  BY DEF TemperatureRefused
<1> HIDE DEF u
<1>6. Becomes(i, u)
  BY <1>2, <1>4, <1>5, Assigned
<1>7. memo \subseteq memo' /\ memo' \subseteq Models /\ ModelOf[i] \in memo'
  BY <1>2, <1>3, Constants DEF Types
<1>8. Frame(i, u)
  BY <1>2, <1>3, <1>4, <1>6, <1>7, FrameOfTask DEF Types, bounds
<1>9. Hands(i, u)
  BY <1>1, <1>3, <1>4, <1>7, <1>8, KeepsAnswers DEF files
<1> QED
  BY <1>4, <1>8, <1>9, FrameKeeps

\* A failure is a fault, and takes the next attempt or ends the item.
LEMMA ProviderFailsKeeps == ASSUME Inv, NEW i \in Items, ProviderFails(i) PROVE Inv'
<1> DEFINE t == task[i]
           u == IF t.attempt < MaxAttempts THEN [t EXCEPT !.attempt = @ + 1]
                                           ELSE [t EXCEPT !.phase = "failed"]
<1>1. t.phase = "wait"
  BY DEF ProviderFails
<1>2. up /\ t \in Task /\ Types
  BY <1>1, Working DEF Inv
<1>3. UNCHANGED <<files, cache, up, memo, given, launches>> /\ faults' \in 0..MaxFaults
  BY <1>2, Constants DEF ProviderFails, Fault, Types
<1>4. /\ u \in Task /\ u.phase \in {"wait", "failed"}
      /\ u.got = t.got /\ u.round = t.round /\ u.temperature = t.temperature
  <2>1. CASE t.attempt < MaxAttempts
    <3>1. PICK n \in 0..MaxAttempts : n = t.attempt + 1
      BY <1>2, <2>1, Constants DEF Task
    <3>2. u = [t EXCEPT !.attempt = n]
      BY <2>1, <3>1
    <3> QED
      BY <1>1, <1>2, <3>2 DEF Task
  <2>2. CASE ~(t.attempt < MaxAttempts)
    <3>1. u = [t EXCEPT !.phase = "failed"]
      BY <2>2
    <3> QED
      BY <1>2, <3>1 DEF Task, Phases
  <2> QED
    BY <2>1, <2>2
<1>5. task' = [task EXCEPT ![i] = u]
  BY DEF ProviderFails, Retried
<1> HIDE DEF u
<1>6. Becomes(i, u)
  BY <1>2, <1>4, <1>5, Assigned
<1>7. Frame(i, u)
  BY <1>2, <1>3, <1>4, <1>6, FrameOfTask DEF Types
<1>8. u.phase = "wait" /\ ~u.temperature => ModelOf[i] \in memo'
  BY <1>1, <1>3, <1>4 DEF Inv, Known
<1>9. Hands(i, u)
  BY <1>1, <1>3, <1>4, <1>7, <1>8, KeepsAnswers DEF files
<1> QED
  BY <1>4, <1>7, <1>9, FrameKeeps

\* A final failure keeps what the rounds before it answered.
LEMMA AuthFailsKeeps == ASSUME Inv, NEW i \in Items, AuthFails(i) PROVE Inv'
<1>1. task[i].phase = "wait"
  BY DEF AuthFails
<1>2. up /\ Types
  BY <1>1, Working DEF Inv
<1>3. UNCHANGED <<files, cache, up, memo, given, launches>> /\ faults' \in 0..MaxFaults
  BY <1>2, Constants DEF AuthFails, Fault, Types
<1>4. PICK u \in Task : /\ Becomes(i, u) /\ u.phase = "failed" /\ u.got = task[i].got
                        /\ u.round = task[i].round /\ u.temperature = task[i].temperature
  BY <1>2, Went DEF AuthFails, Phases
<1>5. Frame(i, u)
  BY <1>2, <1>3, <1>4, FrameOfTask DEF Types
<1>6. Hands(i, u)
  BY <1>1, <1>3, <1>4, <1>5, KeepsAnswers DEF files
<1> QED
  BY <1>5, <1>6, FrameKeeps

\* The provider's answer is one to the task's round, of this launch.
LEMMA AnsweredKeeps == ASSUME Inv, NEW i \in Items, Answered(i) PROVE Inv'
<1> DEFINE t == task[i]
           q == Request(i, t.round)
<1>1. t.phase = "wait"
  BY DEF Answered
<1>2. /\ up /\ t \in Task /\ GotOf(i, t) /\ Len(t.got) = t.round - 1
      /\ q \in Requests /\ q.model = ModelOf[i] /\ t.got \in Seq(Answers)
      /\ Types /\ t.round \in 1..RoundsOf[i] /\ t.temperature \in BOOLEAN /\ launches \in Nat
  <2>1. up /\ t \in Task /\ GotOf(i, t) /\ Len(t.got) = t.round - 1 /\ t.got \in Seq(Answers)
    BY <1>1, Working, Before
  <2>2. Types /\ t.round \in 1..RoundsOf[i] /\ t.temperature \in BOOLEAN
    BY <2>1 DEF Inv, GotOf, Task
  <2>3. launches \in Nat
    BY <2>2, Constants DEF Types
  <2> QED
    BY <2>1, <2>2, <2>3, RequestFacts
<1>3. UNCHANGED <<files, cache, up, memo, launches>>
  BY DEF Answered
<1>4. PICK n \in Nat \ {0} : n = given[q] + 1
  BY <1>2 DEF Types
<1>5. PICK truncated \in BOOLEAN :
        LET a == [request |-> q, nth |-> n, truncated |-> truncated,
                  controlled |-> t.temperature, launch |-> launches, by |-> i]
        IN /\ IF truncated THEN Fault ELSE UNCHANGED faults
           /\ given' = [given EXCEPT ![q] = n]
           /\ LET v == [t EXCEPT !.got = Append(@, a)]
              IN IF caching
                   THEN task' = [task EXCEPT ![i] = [v EXCEPT !.phase = "put"]]
                   ELSE Advance(i, v)
  BY <1>4 DEF Answered
<1>6. PICK answer \in Answers :
        answer = [request |-> q, nth |-> n, truncated |-> truncated,
                  controlled |-> t.temperature, launch |-> launches, by |-> i]
  BY <1>2 DEF Answers
<1>7. /\ given' \in [Requests -> Nat] /\ given'[q] = n
      /\ \A r \in Requests : given[r] <= given'[r]
  BY <1>2, <1>4, <1>5 DEF Types
<1>8. faults' \in 0..MaxFaults
  BY <1>2, <1>5, Constants DEF Fault, Types
<1>9. answer.request = q /\ answer.nth = n /\ answer.launch = launches /\ answer.controlled = t.temperature
  BY <1>6
<1>10. ~t.temperature => q.model \in memo
  BY <1>1, <1>2 DEF Inv, Known
<1>11. status = "in_progress" /\ status' = status /\ memo' = memo /\ launches' = launches
  BY <1>2, <1>3 DEF Inv, Known, files
<1>12. Backed(answer)'
  BY <1>2, <1>7, <1>9, <1>10, <1>11 DEF Backed
<1>13. PICK g \in Seq(Answers) : g = Append(t.got, answer)
  <2>1. Append(t.got, answer) \in Seq(Answers)
    BY <1>2
  <2> QED
    BY <2>1
<1> DEFINE v == [t EXCEPT !.got = g]
<1>14. v = [t EXCEPT !.got = Append(@, answer)]
  BY <1>13
<1>15. (IF caching THEN task' = [task EXCEPT ![i] = [v EXCEPT !.phase = "put"]] ELSE Advance(i, v))
  BY <1>5, <1>6, <1>13
<1>16. v \in Task /\ v.got = g /\ v.round = t.round /\ [v EXCEPT !.phase = "put"] \in Task
       /\ [v EXCEPT !.phase = "put"].got = g /\ [v EXCEPT !.phase = "put"].round = t.round
       /\ [v EXCEPT !.phase = "put"].phase = "put"
  BY <1>2, <1>13 DEF Task, Phases
<1>17. /\ Len(g) = t.round
       /\ \A k \in 1..Len(g) : g[k].request = Request(i, k) /\ (g[k] = answer \/ g[k] = t.got[k])
       /\ \A k \in 1..Len(g) : k # Len(g) => k \in 1..Len(t.got) /\ g[k] = t.got[k]
       /\ g[Len(g)] = answer
  <2>1. answer.request = Request(i, t.round) /\ t \in Task /\ GotOf(i, t) /\ Len(t.got) = t.round - 1
    BY <1>2, <1>9
  <2> HIDE DEF t
  <2> QED
    BY <1>13, <2>1, Appended
<1> HIDE DEF v
<1>18. PICK u \in Task :
         /\ Becomes(i, u) /\ u.got = g
         /\ \/ u.phase = "put" /\ u.round = t.round
            \/ u.phase = "record" /\ u.round = t.round /\ t.round = RoundsOf[i]
            \/ u.phase = "lookup" /\ u.round = t.round + 1 /\ t.round < RoundsOf[i]
  <2>1. CASE caching
    <3>1. task' = [task EXCEPT ![i] = [v EXCEPT !.phase = "put"]]
      BY <1>15, <2>1
    <3>2. Becomes(i, [v EXCEPT !.phase = "put"])
      BY <1>2, <1>16, <3>1, Assigned
    <3> QED
      BY <1>16, <3>2
  <2>2. CASE ~caching
    <3>1. Advance(i, v)
      BY <1>15, <2>2
    <3> QED
      BY <1>2, <1>16, <3>1, Advanced
  <2> QED
    BY <2>1, <2>2
<1>19. Frame(i, u)
  BY <1>2, <1>3, <1>7, <1>8, <1>18 DEF Frame, Types, files
<1>20. GotOf(i, u)
  <2>1. Len(u.got) = t.round /\ t.round <= RoundsOf[i] /\ RoundsOf[i] \in Nat /\ t.round \in Nat
    BY <1>2, <1>17, <1>18, Constants
  <2>2. /\ u.round \in 1..RoundsOf[i] /\ (u.phase = "lookup" => u.round = t.round + 1)
        /\ (u.phase = "record" => t.round = RoundsOf[i]) /\ (u.phase = "put" => u.round = t.round)
        /\ u.phase \in {"put", "lookup", "record"}
    BY <1>2, <1>18, <2>1
  <2>3. \A k \in 1..Len(u.got) : u.got[k].request = Request(i, k)
    BY <1>17, <1>18
  <2> QED
    BY <2>1, <2>2, <2>3 DEF GotOf
<1>21. ASSUME NEW k \in 1..Len(u.got) PROVE Backed(u.got[k])'
  <2>1. CASE k = Len(g)
    BY <1>12, <1>17, <1>18, <2>1
  <2>2. CASE k # Len(g)
    <3>1. k \in 1..Len(t.got) /\ u.got[k] = t.got[k]
      BY <1>17, <1>18, <2>2
    <3>2. t.got[k] \in Answers /\ Backed(t.got[k])
      BY <1>1, <3>1, Working
    <3>3. PICK b \in Answers : b = t.got[k]
      BY <3>2
    <3>4. Backed(b)'
      BY <1>2, <1>19, <3>2, <3>3, StaysBacked
    <3> QED
      BY <3>1, <3>3, <3>4
  <2> QED
    BY <2>1, <2>2
<1>22. Hands(i, u)
  BY <1>3, <1>18, <1>20, <1>21 DEF Hands, files
<1> QED
  BY <1>18, <1>19, <1>22, FrameKeeps

\* What is stored under a key answers that key's request.
LEMMA PutKeeps == ASSUME Inv, NEW i \in Items, Put(i) PROVE Inv'
<1> DEFINE t == task[i]
           q == Key(i, t.round)
<1>1. t.phase = "put"
  BY DEF Put
<1>2. /\ up /\ t \in Task /\ GotOf(i, t) /\ Types /\ t.round \in 1..RoundsOf[i] /\ t.got \in Seq(Answers)
      /\ q \in Requests /\ q = Request(i, t.round) /\ Len(t.got) = t.round
  BY <1>1, Working DEF Inv, GotOf
<1>3. UNCHANGED <<files, up, memo, given, bounds>>
  BY DEF Put
<1>4. PICK a \in Answers : a = t.got[Len(t.got)]
  BY <1>2
<1>5. a.request = q /\ Backed(a)
  BY <1>1, <1>2, <1>4, Working DEF GotOf
<1>6. cache' = [cache EXCEPT ![q] = a] /\ Advance(i, t)
  BY <1>4 DEF Put
<1>7. /\ cache' \in [Requests -> Answers \cup {NoEntry}] /\ cache'[q] = a
      /\ \A r \in Requests : r # q => cache'[r] = cache[r]
  BY <1>2, <1>6 DEF Types
<1>8. PICK u \in Task :
        /\ Becomes(i, u) /\ u.got = t.got
        /\ \/ u.phase = "record" /\ u.round = t.round /\ t.round = RoundsOf[i]
           \/ u.phase = "lookup" /\ u.round = t.round + 1 /\ t.round < RoundsOf[i]
  BY <1>2, <1>6, Advanced
<1>9. Frame(i, u)
  BY <1>2, <1>3, <1>7, <1>8 DEF Frame, Types, files, bounds
<1>10. GotOf(i, u)
  <2>1. Len(u.got) = t.round /\ t.round <= RoundsOf[i] /\ RoundsOf[i] \in Nat /\ t.round \in Nat
    BY <1>2, <1>8, Constants
  <2>2. /\ u.round \in 1..RoundsOf[i] /\ (u.phase = "lookup" => u.round = t.round + 1)
        /\ (u.phase = "record" => t.round = RoundsOf[i]) /\ u.phase \in {"lookup", "record"}
    BY <1>2, <1>8, <2>1
  <2>3. \A k \in 1..Len(u.got) : u.got[k].request = Request(i, k)
    BY <1>2, <1>8 DEF GotOf
  <2> QED
    BY <2>1, <2>2, <2>3 DEF GotOf
<1>11. ASSUME NEW k \in 1..Len(u.got) PROVE Backed(u.got[k])'
  <2>1. PICK b \in Answers : b = t.got[k]
    BY <1>2, <1>8
  <2>2. Backed(b)
    BY <1>1, <1>8, <2>1, Working
  <2>3. Backed(b)'
    BY <1>2, <1>9, <2>2, StaysBacked
  <2> QED
    BY <1>8, <2>1, <2>3
<1>12. Backed(a)'
  BY <1>2, <1>5, <1>9, StaysBacked
<1>13. \A r \in Requests :
         \/ cache'[r] = cache[r]
         \/ cache'[r].request = r /\ Backed(cache[r])'
  BY <1>5, <1>7, <1>12 DEF Backed
<1>14. Hands(i, u)
  BY <1>3, <1>8, <1>10, <1>11, <1>13 DEF Hands, files
<1> QED
  BY <1>8, <1>9, <1>14, FrameKeeps

\* The row of a finished item: its answers, or none.
LEMMA RecordKeeps == ASSUME Inv, NEW i \in Items, Record(i) PROVE Inv'
<1> DEFINE t == task[i]
           u == [Idle EXCEPT !.phase = "done"]
<1>1. t.phase \in {"record", "failed"}
  BY DEF Record
<1>2. up /\ t \in Task /\ GotOf(i, t) /\ Types /\ t.got \in Seq(Answers)
  BY <1>1, Working DEF Inv
<1>3. UNCHANGED <<status, caching, declared, cache, up, memo, given, bounds>>
  BY DEF Record
<1>4. PICK r \in Row : /\ rows' = [rows EXCEPT ![i] = r]
                       /\ \/ r.answers = <<>>
                          \/ r.answers = t.got /\ t.phase = "record"
  <2>1. CASE t.phase = "record"
    <3>1. rows' = [rows EXCEPT ![i] = MergedRow(t)]
      BY <2>1 DEF Record
    <3>2. MergedRow(t) \in Row /\ MergedRow(t).answers = t.got
      <4>1. PICK b \in BOOLEAN, c \in BOOLEAN : b = (t.hits = Len(t.got)) /\ c = SomeTruncated(t.got)
        BY DEF SomeTruncated
      <4>2. MergedRow(t) = [error |-> FALSE, answers |-> t.got, hits |-> t.hits, cached |-> b, truncated |-> c]
        BY <4>1 DEF MergedRow
      <4> QED
        BY <1>2, <4>2 DEF Row, Task
    <3> QED
      BY <2>1, <3>1, <3>2
  <2>2. CASE t.phase # "record"
    <3>1. rows' = [rows EXCEPT ![i] = ErrorRow]
      BY <2>2 DEF Record
    <3> QED
      BY <3>1, EmptyRows
  <2> QED
    BY <2>1, <2>2
<1>5. u \in Task /\ u.got = <<>> /\ u.round = 1 /\ u.phase = "done"
  BY IdleTask DEF Task, Phases
<1>6. task' = [task EXCEPT ![i] = u]
  BY DEF Record
<1> HIDE DEF u
<1>7. Becomes(i, u)
  BY <1>2, <1>5, <1>6, Assigned
<1>8. /\ rows' \in [Items -> Row] /\ rows'[i] = r
      /\ \A j \in Items \ {i} : rows'[j] = rows[j]
  BY <1>2, <1>4 DEF Types
<1>9. Frame(i, u)
  BY <1>2, <1>3, <1>7, <1>8 DEF Frame, Types, bounds
<1>10. GotOf(i, u)
  BY <1>5, Constants DEF GotOf
<1>11. RowOf(i, r)
  BY <1>1, <1>2, <1>4, Constants DEF RowOf, GotOf
<1>12. ASSUME NEW k \in 1..Len(r.answers) PROVE Backed(r.answers[k])'
  <2>1. r.answers = t.got
    BY <1>4
  <2>2. PICK b \in Answers : b = t.got[k]
    BY <1>2, <2>1
  <2>3. Backed(b)
    BY <1>1, <2>1, <2>2, Working
  <2>4. Backed(b)'
    BY <1>2, <1>5, <1>9, <2>3, StaysBacked
  <2> QED
    BY <2>1, <2>2, <2>4
<1>13. RowOf(i, rows'[i]) /\ \A k \in 1..Len(rows'[i].answers) : Backed(rows[i].answers[k])'
  BY <1>8, <1>11, <1>12 DEF Backed
<1>14. Hands(i, u)
  BY <1>3, <1>5, <1>10, <1>13 DEF Hands
<1> QED
  BY <1>5, <1>9, <1>14, FrameKeeps

-----------------------------------------------------------------------------
(* The steps of the process *)

\* Nobody holds an answer when a process starts, is over or was killed.
Bare == \A i \in Items : task'[i] \in Task /\ task'[i].got = <<>> /\ task'[i].round = 1
                         /\ task'[i].phase \in {"idle", "queued", "done"}

\* A task without answers has none that is not its own.
LEMMA BareIsOwn == ASSUME Bare PROVE \A i \in Items : GotOf(i, task[i])'
BY Constants DEF Bare, GotOf

\* A launch has no answer of its own yet, so no refusal to know about.
LEMMA StartKeeps ==
  ASSUME Inv, NEW pending \in SUBSET Items, Start(pending),
         caching' \in BOOLEAN, declared' \subseteq Models, status' = "in_progress",
         rows' \in [Items -> Row],
         \A i \in Items : rows'[i] = rows[i] \/ rows'[i].answers = <<>>
  PROVE  Inv'
<1>1. launches \in Nat /\ launches' = launches + 1 /\ launches' \in 0..MaxLaunches
  BY Constants DEF Inv, Types, Start
<1>2. UNCHANGED <<cache, given, faults>> /\ up' /\ memo' = {}
  BY DEF Start
<1>3. \A i \in Items : task'[i] = [Idle EXCEPT !.phase = IF i \in pending THEN "queued" ELSE "done"]
  BY DEF Start
<1>4. \A i \in Items : /\ task'[i] \in Task /\ task'[i].got = <<>> /\ task'[i].round = 1
                       /\ task'[i].phase \in {"queued", "done"}
  <2> SUFFICES ASSUME NEW i \in Items
               PROVE  /\ task'[i] \in Task /\ task'[i].got = <<>> /\ task'[i].round = 1
                      /\ task'[i].phase \in {"queued", "done"}
    OBVIOUS
  <2>1. PICK phase \in {"queued", "done"} : task'[i] = [Idle EXCEPT !.phase = phase]
    BY <1>3
  <2> QED
    BY <2>1, IdleTask DEF Task, Phases
<1>5. task' \in [Items -> Task] /\ Bare
  BY <1>4 DEF Start, Bare
<1>6. Types'
  BY <1>1, <1>2, <1>5 DEF Inv, Types
<1>7. Own'
  <2>1. \A i \in Items : RowOf(i, rows[i])'
    BY DEF Inv, Own, RowOf
  <2>2. \A q \in Requests : cache'[q] # NoEntry => cache'[q].request = q
    BY <1>2 DEF Inv, Own
  <2> QED
    BY <1>5, <2>1, <2>2, BareIsOwn DEF Own
<1>8. ASSUME NEW a \in Answers, Backed(a) PROVE Backed(a)'
  <2>1. a.launch \in Nat /\ a.launch <= launches
    BY <1>8 DEF Backed, Answers
  <2>2. a.launch <= launches' /\ a.launch # launches'
    BY <1>1, <2>1
  <2> QED
    BY <1>2, <1>8, <2>2 DEF Backed
<1>9. Known'
  <2>1. \A i \in Items : task'[i].got = <<>> /\ task'[i].phase # "wait"
    BY <1>4
  <2>2. ASSUME NEW i \in Items, NEW k \in 1..Len(rows'[i].answers) PROVE Backed(rows[i].answers[k])'
    <3>1. rows'[i] = rows[i] /\ rows[i].answers \in Seq(Answers)
      BY DEF Inv, Types, Row
    <3>2. PICK a \in Answers : a = rows[i].answers[k]
      BY <3>1
    <3>3. Backed(a)
      BY <3>1, <3>2 DEF Inv, Known
    <3>4. Backed(a)'
      BY <1>8, <3>3
    <3> QED
      BY <3>1, <3>2, <3>4 DEF Backed
  <2>3. ASSUME NEW q \in Requests, cache'[q] # NoEntry PROVE Backed(cache[q])'
    <3>1. PICK a \in Answers : a = cache[q]
      BY <1>2, <2>3 DEF Inv, Types
    <3>2. Backed(a)
      BY <1>2, <2>3, <3>1 DEF Inv, Known
    <3>3. Backed(a)'
      BY <1>8, <3>2
    <3> QED
      BY <1>2, <3>1, <3>3 DEF Backed
  <2> QED
    BY <1>2, <2>1, <2>2, <2>3 DEF Known
<1>10. Missed'
  BY <1>4 DEF Missed
<1> QED
  BY <1>6, <1>7, <1>9, <1>10 DEF Inv

\* A new run starts without rows.
LEMMA LaunchFreshKeeps == ASSUME Inv, LaunchFresh PROVE Inv'
<1>1. rows' \in [Items -> Row] /\ \A i \in Items : rows'[i].answers = <<>>
  BY EmptyRows DEF LaunchFresh
<1>2. caching' \in BOOLEAN /\ declared' = {} /\ status' = "in_progress" /\ Start(Items)
  BY DEF LaunchFresh
<1> QED
  BY <1>1, <1>2, StartKeeps

\* A resumed run keeps its rows.
LEMMA ResumeKeeps == ASSUME Inv, Resume PROVE Inv'
<1>1. Start({i \in Items : rows[i] = NoRow}) /\ UNCHANGED files /\ status = "in_progress"
  BY DEF Resume
<1>2. /\ caching' \in BOOLEAN /\ declared' \subseteq Models /\ status' = "in_progress"
      /\ rows' \in [Items -> Row] /\ \A i \in Items : rows'[i] = rows[i]
  BY <1>1 DEF Inv, Types, files
<1> QED
  BY <1>1, <1>2, StartKeeps

\* When a run completes, the refusals it knows of are declared.
LEMMA FinishKeeps == ASSUME Inv, Finish PROVE Inv'
<1>1. /\ up /\ status' = "completed" /\ declared' = declared \cup memo /\ up' = FALSE /\ memo' = {}
      /\ UNCHANGED <<caching, rows, cache, task, given, bounds>>
      /\ \A i \in Items : task[i].phase = "done"
  BY DEF Finish
<1>2. Types'
  BY <1>1 DEF Inv, Types, bounds
<1>3. Own'
  BY <1>1 DEF Inv, Own
<1>4. ASSUME NEW a \in Answers, Backed(a) PROVE Backed(a)'
  BY <1>1, <1>4 DEF Backed, bounds
<1>5. Known'
  <2>1. ASSUME NEW i \in Items, NEW k \in 1..Len(task[i].got) PROVE Backed(task[i].got[k])'
    <3>1. task[i].got \in Seq(Answers)
      BY DEF Inv, Types, Task
    <3>2. PICK a \in Answers : a = task[i].got[k] /\ Backed(a)
      BY <3>1 DEF Inv, Known
    <3>3. Backed(a)'
      BY <1>4, <3>2
    <3> QED
      BY <1>1, <3>2, <3>3 DEF Backed
  <2>2. ASSUME NEW i \in Items, NEW k \in 1..Len(rows[i].answers) PROVE Backed(rows[i].answers[k])'
    <3>1. rows[i].answers \in Seq(Answers)
      BY DEF Inv, Types, Row
    <3>2. PICK a \in Answers : a = rows[i].answers[k] /\ Backed(a)
      BY <3>1 DEF Inv, Known
    <3>3. Backed(a)'
      BY <1>4, <3>2
    <3> QED
      BY <1>1, <3>2, <3>3 DEF Backed
  <2>3. ASSUME NEW q \in Requests, cache[q] # NoEntry PROVE Backed(cache[q])'
    <3>1. PICK a \in Answers : a = cache[q] /\ Backed(a)
      BY <2>3 DEF Inv, Types, Known
    <3>2. Backed(a)'
      BY <1>4, <3>1
    <3> QED
      BY <1>1, <3>1, <3>2 DEF Backed
  <2> QED
    BY <1>1, <2>1, <2>2, <2>3 DEF Known
<1>6. Missed'
  BY <1>1 DEF Missed
<1> QED
  BY <1>2, <1>3, <1>5, <1>6 DEF Inv

\* A killed run is not complete; what it has answered stays on disk.
LEMMA KillKeeps == ASSUME Inv, Kill PROVE Inv'
<1>1. /\ up /\ up' = FALSE /\ memo' = {} /\ task' = [i \in Items |-> Idle]
      /\ UNCHANGED <<files, cache, given, launches>>
      /\ faults' \in 0..MaxFaults
  BY Constants DEF Kill, Fault, Inv, Types
<1>2. task' \in [Items -> Task] /\ Bare /\ \A i \in Items : task'[i].got = <<>> /\ task'[i].phase = "idle"
  BY <1>1, IdleTask DEF Bare
<1>3. Types'
  BY <1>1, <1>2 DEF Inv, Types, files
<1>4. Own'
  <2>1. \A i \in Items : RowOf(i, rows[i])'
    BY <1>1 DEF Inv, Own, RowOf, files
  <2>2. \A q \in Requests : cache'[q] # NoEntry => cache'[q].request = q
    BY <1>1 DEF Inv, Own
  <2> QED
    BY <1>2, <2>1, <2>2, BareIsOwn DEF Own
<1>5. status = "in_progress" /\ status' = status /\ rows' = rows /\ cache' = cache /\ given' = given
      /\ launches' = launches
  BY <1>1 DEF Inv, Known, files
<1>6. ASSUME NEW a \in Answers, Backed(a) PROVE Backed(a)'
  BY <1>1, <1>5, <1>6 DEF Backed
<1>7. Known'
  <2>1. ASSUME NEW i \in Items, NEW k \in 1..Len(rows[i].answers) PROVE Backed(rows[i].answers[k])'
    <3>1. rows[i].answers \in Seq(Answers)
      BY DEF Inv, Types, Row
    <3>2. PICK a \in Answers : a = rows[i].answers[k] /\ Backed(a)
      BY <3>1 DEF Inv, Known
    <3>3. Backed(a)'
      BY <1>6, <3>2
    <3> QED
      BY <1>5, <3>2, <3>3 DEF Backed
  <2>2. ASSUME NEW q \in Requests, cache[q] # NoEntry PROVE Backed(cache[q])'
    <3>1. PICK a \in Answers : a = cache[q] /\ Backed(a)
      BY <2>2 DEF Inv, Types, Known
    <3>2. Backed(a)'
      BY <1>6, <3>1
    <3> QED
      BY <1>5, <3>1, <3>2 DEF Backed
  <2> QED
    BY <1>1, <1>2, <1>5, <2>1, <2>2 DEF Known
<1>8. Missed'
  BY <1>2 DEF Missed
<1> QED
  BY <1>3, <1>4, <1>7, <1>8 DEF Inv

\* An entry that expires takes nothing from a row or a task.
LEMMA ExpireKeeps == ASSUME Inv, Expire PROVE Inv'
<1>1. /\ UNCHANGED <<files, process, given, launches>> /\ faults' \in 0..MaxFaults
  BY Constants DEF Expire, Fault, Inv, Types
<1>2. PICK q \in Requests : cache' = [cache EXCEPT ![q] = NoEntry]
  BY DEF Expire
<1>3. /\ cache' \in [Requests -> Answers \cup {NoEntry}]
      /\ \A r \in Requests : cache'[r] # NoEntry => cache'[r] = cache[r]
      /\ \A r \in Requests : cache[r] = NoEntry => cache'[r] = NoEntry
  BY <1>2 DEF Inv, Types
<1>4. Types'
  BY <1>1, <1>3 DEF Inv, Types, files, process
<1>5. Own'
  <2>1. \A i \in Items : GotOf(i, task[i])' /\ RowOf(i, rows[i])'
    BY <1>1 DEF Inv, Own, GotOf, RowOf, files, process
  <2>2. \A r \in Requests : cache'[r] # NoEntry => cache'[r].request = r
    BY <1>3 DEF Inv, Own
  <2> QED
    BY <2>1, <2>2 DEF Own
<1>6. Known'
  <2>1. ASSUME NEW i \in Items
        PROVE  /\ \A k \in 1..Len(task[i].got) : Backed(task[i].got[k])'
               /\ \A k \in 1..Len(rows[i].answers) : Backed(rows[i].answers[k])'
    BY <1>1 DEF Inv, Known, Backed, files, process
  <2>2. ASSUME NEW r \in Requests, cache'[r] # NoEntry PROVE Backed(cache[r])'
    BY <1>1, <1>3, <2>2 DEF Inv, Known, Backed, files, process
  <2> QED
    BY <1>1, <2>1, <2>2 DEF Inv, Known, files, process
<1>7. Missed'
  <2> SUFFICES ASSUME caching', NEW i \in Items, task'[i].phase \in {"send", "wait"},
                      Alone(i, Key(i, task'[i].round))
               PROVE  cache'[Key(i, task'[i].round)] = NoEntry
    BY DEF Missed, Alone, Key, Request
  <2>1. Key(i, task[i].round) \in Requests
    BY RequestFacts DEF Inv, Own, GotOf
  <2> QED
    BY <1>1, <1>3, <2>1 DEF Inv, Missed, files, process
<1> QED
  BY <1>4, <1>5, <1>6, <1>7 DEF Inv

-----------------------------------------------------------------------------
(* The theorems *)

\* The invariant holds at first and every step keeps it.
LEMMA InvHolds == Spec => []Inv
<1>1. Init => Inv
  <2> SUFFICES ASSUME Init PROVE Inv
    OBVIOUS
  <2>1. \A i \in Items : task[i] = Idle /\ rows[i] = NoRow
    BY DEF Init
  <2>2. Types
    <3>1. rows \in [Items -> Row] /\ task \in [Items -> Task]
      BY IdleTask, EmptyRows DEF Init
    <3>2. cache \in [Requests -> Answers \cup {NoEntry}] /\ given \in [Requests -> Nat]
      BY DEF Init
    <3>3. launches \in 0..MaxLaunches /\ faults \in 0..MaxFaults
      BY Constants DEF Init
    <3>4. declared \subseteq Models /\ memo \subseteq Models
      BY DEF Init
    <3> QED
      BY <3>1, <3>2, <3>3, <3>4 DEF Init, Types
  <2>3. Own
    BY <2>1, IdleTask, EmptyRows, Constants DEF Init, Own, GotOf, RowOf
  <2>4. Known
    BY <2>1, IdleTask, EmptyRows DEF Init, Known
  <2>5. Missed
    BY DEF Init, Missed
  <2> QED
    BY <2>2, <2>3, <2>4, <2>5 DEF Inv
<1>2. Inv /\ [Next]_vars => Inv'
  <2> SUFFICES ASSUME Inv, [Next]_vars PROVE Inv'
    OBVIOUS
  <2>1. CASE UNCHANGED vars
    BY <2>1 DEF Inv, Types, Own, GotOf, RowOf, Known, Backed, Missed, Alone, vars, files, process, bounds
  <2>2. CASE \E i \in Items : Step(i)
    BY <2>2, LookupKeeps, SendKeeps, TemperatureRefusedKeeps, AnsweredKeeps, ProviderFailsKeeps,
       AuthFailsKeeps, PutKeeps, RecordKeeps DEF Step
  <2>3. CASE LaunchFresh \/ Resume \/ Finish \/ Kill \/ Expire
    BY <2>3, LaunchFreshKeeps, ResumeKeeps, FinishKeeps, KillKeeps, ExpireKeeps
  <2> QED
    BY <2>1, <2>2, <2>3 DEF Next
<1> QED
  BY <1>1, <1>2, PTL DEF Spec

\* Every variable keeps its type; no call counts past max_attempts and no item
\* has more rounds than were recorded.
THEOREM TypesHold == Spec => []TypeOK
<1>1. Inv => TypeOK
  <2> SUFFICES ASSUME Inv PROVE TypeOK
    OBVIOUS
  <2>1. ASSUME NEW i \in Items
        PROVE  /\ task[i].phase \in Phases /\ task[i].round \in 1..RoundsOf[i]
               /\ task[i].attempt \in 0..MaxAttempts /\ Len(task[i].got) \in 0..RoundsOf[i]
               /\ Len(rows[i].answers) \in {0, RoundsOf[i]}
    <3>1. task[i] \in Task /\ GotOf(i, task[i]) /\ RowOf(i, rows[i])
      BY DEF Inv, Types, Own
    <3>2. Len(task[i].got) \in Nat
      BY <3>1 DEF Task
    <3> QED
      BY <3>1, <3>2, Constants DEF Task, GotOf, RowOf
  <2>2. ASSUME NEW q \in Requests PROVE given[q] \in Nat /\ cache[q].nth \in 0..given[q]
    <3>1. given[q] \in Nat
      BY DEF Inv, Types
    <3>2. CASE cache[q] = NoEntry
      BY <3>1, <3>2 DEF NoEntry
    <3>3. CASE cache[q] # NoEntry
      <4>1. cache[q] \in Answers /\ cache[q].request = q /\ Backed(cache[q])
        BY <3>3 DEF Inv, Types, Own, Known
      <4> QED
        BY <3>1, <4>1 DEF Answers, Backed
    <3> QED
      BY <3>1, <3>2, <3>3
  <2> QED
    BY <2>1, <2>2 DEF Inv, Types, TypeOK
<1> QED
  BY <1>1, InvHolds, PTL

\* Whatever the cache held and whichever run put it there, each round of a row
\* rests on an answer to that round's own request, and no two samples of one
\* example rest on the same answer.
THEOREM RowsRestOnTheirOwnAnswers == Spec => []AnswersAreOwn
<1>1. Inv => AnswersAreOwn
  <2> SUFFICES ASSUME Inv PROVE AnswersAreOwn
    OBVIOUS
  <2>1. AnswersItsRequest
    BY DEF Inv, Own, RowOf, AnswersItsRequest
  <2>2. SamplesAreOwnCalls
    <3> SUFFICES ASSUME NEW i \in Items, NEW j \in Items, SampleOf[i] # SampleOf[j],
                        NEW k \in 1..Len(rows[i].answers), NEW l \in 1..Len(rows[j].answers),
                        rows[i].answers[k] = rows[j].answers[l]
                 PROVE  FALSE
      BY DEF SamplesAreOwnCalls
    <3>1. Request(i, k) = Request(j, l)
      BY <2>1 DEF AnswersItsRequest
    <3>2. Request(i, k).sample = SampleOf[i] /\ Request(j, l).sample = SampleOf[j]
      BY DEF Request
    <3> QED
      BY <3>1, <3>2
  <2> QED
    BY <2>1, <2>2 DEF AnswersAreOwn
<1> QED
  BY <1>1, InvHolds, PTL

\* A completed run declares every model that answered its last launch without
\* the temperature it asked for.
THEOREM RefusalsAreDisclosed == Spec => []LiveSamplingIsDisclosed
<1>1. Inv => LiveSamplingIsDisclosed
  <2> SUFFICES ASSUME Inv, status = "completed", NEW i \in Items, NEW k \in 1..Len(rows[i].answers),
                      rows[i].answers[k].launch = launches, ~rows[i].answers[k].controlled
               PROVE  ModelOf[i] \in declared
    BY DEF LiveSamplingIsDisclosed
  <2>1. rows[i].answers[k].request = Request(i, k) /\ Backed(rows[i].answers[k])
    BY DEF Inv, Own, RowOf, Known
  <2>2. Request(i, k).model = ModelOf[i]
    BY DEF Request
  <2> QED
    BY <2>1, <2>2 DEF Backed
<1> QED
  BY <1>1, InvHolds, PTL

\* With the cache on, an answer that is in it is bought again only by an item
\* racing a twin that makes the same request.
THEOREM NothingIsBoughtTwice == Spec => NoSecondPurchase
<1> DEFINE step == \A i \in Items : \A k \in 1..RoundsOf[i] :
                     /\ caching
                     /\ given'[Request(i, k)] # given[Request(i, k)]
                     /\ \A j \in Items \ {i} : \A l \in 1..RoundsOf[j] : Request(j, l) # Request(i, k)
                     => cache[Key(i, k)] = NoEntry
<1>1. ASSUME Inv, [Next]_vars, NEW i \in Items, NEW k \in 1..RoundsOf[i], caching,
             given'[Request(i, k)] # given[Request(i, k)],
             \A j \in Items \ {i} : \A l \in 1..RoundsOf[j] : Request(j, l) # Request(i, k)
      PROVE  cache[Key(i, k)] = NoEntry
  <2>1. PICK j \in Items : Answered(j)
    BY <1>1 DEF Next, Step, Lookup, Send, TemperatureRefused, ProviderFails, AuthFails, Put, Record,
                LaunchFresh, Resume, Start, Finish, Kill, Expire, vars
  <2>2. task[j].phase = "wait" /\ task[j].round \in 1..RoundsOf[j]
    BY <1>1, <2>1 DEF Answered, Inv, Own, GotOf
  <2>3. \E m : given' = [given EXCEPT ![Request(j, task[j].round)] = m]
    BY <2>1 DEF Answered
  <2>4. Request(j, task[j].round) = Request(i, k)
    BY <1>1, <2>3, RequestFacts DEF Inv, Types
  <2>5. j = i
    BY <1>1, <2>2, <2>4
  <2>6. task[i].round = k
    BY <2>2, <2>4, <2>5, RequestFacts
  <2>7. Alone(i, Key(i, k))
    BY <1>1, RequestFacts DEF Alone
  <2> QED
    BY <1>1, <2>2, <2>5, <2>6, <2>7 DEF Inv, Missed
<1>2. Inv /\ [Next]_vars => [step]_vars
  BY <1>1
<1> HIDE DEF step
<1>3. Spec => [][step]_vars
  BY <1>2, InvHolds, PTL DEF Spec
<1> QED
  BY <1>3 DEF step, NoSecondPurchase

=============================================================================
