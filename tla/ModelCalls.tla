------------------------------ MODULE ModelCalls ------------------------------
(***************************************************************************)
(* What one work item of a run asks of a provider: _execute and            *)
(* _execute_with_tools of runner/orchestrator.py, the retries and the      *)
(* temperature adaptation of models/client.py, and the response cache of   *)
(* cache/store.py, for runs that follow each other and are killed and      *)
(* resumed.                                                                *)
(*                                                                         *)
(* The items of a launch run concurrently and share one client and one     *)
(* cache.  A response is known by the request it answers and by what the   *)
(* rows and reports tell apart: whether the temperature was sent with the  *)
(* request, whether the answer was cut off at the token cap, and which     *)
(* launch paid for it.  Checkpoints and torn files are RunLoop's subject  *)
(* and left out here.                                                      *)
(***************************************************************************)
EXTENDS Naturals, Sequences, FiniteSets

CONSTANTS
    Items,        \* the work list
    ModelOf,      \* item -> the model it is sent to
    ContentOf,    \* item -> everything of its request but round and sample
    SampleOf,     \* item -> its sample index
    RoundsOf,     \* item -> rounds_to_replay
    Picky,        \* the models that refuse every temperature but their own
    Concurrency,  \* defaults.concurrency, the permits of the semaphore
    MaxAttempts,  \* RetryPolicy.max_attempts
    MaxFaults,    \* bound: provider errors, truncated answers, expiries, kills
    MaxLaunches   \* bound: processes started

ASSUME ModelCallsAssumption ==
    /\ Items # {}
    /\ RoundsOf \in [Items -> Nat \ {0}]
    /\ SampleOf \in [Items -> Nat]
    /\ Concurrency \in Nat \ {0}
    /\ MaxAttempts \in Nat \ {0}
    /\ MaxFaults \in Nat
    /\ MaxLaunches \in Nat

VARIABLES
    \* the run directory
    status,    \* of the latest run: "none", "in_progress", "completed"
    caching,   \* config.defaults.cache of that run
    declared,  \* its non_deterministic_models
    rows,      \* its raw.jsonl, per item
    \* the cache database
    cache,
    \* the process
    up,
    memo,      \* the client's _temperature_rejected
    task,      \* per item, where its coroutine is
    \* the provider
    given,     \* per request, how many answers it gave
    \* bounds
    launches, faults

files == <<status, caching, declared, rows>>
process == <<up, memo, task>>
bounds == <<launches, faults>>
vars == <<files, cache, process, given, bounds>>

Models == {ModelOf[i] : i \in Items}

\* What a round really asks.
Request(i, k) == [model |-> ModelOf[i], content |-> ContentOf[i], round |-> k, sample |-> SampleOf[i]]

Requests == UNION {{Request(i, k) : k \in 1..RoundsOf[i]} : i \in Items}

\* Mutant: a key without the sample.
KeyWithoutSample(i, k) == [Request(i, k) EXCEPT !.sample = 0]

\* cache_key: the dispatched messages, the round and the sample are in it, the
\* temperature is the one the item wants, whether or not it is sent in the end.
Key(i, k) == Request(i, k)

NoEntry == [nth |-> 0]

NoRow == [error |-> FALSE, answers |-> <<>>, cached |-> FALSE, hits |-> 0, truncated |-> FALSE]

Idle == [phase |-> "idle", round |-> 1, attempt |-> 0, temperature |-> TRUE,
         got |-> <<>>, hits |-> 0]

Phases == {"idle", "queued", "lookup", "send", "wait", "put", "failed", "record", "done"}

\* The type of every variable, with the two facts the types alone would hide: a
\* call never counts past max_attempts, and no task is ahead of its rounds.
TypeOK ==
    /\ status \in {"none", "in_progress", "completed"}
    /\ caching \in BOOLEAN /\ up \in BOOLEAN
    /\ declared \subseteq Models /\ memo \subseteq Models
    /\ \A i \in Items :
         /\ task[i].phase \in Phases
         /\ task[i].round \in 1..RoundsOf[i]
         /\ task[i].attempt \in 0..MaxAttempts
         /\ Len(task[i].got) \in 0..RoundsOf[i]
         /\ Len(rows[i].answers) \in {0, RoundsOf[i]}
    /\ \A q \in Requests : given[q] \in Nat /\ cache[q].nth \in 0..given[q]
    /\ launches \in 0..MaxLaunches /\ faults \in 0..MaxFaults

Init ==
    /\ status = "none" /\ caching = FALSE /\ declared = {}
    /\ rows = [i \in Items |-> NoRow]
    /\ cache = [q \in Requests |-> NoEntry]
    /\ up = FALSE /\ memo = {}
    /\ task = [i \in Items |-> Idle]
    /\ given = [q \in Requests |-> 0]
    /\ launches = 0 /\ faults = 0

Fault == faults < MaxFaults /\ faults' = faults + 1

Goto(i, phase) == task' = [task EXCEPT ![i].phase = phase]

-----------------------------------------------------------------------------
(* Launching *)

Start(pending) ==
    /\ launches < MaxLaunches
    /\ launches' = launches + 1
    /\ up' = TRUE
    /\ memo' = {}
    /\ task' = [i \in Items |->
                  [Idle EXCEPT !.phase = IF i \in pending THEN "queued" ELSE "done"]]
    /\ UNCHANGED <<cache, given, faults>>

LaunchFresh ==
    /\ ~up
    /\ caching' \in BOOLEAN
    /\ status' = "in_progress"
    /\ declared' = {}
    /\ rows' = [i \in Items |-> NoRow]
    /\ Start(Items)

\* A resume takes the items without a row; a recorded error is a row.
Resume ==
    /\ ~up
    /\ status = "in_progress"
    /\ Start({i \in Items : rows[i] = NoRow})
    /\ UNCHANGED files

-----------------------------------------------------------------------------
(* One round of one item *)

\* A task takes its permit before its first round and keeps it to the end.
HasPermit(i) ==
    \/ task[i].phase = "lookup"
    \/ /\ task[i].phase = "queued"
       /\ Cardinality({j \in Items : task[j].phase \notin {"queued", "done"}}) < Concurrency

\* The next round, or the end of the replay.
Advance(i, t) ==
    task' = [task EXCEPT ![i] =
               IF t.round = RoundsOf[i]
                 THEN [t EXCEPT !.attempt = 0, !.phase = "record"]
                 ELSE [t EXCEPT !.attempt = 0, !.phase = "lookup", !.round = @ + 1]]

Hit(i, answer) ==
    Advance(i, [task[i] EXCEPT !.got = Append(@, answer), !.hits = @ + 1])

\* Mutant: after a miss the cache is no longer asked.
LookupUntilMiss(i) ==
    /\ HasPermit(i) /\ caching
    /\ LET t == task[i]
           entry == cache[Key(i, t.round)]
       IN IF entry # NoEntry /\ t.hits = t.round - 1
            THEN Hit(i, entry)
            ELSE Goto(i, "send")
    /\ UNCHANGED <<files, cache, up, memo, given, bounds>>

\* CacheStore.get: an expired entry is no entry.
Lookup(i) ==
    /\ HasPermit(i) /\ caching
    /\ LET entry == cache[Key(i, task[i].round)]
       IN IF entry # NoEntry
            THEN Hit(i, entry)
            ELSE Goto(i, "send")
    /\ UNCHANGED <<files, cache, up, memo, given, bounds>>

\* _dispatch_with_retry, up to the first request: what the client has learnt
\* about the model is applied once, before the loop.
Send(i) ==
    /\ task[i].phase = "send" \/ (HasPermit(i) /\ ~caching)
    /\ task' = [task EXCEPT ![i].phase = "wait",
                            ![i].attempt = 1,
                            ![i].temperature = ModelOf[i] \notin memo]
    /\ UNCHANGED <<files, cache, up, memo, given, bounds>>

Refuses(i) == ModelOf[i] \in Picky /\ task[i].temperature

\* Mutants: the parameter is resent; the model is not remembered.
ResendUnchanged(i) ==
    /\ task[i].phase = "wait"
    /\ Refuses(i)
    /\ memo' = memo \cup {ModelOf[i]}
    /\ UNCHANGED <<files, cache, up, task, given, bounds>>

ForgetRefusal(i) ==
    /\ task[i].phase = "wait"
    /\ Refuses(i)
    /\ task' = [task EXCEPT ![i].temperature = FALSE]
    /\ UNCHANGED <<files, cache, up, memo, given, bounds>>

\* A 400 on the value of temperature: the request is repeated without it at
\* once, and no attempt is used up.
TemperatureRefused(i) ==
    /\ task[i].phase = "wait"
    /\ Refuses(i)
    /\ task' = [task EXCEPT ![i].temperature = FALSE]
    /\ memo' = memo \cup {ModelOf[i]}
    /\ UNCHANGED <<files, cache, up, given, bounds>>

Answered(i) ==
    /\ task[i].phase = "wait"
    /\ ~Refuses(i)
    /\ \E truncated \in BOOLEAN :
         LET q == Request(i, task[i].round)
             answer == [request |-> q, nth |-> given[q] + 1, truncated |-> truncated,
                        controlled |-> task[i].temperature, launch |-> launches, by |-> i]
         IN /\ IF truncated THEN Fault ELSE UNCHANGED faults
            /\ given' = [given EXCEPT ![q] = @ + 1]
            /\ LET t == [task[i] EXCEPT !.got = Append(@, answer)]
               IN IF caching
                    THEN task' = [task EXCEPT ![i] = [t EXCEPT !.phase = "put"]]
                    ELSE Advance(i, t)
    /\ UNCHANGED <<files, cache, up, memo, launches>>

\* Mutant: one attempt too many.
RetriedOnceMore(t) ==
    IF t.attempt <= MaxAttempts THEN [t EXCEPT !.attempt = @ + 1] ELSE [t EXCEPT !.phase = "failed"]

\* The next attempt, or none is left.
Retried(t) ==
    IF t.attempt < MaxAttempts THEN [t EXCEPT !.attempt = @ + 1] ELSE [t EXCEPT !.phase = "failed"]

\* Any failure but bad credentials is tried again, with the same arguments.
ProviderFails(i) ==
    /\ task[i].phase = "wait"
    /\ Fault
    /\ task' = [task EXCEPT ![i] = Retried(task[i])]
    /\ UNCHANGED <<files, cache, up, memo, given, launches>>

\* Bad credentials are final, and so is an answer that parses to no tool trace.
AuthFails(i) ==
    /\ task[i].phase = "wait"
    /\ Fault
    /\ Goto(i, "failed")
    /\ UNCHANGED <<files, cache, up, memo, given, launches>>

\* CacheStore.put: one upsert, the last writer wins.
Put(i) ==
    /\ task[i].phase = "put"
    /\ LET t == task[i]
           answer == t.got[Len(t.got)]
       IN /\ cache' = [cache EXCEPT ![Key(i, t.round)] = answer]
          /\ Advance(i, t)
    /\ UNCHANGED <<files, up, memo, given, bounds>>

-----------------------------------------------------------------------------
(* Recording *)

SomeTruncated(answers) == \E k \in 1..Len(answers) : answers[k].truncated

\* The rounds merged into one call: cached when every round was, truncated when
\* any round was.
MergedRow(t) ==
    [error |-> FALSE, answers |-> t.got, hits |-> t.hits,
     cached |-> t.hits = Len(t.got),
     truncated |-> SomeTruncated(t.got)]

\* A replay that fails in some round has no answer at all.
ErrorRow == [NoRow EXCEPT !.error = TRUE]

Record(i) ==
    /\ task[i].phase \in {"record", "failed"}
    /\ rows' = [rows EXCEPT ![i] = IF task[i].phase = "record" THEN MergedRow(task[i]) ELSE ErrorRow]
    /\ task' = [task EXCEPT ![i] = [Idle EXCEPT !.phase = "done"]]
    /\ UNCHANGED <<status, caching, declared, cache, up, memo, given, bounds>>

\* The refusals met by this process join the run's non_deterministic_models.
Finish ==
    /\ up
    /\ \A i \in Items : task[i].phase = "done"
    /\ status' = "completed"
    /\ declared' = declared \cup memo
    /\ up' = FALSE
    /\ memo' = {}
    /\ UNCHANGED <<caching, rows, cache, task, given, bounds>>

Kill ==
    /\ up
    /\ Fault
    /\ up' = FALSE
    /\ memo' = {}
    /\ task' = [i \in Items |-> Idle]
    /\ UNCHANGED <<files, cache, given, launches>>

\* The seven days are over, or `evalshift cache clear`.
Expire ==
    /\ Fault
    /\ \E q \in Requests :
         /\ cache[q] # NoEntry
         /\ cache' = [cache EXCEPT ![q] = NoEntry]
    /\ UNCHANGED <<files, process, given, launches>>

Step(i) ==
    \/ Lookup(i) \/ Send(i) \/ TemperatureRefused(i) \/ Answered(i)
    \/ ProviderFails(i) \/ AuthFails(i) \/ Put(i) \/ Record(i)

Next ==
    \/ LaunchFresh \/ Resume
    \/ \E i \in Items : Step(i)
    \/ Finish \/ Kill \/ Expire

Spec == Init /\ [][Next]_vars

\* Every request has a timeout, and the event loop runs every task that can run.
Fairness == WF_vars(Finish) /\ \A i \in Items : WF_vars(Step(i))

FairSpec == Spec /\ Fairness

-----------------------------------------------------------------------------
(* Properties *)

\* Whatever was cached, by whichever run, round k of an item's row is an answer
\* to the very request round k of that item makes.
AnswersItsRequest ==
    \A i \in Items : \A k \in 1..Len(rows[i].answers) :
        rows[i].answers[k].request = Request(i, k)

\* Two samples of one example never rest on the same answer: repeating the call
\* is the point of sampling.
SamplesAreOwnCalls ==
    \A i, j \in Items :
        /\ ContentOf[i] = ContentOf[j]
        /\ SampleOf[i] # SampleOf[j]
        => \A k \in 1..Len(rows[i].answers), l \in 1..Len(rows[j].answers) :
             rows[i].answers[k] # rows[j].answers[l]

\* Together: what a row rests on is the item's own, in every round of it.
AnswersAreOwn == AnswersItsRequest /\ SamplesAreOwnCalls

\* An answer that is in the cache is not bought again, in a resumed run, after a
\* failed round or in a later run, except by a task racing a twin for one key.
NoSecondPurchase ==
    [][\A i \in Items : \A k \in 1..RoundsOf[i] :
         /\ caching
         /\ given'[Request(i, k)] # given[Request(i, k)]
         /\ \A j \in Items \ {i} : \A l \in 1..RoundsOf[j] : Request(j, l) # Request(i, k)
         => cache[Key(i, k)] = NoEntry]_vars

\* A completed run names every model that answered the launch that completed it
\* without its temperature.
LiveSamplingIsDisclosed ==
    status = "completed" =>
        \A i \in Items : \A k \in 1..Len(rows[i].answers) :
            LET a == rows[i].answers[k]
            IN a.launch = launches /\ ~a.controlled => ModelOf[i] \in declared

\* A launch that is not killed completes: refusals and retries come to an end.
LaunchEnds == up ~> ~up
=============================================================================
