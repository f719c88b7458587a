----------------------------- MODULE Promotion -----------------------------
(***************************************************************************)
(* How recorded turns become suite examples (captures/promote.py), as      *)
(* `capture sync` builds them.  The app records the turns of one           *)
(* conversation through the SDK: for each turn the list of messages its    *)
(* first model call was sent, if it was sent a list, and then events.  At  *)
(* any moment Sync builds one case per turn.                               *)
(*                                                                         *)
(* A tool call is known by the place it was made at, <<position, index>>.  *)
(* Recorded calls and results bear that as their call id when the provider *)
(* and the SDK report ids, and NoId otherwise; what a result truly answers *)
(* is kept beside it, in a field promotion does not see.                   *)
(*                                                                         *)
(* Left out: arguments and their unwrapping, tags, generation config, cost *)
(* and the texts; a case's expected count is the one --tool-count pins.    *)
(***************************************************************************)
EXTENDS Integers, Sequences, FiniteSets, FiniteSetsExt, SequencesExt

CONSTANTS
  Tools,            \* tool names
  Toolset,          \* the fingerprint of the toolset the agent offers
  EmptyToolset,     \* EMPTY_TOOLSET_FINGERPRINT: the call was offered no tool
  NoToolset,        \* a call recorded without toolset_ref
  NoIndex,          \* above every turn index: the turn was recorded with none
  Scopes            \* bounds: what a conversation may consist of, see Scope

\* The turns of a conversation, and over all of them the messages, the model
\* calls and the events; the shapes of model calls, the turn indices, whether
\* call ids are reported; and the PromoteOptions, with whether the sidecar of
\* the toolset is on disk.
Scope ==
  [turns : Nat, messages : Nat, modelCalls : Nat, events : Nat,
   shapes : SUBSET [ref : {Toolset, EmptyToolset, NoToolset}, offered : BOOLEAN, recorded : BOOLEAN,
                    names : Seq(Tools), reply : BOOLEAN],
   indices : SUBSET (0..NoIndex), ids : SUBSET BOOLEAN,
   options : SUBSET [rounds : {"first", "all"}, allowErrored : BOOLEAN, sidecars : BOOLEAN]]

ASSUME PromotionAssumption ==
  /\ Cardinality({Toolset, EmptyToolset, NoToolset}) = 3
  /\ NoIndex \in Nat
  /\ \A s \in Scopes : s \in Scope /\ \A c \in s.shapes : c.names # <<>> => c.recorded

VARIABLES
  turns,    \* the captures, in the order they were created
  outcome,  \* "recording", or what sync came to: "built" or "crashed"
  built,    \* what sync built of each capture
  opts,     \* PromoteOptions of that sync, and whether the sidecars are there
  scope     \* the bounds of this conversation

vars == <<turns, outcome, built, opts, scope>>

NoId == <<0, 0>>

Message(role, turn, calls, id, answers) ==
  [role |-> role, turn |-> turn, calls |-> calls, id |-> id, answers |-> answers]

Said(role, turn) == Message(role, turn, <<>>, NoId, NoId)

-----------------------------------------------------------------------------
(* Rounds                                                                  *)

OfType(es, type) == SelectSeq(es, LAMBDA e : e.type = type)

ModelCalls(es) == OfType(es, "model_call")

IsToolEvent(e) == e.type \in {"tool_call", "tool_result"}

\* A round starts at each model call, and at a tool event nothing came before.
Starts(es) ==
  {i \in DOMAIN es : \/ es[i].type = "model_call"
                     \/ IsToolEvent(es[i]) /\ \A j \in 1..i - 1 : es[j].type \notin {"model_call", "tool_call", "tool_result"}}

RoundOf(part) ==
  [requested |-> IF Head(part).type = "model_call" THEN Head(part).requested ELSE <<>>,
   calls |-> OfType(part, "tool_call"),
   results |-> OfType(part, "tool_result")]

RoundsFrom(es, starts) ==
  [k \in DOMAIN starts |->
    RoundOf(SubSeq(es, starts[k], IF k = Len(starts) THEN Len(es) ELSE starts[k + 1] - 1))]

EventRounds(es) == RoundsFrom(es, SetToSortSeq(Starts(es), <))

\* The calls the models asked for are the ground truth only if every model
\* call of the capture recorded them, and the executed ones otherwise.
Source(es) ==
  IF ModelCalls(es) # <<>> /\ \A e \in Range(ModelCalls(es)) : e.recorded THEN "requested" ELSE "executed"

IsMixed(es) == \E e, f \in Range(ModelCalls(es)) : e.recorded /\ ~f.recorded

\* The rounds with calls, under either reading, and their results.
ToolRounds(es, source) ==
  LET Read(r) == [truth |-> IF source = "requested" THEN r.requested ELSE r.calls, results |-> r.results]
  IN SelectSeq([k \in DOMAIN EventRounds(es) |-> Read(EventRounds(es)[k])], LAMBDA r : r.truth # <<>>)

\* A round's calls, whatever their order.
Bags(rounds) ==
  [k \in DOMAIN rounds |->
    [name \in Tools |-> Len(SelectSeq(rounds[k].truth, LAMBDA c : c.name = name))]]

-----------------------------------------------------------------------------
(* Fixtures: the recorded result of each ground-truth call                 *)

\* Mutant: results are taken by name alone.
ByNameOnly(calls, results, i) == 0

\* Each call with an id first claims the result recorded under it ...
ById(calls, results, i) ==
  LET same == {p \in DOMAIN results : calls[i].id # NoId /\ results[p].id = calls[i].id}
  IN IF same = {} \/ \E j \in 1..i - 1 : calls[j].id = calls[i].id THEN 0 ELSE Min(same)

\* ... and each call left takes the first unclaimed result of its name; 0 is none.
PairLeft(calls, results, own) ==
  LET Pair[i \in 0..Len(calls)] ==
        IF i = 0 THEN <<>>
        ELSE LET before == Pair[i - 1]
                 free == {p \in DOMAIN results :
                           results[p].name = calls[i].name /\ p \notin Range(own) \cup Range(before)}
             IN Append(before, IF own[i] # 0 THEN own[i] ELSE IF free = {} THEN 0 ELSE Min(free))
  IN Pair[Len(calls)]

PairRoundResults(calls, results) ==
  PairLeft(calls, results, [i \in DOMAIN calls |-> ById(calls, results, i)])

Covered(pairs) == Max({n \in 0..Len(pairs) : \A k \in 1..n : 0 \notin Range(pairs[k])})

\* The leading rounds every call of which has a result, with those results.
FixturesOf(rounds, pairs) ==
  [k \in 1..Covered(pairs) |-> [i \in DOMAIN pairs[k] |-> rounds[k].results[pairs[k][i]]]]

ReplayFixtures(rounds) ==
  FixturesOf(rounds, [k \in DOMAIN rounds |-> PairRoundResults(rounds[k].truth, rounds[k].results)])

-----------------------------------------------------------------------------
(* Inputs and history, from the list of messages the first call was sent   *)

HasUser(ms) == \E i \in DOMAIN ms : ms[i].role = "user"

LastUser(ms) == Max({i \in DOMAIN ms : ms[i].role = "user"})

\* An id is made up for a call recorded without one, from its place.
CallIds(m, position) == [i \in DOMAIN m.calls |-> <<position, i>>]

\* open_call_ids after message m: the calls of the latest assistant turn that
\* no result has answered.
NowOpen(m, position, open) ==
  CASE m.role = "assistant" -> CallIds(m, position)
    [] m.role = "user" -> <<>>
    [] m.role = "tool" /\ m.id # NoId -> Remove(open, m.id)
    [] m.role = "tool" /\ m.id = NoId /\ open # <<>> -> Tail(open)
    [] OTHER -> open

\* A result without an id answers the first open call, or gets an id of its own.
Recovered(m, position, open) ==
  IF m.role = "tool" /\ m.id = NoId
  THEN [m EXCEPT !.id = IF open # <<>> THEN Head(open) ELSE <<position, 0>>]
  ELSE [m EXCEPT !.calls = CallIds(m, position)]

RecoveredHistory(ms) ==
  LET Read[p \in 0..Len(ms)] ==
        IF p = 0 THEN [history |-> <<>>, open |-> <<>>]
        ELSE LET m == ms[p] before == Read[p - 1]
             IN IF m.role = "other" THEN before
                ELSE [history |-> Append(before.history, Recovered(m, p, before.open)),
                      open |-> NowOpen(m, p, before.open)]
  IN Read[LastUser(ms) - 1].history

-----------------------------------------------------------------------------
(* One example                                                             *)

ErrorEvents(es) == OfType(es, "error")

RefOf(es) == IF ModelCalls(es) = <<>> THEN NoToolset ELSE Head(ModelCalls(es)).ref

DistinctRefs(es) == {e.ref : e \in Range(ModelCalls(es))} \ {NoToolset}

BlockedReason(es, o) ==
  IF RefOf(es) = NoToolset \/ ~o.sidecars THEN "no_toolset"
  ELSE IF Cardinality(DistinctRefs(es)) > 1 THEN "multi_toolset"
  ELSE IF ErrorEvents(es) # <<>> /\ ~o.allowErrored THEN "errored"
  ELSE "none"

\* tools_offered is recorded beside toolset_ref, and may be there without it.
OffersTools(es) == ModelCalls(es) # <<>> /\ Head(ModelCalls(es)).offered

ExpectsNoTools(es, rounds) == rounds = <<>> /\ OffersTools(es) /\ ErrorEvents(es) = <<>>

HasReply(es) == \E e \in Range(es) : e.type = "final_output" \/ (e.type = "model_call" /\ e.reply)

CallsIn(rounds, n) == Len(FlattenSeq([k \in 1..n |-> rounds[k].truth]))

\* Mutant: the calls of the round after the covered ones are not counted.
CountedOfCovered(rounds, covered, o) ==
  CallsIn(rounds, IF o.rounds = "all" THEN covered ELSE Min({1, Len(rounds)}))

\* All calls of the rounds the replay reaches.
Counted(rounds, covered, o) ==
  CallsIn(rounds, Min({Len(rounds), IF o.rounds = "all" THEN covered + 1 ELSE 1}))

Warnings(es, rounds, covered, o) ==
  {w \in {"mixed", "disagree", "later_rounds", "unpaired"} :
    \/ w = "mixed" /\ IsMixed(es)
    \/ w = "disagree" /\ Source(es) = "requested" /\ Bags(rounds) # Bags(ToolRounds(es, "executed"))
    \/ w = "later_rounds" /\ o.rounds = "first" /\ Len(rounds) > 1
    \/ w = "unpaired" /\ o.rounds = "all" /\ covered < Len(rounds)}

\* An example with no toolset of its own keeps no expected calls, results or
\* count; an assertion that no tool is called it keeps.
ExampleWith(turn, o, rounds, fixtures) ==
  LET es == turn.events
      isUnequipped == RefOf(es) = NoToolset
  IN [blocked |-> BlockedReason(es, o),
      ref |-> RefOf(es),
      rounds |-> IF isUnequipped THEN <<>> ELSE [k \in DOMAIN rounds |-> rounds[k].truth],
      fixtures |-> IF isUnequipped THEN <<>> ELSE fixtures,
      count |-> IF isUnequipped THEN 0 ELSE Counted(rounds, Len(fixtures), o),
      noTools |-> ExpectsNoTools(es, rounds),
      expected |-> HasReply(es),
      isConversation |-> HasUser(turn.messages),
      history |-> IF HasUser(turn.messages) THEN RecoveredHistory(turn.messages) ELSE <<>>,
      warnings |-> Warnings(es, rounds, Len(fixtures), o)]

ExampleOf(turn, o, rounds) ==
  ExampleWith(turn, o, rounds, IF o.rounds = "all" THEN ReplayFixtures(rounds) ELSE <<>>)

BuildExample(turn, o) == ExampleOf(turn, o, ToolRounds(turn.events, Source(turn.events)))

\* SuiteExample's validators, for what promotion can give them.
IsValid(x) ==
  /\ x.noTools \/ x.ref \in {NoToolset, EmptyToolset} => x.rounds = <<>>
  /\ \A i \in DOMAIN x.history : x.history[i].role = "system" => i = 1

-----------------------------------------------------------------------------
(* A conversation                                                          *)

\* Mutant: turns recorded without an index are lost.
IndexedTurns(ts) ==
  SetToSortSeq({k \in DOMAIN ts : ts[k].index # NoIndex}, LAMBDA a, b : ts[a].index * Len(ts) + a < ts[b].index * Len(ts) + b)

\* Members in turn order: an index of its own before none, then by creation.
TurnOrder(ts) ==
  SetToSortSeq(DOMAIN ts, LAMBDA a, b : ts[a].index < ts[b].index \/ (ts[a].index = ts[b].index /\ a < b))

\* Mutant: a blocked turn seeds the history of the next as well.
SeedsAll(example) == TRUE

Seeds(example) == example.blocked = "none"

Exchange(ts, of) ==
  <<Said("user", of)>> \o (IF HasReply(ts[of].events) THEN <<Said("assistant", of)>> ELSE <<>>)

HasSystem(p) == p.example.history # <<>> /\ Head(p.example.history).role = "system"

\* The system message of the first earlier turn that has one, and each earlier
\* turn's question and answer; prior is a sequence of [of, example].
ReconstructHistory(ts, prior) ==
  (IF \E i \in DOMAIN prior : HasSystem(prior[i])
   THEN <<Head(Head(SelectSeq(prior, HasSystem)).example.history)>> ELSE <<>>)
  \o FlattenSeq([i \in DOMAIN prior |-> Exchange(ts, prior[i].of)])

\* A turn recorded with its list of messages keeps that as its history.
WithHistory(ts, prior, x) ==
  IF x.isConversation THEN x ELSE [x EXCEPT !.history = ReconstructHistory(ts, prior)]

BuildInOrder(ts, o, order) ==
  LET Build[k \in 0..Len(order)] ==
        IF k = 0 THEN <<>>
        ELSE LET before == Build[k - 1]
                 prior == SelectSeq(before, LAMBDA p : Seeds(p.example))
             IN Append(before, [of |-> order[k],
                                example |-> WithHistory(ts, prior, BuildExample(ts[order[k]], o))])
  IN Build[Len(order)]

BuildConversation(ts, o) == BuildInOrder(ts, o, TurnOrder(ts))

-----------------------------------------------------------------------------
(* Recording: the agent runs and the SDK writes down what it is told       *)

Now == Len(turns)

Messages == FlattenSeq([k \in DOMAIN turns |-> turns[k].messages])

Events == FlattenSeq([k \in DOMAIN turns |-> turns[k].events])

Init ==
  /\ turns = <<>> /\ outcome = "recording" /\ built = <<>>
  /\ opts = [rounds |-> "first", allowErrored |-> FALSE, sidecars |-> TRUE] /\ scope \in Scopes

\* A turn of the conversation begins; its index may be missing, or be taken by
\* an earlier try of the turn.
BeginTurn ==
  /\ outcome = "recording" /\ Now < scope.turns /\ Len(Events) < scope.events
  /\ turns # <<>> => turns[Now].events # <<>>
  /\ \E index \in scope.indices, hasIds \in scope.ids :
       turns' = Append(turns, [index |-> index, hasIds |-> hasIds, messages |-> <<>>, events |-> <<>>])
  /\ UNCHANGED <<outcome, built, opts, scope>>

\* The calls of the latest assistant message, unless a user spoke since.
LatestCalls(ms) ==
  LET spoken == {i \in DOMAIN ms : ms[i].role \in {"assistant", "user"}}
  IN IF spoken = {} THEN {} ELSE {<<Max(spoken), i>> : i \in DOMAIN ms[Max(spoken)].calls}

AllCalls(ms) == UNION {{<<p, i>> : i \in DOMAIN ms[p].calls} : p \in DOMAIN ms}

Answered(ms) == {ms[p].answers : p \in DOMAIN ms}

\* What a tool message of the list can be.  Without ids the results of a turn
\* come in the order of its calls; one may also answer a call that the app has
\* trimmed from the list.
ToolMessages(ms, hasIds) ==
  LET open == (IF hasIds THEN AllCalls(ms) ELSE LatestCalls(ms)) \ Answered(ms)
      isNext(c) == hasIds \/ \A d \in open : c[2] <= d[2]
  IN {Message("tool", Now, <<>>, IF hasIds THEN c ELSE NoId, c) : c \in {d \in open : isNext(d)}}
     \cup (IF open = {} THEN {Message("tool", Now, <<>>, IF hasIds THEN <<0, 1>> ELSE NoId, NoId)} ELSE {})

NextMessages(ms, hasIds) ==
  {Said(role, Now) : role \in {"system", "user", "other"}}
  \cup {Message("assistant", Now, [i \in 1..n |-> <<Len(ms) + 1, i>>], NoId, NoId) : n \in 0..2}
  \cup ToolMessages(ms, hasIds)

\* The first model call of the turn is sent a list of messages, this one last.
RecordMessage ==
  /\ outcome = "recording" /\ turns # <<>> /\ turns[Now].events = <<>> /\ Len(Messages) < scope.messages
  /\ \E m \in NextMessages(turns[Now].messages, turns[Now].hasIds) :
       turns' = [turns EXCEPT ![Now].messages = Append(@, m)]
  /\ UNCHANGED <<outcome, built, opts, scope>>

\* The turn goes on unless it has answered or failed.
IsRunning ==
  /\ outcome = "recording" /\ turns # <<>> /\ Len(Events) < scope.events
  /\ \A e \in Range(turns[Now].events) : e.type \notin {"final_output", "error"}

Record(e) ==
  /\ turns' = [turns EXCEPT ![Now].events = Append(@, e)]
  /\ UNCHANGED <<outcome, built, opts, scope>>

\* Where the next event goes, and the id a call made there is recorded with.
Place == Len(turns[Now].events) + 1

IdOf(made) == IF turns[Now].hasIds THEN made ELSE NoId

\* The SDK may leave out the toolset, what it held, and the calls asked for.
RecordModelCall ==
  /\ IsRunning
  /\ Len(ModelCalls(Events)) < scope.modelCalls
  /\ \E s \in scope.shapes :
       Record([type |-> "model_call", ref |-> s.ref, offered |-> s.offered, recorded |-> s.recorded, reply |-> s.reply,
               requested |-> [i \in DOMAIN s.names |->
                               [name |-> s.names[i], id |-> IdOf(<<Place, i>>), made |-> <<Place, i>>]]])

ToolCall(name, made) == [type |-> "tool_call", name |-> name, id |-> IdOf(made), made |-> made]

\* The app runs a call it was asked for, again if it retries; where none is
\* recorded, any call.
RecordToolCall ==
  /\ IsRunning
  /\ LET calls == ModelCalls(turns[Now].events)
         asked == IF calls = <<>> THEN <<>> ELSE Last(calls).requested
     IN \/ \E c \in Range(asked) : Record(ToolCall(c.name, c.made))
        \/ asked = <<>> /\ \E name \in Tools : Record(ToolCall(name, <<Place, 0>>))

\* A call of this turn returns, in its round or late.
RecordToolResult ==
  /\ IsRunning
  /\ LET es == turns[Now].events
         Times(type, made) == Len(SelectSeq(es, LAMBDA e : e.type = type /\ (IF type = "tool_call" THEN e.made ELSE e.answers) = made))
     IN \E c \in Range(OfType(es, "tool_call")) :
          /\ Times("tool_result", c.made) < Times("tool_call", c.made)
          /\ Record([type |-> "tool_result", name |-> c.name, id |-> c.id, answers |-> c.made, at |-> Place])

RecordEnd == IsRunning /\ \E type \in {"final_output", "error"} : Record([type |-> type])

\* `capture sync`: one example that does not validate ends it for all.
Sync ==
  /\ outcome = "recording" /\ turns # <<>> /\ turns[Now].events # <<>>
  /\ opts' \in scope.options
  /\ \E examples \in {BuildConversation(turns, opts')} :
       IF \A k \in DOMAIN examples : IsValid(examples[k].example)
       THEN outcome' = "built" /\ built' = examples
       ELSE outcome' = "crashed" /\ built' = <<>>
  /\ UNCHANGED <<turns, scope>>

Next ==
  \/ BeginTurn \/ RecordMessage
  \/ RecordModelCall \/ RecordToolCall \/ RecordToolResult \/ RecordEnd
  \/ Sync

Spec == Init /\ [][Next]_vars

-----------------------------------------------------------------------------
(* Properties                                                              *)

\* Turns are recorded within their bounds, a sync builds one case for each of
\* them or none, a blocked reason is known, and a case without a toolset has
\* no expected call, result or count (the state promotion reads and leaves).
TypeOK ==
  /\ outcome \in {"recording", "built", "crashed"} /\ scope \in Scopes
  /\ Now <= scope.turns /\ Len(Messages) <= scope.messages /\ Len(Events) <= scope.events
  /\ \A k \in DOMAIN turns : turns[k].index \in scope.indices /\ turns[k].hasIds \in BOOLEAN
  /\ IF outcome = "built" THEN {built[k].of : k \in DOMAIN built} = DOMAIN turns ELSE built = <<>>
  /\ \A k \in DOMAIN built :
       LET x == built[k].example IN
       /\ x.blocked \in {"none", "no_toolset", "multi_toolset", "errored"}
       /\ x.ref = NoToolset => x.rounds = <<>> /\ x.fixtures = <<>> /\ x.count = 0

EventsOf(k) == turns[built[k].of].events

\* The model call of the round that place p of the capture lies in.
RoundAt(k, p) == Max({0} \cup {i \in 1..p : EventsOf(k)[i].type = "model_call"})

IsResult(e) == e.type = "tool_result"

\* The results of call's tool in the round call was made in, as recorded.
ResultsFor(k, call) ==
  SelectSeq(EventsOf(k), LAMBDA e : /\ IsResult(e) /\ e.name = call.name
                                    /\ RoundAt(k, e.at) = RoundAt(k, call.made[1]))

\* They came one for each call of the tool in that round, in the calls' order.
CameInOrder(k, calls, call) ==
  LET same == SelectSeq(calls, LAMBDA c : c.name = call.name)
      results == ResultsFor(k, call)
  IN /\ Len(results) = Len(same)
     /\ \A i \in DOMAIN same : results[i].answers = same[i].made

\* A replay feeds back, for every call of the ground truth of a covered round,
\* one result of that tool that was recorded in that very round, and no result
\* twice.  A call whose own id some result of the round bears gets a result
\* that truly answers it, however results and retries interleave.  A call
\* without an id gets its own if the results of its tool came in the order of
\* the calls; if they came swapped promotion cannot tell, and gives it another
\* call's (_pair_round_results and _replay_fixtures).
FixturesAnswerTheirCalls ==
  \A k \in DOMAIN built : LET x == built[k].example IN
    \A r \in DOMAIN x.fixtures :
      /\ Len(x.fixtures[r]) = Len(x.rounds[r])
      /\ \A i \in DOMAIN x.fixtures[r] :
           LET call == x.rounds[r][i] result == x.fixtures[r][i] IN
           /\ result.name = call.name
           /\ RoundAt(k, call.made[1]) = RoundAt(k, result.at)
           /\ \A j \in DOMAIN x.fixtures[r] : i # j => x.fixtures[r][j].at # result.at
           /\ (\E e \in Range(SelectSeq(EventsOf(k), IsResult)) :
                 /\ call.id # NoId /\ e.id = call.id
                 /\ RoundAt(k, e.at) = RoundAt(k, call.made[1])) => result.answers = call.made
           /\ call.id = NoId /\ CameInOrder(k, x.rounds[r], call) => result.answers = call.made

\* The history rebuilt for a turn holds, after at most one system message,
\* exactly the question and the answer, if there was one, of each promotable
\* turn that comes before it by index and then by creation, in that order: a
\* failed or blocked try of a turn leaves no trace in later prompts, and no
\* turn sees itself or its future (build_conversation_examples).
HistoriesAreThePast ==
  \A k \in DOMAIN built : ~built[k].example.isConversation =>
    LET IsPast(j) ==
          /\ \A l \in DOMAIN built : built[l].of = j => built[l].example.blocked = "none"
          /\ \/ turns[j].index < turns[built[k].of].index
             \/ turns[j].index = turns[built[k].of].index /\ j < built[k].of
        told == SelectSeq(built[k].example.history, LAMBDA m : m.role # "system")
        Of(role) == {m.turn : m \in {n \in Range(told) : n.role = role}}
    IN /\ Of("user") = {j \in DOMAIN turns : IsPast(j)}
       /\ Of("assistant") = {j \in Of("user") : HasReply(turns[j].events)}
       /\ Len(told) = Cardinality(Of("user")) + Cardinality(Of("assistant"))
       /\ \A a, b \in DOMAIN told : a < b =>
            \/ turns[told[a].turn].index < turns[told[b].turn].index
            \/ turns[told[a].turn].index = turns[told[b].turn].index /\ told[a].turn < told[b].turn
            \/ told[a].turn = told[b].turn /\ told[a].role = "user"

\* In the history of a recorded list every tool result bears the id of the
\* call it answers, where the list has ids in any order, and where it has none
\* with the results in the order of the calls (ToolMessages); one that answers
\* no call of the list bears the id of none of them
\* (_recover_inputs_from_messages, whose pairing dispatch relies on).
ResultsAnswerTheirCalls ==
  \A k \in DOMAIN built :
    LET history == SelectSeq(built[k].example.history, LAMBDA m : m.turn = built[k].of)
        calls == UNION {Range(history[i].calls) : i \in DOMAIN history}
    IN \A i \in DOMAIN history : history[i].role = "tool" =>
         IF history[i].answers # NoId THEN history[i].id = history[i].answers
         ELSE history[i].id # NoId /\ history[i].id \notin calls

\* Both places where a case carries recorded results: the fixtures of a replay
\* and the tool messages of a history.  A result that bears an id is with the
\* call of that id; results without ids are paired by tool and order.
ResultsGoToTheirCalls == FixturesAnswerTheirCalls /\ ResultsAnswerTheirCalls

\* The count a case pins is the number of its ground-truth calls in the rounds
\* that a replay of it makes (SuiteExample.rounds_to_replay), and whatever of
\* the recording that leaves out was said: rounds that are not replayed, and
\* calls the app ran other than asked.
TruthIsReached ==
  \A k \in DOMAIN built : built[k].example.blocked = "none" =>
    LET x == built[k].example
        replayed == IF x.fixtures = <<>> THEN 1 ELSE Len(x.fixtures) + 1
        executed == Len(OfType(EventsOf(k), "tool_call"))
    IN /\ x.count = Len(FlattenSeq(SubSeq(x.rounds, 1, Min({replayed, Len(x.rounds)}))))
       /\ replayed < Len(x.rounds) => x.warnings \cap {"later_rounds", "unpaired"} # {}
       /\ Len(FlattenSeq(x.rounds)) # executed => "disagree" \in x.warnings

\* A sync never fails on a blocked capture: as promote.py has it at line 436,
\* its example must still construct, since callers gate on .blocked and catch
\* no ValidationError.
BlockedStillConstructs ==
  outcome = "crashed" =>
    \A k \in DOMAIN turns :
      LET x == BuildExample(turns[k], opts) IN x.blocked # "none" => IsValid(x)

=============================================================================
