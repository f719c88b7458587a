---------------------------- MODULE MCPromotion ----------------------------
(* Four kinds of conversations: a turn sent a long list of messages, a turn  *)
(* with several rounds of tool calls, two turns sent short lists, and three  *)
(* turns sent none.                                                          *)
EXTENDS Promotion

CONSTANTS t, u

Call(ref, offered, recorded, names, reply) ==
  [ref |-> ref, offered |-> offered, recorded |-> recorded, names |-> names, reply |-> reply]

TwoAtOnce == Call(Toolset, TRUE, TRUE, <<t, t>>, FALSE)
Answer == Call(Toolset, TRUE, TRUE, <<>>, TRUE)
Unrecorded == Call(Toolset, TRUE, FALSE, <<>>, FALSE)
Unequipped == Call(EmptyToolset, FALSE, FALSE, <<>>, TRUE)
Unknown == Call(NoToolset, FALSE, TRUE, <<t>>, FALSE)
Unnamed == Call(NoToolset, TRUE, TRUE, <<>>, TRUE)

Option(rounds, allowErrored, sidecars) == [rounds |-> rounds, allowErrored |-> allowErrored, sidecars |-> sidecars]

SomeScopes ==
  {[turns |-> 1, messages |-> 4, modelCalls |-> 1, events |-> 1,
    shapes |-> {Answer}, indices |-> {NoIndex}, ids |-> BOOLEAN, options |-> {Option("all", FALSE, TRUE)}],
   [turns |-> 1, messages |-> 0, modelCalls |-> 2, events |-> 6,
    shapes |-> {TwoAtOnce, Answer, Unrecorded, Unequipped}, indices |-> {NoIndex}, ids |-> BOOLEAN,
    options |-> {Option("all", TRUE, TRUE), Option("first", FALSE, TRUE)}],
   [turns |-> 2, messages |-> 2, modelCalls |-> 2, events |-> 3,
    shapes |-> {Answer, Unknown, Unnamed}, indices |-> {0, NoIndex}, ids |-> {TRUE}, options |-> {Option("first", FALSE, TRUE)}],
   [turns |-> 3, messages |-> 0, modelCalls |-> 3, events |-> 4,
    shapes |-> {Answer, Unrecorded, Unknown}, indices |-> {0, NoIndex}, ids |-> {TRUE},
    options |-> {Option("first", FALSE, TRUE), Option("all", TRUE, FALSE)}]}

=============================================================================
