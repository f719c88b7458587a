--------------------------- MODULE MCToolScoring ---------------------------
(***************************************************************************)
(* Two tools with up to four arguments, six calls, six suite rows.  Two    *)
(* calls differ by an argument that starts with an underscore and by the   *)
(* case of a text, two by a null; one gives a list where the schema wants  *)
(* a number.                                                               *)
(***************************************************************************)
EXTENDS ToolScoring

Written(kind, norm, raw) ==
  [kind |-> kind, isMeasurable |-> kind = "number", norm |-> norm, raw |-> raw]

\* Two texts that differ in case only, one that says something else, a list.
Text == Written("text", 1, 1)
Shouted == Written("text", 1, 2)
Other == Written("text", 2, 3)
Items == Written("other", 3, 4)
AllValues == {Text, Shouted, Other, Items}

HalfAlike(v, w) == IF v = w THEN One ELSE Half

DeclaredTypes(field) ==
  [type |-> IF field = "amount" THEN "number" ELSE "string",
   isEnum |-> FALSE, hasFormat |-> FALSE, isId |-> field = "id"]

Of(args) == [malformed |-> FALSE, of |-> args]
Without == Of(<<>>)
Garbled == [malformed |-> TRUE, of |-> <<>>]
With(field, v) == Of([f \in {field} |-> v])

SomeCalls ==
  {[name |-> "send", args |-> a] :
     a \in {With("note", Text), Of([note |-> Shouted, _trace |-> Other]),
            With("note", Null), Without, Garbled}}
  \cup {[name |-> "find", args |-> Of([id |-> Other, amount |-> Items])]}

SomeWays == {StrictExact, [strategy |-> "auto", isStrict |-> FALSE], [strategy |-> "numeric", isStrict |-> TRUE]}

Sent(args) == [name |-> "send", args |-> args, isExact |-> FALSE]
Found == [name |-> "find", args |-> With("id", Other), isExact |-> TRUE]

SomeExamples ==
  {[noTools |-> TRUE, rounds |-> <<>>], [noTools |-> FALSE, rounds |-> <<>>]}
  \cup {[noTools |-> FALSE, rounds |-> r] :
          r \in {<<<<Sent(With("note", Text))>>>>,
                 <<<<Sent(With("note", Text)), Found>>>>,
                 <<<<Sent(Without), Sent(Of([note |-> Other, _trace |-> Text]))>>>>,
                 <<<<Sent(With("note", Text))>>, <<Found>>>>}}

=============================================================================
