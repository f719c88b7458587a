---------------------------- MODULE MCCaptureStore ----------------------------
(***************************************************************************)
(* Instances of CaptureStore for TLC.  Turns 1 and 2 are one turn of a     *)
(* conversation and its retry, 1 having failed; 3 says the same in another *)
(* suite; 4 was offered other tools in a later call.                       *)
(***************************************************************************)
EXTENDS CaptureStore

CONSTANTS a, b

MCToolsets == {a, b}
MCSuiteOf == <<1, 1, 2, 2>>
MCTalkOf == <<7, 7, 0, 0>>
MCPlace == <<1, 2, 1, 1>>
MCExchange == <<1, 1, 1, 2>>
MCFirst == <<a, b, a, a>>
MCLater == <<{}, {}, {}, {b}>>
MCAliasOf == <<{}, {1}, {}, {}>>
MCErrored == {1}

Flags(force, keep, allowErrored) ==
    [force |-> force, keep |-> keep, allowErrored |-> allowErrored]

MCChoices == {Flags(FALSE, FALSE, FALSE), Flags(TRUE, FALSE, FALSE),
              Flags(FALSE, FALSE, TRUE), Flags(TRUE, TRUE, TRUE)}

\* No entry for the first suite; the second was written and pinned by hand.
Pinned == [managed |-> FALSE, toolsets |-> {}]
MCRegions == {[marked |-> TRUE, parses |-> TRUE, entries |-> <<NoEntry, Pinned>>]}
=============================================================================
