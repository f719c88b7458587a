------------------------------ MODULE RunLedger ------------------------------
(***************************************************************************)
(* What a run directory promises, with no process, file or crash in it: a  *)
(* ledger of work items that fills one item at a time and is closed once   *)
(* every item is in it.  The one imperfection the files allow is stated:   *)
(* an entry may turn out to be lost, and only the items named in `lost`    *)
(* may be missing when the ledger closes.                                  *)
(***************************************************************************)
CONSTANT Items

VARIABLES ledger, lost, status

ledgerVars == <<ledger, lost, status>>

LedgerInit ==
    /\ ledger = {}
    /\ lost = {}
    /\ status = "absent"

Open ==
    /\ status = "absent"
    /\ status' = "in_progress"
    /\ UNCHANGED <<ledger, lost>>

Enter(i) ==
    /\ status = "in_progress"
    /\ i \notin ledger
    /\ ledger' = ledger \cup {i}
    /\ UNCHANGED <<lost, status>>

Lose(S) ==
    /\ status = "in_progress"
    /\ lost' = lost \cup S
    /\ ledger' = ledger \ S
    /\ UNCHANGED status

Close ==
    /\ status = "in_progress"
    /\ Items \subseteq ledger \cup lost
    /\ status' = "completed"
    /\ UNCHANGED <<ledger, lost>>

\* Only an empty ledger can be given up.
Abandon ==
    /\ status = "in_progress"
    /\ ledger = {}
    /\ status' = "failed"
    /\ UNCHANGED <<ledger, lost>>

LedgerNext ==
    \/ Open \/ Close \/ Abandon
    \/ \E i \in Items : Enter(i)
    \/ \E S \in SUBSET Items : Lose(S)

LedgerSpec == LedgerInit /\ [][LedgerNext]_ledgerVars
=============================================================================
