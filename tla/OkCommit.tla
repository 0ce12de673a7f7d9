------------------------------ MODULE OkCommit ------------------------------
(***************************************************************************)
(* What the paper lane promises a reader of paper_pnl_summary.json: OK is   *)
(* a commit marker.  While it is shown it attests one body of ledger rows;  *)
(* it is withdrawn before those rows can change, and the next OK attests    *)
(* every row an earlier one attested.                                      *)
(***************************************************************************)
CONSTANT Item       \* ledger rows
VARIABLES
    shown,          \* whether the visible status is OK
    book            \* the rows the last OK attested
vars == <<shown, book>>

Init == shown = FALSE /\ book = {}

\* A run starts, and the status it finds is no longer the current truth.
Withdraw == shown /\ shown' = FALSE /\ UNCHANGED book

\* A run commits.
Attest ==
    /\ ~shown /\ shown' = TRUE
    /\ book' \in SUBSET Item /\ book \subseteq book'

Next == Withdraw \/ Attest
Spec == Init /\ [][Next]_vars
=============================================================================
