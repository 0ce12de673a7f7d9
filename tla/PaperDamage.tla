----------------------------- MODULE PaperDamage -----------------------------
(***************************************************************************)
(* The paper lane next to something that damages its ledgers: a row that    *)
(* reached the disk is gone when it is next read (a line removed by hand, a *)
(* file restored short).  The gates of run_once are there to notice.        *)
(*                                                                         *)
(* Rows are lost at any moment up to the final gate of a run.  Between that *)
(* gate and the OK summary run_once reads nothing any more, by design.      *)
(***************************************************************************)
EXTENDS PaperRun

CONSTANT MaxDamages     \* bound: rows lost

VARIABLE damages

dvars == <<vars, damages>>

DamageInit == Init /\ damages = 0

\* External: one row of one ledger disappears.
LoseRow ==
    /\ pc \notin {"oklog", "okstate", "oksummary"}
    /\ damages < MaxDamages
    /\ damages' = damages + 1
    /\ \E f \in Ledgers : \E e \in ledger[f] :
         ledger' = [ledger EXCEPT ![f] = @ \ {e}]
    /\ UNCHANGED <<envVars, docVars, torn, unended, state, runVars, faults,
                   committed>>

DamageNext == (Next /\ UNCHANGED damages) \/ LoseRow
DamageSpec == DamageInit /\ [][DamageNext]_dvars

Publishes == summary.status # "OK" /\ summary'.status = "OK"

\* Lost bars and lost money are not papered over.  A run says OK only if every
\* snapshot and equity row an earlier OK attested is there, and if the fills,
\* the trades and the funding on disk add up to all that the state counts; and
\* a row the state once counted it counts ever after.  So it is whatever
\* crashes and stopped runs come between.  The gates keep no count of the rows
\* of these three and do not miss a positions row: an OK may lack positions
\* rows, and rows whose amounts together are within the tolerance, or zero.
LossBlocksOk ==
    [][/\ \A f \in Charged : state.sums[f] \subseteq state'.sums[f]
       /\ Publishes =>
            /\ \A f \in {"snapshots", "equity"} : committed[f] \subseteq ledger'[f]
            /\ \A f \in Charged : SameTotal(f, state'.sums[f], ledger'[f])]_dvars
=============================================================================
