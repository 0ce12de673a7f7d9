---------------------------- MODULE MC_PaperRun ----------------------------
(***************************************************************************)
(* Instances of PaperRun for TLC: one row that holds the symbol and one     *)
(* that does not.                                                          *)
(***************************************************************************)
EXTENDS PaperRun
CONSTANTS long, flat
const_Rows == {long, flat}
const_LongRows == {long}
\* A fill always costs a fee.  The gross profit of a trade closed at the
\* second bar is below the tolerance, later ones are losses; the funding of
\* the second bar weighs, and none was available for the third.
AmountAt(f, b) ==
    CASE f = "fills"   -> 2
      [] f = "trades"  -> IF b = 2 THEN 1 ELSE -3
      [] f = "funding" -> IF b = 2 THEN 2 ELSE 0
const_Amount ==
    [f \in {"fills", "trades", "funding"} |->
        [e \in [bar : 1..NBars, row : const_Rows] |-> AmountAt(f, e.bar)]]
=============================================================================
