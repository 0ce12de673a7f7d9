--------------------------- MODULE MC_SqliteLane ---------------------------
(***************************************************************************)
(* Instances of SqliteLane for TLC: two writers, and bars of which the      *)
(* first needs no funding rate.                                            *)
(***************************************************************************)
EXTENDS SqliteLane
CONSTANTS w1, w2
const_Held == 2..NBars
=============================================================================
