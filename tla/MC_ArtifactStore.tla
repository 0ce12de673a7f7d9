------------------------- MODULE MC_ArtifactStore -------------------------
(***************************************************************************)
(* An instance of ArtifactStore for TLC: two artifacts that share an object,*)
(* one process for each.                                                   *)
(***************************************************************************)
EXTENDS ArtifactStore, TLC
CONSTANTS p1, p2, o1, o2, m1, m2
const_Files == (m1 :> <<o1, o2>>) @@ (m2 :> <<o2>>)
const_Job == (p1 :> m1) @@ (p2 :> m2)
=============================================================================
