------------------------ MODULE MC_ArtifactRestore ------------------------
(***************************************************************************)
(* Instances of ArtifactRestore for TLC.                                   *)
(***************************************************************************)
EXTENDS ArtifactRestore
CONSTANTS r1, r2
=============================================================================
