--------------------------- MODULE MCLinkRequest ---------------------------
(***************************************************************************)
(* Instances of LinkRequest for TLC.                                       *)
(***************************************************************************)
EXTENDS LinkRequest, TLC

Symmetry == Permutations(Procs) \cup Permutations(Names)
=============================================================================
