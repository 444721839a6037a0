------------------------------ MODULE MCLinks ------------------------------
(***************************************************************************)
(* Instances for TLC of RtLink.  Indexes, identifiers and users are alike. *)
(***************************************************************************)
EXTENDS RtLink, TLC

LinkSymmetry == Permutations(Ids) \cup Permutations(IfFlags)
=============================================================================
