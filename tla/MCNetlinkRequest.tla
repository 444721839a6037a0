-------------------------- MODULE MCNetlinkRequest --------------------------
(***************************************************************************)
(* Instances of NetlinkRequest for TLC.                                    *)
(***************************************************************************)
EXTENDS NetlinkRequest, FiniteSets, TLC

CONSTANT MaxMoments  \* bound: tables a call lives through

Symmetry == Permutations(Clients) \cup Permutations(Ids)

FewMoments == \A c \in Clients : Cardinality(moments[c]) <= MaxMoments
=============================================================================
