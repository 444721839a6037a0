----------------------------- MODULE MCObjects -----------------------------
(***************************************************************************)
(* Instances for TLC of the modules that are about the library's objects.  *)
(* Objects of different types have nothing in common but the table that    *)
(* their messages are parsed by, which Dispatcher is about: a behaviour is *)
(* one of the modules', and the others' variables keep their first values. *)
(***************************************************************************)
EXTENDS RtAddr, RtRoute, RtRule, RtLink, XfrmPolicy, Dispatcher, TLC

VARIABLE module  \* the module whose behaviour it is

allVars == <<module, vars, routeVars, ruleVars, linkVars, policyVars, dispatchVars>>

ObjInit ==
    /\ module \in {"addr", "route", "rule", "link", "policy", "dispatcher"}
    /\ Init /\ RouteInit /\ RuleInit /\ LinkInit /\ PolicyInit /\ DispatchInit

Only(m) ==
    /\ module = m
    /\ UNCHANGED module
    /\ m # "addr"       => UNCHANGED vars
    /\ m # "route"      => UNCHANGED routeVars
    /\ m # "rule"       => UNCHANGED ruleVars
    /\ m # "link"       => UNCHANGED linkVars
    /\ m # "policy"     => UNCHANGED policyVars
    /\ m # "dispatcher" => UNCHANGED dispatchVars

ObjNext ==
    \/ Only("addr") /\ Next
    \/ Only("route") /\ RouteNext
    \/ Only("rule") /\ RuleNext
    \/ Only("link") /\ LinkNext
    \/ Only("policy") /\ PolicyNext
    \/ Only("dispatcher") /\ DispatchNext

ObjSpec == ObjInit /\ [][ObjNext]_allVars

(* Every variable of every module keeps its type: one condition for the    *)
(* five types of objects, route.c, rule.c, link.c, policy.c and addr.c.    *)
ObjTypeOK ==
    /\ TypeOK
    /\ RouteTypeOK
    /\ RuleTypeOK
    /\ LinkTypeOK
    /\ PolicyTypeOK

Symmetry == Permutations(Slots) \cup Permutations(Ips) \cup Permutations(Labels)
                \cup Permutations(Cells)
=============================================================================
