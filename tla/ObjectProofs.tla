---------------------------- MODULE ObjectProofs ----------------------------
(***************************************************************************)
(* Programs that use all types of objects and a mnlxt_data_t side by side. *)
(* To an object of one type, what is done to the others is a stuttering    *)
(* step: a behaviour of the program is one of each module, and what is     *)
(* proved of each holds of all.  MCObjects has the behaviours that stay    *)
(* with one module.                                                        *)
(***************************************************************************)
EXTENDS MCObjects, RtAddrProofs, RtObjectProofs, XfrmProofs

programVars == <<vars, routeVars, ruleVars, linkVars, policyVars, dispatchVars>>

ProgramInit ==
    Init /\ RouteInit /\ RuleInit /\ LinkInit /\ PolicyInit /\ DispatchInit

(* The modules' steps in any order, each of which leaves the others alone. *)
ProgramNext ==
    \/ Next         /\ UNCHANGED <<routeVars, ruleVars, linkVars, policyVars, dispatchVars>>
    \/ RouteNext    /\ UNCHANGED <<vars, ruleVars, linkVars, policyVars, dispatchVars>>
    \/ RuleNext     /\ UNCHANGED <<vars, routeVars, linkVars, policyVars, dispatchVars>>
    \/ LinkNext     /\ UNCHANGED <<vars, routeVars, ruleVars, policyVars, dispatchVars>>
    \/ PolicyNext   /\ UNCHANGED <<vars, routeVars, ruleVars, linkVars, dispatchVars>>
    \/ DispatchNext /\ UNCHANGED <<vars, routeVars, ruleVars, linkVars, policyVars>>

Program == ProgramInit /\ [][ProgramNext]_programVars

(* A behaviour of MCObjects is one of a program, so that what is proved of *)
(* programs holds of what TLC explores.                                    *)
LEMMA OneModuleIsAProgram == ObjSpec => Program
<1>1. ObjInit => ProgramInit
  BY DEF ObjInit, ProgramInit
<1>2. ASSUME [ObjNext]_allVars PROVE [ProgramNext]_programVars
  <2>1. CASE UNCHANGED allVars
    BY <2>1 DEF allVars, programVars
  <2>2. CASE Only("addr") /\ Next
    BY <2>2 DEF Only, ProgramNext
  <2>3. CASE Only("route") /\ RouteNext
    BY <2>3 DEF Only, ProgramNext
  <2>4. CASE Only("rule") /\ RuleNext
    BY <2>4 DEF Only, ProgramNext
  <2>5. CASE Only("link") /\ LinkNext
    BY <2>5 DEF Only, ProgramNext
  <2>6. CASE Only("policy") /\ PolicyNext
    BY <2>6 DEF Only, ProgramNext
  <2>7. CASE Only("dispatcher") /\ DispatchNext
    BY <2>7 DEF Only, ProgramNext
  <2> QED
    BY <1>2, <2>1, <2>2, <2>3, <2>4, <2>5, <2>6, <2>7 DEF ObjNext
<1> QED
  BY <1>1, <1>2, PTL DEF ObjSpec, Program

(* Every module's behaviour is one its own specification allows, whatever  *)
(* the program does with objects of other types in between.                *)
LEMMA ModulesStandAlone ==
    Program => /\ Spec /\ RouteSpec /\ RuleSpec /\ LinkSpec /\ PolicySpec
               /\ DispatchSpec
<1>1. [ProgramNext]_programVars =>
          /\ [Next]_vars /\ [RouteNext]_routeVars /\ [RuleNext]_ruleVars
          /\ [LinkNext]_linkVars /\ [PolicyNext]_policyVars /\ [DispatchNext]_dispatchVars
  BY DEF ProgramNext, programVars
<1> QED
  BY <1>1, PTL DEF Program, ProgramInit, Spec, RouteSpec, RuleSpec, LinkSpec, PolicySpec,
                   DispatchSpec

(* Every variable of every type of object keeps its type. *)
THEOREM ObjectsTyped == ASSUME ~CloneNamed PROVE Program => []ObjTypeOK
<1>1. TypeOK /\ RouteTypeOK /\ RuleTypeOK /\ LinkTypeOK /\ PolicyTypeOK => ObjTypeOK
  BY DEF ObjTypeOK
<1> QED
  BY <1>1, ModulesStandAlone, AddrTyped, RouteTyped, RuleTyped, LinkTyped, PolicyTyped, PTL

(* Memory: in every program that uses objects of all types, each string    *)
(* has one owner, and addresses and rules are values to their caller.      *)
THEOREM ObjectsKeepValues ==
    ASSUME ~CloneNamed
    PROVE  Program => /\ [](LabelsOwned /\ RuleNamesOwned)
                      /\ AddrsAreValues /\ RulesAreValues
  BY ModulesStandAlone, LabelsHaveOneOwner, NamesHaveOneOwner, AddressesAreValues,
     RulesKeepValues, PTL
=============================================================================
