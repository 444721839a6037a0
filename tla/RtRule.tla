------------------------------- MODULE RtRule -------------------------------
(***************************************************************************)
(* The routing rules of libmnlxt, mnlxt_rt_rule_t (rtnl/rule.c and         *)
(* rtnl/rule_data.c): the caller's objects with the two names of           *)
(* interfaces each has on the heap, the message that put makes of an       *)
(* object, and the object the parse handler makes of a message.            *)
(*                                                                         *)
(* The kernel's rules are external.  The source is like the destination,   *)
(* and table, action, type of service, priority and mark, which are set    *)
(* like the prefix length and read whenever they are there, are left out.  *)
(* The one value in memory of a name is a cell of the heap.                *)
(***************************************************************************)
EXTENDS PropObject

CONSTANT CloneNamed  \* whether the caller clones rules that have names

VARIABLES rule,      \* the object of each slot, or NULL
          ruleNames  \* the heap: the name in each cell, NULL when it is free

ruleVars == <<rule, ruleNames>>

RuleNameProps == {"IIFNAME", "OIFNAME"}

RuleProps == {"FAMILY", "DST_PREFIX", "DST"} \cup RuleNameProps

RuleValues == Families \cup Prefixes \cup Ips \cup Cells \cup {Zero}

Rules == [props : SUBSET RuleProps, val : [RuleProps -> RuleValues]]

(* What an object says: names in place of their cells. *)
RuleContents == [props : SUBSET RuleProps, val : [RuleProps -> RuleValues \cup Labels]]

RuleEntries ==
    {e \in [family : Families, prefix : Prefixes \cup {Zero}, dst : Ips \cup {Zero},
            iif : Labels \cup {NULL}, oif : Labels \cup {NULL}] :
        e.prefix = Zero => e.dst = Zero}

ASSUME RuleAssumption ==
    /\ NULL \notin RuleValues \cup Rules \cup RuleContents \cup Labels
    /\ Zero \notin Families \cup Prefixes \cup Ips \cup Cells
    /\ CloneNamed \in BOOLEAN

RuleTypeOK ==
    /\ rule \in [Slots -> Rules \cup {NULL}]
    /\ ruleNames \in [Cells -> Labels \cup {NULL}]

RuleInit ==
    /\ rule = [s \in Slots |-> NULL]
    /\ ruleNames = [c \in Cells |-> NULL]

-----------------------------------------------------------------------------
(* Setters, as operators on an object.                                     *)

(* Mutant: other address families are accepted. *)
RuleAllowsOther(r, family) == Given(r, "FAMILY") \in {NULL, family}

RuleAllows(r, family) ==
    /\ family \in Families
    /\ Given(r, "FAMILY") \in {NULL, family}

WithRuleFamily(r, family) == Flag(r, "FAMILY", family)

WithRuleDst(r, family, ip) == Flag(WithRuleFamily(r, family), "DST", ip)

(* What two rules are compared by: the names, not where they are stored. *)
RuleContent(r) ==
    [r EXCEPT !.val = [prop \in RuleProps |->
        IF prop \in RuleNameProps /\ r.val[prop] # Zero THEN ruleNames[r.val[prop]]
        ELSE r.val[prop]]]

RuleMatch(content, pattern) == Matches(content, pattern)

-----------------------------------------------------------------------------
(* Requests and the kernel.                                                *)

(* Mutant: the names of the two interfaces are swapped. *)
RuleMessageSwapped(content) ==
    [family |-> Header(content, "FAMILY"), prefix |-> Header(content, "DST_PREFIX"),
     dst    |-> Given(content, "DST"),
     iif    |-> Given(content, "OIFNAME"), oif    |-> Given(content, "IIFNAME")]

(* mnlxt_rt_rule_put() *)
RuleMessage(content) ==
    [family |-> Header(content, "FAMILY"), prefix |-> Header(content, "DST_PREFIX"),
     dst    |-> Given(content, "DST"),
     iif    |-> Given(content, "IIFNAME"), oif    |-> Given(content, "OIFNAME")]

(* The kernel takes a prefix length and a destination, or no length. *)
RuleValid(message) == message.prefix # Zero => message.dst # NULL

(* e is what the kernel makes of an RTM_NEWRULE request. *)
RuleMadeOf(e, message) ==
    /\ RuleValid(message)
    /\ e.family = message.family
    /\ e.prefix = message.prefix
    /\ message.prefix # Zero => e.dst = message.dst
    /\ e.iif = message.iif
    /\ e.oif = message.oif

(* e is a rule that an RTM_DELRULE request may delete: it has what the     *)
(* message says.                                                           *)
RuleDeletedBy(e, message) ==
    /\ RuleValid(message)
    /\ e.family = message.family
    /\ message.prefix # Zero => e.prefix = message.prefix /\ e.dst = message.dst
    /\ message.iif \in {NULL, e.iif}
    /\ message.oif \in {NULL, e.oif}

(* mnlxt_rt_rule_data(): the object, with the cells its names are put in.  *)
(* The prefix length is read next to the destination only.                 *)
RuleOf(e, iifCell, oifCell) ==
    LET family == WithRuleFamily(Blank(RuleProps), e.family)
        dst == IF e.prefix = Zero THEN family
               ELSE Flag(WithRuleDst(family, e.family, e.dst), "DST_PREFIX", e.prefix)
        iif == IF e.iif = NULL THEN dst ELSE Flag(dst, "IIFNAME", iifCell)
    IN  IF e.oif = NULL THEN iif ELSE Flag(iif, "OIFNAME", oifCell)

(* The content of the object that is read. *)
RuleContentOf(e) == RuleOf(e, e.iif, e.oif)

-----------------------------------------------------------------------------
(* The caller.  A setter that fails changes nothing, and a parse that      *)
(* fails frees what it has made.                                           *)

RuleSet(s, r) == rule' = [rule EXCEPT ![s] = r]

(* Mutant: the cell of the old name is kept. *)
RuleStoreLeaks(new, name, old) ==
    ruleNames' = [c \in Cells |-> IF c = new THEN name ELSE ruleNames[c]]

(* The heap with name stored in cell new and the string in cell old freed, *)
(* if there is one.                                                        *)
RuleStore(new, name, old) ==
    ruleNames' = [c \in Cells |->
        IF c = new THEN name ELSE IF c = old THEN NULL ELSE ruleNames[c]]

RuleFreeCells == {c \in Cells : ruleNames[c] = NULL}

RuleNew(s) ==
    /\ rule[s] = NULL
    /\ RuleSet(s, Blank(RuleProps))
    /\ UNCHANGED ruleNames

RuleSetFamily(s) ==
    /\ rule[s] # NULL
    /\ \E family \in Families \cup {"packet"} :
          RuleAllows(rule[s], family) /\ RuleSet(s, WithRuleFamily(rule[s], family))
    /\ UNCHANGED ruleNames

RuleSetPrefix(s) ==
    /\ rule[s] # NULL
    /\ \E len \in Prefixes \cup {Zero} : RuleSet(s, Flag(rule[s], "DST_PREFIX", len))
    /\ UNCHANGED ruleNames

RuleSetDst(s) ==
    /\ rule[s] # NULL
    /\ \E family \in Families \cup {"packet"}, ip \in Ips \cup {Zero} :
          RuleAllows(rule[s], family) /\ RuleSet(s, WithRuleDst(rule[s], family, ip))
    /\ UNCHANGED ruleNames

(* Mutant: the string of the other interface is freed. *)
RuleSetNameOther(s) ==
    /\ rule[s] # NULL
    /\ \E prop, other \in RuleNameProps, name \in Labels, cell \in RuleFreeCells :
          /\ prop # other
          /\ RuleStore(cell, name, rule[s].val[other])
          /\ RuleSet(s, Flag(rule[s], prop, cell))

RuleSetName(s) ==
    /\ rule[s] # NULL
    /\ \E prop \in RuleNameProps, name \in Labels, cell \in RuleFreeCells :
          /\ RuleStore(cell, name, rule[s].val[prop])
          /\ RuleSet(s, Flag(rule[s], prop, cell))

(* mnlxt_rt_rule_clone(): the pointers to the names are copied too. *)
RuleClone(s, t) ==
    /\ rule[s] # NULL
    /\ rule[t] = NULL
    /\ \E filter \in SUBSET RuleProps :
          /\ filter # {} /\ (\E prop \in RuleNameProps : rule[s].val[prop] # Zero) => CloneNamed
          /\ RuleSet(t, Copied(rule[s], filter))
    /\ UNCHANGED ruleNames

RuleFree(s) ==
    /\ rule[s] # NULL
    /\ ruleNames' = [c \in Cells |->
          IF \E prop \in RuleNameProps : c = rule[s].val[prop] THEN NULL ELSE ruleNames[c]]
    /\ RuleSet(s, NULL)

(* A dump or a notification gives the caller a rule of the kernel. *)
RuleRead(s) ==
    /\ rule[s] = NULL
    /\ \E e \in RuleEntries, iifCell, oifCell \in RuleFreeCells :
          /\ iifCell = oifCell => NULL \in {e.iif, e.oif}
          /\ RuleSet(s, RuleOf(e, iifCell, oifCell))
          /\ ruleNames' = [c \in Cells |-> IF c = iifCell /\ e.iif # NULL THEN e.iif
                                           ELSE IF c = oifCell /\ e.oif # NULL THEN e.oif
                                           ELSE ruleNames[c]]

RuleNext ==
    \E s \in Slots :
        \/ RuleNew(s) \/ RuleSetFamily(s) \/ RuleSetPrefix(s) \/ RuleSetDst(s)
        \/ RuleSetName(s) \/ RuleFree(s) \/ RuleRead(s)
        \/ \E t \in Slots : RuleClone(s, t)

RuleSpec == RuleInit /\ [][RuleNext]_ruleVars

-----------------------------------------------------------------------------
(* Properties.                                                             *)

(* Every name on the heap belongs to one property of one rule, and every   *)
(* name a rule points to is allocated: nothing leaks, is freed twice or    *)
(* used after it was freed.  mnlxt_rt_rule_free() "Frees memory allocated  *)
(* by a rule information structure" (rt_rule.h:91), and                    *)
(* mnlxt_rt_rule_clone() "Makes a copy" of one (rt_rule.h:83), to be used  *)
(* after the first is freed (rt_rule.h:351).                               *)
RuleNamesOwned ==
    /\ \A s \in Slots, prop \in RuleNameProps :
          rule[s] # NULL /\ rule[s].val[prop] # Zero => ruleNames[rule[s].val[prop]] # NULL
    /\ \A s, t \in Slots, prop, other \in RuleNameProps :
          rule[s] # NULL /\ rule[t] # NULL /\ rule[s].val[prop] # Zero =>
              (rule[s].val[prop] = rule[t].val[other] => s = t /\ prop = other)
    /\ \A c \in Cells :
          ruleNames[c] # NULL =>
              \E s \in Slots, prop \in RuleNameProps : rule[s] # NULL /\ rule[s].val[prop] = c

(* A rule that the kernel has made of an object, or that it may delete for *)
(* it, matches the object when it is read back, by mnlxt_rt_rule_match().  *)
(* The kernel does not keep a destination without a prefix length, and a   *)
(* prefix length of 0 is not read.                                         *)
RuleKept(r) ==
    /\ Given(r, "DST_PREFIX") # Zero
    /\ "DST" \in r.props => "DST_PREFIX" \in r.props

RuleReadBack ==
    \A s \in Slots :
        rule[s] # NULL /\ RuleKept(rule[s]) =>
            LET content == RuleContent(rule[s])
                message == RuleMessage(content)
            IN  \A e \in RuleEntries :
                    RuleMadeOf(e, message) \/ RuleDeletedBy(e, message)
                    => RuleMatch(RuleContentOf(e), content)

(* Rules as values: what setters, clones and reads are to make. *)
RuleSets(r, q) ==
    \/ \E len \in Prefixes \cup {Zero} : q = Flag(r, "DST_PREFIX", len)
    \/ \E prop \in RuleNameProps, name \in Labels : q = Flag(r, prop, name)
    \/ \E family \in Families :
          /\ RuleAllows(r, family)
          /\ \/ q = WithRuleFamily(r, family)
             \/ \E ip \in Ips \cup {Zero} : q = WithRuleDst(r, family, ip)

RuleCopies(r) == {Copied(r, filter) : filter \in SUBSET RuleProps}

RuleView == [s \in Slots |-> IF rule[s] = NULL THEN NULL ELSE RuleContent(rule[s])]

RuleAsValues == INSTANCE ValueObjects WITH
    Fresh <- Blank(RuleProps), Sets <- RuleSets, Copies <- RuleCopies,
    Readable <- {RuleContentOf(e) : e \in RuleEntries}, value <- RuleView

(* Rules are values: whatever is done to one, another one keeps its        *)
(* content, the names of the interfaces on the heap included.              *)
RulesAreValues == RuleAsValues!Spec
=============================================================================
