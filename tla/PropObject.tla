----------------------------- MODULE PropObject -----------------------------
(***************************************************************************)
(* What the objects of libmnlxt have in common.  Each is a structure with  *)
(* one flag per property, and rtnl/route.c, rtnl/rule.c, rtnl/link.c and   *)
(* xfrm/policy.c repeat the same functions for it.  An object is a record  *)
(* of the properties that are flagged and of the values in memory, which   *)
(* stay there when a flag is not set.                                      *)
(***************************************************************************)
EXTENDS Naturals, FiniteSets, Sequences

CONSTANTS Slots,    \* the caller's variables of a type that owns memory
          Ips,      \* addresses other than the unspecified one
          Prefixes, \* prefix lengths but 0
          Labels,   \* labels and names of interfaces
          Cells,    \* strings on the heap
          NULL

Zero == "0"        \* the bytes calloc() leaves

Families == {"inet", "inet6"}

(* calloc() *)
Blank(Props) == [props |-> {}, val |-> [prop \in Props |-> Zero]]

(* MNLXT_SET_PROP_FLAG() and the assignment next to it. *)
Flag(o, prop, value) == [o EXCEPT !.props = @ \cup {prop}, !.val[prop] = value]

(* What a getter returns, and put writes: NULL if the flag is not set. *)
Given(o, prop) == IF prop \in o.props THEN o.val[prop] ELSE NULL

(* A field of a message's header is zero unless put writes it. *)
Header(o, prop) == IF prop \in o.props THEN o.val[prop] ELSE Zero

(* A clone has every value in memory, and the flags the filter selects. *)
Copied(o, filter) ==
    IF filter = {} THEN Blank(DOMAIN o.val) ELSE [o EXCEPT !.props = @ \cap filter]

(* The loop of compare returns 0: a property is in both objects, with one  *)
(* value, or in none.                                                      *)
Agree(o1, o2, filter) == \A prop \in filter : Given(o1, prop) = Given(o2, prop)

(* match: the pattern's own properties are compared. *)
Matches(o, pattern) == Agree(o, pattern, pattern.props)
=============================================================================
