----------------------------- MODULE XfrmPolicy -----------------------------
(***************************************************************************)
(* The IPsec policies of libmnlxt, mnlxt_xfrm_policy_t (xfrm/policy.c and  *)
(* xfrm/policy_data.c): an object of the caller's, the message that put    *)
(* makes of it, and the object the parse handler makes of a message.       *)
(*                                                                         *)
(* The kernel's policies are external.  The source is like the             *)
(* destination, the interface is read like the protocol; prefix lengths,   *)
(* priority and action are set and read like the direction, two of them    *)
(* with a check of the value as well.  The kernel numbers its policies     *)
(* itself, so that the index is left out.  mnlxt_xfrm_policy_set_mark()    *)
(* fails for every object, and so does a parse of templates: no object has *)
(* MARK or TMPLS.                                                          *)
(***************************************************************************)
EXTENDS PropObject

CONSTANT Ports    \* port numbers but 0

VARIABLES policy,     \* the caller's policy, or NULL
          policyRead  \* history: the kernel's policy it was read from, or was to be

policyVars == <<policy, policyRead>>

PolicyProps == {"FAMILY", "PROTO", "DST", "SRC_PORT", "DST_PORT", "DIR"}

(* "gre" stands for the protocols that have no ports.  ICMP has none       *)
(* either, but the kernel keeps its type and code in their place.          *)
Protos == {"tcp", "icmp", "gre"}

HasPorts(proto) == proto = "tcp"

PolicyValues == Families \cup Protos \cup Ips \cup Ports \cup {"out", Zero}

Policies == [props : SUBSET PolicyProps, val : [PolicyProps -> PolicyValues]]

(* The kernel's policies of the main type.  A policy of a socket may have  *)
(* no family, and its direction is above the three that have names.  An    *)
(* entry may have the one or the other attribute the parse handler looks   *)
(* at.                                                                     *)
PolicyEntries ==
    {e \in [family : Families \cup {Zero}, proto : Protos \cup {Zero}, dst : Ips \cup {Zero},
            sport : Ports \cup {Zero, NULL}, dport : Ports \cup {Zero, NULL},
            dir : {"out", Zero, "socket"}, extra : {"mark", "templates", NULL}] :
        e.family = Zero => e.dir = "socket"}

ASSUME PolicyAssumption ==
    /\ NULL \notin PolicyValues \cup Policies \cup PolicyEntries
    /\ Zero \notin Families \cup Protos \cup Ips \cup Ports

PolicyTypeOK ==
    /\ policy \in Policies \cup {NULL}
    /\ policyRead \in PolicyEntries \cup {NULL}

PolicyInit == policy = NULL /\ policyRead = NULL

-----------------------------------------------------------------------------
(* Setters, as operators on an object.  One that fails returns it as it    *)
(* was: the parse handler does not look at what they return.               *)

Portless(p) == "PROTO" \in p.props /\ ~HasPorts(p.val["PROTO"])

Ported(p) == p.props \cap {"SRC_PORT", "DST_PORT"} # {}

PolicyAllows(p, family) ==
    /\ family \in Families
    /\ Given(p, "FAMILY") \in {NULL, family}

WithPolicyDst(p, family, ip) ==
    IF PolicyAllows(p, family) THEN Flag(Flag(p, "FAMILY", family), "DST", ip) ELSE p

(* Mutant: the ports that are set already are not looked at. *)
WithProtoUnchecked(p, proto) == Flag(p, "PROTO", proto)

WithProto(p, proto) ==
    IF Ported(p) /\ ~HasPorts(proto) THEN p ELSE Flag(p, "PROTO", proto)

WithPort(p, prop, port) == IF Portless(p) THEN p ELSE Flag(p, prop, port)

(* Mutant: a direction is not compared with XFRM_POLICY_MAX. *)
WithDirUnchecked(p, dir) == Flag(p, "DIR", dir)

WithDir(p, dir) == IF dir = "socket" THEN p ELSE Flag(p, "DIR", dir)

-----------------------------------------------------------------------------
(* Requests and the kernel.                                                *)

(* Mutant: the mask of the source's port is not set. *)
PolicyMessageUnmasked(p) ==
    [family |-> Header(p, "FAMILY"), proto |-> Header(p, "PROTO"),   dst   |-> Header(p, "DST"),
     sport  |-> NULL,                dport |-> Given(p, "DST_PORT"), dir   |-> Header(p, "DIR"),
     extra  |-> NULL]

(* mnlxt_xfrm_policy_put(), as the kernel's policy that is asked for.  A   *)
(* port that is given has all bits of its mask set, and one that is not    *)
(* given has none.                                                         *)
PolicyMessage(p) ==
    [family |-> Header(p, "FAMILY"),     proto |-> Header(p, "PROTO"),   dst |-> Header(p, "DST"),
     sport  |-> Given(p, "SRC_PORT"),    dport |-> Given(p, "DST_PORT"), dir |-> Header(p, "DIR"),
     extra  |-> NULL]

(* The kernel takes policies of the two families, and finds them by a      *)
(* selector that is equal byte by byte.                                    *)
PolicyValid(message) == message.family \in Families

(* mnlxt_xfrm_policy_selector_set(): a protocol of 0 is not set, and a     *)
(* policy without family is one of IPv4.                                   *)
SelectorOf(e) ==
    LET blank == Blank(PolicyProps)
        family == IF e.family = Zero THEN "inet" ELSE e.family
        proto == IF e.proto = Zero THEN blank ELSE WithProto(blank, e.proto)
        dport == IF e.dport = NULL THEN proto ELSE WithPort(proto, "DST_PORT", e.dport)
        sport == IF e.sport = NULL THEN dport ELSE WithPort(dport, "SRC_PORT", e.sport)
    IN  WithPolicyDst(sport, family, e.dst)

(* mnlxt_xfrm_policy_data() up to the attributes. *)
PolicyOf(e) == WithDir(SelectorOf(e), e.dir)

(* The attributes of e are accepted.  The length that is to be a multiple  *)
(* of a template's is the attribute's with its header, and the setter of   *)
(* the mark fails: with either attribute the message is refused.           *)
PolicyParsed(e) == e.extra = NULL

-----------------------------------------------------------------------------
(* The caller.                                                             *)

PolicyBecomes(p) == policy' = p /\ policyRead' = NULL

PolicyNew == policy = NULL /\ PolicyBecomes(Blank(PolicyProps))

PolicySetFamily ==
    /\ policy # NULL
    /\ \E family \in Families \cup {"packet"} :
          PolicyAllows(policy, family) /\ PolicyBecomes(Flag(policy, "FAMILY", family))

PolicySetDst ==
    /\ policy # NULL
    /\ \E family \in Families \cup {"packet"}, ip \in Ips \cup {Zero} :
          PolicyAllows(policy, family) /\ PolicyBecomes(WithPolicyDst(policy, family, ip))

PolicySetProto ==
    /\ policy # NULL
    /\ \E proto \in Protos \cup {Zero} : PolicyBecomes(WithProto(policy, proto))

PolicySetPort ==
    /\ policy # NULL
    /\ \E prop \in {"SRC_PORT", "DST_PORT"}, port \in Ports \cup {Zero} :
          PolicyBecomes(WithPort(policy, prop, port))

PolicySetDir ==
    /\ policy # NULL
    /\ \E dir \in {"out", Zero, "socket"} : PolicyBecomes(WithDir(policy, dir))

(* mnlxt_xfrm_policy_clone() makes a new object of a filter that selects   *)
(* none of the flags that are set.                                         *)
PolicyClone ==
    /\ policy # NULL
    /\ \E filter \in SUBSET policy.props : PolicyBecomes(Copied(policy, filter))

PolicyFree == policy # NULL /\ PolicyBecomes(NULL)

(* A policy of a dump or a notification: its object, or no message of it,  *)
(* after which the caller goes on with a new object.                       *)
PolicyRead ==
    /\ policy = NULL
    /\ policyRead = NULL
    /\ \E e \in PolicyEntries :
          /\ policy' = IF PolicyParsed(e) THEN PolicyOf(e) ELSE NULL
          /\ policyRead' = e

PolicyNext ==
    \/ PolicyNew \/ PolicySetFamily \/ PolicySetDst \/ PolicySetProto \/ PolicySetPort
    \/ PolicySetDir \/ PolicyClone \/ PolicyFree \/ PolicyRead

PolicySpec == PolicyInit /\ [][PolicyNext]_policyVars

-----------------------------------------------------------------------------
(* Properties.                                                             *)

(* Ports are "only for IPPROTO_TCP, IPPROTO_UDP, IPPROTO_SCTP or           *)
(* IPPROTO_DCCP" (xfrm_policy.h:62), in whichever order the two setters,   *)
(* clones that leave one of the two out, and reads come: no object asks    *)
(* the kernel for a selector it would read as another protocol's.          *)
PolicyPorts == policy # NULL => ~(Ported(policy) /\ Portless(policy))

(* The policy the kernel has made of an object, or has found for it,       *)
(* matches the object when it is read back, by mnlxt_xfrm_policy_match(),  *)
(* if the object's protocol is a number.                                   *)
PolicyReadBack ==
    policy # NULL /\ PolicyValid(PolicyMessage(policy)) /\ Given(policy, "PROTO") # Zero =>
        Matches(PolicyOf(PolicyMessage(policy)), policy)

(* A policy as it was read asks for what the kernel has: XFRM_MSG_DELPOLICY*)
(* finds it, and XFRM_MSG_UPDPOLICY changes nothing.  Not so for a policy  *)
(* of a socket, nor for one with an ICMP type, which the object refuses.   *)
PolicyFound ==
    policyRead # NULL /\ policy # NULL /\ policyRead.dir # "socket"
    /\ (policyRead.proto \in {"icmp", "gre"} => policyRead.sport = NULL /\ policyRead.dport = NULL)
    => PolicyMessage(policy) = policyRead

(* mnlxt_xfrm_policy_dump() "Gets information of all policies configured   *)
(* on system" (xfrm_policy.h:418), and those of sockets.                   *)
PolicyDumped == policyRead # NULL /\ policyRead.dir # "socket" => policy # NULL
=============================================================================
