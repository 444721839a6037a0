------------------------------- MODULE RtLink -------------------------------
(***************************************************************************)
(* The interfaces of libmnlxt, mnlxt_rt_link_t (rtnl/link.c and            *)
(* rtnl/link_data.c), and what they have for one kind of interface only    *)
(* (rtnl/link_vlan.c, link_xfrm.c, link_tun.c and their link_data files):  *)
(* an object of the caller's, the message that put makes of it, and the    *)
(* object the parse handler makes of a message.                            *)
(*                                                                         *)
(* The kernel's interfaces are external.  MTU stands for the properties    *)
(* that are set, put and read alike, and MTU_MIN for MTU_MAX, which put    *)
(* ignores as well.  The name and the index, by which the kernel finds an  *)
(* interface, and the calls that make a TUN device, which is not made of a *)
(* message, are in LinkRequest.  "bridge" stands for bonds.                *)
(***************************************************************************)
EXTENDS PropObject

CONSTANTS Ids,    \* indexes of interfaces, identifiers, users and groups, types but 0
          Mtus,   \* maximum transmission units, and their limits
          IfFlags \* flags of interfaces that a request may change

VARIABLES link,      \* the caller's interface, or NULL
          linkAsked, \* history: what the caller has asked for each flag: "on", "off" or NULL
          linkLeft   \* history: what a filter has left out of clones, and memory has kept

linkVars == <<link, linkAsked, linkLeft>>

LinkProps == {"FLAGS", "MTU", "MTU_MIN", "PARENT", "INFO"}

Kinds == {"bridge", "vlan", "tun", "xfrm"}

(* The structure of each kind is in one union, and its flags are bits of   *)
(* one word: VLAN_ID, XFRM_IFINDEX and TUN_TYPE are one bit, and XFRM_ID   *)
(* and TUN_FLAGS another.                                                  *)
InfoBits == {"bit0", "bit1", "bit2", "bit3"}

VlanId == "bit0"
XfrmIfindex == "bit0"
XfrmId == "bit1"
TunType == "bit0"
TunFlags == "bit1"
TunUid == "bit2"
TunGid == "bit3"

KindBits ==
    [bridge |-> {}, vlan |-> {VlanId}, xfrm |-> {XfrmIfindex, XfrmId},
     tun    |-> {TunType, TunFlags, TunUid, TunGid}]

(* The flags of a TUN device, with and without PERSIST.  PI stands for     *)
(* VNET_HDR and MULTI_QUEUE.                                               *)
TunModes == {"pi", "persist", "pi_persist"}

Foreign == "?"  \* what the bytes of another kind's structure are read as

Infos == [props : SUBSET InfoBits, val : [InfoBits -> Ids \cup TunModes \cup {Zero, Foreign}]]

(* The values of FLAGS are apart: the flags, and the mask of those that    *)
(* are asked for.  The value of INFO is the kind.                          *)
Links == [props : SUBSET LinkProps, val : [LinkProps -> Kinds \cup Ids \cup Mtus \cup {Zero}],
          flags : SUBSET IfFlags, mask : SUBSET IfFlags, info : Infos]

(* What the kernel reports of a kind's property.  A TUN device need not    *)
(* have an owner, nor any of the flags.                                    *)
Reported(kind, bit) ==
    IF kind \notin Kinds \/ bit \notin KindBits[kind] THEN {NULL}
    ELSE IF kind # "tun" \/ bit = TunType THEN Ids
    ELSE IF bit = TunFlags THEN TunModes \cup {Zero}
    ELSE Ids \cup {NULL}

ReportedInfos(kind) ==
    {info \in [InfoBits -> Ids \cup TunModes \cup {Zero, NULL}] :
        \A bit \in InfoBits : info[bit] \in Reported(kind, bit)}

(* The kernel's interfaces of a kind, whose hardware address may have      *)
(* another length than Ethernet addresses.  The parent is reported for the *)
(* kinds that have one.                                                    *)
LinkEntriesOf(kind) ==
    {e \in [kind : {kind}, flags : SUBSET IfFlags, mtu : Mtus, limit : Mtus,
            parent : Ids \cup {NULL}, info : ReportedInfos(kind), hw : {"ether", "ipip"}] :
        /\ kind = "xfrm" => e.parent = e.info[XfrmIfindex]
        /\ kind = "vlan" => e.parent # NULL
        /\ kind \in {"bridge", "tun", NULL} => e.parent = NULL}

(* "veth" is a kind the library does not know.  The set is written as that *)
(* of its elements so that TLC enumerates it once.                         *)
LinkEntries == {e : e \in UNION {LinkEntriesOf(kind) : kind \in Kinds \cup {"veth", NULL}}}

ASSUME LinkAssumption ==
    /\ NULL \notin Kinds \cup Ids \cup Mtus \cup TunModes \cup Links
    /\ NULL \notin {"on", "off", Zero, Foreign}
    /\ Ids \cap {Zero, Foreign} = {}

LinkTypeOK ==
    /\ link \in Links \cup {NULL}
    /\ linkAsked \in [IfFlags -> {"on", "off", NULL}]
    /\ linkLeft \in SUBSET {"FLAGS", "INFO"}

NothingAsked == [f \in IfFlags |-> NULL]

LinkInit == link = NULL /\ linkAsked = NothingAsked /\ linkLeft = {}

BlankLink ==
    [props |-> {}, val |-> [prop \in LinkProps |-> Zero], flags |-> {}, mask |-> {},
     info  |-> Blank(InfoBits)]

-----------------------------------------------------------------------------
(* Setters, as operators on an object.                                     *)

WithAllFlags(l, flags) ==
    [l EXCEPT !.props = @ \cup {"FLAGS"}, !.flags = flags, !.mask = IfFlags]

(* Mutant: the mask is of the flags of this call only. *)
WithFlagsOnly(l, flags, on) ==
    [l EXCEPT !.props = @ \cup {"FLAGS"},
              !.flags = IF on THEN @ \cup flags ELSE @ \ flags,
              !.mask = flags]

(* mnlxt_rt_link_set_selected_flags() *)
WithFlags(l, flags, on) ==
    [l EXCEPT !.props = @ \cup {"FLAGS"},
              !.flags = IF on THEN @ \cup flags ELSE @ \ flags,
              !.mask = @ \cup flags]

(* Mutant: the kind an object has is not looked at. *)
AnyKind(l, kind) == TRUE

KindAllows(l, kind) == Given(l, "INFO") \in {NULL, kind}

(* mnlxt_rt_link_set_info_kind() leaves the structure in memory as it is:  *)
(* one of another kind, which a clone without INFO has, is not what was    *)
(* set any more, and its flags stay.                                       *)
WithKind(l, kind) ==
    LET named == Flag(l, "INFO", kind)
    IN  IF l.val["INFO"] = kind \/ l.info = Blank(InfoBits) THEN named
        ELSE [named EXCEPT !.info.val = [bit \in InfoBits |-> Foreign]]

WithInfo(l, kind, bit, value) == [WithKind(l, kind) EXCEPT !.info = Flag(@, bit, value)]

(* The parent is the same interface, if no other one was set before. *)
WithXfrmIfindex(l, id) ==
    LET x == WithInfo(l, "xfrm", XfrmIfindex, id)
    IN  IF "PARENT" \in l.props THEN x ELSE Flag(x, "PARENT", id)

(* mnlxt_rt_link_set_tun_type() and ..._set_tun_flags(): 0 is none. *)
WithTun(l, bit, value) ==
    IF value # Zero THEN WithInfo(l, "tun", bit, value)
    ELSE [WithKind(l, "tun") EXCEPT !.info.props = @ \ {bit}, !.info.val[bit] = Zero]

-----------------------------------------------------------------------------
(* Comparison.                                                             *)

(* The value of FLAGS that both have asked for, and the kind of INFO. *)
LinksAgree(l1, l2, filter) ==
    /\ Agree(l1, l2, filter \ {"FLAGS"})
    /\ "FLAGS" \in filter =>
          /\ "FLAGS" \in l1.props <=> "FLAGS" \in l2.props
          /\ "FLAGS" \in l1.props => l1.flags \cap l1.mask \cap l2.mask = l2.flags \cap l1.mask \cap l2.mask

(* What a property of a structure is compared by: the groups of TUN        *)
(* devices by their users.                                                 *)
ComparedBy(kind, bit) == IF kind = "tun" /\ bit = TunGid THEN TunUid ELSE bit

(* The structures of one kind.  Bridges have nothing to compare. *)
InfosAgree(l1, l2, filter) ==
    LET kind == l1.val["INFO"]
    IN  /\ kind = l2.val["INFO"]
        /\ \A bit \in filter \cap KindBits[kind] :
              /\ bit \in l1.info.props <=> bit \in l2.info.props
              /\ bit \in l1.info.props =>
                    l1.info.val[ComparedBy(kind, bit)] = l2.info.val[ComparedBy(kind, bit)]

(* mnlxt_rt_link_match() returns 0. *)
LinkMatches(l, pattern) ==
    /\ LinksAgree(l, pattern, pattern.props)
    /\ "INFO" \in pattern.props => InfosAgree(l, pattern, pattern.info.props)

-----------------------------------------------------------------------------
(* Requests and the kernel.                                                *)

(* The structure in a message, mnlxt_rt_link_info_put().  A TUN device's   *)
(* one is written by other means: what mnlxt_rt_link_tun_create() asks for *)
(* is in its place.                                                        *)
InfoMessage(l) ==
    [bit \in InfoBits |->
        IF "INFO" \in l.props /\ bit \in KindBits[l.val["INFO"]] THEN Given(l.info, bit) ELSE NULL]

(* mnlxt_rt_link_put() leaves out the limits of the MTU. *)
LinkMessage(l) ==
    [kind   |-> Given(l, "INFO"),
     flags  |-> IF "FLAGS" \in l.props THEN l.flags ELSE {},
     change |-> IF "FLAGS" \in l.props THEN l.mask ELSE {},
     mtu    |-> Given(l, "MTU"),
     parent |-> Given(l, "PARENT"),
     info   |-> InfoMessage(l)]

(* The flags of the TUN device that mnlxt_rt_link_tun_create() makes: it   *)
(* always asks for IFF_PERSIST, and reads a variable without a value if    *)
(* none are set.                                                           *)
DeviceFlags(asked) ==
    CASE asked \in {"pi", "pi_persist"} -> {"pi_persist"}
      [] asked = "persist"              -> {"persist"}
      [] OTHER                          -> {"persist", "pi_persist"}

(* e is what the kernel makes of RTM_NEWLINK, or an interface after        *)
(* RTM_SETLINK, whose kind need not be given: the flags of the mask and    *)
(* the MTU are as asked, and a VLAN is on its parent.                      *)
LinkMadeOf(e, message) ==
    /\ message.kind \in {NULL, e.kind}
    /\ e.hw = "ether"
    /\ message.kind \in Kinds \ {"tun"} => e.info = message.info
    /\ message.kind = "tun" =>
          /\ \A bit \in InfoBits \ {TunFlags} : e.info[bit] = message.info[bit]
          /\ e.info[TunFlags] \in DeviceFlags(message.info[TunFlags])
    /\ message.kind = "vlan" => e.parent = message.parent
    /\ message.mtu \in {NULL, e.mtu}
    /\ e.flags \cap message.change = message.flags \cap message.change

(* mnlxt_rt_link_vlan_info_data() *)
VlanOf(l, e) == WithInfo(l, "vlan", VlanId, e.info[VlanId])

(* Mutant: the identifier of an xfrm interface is not read. *)
XfrmOfIdLost(l, e) == WithXfrmIfindex(l, e.info[XfrmIfindex])

(* mnlxt_rt_link_xfrm_info_data() *)
XfrmOf(l, e) == WithInfo(WithXfrmIfindex(l, e.info[XfrmIfindex]), "xfrm", XfrmId, e.info[XfrmId])

(* mnlxt_rt_link_tun_info_data(): a device need not have an owner, and the *)
(* flags are set when all attributes are read.                             *)
TunOf(l, e) ==
    LET Owner(m, bit) == IF e.info[bit] = NULL THEN m ELSE WithInfo(m, "tun", bit, e.info[bit])
        owned == Owner(Owner(WithTun(l, TunType, e.info[TunType]), TunUid), TunGid)
    IN  WithTun(owned, TunFlags, e.info[TunFlags])

(* mnlxt_rt_link_info_attr(): an unknown kind is remarked, but no error. *)
InfoOf(l, e) ==
    CASE e.kind = "bridge" -> WithKind(l, e.kind)
      [] e.kind = "vlan"   -> VlanOf(l, e)
      [] e.kind = "xfrm"   -> XfrmOf(l, e)
      [] e.kind = "tun"    -> TunOf(l, e)
      [] OTHER             -> l

(* mnlxt_rt_link_data(): the parent is read before the structure. *)
LinkOf(e) ==
    LET mtu   == Flag(WithAllFlags(BlankLink, e.flags), "MTU", e.mtu)
        limit == Flag(mtu, "MTU_MIN", e.limit)
    IN  InfoOf(IF e.parent = NULL THEN limit ELSE Flag(limit, "PARENT", e.parent), e)

(* A hardware address of another length fails to validate. *)
LinkParsed(e) == e.hw = "ether"

-----------------------------------------------------------------------------
(* The caller.  A setter that fails changes nothing.                       *)

LinkBecomes(l) == link' = l /\ UNCHANGED <<linkAsked, linkLeft>>

LinkNew == link = NULL /\ link' = BlankLink /\ linkAsked' = NothingAsked /\ linkLeft' = {}

(* mnlxt_rt_link_set_flags() sets the mask as well. *)
LinkSetFlags ==
    /\ link # NULL
    /\ \E flags \in SUBSET IfFlags :
          /\ link' = WithAllFlags(link, flags)
          /\ linkAsked' = [f \in IfFlags |-> IF f \in flags THEN "on" ELSE "off"]
    /\ linkLeft' = linkLeft \ {"FLAGS"}

(* mnlxt_rt_link_set_flags_on(), ..._set_flags_off() and ..._set_updown() *)
LinkSwitchFlags ==
    /\ link # NULL
    /\ \E flags \in (SUBSET IfFlags) \ {{}}, on \in BOOLEAN :
          /\ link' = WithFlags(link, flags, on)
          /\ linkAsked' = [f \in IfFlags |-> IF f \notin flags THEN linkAsked[f]
                                             ELSE IF on THEN "on" ELSE "off"]
    /\ UNCHANGED linkLeft

LinkSetScalar ==
    /\ link # NULL
    /\ \/ \E prop \in {"MTU", "MTU_MIN"}, mtu \in Mtus : LinkBecomes(Flag(link, prop, mtu))
       \/ \E id \in Ids : LinkBecomes(Flag(link, "PARENT", id))

LinkSetKind ==
    /\ link # NULL
    /\ \E kind \in Kinds : KindAllows(link, kind) /\ LinkBecomes(WithKind(link, kind))

LinkSetVlan ==
    /\ link # NULL
    /\ KindAllows(link, "vlan")
    /\ \E id \in Ids : LinkBecomes(WithInfo(link, "vlan", VlanId, id))

LinkSetXfrm ==
    /\ link # NULL
    /\ KindAllows(link, "xfrm")
    /\ \E id \in Ids : \/ LinkBecomes(WithXfrmIfindex(link, id))
                       \/ LinkBecomes(WithInfo(link, "xfrm", XfrmId, id))

LinkSetTun ==
    /\ link # NULL
    /\ KindAllows(link, "tun")
    /\ \/ \E type \in Ids \cup {Zero} : LinkBecomes(WithTun(link, TunType, type))
       \/ \E mode \in TunModes \cup {Zero} : LinkBecomes(WithTun(link, TunFlags, mode))
       \/ \E id \in Ids, bit \in {TunUid, TunGid} : LinkBecomes(WithInfo(link, "tun", bit, id))

(* mnlxt_rt_link_clone(), after which the caller goes on with the clone.   *)
(* The flags and their mask, and the kind and its structure with its own   *)
(* flags, are copied even if the filter leaves FLAGS and INFO out.         *)
LinkClone ==
    /\ link # NULL
    /\ \E filter \in SUBSET LinkProps :
          \/ /\ filter = {}
             /\ link' = BlankLink
             /\ linkAsked' = NothingAsked
             /\ linkLeft' = {}
          \/ /\ filter # {}
             /\ link' = [link EXCEPT !.props = @ \cap filter]
             /\ linkAsked' = IF "FLAGS" \in filter THEN linkAsked ELSE NothingAsked
             /\ linkLeft' = linkLeft \cup ((link.props \cap {"FLAGS", "INFO"}) \ filter)

LinkFree == link # NULL /\ link' = NULL /\ linkAsked' = NothingAsked /\ linkLeft' = {}

(* A dump or a notification gives the caller an interface of the kernel. *)
LinkRead ==
    /\ link = NULL
    /\ \E e \in LinkEntries :
          /\ LinkParsed(e)
          /\ link' = LinkOf(e)
          /\ linkAsked' = [f \in IfFlags |-> IF f \in e.flags THEN "on" ELSE "off"]
    /\ linkLeft' = {}

LinkNext ==
    \/ LinkNew \/ LinkSetFlags \/ LinkSwitchFlags \/ LinkSetScalar \/ LinkSetKind
    \/ LinkSetVlan \/ LinkSetXfrm \/ LinkSetTun \/ LinkClone \/ LinkFree \/ LinkRead

LinkSpec == LinkInit /\ [][LinkNext]_linkVars

-----------------------------------------------------------------------------
(* Properties.                                                             *)

(* A request changes each flag the caller has asked for, to what was asked *)
(* last, and no others unless a clone's filter has left FLAGS out: which-  *)
(* ever calls for single flags and for all of them, reads and clones there *)
(* were.                                                                   *)
LinkFlagsAsAsked ==
    link # NULL =>
        LET message == LinkMessage(link)
        IN  \A f \in IfFlags :
                IF linkAsked[f] # NULL
                THEN f \in message.change /\ (f \in message.flags <=> linkAsked[f] = "on")
                ELSE "FLAGS" \notin linkLeft => f \notin message.change \cup message.flags

(* The flags and values of the structure are of the object's one kind: no  *)
(* value that was set for another kind is compared or sent as one of it,   *)
(* unless a clone's filter has left INFO out.                              *)
LinkInfoOwn ==
    link # NULL /\ "INFO" \notin linkLeft =>
        /\ link.info.props \subseteq IF "INFO" \in link.props THEN KindBits[link.val["INFO"]] ELSE {}
        /\ \A bit \in InfoBits : link.info.val[bit] # Foreign

(* The parent of an xfrm interface is that of its structure, which it is   *)
(* unless the caller sets another, and the kernel reports no parent of     *)
(* others than VLANs.  The structure is of the kind set last.  The flags   *)
(* of a TUN device are none or with PERSIST, which the device always has.  *)
LinkKept(l) ==
    /\ "PARENT" \in l.props =>
          /\ Given(l, "INFO") \in {"vlan", "xfrm"}
          /\ l.val["INFO"] = "xfrm" => l.val["PARENT"] = l.info.val[XfrmIfindex]
    /\ "INFO" \in l.props => \A bit \in KindBits[l.val["INFO"]] : l.info.val[bit] # Foreign
    /\ Given(l, "INFO") = "tun" => Given(l.info, TunFlags) \in {NULL, "persist", "pi_persist"}

(* An interface that the kernel has made of an object matches it when it   *)
(* is read back, by mnlxt_rt_link_match(): what is written for each kind   *)
(* is read, and compares as equal.  A limit of the MTU, which is not       *)
(* written, is to be the interface's; a group is compared by the user.     *)
LinkReadBack ==
    link # NULL /\ LinkKept(link) =>
        LET message == LinkMessage(link)
        IN  \A e \in LinkEntries :
                LinkMadeOf(e, message) /\ Given(link, "MTU_MIN") \in {NULL, e.limit}
                    => LinkMatches(LinkOf(e), link)

(* rt_link.h of mnlxt_rt_link_clone(): "filter  data filter".  What the    *)
(* filter leaves out is not in a request with the clone: it changes no     *)
(* flag but those that the caller has asked for since, and has no value    *)
(* that was set for another kind of interface.  The code breaks this.      *)
LinkFiltered ==
    link # NULL =>
        /\ LinkMessage(link).change \subseteq {f \in IfFlags : linkAsked[f] # NULL}
        /\ \A bit \in InfoBits : LinkMessage(link).info[bit] # Foreign
=============================================================================
