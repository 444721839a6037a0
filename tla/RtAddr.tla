------------------------------- MODULE RtAddr -------------------------------
(***************************************************************************)
(* The interface addresses of libmnlxt, mnlxt_rt_addr_t (rtnl/addr.c and   *)
(* rtnl/addr_data.c): the caller's objects with their property flags and   *)
(* the label each has on the heap, the request that sends one to the       *)
(* kernel, and the parse handler that makes an object of a message.        *)
(*                                                                         *)
(* The kernel is external.  A request arrives there and a dump comes back  *)
(* through NetlinkRequest, here in one step each.                          *)
(* Prefix length, flags, scope, interface index and lifetimes are set and  *)
(* got alike, and the prefix length stands for them.  A setter that fails  *)
(* changes nothing, and so do the getters.                                 *)
(***************************************************************************)
EXTENDS PropObject

CONSTANT Lens  \* prefix lengths but 0

VARIABLES obj,      \* the object of each slot, or NULL
          strings,  \* the heap: the label in each cell, NULL when it is free
          parse,    \* the message mnlxt_rt_addr_data() is parsing, or NULL
          request   \* history: the slot that was requested, while unchanged, or NULL

vars == <<obj, strings, parse, request>>

Props == {"FAMILY", "PREFIXLEN", "ADDR", "LOCAL", "LABEL"}

Objects == [props : SUBSET Props, family : Families \cup {"unspec"}, prefixlen : Lens \cup {0},
            addr : Ips \cup {Zero}, addr_local : Ips \cup {Zero}, label : Cells \cup {NULL}]

(* What an object says: a label in place of its cell. *)
Contents == [props : SUBSET Props, family : Families \cup {"unspec"}, prefixlen : Lens \cup {0},
             addr : Ips \cup {Zero}, addr_local : Ips \cup {Zero}, label : Labels \cup {NULL}]

Attributes == [type : {"IFA_ADDRESS", "IFA_LOCAL"}, value : Ips]
                 \cup [type : {"IFA_LABEL"}, value : Labels]

Entries == [family : Families, prefixlen : Lens \cup {0}, address : Ips,
            local : Ips \cup {NULL}, label : Labels \cup {NULL}]

Messages == [slot : Slots, family : Families, rest : Seq(Attributes), match : Slots \cup {NULL}]

ASSUME RtAddrAssumption ==
    /\ NULL \notin Slots \cup Ips \cup Labels \cup Cells \cup {Zero}
    /\ NULL \notin Objects \cup Contents \cup Messages
    /\ Zero \notin Ips
    /\ 0 \notin Lens

TypeOK ==
    /\ obj \in [Slots -> Objects \cup {NULL}]
    /\ strings \in [Cells -> Labels \cup {NULL}]
    /\ parse \in Messages \cup {NULL}
    /\ request \in Slots \cup {NULL}

(* mnlxt_rt_addr_new() *)
New == [props |-> {}, family |-> "unspec", prefixlen |-> 0,
        addr |-> Zero, addr_local |-> Zero, label |-> NULL]

Init ==
    /\ obj = [s \in Slots |-> NULL]
    /\ strings = [c \in Cells |-> NULL]
    /\ parse = NULL
    /\ request = NULL

-----------------------------------------------------------------------------
(* Setters, as operators on an object.                                     *)

(* Mutant: any address family is accepted. *)
FamilyAllowsOther(a, family) == "FAMILY" \in a.props => a.family = family

FamilyAllows(a, family) ==
    /\ family \in Families
    /\ "FAMILY" \in a.props => a.family = family

WithFamily(a, family) ==
    [a EXCEPT !.family = family, !.props = @ \cup {"FAMILY"}]

WithPrefixlen(a, len) ==
    [a EXCEPT !.prefixlen = len, !.props = @ \cup {"PREFIXLEN"}]

(* The first IPv4 address set is the local address too. *)
WithAddr(a, family, ip) ==
    LET alsoLocal == family = "inet" /\ "LOCAL" \notin a.props
        b == WithFamily(a, family)
    IN  [b EXCEPT !.addr = ip,
                  !.addr_local = IF alsoLocal THEN ip ELSE @,
                  !.props = @ \cup IF alsoLocal THEN {"ADDR", "LOCAL"} ELSE {"ADDR"}]

(* An IPv4 address goes into addr, not into addr_local. *)
WithLocal(a, family, ip) ==
    LET b == [WithFamily(a, family) EXCEPT !.props = @ \cup {"LOCAL"}]
    IN  IF family = "inet" THEN [b EXCEPT !.addr = ip] ELSE [b EXCEPT !.addr_local = ip]

WithLabel(a, label) == [a EXCEPT !.label = label, !.props = @ \cup {"LABEL"}]

(* What two objects are compared by: the label, not where it is stored. *)
Content(a) == [a EXCEPT !.label = IF @ = NULL THEN NULL ELSE strings[@]]

ValueOf(content, prop) ==
    CASE prop = "FAMILY"    -> content.family
      [] prop = "PREFIXLEN" -> content.prefixlen
      [] prop = "ADDR"      -> content.addr
      [] prop = "LOCAL"     -> content.addr_local
      [] prop = "LABEL"     -> content.label

(* mnlxt_rt_addr_compare() returns 0. *)
Compare(content1, content2, filter) ==
    \A prop \in filter :
        /\ prop \in content1.props <=> prop \in content2.props
        /\ prop \in content1.props => ValueOf(content1, prop) = ValueOf(content2, prop)

(* mnlxt_rt_addr_match() returns 0. *)
Match(content, pattern) == Compare(content, pattern, pattern.props)

-----------------------------------------------------------------------------
(* The caller, who is in no other call of the library at the same time.    *)

Calling == parse = NULL

(* The object in slot s is not what was requested any more. *)
Touched(s) == request' = IF request = s THEN NULL ELSE request

Set(s, a) ==
    /\ Calling
    /\ obj' = [obj EXCEPT ![s] = a]
    /\ Touched(s)
    /\ UNCHANGED parse

AddrNew(s) ==
    /\ obj[s] = NULL
    /\ Set(s, New)
    /\ UNCHANGED strings

SetFamily(s) ==
    /\ obj[s] # NULL
    /\ \E family \in Families \cup {"packet"} :
          /\ FamilyAllows(obj[s], family)
          /\ Set(s, WithFamily(obj[s], family))
    /\ UNCHANGED strings

SetPrefixlen(s) ==
    /\ obj[s] # NULL
    /\ \E len \in Lens : Set(s, WithPrefixlen(obj[s], len))
    /\ UNCHANGED strings

SetAddr(s) ==
    /\ obj[s] # NULL
    /\ \E family \in Families \cup {"packet"}, ip \in Ips :
          /\ FamilyAllows(obj[s], family)
          /\ Set(s, WithAddr(obj[s], family, ip))
    /\ UNCHANGED strings

SetLocal(s) ==
    /\ obj[s] # NULL
    /\ \E family \in Families \cup {"packet"}, ip \in Ips :
          /\ FamilyAllows(obj[s], family)
          /\ Set(s, WithLocal(obj[s], family, ip))
    /\ UNCHANGED strings

(* The heap with label stored in cell and the string old freed, if any. *)
Store(cell, label, old) ==
    strings' = [c \in Cells |-> IF c = cell THEN label ELSE IF c = old THEN NULL ELSE strings[c]]

SetLabel(s) ==
    /\ obj[s] # NULL
    /\ \E label \in Labels, cell \in {c \in Cells : strings[c] = NULL} :
          /\ Store(cell, label, obj[s].label)
          /\ Set(s, WithLabel(obj[s], cell))

(* Mutant: the pointer is copied, not the string. *)
CloneShallow(s, t) ==
    /\ obj[s] # NULL
    /\ obj[t] = NULL
    /\ \E filter \in SUBSET Props :
          Set(t, [obj[s] EXCEPT !.props = @ \cap filter])
    /\ UNCHANGED strings

(* mnlxt_rt_addr_clone(): what the filter leaves out is not flagged, but   *)
(* copied, unless nothing is left.                                         *)
Clone(s, t) ==
    /\ obj[s] # NULL
    /\ obj[t] = NULL
    /\ \E filter \in SUBSET Props :
          LET props == obj[s].props \cap filter
          IN  \/ /\ props = {}
                 /\ Set(t, New)
                 /\ UNCHANGED strings
              \/ /\ props # {}
                 /\ "LABEL" \notin props
                 /\ Set(t, [obj[s] EXCEPT !.props = props, !.label = NULL])
                 /\ UNCHANGED strings
              \/ /\ "LABEL" \in props
                 /\ \E cell \in {c \in Cells : strings[c] = NULL} :
                       /\ Store(cell, strings[obj[s].label], NULL)
                       /\ Set(t, [obj[s] EXCEPT !.props = props, !.label = cell])

(* The heap once the object's label is freed. *)
FreeLabel(a) ==
    strings' = [c \in Cells |-> IF c = a.label THEN NULL ELSE strings[c]]

AddrFree(s) ==
    /\ obj[s] # NULL
    /\ FreeLabel(obj[s])
    /\ Set(s, NULL)

-----------------------------------------------------------------------------
(* Requests.                                                               *)

(* Mutant: the two addresses are swapped. *)
PutSwapped(a) ==
    [family    |-> IF "FAMILY" \in a.props THEN a.family ELSE "unspec",
     prefixlen |-> IF "PREFIXLEN" \in a.props THEN a.prefixlen ELSE 0,
     address   |-> IF "LOCAL" \in a.props THEN a.addr_local ELSE NULL,
     local     |-> IF "ADDR" \in a.props THEN a.addr ELSE NULL,
     label     |-> IF "LABEL" \in a.props THEN strings[a.label] ELSE NULL]

(* mnlxt_rt_addr_put(): the properties that are flagged. *)
Put(a) ==
    [family    |-> IF "FAMILY" \in a.props THEN a.family ELSE "unspec",
     prefixlen |-> IF "PREFIXLEN" \in a.props THEN a.prefixlen ELSE 0,
     address   |-> IF "ADDR" \in a.props THEN a.addr ELSE NULL,
     local     |-> IF "LOCAL" \in a.props THEN a.addr_local ELSE NULL,
     label     |-> IF "LABEL" \in a.props THEN strings[a.label] ELSE NULL]

(* Addresses the kernel may have.  IPv4 addresses have a local address and *)
(* a label, IPv6 ones a local address only if it differs from the peer's.  *)
KernelAddresses ==
    {e \in Entries : IF e.family = "inet"
                     THEN e.local # NULL /\ e.label # NULL
                     ELSE e.local # e.address /\ e.label = NULL}

(* e is what the kernel makes of a request; a label that is not given is   *)
(* the name of the interface.                                              *)
MadeOf(e, message) ==
    LET either == IF message.address # NULL THEN message.address ELSE message.local
    IN  /\ e.family = message.family
        /\ e.prefixlen = message.prefixlen
        /\ e.address = either
        /\ e.family = "inet" =>
              /\ e.local = message.local
              /\ message.label # NULL => e.label = message.label
        /\ e.family = "inet6" =>
              e.local = IF message.local = either THEN NULL ELSE message.local

(* mnlxt_rt_addr_request() with RTM_NEWADDR, if the kernel accepts it. The *)
(* object goes into a message and out of it again, and stays the caller's. *)
Request(s) ==
    /\ Calling
    /\ obj[s] # NULL
    /\ \E e \in KernelAddresses : MadeOf(e, Put(obj[s]))
    /\ request' = s
    /\ UNCHANGED <<obj, strings, parse>>

-----------------------------------------------------------------------------
(* The parse handler.                                                      *)

(* The attributes the kernel describes its address with, in its order. *)
AttributesOf(e) ==
    LET Attribute(type, value) == IF value = NULL THEN <<>> ELSE <<[type |-> type, value |-> value]>>
    IN  Attribute("IFA_ADDRESS", e.address) \o Attribute("IFA_LOCAL", e.local)
            \o Attribute("IFA_LABEL", e.label)

(* mnlxt_rt_addr_data() up to the attributes, for the address requested or *)
(* for another one, which others may have put in its place.                *)
ParseHeader(s) ==
    /\ Calling
    /\ obj[s] = NULL
    /\ \E e \in KernelAddresses, match \in {request, NULL} :
          /\ match # NULL => MadeOf(e, Put(obj[match]))
          /\ obj' = [obj EXCEPT ![s] = WithPrefixlen(New, e.prefixlen)]
          /\ parse' = [slot |-> s, family |-> e.family, rest |-> AttributesOf(e),
                       match |-> match]
    /\ UNCHANGED <<strings, request>>

Parsing(s) == parse # NULL /\ parse.slot = s

ParseAttribute(s) ==
    /\ Parsing(s)
    /\ parse.rest # <<>>
    /\ LET attribute == Head(parse.rest)
           a == obj[s]
           family == parse.family
       IN  /\ \/ /\ attribute.type = "IFA_ADDRESS"
                 /\ obj' = [obj EXCEPT ![s] = WithAddr(a, family, attribute.value)]
                 /\ UNCHANGED strings
              \/ /\ attribute.type = "IFA_LOCAL"
                 /\ obj' = [obj EXCEPT ![s] = WithLocal(a, family, attribute.value)]
                 /\ UNCHANGED strings
              \/ /\ attribute.type = "IFA_LABEL"
                 /\ \E cell \in {c \in Cells : strings[c] = NULL} :
                       /\ Store(cell, attribute.value, a.label)
                       /\ obj' = [obj EXCEPT ![s] = WithLabel(a, cell)]
    /\ parse' = [parse EXCEPT !.rest = Tail(@)]
    /\ UNCHANGED request

(* Mutant: the caller gets what there is of the address. *)
ParseFailsKeeps(s) ==
    /\ Parsing(s)
    /\ parse' = NULL
    /\ UNCHANGED <<obj, strings, request>>

(* An attribute does not validate, or memory is short: "goto end". *)
ParseFails(s) ==
    /\ Parsing(s)
    /\ FreeLabel(obj[s])
    /\ obj' = [obj EXCEPT ![s] = NULL]
    /\ parse' = NULL
    /\ UNCHANGED request

(* The message is stored, and the caller takes the address out of it. *)
ParseEnd(s) ==
    /\ Parsing(s)
    /\ parse.rest = <<>>
    /\ parse' = NULL
    /\ UNCHANGED <<obj, strings, request>>

Next ==
    \E s \in Slots :
        \/ AddrNew(s)
        \/ SetFamily(s)
        \/ SetPrefixlen(s)
        \/ SetAddr(s)
        \/ SetLocal(s)
        \/ SetLabel(s)
        \/ \E t \in Slots : Clone(s, t)
        \/ AddrFree(s)
        \/ Request(s)
        \/ ParseHeader(s)
        \/ ParseAttribute(s)
        \/ ParseFails(s)
        \/ ParseEnd(s)

Spec == Init /\ [][Next]_vars

-----------------------------------------------------------------------------
(* Properties.                                                             *)

(* Every label on the heap belongs to one object, every label an object    *)
(* points to is allocated, and an object has one if it is flagged: nothing *)
(* leaks, is freed twice or used after it was freed, whichever setters,    *)
(* clones and failed parses there were.                                    *)
LabelsOwned ==
    /\ \A s \in Slots :
          obj[s] # NULL =>
              /\ obj[s].label # NULL <=> "LABEL" \in obj[s].props
              /\ obj[s].label # NULL => strings[obj[s].label] # NULL
    /\ \A s, t \in Slots :
          obj[s] # NULL /\ obj[t] # NULL /\ obj[s].label # NULL =>
              (obj[s].label = obj[t].label => s = t)
    /\ \A c \in Cells :
          strings[c] # NULL => \E s \in Slots : obj[s] # NULL /\ obj[s].label = c

(* An address the kernel has accepted and reports matches the object that  *)
(* was requested, by mnlxt_rt_addr_match() (rt_addr.h:268-283): what put   *)
(* writes and what the parse handler reads are the same properties.  IPv4  *)
(* addresses with a local address of their own are excepted, for which     *)
(* mnlxt_rt_addr_set_local() writes the other field (WithLocal), and what  *)
(* the kernel does not keep: the label of an IPv6 address, and a local     *)
(* IPv6 address without another peer.                                      *)
Kept(a) ==
    IF a.family = "inet"
    THEN "ADDR" \in a.props /\ a.addr = a.addr_local
    ELSE /\ "LABEL" \notin a.props
         /\ "ADDR" \in a.props
         /\ "LOCAL" \in a.props => a.addr # a.addr_local

DumpedAsRequested ==
    parse # NULL /\ parse.rest = <<>> /\ parse.match # NULL =>
        LET requested == obj[parse.match]
        IN  requested # NULL /\ Kept(requested) =>
                Match(Content(obj[parse.slot]), Content(requested))

(* Addresses as values: what setters, clones and reads are to make. *)
AddrSets(a, b) ==
    \/ \E len \in Lens : b = WithPrefixlen(a, len)
    \/ \E label \in Labels : b = WithLabel(a, label)
    \/ \E family \in Families :
          /\ FamilyAllows(a, family)
          /\ \/ b = WithFamily(a, family)
             \/ \E ip \in Ips : b \in {WithAddr(a, family, ip), WithLocal(a, family, ip)}

AddrCopied(a, props) ==
    IF props = {} THEN New
    ELSE [a EXCEPT !.props = props, !.label = IF "LABEL" \in props THEN @ ELSE NULL]

AddrCopies(a) == {AddrCopied(a, a.props \cap filter) : filter \in SUBSET Props}

(* What is read of e after its header and each of its attributes. *)
AddrHeader(e) == WithPrefixlen(New, e.prefixlen)
AddrAddress(e) == WithAddr(AddrHeader(e), e.family, e.address)
AddrLocal(e) == WithLocal(AddrAddress(e), e.family, e.local)
AddrLabel(e) == WithLabel(AddrLocal(e), e.label)

AddrOf(e) ==
    CASE e.family = "inet" -> AddrLabel(e)
      [] e.family = "inet6" /\ e.local # NULL -> AddrLocal(e)
      [] e.family = "inet6" /\ e.local = NULL -> AddrAddress(e)

(* The object that is being parsed is not the caller's yet. *)
AddrView ==
    [s \in Slots |-> IF obj[s] = NULL \/ Parsing(s) THEN NULL ELSE Content(obj[s])]

AddrAsValues == INSTANCE ValueObjects WITH
    Fresh <- New, Sets <- AddrSets, Copies <- AddrCopies,
    Readable <- {AddrOf(e) : e \in KernelAddresses}, value <- AddrView

(* Addresses are values: whatever is done to one, another one keeps its    *)
(* content, the label on the heap included, and mnlxt_rt_addr_data() gives *)
(* the caller the whole address of the kernel's or none.                   *)
AddrsAreValues == AddrAsValues!Spec

-----------------------------------------------------------------------------
(* The inductive invariant behind LabelsOwned: an object that is being     *)
(* parsed is there.                                                        *)

ParseInv == parse # NULL => obj[parse.slot] # NULL

AInv == TypeOK /\ LabelsOwned /\ ParseInv
=============================================================================
