---------------------------- MODULE RtAddrProofs ----------------------------
(***************************************************************************)
(* The labels of address objects have one owner each, for any number of    *)
(* objects and labels: RtAddr's AInv is inductive.  An action does one of  *)
(* three things to the heap, each treated in a lemma of its own.           *)
(*                                                                         *)
(* An address that is requested is read back as it was: DumpInv adds, for  *)
(* every place in the message, what the parse handler has read so far.     *)
(***************************************************************************)
EXTENDS RtAddr, SequenceTheorems, TLAPS

(* The label of a slot, NULL also when there is no object. *)
LabelOf(s) == IF obj[s] = NULL THEN NULL ELSE obj[s].label

(* An object and its label flag agree. *)
Flagged(a) == a.label # NULL <=> "LABEL" \in a.props

LEMMA NullIsNone ==
    /\ NULL \notin Objects
    /\ NULL \notin Messages
    /\ NULL \notin Cells
    /\ NULL \notin Labels
    /\ NULL \notin Slots
  BY RtAddrAssumption

LEMMA NewObject == New \in Objects /\ New.label = NULL /\ New.props = {}
  BY DEF New, Objects, Props, Families

(* Slot s gets an object with the label it had, or none if it had none. *)
LEMMA KeepLabel ==
    ASSUME TypeOK, LabelsOwned, NEW s \in Slots, NEW a \in Objects \cup {NULL},
           obj' = [obj EXCEPT ![s] = a],
           strings' = strings,
           a = NULL => LabelOf(s) = NULL,
           a # NULL => a.label = LabelOf(s) /\ Flagged(a)
    PROVE  LabelsOwned'
  BY NullIsNone DEF TypeOK, LabelsOwned, LabelOf, Flagged, Objects

(* The label of slot s is replaced by a new one, or was none. *)
LEMMA NewLabel ==
    ASSUME TypeOK, LabelsOwned, NEW s \in Slots, NEW a \in Objects,
           NEW cell \in Cells, strings[cell] = NULL, NEW label \in Labels,
           obj' = [obj EXCEPT ![s] = a],
           Store(cell, label, LabelOf(s)),
           a.label = cell,
           Flagged(a)
    PROVE  LabelsOwned'
  BY NullIsNone DEF TypeOK, LabelsOwned, LabelOf, Flagged, Objects, Store

(* The object of slot s is freed with its label. *)
LEMMA DropLabel ==
    ASSUME TypeOK, LabelsOwned, NEW s \in Slots, obj[s] # NULL,
           obj' = [obj EXCEPT ![s] = NULL],
           FreeLabel(obj[s])
    PROVE  LabelsOwned'
  BY NullIsNone DEF TypeOK, LabelsOwned, LabelOf, Flagged, Objects, FreeLabel

-----------------------------------------------------------------------------
(* The setters leave the label alone.                                      *)

SetBy(a, b) == b \in Objects /\ b.label = a.label /\ (Flagged(a) => Flagged(b))

LEMMA SetterFamily ==
    ASSUME NEW a \in Objects, NEW family \in Families
    PROVE  SetBy(a, WithFamily(a, family))
  BY DEF SetBy, Flagged, WithFamily, Objects, Props, Families

LEMMA SetterPrefixlen ==
    ASSUME NEW a \in Objects, NEW len \in Lens \cup {0}
    PROVE  SetBy(a, WithPrefixlen(a, len))
  BY DEF SetBy, Flagged, WithPrefixlen, Objects, Props

LEMMA SetterAddr ==
    ASSUME NEW a \in Objects, NEW family \in Families, NEW ip \in Ips
    PROVE  SetBy(a, WithAddr(a, family, ip))
  BY DEF SetBy, Flagged, WithAddr, WithFamily, Objects, Props, Families

LEMMA SetterLocal ==
    ASSUME NEW a \in Objects, NEW family \in Families, NEW ip \in Ips
    PROVE  SetBy(a, WithLocal(a, family, ip))
  BY DEF SetBy, Flagged, WithLocal, WithFamily, Objects, Props, Families

(* A setter on slot s preserves the invariant. *)
LEMMA SetterStep ==
    ASSUME AInv, NEW s \in Slots, obj[s] # NULL, NEW b, SetBy(obj[s], b), Set(s, b),
           UNCHANGED strings
    PROVE  AInv'
<1>1. obj[s] \in Objects /\ b \in Objects /\ b # NULL
  BY NullIsNone DEF AInv, TypeOK, SetBy
<1>2. LabelsOwned'
  <2>1. b.label = LabelOf(s) /\ Flagged(b)
    BY <1>1 DEF AInv, LabelsOwned, SetBy, LabelOf, Flagged
  <2> QED
    BY <1>1, <2>1, KeepLabel DEF AInv, Set
<1>3. TypeOK'
  BY <1>1 DEF AInv, TypeOK, Set, Touched
<1>4. ParseInv'
  BY DEF ParseInv, Set, Calling
<1> QED
  BY <1>2, <1>3, <1>4 DEF AInv

-----------------------------------------------------------------------------
(* The caller's actions.                                                   *)

LEMMA InitStep == ASSUME Init PROVE AInv
  BY NullIsNone DEF Init, AInv, TypeOK, LabelsOwned, ParseInv

LEMMA AddrNewStep ==
    ASSUME AInv, NEW s \in Slots, AddrNew(s)
    PROVE  AInv'
<1>1. LabelsOwned'
  BY NullIsNone, NewObject, KeepLabel DEF AInv, AddrNew, Set, LabelOf, Flagged
<1>2. TypeOK'
  BY NewObject DEF AInv, TypeOK, AddrNew, Set, Touched
<1>3. ParseInv'
  BY DEF AddrNew, ParseInv, Set, Calling
<1> QED
  BY <1>1, <1>2, <1>3 DEF AInv

LEMMA SetFamilyStep ==
    ASSUME AInv, NEW s \in Slots, SetFamily(s)
    PROVE  AInv'
<1>1. PICK family \in Families : Set(s, WithFamily(obj[s], family))
  BY DEF SetFamily, FamilyAllows
<1>2. obj[s] \in Objects
  BY DEF SetFamily, AInv, TypeOK
<1> QED
  BY <1>1, <1>2, SetterFamily, SetterStep DEF SetFamily, AInv, TypeOK

LEMMA SetPrefixlenStep ==
    ASSUME AInv, NEW s \in Slots, SetPrefixlen(s)
    PROVE  AInv'
<1>1. PICK len \in Lens : Set(s, WithPrefixlen(obj[s], len))
  BY DEF SetPrefixlen
<1>2. obj[s] \in Objects
  BY DEF SetPrefixlen, AInv, TypeOK
<1> QED
  BY <1>1, <1>2, SetterPrefixlen, SetterStep DEF SetPrefixlen, AInv, TypeOK

LEMMA SetAddrStep ==
    ASSUME AInv, NEW s \in Slots, SetAddr(s)
    PROVE  AInv'
<1>1. PICK family \in Families, ip \in Ips : Set(s, WithAddr(obj[s], family, ip))
  BY DEF SetAddr, FamilyAllows
<1>2. obj[s] \in Objects
  BY DEF SetAddr, AInv, TypeOK
<1> QED
  BY <1>1, <1>2, SetterAddr, SetterStep DEF SetAddr, AInv, TypeOK

LEMMA SetLocalStep ==
    ASSUME AInv, NEW s \in Slots, SetLocal(s)
    PROVE  AInv'
<1>1. PICK family \in Families, ip \in Ips : Set(s, WithLocal(obj[s], family, ip))
  BY DEF SetLocal, FamilyAllows
<1>2. obj[s] \in Objects
  BY DEF SetLocal, AInv, TypeOK
<1> QED
  BY <1>1, <1>2, SetterLocal, SetterStep DEF SetLocal

(* An object with another label, the old one freed. *)
LEMMA Relabelled ==
    ASSUME NEW a \in Objects, NEW cell \in Cells
    PROVE  LET b == WithLabel(a, cell)
           IN  b \in Objects /\ b.label = cell /\ Flagged(b)
  BY NullIsNone DEF WithLabel, Objects, Props, Flagged

LEMMA StoreType ==
    ASSUME TypeOK, NEW cell \in Cells, NEW label \in Labels, NEW old, Store(cell, label, old)
    PROVE  strings' \in [Cells -> Labels \cup {NULL}]
  BY DEF TypeOK, Store

LEMMA FreeLabelType ==
    ASSUME TypeOK, NEW a, FreeLabel(a)
    PROVE  strings' \in [Cells -> Labels \cup {NULL}]
  BY DEF TypeOK, FreeLabel

LEMMA SetLabelStep ==
    ASSUME AInv, NEW s \in Slots, SetLabel(s)
    PROVE  AInv'
<1> DEFINE b(cell) == WithLabel(obj[s], cell)
<1>1. PICK label \in Labels, cell \in Cells :
          /\ strings[cell] = NULL
          /\ Store(cell, label, obj[s].label)
          /\ Set(s, b(cell))
  BY DEF SetLabel
<1>2. obj[s] \in Objects /\ LabelOf(s) = obj[s].label
  BY DEF SetLabel, AInv, TypeOK, LabelOf
<1>3. b(cell) \in Objects /\ b(cell).label = cell /\ Flagged(b(cell))
  BY <1>2, Relabelled
<1> HIDE DEF b
<1>4. LabelsOwned'
  BY <1>1, <1>2, <1>3, NewLabel DEF AInv, Set
<1>5. strings' \in [Cells -> Labels \cup {NULL}]
  BY <1>1, StoreType DEF AInv
<1>6. TypeOK'
  BY <1>1, <1>3, <1>5 DEF AInv, TypeOK, SetLabel, Set, Touched
<1>7. ParseInv'
  BY <1>1 DEF ParseInv, Set, Calling
<1> QED
  BY <1>4, <1>6, <1>7 DEF AInv

LEMMA AddrFreeStep ==
    ASSUME AInv, NEW s \in Slots, AddrFree(s)
    PROVE  AInv'
<1>1. LabelsOwned'
  BY DropLabel DEF AInv, AddrFree, Set
<1>2. strings' \in [Cells -> Labels \cup {NULL}]
  BY FreeLabelType DEF AInv, AddrFree
<1>3. TypeOK'
  BY <1>2 DEF AInv, TypeOK, AddrFree, Set, Touched
<1>4. ParseInv'
  BY DEF AddrFree, ParseInv, Set, Calling
<1> QED
  BY <1>1, <1>3, <1>4 DEF AInv

(* A clone with its own copy of the label, or none. *)
LEMMA Cloned ==
    ASSUME NEW a \in Objects, NEW props \in SUBSET Props, NEW l \in Cells \cup {NULL},
           l # NULL <=> "LABEL" \in props
    PROVE  LET b == [a EXCEPT !.props = props, !.label = l]
           IN  b \in Objects /\ b.label = l /\ Flagged(b)
  BY DEF Objects, Props, Flagged

LEMMA CloneStep ==
    ASSUME AInv, NEW s \in Slots, NEW t \in Slots, Clone(s, t)
    PROVE  AInv'
<1>1. obj[s] \in Objects /\ obj[s] # NULL /\ obj[t] = NULL /\ LabelOf(t) = NULL
  BY DEF AInv, TypeOK, Clone, LabelOf
<1> DEFINE b(p, l) == [obj[s] EXCEPT !.props = p, !.label = l]
<1>2. PICK filter \in SUBSET Props :
          LET props == obj[s].props \cap filter
          IN  \/ /\ props = {}
                 /\ Set(t, New)
                 /\ UNCHANGED strings
              \/ /\ props # {}
                 /\ "LABEL" \notin props
                 /\ Set(t, b(props, NULL))
                 /\ UNCHANGED strings
              \/ /\ "LABEL" \in props
                 /\ \E cell \in {c \in Cells : strings[c] = NULL} :
                       /\ Store(cell, strings[obj[s].label], NULL)
                       /\ Set(t, b(props, cell))
  BY DEF Clone
<1> DEFINE props == obj[s].props \cap filter
<1>3. props \in SUBSET Props
  OBVIOUS
<1>4. ParseInv'
  BY <1>2 DEF ParseInv, Set, Calling
<1>5. CASE props = {} /\ Set(t, New) /\ UNCHANGED strings
  <2>1. LabelsOwned'
    BY <1>1, <1>5, NullIsNone, NewObject, KeepLabel DEF AInv, Set, Flagged
  <2>2. TypeOK'
    BY <1>5, NewObject DEF AInv, TypeOK, Set, Touched
  <2> QED
    BY <1>4, <2>1, <2>2 DEF AInv
<1>6. CASE "LABEL" \notin props /\ Set(t, b(props, NULL)) /\ UNCHANGED strings
  <2>1. b(props, NULL) \in Objects /\ b(props, NULL).label = NULL /\ Flagged(b(props, NULL))
    BY <1>1, <1>3, <1>6, Cloned
  <2> HIDE DEF b
  <2>2. LabelsOwned'
    BY <1>1, <1>6, <2>1, NullIsNone, KeepLabel DEF AInv, Set
  <2>3. TypeOK'
    BY <1>6, <2>1 DEF AInv, TypeOK, Set, Touched
  <2> QED
    BY <1>4, <2>2, <2>3 DEF AInv
<1>7. CASE /\ "LABEL" \in props
           /\ \E cell \in {c \in Cells : strings[c] = NULL} :
                 /\ Store(cell, strings[obj[s].label], NULL)
                 /\ Set(t, b(props, cell))
  <2>1. PICK cell \in Cells : /\ strings[cell] = NULL
                              /\ Store(cell, strings[obj[s].label], NULL)
                              /\ Set(t, b(props, cell))
    BY <1>7
  <2>2. b(props, cell) \in Objects /\ b(props, cell).label = cell /\ Flagged(b(props, cell))
    BY <1>1, <1>3, <1>7, NullIsNone, Cloned
  <2>3. strings[obj[s].label] \in Labels
    BY <1>1, <1>7 DEF AInv, TypeOK, LabelsOwned, Objects
  <2> HIDE DEF b
  <2>4. LabelsOwned'
    BY <1>1, <2>1, <2>2, <2>3, NewLabel DEF AInv, Set
  <2>5. strings' \in [Cells -> Labels \cup {NULL}]
    BY <2>1, <2>3, StoreType DEF AInv
  <2>6. TypeOK'
    BY <2>1, <2>2, <2>5 DEF AInv, TypeOK, Set, Touched
  <2> QED
    BY <1>4, <2>4, <2>6 DEF AInv
<1> QED
  BY <1>2, <1>5, <1>6, <1>7

-----------------------------------------------------------------------------
(* Requests and the parse handler.                                         *)

LEMMA RequestStep ==
    ASSUME AInv, NEW s \in Slots, Request(s)
    PROVE  AInv'
  BY DEF Request, AInv, TypeOK, LabelsOwned, ParseInv

LEMMA Singleton ==
    ASSUME NEW S, NEW x \in S
    PROVE  <<x>> \in Seq(S)
  OBVIOUS

LEMMA AttributesType ==
    ASSUME NEW e \in KernelAddresses
    PROVE  AttributesOf(e) \in Seq(Attributes)
<1> DEFINE One(type, value) ==
               IF value = NULL THEN <<>> ELSE <<[type |-> type, value |-> value]>>
<1>1. /\ e.address \in Ips
      /\ e.local \in Ips \cup {NULL}
      /\ e.label \in Labels \cup {NULL}
  BY DEF KernelAddresses, Entries
<1> DEFINE Attribute(type, value) == [type |-> type, value |-> value]
<1>0. <<>> \in Seq(Attributes)
  OBVIOUS
<1>2. One("IFA_ADDRESS", e.address) \in Seq(Attributes)
  <2>1. Attribute("IFA_ADDRESS", e.address) \in Attributes
    BY <1>1 DEF Attributes
  <2> QED
    BY <1>0, <2>1, Singleton
<1>3. One("IFA_LOCAL", e.local) \in Seq(Attributes)
  <2>1. e.local # NULL => Attribute("IFA_LOCAL", e.local) \in Attributes
    BY <1>1 DEF Attributes
  <2> QED
    BY <1>0, <2>1, Singleton
<1>4. One("IFA_LABEL", e.label) \in Seq(Attributes)
  <2>1. e.label # NULL => Attribute("IFA_LABEL", e.label) \in Attributes
    BY <1>1 DEF Attributes
  <2> QED
    BY <1>0, <2>1, Singleton
<1>5. AttributesOf(e) = One("IFA_ADDRESS", e.address) \o One("IFA_LOCAL", e.local)
                            \o One("IFA_LABEL", e.label)
  BY DEF AttributesOf
<1> HIDE DEF One
<1> QED
  BY <1>2, <1>3, <1>4, <1>5

LEMMA ParseHeaderStep ==
    ASSUME AInv, NEW s \in Slots, ParseHeader(s)
    PROVE  AInv'
<1>1. PICK e \in KernelAddresses, match \in {request, NULL} :
          /\ obj' = [obj EXCEPT ![s] = WithPrefixlen(New, e.prefixlen)]
          /\ parse' = [slot |-> s, family |-> e.family, rest |-> AttributesOf(e),
                       match |-> match]
  BY DEF ParseHeader
<1>2. e.prefixlen \in Lens \cup {0} /\ e.family \in Families
  BY DEF KernelAddresses, Entries
<1>3. SetBy(New, WithPrefixlen(New, e.prefixlen))
  BY <1>2, NewObject, SetterPrefixlen
<1>4. LabelsOwned'
  BY <1>1, <1>3, NullIsNone, NewObject, KeepLabel
     DEF AInv, ParseHeader, SetBy, LabelOf, Flagged
<1>5. parse' \in Messages
  BY <1>1, <1>2, AttributesType DEF AInv, TypeOK, Messages
<1>6. TypeOK'
  BY <1>1, <1>3, <1>5 DEF AInv, TypeOK, ParseHeader, SetBy
<1>7. ParseInv'
  BY <1>1, <1>3, NullIsNone DEF AInv, TypeOK, ParseInv, SetBy
<1> QED
  BY <1>4, <1>6, <1>7 DEF AInv

(* What the parser knows of its message. *)
LEMMA ParsingFacts ==
    ASSUME AInv, NEW s \in Slots, Parsing(s)
    PROVE  /\ parse \in Messages
           /\ obj[s] \in Objects
           /\ parse.family \in Families
           /\ parse.rest \in Seq(Attributes)
  BY DEF AInv, TypeOK, ParseInv, Parsing, Messages

LEMMA ParseAttributeStep ==
    ASSUME AInv, NEW s \in Slots, ParseAttribute(s)
    PROVE  AInv'
<1> DEFINE attribute == Head(parse.rest)
           labelled(cell) == WithLabel(obj[s], cell)
<1>1. Parsing(s) /\ parse.rest # <<>>
  BY DEF ParseAttribute
<1>2. /\ parse \in Messages
      /\ obj[s] \in Objects
      /\ parse.family \in Families
      /\ parse.rest \in Seq(Attributes)
  BY <1>1, ParsingFacts
<1>3. attribute \in Attributes /\ Tail(parse.rest) \in Seq(Attributes)
  BY <1>1, <1>2
<1>4. obj[s] # NULL /\ LabelOf(s) = obj[s].label /\ Flagged(obj[s])
  BY <1>2, NullIsNone DEF AInv, LabelsOwned, LabelOf, Flagged
<1>5. parse' \in Messages /\ parse'.slot = s
  BY <1>1, <1>2, <1>3 DEF ParseAttribute, Messages, Parsing
<1> SUFFICES /\ obj' \in [Slots -> Objects \cup {NULL}]
             /\ obj'[s] # NULL
             /\ strings' \in [Cells -> Labels \cup {NULL}]
             /\ LabelsOwned'
  BY <1>5 DEF AInv, TypeOK, ParseInv, ParseAttribute
<1>6. CASE /\ attribute.type = "IFA_ADDRESS"
           /\ obj' = [obj EXCEPT ![s] = WithAddr(obj[s], parse.family, attribute.value)]
           /\ UNCHANGED strings
  <2>1. attribute.value \in Ips
    BY <1>3, <1>6 DEF Attributes
  <2>2. SetBy(obj[s], WithAddr(obj[s], parse.family, attribute.value))
    BY <1>2, <2>1, SetterAddr
  <2> QED
    BY <1>4, <1>6, <2>2, NullIsNone, KeepLabel DEF AInv, TypeOK, SetBy
<1>7. CASE /\ attribute.type = "IFA_LOCAL"
           /\ obj' = [obj EXCEPT ![s] = WithLocal(obj[s], parse.family, attribute.value)]
           /\ UNCHANGED strings
  <2>1. attribute.value \in Ips
    BY <1>3, <1>7 DEF Attributes
  <2>2. SetBy(obj[s], WithLocal(obj[s], parse.family, attribute.value))
    BY <1>2, <2>1, SetterLocal
  <2> QED
    BY <1>4, <1>7, <2>1, <2>2, NullIsNone, KeepLabel DEF AInv, TypeOK, SetBy
<1>8. CASE /\ attribute.type = "IFA_LABEL"
           /\ \E cell \in {c \in Cells : strings[c] = NULL} :
                 /\ Store(cell, attribute.value, obj[s].label)
                 /\ obj' = [obj EXCEPT ![s] = labelled(cell)]
  <2>1. attribute.value \in Labels
    BY <1>3, <1>8 DEF Attributes
  <2>2. PICK cell \in Cells : /\ strings[cell] = NULL
                              /\ Store(cell, attribute.value, obj[s].label)
                              /\ obj' = [obj EXCEPT ![s] = labelled(cell)]
    BY <1>8
  <2>3. labelled(cell) \in Objects /\ labelled(cell).label = cell /\ Flagged(labelled(cell))
    BY <1>2, Relabelled
  <2> HIDE DEF labelled, attribute
  <2>4. LabelsOwned'
    BY <1>4, <2>1, <2>2, <2>3, NewLabel DEF AInv
  <2>5. strings' \in [Cells -> Labels \cup {NULL}]
    BY <2>1, <2>2, StoreType DEF AInv
  <2> QED
    BY <1>8, <2>2, <2>3, <2>4, <2>5, NullIsNone DEF AInv, TypeOK
<1> QED
  BY <1>6, <1>7, <1>8 DEF ParseAttribute

LEMMA ParseFailsStep ==
    ASSUME AInv, NEW s \in Slots, ParseFails(s)
    PROVE  AInv'
<1>1. obj[s] # NULL
  BY ParsingFacts, NullIsNone DEF ParseFails
<1>2. LabelsOwned'
  BY <1>1, DropLabel DEF AInv, ParseFails
<1>3. strings' \in [Cells -> Labels \cup {NULL}]
  BY FreeLabelType DEF AInv, ParseFails
<1>4. TypeOK'
  BY <1>3 DEF AInv, TypeOK, ParseFails
<1>5. ParseInv'
  BY DEF ParseFails, ParseInv
<1> QED
  BY <1>2, <1>4, <1>5 DEF AInv

LEMMA ParseEndStep ==
    ASSUME AInv, NEW s \in Slots, ParseEnd(s)
    PROVE  AInv'
  BY DEF ParseEnd, AInv, TypeOK, LabelsOwned, ParseInv

-----------------------------------------------------------------------------

LEMMA Step == AInv /\ [Next]_vars => AInv'
<1> SUFFICES ASSUME AInv, [Next]_vars PROVE AInv'
  OBVIOUS
<1>1. CASE UNCHANGED vars
  BY <1>1 DEF vars, AInv, TypeOK, LabelsOwned, ParseInv
<1>2. CASE Next
  <2>1. PICK s \in Slots :
            \/ AddrNew(s)
            \/ SetFamily(s)
            \/ SetPrefixlen(s)
            \/ SetAddr(s)
            \/ SetLocal(s)
            \/ SetLabel(s)
            \/ \E t \in Slots : Clone(s, t)
            \/ AddrFree(s)
            \/ Request(s)
            \/ ParseHeader(s)
            \/ ParseAttribute(s)
            \/ ParseFails(s)
            \/ ParseEnd(s)
    BY <1>2 DEF Next
  <2> QED
    BY <2>1, AddrNewStep, SetFamilyStep, SetPrefixlenStep, SetAddrStep, SetLocalStep,
       SetLabelStep, CloneStep, AddrFreeStep, RequestStep, ParseHeaderStep,
       ParseAttributeStep, ParseFailsStep, ParseEndStep
<1> QED
  BY <1>1, <1>2

(* AInv is an invariant of every sequence of calls, however many objects,  *)
(* addresses and labels there are.                                         *)
THEOREM AddrInvariance == Spec => []AInv
<1>1. Init => AInv
  BY InitStep
<1> QED
  BY <1>1, Step, PTL DEF Spec

(* mnlxt_rt_addr_t objects keep to their types. *)
THEOREM AddrTyped == Spec => []TypeOK
  BY AddrInvariance, PTL DEF AInv

(* mnlxt_rt_addr_set_label(), _clone(), _free() and the parse handler      *)
(* leave every label with exactly one owner.                               *)
THEOREM LabelsHaveOneOwner == Spec => []LabelsOwned
  BY AddrInvariance, PTL DEF AInv

-----------------------------------------------------------------------------
(* What the parse handler has read of an address e of the kernel's before  *)
(* each attribute.                                                         *)

HeaderRead(a, e) ==
    /\ a \in Objects
    /\ "PREFIXLEN" \in a.props /\ a.prefixlen = e.prefixlen
    /\ "LOCAL" \notin a.props
    /\ a.label = NULL

AddressRead(a, e) ==
    /\ a \in Objects
    /\ "PREFIXLEN" \in a.props /\ a.prefixlen = e.prefixlen
    /\ "FAMILY" \in a.props /\ a.family = e.family
    /\ "ADDR" \in a.props /\ a.addr = e.address
    /\ e.family = "inet" => "LOCAL" \in a.props /\ a.addr_local = e.address

(* mnlxt_rt_addr_set_local() has put the local IPv4 address into addr. *)
LocalRead(a, e) ==
    /\ a \in Objects
    /\ "PREFIXLEN" \in a.props /\ a.prefixlen = e.prefixlen
    /\ "FAMILY" \in a.props /\ a.family = e.family
    /\ "ADDR" \in a.props /\ a.addr = IF e.family = "inet" THEN e.local ELSE e.address
    /\ "LOCAL" \in a.props /\ a.addr_local = IF e.family = "inet" THEN e.address ELSE e.local

LabelRead(a, e) ==
    /\ LocalRead(a, e)
    /\ "LABEL" \in a.props /\ a.label \in Cells /\ strings[a.label] = e.label

AddressOf(e) == [type |-> "IFA_ADDRESS", value |-> e.address]
LocalOf(e) == [type |-> "IFA_LOCAL", value |-> e.local]
LabelledBy(e) == [type |-> "IFA_LABEL", value |-> e.label]

(* The attributes that are left, and the object so far. *)
ReadSoFar(a, rest, e) ==
    \/ /\ e.family = "inet"
       /\ \/ rest = <<AddressOf(e), LocalOf(e), LabelledBy(e)>> /\ HeaderRead(a, e)
          \/ rest = <<LocalOf(e), LabelledBy(e)>> /\ AddressRead(a, e) /\ a.label = NULL
          \/ rest = <<LabelledBy(e)>> /\ LocalRead(a, e) /\ a.label = NULL
          \/ rest = <<>> /\ LabelRead(a, e)
    \/ /\ e.family = "inet6" /\ e.local = NULL
       /\ \/ rest = <<AddressOf(e)>> /\ HeaderRead(a, e)
          \/ rest = <<>> /\ AddressRead(a, e)
    \/ /\ e.family = "inet6" /\ e.local # NULL
       /\ \/ rest = <<AddressOf(e), LocalOf(e)>> /\ HeaderRead(a, e)
          \/ rest = <<LocalOf(e)>> /\ AddressRead(a, e)
          \/ rest = <<>> /\ LocalRead(a, e)

(* The requested object stays where it is while its address is read. *)
RequestInv == request # NULL => obj[request] # NULL /\ (parse # NULL => parse.slot # request)

MatchInv ==
    parse # NULL /\ parse.match # NULL =>
        /\ obj[parse.match] # NULL
        /\ parse.match # parse.slot
        /\ \E e \in KernelAddresses :
              /\ MadeOf(e, Put(obj[parse.match]))
              /\ parse.family = e.family
              /\ ReadSoFar(obj[parse.slot], parse.rest, e)

DumpInv == AInv /\ RequestInv /\ MatchInv

(* What an address of the kernel's consists of. *)
(* Sequences of up to three attributes. *)
LEMMA Joined ==
    ASSUME NEW S, NEW x \in S, NEW y \in S, NEW z \in S
    PROVE  /\ <<x>> \o <<y>> \o <<z>> = <<x, y, z>>
           /\ <<x>> \o <<y>> \o <<>> = <<x, y>>
           /\ <<x>> \o <<>> \o <<>> = <<x>>
<1>1. /\ <<x>> \in Seq(S) /\ <<y>> \in Seq(S) /\ <<z>> \in Seq(S)
      /\ <<>> \in Seq(S) /\ <<x, y>> \in Seq(S) /\ <<x, y, z>> \in Seq(S)
  OBVIOUS
<1>2. <<x>> \o <<y>> = <<x, y>>
  <2>1. <<x>> \o <<y>> \in Seq(S) /\ Len(<<x>> \o <<y>>) = 2
    BY <1>1
  <2>2. (<<x>> \o <<y>>)[1] = x
    BY <1>1
  <2>3. (<<x>> \o <<y>>)[2] = y
    BY <1>1
  <2>4. \A i \in 1 .. 2 : (<<x>> \o <<y>>)[i] = <<x, y>>[i]
    BY <2>2, <2>3
  <2> QED
    BY <1>1, <2>1, <2>4, SeqEqual
<1>3. <<x, y>> \o <<z>> = <<x, y, z>>
  <2>1. <<x, y>> \o <<z>> \in Seq(S) /\ Len(<<x, y>> \o <<z>>) = 3
    BY <1>1
  <2>2. (<<x, y>> \o <<z>>)[1] = x
    BY <1>1
  <2>3. (<<x, y>> \o <<z>>)[2] = y
    BY <1>1
  <2>5. (<<x, y>> \o <<z>>)[3] = z
    BY <1>1
  <2>4. \A i \in 1 .. 3 : (<<x, y>> \o <<z>>)[i] = <<x, y, z>>[i]
    BY <2>2, <2>3, <2>5
  <2> QED
    BY <1>1, <2>1, <2>4, SeqEqual
<1>4. <<x, y>> \o <<>> = <<x, y>>
  BY <1>1
<1>5. <<x>> \o <<>> = <<x>>
  BY <1>1
<1> QED
  BY <1>2, <1>3, <1>4, <1>5, Zenon

LEMMA Tails ==
    ASSUME NEW x, NEW y, NEW z
    PROVE  /\ Head(<<x, y, z>>) = x /\ Tail(<<x, y, z>>) = <<y, z>>
           /\ Head(<<x, y>>) = x /\ Tail(<<x, y>>) = <<y>>
           /\ Head(<<x>>) = x /\ Tail(<<x>>) = <<>>
           /\ <<x>> # <<>> /\ <<x, y>> # <<>> /\ <<x, y, z>> # <<>>
  OBVIOUS

LEMMA KernelValues ==
    ASSUME NEW e \in KernelAddresses
    PROVE  /\ e.family \in {"inet", "inet6"} /\ e.prefixlen \in Lens \cup {0} /\ e.address \in Ips
           /\ e.local \in Ips \cup {NULL} /\ e.label \in Labels \cup {NULL}
           /\ e.family = "inet" => e.local # NULL /\ e.label # NULL
           /\ e.family = "inet6" => e.label = NULL
           /\ e.address # NULL
  BY NullIsNone, RtAddrAssumption DEF KernelAddresses, Entries, Families

-----------------------------------------------------------------------------
(* Every attribute is added to what has been read.                         *)

LEMMA AttributesAre ==
    ASSUME NEW e \in KernelAddresses
    PROVE  /\ e.family = "inet" =>
                  AttributesOf(e) = <<AddressOf(e), LocalOf(e), LabelledBy(e)>>
           /\ e.family = "inet6" /\ e.local # NULL =>
                  AttributesOf(e) = <<AddressOf(e), LocalOf(e)>>
           /\ e.family = "inet6" /\ e.local = NULL => AttributesOf(e) = <<AddressOf(e)>>
<1>1. /\ e.address # NULL
      /\ e.family = "inet" => e.local # NULL /\ e.label # NULL
      /\ e.family = "inet6" => e.label = NULL
  BY KernelValues
<1> DEFINE S == {AddressOf(e), LocalOf(e), LabelledBy(e)}
<1>2. AddressOf(e) \in S /\ LocalOf(e) \in S /\ LabelledBy(e) \in S
  OBVIOUS
<1> HIDE DEF S
<1>3. CASE e.family = "inet"
  <2>1. AttributesOf(e) = <<AddressOf(e)>> \o <<LocalOf(e)>> \o <<LabelledBy(e)>>
    BY <1>1, <1>3 DEF AttributesOf, AddressOf, LocalOf, LabelledBy
  <2>2. AttributesOf(e) = <<AddressOf(e), LocalOf(e), LabelledBy(e)>>
    BY <2>1, <1>2, Joined, Zenon
  <2> QED
    BY <1>3, <2>2
<1>4. CASE e.family = "inet6" /\ e.local # NULL
  <2>1. AttributesOf(e) = <<AddressOf(e)>> \o <<LocalOf(e)>> \o <<>>
    BY <1>1, <1>4 DEF AttributesOf, AddressOf, LocalOf
  <2>2. AttributesOf(e) = <<AddressOf(e), LocalOf(e)>>
    BY <2>1, <1>2, Joined, Zenon
  <2> QED
    BY <1>4, <2>2
<1>5. CASE e.family = "inet6" /\ e.local = NULL
  <2>1. AttributesOf(e) = <<AddressOf(e)>> \o <<>> \o <<>>
    BY <1>1, <1>5 DEF AttributesOf, AddressOf
  <2>2. AttributesOf(e) = <<AddressOf(e)>>
    BY <2>1, <1>2, Joined, Zenon
  <2> QED
    BY <1>5, <2>2
<1> QED
  BY <1>3, <1>4, <1>5

LEMMA HeaderIsRead ==
    ASSUME NEW e \in KernelAddresses
    PROVE  ReadSoFar(WithPrefixlen(New, e.prefixlen), AttributesOf(e), e)
<1> DEFINE a == WithPrefixlen(New, e.prefixlen)
<1>1. HeaderRead(a, e)
  BY KernelValues, NewObject DEF HeaderRead, WithPrefixlen, New, Objects, Props, Families
<1> HIDE DEF a
<1> QED
  BY <1>1, KernelValues, AttributesAre DEF ReadSoFar, a

LEMMA AddressIsRead ==
    ASSUME NEW e \in KernelAddresses, NEW a, HeaderRead(a, e)
    PROVE  AddressRead(WithAddr(a, e.family, e.address), e)
           /\ WithAddr(a, e.family, e.address).label = NULL
<1>1. a \in Objects /\ e.family \in Families /\ e.address \in Ips
  BY KernelValues DEF HeaderRead, Families
<1>2. WithAddr(a, e.family, e.address) \in Objects
  BY <1>1, SetterAddr DEF SetBy
<1> QED
  BY <1>1, <1>2 DEF HeaderRead, AddressRead, WithAddr, WithFamily, Objects, Props

LEMMA LocalIsRead ==
    ASSUME NEW e \in KernelAddresses, NEW a, AddressRead(a, e), e.local # NULL
    PROVE  LocalRead(WithLocal(a, e.family, e.local), e)
           /\ WithLocal(a, e.family, e.local).label = a.label
<1>1. a \in Objects /\ e.family \in Families /\ e.local \in Ips
  BY KernelValues DEF AddressRead, Families
<1>2. WithLocal(a, e.family, e.local) \in Objects
  BY <1>1, SetterLocal DEF SetBy
<1> QED
  BY <1>1, <1>2 DEF AddressRead, LocalRead, WithLocal, WithFamily, Objects, Props

LEMMA LabelIsRead ==
    ASSUME NEW e, NEW a, LocalRead(a, e), NEW cell \in Cells,
           NEW b, b = WithLabel(a, cell)
    PROVE  LocalRead(b, e)
  BY DEF WithLabel, LocalRead, Objects, Props

(* What the caller calls when nothing is parsed. *)
LEMMA SetDump ==
    ASSUME RequestInv, AInv, NEW s \in Slots, NEW a, Set(s, a)
    PROVE  RequestInv' /\ MatchInv'
<1>1. parse' = NULL
  BY DEF Set, Calling
<1>2. obj \in [Slots -> Objects \cup {NULL}] /\ request \in Slots \cup {NULL}
  BY DEF AInv, TypeOK
<1>3. RequestInv'
  BY <1>1, <1>2 DEF RequestInv, Set, Touched
<1> QED
  BY <1>1, <1>3 DEF MatchInv

LEMMA RequestDump ==
    ASSUME RequestInv, NEW s \in Slots, Request(s)
    PROVE  RequestInv' /\ MatchInv'
  BY DEF Request, Calling, RequestInv, MatchInv

LEMMA ParseHeaderDump ==
    ASSUME AInv, RequestInv, NEW s \in Slots, ParseHeader(s)
    PROVE  RequestInv' /\ MatchInv'
<1>1. PICK e \in KernelAddresses, match \in {request, NULL} :
          /\ match # NULL => MadeOf(e, Put(obj[match]))
          /\ obj' = [obj EXCEPT ![s] = WithPrefixlen(New, e.prefixlen)]
          /\ parse' = [slot |-> s, family |-> e.family, rest |-> AttributesOf(e),
                       match |-> match]
  BY DEF ParseHeader
<1>2. obj[s] = NULL /\ request' = request /\ strings' = strings
  BY DEF ParseHeader
<1>3. request \in Slots \cup {NULL} /\ obj \in [Slots -> Objects \cup {NULL}]
  BY DEF AInv, TypeOK
<1>4. request # NULL => request # s /\ obj'[request] = obj[request] /\ obj[request] # NULL
  BY <1>1, <1>2, <1>3 DEF RequestInv
<1>5. RequestInv'
  BY <1>1, <1>2, <1>4 DEF RequestInv
<1>6. ASSUME parse'.match # NULL
      PROVE  /\ MadeOf(e, Put(obj[match]))
             /\ obj[match] # NULL /\ obj'[match] = obj[match] /\ match # s
  BY <1>1, <1>4, <1>6
<1>7. ReadSoFar(WithPrefixlen(New, e.prefixlen), AttributesOf(e), e)
  BY HeaderIsRead
<1>8. ReadSoFar(obj[s], AttributesOf(e), e)'
  <2>1. obj'[s] = WithPrefixlen(New, e.prefixlen)
    BY <1>1, <1>3
  <2> QED
    BY <1>2, <1>7, <2>1 DEF ReadSoFar, HeaderRead, AddressRead, LocalRead, LabelRead
<1>9. ASSUME parse'.match # NULL
      PROVE  Put(obj[match])' = Put(obj[match])
  BY <1>1, <1>2, <1>6, <1>9 DEF Put
<1> QED
  BY <1>1, <1>5, <1>6, <1>8, <1>9 DEF MatchInv

(* The attribute is added to what has been read. *)
LEMMA AttributeIsRead ==
    ASSUME AInv, MatchInv, NEW s \in Slots, ParseAttribute(s),
           NEW e \in KernelAddresses, parse.family = e.family,
           ReadSoFar(obj[s], parse.rest, e)
    PROVE  /\ ReadSoFar(obj[s], parse.rest, e)'
           /\ \A t \in Slots : obj[t] # NULL /\ obj[t].label # NULL =>
                  t = s \/ strings'[obj[t].label] = strings[obj[t].label]
<1> DEFINE attribute == Head(parse.rest)
<1>1. /\ parse \in Messages /\ obj[s] \in Objects /\ obj \in [Slots -> Objects \cup {NULL}]
      /\ parse.rest # <<>> /\ parse'.rest = Tail(parse.rest)
  BY ParsingFacts DEF ParseAttribute, AInv, TypeOK, Messages
<1>8. /\ attribute.type = "IFA_ADDRESS" =>
             /\ obj' = [obj EXCEPT ![s] = WithAddr(obj[s], parse.family, attribute.value)]
             /\ strings' = strings
      /\ attribute.type = "IFA_LOCAL" =>
             /\ obj' = [obj EXCEPT ![s] = WithLocal(obj[s], parse.family, attribute.value)]
             /\ strings' = strings
      /\ attribute.type = "IFA_LABEL" =>
             \E cell \in {c \in Cells : strings[c] = NULL} :
                 /\ Store(cell, attribute.value, obj[s].label)
                 /\ obj' = [obj EXCEPT ![s] = WithLabel(obj[s], cell)]
  BY DEF ParseAttribute
<1> HIDE DEF attribute
<1>2. CASE parse.rest = <<AddressOf(e), LocalOf(e), LabelledBy(e)>> /\ e.family = "inet"
           /\ HeaderRead(obj[s], e)
  <2>1. attribute = AddressOf(e) /\ parse'.rest = <<LocalOf(e), LabelledBy(e)>>
    BY <1>1, <1>2, Tails DEF attribute
  <2>2. obj'[s] = WithAddr(obj[s], e.family, e.address) /\ strings' = strings
    BY <1>1, <1>8, <2>1 DEF AddressOf
  <2> QED
    BY <1>2, <2>1, <2>2, AddressIsRead DEF ReadSoFar, AddressRead
<1>3. CASE parse.rest = <<AddressOf(e)>> /\ e.family = "inet6" /\ e.local = NULL
           /\ HeaderRead(obj[s], e)
  <2>1. attribute = AddressOf(e) /\ parse'.rest = <<>>
    BY <1>1, <1>3, Tails DEF attribute
  <2>2. obj'[s] = WithAddr(obj[s], e.family, e.address) /\ strings' = strings
    BY <1>1, <1>8, <2>1 DEF AddressOf
  <2> QED
    BY <1>3, <2>1, <2>2, AddressIsRead DEF ReadSoFar, AddressRead
<1>4. CASE parse.rest = <<AddressOf(e), LocalOf(e)>> /\ e.family = "inet6" /\ e.local # NULL
           /\ HeaderRead(obj[s], e)
  <2>1. attribute = AddressOf(e) /\ parse'.rest = <<LocalOf(e)>>
    BY <1>1, <1>4, Tails DEF attribute
  <2>2. obj'[s] = WithAddr(obj[s], e.family, e.address) /\ strings' = strings
    BY <1>1, <1>8, <2>1 DEF AddressOf
  <2> QED
    BY <1>4, <2>1, <2>2, AddressIsRead DEF ReadSoFar, AddressRead
<1>5. CASE parse.rest = <<LocalOf(e), LabelledBy(e)>> /\ e.family = "inet"
           /\ AddressRead(obj[s], e) /\ obj[s].label = NULL
  <2>1. attribute = LocalOf(e) /\ parse'.rest = <<LabelledBy(e)>> /\ e.local # NULL
    BY <1>1, <1>5, Tails, KernelValues DEF attribute
  <2>2. obj'[s] = WithLocal(obj[s], e.family, e.local) /\ strings' = strings
    BY <1>1, <1>8, <2>1 DEF LocalOf
  <2> QED
    BY <1>5, <2>1, <2>2, LocalIsRead DEF ReadSoFar, LocalRead
<1>6. CASE parse.rest = <<LocalOf(e)>> /\ e.family = "inet6" /\ e.local # NULL
           /\ AddressRead(obj[s], e)
  <2>1. attribute = LocalOf(e) /\ parse'.rest = <<>>
    BY <1>1, <1>6, Tails DEF attribute
  <2>2. obj'[s] = WithLocal(obj[s], e.family, e.local) /\ strings' = strings
    BY <1>1, <1>8, <2>1 DEF LocalOf
  <2>3. LocalRead(WithLocal(obj[s], e.family, e.local), e)
    BY <1>6, LocalIsRead
  <2> QED
    BY <1>6, <2>1, <2>2, <2>3 DEF ReadSoFar, LocalRead
<1>7. CASE parse.rest = <<LabelledBy(e)>> /\ e.family = "inet"
           /\ LocalRead(obj[s], e) /\ obj[s].label = NULL
  <2>1. attribute = LabelledBy(e) /\ parse'.rest = <<>>
    BY <1>1, <1>7, Tails DEF attribute
  <2>2. PICK cell \in Cells :
            /\ strings[cell] = NULL
            /\ Store(cell, e.label, obj[s].label)
            /\ obj' = [obj EXCEPT ![s] = WithLabel(obj[s], cell)]
    BY <1>8, <2>1 DEF LabelledBy
  <2>3. obj'[s] = WithLabel(obj[s], cell)
    BY <1>1, <2>2
  <2>4. strings'[cell] = e.label /\ \A c \in Cells : c # cell => strings'[c] = strings[c]
    BY <1>7, <2>2, NullIsNone DEF Store
  <2>5. LocalRead(obj'[s], e) /\ "LABEL" \in obj'[s].props /\ obj'[s].label = cell
    <3>1. LocalRead(obj'[s], e)
      BY <1>7, <2>3, LabelIsRead
    <3> QED
      BY <1>1, <2>3, <3>1 DEF WithLabel, Objects
  <2>6. ReadSoFar(obj[s], parse.rest, e)'
    BY <1>7, <2>1, <2>4, <2>5 DEF ReadSoFar, LabelRead, LocalRead
  <2>7. \A t \in Slots : obj[t] # NULL /\ obj[t].label # NULL => obj[t].label \in Cells \ {cell}
    BY <2>2 DEF AInv, TypeOK, LabelsOwned, Objects
  <2> QED
    BY <2>4, <2>6, <2>7
<1> QED
  BY <1>1, <1>2, <1>3, <1>4, <1>5, <1>6, <1>7 DEF ReadSoFar

LEMMA ParseAttributeDump ==
    ASSUME AInv, RequestInv, MatchInv, NEW s \in Slots, ParseAttribute(s)
    PROVE  RequestInv' /\ MatchInv'
<1>1. /\ parse \in Messages /\ parse.slot = s /\ parse # NULL
      /\ parse' = [parse EXCEPT !.rest = Tail(@)] /\ request' = request
      /\ request \in Slots \cup {NULL} /\ obj \in [Slots -> Objects \cup {NULL}]
  BY ParsingFacts DEF ParseAttribute, Parsing, AInv, TypeOK
<1>2. \A t \in Slots : t # s => obj'[t] = obj[t]
  BY <1>1 DEF ParseAttribute
<1>3. parse'.slot = s /\ parse'.match = parse.match /\ parse'.family = parse.family
  BY <1>1 DEF Messages
<1>4. RequestInv'
  BY <1>1, <1>2, <1>3 DEF RequestInv
<1>5. ASSUME parse.match # NULL
      PROVE  MatchInv'
  <2>1. PICK e \in KernelAddresses :
            /\ MadeOf(e, Put(obj[parse.match]))
            /\ parse.family = e.family
            /\ ReadSoFar(obj[s], parse.rest, e)
    BY <1>1, <1>5 DEF MatchInv
  <2>2. obj[parse.match] # NULL /\ parse.match # s /\ parse.match \in Slots
    BY <1>1, <1>5 DEF MatchInv, Messages
  <2>3. /\ ReadSoFar(obj[s], parse.rest, e)'
        /\ obj[parse.match].label # NULL =>
               strings'[obj[parse.match].label] = strings[obj[parse.match].label]
    BY <2>1, <2>2, AttributeIsRead
  <2>4. obj'[parse.match] = obj[parse.match]
    BY <1>2, <2>2
  <2>5. "LABEL" \in obj[parse.match].props => obj[parse.match].label # NULL
    BY <2>2 DEF AInv, LabelsOwned
  <2>6. Put(obj[parse.match])' = Put(obj[parse.match])
    BY <1>3, <2>3, <2>4, <2>5 DEF Put
  <2> QED
    BY <1>1, <1>3, <2>1, <2>2, <2>3, <2>4, <2>6 DEF MatchInv
<1> QED
  BY <1>3, <1>4, <1>5 DEF MatchInv

LEMMA ParseFailsDump ==
    ASSUME AInv, RequestInv, NEW s \in Slots, ParseFails(s)
    PROVE  RequestInv' /\ MatchInv'
  BY DEF ParseFails, Parsing, AInv, TypeOK, RequestInv, MatchInv

LEMMA ParseEndDump ==
    ASSUME RequestInv, NEW s \in Slots, ParseEnd(s)
    PROVE  RequestInv' /\ MatchInv'
  BY DEF ParseEnd, RequestInv, MatchInv

LEMMA DumpStep == DumpInv /\ [Next]_vars => DumpInv'
<1> SUFFICES ASSUME AInv, RequestInv, MatchInv, [Next]_vars PROVE RequestInv' /\ MatchInv'
  BY Step DEF DumpInv
<1>1. CASE UNCHANGED vars
  <2>1. UNCHANGED <<obj, strings, parse, request>>
    BY <1>1 DEF vars
  <2>2. RequestInv'
    BY <2>1 DEF RequestInv
  <2>3. MatchInv'
    BY <2>1 DEF MatchInv, Put, ReadSoFar, LabelRead
  <2> QED
    BY <2>2, <2>3
<1>2. CASE Next
  <2>1. PICK s \in Slots :
            \/ \E t \in Slots : \E a : Set(t, a)
            \/ Request(s)
            \/ ParseHeader(s)
            \/ ParseAttribute(s)
            \/ ParseFails(s)
            \/ ParseEnd(s)
    <3>1. ASSUME NEW s \in Slots,
                 \/ AddrNew(s)
                 \/ SetFamily(s)
                 \/ SetPrefixlen(s)
                 \/ SetAddr(s)
                 \/ SetLocal(s)
                 \/ SetLabel(s)
                 \/ AddrFree(s)
          PROVE  \E a : Set(s, a)
      BY <3>1 DEF AddrNew, SetFamily, SetPrefixlen, SetAddr, SetLocal, SetLabel, AddrFree
    <3>2. ASSUME NEW s \in Slots, NEW t \in Slots, Clone(s, t)
          PROVE  \E a : Set(t, a)
      BY <3>2 DEF Clone
    <3> QED
      BY <1>2, <3>1, <3>2 DEF Next
  <2> QED
    BY <2>1, SetDump, RequestDump, ParseHeaderDump, ParseAttributeDump, ParseFailsDump,
       ParseEndDump
<1> QED
  BY <1>1, <1>2

(* What a message that is read to its end says of the object requested. *)
LEMMA ReadIsRequested ==
    ASSUME DumpInv, parse # NULL, parse.rest = <<>>, parse.match # NULL,
           Kept(obj[parse.match])
    PROVE  Match(Content(obj[parse.slot]), Content(obj[parse.match]))
<1> DEFINE a == obj[parse.slot]
           r == obj[parse.match]
<1>1. PICK e \in KernelAddresses : MadeOf(e, Put(r)) /\ ReadSoFar(a, <<>>, e)
  BY DEF DumpInv, MatchInv
<1>2. /\ r \in Objects /\ r # NULL
      /\ "LABEL" \in r.props => r.label # NULL /\ strings[r.label] # NULL
  BY DEF DumpInv, MatchInv, AInv, TypeOK, Messages, LabelsOwned
<1>3. a \in Objects /\ r.addr # NULL /\ r.addr_local # NULL
  BY <1>2, RtAddrAssumption DEF DumpInv, AInv, TypeOK, ParseInv, Messages, Objects
<1>4. /\ e.family \in {"inet", "inet6"}
      /\ e.family = "inet" => e.local # NULL /\ e.label # NULL
  BY KernelValues
<1> HIDE DEF a, r
<1>5. "FAMILY" \in r.props /\ r.family = e.family /\ "ADDR" \in r.props /\ e.address = r.addr
  BY <1>1, <1>2, <1>3, <1>4 DEF MadeOf, Put, Kept, r
<1>6. "PREFIXLEN" \in r.props => e.prefixlen = r.prefixlen
  BY <1>1 DEF MadeOf, Put
<1>7. \A prop \in Content(r).props :
          prop \in Content(a).props /\ ValueOf(Content(a), prop) = ValueOf(Content(r), prop)
  <2>1. CASE e.family = "inet"
    <3>1. LabelRead(a, e)
      BY <1>1, <2>1, Tails DEF ReadSoFar
    <3>2. "LOCAL" \in r.props /\ e.local = r.addr_local /\ r.addr = r.addr_local
      BY <1>1, <1>3, <1>4, <1>5, <2>1 DEF MadeOf, Put, Kept, r
    <3>3. "LABEL" \in r.props => e.label = strings[r.label]
      BY <1>1, <1>2, <1>5, <2>1 DEF MadeOf, Put
    <3> QED
      BY <1>2, <1>3, <1>5, <1>6, <2>1, <3>1, <3>2, <3>3, NullIsNone
         DEF Content, ValueOf, LabelRead, LocalRead, Objects, Props
  <2>2. CASE e.family = "inet6"
    <3>1. "LABEL" \notin r.props /\ ("LOCAL" \in r.props => r.addr # r.addr_local)
      BY <1>5, <2>2 DEF Kept, r
    <3>2. "LOCAL" \in r.props => e.local = r.addr_local /\ e.local # NULL
      BY <1>1, <1>3, <1>5, <2>2, <3>1 DEF MadeOf, Put
    <3>3. IF e.local = NULL THEN AddressRead(a, e) ELSE LocalRead(a, e)
      BY <1>1, <2>2, Tails DEF ReadSoFar
    <3> QED
      BY <1>2, <1>3, <1>5, <1>6, <2>2, <3>1, <3>2, <3>3
         DEF Content, ValueOf, AddressRead, LocalRead, Objects, Props
  <2> QED
    BY <1>4, <2>1, <2>2
<1> QED
  BY <1>7 DEF Match, Compare, a, r

(* What the kernel reports of a request is read as it was put. *)
THEOREM DumpInvariance == Spec => []DumpInv
<1>1. Init => DumpInv
  BY InitStep DEF Init, DumpInv, RequestInv, MatchInv
<1> QED
  BY <1>1, DumpStep, PTL DEF Spec

(* An address that the kernel reports matches the object that was          *)
(* requested: mnlxt_rt_addr_put() and mnlxt_rt_addr_data() agree.          *)
THEOREM AddressIsReadBack == Spec => []DumpedAsRequested
<1>1. DumpInv => DumpedAsRequested
  BY ReadIsRequested DEF DumpedAsRequested, DumpInv, MatchInv
<1> QED
  BY <1>1, DumpInvariance, PTL

-----------------------------------------------------------------------------
(* Addresses are values.  The content of an object is a function of the    *)
(* object and the heap, with which the setters commute; an action changes  *)
(* one slot, and on the heap nothing but what that slot owns.              *)

ContentIn(a, heap) == [a EXCEPT !.label = IF @ = NULL THEN NULL ELSE heap[@]]

LabelHeaps == [Cells -> Labels \cup {NULL}]

LEMMA ContentType ==
    ASSUME NEW heap \in LabelHeaps, NEW a \in Objects
    PROVE  ContentIn(a, heap) \in Contents /\ ContentIn(a, heap) # NULL
  BY RtAddrAssumption DEF ContentIn, Objects, Contents, LabelHeaps

LEMMA ContentSet ==
    ASSUME NEW heap, NEW a \in Objects
    PROVE  /\ \A len : ContentIn(WithPrefixlen(a, len), heap) = WithPrefixlen(ContentIn(a, heap), len)
           /\ \A family : /\ ContentIn(WithFamily(a, family), heap)
                                = WithFamily(ContentIn(a, heap), family)
                          /\ FamilyAllows(a, family) <=> FamilyAllows(ContentIn(a, heap), family)
           /\ \A family, ip : /\ ContentIn(WithAddr(a, family, ip), heap)
                                    = WithAddr(ContentIn(a, heap), family, ip)
                              /\ ContentIn(WithLocal(a, family, ip), heap)
                                    = WithLocal(ContentIn(a, heap), family, ip)
<1>1. \A len : ContentIn(WithPrefixlen(a, len), heap) = WithPrefixlen(ContentIn(a, heap), len)
  BY DEF ContentIn, Objects, WithPrefixlen
<1>2. \A family : ContentIn(WithFamily(a, family), heap) = WithFamily(ContentIn(a, heap), family)
  BY DEF ContentIn, Objects, WithFamily
<1>3. \A family : FamilyAllows(a, family) <=> FamilyAllows(ContentIn(a, heap), family)
  BY DEF ContentIn, Objects, FamilyAllows
<1>4. ASSUME NEW family, NEW ip
      PROVE  ContentIn(WithAddr(a, family, ip), heap) = WithAddr(ContentIn(a, heap), family, ip)
  <2>1. CASE family = "inet" /\ "LOCAL" \notin a.props
    BY <2>1 DEF ContentIn, Objects, WithAddr, WithFamily
  <2>2. CASE ~(family = "inet" /\ "LOCAL" \notin a.props)
    BY <2>2 DEF ContentIn, Objects, WithAddr, WithFamily
  <2> QED
    BY <2>1, <2>2
<1>5. ASSUME NEW family, NEW ip
      PROVE  ContentIn(WithLocal(a, family, ip), heap) = WithLocal(ContentIn(a, heap), family, ip)
  BY DEF ContentIn, Objects, WithLocal, WithFamily
<1> QED
  BY <1>1, <1>2, <1>3, <1>4, <1>5

LEMMA ContentLabelled ==
    ASSUME NEW heap, NEW other, NEW a \in Objects, NEW cell \in Cells
    PROVE  ContentIn(WithLabel(a, cell), heap) = WithLabel(ContentIn(a, other), heap[cell])
  BY NullIsNone DEF ContentIn, Objects, WithLabel

(* Only free cells and the label of slot s change. *)
HeapKept(s) ==
    \A c \in Cells : strings'[c] = strings[c] \/ strings[c] = NULL \/ c = LabelOf(s)

LEMMA OthersKeep ==
    ASSUME AInv, NEW s \in Slots, NEW a, obj' = [obj EXCEPT ![s] = a], HeapKept(s),
           NEW t \in Slots, t # s, Parsing(t)' <=> Parsing(t)
    PROVE  AddrView'[t] = AddrView[t]
<1>1. obj'[t] = obj[t] /\ obj[t] \in Objects \cup {NULL}
  BY DEF AInv, TypeOK
<1>2. ASSUME obj[t] # NULL, obj[t].label # NULL
      PROVE  strings'[obj[t].label] = strings[obj[t].label]
  <2>1. obj[t].label \in Cells /\ strings[obj[t].label] # NULL
    BY <1>1, <1>2 DEF AInv, LabelsOwned, Objects
  <2>2. obj[t].label # LabelOf(s)
    BY <1>2 DEF AInv, LabelsOwned, LabelOf
  <2> QED
    BY <2>1, <2>2 DEF HeapKept
<1>3. obj[t] # NULL => Content(obj[t])' = Content(obj[t])
  BY <1>1, <1>2 DEF Content
<1> QED
  BY <1>1, <1>3 DEF AddrView

(* What a step has to do to one slot. *)
Moves(s) ==
    \/ AddrView'[s] = AddrView[s]
    \/ AddrAsValues!Create(s)
    \/ AddrAsValues!Read(s)
    \/ AddrAsValues!Set(s)
    \/ AddrAsValues!Free(s)
    \/ \E t \in Slots : AddrAsValues!Clone(t, s)

LEMMA OneMoves ==
    ASSUME NEW s \in Slots, Moves(s),
           \A t \in Slots : t # s => AddrView'[t] = AddrView[t]
    PROVE  [AddrAsValues!Next]_AddrView
<1> DEFINE f == AddrView
           g == AddrView'
<1>1. f = [t \in Slots |-> f[t]] /\ g = [t \in Slots |-> g[t]]
  BY DEF AddrView
<1> HIDE DEF f, g
<1>2. g = [f EXCEPT ![s] = g[s]]
  BY <1>1 DEF f, g
<1>3. g[s] = f[s] => g = f
  BY <1>1, <1>2
<1> QED
  BY <1>2, <1>3 DEF Moves, AddrAsValues!Next, AddrAsValues!Alone, f, g

(* The value of slot s, when nothing is parsed in it. *)
LEMMA ValueHere ==
    ASSUME NEW s \in Slots
    PROVE  /\ obj[s] # NULL /\ ~Parsing(s) => AddrView[s] = ContentIn(obj[s], strings)
           /\ obj[s] = NULL \/ Parsing(s) => AddrView[s] = NULL
  BY DEF AddrView, Content, ContentIn

LEMMA ValueThere ==
    ASSUME NEW s \in Slots
    PROVE  /\ obj'[s] # NULL /\ ~Parsing(s)' => AddrView'[s] = ContentIn(obj'[s], strings')
           /\ obj'[s] = NULL \/ Parsing(s)' => AddrView'[s] = NULL
  BY DEF AddrView, Content, ContentIn

(* What the caller does to slot s. *)
LEMMA CallerMoves ==
    ASSUME AInv, AInv', NEW s \in Slots, NEW a, Set(s, a), HeapKept(s), a # NULL => a \in Objects,
           \/ obj[s] = NULL /\ a = New
           \/ obj[s] = NULL /\ a # NULL /\ \E t \in Slots :
                 /\ obj[t] # NULL
                 /\ ContentIn(a, strings') \in AddrCopies(ContentIn(obj[t], strings))
           \/ obj[s] # NULL /\ a = NULL
           \/ obj[s] # NULL /\ a # NULL
                 /\ AddrSets(ContentIn(obj[s], strings), ContentIn(a, strings'))
    PROVE  [AddrAsValues!Next]_AddrView
<1>1. obj' = [obj EXCEPT ![s] = a] /\ parse = NULL /\ parse' = NULL
  BY DEF Set, Calling
<1>2. \A t \in Slots : ~Parsing(t) /\ ~Parsing(t)'
  BY <1>1 DEF Parsing
<1>3. \A t \in Slots : t # s => AddrView'[t] = AddrView[t]
  BY <1>1, <1>2, OthersKeep
<1>4. obj \in [Slots -> Objects \cup {NULL}] /\ obj'[s] = a /\ strings \in LabelHeaps /\ strings' \in LabelHeaps
  BY <1>1 DEF AInv, TypeOK, LabelHeaps
<1>5. CASE obj[s] = NULL /\ a = New
  <2>1. New # NULL /\ ContentIn(New, strings') = New
    BY NewObject, NullIsNone DEF ContentIn, New
  <2>2. AddrAsValues!Create(s)
    BY <1>2, <1>4, <1>5, <2>1, ValueHere, ValueThere DEF AddrAsValues!Create
  <2> QED
    BY <1>3, <2>2, OneMoves DEF Moves
<1>6. CASE obj[s] = NULL /\ a # NULL /\ \E t \in Slots :
              /\ obj[t] # NULL
              /\ ContentIn(a, strings') \in AddrCopies(ContentIn(obj[t], strings))
  <2>1. PICK t \in Slots : /\ obj[t] # NULL
                           /\ ContentIn(a, strings') \in AddrCopies(ContentIn(obj[t], strings))
    BY <1>6
  <2>2. AddrAsValues!Clone(t, s)
    BY <1>2, <1>4, <1>6, <2>1, ValueHere, ValueThere, ContentType DEF AddrAsValues!Clone
  <2> QED
    BY <1>3, <2>2, OneMoves DEF Moves
<1>7. CASE obj[s] # NULL /\ a = NULL
  <2>1. AddrAsValues!Free(s)
    BY <1>2, <1>4, <1>7, ValueHere, ValueThere, ContentType DEF AddrAsValues!Free
  <2> QED
    BY <1>3, <2>1, OneMoves DEF Moves
<1>8. CASE obj[s] # NULL /\ a # NULL
              /\ AddrSets(ContentIn(obj[s], strings), ContentIn(a, strings'))
  <2>1. AddrAsValues!Set(s)
    BY <1>2, <1>4, <1>8, ValueHere, ValueThere, ContentType DEF AddrAsValues!Set
  <2> QED
    BY <1>3, <2>1, OneMoves DEF Moves
<1> QED
  BY <1>5, <1>6, <1>7, <1>8

(* A setter that leaves the heap alone. *)
LEMMA SetterMoves ==
    ASSUME AInv, AInv', NEW s \in Slots, obj[s] # NULL, NEW b, SetBy(obj[s], b), Set(s, b),
           strings' = strings,
           \A heap : AddrSets(ContentIn(obj[s], heap), ContentIn(b, heap))
    PROVE  [AddrAsValues!Next]_AddrView
<1>1. HeapKept(s) /\ b \in Objects /\ b # NULL
  BY NullIsNone DEF HeapKept, SetBy
<1> QED
  BY <1>1, CallerMoves

LEMMA SettersMove ==
    ASSUME AInv, AInv', NEW s \in Slots,
           SetFamily(s) \/ SetPrefixlen(s) \/ SetAddr(s) \/ SetLocal(s)
    PROVE  [AddrAsValues!Next]_AddrView
<1>1. obj[s] # NULL /\ obj[s] \in Objects /\ strings' = strings
  BY DEF AInv, TypeOK, SetFamily, SetPrefixlen, SetAddr, SetLocal
<1>2. CASE SetFamily(s)
  <2>1. PICK family \in Families : /\ FamilyAllows(obj[s], family)
                                   /\ Set(s, WithFamily(obj[s], family))
    BY <1>2 DEF SetFamily, FamilyAllows
  <2> DEFINE b == WithFamily(obj[s], family)
  <2>2. SetBy(obj[s], b)
    BY <1>1, SetterFamily
  <2>3. ASSUME NEW heap PROVE AddrSets(ContentIn(obj[s], heap), ContentIn(b, heap))
    BY <1>1, <2>1, ContentSet DEF AddrSets
  <2> QED
    BY <1>1, <2>1, <2>2, <2>3, SetterMoves
<1>3. CASE SetPrefixlen(s)
  <2>1. PICK len \in Lens : Set(s, WithPrefixlen(obj[s], len))
    BY <1>3 DEF SetPrefixlen
  <2> DEFINE b == WithPrefixlen(obj[s], len)
  <2>2. SetBy(obj[s], b)
    BY <1>1, SetterPrefixlen
  <2>3. ASSUME NEW heap PROVE AddrSets(ContentIn(obj[s], heap), ContentIn(b, heap))
    BY <1>1, ContentSet DEF AddrSets
  <2> QED
    BY <1>1, <2>1, <2>2, <2>3, SetterMoves
<1>4. CASE SetAddr(s)
  <2>1. PICK family \in Families, ip \in Ips : /\ FamilyAllows(obj[s], family)
                                               /\ Set(s, WithAddr(obj[s], family, ip))
    BY <1>4 DEF SetAddr, FamilyAllows
  <2> DEFINE b == WithAddr(obj[s], family, ip)
  <2>2. SetBy(obj[s], b)
    BY <1>1, SetterAddr
  <2>3. ASSUME NEW heap PROVE AddrSets(ContentIn(obj[s], heap), ContentIn(b, heap))
    BY <1>1, <2>1, ContentSet DEF AddrSets
  <2> QED
    BY <1>1, <2>1, <2>2, <2>3, SetterMoves
<1>5. CASE SetLocal(s)
  <2>1. PICK family \in Families, ip \in Ips : /\ FamilyAllows(obj[s], family)
                                               /\ Set(s, WithLocal(obj[s], family, ip))
    BY <1>5 DEF SetLocal, FamilyAllows
  <2> DEFINE b == WithLocal(obj[s], family, ip)
  <2>2. SetBy(obj[s], b)
    BY <1>1, SetterLocal
  <2>3. ASSUME NEW heap PROVE AddrSets(ContentIn(obj[s], heap), ContentIn(b, heap))
    BY <1>1, <2>1, ContentSet DEF AddrSets
  <2> QED
    BY <1>1, <2>1, <2>2, <2>3, SetterMoves
<1> QED
  BY <1>2, <1>3, <1>4, <1>5

LEMMA SetLabelMoves ==
    ASSUME AInv, AInv', NEW s \in Slots, SetLabel(s)
    PROVE  [AddrAsValues!Next]_AddrView
<1>1. PICK label \in Labels, cell \in Cells :
          /\ strings[cell] = NULL
          /\ Store(cell, label, obj[s].label)
          /\ Set(s, WithLabel(obj[s], cell))
  BY DEF SetLabel
<1> DEFINE b == WithLabel(obj[s], cell)
<1>2. obj[s] # NULL /\ obj[s] \in Objects /\ LabelOf(s) = obj[s].label
  BY DEF SetLabel, AInv, TypeOK, LabelOf
<1>3. b \in Objects /\ b # NULL
  BY <1>2, Relabelled, NullIsNone
<1>4. HeapKept(s) /\ strings'[cell] = label
  BY <1>1, <1>2 DEF HeapKept, Store
<1>5. AddrSets(ContentIn(obj[s], strings), ContentIn(b, strings'))
  BY <1>2, <1>4, ContentLabelled DEF AddrSets
<1> HIDE DEF b
<1> QED
  BY <1>1, <1>2, <1>3, <1>4, <1>5, CallerMoves DEF b

LEMMA AddrNewMoves ==
    ASSUME AInv, AInv', NEW s \in Slots, AddrNew(s)
    PROVE  [AddrAsValues!Next]_AddrView
<1>1. HeapKept(s) /\ obj[s] = NULL /\ Set(s, New)
  BY DEF AddrNew, HeapKept
<1> QED
  BY <1>1, NewObject, CallerMoves

LEMMA AddrFreeMoves ==
    ASSUME AInv, AInv', NEW s \in Slots, AddrFree(s)
    PROVE  [AddrAsValues!Next]_AddrView
<1>1. HeapKept(s) /\ obj[s] # NULL /\ Set(s, NULL)
  BY DEF AddrFree, FreeLabel, HeapKept, LabelOf
<1> QED
  BY <1>1, CallerMoves

(* The content of a clone, with or without a label. *)
CloneOf(a, props, l) == [a EXCEPT !.props = props, !.label = l]

LEMMA ContentCopied ==
    ASSUME NEW heap, NEW other, NEW a \in Objects, NEW props \in SUBSET a.props, props # {},
           NEW l \in Cells \cup {NULL},
           IF "LABEL" \in props THEN l # NULL /\ a.label # NULL /\ heap[l] = other[a.label]
                                ELSE l = NULL
    PROVE  ContentIn(CloneOf(a, props, l), heap) = AddrCopied(ContentIn(a, other), props)
  BY NullIsNone DEF CloneOf, ContentIn, AddrCopied, Objects

LEMMA CloneMoves ==
    ASSUME AInv, AInv', NEW s \in Slots, NEW t \in Slots, Clone(s, t)
    PROVE  [AddrAsValues!Next]_AddrView
<1> DEFINE c == ContentIn(obj[s], strings)
<1>1. obj[s] \in Objects /\ obj[s] # NULL /\ obj[t] = NULL
  BY DEF AInv, TypeOK, Clone
<1>2. PICK filter \in SUBSET Props :
          LET props == obj[s].props \cap filter
          IN  \/ /\ props = {}
                 /\ Set(t, New)
                 /\ UNCHANGED strings
              \/ /\ props # {}
                 /\ "LABEL" \notin props
                 /\ Set(t, CloneOf(obj[s], props, NULL))
                 /\ UNCHANGED strings
              \/ /\ "LABEL" \in props
                 /\ \E cell \in {d \in Cells : strings[d] = NULL} :
                       /\ Store(cell, strings[obj[s].label], NULL)
                       /\ Set(t, CloneOf(obj[s], props, cell))
  BY DEF Clone, CloneOf
<1> DEFINE props == obj[s].props \cap filter
<1>3. props \in SUBSET Props /\ props \in SUBSET obj[s].props
  OBVIOUS
<1>4. AddrCopied(c, props) \in AddrCopies(c)
  <2>1. c.props = obj[s].props
    BY <1>1 DEF ContentIn, Objects
  <2> QED
    BY <2>1 DEF AddrCopies
<1> HIDE DEF c
<1>5. CASE props = {} /\ Set(t, New) /\ UNCHANGED strings
  <2>1. HeapKept(t)
    BY <1>5 DEF HeapKept
  <2> QED
    BY <1>1, <1>5, <2>1, NewObject, CallerMoves
<1>6. CASE props # {} /\ "LABEL" \notin props /\ Set(t, CloneOf(obj[s], props, NULL)) /\ UNCHANGED strings
  <2>1. CloneOf(obj[s], props, NULL) \in Objects
    BY <1>1, <1>3, <1>6, Cloned DEF CloneOf
  <2>3. HeapKept(t)
    BY <1>6 DEF HeapKept
  <2> HIDE DEF props
  <2>2. ContentIn(CloneOf(obj[s], props, NULL), strings') = AddrCopied(c, props)
    BY <1>1, <1>3, <1>6, ContentCopied DEF c
  <2> QED
    BY <1>1, <1>4, <1>6, <2>1, <2>2, <2>3, NullIsNone, CallerMoves DEF c
<1>7. CASE /\ "LABEL" \in props
           /\ \E cell \in {d \in Cells : strings[d] = NULL} :
                 /\ Store(cell, strings[obj[s].label], NULL)
                 /\ Set(t, CloneOf(obj[s], props, cell))
  <2>1. PICK cell \in Cells : /\ strings[cell] = NULL
                              /\ Store(cell, strings[obj[s].label], NULL)
                              /\ Set(t, CloneOf(obj[s], props, cell))
    BY <1>7
  <2>2. CloneOf(obj[s], props, cell) \in Objects
    BY <1>1, <1>3, <1>7, NullIsNone, Cloned DEF CloneOf
  <2>3. HeapKept(t) /\ strings'[cell] = strings[obj[s].label]
    BY <2>1, NullIsNone DEF HeapKept, Store
  <2>4. obj[s].label # NULL
    BY <1>1, <1>7 DEF AInv, LabelsOwned
  <2> HIDE DEF props
  <2>5. ContentIn(CloneOf(obj[s], props, cell), strings') = AddrCopied(c, props)
    <3>1. props # {} /\ props \in SUBSET obj[s].props /\ cell # NULL
      BY <1>3, <1>7, NullIsNone
    <3> QED
      BY <1>1, <1>7, <2>3, <2>4, <3>1, ContentCopied DEF c
  <2> QED
    BY <1>1, <1>4, <2>1, <2>2, <2>3, <2>5, NullIsNone, CallerMoves DEF c
<1> QED
  BY <1>2, <1>5, <1>6, <1>7

-----------------------------------------------------------------------------
(* A parse is one step for the caller: what has been read before each      *)
(* attribute is known to the last bit, and nobody sees it.                 *)

ReadExactly(content, rest, e) ==
    \/ /\ e.family = "inet"
       /\ \/ rest = <<AddressOf(e), LocalOf(e), LabelledBy(e)>> /\ content = AddrHeader(e)
          \/ rest = <<LocalOf(e), LabelledBy(e)>> /\ content = AddrAddress(e)
          \/ rest = <<LabelledBy(e)>> /\ content = AddrLocal(e)
          \/ rest = <<>> /\ content = AddrLabel(e)
    \/ /\ e.family = "inet6" /\ e.local = NULL
       /\ \/ rest = <<AddressOf(e)>> /\ content = AddrHeader(e)
          \/ rest = <<>> /\ content = AddrAddress(e)
    \/ /\ e.family = "inet6" /\ e.local # NULL
       /\ \/ rest = <<AddressOf(e), LocalOf(e)>> /\ content = AddrHeader(e)
          \/ rest = <<LocalOf(e)>> /\ content = AddrAddress(e)
          \/ rest = <<>> /\ content = AddrLocal(e)

ReadingInv ==
    parse # NULL =>
        \E e \in KernelAddresses :
            /\ parse.family = e.family
            /\ ReadExactly(ContentIn(obj[parse.slot], strings), parse.rest, e)

ValueInv == AInv /\ ReadingInv

LEMMA ReadingHeader ==
    ASSUME AInv, NEW s \in Slots, ParseHeader(s)
    PROVE  ReadingInv'
<1>1. PICK e \in KernelAddresses, match \in {request, NULL} :
          /\ obj' = [obj EXCEPT ![s] = WithPrefixlen(New, e.prefixlen)]
          /\ parse' = [slot |-> s, family |-> e.family, rest |-> AttributesOf(e),
                       match |-> match]
  BY DEF ParseHeader
<1>2. obj'[s] = AddrHeader(e)
  BY <1>1 DEF AInv, TypeOK, AddrHeader
<1>3. ContentIn(AddrHeader(e), strings') = AddrHeader(e)
  <2>1. ContentIn(New, strings') = New
    BY DEF ContentIn, New
  <2> QED
    BY <2>1, NewObject, ContentSet DEF AddrHeader
<1>4. ReadExactly(AddrHeader(e), AttributesOf(e), e)
  BY KernelValues, AttributesAre DEF ReadExactly
<1>5. parse'.family = e.family /\ parse'.slot = s /\ parse'.rest = AttributesOf(e)
  BY <1>1
<1> QED
  BY <1>2, <1>3, <1>4, <1>5 DEF ReadingInv

LEMMA ReadingAttribute ==
    ASSUME AInv, ReadingInv, NEW s \in Slots, ParseAttribute(s)
    PROVE  ReadingInv' /\ HeapKept(s)
<1> DEFINE attribute == Head(parse.rest)
           c == ContentIn(obj[s], strings)
           d == ContentIn(obj'[s], strings')
<1>1. /\ parse \in Messages /\ obj[s] \in Objects /\ obj \in [Slots -> Objects \cup {NULL}]
      /\ parse # NULL /\ parse.slot = s /\ LabelOf(s) = obj[s].label
      /\ parse.rest # <<>> /\ parse' = [parse EXCEPT !.rest = Tail(@)]
  BY ParsingFacts, NullIsNone DEF ParseAttribute, AInv, TypeOK, Parsing, LabelOf
<1>2. parse'.rest = Tail(parse.rest) /\ parse'.family = parse.family /\ parse'.slot = s
  BY <1>1 DEF Messages
<1>3. PICK e \in KernelAddresses : parse.family = e.family /\ ReadExactly(c, parse.rest, e)
  BY <1>1 DEF ReadingInv
<1>4. /\ attribute.type = "IFA_ADDRESS" =>
             /\ obj' = [obj EXCEPT ![s] = WithAddr(obj[s], parse.family, attribute.value)]
             /\ strings' = strings
      /\ attribute.type = "IFA_LOCAL" =>
             /\ obj' = [obj EXCEPT ![s] = WithLocal(obj[s], parse.family, attribute.value)]
             /\ strings' = strings
      /\ attribute.type = "IFA_LABEL" =>
             \E cell \in {k \in Cells : strings[k] = NULL} :
                 /\ Store(cell, attribute.value, obj[s].label)
                 /\ obj' = [obj EXCEPT ![s] = WithLabel(obj[s], cell)]
  BY DEF ParseAttribute
<1> HIDE DEF attribute
<1>5. ASSUME attribute = AddressOf(e)
      PROVE  d = WithAddr(c, e.family, e.address) /\ HeapKept(s)
  <2>1. obj'[s] = WithAddr(obj[s], e.family, e.address) /\ strings' = strings
    BY <1>1, <1>3, <1>4, <1>5 DEF AddressOf
  <2> QED
    BY <1>1, <2>1, ContentSet DEF HeapKept
<1>6. ASSUME attribute = LocalOf(e)
      PROVE  d = WithLocal(c, e.family, e.local) /\ HeapKept(s)
  <2>1. obj'[s] = WithLocal(obj[s], e.family, e.local) /\ strings' = strings
    BY <1>1, <1>3, <1>4, <1>6 DEF LocalOf
  <2> QED
    BY <1>1, <2>1, ContentSet DEF HeapKept
<1>7. ASSUME attribute = LabelledBy(e)
      PROVE  d = WithLabel(c, e.label) /\ HeapKept(s)
  <2>1. PICK cell \in Cells : /\ strings[cell] = NULL
                              /\ Store(cell, e.label, obj[s].label)
                              /\ obj' = [obj EXCEPT ![s] = WithLabel(obj[s], cell)]
    BY <1>4, <1>7 DEF LabelledBy
  <2>2. obj'[s] = WithLabel(obj[s], cell) /\ strings'[cell] = e.label /\ HeapKept(s)
    BY <1>1, <2>1 DEF Store, HeapKept
  <2> QED
    BY <1>1, <2>2, ContentLabelled
<1> HIDE DEF c, d
<1>8. ReadExactly(d, Tail(parse.rest), e) /\ HeapKept(s)
  <2>1. CASE parse.rest = <<AddressOf(e), LocalOf(e), LabelledBy(e)>> /\ e.family = "inet"
             /\ c = AddrHeader(e)
    BY <1>5, <2>1, Tails DEF ReadExactly, AddrAddress, attribute
  <2>2. CASE parse.rest = <<AddressOf(e)>> /\ e.family = "inet6" /\ e.local = NULL
             /\ c = AddrHeader(e)
    BY <1>5, <2>2, Tails DEF ReadExactly, AddrAddress, attribute
  <2>3. CASE parse.rest = <<AddressOf(e), LocalOf(e)>> /\ e.family = "inet6" /\ e.local # NULL
             /\ c = AddrHeader(e)
    BY <1>5, <2>3, Tails DEF ReadExactly, AddrAddress, attribute
  <2>4. CASE parse.rest = <<LocalOf(e), LabelledBy(e)>> /\ e.family = "inet"
             /\ c = AddrAddress(e)
    BY <1>6, <2>4, Tails DEF ReadExactly, AddrLocal, attribute
  <2>5. CASE parse.rest = <<LocalOf(e)>> /\ e.family = "inet6" /\ e.local # NULL
             /\ c = AddrAddress(e)
    BY <1>6, <2>5, Tails DEF ReadExactly, AddrLocal, attribute
  <2>6. CASE parse.rest = <<LabelledBy(e)>> /\ e.family = "inet" /\ c = AddrLocal(e)
    BY <1>7, <2>6, Tails DEF ReadExactly, AddrLabel, attribute
  <2> QED
    BY <1>1, <1>3, <2>1, <2>2, <2>3, <2>4, <2>5, <2>6 DEF ReadExactly
<1> QED
  BY <1>2, <1>3, <1>8 DEF ReadingInv, d

LEMMA ReadingStep == ValueInv /\ [Next]_vars => ValueInv'
<1> SUFFICES ASSUME AInv, ReadingInv, [Next]_vars PROVE ReadingInv'
  BY Step DEF ValueInv
<1>1. CASE UNCHANGED vars
  BY <1>1 DEF vars, ReadingInv
<1>2. CASE Next
  <2>1. PICK s \in Slots : \/ ParseHeader(s) \/ ParseAttribute(s) \/ parse' = NULL
    <3>1. ASSUME NEW s \in Slots,
                 \/ AddrNew(s) \/ SetFamily(s) \/ SetPrefixlen(s) \/ SetAddr(s) \/ SetLocal(s)
                 \/ SetLabel(s) \/ AddrFree(s)
          PROVE  parse' = NULL
      BY <3>1 DEF AddrNew, SetFamily, SetPrefixlen, SetAddr, SetLocal, SetLabel, AddrFree, Set,
         Calling
    <3>2. ASSUME NEW s \in Slots,
                 \/ Request(s) \/ ParseFails(s) \/ ParseEnd(s) \/ \E t \in Slots : Clone(s, t)
          PROVE  parse' = NULL
      BY <3>2 DEF Request, ParseFails, ParseEnd, Clone, Set, Calling
    <3> QED
      BY <1>2, <3>1, <3>2 DEF Next
  <2> QED
    BY <2>1, ReadingHeader, ReadingAttribute DEF ReadingInv
<1> QED
  BY <1>1, <1>2

(* The parse handler shows nothing before its end. *)
LEMMA ParseMoves ==
    ASSUME AInv, AInv', ReadingInv, NEW s \in Slots,
           ParseHeader(s) \/ ParseAttribute(s) \/ ParseFails(s)
    PROVE  [AddrAsValues!Next]_AddrView
<1>1. HeapKept(s) /\ \E a : obj' = [obj EXCEPT ![s] = a]
  <2>1. CASE ParseHeader(s)
    BY <2>1 DEF ParseHeader, HeapKept
  <2>2. CASE ParseAttribute(s)
    BY <2>2, ReadingAttribute DEF ParseAttribute
  <2>3. CASE ParseFails(s)
    <3>1. LabelOf(s) = obj[s].label
      BY <2>3, ParsingFacts, NullIsNone DEF ParseFails, LabelOf
    <3> QED
      BY <2>3, <3>1 DEF ParseFails, FreeLabel, HeapKept
  <2> QED
    BY <2>1, <2>2, <2>3
<1>2. ASSUME NEW t \in Slots, t # s
      PROVE  ~Parsing(t) /\ ~Parsing(t)'
  <2>1. CASE ParseHeader(s)
    BY <1>2, <2>1 DEF ParseHeader, Calling, Parsing
  <2>2. CASE ParseAttribute(s)
    BY <1>2, <2>2, ParsingFacts DEF ParseAttribute, Parsing, Messages
  <2>3. CASE ParseFails(s)
    BY <1>2, <2>3 DEF ParseFails, Parsing
  <2> QED
    BY <2>1, <2>2, <2>3
<1>3. AddrView[s] = NULL
  BY ValueHere DEF ParseHeader, ParseAttribute, ParseFails
<1>4. AddrView'[s] = NULL
  <2>1. CASE ParseHeader(s)
    <3>1. PICK e \in KernelAddresses, match \in {request, NULL} :
              parse' = [slot |-> s, family |-> e.family, rest |-> AttributesOf(e), match |-> match]
      BY <2>1 DEF ParseHeader
    <3>2. match \in Slots \cup {NULL} /\ e.family \in Families
      BY KernelValues DEF AInv, TypeOK, Families
    <3>3. parse' \in Messages /\ parse'.slot = s
      BY <3>1, <3>2, AttributesType DEF Messages
    <3> QED
      BY <3>3, ValueThere, NullIsNone DEF Parsing
  <2>2. CASE ParseAttribute(s)
    <3>1. /\ parse \in Messages /\ parse.rest \in Seq(Attributes) /\ parse.rest # <<>>
          /\ parse' = [parse EXCEPT !.rest = Tail(@)] /\ parse.slot = s
      BY <2>2, ParsingFacts DEF ParseAttribute, Parsing
    <3>2. Tail(parse.rest) \in Seq(Attributes)
      BY <3>1
    <3>3. parse'.slot = s /\ parse' # NULL
      BY <3>1, <3>2, NullIsNone DEF Messages
    <3> QED
      BY <3>3, ValueThere DEF Parsing
  <2>3. CASE ParseFails(s)
    BY <2>3, ValueThere DEF ParseFails, AInv, TypeOK
  <2> QED
    BY <2>1, <2>2, <2>3
<1> QED
  BY <1>1, <1>2, <1>3, <1>4, OthersKeep, OneMoves DEF Moves

LEMMA ParseEndMoves ==
    ASSUME AInv, ReadingInv, NEW s \in Slots, ParseEnd(s)
    PROVE  [AddrAsValues!Next]_AddrView
<1>1. obj[s] \in Objects /\ obj[s] # NULL /\ parse # NULL /\ parse.slot = s /\ parse.rest = <<>>
  BY ParsingFacts, NullIsNone DEF ParseEnd, Parsing
<1>2. obj' = obj /\ strings' = strings /\ parse' = NULL
  BY DEF ParseEnd
<1>3. PICK e \in KernelAddresses : ReadExactly(ContentIn(obj[s], strings), <<>>, e)
  BY <1>1 DEF ReadingInv
<1>4. ContentIn(obj[s], strings) = AddrOf(e)
  BY <1>3, Tails, KernelValues DEF ReadExactly, AddrOf
<1>5. AddrView[s] = NULL /\ AddrView'[s] = AddrOf(e)
  BY <1>1, <1>2, <1>4, ValueHere, ValueThere DEF Parsing
<1>6. AddrAsValues!Read(s)
  BY <1>5 DEF AddrAsValues!Read
<1>7. \A t \in Slots : t # s => AddrView'[t] = AddrView[t]
  BY <1>1, <1>2 DEF AddrView, Parsing, Content
<1> QED
  BY <1>6, <1>7, OneMoves DEF Moves

LEMMA EveryStepMoves ==
    ASSUME ValueInv, AInv', [Next]_vars
    PROVE  [AddrAsValues!Next]_AddrView
<1> USE DEF ValueInv
<1>1. CASE UNCHANGED vars
  BY <1>1 DEF vars, AddrView, Parsing, Content
<1>2. ASSUME NEW s \in Slots, Request(s)
      PROVE  AddrView' = AddrView
  BY <1>2 DEF Request, AddrView, Parsing, Content
<1>3. CASE Next
  BY <1>2, <1>3, AddrNewMoves, SettersMove, SetLabelMoves, CloneMoves, AddrFreeMoves, ParseMoves,
     ParseEndMoves DEF Next
<1> QED
  BY <1>1, <1>3

(* Addresses are values: no call of the library on one is seen in another, *)
(* and a parse that fails anywhere leaves nothing of the message.          *)
THEOREM AddressesAreValues == Spec => AddrsAreValues
<1>1. Init => AddrAsValues!Init
  BY DEF Init, AddrAsValues!Init, AddrView
<1>2. Init => ValueInv
  BY InitStep DEF Init, ValueInv, ReadingInv
<1>3. ValueInv /\ ValueInv' /\ [Next]_vars => [AddrAsValues!Next]_AddrView
  BY EveryStepMoves DEF ValueInv
<1> QED
  BY <1>1, <1>2, <1>3, ReadingStep, PTL DEF Spec, AddrsAreValues, AddrAsValues!Spec
=============================================================================
