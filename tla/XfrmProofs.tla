----------------------------- MODULE XfrmProofs -----------------------------
(***************************************************************************)
(* Policies keep what setters, clones, put and the parse handler agree on, *)
(* for any addresses and ports, and a list of messages of either bus holds *)
(* what its getters say, for any number of messages: PolInv and DInv are   *)
(* inductive.  What all objects share is in RtObjectProofs.                *)
(***************************************************************************)
EXTENDS XfrmPolicy, Dispatcher, RtObjectProofs

PolicyObjects == ObjectsOf(PolicyProps, PolicyValues)

(* A policy that setters, clones and reads lead to. *)
Sound(p) ==
    /\ p \in PolicyObjects
    /\ p.val["DIR"] \in {"out", Zero}
    /\ ~(Ported(p) /\ Portless(p))

PolInv ==
    /\ policy # NULL => Sound(policy)
    /\ policyRead # NULL =>
          /\ policyRead \in PolicyEntries
          /\ policy = IF PolicyParsed(policyRead) THEN PolicyOf(policyRead) ELSE NULL

LEMMA PolicyPropNames ==
    /\ "FAMILY" \in PolicyProps /\ "PROTO" \in PolicyProps /\ "DST" \in PolicyProps
    /\ "SRC_PORT" \in PolicyProps /\ "DST_PORT" \in PolicyProps /\ "DIR" \in PolicyProps
  BY DEF PolicyProps

LEMMA PolicyValueNames ==
    /\ Zero \in PolicyValues /\ "out" \in PolicyValues /\ NULL \notin PolicyValues
    /\ \A v \in Families \cup Protos \cup Ips \cup Ports : v \in PolicyValues
  BY PolicyAssumption DEF PolicyValues

LEMMA PoliciesAreObjects == Policies = PolicyObjects /\ NULL \notin PolicyObjects
  BY PolicyAssumption DEF Policies, PolicyObjects, ObjectsOf

(* FlagObject and FlagGiven of a policy. *)
LEMMA FlagPolicy ==
    ASSUME NEW p \in PolicyObjects, NEW prop \in PolicyProps, NEW value \in PolicyValues
    PROVE  /\ Flag(p, prop, value) \in PolicyObjects
           /\ \A q \in PolicyProps : q \in Flag(p, prop, value).props <=> q \in p.props \/ q = prop
           /\ Flag(p, prop, value).val[prop] = value
           /\ \A q \in PolicyProps : q # prop => Flag(p, prop, value).val[q] = p.val[q]
           /\ Given(Flag(p, prop, value), prop) = value
           /\ \A q \in PolicyProps : q # prop => Given(Flag(p, prop, value), q) = Given(p, q)
  BY FlagObject, FlagGiven DEF PolicyObjects

(* What Ported and Portless say of what getters return. *)
LEMMA PortsGiven ==
    ASSUME NEW p \in PolicyObjects
    PROVE  /\ Ported(p) <=> Given(p, "SRC_PORT") # NULL \/ Given(p, "DST_PORT") # NULL
           /\ Portless(p) <=> Given(p, "PROTO") # NULL /\ Given(p, "PROTO") # "tcp"
<1>1. \A q \in PolicyProps : p.val[q] # NULL
  BY PolicyValueNames DEF PolicyObjects, ObjectsOf
<1>2. \A q \in PolicyProps : Given(p, q) # NULL <=> q \in p.props
  BY <1>1 DEF Given
<1>3. Ported(p) <=> "SRC_PORT" \in p.props \/ "DST_PORT" \in p.props
  BY DEF Ported
<1>4. Portless(p) <=> "PROTO" \in p.props /\ Given(p, "PROTO") # "tcp"
  BY DEF Portless, HasPorts, Given
<1> QED
  BY <1>2, <1>3, <1>4, PolicyPropNames

-----------------------------------------------------------------------------
(* Setters and clones.                                                     *)

LEMMA BlankSound == Sound(Blank(PolicyProps))
<1>1. Blank(PolicyProps).val["DIR"] = Zero
  BY DEF Blank, PolicyProps
<1> QED
  BY <1>1, BlankObject, PolicyValueNames DEF Sound, Ported, PolicyObjects

(* A property that is no port, and not the protocol. *)
LEMMA FlagSound ==
    ASSUME NEW p, Sound(p), NEW prop \in PolicyProps, NEW value \in PolicyValues,
           prop # "PROTO", prop # "SRC_PORT", prop # "DST_PORT",
           prop = "DIR" => value \in {"out", Zero}
    PROVE  Sound(Flag(p, prop, value))
<1> DEFINE f == Flag(p, prop, value)
<1>1. p \in PolicyObjects /\ p.val["DIR"] \in {"out", Zero} /\ ~(Ported(p) /\ Portless(p))
  BY DEF Sound
<1>2. f \in PolicyObjects
  BY <1>1, FlagPolicy
<1>3. /\ Given(f, "PROTO") = Given(p, "PROTO")
      /\ Given(f, "SRC_PORT") = Given(p, "SRC_PORT")
      /\ Given(f, "DST_PORT") = Given(p, "DST_PORT")
  BY <1>1, FlagPolicy, PolicyPropNames
<1>4. f.val["DIR"] \in {"out", Zero}
  <2>1. prop # "DIR" => f.val["DIR"] = p.val["DIR"]
    BY <1>1, FlagPolicy, PolicyPropNames
  <2>2. f.val[prop] = value
    BY <1>1, FlagPolicy
  <2> HIDE DEF f
  <2> QED
    BY <1>1, <2>1, <2>2
<1> HIDE DEF f
<1>5. ~(Ported(f) /\ Portless(f))
  BY <1>1, <1>2, <1>3, PortsGiven
<1>6. Sound(f)
  BY <1>2, <1>4, <1>5 DEF Sound
<1> QED
  BY <1>6 DEF f

LEMMA DstSound ==
    ASSUME NEW p, Sound(p), NEW family, NEW ip \in PolicyValues
    PROVE  Sound(WithPolicyDst(p, family, ip))
<1>1. CASE PolicyAllows(p, family)
  <2>1. family \in PolicyValues
    BY <1>1, PolicyValueNames DEF PolicyAllows
  <2>2. Sound(Flag(p, "FAMILY", family))
    BY <2>1, FlagSound, PolicyPropNames
  <2>3. Sound(Flag(Flag(p, "FAMILY", family), "DST", ip))
    BY <2>2, FlagSound, PolicyPropNames
  <2> QED
    BY <1>1, <2>3 DEF WithPolicyDst
<1> QED
  BY <1>1 DEF WithPolicyDst

LEMMA ProtoSound ==
    ASSUME NEW p, Sound(p), NEW proto \in PolicyValues
    PROVE  Sound(WithProto(p, proto))
<1> DEFINE f == Flag(p, "PROTO", proto)
<1>1. p \in PolicyObjects /\ p.val["DIR"] \in {"out", Zero}
  BY DEF Sound
<1>2. CASE ~(Ported(p) /\ ~HasPorts(proto))
  <2>0. "PROTO" \in PolicyProps
    BY PolicyPropNames
  <2>1. f \in PolicyObjects /\ Given(f, "PROTO") = proto
    BY <1>1, <2>0, FlagPolicy
  <2>2. /\ Given(f, "SRC_PORT") = Given(p, "SRC_PORT")
        /\ Given(f, "DST_PORT") = Given(p, "DST_PORT")
    <3>1. \A q \in PolicyProps : q # "PROTO" => Given(f, q) = Given(p, q)
      BY <1>1, <2>0, FlagPolicy
    <3> HIDE DEF f
    <3> QED
      BY <3>1, PolicyPropNames
  <2>3. f.val["DIR"] \in {"out", Zero}
    <3>1. f.val["DIR"] = p.val["DIR"]
      BY <1>1, FlagPolicy, PolicyPropNames
    <3> QED
      BY <1>1, <3>1
  <2>4. WithProto(p, proto) = f
    BY <1>2 DEF WithProto
  <2> HIDE DEF f
  <2>5. ~(Ported(f) /\ Portless(f))
    BY <1>1, <1>2, <2>1, <2>2, PortsGiven DEF HasPorts
  <2> QED
    BY <2>1, <2>3, <2>4, <2>5 DEF Sound
<1> QED
  BY <1>2 DEF WithProto

LEMMA PortSound ==
    ASSUME NEW p, Sound(p), NEW prop \in PolicyProps, prop # "PROTO", prop # "DIR",
           NEW port \in PolicyValues
    PROVE  Sound(WithPort(p, prop, port))
<1> DEFINE f == Flag(p, prop, port)
<1>1. p \in PolicyObjects /\ p.val["DIR"] \in {"out", Zero}
  BY DEF Sound
<1>2. CASE ~Portless(p)
  <2>1. f \in PolicyObjects /\ Given(f, "PROTO") = Given(p, "PROTO")
    BY <1>1, FlagPolicy, PolicyPropNames
  <2>2. f.val["DIR"] \in {"out", Zero}
    <3>1. f.val["DIR"] = p.val["DIR"]
      BY <1>1, FlagPolicy, PolicyPropNames
    <3> QED
      BY <1>1, <3>1
  <2>3. WithPort(p, prop, port) = f
    BY <1>2 DEF WithPort
  <2> HIDE DEF f
  <2>4. ~Portless(f)
    BY <1>1, <1>2, <2>1, PortsGiven
  <2> QED
    BY <2>1, <2>2, <2>3, <2>4 DEF Sound
<1> QED
  BY <1>2 DEF WithPort

LEMMA DirSound ==
    ASSUME NEW p, Sound(p), NEW dir \in {"out", Zero, "socket"}
    PROVE  Sound(WithDir(p, dir))
<1>1. CASE dir # "socket"
  BY <1>1, FlagSound, PolicyPropNames, PolicyValueNames DEF WithDir
<1> QED
  BY <1>1 DEF WithDir

LEMMA CopiedSound ==
    ASSUME NEW p, Sound(p), NEW filter \in SUBSET p.props
    PROVE  Sound(Copied(p, filter))
<1> DEFINE f == Copied(p, filter)
<1>1. filter \in SUBSET PolicyProps /\ p \in PolicyObjects
  BY DEF Sound, PolicyObjects, ObjectsOf
<1>2. /\ f \in PolicyObjects
      /\ f.props = p.props \cap filter
      /\ \A q \in PolicyProps : filter # {} => f.val[q] = p.val[q]
      /\ \A q \in PolicyProps : filter = {} => f.val[q] = Zero
  BY <1>1, CopiedObject, PolicyValueNames DEF PolicyObjects
<1> HIDE DEF f
<1>3. f.val["DIR"] \in {"out", Zero}
  BY <1>2, PolicyPropNames DEF Sound
<1>4. Ported(f) => Ported(p)
  BY <1>2 DEF Ported
<1>5. Portless(f) => Portless(p)
  <2>1. "PROTO" \in f.props => filter # {} /\ "PROTO" \in p.props
    BY <1>2
  <2> QED
    BY <1>2, <2>1, PolicyPropNames DEF Portless
<1>6. Sound(f)
  BY <1>2, <1>3, <1>4, <1>5 DEF Sound
<1> QED
  BY <1>6 DEF f

-----------------------------------------------------------------------------
(* The parse handler.                                                      *)

Fields ==
    [family : Families \cup {Zero}, proto : PolicyValues, dst : PolicyValues,
     sport  : PolicyValues \cup {NULL}, dport : PolicyValues \cup {NULL},
     dir    : {"out", Zero, "socket"}, extra : {"mark", "templates", NULL}]

LEMMA FieldValues ==
    ASSUME NEW e \in Fields
    PROVE  /\ e.family \in Families \cup {Zero} /\ e.family \in PolicyValues
           /\ e.proto \in PolicyValues /\ e.dst \in PolicyValues
           /\ e.sport # NULL => e.sport \in PolicyValues
           /\ e.dport # NULL => e.dport \in PolicyValues
           /\ e.dir \in {"out", Zero, "socket"}
  BY PolicyValueNames DEF Fields

LEMMA SelectorSound == ASSUME NEW e \in Fields PROVE Sound(PolicyOf(e))
<1> DEFINE family == IF e.family = Zero THEN "inet" ELSE e.family
           proto == IF e.proto = Zero THEN Blank(PolicyProps)
                    ELSE WithProto(Blank(PolicyProps), e.proto)
           dport == IF e.dport = NULL THEN proto ELSE WithPort(proto, "DST_PORT", e.dport)
           sport == IF e.sport = NULL THEN dport ELSE WithPort(dport, "SRC_PORT", e.sport)
<1>1. Sound(proto)
  BY BlankSound, ProtoSound, FieldValues
<1>2. Sound(dport)
  <2> HIDE DEF proto
  <2> QED
    BY <1>1, PortSound, FieldValues, PolicyPropNames
<1>3. Sound(sport)
  <2> HIDE DEF dport
  <2> QED
    BY <1>2, PortSound, FieldValues, PolicyPropNames
<1>4. SelectorOf(e) = WithPolicyDst(sport, family, e.dst)
  BY DEF SelectorOf
<1>5. Sound(SelectorOf(e))
  <2> HIDE DEF sport, family
  <2> QED
    BY <1>3, <1>4, DstSound, FieldValues
<1> QED
  BY <1>5, DirSound, FieldValues DEF PolicyOf

(* What getters return of a policy that is read, if it has a family and    *)
(* ports only next to a protocol that has some.                            *)
LEMMA PolicyIsRead ==
    ASSUME NEW e \in Fields, e.family \in Families, e.dir # "socket",
           e.proto \notin {Zero, "tcp"} => e.sport = NULL /\ e.dport = NULL
    PROVE  /\ Given(PolicyOf(e), "FAMILY") = e.family
           /\ Given(PolicyOf(e), "PROTO") = IF e.proto = Zero THEN NULL ELSE e.proto
           /\ Given(PolicyOf(e), "DST") = e.dst
           /\ Given(PolicyOf(e), "SRC_PORT") = e.sport
           /\ Given(PolicyOf(e), "DST_PORT") = e.dport
           /\ Given(PolicyOf(e), "DIR") = e.dir
<1> DEFINE proto == IF e.proto = Zero THEN Blank(PolicyProps)
                    ELSE WithProto(Blank(PolicyProps), e.proto)
           dport == IF e.dport = NULL THEN proto ELSE WithPort(proto, "DST_PORT", e.dport)
           sport == IF e.sport = NULL THEN dport ELSE WithPort(dport, "SRC_PORT", e.sport)
           family == Flag(sport, "FAMILY", e.family)
           dst == Flag(family, "DST", e.dst)
<1>1. e.family # Zero /\ e.dir \in PolicyValues
  BY FieldValues, PolicyValueNames DEF Families, Zero
<1>0. e.family \in PolicyValues /\ e.proto \in PolicyValues /\ e.dst \in PolicyValues
  BY FieldValues
<1>2. /\ proto \in PolicyObjects
      /\ Given(proto, "FAMILY") = NULL
      /\ Given(proto, "PROTO") = IF e.proto = Zero THEN NULL ELSE e.proto
      /\ Given(proto, "SRC_PORT") = NULL
      /\ Given(proto, "DST_PORT") = NULL
  <2>1. /\ Blank(PolicyProps) \in PolicyObjects
        /\ \A q : Given(Blank(PolicyProps), q) = NULL
        /\ Blank(PolicyProps).props = {}
    BY BlankObject, PolicyValueNames DEF PolicyObjects
  <2>2. WithProto(Blank(PolicyProps), e.proto) = Flag(Blank(PolicyProps), "PROTO", e.proto)
    BY <2>1 DEF WithProto, Ported
  <2> DEFINE f == Flag(Blank(PolicyProps), "PROTO", e.proto)
  <2>0. Blank(PolicyProps) \in PolicyObjects /\ e.proto \in PolicyValues
    BY <1>0, <2>1
  <2>3. \A q \in PolicyProps : q # "PROTO" => Given(f, q) = NULL
    <3>1. \A q \in PolicyProps : q # "PROTO" => Given(f, q) = Given(Blank(PolicyProps), q)
      BY <2>0, FlagPolicy, PolicyPropNames
    <3> QED
      BY <2>1, <3>1
  <2>4. f \in PolicyObjects /\ Given(f, "PROTO") = e.proto
    <3>1. "PROTO" \in PolicyProps
      BY PolicyPropNames
    <3> QED
      BY <2>0, <3>1, FlagPolicy
  <2> HIDE DEF f
  <2>5. proto = IF e.proto = Zero THEN Blank(PolicyProps) ELSE f
    BY <2>2 DEF f
  <2> QED
    BY <2>1, <2>3, <2>4, <2>5, PolicyPropNames
<1>3. /\ dport \in PolicyObjects
      /\ Given(dport, "FAMILY") = NULL
      /\ Given(dport, "PROTO") = Given(proto, "PROTO")
      /\ Given(dport, "SRC_PORT") = NULL
      /\ Given(dport, "DST_PORT") = e.dport
  <2> HIDE DEF proto
  <2>1. e.dport # NULL => ~Portless(proto)
    BY <1>2, PortsGiven
  <2>2. e.dport # NULL => dport = Flag(proto, "DST_PORT", e.dport) /\ e.dport \in PolicyValues
    BY <2>1, FieldValues DEF WithPort
  <2> QED
    BY <1>2, <2>2, FlagPolicy, PolicyPropNames
<1>4. /\ sport \in PolicyObjects
      /\ Given(sport, "FAMILY") = NULL
      /\ Given(sport, "PROTO") = Given(proto, "PROTO")
      /\ Given(sport, "SRC_PORT") = e.sport
      /\ Given(sport, "DST_PORT") = e.dport
  <2> HIDE DEF proto, dport
  <2>1. e.sport # NULL => ~Portless(dport)
    BY <1>2, <1>3, PortsGiven
  <2>2. e.sport # NULL => sport = Flag(dport, "SRC_PORT", e.sport) /\ e.sport \in PolicyValues
    BY <2>1, FieldValues DEF WithPort
  <2> QED
    <3>1. CASE e.sport = NULL
      BY <1>3, <3>1
    <3>2. CASE e.sport # NULL
      <4>1. "SRC_PORT" \in PolicyProps
        BY PolicyPropNames
      <4>2. /\ sport \in PolicyObjects /\ Given(sport, "SRC_PORT") = e.sport
            /\ \A q \in PolicyProps : q # "SRC_PORT" => Given(sport, q) = Given(dport, q)
        BY <1>3, <2>2, <3>2, <4>1, FlagPolicy
      <4> QED
        BY <1>3, <3>2, <4>2, PolicyPropNames
    <3> QED
      BY <3>1, <3>2
<1>5. SelectorOf(e) = dst
  <2>1. SelectorOf(e) = WithPolicyDst(sport, e.family, e.dst)
    BY <1>1 DEF SelectorOf
  <2> HIDE DEF sport
  <2> QED
    BY <1>4, <2>1 DEF WithPolicyDst, PolicyAllows
<1>6. PolicyOf(e) = Flag(dst, "DIR", e.dir)
  <2> HIDE DEF dst
  <2> QED
    BY <1>5 DEF PolicyOf, WithDir
<1> HIDE DEF proto, dport, sport
<1>7. /\ family \in PolicyObjects
      /\ Given(family, "FAMILY") = e.family
      /\ Given(family, "PROTO") = Given(proto, "PROTO")
      /\ Given(family, "SRC_PORT") = e.sport
      /\ Given(family, "DST_PORT") = e.dport
  <2>0. sport \in PolicyObjects /\ e.family \in PolicyValues
    BY <1>0, <1>4
  <2>1. \A q \in PolicyProps : q # "FAMILY" => Given(family, q) = Given(sport, q)
    BY <2>0, FlagPolicy, PolicyPropNames
  <2>2. family \in PolicyObjects /\ Given(family, "FAMILY") = e.family
    <3>1. "FAMILY" \in PolicyProps
      BY PolicyPropNames
    <3> QED
      BY <2>0, <3>1, FlagPolicy
  <2> HIDE DEF family
  <2> QED
    BY <1>4, <2>1, <2>2, PolicyPropNames
<1> HIDE DEF family
<1>8. /\ dst \in PolicyObjects
      /\ Given(dst, "FAMILY") = e.family
      /\ Given(dst, "PROTO") = Given(proto, "PROTO")
      /\ Given(dst, "DST") = e.dst
      /\ Given(dst, "SRC_PORT") = e.sport
      /\ Given(dst, "DST_PORT") = e.dport
  <2>0. family \in PolicyObjects /\ e.dst \in PolicyValues
    BY <1>0, <1>7
  <2>1. \A q \in PolicyProps : q # "DST" => Given(dst, q) = Given(family, q)
    BY <2>0, FlagPolicy, PolicyPropNames
  <2>2. dst \in PolicyObjects /\ Given(dst, "DST") = e.dst
    <3>1. "DST" \in PolicyProps
      BY PolicyPropNames
    <3> QED
      BY <2>0, <3>1, FlagPolicy
  <2> HIDE DEF dst
  <2> QED
    BY <1>7, <2>1, <2>2, PolicyPropNames
<1> HIDE DEF dst
<1>9. /\ Given(PolicyOf(e), "FAMILY") = e.family
      /\ Given(PolicyOf(e), "PROTO") = Given(proto, "PROTO")
      /\ Given(PolicyOf(e), "DST") = e.dst
      /\ Given(PolicyOf(e), "SRC_PORT") = e.sport
      /\ Given(PolicyOf(e), "DST_PORT") = e.dport
      /\ Given(PolicyOf(e), "DIR") = e.dir
  BY <1>1, <1>6, <1>8, FlagPolicy, PolicyPropNames
<1> QED
  BY <1>2, <1>9

-----------------------------------------------------------------------------
(* Policies.                                                               *)

LEMMA EntriesAreFields == ASSUME NEW e \in PolicyEntries PROVE e \in Fields
  BY PolicyValueNames DEF PolicyEntries, Fields

LEMMA BecomesSound ==
    ASSUME NEW p, p = NULL \/ Sound(p), PolicyBecomes(p)
    PROVE  PolInv'
  BY DEF PolicyBecomes, PolInv, Sound, Ported, Portless

LEMMA PolInvNext == ASSUME PolInv, PolicyNext PROVE PolInv'
<1>1. CASE PolicyNew
  BY <1>1, BecomesSound, BlankSound DEF PolicyNew
<1>2. CASE PolicySetFamily
  <2>1. PICK family \in Families \cup {"packet"} :
            PolicyAllows(policy, family) /\ PolicyBecomes(Flag(policy, "FAMILY", family))
    BY <1>2 DEF PolicySetFamily
  <2>2. family \in PolicyValues
    BY <2>1, PolicyValueNames DEF PolicyAllows
  <2>3. Sound(Flag(policy, "FAMILY", family))
    BY <1>2, <2>2, FlagSound, PolicyPropNames DEF PolInv, PolicySetFamily
  <2> QED
    BY <2>1, <2>3, BecomesSound
<1>3. CASE PolicySetDst
  <2>1. PICK family \in Families \cup {"packet"}, ip \in Ips \cup {Zero} :
            PolicyBecomes(WithPolicyDst(policy, family, ip))
    BY <1>3 DEF PolicySetDst
  <2> QED
    BY <1>3, <2>1, BecomesSound, DstSound, PolicyValueNames DEF PolInv, PolicySetDst
<1>4. CASE PolicySetProto
  <2>1. PICK proto \in Protos \cup {Zero} : PolicyBecomes(WithProto(policy, proto))
    BY <1>4 DEF PolicySetProto
  <2> QED
    BY <1>4, <2>1, BecomesSound, ProtoSound, PolicyValueNames DEF PolInv, PolicySetProto
<1>5. CASE PolicySetPort
  <2>1. PICK prop \in {"SRC_PORT", "DST_PORT"}, port \in Ports \cup {Zero} :
            PolicyBecomes(WithPort(policy, prop, port))
    BY <1>5 DEF PolicySetPort
  <2>2. prop \in PolicyProps /\ prop # "PROTO" /\ prop # "DIR"
    BY PolicyPropNames
  <2>3. port \in PolicyValues
    BY PolicyValueNames
  <2>4. Sound(WithPort(policy, prop, port))
    BY <1>5, <2>2, <2>3, PortSound DEF PolInv, PolicySetPort
  <2> QED
    BY <2>1, <2>4, BecomesSound
<1>6. CASE PolicySetDir
  <2>1. PICK dir \in {"out", Zero, "socket"} : PolicyBecomes(WithDir(policy, dir))
    BY <1>6 DEF PolicySetDir
  <2> QED
    BY <1>6, <2>1, BecomesSound, DirSound DEF PolInv, PolicySetDir
<1>7. CASE PolicyClone
  <2>1. PICK filter \in SUBSET policy.props : PolicyBecomes(Copied(policy, filter))
    BY <1>7 DEF PolicyClone
  <2> QED
    BY <1>7, <2>1, BecomesSound, CopiedSound DEF PolInv, PolicyClone
<1>8. CASE PolicyFree
  BY <1>8, BecomesSound DEF PolicyFree
<1>9. CASE PolicyRead
  <2>1. PICK e \in PolicyEntries :
            /\ policy' = IF PolicyParsed(e) THEN PolicyOf(e) ELSE NULL
            /\ policyRead' = e
    BY <1>9 DEF PolicyRead
  <2>2. Sound(PolicyOf(e))
    BY EntriesAreFields, SelectorSound
  <2>3. policy' # NULL => Sound(policy')
    BY <2>1, <2>2
  <2> QED
    BY <2>1, <2>3 DEF PolInv, Sound, Ported, Portless
<1> QED
  BY <1>1, <1>2, <1>3, <1>4, <1>5, <1>6, <1>7, <1>8, <1>9 DEF PolicyNext

(* The invariant of the policies is inductive. *)
THEOREM PolicyInvariance == PolicySpec => []PolInv
<1>1. PolicyInit => PolInv
  BY DEF PolicyInit, PolInv
<1>2. PolInv /\ [PolicyNext]_policyVars => PolInv'
  BY PolInvNext DEF policyVars, PolInv, Sound, Ported, Portless
<1> QED
  BY <1>1, <1>2, PTL DEF PolicySpec

(* Every variable keeps its type, whatever setters, clones and reads make  *)
(* of a policy (policy.c).                                                 *)
THEOREM PolicyTyped == PolicySpec => []PolicyTypeOK
<1>1. PolInv => PolicyTypeOK
  BY PoliciesAreObjects DEF PolInv, Sound, PolicyTypeOK
<1> QED
  BY <1>1, PolicyInvariance, PTL

(* No policy has ports and a protocol without ports, in whichever order    *)
(* mnlxt_xfrm_policy_set_proto(), the setters of ports, clones and reads   *)
(* come.                                                                   *)
THEOREM PortsFitProtocol == PolicySpec => []PolicyPorts
<1>1. PolInv => PolicyPorts
  BY DEF PolInv, Sound, PolicyPorts
<1> QED
  BY <1>1, PolicyInvariance, PTL

(* What mnlxt_xfrm_policy_put() writes is what mnlxt_xfrm_policy_data()    *)
(* reads, for every policy that setters, clones and reads lead to.         *)
THEOREM PolicyIsReadBack == PolicySpec => []PolicyReadBack
<1> DEFINE m == PolicyMessage(policy)
<1>1. ASSUME PolInv, policy # NULL, PolicyValid(m), Given(policy, "PROTO") # Zero
      PROVE  Matches(PolicyOf(m), policy)
  <2>1. policy \in PolicyObjects /\ Sound(policy)
    BY <1>1 DEF PolInv, Sound
  <2>2. /\ policy.props \in SUBSET PolicyProps
        /\ \A q \in PolicyProps : policy.val[q] \in PolicyValues
    BY <2>1 DEF PolicyObjects, ObjectsOf
  <2>3. /\ m.family = Header(policy, "FAMILY") /\ m.proto = Header(policy, "PROTO")
        /\ m.dst = Header(policy, "DST") /\ m.sport = Given(policy, "SRC_PORT")
        /\ m.dport = Given(policy, "DST_PORT") /\ m.dir = Header(policy, "DIR")
    BY DEF PolicyMessage
  <2>4. m \in Fields
    <3>1. \A q \in PolicyProps : /\ Header(policy, q) \in PolicyValues
                                 /\ Given(policy, q) \in PolicyValues \cup {NULL}
      BY <2>2, PolicyValueNames DEF Header, Given
    <3>2. Header(policy, "DIR") \in {"out", Zero, "socket"}
      BY <2>1 DEF Sound, Header
    <3>3. Header(policy, "FAMILY") \in Families
      BY <1>1 DEF PolicyValid, PolicyMessage
    <3>4. /\ Header(policy, "PROTO") \in PolicyValues /\ Header(policy, "DST") \in PolicyValues
          /\ Given(policy, "SRC_PORT") \in PolicyValues \cup {NULL}
          /\ Given(policy, "DST_PORT") \in PolicyValues \cup {NULL}
      BY <3>1, PolicyPropNames
    <3> QED
      BY <3>2, <3>3, <3>4 DEF Fields, PolicyMessage
  <2>5. m.family \in Families
    BY <1>1 DEF PolicyValid
  <2>6. m.dir # "socket"
    <3>1. Header(policy, "DIR") \in {"out", Zero}
      BY <2>1 DEF Sound, Header
    <3> QED
      BY <2>3, <3>1 DEF Zero
  <2>7. m.proto # Zero /\ m.proto # "tcp" => m.sport = NULL /\ m.dport = NULL
    <3>1. Header(policy, "PROTO") # Zero => Given(policy, "PROTO") = Header(policy, "PROTO")
                                            /\ "PROTO" \in policy.props
      BY DEF Header, Given
    <3>2. m.proto # Zero /\ m.proto # "tcp" => Portless(policy)
      BY <2>3, <3>1 DEF Portless, HasPorts, Given
    <3>3. Portless(policy) => "SRC_PORT" \notin policy.props /\ "DST_PORT" \notin policy.props
      BY <2>1 DEF Sound, Ported
    <3> QED
      BY <2>3, <3>2, <3>3 DEF Given
  <2>8. /\ Given(PolicyOf(m), "FAMILY") = m.family
        /\ Given(PolicyOf(m), "PROTO") = IF m.proto = Zero THEN NULL ELSE m.proto
        /\ Given(PolicyOf(m), "DST") = m.dst
        /\ Given(PolicyOf(m), "SRC_PORT") = m.sport
        /\ Given(PolicyOf(m), "DST_PORT") = m.dport
        /\ Given(PolicyOf(m), "DIR") = m.dir
    BY <2>4, <2>5, <2>6, <2>7, PolicyIsRead
  <2> HIDE DEF m
  <2>9. ASSUME NEW q \in policy.props PROVE Given(PolicyOf(m), q) = Given(policy, q)
    <3>1. Header(policy, q) = Given(policy, q)
      BY DEF Header, Given
    <3>2. \/ q = "FAMILY" \/ q = "PROTO" \/ q = "DST" \/ q = "SRC_PORT" \/ q = "DST_PORT"
          \/ q = "DIR"
      BY <2>2 DEF PolicyProps
    <3> QED
      BY <1>1, <2>3, <2>8, <3>1, <3>2
  <2> QED
    BY <2>9 DEF Matches, Agree
<1>2. PolInv => PolicyReadBack
  BY <1>1 DEF PolicyReadBack
<1> QED
  BY <1>2, PolicyInvariance, PTL

(* XFRM_MSG_DELPOLICY and XFRM_MSG_UPDPOLICY of a policy as it was read    *)
(* are about the kernel's policy it was read from.                         *)
THEOREM PolicyIsFound == PolicySpec => []PolicyFound
<1>1. ASSUME PolInv, policyRead # NULL, policy # NULL, policyRead.dir # "socket",
             policyRead.proto \in {"icmp", "gre"} =>
                 policyRead.sport = NULL /\ policyRead.dport = NULL
      PROVE  PolicyMessage(policy) = policyRead
  <2> DEFINE e == policyRead
  <2>1. e \in PolicyEntries /\ e \in Fields /\ policy = PolicyOf(e) /\ e.extra = NULL
    BY <1>1, EntriesAreFields DEF PolInv, PolicyParsed
  <2>2. e.family \in Families /\ e.proto \in Protos \cup {Zero}
    BY <1>1, <2>1 DEF PolicyEntries
  <2>3. e.proto \notin {Zero, "tcp"} => e.sport = NULL /\ e.dport = NULL
    BY <1>1, <2>2 DEF Protos
  <2> HIDE DEF e
  <2>4. /\ Given(policy, "FAMILY") = e.family
        /\ Given(policy, "PROTO") = IF e.proto = Zero THEN NULL ELSE e.proto
        /\ Given(policy, "DST") = e.dst
        /\ Given(policy, "SRC_PORT") = e.sport
        /\ Given(policy, "DST_PORT") = e.dport
        /\ Given(policy, "DIR") = e.dir
    BY <1>1, <2>1, <2>2, <2>3, PolicyIsRead DEF e
  <2>5. e.family # NULL /\ e.proto # NULL /\ e.dst # NULL /\ e.dir # NULL
    <3>1. e.dir \in {"out", Zero, "socket"} /\ e.dir # "socket"
      BY <1>1, <2>1, FieldValues DEF e
    <3> QED
      BY <2>1, <3>1, FieldValues, PolicyValueNames
  <2>6. \A q : Header(policy, q) = IF Given(policy, q) = NULL THEN Zero ELSE Given(policy, q)
    <3>1. policy \in PolicyObjects
      BY <1>1 DEF PolInv, Sound
    <3>2. \A q \in policy.props : policy.val[q] # NULL
      BY <3>1, PolicyValueNames DEF PolicyObjects, ObjectsOf
    <3> QED
      BY <3>2 DEF Header, Given
  <2>7. /\ Header(policy, "FAMILY") = e.family /\ Header(policy, "PROTO") = e.proto
        /\ Header(policy, "DST") = e.dst /\ Header(policy, "DIR") = e.dir
    BY <2>4, <2>5, <2>6
  <2>8. e = [family |-> e.family, proto |-> e.proto, dst |-> e.dst, sport |-> e.sport,
             dport |-> e.dport, dir |-> e.dir, extra |-> e.extra]
    BY <2>1 DEF PolicyEntries
  <2>9. PolicyMessage(policy) = e
    BY <2>1, <2>4, <2>7, <2>8 DEF PolicyMessage
  <2> QED
    BY <2>9 DEF e
<1>2. PolInv => PolicyFound
  BY <1>1 DEF PolicyFound
<1> QED
  BY <1>2, PolicyInvariance, PTL

-----------------------------------------------------------------------------
(* Messages of the two buses.                                              *)

(* Handlers and messages are those of the bus in use. *)
DInv ==
    /\ handlers = used
    /\ used \in Buses \cup {NoBus}
    /\ used = NoBus => stored = {}
    /\ \A message \in stored :
          /\ message.type \in DOMAIN Handler[used]
          /\ message.kind = Handler[used][message.type]
          /\ message.meant = Meant[used][message.type]

LEMMA DInvNext == ASSUME DInv, DispatchNext PROVE DInv'
<1>1. ASSUME NEW bus \in Buses, DispatchParse(bus) PROVE DInv'
  <2>1. used \in {NoBus, bus} /\ used' = bus /\ handlers' = bus
    BY <1>1, DispatcherAssumption DEF DInv, DispatchParse, Using
  <2>2. PICK type \in DOMAIN Meant[bus] : StoreParsed(bus, bus, type)
    BY <1>1, <2>1, DispatcherAssumption DEF DInv, DispatchParse
  <2>3. \A message \in stored : /\ message.type \in DOMAIN Handler[bus]
                                /\ message.kind = Handler[bus][message.type]
                                /\ message.meant = Meant[bus][message.type]
    BY <2>1 DEF DInv
  <2>4. \A message \in stored' : /\ message.type \in DOMAIN Handler[bus]
                                 /\ message.kind = Handler[bus][message.type]
                                 /\ message.meant = Meant[bus][message.type]
    BY <2>2, <2>3 DEF StoreParsed
  <2> QED
    BY <2>1, <2>4, DispatcherAssumption DEF DInv
<1>2. ASSUME NEW bus \in Buses, DispatchDump(bus) PROVE DInv'
  BY <1>2, DispatcherAssumption DEF DInv, DispatchDump, Using
<1>3. CASE DispatchRemove
  BY <1>3 DEF DInv, DispatchRemove
<1>4. CASE DispatchClean
  BY <1>4 DEF DInv, DispatchClean
<1> QED
  BY <1>1, <1>2, <1>3, <1>4 DEF DispatchNext

LEMMA KindsOfNumbers ==
    ASSUME NEW bus \in Buses, NEW type \in DOMAIN Handler[bus]
    PROVE  /\ Handler[bus][type] = Meant[bus][type]
           /\ \A kind \in GettersOf[bus] : type \in Getter[kind] <=> kind = Handler[bus][type]
<1>1. CASE bus = "rt"
  <2>1. type \in LinkTypes \cup AddrTypes \cup RouteTypes \cup RuleTypes
    BY <1>1 DEF Handler
  <2>2. Handler[bus][type] = CASE type \in LinkTypes  -> "link"
                              [] type \in AddrTypes  -> "addr"
                              [] type \in RouteTypes -> "route"
                              [] type \in RuleTypes  -> "rule"
    BY <1>1, <2>1 DEF Handler
  <2>3. Meant[bus][type] = Handler[bus][type]
    BY <1>1, <2>1 DEF Meant, LinkTypes, AddrTypes, RouteTypes, RuleTypes
  <2>4. /\ Getter["link"] = LinkTypes /\ Getter["addr"] = AddrTypes
        /\ Getter["route"] = RouteTypes /\ Getter["rule"] = RuleTypes
        /\ GettersOf[bus] = {"link", "addr", "route", "rule"}
    BY <1>1 DEF Getter, GettersOf
  <2>5. ASSUME NEW kind \in {"link", "addr", "route", "rule"}
        PROVE  type \in Getter[kind] <=> kind = Handler[bus][type]
    BY <2>1, <2>2, <2>4 DEF LinkTypes, AddrTypes, RouteTypes, RuleTypes
  <2> QED
    BY <2>3, <2>4, <2>5
<1>2. CASE bus = "xfrm"
  BY <1>2 DEF Handler, Meant, Getter, GettersOf, PolicyTypes
<1> QED
  BY <1>1, <1>2 DEF Buses

(* The messages of mnlxt_data_t are of the bus it is used for, so that a   *)
(* getter of that bus gives them the type the kernel meant.                *)
THEOREM PayloadsAreTyped == DispatchSpec => []PayloadsTyped
<1>1. DispatchInit => DInv
  BY DEF DispatchInit, DInv
<1>2. DInv /\ [DispatchNext]_dispatchVars => DInv'
  BY DInvNext DEF dispatchVars, DInv
<1>3. DInv => PayloadsTyped
  BY KindsOfNumbers DEF DInv, PayloadsTyped
<1> QED
  BY <1>1, <1>2, <1>3, PTL DEF DispatchSpec
=============================================================================
