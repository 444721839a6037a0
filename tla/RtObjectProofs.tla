--------------------------- MODULE RtObjectProofs ---------------------------
(***************************************************************************)
(* Whatever setters, clones and reads make of routes, rules and            *)
(* interfaces, put writes what the parse handlers read and match compares; *)
(* the names of rules have one owner each; interfaces ask for the flags    *)
(* their callers do and have values of one kind: for any tables, addresses,*)
(* names, flags and numbers of objects.  RouteInv, RuleInv and LinkInv are *)
(* inductive, and rules are values, as ValueObjects has it.                *)
(***************************************************************************)
EXTENDS RtRoute, RtRule, RtLink, TLAPS

-----------------------------------------------------------------------------
(* What the operations all objects share do to a property and leave alone, *)
(* for any set P of properties and any set V of values.                    *)

ObjectsOf(P, V) == [props : SUBSET P, val : [P -> V]]

(* A new object has no property. *)
LEMMA BlankObject ==
    ASSUME NEW P, NEW V, Zero \in V
    PROVE  /\ Blank(P) \in ObjectsOf(P, V)
           /\ Blank(P).props = {}
           /\ \A prop : Given(Blank(P), prop) = NULL /\ Header(Blank(P), prop) = Zero
  BY DEF Blank, ObjectsOf, Given, Header

(* A setter flags its property and stores the value. *)
LEMMA FlagObject ==
    ASSUME NEW P, NEW V, NEW o \in ObjectsOf(P, V), NEW prop \in P, NEW value \in V
    PROVE  /\ Flag(o, prop, value) \in ObjectsOf(P, V)
           /\ \A q \in P : q \in Flag(o, prop, value).props <=> q \in o.props \/ q = prop
           /\ Flag(o, prop, value).val[prop] = value
           /\ \A q \in P : q # prop => Flag(o, prop, value).val[q] = o.val[q]
  BY DEF Flag, ObjectsOf

(* What a getter, and put, see of it. *)
LEMMA FlagGiven ==
    ASSUME NEW P, NEW V, NEW o \in ObjectsOf(P, V), NEW prop \in P, NEW value \in V
    PROVE  /\ Given(Flag(o, prop, value), prop) = value
           /\ Header(Flag(o, prop, value), prop) = value
           /\ \A q \in P : q # prop =>
                 /\ Given(Flag(o, prop, value), q) = Given(o, q)
                 /\ Header(Flag(o, prop, value), q) = Header(o, q)
  BY FlagObject DEF Given, Header

(* A clone has the selected properties, or is a new object. *)
LEMMA CopiedObject ==
    ASSUME NEW P, NEW V, Zero \in V, NEW o \in ObjectsOf(P, V), NEW filter \in SUBSET P
    PROVE  /\ Copied(o, filter) \in ObjectsOf(P, V)
           /\ Copied(o, filter).props = o.props \cap filter
           /\ \A q \in P : filter # {} => Copied(o, filter).val[q] = o.val[q]
           /\ \A q \in P : filter = {} => Copied(o, filter).val[q] = Zero
<1>1. /\ o.props \in SUBSET P /\ o.val \in [P -> V]
      /\ o = [props |-> o.props, val |-> o.val] /\ DOMAIN o.val = P
  BY DEF ObjectsOf
<1>2. CASE filter = {}
  BY <1>1, <1>2, BlankObject DEF Copied, Blank
<1>3. CASE filter # {}
  <2>1. Copied(o, filter) = [props |-> o.props \cap filter, val |-> o.val]
    BY <1>1, <1>3 DEF Copied
  <2> QED
    BY <1>1, <1>3, <2>1 DEF ObjectsOf
<1> QED
  BY <1>2, <1>3

(* A clone compares equal to its source in what the filter selects, and    *)
(* the source matches it, also when the clone is empty: what the clone and *)
(* compare functions of route.c, rule.c and policy.c have to agree on, and *)
(* those of link.c for all but the structure of the kind.                  *)
THEOREM CloneAgrees ==
    ASSUME NEW P, NEW V, Zero \in V, NEW o \in ObjectsOf(P, V), NEW filter \in SUBSET P
    PROVE  Agree(Copied(o, filter), o, filter) /\ Matches(o, Copied(o, filter))
<1> DEFINE c == Copied(o, filter)
<1>1. /\ c.props = o.props \cap filter
      /\ filter # {} => \A q \in P : c.val[q] = o.val[q]
  BY CopiedObject
<1> HIDE DEF c
<1>2. \A q \in filter : Given(c, q) = Given(o, q)
  BY <1>1 DEF Given
<1>3. \A q \in c.props : Given(o, q) = Given(c, q)
  BY <1>1, <1>2
<1> QED
  BY <1>2, <1>3 DEF Agree, Matches, c

(* An object that matches a second one matches what that one matches: a    *)
(* pattern made by cloning or reading may stand for the pattern it is of.  *)
THEOREM MatchIsTransitive ==
    ASSUME NEW P, NEW V, NULL \notin V,
           NEW a \in ObjectsOf(P, V), NEW b \in ObjectsOf(P, V), NEW c \in ObjectsOf(P, V),
           Matches(a, b), Matches(b, c)
    PROVE  Matches(a, c)
<1> SUFFICES ASSUME NEW q \in c.props PROVE Given(a, q) = Given(c, q)
  BY DEF Matches, Agree
<1>1. Given(b, q) = Given(c, q) /\ Given(c, q) # NULL
  BY DEF Matches, Agree, Given, ObjectsOf
<1>2. q \in b.props
  BY <1>1 DEF Given
<1> QED
  BY <1>1, <1>2 DEF Matches, Agree

-----------------------------------------------------------------------------
(* Routes.                                                                 *)

RouteObjects == ObjectsOf(RouteProps, RouteValues)

(* A route that setters, clones and reads lead to: its table is one that   *)
(* has a byte, and its destination is not the default one.                 *)
RouteSound(r) ==
    /\ r \in RouteObjects
    /\ r.val["TABLE"] \in Tables \cup {"compat", Zero}
    /\ Given(r, "DST") = NULL \/ Given(r, "DST") \in Ips

RouteInv ==
    /\ route # NULL => RouteSound(route)
    /\ routeRead # NULL => routeRead \in RouteEntries /\ route = RouteOf(routeRead)

LEMMA RoutePropNames ==
    /\ "FAMILY" \in RouteProps /\ "TABLE" \in RouteProps /\ "DST_PREFIX" \in RouteProps
    /\ "DST" \in RouteProps /\ "GATEWAY" \in RouteProps
  BY DEF RouteProps

LEMMA RouteValueNames ==
    /\ Zero \in RouteValues /\ "compat" \in RouteValues /\ NULL \notin RouteValues
    /\ \A v \in Families \cup Tables \cup Prefixes \cup Ips : v \in RouteValues
    /\ NULL \notin Ips
  BY RouteAssumption DEF RouteValues

(* FlagObject and FlagGiven of a route. *)
LEMMA FlagRoute ==
    ASSUME NEW r \in RouteObjects, NEW prop \in RouteProps, NEW value \in RouteValues
    PROVE  /\ Flag(r, prop, value) \in RouteObjects
           /\ Flag(r, prop, value).val[prop] = value
           /\ \A q \in RouteProps : q # prop => Flag(r, prop, value).val[q] = r.val[q]
           /\ Given(Flag(r, prop, value), prop) = value
           /\ \A q \in RouteProps : q # prop => Given(Flag(r, prop, value), q) = Given(r, q)
  BY FlagObject, FlagGiven DEF RouteObjects

LEMMA BlankRoute == RouteSound(Blank(RouteProps))
<1>1. Blank(RouteProps).val["TABLE"] = Zero
  BY DEF Blank, RouteProps
<1>2. Blank(RouteProps) \in RouteObjects /\ Given(Blank(RouteProps), "DST") = NULL
  BY BlankObject, RouteValueNames DEF RouteObjects
<1> QED
  BY <1>1, <1>2 DEF RouteSound

LEMMA FlagRouteSound ==
    ASSUME NEW r, RouteSound(r), NEW prop \in RouteProps, NEW value \in RouteValues,
           prop = "TABLE" => value \in Tables \cup {"compat", Zero},
           prop = "DST" => value \in Ips
    PROVE  RouteSound(Flag(r, prop, value))
<1> DEFINE f == Flag(r, prop, value)
<1>1. r \in RouteObjects
  BY DEF RouteSound
<1>2. f \in RouteObjects
  BY <1>1, FlagRoute
<1>3. /\ f.val[prop] = value /\ Given(f, prop) = value
      /\ \A q \in RouteProps : q # prop => f.val[q] = r.val[q] /\ Given(f, q) = Given(r, q)
  BY <1>1, FlagRoute
<1> HIDE DEF f
<1>4. /\ f.val["TABLE"] = IF prop = "TABLE" THEN value ELSE r.val["TABLE"]
      /\ Given(f, "DST") = IF prop = "DST" THEN value ELSE Given(r, "DST")
  BY <1>3, RoutePropNames
<1>5. RouteSound(f)
  BY <1>2, <1>4 DEF RouteSound
<1> QED
  BY <1>5 DEF f

LEMMA DstRouteSound ==
    ASSUME NEW r, RouteSound(r), NEW family \in Families, NEW ip \in Ips \cup {Zero}
    PROVE  RouteSound(WithRouteDst(r, family, ip))
<1>1. RouteSound(WithRouteFamily(r, family))
  BY FlagRouteSound, RoutePropNames, RouteValueNames DEF WithRouteFamily
<1>2. ip # Zero => ip \in Ips /\ ip \in RouteValues
  BY RouteValueNames
<1> QED
  BY <1>1, <1>2, FlagRouteSound, RoutePropNames DEF WithRouteDst

LEMMA CopiedRouteSound ==
    ASSUME NEW r, RouteSound(r), NEW filter \in SUBSET RouteProps
    PROVE  RouteSound(Copied(r, filter))
<1> DEFINE f == Copied(r, filter)
<1>1. r \in RouteObjects
  BY DEF RouteSound
<1>2. /\ f \in RouteObjects
      /\ f.props = r.props \cap filter
      /\ \A q \in RouteProps : filter # {} => f.val[q] = r.val[q]
      /\ \A q \in RouteProps : filter = {} => f.val[q] = Zero
  BY <1>1, CopiedObject, RouteValueNames DEF RouteObjects
<1> HIDE DEF f
<1>3. f.val["TABLE"] \in Tables \cup {"compat", Zero}
  BY <1>2, RoutePropNames DEF RouteSound
<1>4. "DST" \in f.props => filter # {} /\ "DST" \in r.props
  BY <1>2
<1>5. "DST" \in f.props => f.val["DST"] = r.val["DST"]
  BY <1>2, <1>4, RoutePropNames
<1>6. Given(f, "DST") = NULL \/ Given(f, "DST") = Given(r, "DST")
  BY <1>4, <1>5 DEF Given
<1>7. RouteSound(f)
  BY <1>2, <1>3, <1>6 DEF RouteSound
<1> QED
  BY <1>7 DEF f

(* The types of what the kernel reports. *)
LEMMA RouteEntryValues ==
    ASSUME NEW e \in RouteEntries
    PROVE  /\ e.family \in Families /\ e.table \in Tables \cup {"compat", "big"}
           /\ e.prefix \in RouteValues /\ e.dst \in Ips \cup {Zero} /\ e.gateway \in Ips \cup {NULL}
           /\ e.prefix = Zero => e.dst = Zero
           /\ e.prefix # NULL /\ e.family # NULL /\ e.dst # NULL
           /\ e.family \in RouteValues
           /\ e.gateway # NULL => e.gateway \in RouteValues
<1>1. /\ e.family \in Families /\ e.table \in Tables \cup {"compat", "big"}
      /\ e.prefix \in Prefixes \cup {Zero} /\ e.dst \in Ips \cup {Zero}
      /\ e.gateway \in Ips \cup {NULL}
      /\ e.prefix = Zero => e.dst = Zero
  BY DEF RouteEntries
<1> QED
  BY <1>1, RouteValueNames

(* A route, and what its five getters return. *)
RouteHas(r, family, table, prefix, dst, gateway) ==
    /\ RouteSound(r)
    /\ Given(r, "FAMILY") = family
    /\ Given(r, "TABLE") = table
    /\ Given(r, "DST_PREFIX") = prefix
    /\ Given(r, "DST") = dst
    /\ Given(r, "GATEWAY") = gateway

LEMMA FlagRouteHas ==
    ASSUME NEW r, NEW family, NEW table, NEW prefix, NEW dst, NEW gateway, NEW v \in RouteValues,
           RouteHas(r, family, table, prefix, dst, gateway)
    PROVE  /\ RouteHas(Flag(r, "FAMILY", v), v, table, prefix, dst, gateway)
           /\ v \in Tables \cup {"compat"} =>
                 RouteHas(Flag(r, "TABLE", v), family, v, prefix, dst, gateway)
           /\ RouteHas(Flag(r, "DST_PREFIX", v), family, table, v, dst, gateway)
           /\ v \in Ips => RouteHas(Flag(r, "DST", v), family, table, prefix, v, gateway)
           /\ RouteHas(Flag(r, "GATEWAY", v), family, table, prefix, dst, v)
<1>1. r \in RouteObjects /\ RouteSound(r)
  BY DEF RouteHas, RouteSound
<1>2. ASSUME NEW prop \in RouteProps
      PROVE  /\ Given(Flag(r, prop, v), prop) = v
             /\ \A q \in RouteProps : q # prop => Given(Flag(r, prop, v), q) = Given(r, q)
  BY <1>1, FlagRoute
<1>3. RouteHas(Flag(r, "FAMILY", v), v, table, prefix, dst, gateway)
  <2>1. RouteSound(Flag(r, "FAMILY", v))
    BY <1>1, FlagRouteSound, RoutePropNames
  <2> QED
    BY <1>2, <2>1, RoutePropNames DEF RouteHas
<1>4. ASSUME v \in Tables \cup {"compat"}
      PROVE  RouteHas(Flag(r, "TABLE", v), family, v, prefix, dst, gateway)
  <2>1. RouteSound(Flag(r, "TABLE", v))
    BY <1>1, <1>4, FlagRouteSound, RoutePropNames
  <2> QED
    BY <1>2, <2>1, RoutePropNames DEF RouteHas
<1>5. RouteHas(Flag(r, "DST_PREFIX", v), family, table, v, dst, gateway)
  <2>1. RouteSound(Flag(r, "DST_PREFIX", v))
    BY <1>1, FlagRouteSound, RoutePropNames
  <2> QED
    BY <1>2, <2>1, RoutePropNames DEF RouteHas
<1>6. ASSUME v \in Ips
      PROVE  RouteHas(Flag(r, "DST", v), family, table, prefix, v, gateway)
  <2>1. RouteSound(Flag(r, "DST", v))
    BY <1>1, <1>6, FlagRouteSound, RoutePropNames
  <2> QED
    BY <1>2, <2>1, RoutePropNames DEF RouteHas
<1>7. RouteHas(Flag(r, "GATEWAY", v), family, table, prefix, dst, v)
  <2>1. RouteSound(Flag(r, "GATEWAY", v))
    BY <1>1, FlagRouteSound, RoutePropNames
  <2> QED
    BY <1>2, <2>1, RoutePropNames DEF RouteHas
<1> QED
  BY <1>3, <1>4, <1>5, <1>6, <1>7

(* What getters return of a route that is read. *)
LEMMA RouteIsRead ==
    ASSUME NEW e \in RouteEntries
    PROVE  RouteHas(RouteOf(e), e.family, IF e.table = "big" THEN "compat" ELSE e.table, e.prefix,
                    IF e.dst = Zero THEN NULL ELSE e.dst, e.gateway)
<1> DEFINE table == IF e.table = "big" THEN "compat" ELSE e.table
           family == Flag(Blank(RouteProps), "FAMILY", e.family)
           tabled == Flag(family, "TABLE", table)
           header == Flag(tabled, "DST_PREFIX", e.prefix)
           again == Flag(header, "FAMILY", e.family)
           r == IF e.prefix = Zero THEN header
                ELSE IF e.dst = Zero THEN again ELSE Flag(again, "DST", e.dst)
           d == IF e.dst = Zero THEN NULL ELSE e.dst
<1>1. /\ e.family \in RouteValues /\ e.prefix \in RouteValues
      /\ table \in Tables \cup {"compat"} /\ table \in RouteValues
      /\ e.dst # Zero => e.dst \in Ips /\ e.dst \in RouteValues
      /\ e.gateway # NULL => e.gateway \in RouteValues
      /\ e.prefix = Zero => e.dst = Zero
  BY RouteEntryValues, RouteValueNames
<1>2. RouteOf(e) = IF e.gateway = NULL THEN r
                   ELSE Flag(Flag(r, "FAMILY", e.family), "GATEWAY", e.gateway)
  BY DEF RouteOf, WithRouteDst, WithRouteFamily, WithRouteGateway
<1>3. RouteHas(Blank(RouteProps), NULL, NULL, NULL, NULL, NULL)
  BY BlankRoute, BlankObject, RouteValueNames DEF RouteHas
<1> HIDE DEF table
<1>4. RouteHas(family, e.family, NULL, NULL, NULL, NULL)
  BY <1>1, <1>3, FlagRouteHas
<1> HIDE DEF family
<1>5. RouteHas(tabled, e.family, table, NULL, NULL, NULL)
  BY <1>1, <1>4, FlagRouteHas
<1> HIDE DEF tabled
<1>6. RouteHas(header, e.family, table, e.prefix, NULL, NULL)
  BY <1>1, <1>5, FlagRouteHas
<1> HIDE DEF header
<1>7. RouteHas(again, e.family, table, e.prefix, NULL, NULL)
  BY <1>1, <1>6, FlagRouteHas
<1> HIDE DEF again
<1>8. RouteHas(r, e.family, table, e.prefix, d, NULL)
  BY <1>1, <1>6, <1>7, FlagRouteHas
<1> HIDE DEF r, d
<1>9. CASE e.gateway = NULL
  BY <1>2, <1>8, <1>9 DEF table, d
<1>10. CASE e.gateway # NULL
  <2>1. RouteHas(Flag(r, "FAMILY", e.family), e.family, table, e.prefix, d, NULL)
    BY <1>1, <1>8, FlagRouteHas
  <2>2. RouteHas(RouteOf(e), e.family, table, e.prefix, d, e.gateway)
    <3> DEFINE w == Flag(r, "FAMILY", e.family)
    <3>1. RouteHas(w, e.family, table, e.prefix, d, NULL) /\ e.gateway \in RouteValues
      BY <1>1, <1>10, <2>1
    <3>2. RouteOf(e) = Flag(w, "GATEWAY", e.gateway)
      BY <1>2, <1>10
    <3> HIDE DEF w, table
    <3>3. RouteHas(Flag(w, "GATEWAY", e.gateway), e.family, table, e.prefix, d, e.gateway)
      BY <3>1, FlagRouteHas
    <3> QED
      BY <3>2, <3>3
  <2> QED
    BY <2>2 DEF table, d
<1> QED
  BY <1>9, <1>10

LEMMA BecomesRouteSound ==
    ASSUME NEW r, r = NULL \/ RouteSound(r), RouteBecomes(r)
    PROVE  RouteInv'
  BY DEF RouteBecomes, RouteInv, RouteSound, Given

LEMMA RouteInvNext == ASSUME RouteInv, RouteNext PROVE RouteInv'
<1>1. CASE RouteNew
  BY <1>1, BecomesRouteSound, BlankRoute DEF RouteNew
<1>2. CASE RouteSetFamily
  <2>1. PICK family \in Families : RouteBecomes(WithRouteFamily(route, family))
    BY <1>2 DEF RouteSetFamily, RouteAllows
  <2>2. RouteSound(Flag(route, "FAMILY", family))
    BY <1>2, FlagRouteSound, RoutePropNames, RouteValueNames DEF RouteInv, RouteSetFamily
  <2> QED
    BY <2>1, <2>2, BecomesRouteSound DEF WithRouteFamily
<1>3. CASE RouteSetScalar
  <2>1. RouteSound(route)
    BY <1>3 DEF RouteInv, RouteSetScalar
  <2>2. ASSUME NEW table \in Tables \cup {"compat", Zero}
        PROVE  RouteSound(Flag(route, "TABLE", table))
    BY <2>1, FlagRouteSound, RoutePropNames, RouteValueNames
  <2>3. ASSUME NEW len \in Prefixes \cup {Zero} PROVE RouteSound(Flag(route, "DST_PREFIX", len))
    BY <2>1, FlagRouteSound, RoutePropNames, RouteValueNames
  <2> QED
    BY <1>3, <2>2, <2>3, BecomesRouteSound DEF RouteSetScalar
<1>4. CASE RouteSetDst
  <2>1. PICK family \in Families, ip \in Ips \cup {Zero} :
            RouteBecomes(WithRouteDst(route, family, ip))
    BY <1>4 DEF RouteSetDst, RouteAllows
  <2> QED
    BY <1>4, <2>1, BecomesRouteSound, DstRouteSound DEF RouteInv, RouteSetDst
<1>5. CASE RouteSetGateway
  <2>1. PICK family \in Families, ip \in Ips \cup {Zero} :
            RouteBecomes(WithRouteGateway(route, family, ip))
    BY <1>5 DEF RouteSetGateway, RouteAllows
  <2>2. RouteSound(Flag(route, "FAMILY", family))
    BY <1>5, FlagRouteSound, RoutePropNames, RouteValueNames DEF RouteInv, RouteSetGateway
  <2>3. RouteSound(Flag(Flag(route, "FAMILY", family), "GATEWAY", ip))
    BY <2>2, FlagRouteSound, RoutePropNames, RouteValueNames
  <2> QED
    BY <2>1, <2>3, BecomesRouteSound DEF WithRouteGateway, WithRouteFamily
<1>6. CASE RouteClone
  BY <1>6, BecomesRouteSound, CopiedRouteSound DEF RouteInv, RouteClone
<1>7. CASE RouteFree
  BY <1>7, BecomesRouteSound DEF RouteFree
<1>8. CASE RouteRead
  <2>1. PICK e \in RouteEntries : route' = RouteOf(e) /\ routeRead' = e
    BY <1>8 DEF RouteRead
  <2>2. RouteSound(route')
    BY <2>1, RouteIsRead DEF RouteHas
  <2> QED
    BY <2>1, <2>2 DEF RouteInv, RouteSound, Given
<1> QED
  BY <1>1, <1>2, <1>3, <1>4, <1>5, <1>6, <1>7, <1>8 DEF RouteNext

(* The invariant of the routes is inductive. *)
THEOREM RouteInvariance == RouteSpec => []RouteInv
<1>1. RouteInit => RouteInv
  BY DEF RouteInit, RouteInv
<1>2. RouteInv /\ [RouteNext]_routeVars => RouteInv'
  BY RouteInvNext DEF routeVars, RouteInv, RouteSound, Given
<1> QED
  BY <1>1, <1>2, PTL DEF RouteSpec

(* Every variable keeps its type, whatever setters, clones and reads make  *)
(* of a route (route.c).                                                   *)
THEOREM RouteTyped == RouteSpec => []RouteTypeOK
<1>1. RouteInv => RouteTypeOK
  BY DEF RouteInv, RouteSound, RouteObjects, ObjectsOf, RouteTypeOK, Routes
<1> QED
  BY <1>1, RouteInvariance, PTL

(* RTM_DELROUTE with a route as mnlxt_rt_route_data() has read it finds    *)
(* the kernel's route.                                                     *)
THEOREM RouteIsFound == RouteSpec => []RouteFound
<1>1. ASSUME RouteInv, routeRead # NULL, routeRead.table # "big", routeRead.tos = Zero
      PROVE  RouteDeletedBy(routeRead, RouteMessage(route))
  <2> DEFINE e == routeRead
             m == RouteMessage(route)
  <2>1. /\ e \in RouteEntries
        /\ RouteHas(route, e.family, e.table, e.prefix, IF e.dst = Zero THEN NULL ELSE e.dst,
                    e.gateway)
    BY <1>1, RouteIsRead DEF RouteInv
  <2>2. /\ e.family # NULL /\ e.table # NULL /\ e.table # Zero /\ e.prefix # NULL
        /\ e.prefix = Zero => e.dst = Zero
        /\ e.dst # NULL /\ e.tos = Zero
    <3>1. e.table \in Tables \cup {"compat"}
      BY <1>1, <2>1, RouteEntryValues
    <3> QED
      BY <1>1, <2>1, <3>1, RouteEntryValues, RouteValueNames, RouteAssumption DEF Zero
  <2> HIDE DEF e
  <2>3. /\ Given(route, "FAMILY") = e.family /\ Given(route, "TABLE") = e.table
        /\ Given(route, "DST_PREFIX") = e.prefix /\ Given(route, "GATEWAY") = e.gateway
        /\ Given(route, "DST") = IF e.dst = Zero THEN NULL ELSE e.dst
    BY <2>1 DEF RouteHas
  <2>4. \A q : Given(route, q) # NULL => Header(route, q) = Given(route, q)
    BY DEF Header, Given
  <2>5. /\ m.family = e.family /\ m.table = e.table /\ m.prefix = e.prefix
        /\ m.gateway = e.gateway /\ m.dst = IF e.dst = Zero THEN NULL ELSE e.dst
    BY <2>2, <2>3, <2>4 DEF RouteMessage
  <2> HIDE DEF m
  <2>6. RouteDeletedBy(e, m)
    <3>1. e.gateway \in Ips \cup {NULL}
      BY <2>1 DEF RouteEntries
    <3>2. e.gateway # Zero
      BY <3>1, RouteAssumption, RouteValueNames
    <3> QED
      BY <2>2, <2>5, <3>2 DEF RouteDeletedBy, RouteAddressed
  <2> QED
    BY <2>6 DEF e, m
<1>2. RouteInv => RouteFound
  BY <1>1 DEF RouteFound
<1> QED
  BY <1>2, RouteInvariance, PTL

(* What mnlxt_rt_route_put() writes is what mnlxt_rt_route_data() reads,   *)
(* for every route that setters, clones and reads lead to.                 *)
THEOREM RouteIsReadBack == RouteSpec => []RouteReadBack
<1> DEFINE m == RouteMessage(route)
<1>1. ASSUME RouteInv, route # NULL, RouteKept(route), NEW e \in RouteEntries,
             RouteMadeOf(e, m) \/ RouteDeletedBy(e, m)
      PROVE  Matches(RouteOf(e), route)
  <2>1. RouteSound(route)
    BY <1>1 DEF RouteInv
  <2>2. /\ m.family = Header(route, "FAMILY") /\ m.table = Header(route, "TABLE")
        /\ m.prefix = Header(route, "DST_PREFIX") /\ m.dst = Given(route, "DST")
        /\ m.gateway = Given(route, "GATEWAY")
    BY DEF RouteMessage
  <2> HIDE DEF m
  <2>3. RouteAddressed(e, m) /\ m.gateway \in {NULL, e.gateway}
    <3>1. m.gateway # Zero
      BY <1>1, <2>2 DEF RouteKept
    <3> QED
      BY <1>1, <3>1 DEF RouteMadeOf, RouteDeletedBy
  <2>4. \A q \in route.props : Header(route, q) = Given(route, q)
    BY DEF Header, Given
  <2>5. \A q \in route.props : Given(route, q) # NULL /\ q \in RouteProps
    BY <2>1, RouteValueNames DEF RouteSound, RouteObjects, ObjectsOf, Given
  <2>6. RouteHas(RouteOf(e), e.family, IF e.table = "big" THEN "compat" ELSE e.table, e.prefix,
                 IF e.dst = Zero THEN NULL ELSE e.dst, e.gateway)
    BY RouteIsRead
  <2>7. "FAMILY" \in route.props => Given(RouteOf(e), "FAMILY") = Given(route, "FAMILY")
    BY <2>2, <2>3, <2>4, <2>6 DEF RouteHas, RouteAddressed
  <2>8. "TABLE" \in route.props => Given(RouteOf(e), "TABLE") = Given(route, "TABLE")
    <3> SUFFICES ASSUME "TABLE" \in route.props
                 PROVE  Given(RouteOf(e), "TABLE") = Given(route, "TABLE")
      OBVIOUS
    <3>1. Given(route, "TABLE") # Zero /\ m.table = Given(route, "TABLE")
      BY <1>1, <2>2, <2>4 DEF RouteKept
    <3>2. e.table = Given(route, "TABLE")
      BY <2>3, <3>1 DEF RouteAddressed
    <3>3. Given(route, "TABLE") \in Tables \cup {"compat", Zero}
      BY <2>1 DEF RouteSound, Given
    <3>4. e.table # "big"
      BY <3>1, <3>2, <3>3, RouteAssumption
    <3> QED
      BY <2>6, <3>2, <3>4 DEF RouteHas
  <2>9. "DST_PREFIX" \in route.props => Given(RouteOf(e), "DST_PREFIX") = Given(route, "DST_PREFIX")
    BY <2>2, <2>3, <2>4, <2>6 DEF RouteHas, RouteAddressed
  <2>10. "DST" \in route.props => Given(RouteOf(e), "DST") = Given(route, "DST")
    <3> SUFFICES ASSUME "DST" \in route.props
                 PROVE  Given(RouteOf(e), "DST") = Given(route, "DST")
      OBVIOUS
    <3>1. m.prefix # Zero /\ m.dst = Given(route, "DST") /\ Given(route, "DST") # NULL
      BY <1>1, <2>2, <2>5 DEF RouteKept
    <3>2. Given(route, "DST") # Zero
      BY <2>1, <3>1, RouteAssumption DEF RouteSound
    <3>3. e.dst = Given(route, "DST")
      BY <2>3, <3>1 DEF RouteAddressed
    <3> QED
      BY <2>6, <3>2, <3>3 DEF RouteHas
  <2>11. "GATEWAY" \in route.props => Given(RouteOf(e), "GATEWAY") = Given(route, "GATEWAY")
    BY <2>2, <2>3, <2>5, <2>6 DEF RouteHas
  <2>12. \A q \in route.props : Given(RouteOf(e), q) = Given(route, q)
    BY <2>5, <2>7, <2>8, <2>9, <2>10, <2>11 DEF RouteProps
  <2> QED
    BY <2>12 DEF Matches, Agree
<1>2. RouteInv => RouteReadBack
  BY <1>1 DEF RouteReadBack
<1> QED
  BY <1>2, RouteInvariance, PTL

-----------------------------------------------------------------------------
(* Rules: who has which string of the heap.                                *)

(* The strings slots point to, and the names in the strings. *)
Owned(p, n) ==
    /\ \A s \in Slots, prop \in RuleNameProps : p[s][prop] # Zero => n[p[s][prop]] # NULL
    /\ \A s, t \in Slots, prop, other \in RuleNameProps :
          p[s][prop] # Zero /\ p[s][prop] = p[t][other] => s = t /\ prop = other
    /\ \A c \in Cells : n[c] # NULL => \E s \in Slots, prop \in RuleNameProps : p[s][prop] = c

Pointers == [Slots -> [RuleNameProps -> Cells \cup {Zero}]]

Heaps == [Cells -> Labels \cup {NULL}]

(* A slot gets a string that was free for the one it had, or for none. *)
LEMMA OwnedSet ==
    ASSUME NEW p \in Pointers, NEW q \in Pointers, NEW n \in Heaps, NEW m \in Heaps, Owned(p, n),
           NEW s \in Slots, NEW prop \in RuleNameProps, NEW cell \in Cells, n[cell] = NULL,
           q[s][prop] = cell,
           \A other \in RuleNameProps : other # prop => q[s][other] = p[s][other],
           \A t \in Slots : t # s => q[t] = p[t],
           m[cell] # NULL,
           \A c \in Cells : c # cell => m[c] = IF c = p[s][prop] THEN NULL ELSE n[c]
    PROVE  Owned(q, m)
<1>1. /\ \A t \in Slots, other \in RuleNameProps : p[t][other] \in Cells \cup {Zero}
      /\ \A t \in Slots, other \in RuleNameProps : q[t][other] \in Cells \cup {Zero}
  BY DEF Pointers
<1>2. \A t \in Slots, other \in RuleNameProps :
          q[t][other] = IF t = s /\ other = prop THEN cell ELSE p[t][other]
  OBVIOUS
<1>3. \A t \in Slots, other \in RuleNameProps : p[t][other] # cell
  BY RuleAssumption DEF Owned
<1>4. \A t \in Slots, other \in RuleNameProps : q[t][other] # Zero => m[q[t][other]] # NULL
  BY <1>1, <1>2, <1>3 DEF Owned
<1>5. \A t, u \in Slots, a, b \in RuleNameProps :
          q[t][a] # Zero /\ q[t][a] = q[u][b] => t = u /\ a = b
  BY <1>2, <1>3 DEF Owned
<1>6. \A c \in Cells : m[c] # NULL => \E t \in Slots, other \in RuleNameProps : q[t][other] = c
  <2> SUFFICES ASSUME NEW c \in Cells, m[c] # NULL, c # cell
               PROVE  \E t \in Slots, other \in RuleNameProps : q[t][other] = c
    BY <1>2
  <2>1. n[c] # NULL /\ c # p[s][prop]
    OBVIOUS
  <2>2. PICK t \in Slots, other \in RuleNameProps : p[t][other] = c
    BY <2>1 DEF Owned
  <2> QED
    BY <1>2, <2>1, <2>2
<1> QED
  BY <1>4, <1>5, <1>6 DEF Owned

(* A slot's strings are freed. *)
LEMMA OwnedFree ==
    ASSUME NEW p \in Pointers, NEW q \in Pointers, NEW n \in Heaps, NEW m \in Heaps, Owned(p, n),
           NEW s \in Slots,
           \A prop \in RuleNameProps : q[s][prop] = Zero,
           \A t \in Slots : t # s => q[t] = p[t],
           \A c \in Cells : m[c] = IF \E prop \in RuleNameProps : c = p[s][prop] THEN NULL ELSE n[c]
    PROVE  Owned(q, m)
<1>1. \A t \in Slots, prop \in RuleNameProps : p[t][prop] \in Cells \cup {Zero}
  BY DEF Pointers
<1>2. \A t \in Slots, prop \in RuleNameProps :
          q[t][prop] # Zero => t # s /\ q[t][prop] = p[t][prop] /\ q[t][prop] \in Cells
  BY <1>1
<1>3. \A t \in Slots, prop \in RuleNameProps : q[t][prop] # Zero => m[q[t][prop]] # NULL
  BY <1>2 DEF Owned
<1>4. \A t, u \in Slots, a, b \in RuleNameProps :
          q[t][a] # Zero /\ q[t][a] = q[u][b] => t = u /\ a = b
  <2> SUFFICES ASSUME NEW t \in Slots, NEW u \in Slots, NEW a \in RuleNameProps, NEW b \in RuleNameProps,
                      q[t][a] # Zero, q[t][a] = q[u][b]
               PROVE  t = u /\ a = b
    OBVIOUS
  <2>1. q[t][a] = p[t][a] /\ q[u][b] = p[u][b]
    BY <1>2
  <2>2. p[t][a] # Zero /\ p[t][a] = p[u][b]
    BY <2>1
  <2> QED
    BY <2>2 DEF Owned
<1>5. \A c \in Cells : m[c] # NULL => \E t \in Slots, prop \in RuleNameProps : q[t][prop] = c
  <2> SUFFICES ASSUME NEW c \in Cells, m[c] # NULL
               PROVE  \E t \in Slots, prop \in RuleNameProps : q[t][prop] = c
    OBVIOUS
  <2>1. n[c] # NULL /\ \A prop \in RuleNameProps : c # p[s][prop]
    OBVIOUS
  <2>2. PICK t \in Slots, prop \in RuleNameProps : p[t][prop] = c
    BY <2>1 DEF Owned
  <2> QED
    BY <2>1, <2>2
<1> QED
  BY <1>3, <1>4, <1>5 DEF Owned

-----------------------------------------------------------------------------
(* Rules.                                                                  *)

RuleObjects == ObjectsOf(RuleProps, RuleValues)

(* A rule that setters, clones and reads lead to: the values of its names  *)
(* are strings, and those that are flagged are there.                      *)
RuleSound(r) ==
    /\ r \in RuleObjects
    /\ \A prop \in RuleNameProps :
          r.val[prop] \in Cells \cup {Zero} /\ (prop \in r.props => r.val[prop] # Zero)

(* The strings of an object. *)
Strings(r) == [prop \in RuleNameProps |-> IF r = NULL THEN Zero ELSE r.val[prop]]

RuleInv ==
    /\ rule \in [Slots -> RuleObjects \cup {NULL}]
    /\ ruleNames \in Heaps
    /\ \A s \in Slots : rule[s] # NULL => RuleSound(rule[s])
    /\ Owned([s \in Slots |-> Strings(rule[s])], ruleNames)

LEMMA RulePropNames ==
    /\ "FAMILY" \in RuleProps /\ "DST_PREFIX" \in RuleProps /\ "DST" \in RuleProps
    /\ "FAMILY" \notin RuleNameProps /\ "DST_PREFIX" \notin RuleNameProps
    /\ "DST" \notin RuleNameProps
    /\ \A prop \in RuleNameProps : prop \in RuleProps
  BY DEF RuleProps, RuleNameProps

LEMMA RuleValueNames ==
    /\ Zero \in RuleValues /\ NULL \notin RuleValues /\ Zero \notin Cells /\ NULL \notin Labels
    /\ \A v \in Families \cup Prefixes \cup Ips \cup Cells : v \in RuleValues
  BY RuleAssumption DEF RuleValues

LEMMA RulesAreObjects == Rules = RuleObjects /\ NULL \notin RuleObjects
  BY RuleAssumption DEF Rules, RuleObjects, ObjectsOf

(* FlagObject of a rule. *)
LEMMA FlagRule ==
    ASSUME NEW r \in RuleObjects, NEW prop \in RuleProps, NEW value \in RuleValues
    PROVE  /\ Flag(r, prop, value) \in RuleObjects
           /\ \A q \in RuleProps : q \in Flag(r, prop, value).props <=> q \in r.props \/ q = prop
           /\ Flag(r, prop, value).val[prop] = value
           /\ \A q \in RuleProps : q # prop => Flag(r, prop, value).val[q] = r.val[q]
  BY FlagObject DEF RuleObjects

(* A property that is no name. *)
LEMMA FlagRuleSound ==
    ASSUME NEW r, RuleSound(r), NEW prop \in RuleProps, prop \notin RuleNameProps,
           NEW value \in RuleValues
    PROVE  /\ RuleSound(Flag(r, prop, value))
           /\ \A q \in RuleNameProps : Flag(r, prop, value).val[q] = r.val[q]
<1>1. r \in RuleObjects
  BY DEF RuleSound
<1>2. \A q \in RuleNameProps : q \in RuleProps /\ q # prop
  BY RulePropNames
<1>3. /\ Flag(r, prop, value) \in RuleObjects
      /\ \A q \in RuleNameProps : /\ Flag(r, prop, value).val[q] = r.val[q]
                                  /\ q \in Flag(r, prop, value).props <=> q \in r.props
  BY <1>1, <1>2, FlagRule
<1> QED
  BY <1>3 DEF RuleSound

LEMMA FlagNameSound ==
    ASSUME NEW r, RuleSound(r), NEW prop \in RuleNameProps, NEW cell \in Cells
    PROVE  /\ RuleSound(Flag(r, prop, cell))
           /\ Flag(r, prop, cell).val[prop] = cell
           /\ \A q \in RuleNameProps : q # prop => Flag(r, prop, cell).val[q] = r.val[q]
<1> DEFINE f == Flag(r, prop, cell)
<1>1. r \in RuleObjects /\ prop \in RuleProps /\ cell \in RuleValues
  BY RulePropNames, RuleValueNames DEF RuleSound
<1>2. f \in RuleObjects /\ f.val[prop] = cell
  BY <1>1, FlagRule
<1>3. \A q \in RuleNameProps : /\ q # prop => f.val[q] = r.val[q]
                               /\ q \in f.props => q \in r.props \/ q = prop
  BY <1>1, FlagRule, RulePropNames
<1> HIDE DEF f
<1>4. RuleSound(f)
  BY <1>2, <1>3, RuleValueNames DEF RuleSound
<1> QED
  BY <1>2, <1>3, <1>4 DEF f

LEMMA BlankRule ==
    RuleSound(Blank(RuleProps)) /\ \A q \in RuleNameProps : Blank(RuleProps).val[q] = Zero
<1>1. Blank(RuleProps) \in RuleObjects /\ Blank(RuleProps).props = {}
  BY BlankObject, RuleValueNames DEF RuleObjects
<1>2. \A q \in RuleNameProps : Blank(RuleProps).val[q] = Zero
  BY RulePropNames DEF Blank
<1> QED
  BY <1>1, <1>2 DEF RuleSound

(* A slot's object is replaced by one with the same strings. *)
LEMMA RuleKeeps ==
    ASSUME RuleInv, NEW s \in Slots, NEW r, r # NULL => RuleSound(r), Strings(r) = Strings(rule[s]),
           RuleSet(s, r), UNCHANGED ruleNames
    PROVE  RuleInv'
<1>1. r \in RuleObjects \cup {NULL}
  BY DEF RuleSound
<1>2. rule' \in [Slots -> RuleObjects \cup {NULL}]
  BY <1>1 DEF RuleInv, RuleSet
<1>3. \A t \in Slots : rule'[t] # NULL => RuleSound(rule'[t])
  BY DEF RuleInv, RuleSet
<1>4. [t \in Slots |-> Strings(rule'[t])] = [t \in Slots |-> Strings(rule[t])]
  BY DEF RuleInv, RuleSet
<1> QED
  BY <1>2, <1>3, <1>4 DEF RuleInv, RuleSound, Owned, Strings

LEMMA StringsArePointers == ASSUME RuleInv PROVE [s \in Slots |-> Strings(rule[s])] \in Pointers
  BY DEF RuleInv, RuleSound, Strings, Pointers

LEMMA RuleSetNameInv == ASSUME RuleInv, NEW s \in Slots, RuleSetName(s) PROVE RuleInv'
<1> DEFINE p == [t \in Slots |-> Strings(rule[t])]
           q == [t \in Slots |-> Strings(rule'[t])]
<1>1. PICK prop \in RuleNameProps, name \in Labels, cell \in RuleFreeCells :
          /\ RuleStore(cell, name, rule[s].val[prop])
          /\ RuleSet(s, Flag(rule[s], prop, cell))
  BY DEF RuleSetName
<1>2. rule[s] # NULL /\ RuleSound(rule[s]) /\ cell \in Cells /\ ruleNames[cell] = NULL
  BY DEF RuleSetName, RuleInv, RuleFreeCells
<1>3. /\ RuleSound(Flag(rule[s], prop, cell))
      /\ Flag(rule[s], prop, cell).val[prop] = cell
      /\ \A o \in RuleNameProps : o # prop => Flag(rule[s], prop, cell).val[o] = rule[s].val[o]
  BY <1>2, FlagNameSound
<1>4. Flag(rule[s], prop, cell) \in RuleObjects /\ Flag(rule[s], prop, cell) # NULL
  BY <1>3, RulesAreObjects DEF RuleSound
<1>5. /\ rule' \in [Slots -> RuleObjects \cup {NULL}]
      /\ rule'[s] = Flag(rule[s], prop, cell)
      /\ \A t \in Slots : t # s => rule'[t] = rule[t]
  BY <1>1, <1>4 DEF RuleInv, RuleSet
<1>6. \A t \in Slots : rule'[t] # NULL => RuleSound(rule'[t])
  BY <1>3, <1>5 DEF RuleInv
<1>7. /\ ruleNames' \in Heaps /\ ruleNames'[cell] = name /\ name # NULL
      /\ \A c \in Cells : c # cell =>
            ruleNames'[c] = IF c = rule[s].val[prop] THEN NULL ELSE ruleNames[c]
  BY <1>1, <1>2, RuleValueNames DEF RuleInv, RuleStore, Heaps
<1>8. p \in Pointers /\ q \in Pointers
  BY <1>5, <1>6, StringsArePointers DEF RuleSound, Strings, Pointers
<1>9. /\ q[s][prop] = cell /\ p[s][prop] = rule[s].val[prop]
      /\ \A o \in RuleNameProps : o # prop => q[s][o] = p[s][o]
      /\ \A t \in Slots : t # s => q[t] = p[t]
  BY <1>2, <1>3, <1>4, <1>5 DEF Strings
<1>10. Owned(p, ruleNames) /\ ruleNames \in Heaps
  BY DEF RuleInv
<1> HIDE DEF p, q
<1>11. Owned(q, ruleNames')
  BY <1>2, <1>7, <1>8, <1>9, <1>10, OwnedSet
<1> QED
  BY <1>5, <1>6, <1>7, <1>11 DEF q, RuleInv, RuleSound, Owned, Strings

LEMMA RuleFreeInv == ASSUME RuleInv, NEW s \in Slots, RuleFree(s) PROVE RuleInv'
<1> DEFINE p == [t \in Slots |-> Strings(rule[t])]
           q == [t \in Slots |-> Strings(rule'[t])]
<1>1. /\ rule' \in [Slots -> RuleObjects \cup {NULL}] /\ rule'[s] = NULL /\ rule[s] # NULL
      /\ \A t \in Slots : t # s => rule'[t] = rule[t]
  BY DEF RuleInv, RuleFree, RuleSet
<1>2. \A t \in Slots : rule'[t] # NULL => RuleSound(rule'[t])
  BY <1>1 DEF RuleInv
<1>3. p \in Pointers /\ q \in Pointers
  BY <1>1, <1>2, StringsArePointers DEF RuleSound, Strings, Pointers
<1>4. /\ \A prop \in RuleNameProps : q[s][prop] = Zero /\ p[s][prop] = rule[s].val[prop]
      /\ \A t \in Slots : t # s => q[t] = p[t]
  BY <1>1 DEF Strings
<1>5. /\ ruleNames' \in Heaps
      /\ \A c \in Cells : ruleNames'[c] =
            IF \E prop \in RuleNameProps : c = p[s][prop] THEN NULL ELSE ruleNames[c]
  BY <1>1 DEF RuleInv, RuleFree, Heaps, Strings
<1>6. Owned(p, ruleNames) /\ ruleNames \in Heaps
  BY DEF RuleInv
<1> HIDE DEF p, q
<1>7. Owned(q, ruleNames')
  BY <1>3, <1>4, <1>5, <1>6, OwnedFree
<1> QED
  BY <1>1, <1>2, <1>5, <1>7 DEF q, RuleInv, RuleSound, Owned, Strings

LEMMA RuleReadInv == ASSUME RuleInv, NEW s \in Slots, RuleRead(s) PROVE RuleInv'
<1>1. PICK e \in RuleEntries, iifCell \in RuleFreeCells, oifCell \in RuleFreeCells :
          /\ iifCell = oifCell => NULL \in {e.iif, e.oif}
          /\ RuleSet(s, RuleOf(e, iifCell, oifCell))
          /\ ruleNames' = [c \in Cells |-> IF c = iifCell /\ e.iif # NULL THEN e.iif
                                           ELSE IF c = oifCell /\ e.oif # NULL THEN e.oif
                                           ELSE ruleNames[c]]
  BY DEF RuleRead
<1> DEFINE family == Flag(Blank(RuleProps), "FAMILY", e.family)
           dst == IF e.prefix = Zero THEN family
                  ELSE Flag(Flag(Flag(family, "FAMILY", e.family), "DST", e.dst),
                            "DST_PREFIX", e.prefix)
           iif == IF e.iif = NULL THEN dst ELSE Flag(dst, "IIFNAME", iifCell)
           oif == IF e.oif = NULL THEN iif ELSE Flag(iif, "OIFNAME", oifCell)
           p == [t \in Slots |-> Strings(rule[t])]
           p1 == [p EXCEPT ![s] = Strings(iif)]
           n1 == IF e.iif = NULL THEN ruleNames ELSE [ruleNames EXCEPT ![iifCell] = e.iif]
           q == [t \in Slots |-> Strings(rule'[t])]
<1>2. /\ e.family \in RuleValues /\ e.prefix \in RuleValues /\ e.dst \in RuleValues
      /\ e.iif \in Labels \cup {NULL} /\ e.oif \in Labels \cup {NULL}
  BY RuleValueNames DEF RuleEntries
<1>3. /\ rule[s] = NULL /\ iifCell \in Cells /\ oifCell \in Cells
      /\ ruleNames[iifCell] = NULL /\ ruleNames[oifCell] = NULL
  BY DEF RuleRead, RuleFreeCells
<1>4. RuleOf(e, iifCell, oifCell) = oif
  BY DEF RuleOf, WithRuleFamily, WithRuleDst
<1>5. RuleSound(family) /\ \A o \in RuleNameProps : family.val[o] = Zero
  BY <1>2, BlankRule, FlagRuleSound, RulePropNames
<1> HIDE DEF family
<1>6. RuleSound(dst) /\ \A o \in RuleNameProps : dst.val[o] = Zero
  <2> DEFINE f1 == Flag(family, "FAMILY", e.family)
             f2 == Flag(f1, "DST", e.dst)
             f3 == Flag(f2, "DST_PREFIX", e.prefix)
  <2>1. RuleSound(f1) /\ \A o \in RuleNameProps : f1.val[o] = Zero
    BY <1>2, <1>5, FlagRuleSound, RulePropNames
  <2> HIDE DEF f1
  <2>2. RuleSound(f2) /\ \A o \in RuleNameProps : f2.val[o] = Zero
    BY <1>2, <2>1, FlagRuleSound, RulePropNames
  <2> HIDE DEF f2
  <2>3. RuleSound(f3) /\ \A o \in RuleNameProps : f3.val[o] = Zero
    BY <1>2, <2>2, FlagRuleSound, RulePropNames
  <2>4. dst = IF e.prefix = Zero THEN family ELSE f3
    BY DEF f1, f2
  <2> QED
    BY <1>5, <2>3, <2>4
<1> HIDE DEF dst
<1>7. /\ RuleSound(iif) /\ iif # NULL
      /\ \A o \in RuleNameProps : iif.val[o] = IF o = "IIFNAME" /\ e.iif # NULL THEN iifCell ELSE Zero
  <2>1. RuleSound(iif)
    BY <1>3, <1>6, FlagNameSound DEF RuleNameProps
  <2>2. e.iif # NULL => iif.val["IIFNAME"] = iifCell
    BY <1>3, <1>6, FlagNameSound DEF RuleNameProps
  <2>4. e.iif = NULL => iif = dst
    OBVIOUS
  <2>3. \A o \in RuleNameProps : o # "IIFNAME" => iif.val[o] = Zero
    <3>1. CASE e.iif = NULL
      BY <1>6, <2>4, <3>1
    <3>2. CASE e.iif # NULL
      <4>1. iif = Flag(dst, "IIFNAME", iifCell) /\ "IIFNAME" \in RuleNameProps
        BY <3>2 DEF RuleNameProps
      <4> HIDE DEF iif
      <4>2. \A o \in RuleNameProps : o # "IIFNAME" => iif.val[o] = dst.val[o]
        BY <1>3, <1>6, <3>2, <4>1, FlagNameSound
      <4> QED
        BY <1>6, <4>2
    <3> QED
      BY <3>1, <3>2
  <2> HIDE DEF iif
  <2> QED
    BY <1>6, <2>1, <2>2, <2>3, <2>4, RulesAreObjects DEF RuleSound
<1> HIDE DEF iif
<1>8. /\ RuleSound(oif) /\ oif # NULL
      /\ \A o \in RuleNameProps :
            oif.val[o] = IF o = "OIFNAME" /\ e.oif # NULL THEN oifCell ELSE iif.val[o]
  <2>1. RuleSound(oif)
    BY <1>3, <1>7, FlagNameSound DEF RuleNameProps
  <2>2. e.oif # NULL => oif.val["OIFNAME"] = oifCell
    BY <1>3, <1>7, FlagNameSound DEF RuleNameProps
  <2>3. \A o \in RuleNameProps : o # "OIFNAME" => oif.val[o] = iif.val[o]
    BY <1>3, <1>7, FlagNameSound DEF RuleNameProps
  <2>4. e.oif = NULL => oif = iif
    OBVIOUS
  <2> HIDE DEF oif
  <2> QED
    BY <2>1, <2>2, <2>3, <2>4, RulesAreObjects DEF RuleSound
<1> HIDE DEF oif
<1>9. /\ rule' \in [Slots -> RuleObjects \cup {NULL}] /\ rule'[s] = oif
      /\ \A t \in Slots : t # s => rule'[t] = rule[t]
  BY <1>1, <1>4, <1>8 DEF RuleInv, RuleSet, RuleSound
<1>10. \A t \in Slots : rule'[t] # NULL => RuleSound(rule'[t])
  BY <1>8, <1>9 DEF RuleInv
<1>11. /\ p \in Pointers /\ q \in Pointers /\ p1 \in Pointers
       /\ ruleNames \in Heaps /\ n1 \in Heaps /\ ruleNames' \in Heaps
  <2>1. Strings(iif) \in [RuleNameProps -> Cells \cup {Zero}]
    BY <1>7 DEF RuleSound, Strings
  <2>2. p \in Pointers
    BY StringsArePointers
  <2>3. p1 \in Pointers
    <3> HIDE DEF p
    <3> QED
      BY <2>1, <2>2 DEF Pointers
  <2>4. q \in Pointers
    BY <1>9, <1>10 DEF RuleSound, Strings, Pointers
  <2>5. ruleNames \in Heaps /\ n1 \in Heaps
    BY <1>2, <1>3 DEF RuleInv, Heaps
  <2>6. ruleNames' \in Heaps
    BY <1>1, <1>2, <2>5 DEF Heaps
  <2> QED
    BY <2>2, <2>3, <2>4, <2>5, <2>6
<1>12. /\ \A o \in RuleNameProps : p[s][o] = Zero
       /\ \A o \in RuleNameProps : p1[s][o] = IF o = "IIFNAME" /\ e.iif # NULL THEN iifCell ELSE Zero
       /\ \A o \in RuleNameProps : q[s][o] = IF o = "OIFNAME" /\ e.oif # NULL THEN oifCell ELSE p1[s][o]
       /\ \A t \in Slots : t # s => p1[t] = p[t] /\ q[t] = p[t]
  BY <1>3, <1>7, <1>8, <1>9 DEF Strings
<1>13. Owned(p, ruleNames)
  BY DEF RuleInv
<1>14. /\ \A c \in Cells : n1[c] = IF c = iifCell /\ e.iif # NULL THEN e.iif ELSE ruleNames[c]
       /\ \A c \in Cells : ruleNames'[c] = IF c = oifCell /\ e.oif # NULL THEN e.oif ELSE n1[c]
       /\ e.oif # NULL => n1[oifCell] = NULL
  BY <1>1, <1>3, <1>11 DEF Heaps
<1> HIDE DEF p, p1, q, n1
<1>15. Owned(p1, n1)
  <2>1. CASE e.iif = NULL
    <3>1. p1 = p /\ n1 = ruleNames
      BY <1>11, <1>12, <1>14, <2>1 DEF Pointers, Heaps
    <3> QED
      BY <1>13, <3>1
  <2>2. CASE e.iif # NULL
    <3>1. "IIFNAME" \in RuleNameProps /\ p1[s]["IIFNAME"] = iifCell /\ p[s]["IIFNAME"] = Zero
      BY <1>12, <2>2 DEF RuleNameProps
    <3>2. /\ \A o \in RuleNameProps : o # "IIFNAME" => p1[s][o] = p[s][o]
          /\ \A t \in Slots : t # s => p1[t] = p[t]
      BY <1>12
    <3>3. /\ n1[iifCell] # NULL
          /\ \A c \in Cells : c # iifCell => n1[c] = IF c = p[s]["IIFNAME"] THEN NULL ELSE ruleNames[c]
      BY <1>2, <1>3, <1>14, <2>2, <3>1, RuleValueNames
    <3> QED
      BY <1>3, <1>11, <1>13, <3>1, <3>2, <3>3, OwnedSet
  <2> QED
    BY <2>1, <2>2
<1>16. Owned(q, ruleNames')
  <2>1. CASE e.oif = NULL
    <3>1. q = p1 /\ ruleNames' = n1
      BY <1>11, <1>12, <1>14, <2>1 DEF Pointers, Heaps
    <3> QED
      BY <1>15, <3>1
  <2>2. CASE e.oif # NULL
    <3>1. "OIFNAME" \in RuleNameProps /\ q[s]["OIFNAME"] = oifCell /\ p1[s]["OIFNAME"] = Zero
      BY <1>12, <2>2 DEF RuleNameProps
    <3>2. /\ \A o \in RuleNameProps : o # "OIFNAME" => q[s][o] = p1[s][o]
          /\ \A t \in Slots : t # s => q[t] = p1[t]
      BY <1>12
    <3>3. /\ ruleNames'[oifCell] # NULL
          /\ \A c \in Cells : c # oifCell =>
                ruleNames'[c] = IF c = p1[s]["OIFNAME"] THEN NULL ELSE n1[c]
      BY <1>2, <1>3, <1>14, <2>2, <3>1, RuleValueNames
    <3>4. n1[oifCell] = NULL
      BY <1>14, <2>2
    <3> QED
      BY <1>3, <1>11, <1>15, <3>1, <3>2, <3>3, <3>4, OwnedSet
  <2> QED
    BY <2>1, <2>2
<1> QED
  BY <1>9, <1>10, <1>11, <1>16 DEF q, RuleInv, RuleSound, Owned, Strings

LEMMA RuleCloneInv ==
    ASSUME RuleInv, ~CloneNamed, NEW s \in Slots, NEW t \in Slots, RuleClone(s, t) PROVE RuleInv'
<1>1. PICK filter \in SUBSET RuleProps :
          /\ filter # {} /\ (\E prop \in RuleNameProps : rule[s].val[prop] # Zero) => CloneNamed
          /\ RuleSet(t, Copied(rule[s], filter))
  BY DEF RuleClone
<1> DEFINE r == Copied(rule[s], filter)
<1>2. rule[s] \in RuleObjects /\ RuleSound(rule[s]) /\ rule[t] = NULL /\ UNCHANGED ruleNames
  BY DEF RuleInv, RuleClone, RuleSound
<1>3. /\ r \in RuleObjects
      /\ r.props = rule[s].props \cap filter
      /\ \A q \in RuleProps : filter # {} => r.val[q] = rule[s].val[q]
      /\ \A q \in RuleProps : filter = {} => r.val[q] = Zero
  BY <1>2, CopiedObject, RuleValueNames DEF RuleObjects
<1>4. RuleSet(t, r)
  BY <1>1
<1> HIDE DEF r
<1>5. \A prop \in RuleNameProps : r.val[prop] = Zero
  BY <1>1, <1>3, RulePropNames
<1>6. \A prop \in RuleNameProps : prop \notin r.props
  <2>1. SUFFICES ASSUME NEW prop \in RuleNameProps, prop \in r.props PROVE FALSE
    OBVIOUS
  <2>2. prop \in rule[s].props /\ filter # {} /\ prop \in RuleProps
    BY <1>3, <2>1, RulePropNames
  <2>3. rule[s].val[prop] = Zero
    BY <1>3, <1>5, <2>2
  <2> QED
    BY <1>2, <2>2, <2>3 DEF RuleSound
<1>7. RuleSound(r)
  BY <1>3, <1>5, <1>6 DEF RuleSound
<1>8. Strings(r) = Strings(rule[t])
  BY <1>2, <1>5 DEF Strings
<1> QED
  BY <1>2, <1>4, <1>7, <1>8, RuleKeeps

(* A setter of a property that is no name. *)
LEMMA RuleFlagKeeps ==
    ASSUME RuleInv, NEW s \in Slots, rule[s] # NULL, UNCHANGED ruleNames,
           NEW r, RuleSound(r), \A q \in RuleNameProps : r.val[q] = rule[s].val[q], RuleSet(s, r)
    PROVE  RuleInv'
<1>1. r # NULL
  BY RulesAreObjects DEF RuleSound
<1>2. Strings(r) = Strings(rule[s])
  BY <1>1 DEF Strings
<1> QED
  BY <1>2, RuleKeeps

LEMMA RuleInvNext == ASSUME RuleInv, ~CloneNamed, RuleNext PROVE RuleInv'
<1>1. PICK s \in Slots :
          \/ RuleNew(s) \/ RuleSetFamily(s) \/ RuleSetPrefix(s) \/ RuleSetDst(s)
          \/ RuleSetName(s) \/ RuleFree(s) \/ RuleRead(s)
          \/ \E t \in Slots : RuleClone(s, t)
  BY DEF RuleNext
<1>2. rule[s] # NULL => RuleSound(rule[s])
  BY DEF RuleInv
<1>3. CASE RuleNew(s)
  <2>1. rule[s] = NULL /\ RuleSet(s, Blank(RuleProps)) /\ UNCHANGED ruleNames
    BY <1>3 DEF RuleNew
  <2>2. Blank(RuleProps) # NULL
    BY BlankRule, RulesAreObjects DEF RuleSound
  <2>3. Strings(Blank(RuleProps)) = Strings(rule[s])
    BY <2>1, <2>2, BlankRule DEF Strings
  <2> QED
    BY <2>1, <2>3, BlankRule, RuleKeeps
<1>4. CASE RuleSetFamily(s)
  <2>1. PICK family \in Families : RuleSet(s, Flag(rule[s], "FAMILY", family))
    BY <1>4 DEF RuleSetFamily, RuleAllows, WithRuleFamily
  <2>2. rule[s] # NULL /\ UNCHANGED ruleNames
    BY <1>4 DEF RuleSetFamily
  <2>3. /\ RuleSound(Flag(rule[s], "FAMILY", family))
        /\ \A q \in RuleNameProps : Flag(rule[s], "FAMILY", family).val[q] = rule[s].val[q]
    BY <1>2, <2>2, FlagRuleSound, RulePropNames, RuleValueNames
  <2> QED
    BY <2>1, <2>2, <2>3, RuleFlagKeeps
<1>5. CASE RuleSetPrefix(s)
  <2>1. PICK len \in Prefixes \cup {Zero} : RuleSet(s, Flag(rule[s], "DST_PREFIX", len))
    BY <1>5 DEF RuleSetPrefix
  <2>2. rule[s] # NULL /\ UNCHANGED ruleNames
    BY <1>5 DEF RuleSetPrefix
  <2>3. /\ RuleSound(Flag(rule[s], "DST_PREFIX", len))
        /\ \A q \in RuleNameProps : Flag(rule[s], "DST_PREFIX", len).val[q] = rule[s].val[q]
    BY <1>2, <2>2, FlagRuleSound, RulePropNames, RuleValueNames
  <2> QED
    BY <2>1, <2>2, <2>3, RuleFlagKeeps
<1>6. CASE RuleSetDst(s)
  <2>1. PICK family \in Families, ip \in Ips \cup {Zero} :
            RuleSet(s, Flag(Flag(rule[s], "FAMILY", family), "DST", ip))
    BY <1>6 DEF RuleSetDst, RuleAllows, WithRuleDst, WithRuleFamily
  <2> DEFINE f == Flag(rule[s], "FAMILY", family)
  <2>2. rule[s] # NULL /\ UNCHANGED ruleNames
    BY <1>6 DEF RuleSetDst
  <2>3. /\ RuleSound(f)
        /\ \A q \in RuleNameProps : f.val[q] = rule[s].val[q]
    <3>1. /\ "FAMILY" \in RuleProps \ RuleNameProps /\ family \in RuleValues
          /\ RuleSound(rule[s])
      BY <1>2, <2>2, RulePropNames, RuleValueNames
    <3> QED
      BY <3>1, FlagRuleSound
  <2>4. RuleSet(s, Flag(f, "DST", ip))
    BY <2>1
  <2> HIDE DEF f
  <2>5. /\ RuleSound(Flag(f, "DST", ip))
        /\ \A q \in RuleNameProps : Flag(f, "DST", ip).val[q] = f.val[q]
    BY <2>3, FlagRuleSound, RulePropNames, RuleValueNames
  <2> QED
    BY <2>2, <2>3, <2>4, <2>5, RuleFlagKeeps
<1>7. CASE RuleSetName(s)
  BY <1>7, RuleSetNameInv
<1>8. CASE RuleFree(s)
  BY <1>8, RuleFreeInv
<1>9. CASE RuleRead(s)
  BY <1>9, RuleReadInv
<1>10. CASE \E t \in Slots : RuleClone(s, t)
  BY <1>10, RuleCloneInv
<1> QED
  BY <1>1, <1>3, <1>4, <1>5, <1>6, <1>7, <1>8, <1>9, <1>10

(* The invariant of the rules is inductive, if no rule that has a name is  *)
(* cloned.                                                                 *)
THEOREM RuleInvariance == ASSUME ~CloneNamed PROVE RuleSpec => []RuleInv
<1>1. RuleInit => RuleInv
  <2>1. SUFFICES ASSUME RuleInit PROVE RuleInv
    OBVIOUS
  <2>2. /\ \A s \in Slots : rule[s] = NULL
        /\ \A c \in Cells : ruleNames[c] = NULL
        /\ rule \in [Slots -> RuleObjects \cup {NULL}] /\ ruleNames \in Heaps
    BY <2>1 DEF RuleInit, Heaps
  <2>3. Owned([s \in Slots |-> Strings(rule[s])], ruleNames)
    BY <2>2, RuleValueNames DEF Owned, Strings
  <2> QED
    BY <2>2, <2>3 DEF RuleInv
<1>2. RuleInv /\ UNCHANGED ruleVars => RuleInv'
  BY DEF ruleVars, RuleInv, RuleSound, Strings, Owned
<1>3. RuleInv /\ [RuleNext]_ruleVars => RuleInv'
  BY <1>2, RuleInvNext
<1> QED
  BY <1>1, <1>3, PTL DEF RuleSpec

(* Every variable keeps its type, whatever setters, clones and reads make  *)
(* of rules (rule.c).                                                      *)
THEOREM RuleTyped == ASSUME ~CloneNamed PROVE RuleSpec => []RuleTypeOK
<1>1. RuleInv => RuleTypeOK
  BY RulesAreObjects DEF RuleInv, RuleTypeOK, Heaps
<1> QED
  BY <1>1, RuleInvariance, PTL

(* mnlxt_rt_rule_free() and the setters free every name once, and no rule  *)
(* is left without a name it has, as long as no rule with names is cloned. *)
THEOREM NamesHaveOneOwner == ASSUME ~CloneNamed PROVE RuleSpec => []RuleNamesOwned
<1>1. ASSUME RuleInv PROVE RuleNamesOwned
  <2> DEFINE p == [s \in Slots |-> Strings(rule[s])]
  <2>1. \A s \in Slots, prop \in RuleNameProps :
            p[s][prop] = IF rule[s] = NULL THEN Zero ELSE rule[s].val[prop]
    BY DEF Strings
  <2>2. Owned(p, ruleNames)
    BY <1>1 DEF RuleInv
  <2> HIDE DEF p
  <2>3. \A s \in Slots, prop \in RuleNameProps :
            rule[s] # NULL /\ rule[s].val[prop] # Zero => ruleNames[rule[s].val[prop]] # NULL
    BY <2>1, <2>2 DEF Owned
  <2>4. \A s, t \in Slots, prop, other \in RuleNameProps :
            rule[s] # NULL /\ rule[t] # NULL /\ rule[s].val[prop] # Zero =>
                (rule[s].val[prop] = rule[t].val[other] => s = t /\ prop = other)
    BY <2>1, <2>2 DEF Owned
  <2>5. \A c \in Cells :
            ruleNames[c] # NULL =>
                \E s \in Slots, prop \in RuleNameProps : rule[s] # NULL /\ rule[s].val[prop] = c
    <3> SUFFICES ASSUME NEW c \in Cells, ruleNames[c] # NULL
                 PROVE  \E s \in Slots, prop \in RuleNameProps : rule[s] # NULL /\ rule[s].val[prop] = c
      OBVIOUS
    <3>1. PICK s \in Slots, prop \in RuleNameProps : p[s][prop] = c
      BY <2>2 DEF Owned
    <3>2. rule[s] # NULL /\ rule[s].val[prop] = c
      BY <2>1, <3>1, RuleValueNames
    <3> QED
      BY <3>2
  <2> QED
    BY <2>3, <2>4, <2>5 DEF RuleNamesOwned
<1> QED
  BY <1>1, RuleInvariance, PTL

(* Objects that have the names themselves, as rules are compared. *)
LEMMA ContentsAreObjects ==
    RuleContents = ObjectsOf(RuleProps, RuleValues \cup Labels) /\ NULL \notin RuleContents
  BY RuleAssumption DEF RuleContents, ObjectsOf

(* Such an object, and what its five getters return. *)
RuleHas(r, family, prefix, dst, iif, oif) ==
    /\ r \in RuleContents
    /\ Given(r, "FAMILY") = family
    /\ Given(r, "DST_PREFIX") = prefix
    /\ Given(r, "DST") = dst
    /\ Given(r, "IIFNAME") = iif
    /\ Given(r, "OIFNAME") = oif

LEMMA NamePropNames ==
    "IIFNAME" \in RuleProps /\ "OIFNAME" \in RuleProps
  BY DEF RuleProps, RuleNameProps

LEMMA FlagRuleHas ==
    ASSUME NEW r, NEW family, NEW prefix, NEW dst, NEW iif, NEW oif, NEW v \in RuleValues \cup Labels,
           RuleHas(r, family, prefix, dst, iif, oif)
    PROVE  /\ RuleHas(Flag(r, "FAMILY", v), v, prefix, dst, iif, oif)
           /\ RuleHas(Flag(r, "DST_PREFIX", v), family, v, dst, iif, oif)
           /\ RuleHas(Flag(r, "DST", v), family, prefix, v, iif, oif)
           /\ RuleHas(Flag(r, "IIFNAME", v), family, prefix, dst, v, oif)
           /\ RuleHas(Flag(r, "OIFNAME", v), family, prefix, dst, iif, v)
<1>1. r \in RuleContents
  BY DEF RuleHas
<1>2. ASSUME NEW prop \in RuleProps
      PROVE  /\ Flag(r, prop, v) \in RuleContents
             /\ Given(Flag(r, prop, v), prop) = v
             /\ \A q \in RuleProps : q # prop => Given(Flag(r, prop, v), q) = Given(r, q)
  BY <1>1, FlagObject, FlagGiven, ContentsAreObjects
<1>3. RuleHas(Flag(r, "FAMILY", v), v, prefix, dst, iif, oif)
  BY <1>2, RulePropNames, NamePropNames DEF RuleHas
<1>4. RuleHas(Flag(r, "DST_PREFIX", v), family, v, dst, iif, oif)
  BY <1>2, RulePropNames, NamePropNames DEF RuleHas
<1>5. RuleHas(Flag(r, "DST", v), family, prefix, v, iif, oif)
  BY <1>2, RulePropNames, NamePropNames DEF RuleHas
<1>6. RuleHas(Flag(r, "IIFNAME", v), family, prefix, dst, v, oif)
  BY <1>2, RulePropNames, NamePropNames DEF RuleHas
<1>7. RuleHas(Flag(r, "OIFNAME", v), family, prefix, dst, iif, v)
  BY <1>2, RulePropNames, NamePropNames DEF RuleHas
<1> QED
  BY <1>3, <1>4, <1>5, <1>6, <1>7

(* What getters return of a rule that is read. *)
LEMMA RuleIsRead ==
    ASSUME NEW e \in RuleEntries
    PROVE  RuleHas(RuleContentOf(e), e.family, IF e.prefix = Zero THEN NULL ELSE e.prefix,
                   IF e.prefix = Zero THEN NULL ELSE e.dst, e.iif, e.oif)
<1> DEFINE V == RuleValues \cup Labels
           blank == Blank(RuleProps)
           family == Flag(blank, "FAMILY", e.family)
           again == Flag(family, "FAMILY", e.family)
           dst1 == Flag(again, "DST", e.dst)
           prefix1 == Flag(dst1, "DST_PREFIX", e.prefix)
           dst == IF e.prefix = Zero THEN family ELSE prefix1
           iif == IF e.iif = NULL THEN dst ELSE Flag(dst, "IIFNAME", e.iif)
           oif == IF e.oif = NULL THEN iif ELSE Flag(iif, "OIFNAME", e.oif)
           p == IF e.prefix = Zero THEN NULL ELSE e.prefix
           d == IF e.prefix = Zero THEN NULL ELSE e.dst
<1>1. /\ e.family \in V /\ e.prefix \in V /\ e.dst \in V
      /\ e.iif \in Labels \cup {NULL} /\ e.oif \in Labels \cup {NULL}
  BY RuleValueNames DEF RuleEntries
<1>2. RuleContentOf(e) = oif
  BY DEF RuleContentOf, RuleOf, WithRuleFamily, WithRuleDst
<1>3. RuleHas(blank, NULL, NULL, NULL, NULL, NULL)
  BY BlankObject, RuleValueNames, ContentsAreObjects DEF RuleHas
<1> HIDE DEF blank
<1>4. RuleHas(family, e.family, NULL, NULL, NULL, NULL)
  BY <1>1, <1>3, FlagRuleHas
<1> HIDE DEF family
<1>5. RuleHas(again, e.family, NULL, NULL, NULL, NULL)
  BY <1>1, <1>4, FlagRuleHas
<1> HIDE DEF again
<1>6. RuleHas(dst1, e.family, NULL, e.dst, NULL, NULL)
  BY <1>1, <1>5, FlagRuleHas
<1> HIDE DEF dst1
<1>7. RuleHas(prefix1, e.family, e.prefix, e.dst, NULL, NULL)
  BY <1>1, <1>6, FlagRuleHas
<1> HIDE DEF prefix1
<1>8. RuleHas(dst, e.family, p, d, NULL, NULL)
  BY <1>4, <1>7
<1> HIDE DEF dst, p, d
<1>9. RuleHas(iif, e.family, p, d, e.iif, NULL)
  BY <1>1, <1>8, FlagRuleHas
<1> HIDE DEF iif
<1>10. RuleHas(oif, e.family, p, d, e.iif, e.oif)
  BY <1>1, <1>9, FlagRuleHas
<1> QED
  BY <1>2, <1>10 DEF p, d

(* What mnlxt_rt_rule_put() writes is what mnlxt_rt_rule_data() reads, for *)
(* every rule that setters, clones and reads lead to.                      *)
THEOREM RuleIsReadBack == ASSUME ~CloneNamed PROVE RuleSpec => []RuleReadBack
<1>1. ASSUME RuleInv, NEW s \in Slots, rule[s] # NULL, RuleKept(rule[s]), NEW e \in RuleEntries,
             \/ RuleMadeOf(e, RuleMessage(RuleContent(rule[s])))
             \/ RuleDeletedBy(e, RuleMessage(RuleContent(rule[s])))
      PROVE  RuleMatch(RuleContentOf(e), RuleContent(rule[s]))
  <2> DEFINE r == rule[s]
             c == RuleContent(r)
             m == RuleMessage(c)
  <2>1. RuleSound(r)
    BY <1>1 DEF RuleInv
  <2>2. /\ r.props \subseteq RuleProps
        /\ \A q \in r.props : r.val[q] \in RuleValues
    BY <2>1 DEF RuleSound, RuleObjects, ObjectsOf
  <2>3. /\ c.props = r.props
        /\ \A q \in RuleProps : c.val[q] = IF q \in RuleNameProps /\ r.val[q] # Zero
                                           THEN ruleNames[r.val[q]] ELSE r.val[q]
    BY <2>1 DEF RuleContent, RuleSound, RuleObjects, ObjectsOf
  <2>4. /\ m.family = Header(c, "FAMILY") /\ m.prefix = Header(c, "DST_PREFIX")
        /\ m.dst = Given(c, "DST")
        /\ m.iif = Given(c, "IIFNAME") /\ m.oif = Given(c, "OIFNAME")
    BY DEF RuleMessage
  <2>5. \A q \in RuleNameProps : q \in r.props => ruleNames[r.val[q]] # NULL /\ r.val[q] # Zero
    <3>1. \A q \in RuleNameProps : r.val[q] # Zero => ruleNames[r.val[q]] # NULL
      BY <1>1 DEF RuleInv, Owned, Strings
    <3> QED
      BY <2>1, <3>1 DEF RuleSound
  <2>6. RuleKept(r)
    BY <1>1
  <2>7. \/ RuleMadeOf(e, m)
        \/ RuleDeletedBy(e, m)
    BY <1>1
  <2> HIDE DEF r, c, m
  <2>8. \A q \in c.props : Header(c, q) = c.val[q] /\ Given(c, q) = c.val[q]
    BY DEF Header, Given
  <2>9. /\ "DST_PREFIX" \in c.props => c.val["DST_PREFIX"] # Zero
        /\ "DST" \in c.props => "DST_PREFIX" \in c.props
    BY <2>3, <2>6, RulePropNames DEF RuleKept, Given
  <2>10. RuleHas(RuleContentOf(e), e.family, IF e.prefix = Zero THEN NULL ELSE e.prefix,
                 IF e.prefix = Zero THEN NULL ELSE e.dst, e.iif, e.oif)
    BY RuleIsRead
  <2> DEFINE o == RuleContentOf(e)
  <2> HIDE DEF o
  <2>11. /\ Given(o, "FAMILY") = e.family
         /\ e.prefix # Zero => Given(o, "DST_PREFIX") = e.prefix /\ Given(o, "DST") = e.dst
         /\ Given(o, "IIFNAME") = e.iif /\ Given(o, "OIFNAME") = e.oif
    BY <2>10 DEF o, RuleHas
  <2>12. /\ e.family = m.family
         /\ m.prefix # Zero => e.prefix = m.prefix /\ e.dst = m.dst
         /\ m.iif \in {NULL, e.iif} /\ m.oif \in {NULL, e.oif}
    BY <2>7 DEF RuleMadeOf, RuleDeletedBy
  <2>13. "FAMILY" \in c.props => Given(o, "FAMILY") = Given(c, "FAMILY")
    BY <2>4, <2>8, <2>11, <2>12
  <2>14. "DST_PREFIX" \in c.props => Given(o, "DST_PREFIX") = Given(c, "DST_PREFIX")
    BY <2>4, <2>8, <2>9, <2>11, <2>12
  <2>15. "DST" \in c.props => Given(o, "DST") = Given(c, "DST")
    BY <2>4, <2>8, <2>9, <2>11, <2>12
  <2>16. "IIFNAME" \in c.props => Given(o, "IIFNAME") = Given(c, "IIFNAME")
    <3>1. "IIFNAME" \in RuleNameProps
      BY DEF RuleNameProps
    <3>2. "IIFNAME" \in c.props => c.val["IIFNAME"] # NULL
      BY <2>3, <2>5, <3>1, NamePropNames
    <3> QED
      BY <2>4, <2>8, <2>11, <2>12, <3>2
  <2>17. "OIFNAME" \in c.props => Given(o, "OIFNAME") = Given(c, "OIFNAME")
    <3>1. "OIFNAME" \in RuleNameProps
      BY DEF RuleNameProps
    <3>2. "OIFNAME" \in c.props => c.val["OIFNAME"] # NULL
      BY <2>3, <2>5, <3>1, NamePropNames
    <3> QED
      BY <2>4, <2>8, <2>11, <2>12, <3>2
  <2>18. \A q \in c.props : Given(o, q) = Given(c, q)
    BY <2>2, <2>3, <2>13, <2>14, <2>15, <2>16, <2>17 DEF RuleProps, RuleNameProps
  <2> QED
    BY <2>18 DEF o, c, r, RuleMatch, Matches, Agree
<1>2. RuleInv => RuleReadBack
  BY <1>1 DEF RuleReadBack
<1> QED
  BY <1>2, RuleInvariance, PTL

-----------------------------------------------------------------------------
(* Rules are values: the content of a rule is a function of the object and *)
(* the heap, with which setters, clones and reads commute, and an action   *)
(* changes on the heap nothing but what its slot owns.                     *)

RuleIn(r, heap) ==
    [props |-> r.props,
     val   |-> [prop \in RuleProps |->
                   IF prop \in RuleNameProps /\ r.val[prop] # Zero THEN heap[r.val[prop]]
                   ELSE r.val[prop]]]

RuleSeen(r, heap) == IF r = NULL THEN NULL ELSE RuleIn(r, heap)

LEMMA ContentIsIn ==
    ASSUME NEW r \in RuleObjects
    PROVE  RuleContent(r) = RuleIn(r, ruleNames)
  BY DEF RuleContent, RuleIn, RuleObjects, ObjectsOf

(* A flagged object, written out. *)
LEMMA FlagIs ==
    ASSUME NEW P, NEW V, NEW o \in ObjectsOf(P, V), NEW prop \in P, NEW v
    PROVE  /\ Flag(o, prop, v) = [props |-> o.props \cup {prop}, val |-> Flag(o, prop, v).val]
           /\ Flag(o, prop, v).val = [q \in P |-> IF q = prop THEN v ELSE o.val[q]]
<1>1. o \in ObjectsOf(P, V \cup {v})
  BY DEF ObjectsOf
<1>2. /\ Flag(o, prop, v) \in ObjectsOf(P, V \cup {v})
      /\ Flag(o, prop, v).props = o.props \cup {prop}
      /\ \A q \in P : Flag(o, prop, v).val[q] = IF q = prop THEN v ELSE o.val[q]
  <2>1. /\ Flag(o, prop, v) \in ObjectsOf(P, V \cup {v})
        /\ \A q \in P : q \in Flag(o, prop, v).props <=> q \in o.props \/ q = prop
        /\ Flag(o, prop, v).val[prop] = v
        /\ \A q \in P : q # prop => Flag(o, prop, v).val[q] = o.val[q]
    BY <1>1, FlagObject
  <2>2. Flag(o, prop, v).props \subseteq P /\ o.props \subseteq P
    BY <1>1, <2>1 DEF ObjectsOf
  <2>3. Flag(o, prop, v).props = o.props \cup {prop}
    BY <2>1, <2>2
  <2> QED
    BY <2>1, <2>3
<1> DEFINE n == Flag(o, prop, v)
<1> HIDE DEF n
<1>3. n = [props |-> n.props, val |-> n.val] /\ n.val = [q \in P |-> n.val[q]]
  BY <1>2 DEF n, ObjectsOf
<1>4. n.val = [q \in P |-> IF q = prop THEN v ELSE o.val[q]]
  BY <1>2, <1>3 DEF n
<1> QED
  BY <1>2, <1>3, <1>4 DEF n

(* Setters of a property, and of a name, which is in the heap afterwards. *)
SameNames(r, prop, heap, other) ==
    \A q \in RuleNameProps : q # prop /\ r.val[q] # Zero => heap[r.val[q]] = other[r.val[q]]

Stored(prop, v, heap) == IF prop \in RuleNameProps /\ v # Zero THEN heap[v] ELSE v

LEMMA FlagIn ==
    ASSUME NEW r \in RuleObjects, NEW prop \in RuleProps, NEW v, NEW heap, NEW other,
           SameNames(r, prop, heap, other)
    PROVE  RuleIn(Flag(r, prop, v), heap) = Flag(RuleIn(r, other), prop, Stored(prop, v, heap))
<1> DEFINE c == RuleIn(r, other)
           n == Flag(r, prop, v)
           V == {c.val[q] : q \in RuleProps}
           w == Stored(prop, v, heap)
<1>1. n.val = [q \in RuleProps |-> IF q = prop THEN v ELSE r.val[q]] /\ n.props = r.props \cup {prop}
  BY FlagIs DEF RuleObjects
<1>2. /\ c \in ObjectsOf(RuleProps, V) /\ c.props = r.props
      /\ \A q \in RuleProps : c.val[q] = IF q \in RuleNameProps /\ r.val[q] # Zero
                                         THEN other[r.val[q]] ELSE r.val[q]
  BY DEF RuleIn, RuleObjects, ObjectsOf
<1> HIDE DEF c, n, V, w
<1>3. Flag(c, prop, w) = [props |-> c.props \cup {prop},
                          val   |-> [q \in RuleProps |-> IF q = prop THEN w ELSE c.val[q]]]
  <2>1. /\ Flag(c, prop, w) = [props |-> c.props \cup {prop}, val |-> Flag(c, prop, w).val]
        /\ Flag(c, prop, w).val = [q \in RuleProps |-> IF q = prop THEN w ELSE c.val[q]]
    BY <1>2, FlagIs
  <2> QED
    BY <2>1
<1>4. RuleIn(n, heap) = [props |-> n.props, val |-> RuleIn(n, heap).val]
      /\ RuleIn(n, heap).val = [q \in RuleProps |->
             IF q \in RuleNameProps /\ n.val[q] # Zero THEN heap[n.val[q]] ELSE n.val[q]]
  BY DEF RuleIn
<1>5. \A q \in RuleProps :
          (IF q \in RuleNameProps /\ n.val[q] # Zero THEN heap[n.val[q]] ELSE n.val[q])
              = IF q = prop THEN w ELSE c.val[q]
  BY <1>1, <1>2 DEF SameNames, Stored, w
<1>6. RuleIn(n, heap).val = [q \in RuleProps |-> IF q = prop THEN w ELSE c.val[q]]
  BY <1>4, <1>5
<1> QED
  BY <1>1, <1>2, <1>3, <1>4, <1>6 DEF c, n, w

LEMMA CopiedIn ==
    ASSUME NEW r \in RuleObjects, NEW filter \in SUBSET RuleProps, NEW heap
    PROVE  RuleIn(Copied(r, filter), heap) = Copied(RuleIn(r, heap), filter)
<1>1. DOMAIN r.val = RuleProps /\ DOMAIN RuleIn(r, heap).val = RuleProps
  BY DEF RuleObjects, ObjectsOf, RuleIn
<1>2. CASE filter = {}
  <2>1. RuleIn(Blank(RuleProps), heap) = Blank(RuleProps)
    BY DEF RuleIn, Blank
  <2> QED
    BY <1>1, <1>2, <2>1 DEF Copied
<1>3. CASE filter # {}
  <2>1. r = [props |-> r.props, val |-> r.val]
    BY DEF RuleObjects, ObjectsOf
  <2>2. Copied(r, filter) = [props |-> r.props \cap filter, val |-> r.val]
    BY <1>3, <2>1 DEF Copied
  <2>3. Copied(RuleIn(r, heap), filter) = [props |-> r.props \cap filter, val |-> RuleIn(r, heap).val]
    BY <1>3 DEF Copied, RuleIn
  <2> QED
    BY <2>2, <2>3 DEF RuleIn
<1> QED
  BY <1>2, <1>3

LEMMA SeenType ==
    ASSUME RuleInv, NEW s \in Slots
    PROVE  rule[s] # NULL => RuleSeen(rule[s], ruleNames) # NULL
<1> SUFFICES ASSUME rule[s] # NULL PROVE RuleIn(rule[s], ruleNames) \in RuleContents
  BY ContentsAreObjects DEF RuleSeen
<1>1. RuleSound(rule[s]) /\ rule[s] \in RuleObjects
  BY DEF RuleInv, RuleSound
<1>2. \A q \in RuleNameProps : rule[s].val[q] # Zero => ruleNames[rule[s].val[q]] \in Labels
  <2>1. \A q \in RuleNameProps : rule[s].val[q] # Zero => ruleNames[rule[s].val[q]] # NULL
    BY DEF RuleInv, Owned, Strings
  <2> QED
    BY <1>1, <2>1 DEF RuleSound, RuleInv, Heaps
<1> QED
  BY <1>1, <1>2 DEF RuleIn, RuleContents, RuleObjects, ObjectsOf

LEMMA ViewIsSeen ==
    ASSUME RuleInv
    PROVE  \A s \in Slots : RuleView[s] = RuleSeen(rule[s], ruleNames)
  BY ContentIsIn DEF RuleInv, RuleView, RuleSeen

LEMMA ViewThere ==
    ASSUME RuleInv'
    PROVE  \A s \in Slots : RuleView'[s] = RuleSeen(rule'[s], ruleNames')
  BY DEF RuleInv, RuleView, RuleContent, RuleSeen, RuleIn, RuleObjects, ObjectsOf

(* Only free strings and those of slot s change. *)
RuleHeapKept(s) ==
    \A c \in Cells : \/ ruleNames'[c] = ruleNames[c]
                     \/ ruleNames[c] = NULL
                     \/ \E prop \in RuleNameProps : Strings(rule[s])[prop] = c

LEMMA OtherRulesKeep ==
    ASSUME RuleInv, NEW s \in Slots, RuleHeapKept(s), NEW t \in Slots, t # s
    PROVE  RuleSeen(rule[t], ruleNames') = RuleSeen(rule[t], ruleNames)
<1> SUFFICES ASSUME rule[t] # NULL PROVE RuleIn(rule[t], ruleNames') = RuleIn(rule[t], ruleNames)
  BY DEF RuleSeen
<1> DEFINE p == [u \in Slots |-> Strings(rule[u])]
<1>1. RuleSound(rule[t])
  BY DEF RuleInv
<1>2. \A q \in RuleNameProps : p[t][q] = rule[t].val[q] /\ p[s][q] = Strings(rule[s])[q]
  BY DEF Strings
<1>3. Owned(p, ruleNames)
  BY DEF RuleInv
<1> HIDE DEF p
<1>4. ASSUME NEW q \in RuleNameProps, rule[t].val[q] # Zero
      PROVE  ruleNames'[rule[t].val[q]] = ruleNames[rule[t].val[q]]
  <2>1. rule[t].val[q] \in Cells /\ ruleNames[rule[t].val[q]] # NULL
    BY <1>1, <1>2, <1>3, <1>4 DEF RuleSound, Owned
  <2>2. \A o \in RuleNameProps : Strings(rule[s])[o] # rule[t].val[q]
    BY <1>2, <1>3, <1>4 DEF Owned
  <2> QED
    BY <2>1, <2>2 DEF RuleHeapKept
<1> QED
  BY <1>4 DEF RuleIn

(* What a call does to the one slot it is about. *)
LEMMA RuleMoves ==
    ASSUME RuleInv, RuleInv', NEW s \in Slots, NEW r, RuleSet(s, r), RuleHeapKept(s),
           NEW u, u = RuleSeen(rule[s], ruleNames), NEW v, v = RuleSeen(r, ruleNames'),
           \/ u = NULL /\ v = Blank(RuleProps)
           \/ u = NULL /\ v \in {RuleContentOf(e) : e \in RuleEntries}
           \/ u = NULL /\ \E t \in Slots : /\ rule[t] # NULL
                                           /\ v \in RuleCopies(RuleSeen(rule[t], ruleNames))
           \/ u # NULL /\ v = NULL
           \/ u # NULL /\ RuleSets(u, v)
    PROVE  [RuleAsValues!Next]_RuleView
<1> DEFINE f == RuleView
           g == RuleView'
<1>1. f = [t \in Slots |-> f[t]] /\ g = [t \in Slots |-> g[t]]
  BY DEF RuleView
<1>2. f[s] = u /\ g[s] = v
  BY ViewIsSeen, ViewThere DEF RuleInv, RuleSet
<1>3. \A t \in Slots : t # s => g[t] = f[t]
  <2>1. ASSUME NEW t \in Slots, t # s PROVE g[t] = RuleSeen(rule[t], ruleNames')
    BY <2>1, ViewThere DEF RuleInv, RuleSet
  <2> QED
    BY <2>1, ViewIsSeen, OtherRulesKeep
<1>4. \A t \in Slots : f[t] = RuleSeen(rule[t], ruleNames) /\ (rule[t] # NULL => f[t] # NULL)
  BY ViewIsSeen, SeenType
<1> HIDE DEF f, g
<1>5. g = [f EXCEPT ![s] = g[s]] /\ (g[s] = f[s] => g = f)
  BY <1>1, <1>3
<1>6. \/ RuleAsValues!Create(s) \/ RuleAsValues!Read(s) \/ RuleAsValues!Set(s)
      \/ RuleAsValues!Free(s) \/ \E t \in Slots : RuleAsValues!Clone(t, s)
  BY <1>2, <1>4 DEF RuleAsValues!Create, RuleAsValues!Read, RuleAsValues!Set,
     RuleAsValues!Free, RuleAsValues!Clone, f, g
<1> QED
  BY <1>5, <1>6 DEF RuleAsValues!Next, RuleAsValues!Alone, f, g

(* A setter of a property that is no name. *)
LEMMA FlagSeen ==
    ASSUME NEW r \in RuleObjects, NEW prop \in RuleProps, prop \notin RuleNameProps,
           NEW v, NEW heap
    PROVE  RuleIn(Flag(r, prop, v), heap) = Flag(RuleIn(r, heap), prop, v)
<1>1. SameNames(r, prop, heap, heap)
  BY DEF SameNames
<1>2. RuleIn(Flag(r, prop, v), heap) = Flag(RuleIn(r, heap), prop, Stored(prop, v, heap))
  BY <1>1, FlagIn
<1> QED
  BY <1>2 DEF Stored

LEMMA RuleSetFamilyMoves ==
    ASSUME RuleInv, RuleInv', NEW s \in Slots, RuleSetFamily(s)
    PROVE  [RuleAsValues!Next]_RuleView
<1> DEFINE u == RuleSeen(rule[s], ruleNames)
<1>1. PICK family \in Families :
          RuleAllows(rule[s], family) /\ RuleSet(s, Flag(rule[s], "FAMILY", family))
  BY DEF RuleSetFamily, RuleAllows, WithRuleFamily
<1>2. rule[s] # NULL /\ rule[s] \in RuleObjects /\ ruleNames' = ruleNames
  BY DEF RuleSetFamily, RuleInv
<1> DEFINE r == Flag(rule[s], "FAMILY", family)
<1>3. RuleIn(r, ruleNames') = Flag(RuleIn(rule[s], ruleNames), "FAMILY", family)
  BY <1>2, FlagSeen, RulePropNames
<1>4. r # NULL
  BY <1>2, FlagRule, RulePropNames, RuleValueNames, RulesAreObjects
<1>5. RuleSet(s, r) /\ RuleHeapKept(s) /\ u # NULL
  BY <1>1, <1>2, SeenType DEF RuleHeapKept
<1>6. u = RuleIn(rule[s], ruleNames)
  BY <1>2 DEF RuleSeen
<1>7. Given(u, "FAMILY") = Given(rule[s], "FAMILY")
  BY <1>6, RulePropNames DEF Given, RuleIn
<1> DEFINE v == RuleSeen(r, ruleNames')
<1> HIDE DEF r, u
<1>8. v = Flag(u, "FAMILY", family)
  BY <1>3, <1>4, <1>6 DEF RuleSeen
<1>9. RuleSets(u, v)
  BY <1>1, <1>7, <1>8 DEF RuleSets, RuleAllows, WithRuleFamily
<1> HIDE DEF v
<1> QED
  BY <1>5, <1>9, RuleMoves DEF u, v

LEMMA RuleSetPrefixMoves ==
    ASSUME RuleInv, RuleInv', NEW s \in Slots, RuleSetPrefix(s)
    PROVE  [RuleAsValues!Next]_RuleView
<1> DEFINE u == RuleSeen(rule[s], ruleNames)
<1>1. PICK len \in Prefixes \cup {Zero} : RuleSet(s, Flag(rule[s], "DST_PREFIX", len))
  BY DEF RuleSetPrefix
<1>2. rule[s] # NULL /\ rule[s] \in RuleObjects /\ ruleNames' = ruleNames
  BY DEF RuleSetPrefix, RuleInv
<1> DEFINE r == Flag(rule[s], "DST_PREFIX", len)
<1>3. RuleIn(r, ruleNames') = Flag(RuleIn(rule[s], ruleNames), "DST_PREFIX", len)
  BY <1>2, FlagSeen, RulePropNames
<1>4. r # NULL
  BY <1>2, FlagRule, RulePropNames, RuleValueNames, RulesAreObjects
<1>5. RuleSet(s, r) /\ RuleHeapKept(s) /\ u # NULL
  BY <1>1, <1>2, SeenType DEF RuleHeapKept
<1> DEFINE v == RuleSeen(r, ruleNames')
<1>6. v = Flag(u, "DST_PREFIX", len)
  BY <1>2, <1>3, <1>4 DEF RuleSeen
<1> HIDE DEF r, u
<1>7. RuleSets(u, v)
  BY <1>6 DEF RuleSets
<1> HIDE DEF v
<1> QED
  BY <1>5, <1>7, RuleMoves DEF u, v

LEMMA RuleSetDstMoves ==
    ASSUME RuleInv, RuleInv', NEW s \in Slots, RuleSetDst(s)
    PROVE  [RuleAsValues!Next]_RuleView
<1> DEFINE u == RuleSeen(rule[s], ruleNames)
<1>1. PICK family \in Families, ip \in Ips \cup {Zero} :
          /\ RuleAllows(rule[s], family)
          /\ RuleSet(s, Flag(Flag(rule[s], "FAMILY", family), "DST", ip))
  BY DEF RuleSetDst, RuleAllows, WithRuleDst, WithRuleFamily
<1>2. rule[s] # NULL /\ rule[s] \in RuleObjects /\ ruleNames' = ruleNames
  BY DEF RuleSetDst, RuleInv
<1> DEFINE f == Flag(rule[s], "FAMILY", family)
<1>3. f \in RuleObjects
  BY <1>2, FlagRule, RulePropNames, RuleValueNames
<1>4. RuleIn(f, ruleNames) = Flag(RuleIn(rule[s], ruleNames), "FAMILY", family)
  BY <1>2, FlagSeen, RulePropNames
<1> DEFINE r == Flag(f, "DST", ip)
<1>5. RuleSet(s, r)
  BY <1>1
<1> HIDE DEF f
<1>6. r # NULL
  BY <1>3, FlagRule, RulePropNames, RuleValueNames, RulesAreObjects
<1>7. RuleIn(r, ruleNames') = Flag(RuleIn(f, ruleNames), "DST", ip)
  BY <1>2, <1>3, FlagSeen, RulePropNames
<1>8. RuleHeapKept(s) /\ u # NULL
  BY <1>2, SeenType DEF RuleHeapKept
<1>9. u = RuleIn(rule[s], ruleNames)
  BY <1>2 DEF RuleSeen
<1>10. Given(u, "FAMILY") = Given(rule[s], "FAMILY")
  BY <1>9, RulePropNames DEF Given, RuleIn
<1> DEFINE v == RuleSeen(r, ruleNames')
<1>11. v = Flag(RuleIn(f, ruleNames), "DST", ip)
  BY <1>6, <1>7 DEF RuleSeen
<1> HIDE DEF r, u
<1>12. v = Flag(Flag(u, "FAMILY", family), "DST", ip)
  BY <1>4, <1>9, <1>11
<1>13. RuleSets(u, v)
  BY <1>1, <1>10, <1>12 DEF RuleSets, RuleAllows, WithRuleDst, WithRuleFamily
<1> HIDE DEF v
<1> QED
  BY <1>5, <1>8, <1>13, RuleMoves DEF u, v

LEMMA RuleNewMoves ==
    ASSUME RuleInv, RuleInv', NEW s \in Slots, RuleNew(s)
    PROVE  [RuleAsValues!Next]_RuleView
<1> DEFINE r == Blank(RuleProps)
           u == RuleSeen(rule[s], ruleNames)
           v == RuleSeen(r, ruleNames')
<1>1. rule[s] = NULL /\ RuleSet(s, r) /\ RuleHeapKept(s)
  BY DEF RuleNew, RuleHeapKept
<1>2. r # NULL
  BY BlankRule, RulesAreObjects DEF RuleSound
<1>3. RuleIn(r, ruleNames') = r
  BY DEF RuleIn, Blank
<1> HIDE DEF r
<1>4. u = NULL /\ v = r
  BY <1>1, <1>2, <1>3 DEF RuleSeen
<1> HIDE DEF u, v
<1> QED
  BY <1>1, <1>4, RuleMoves DEF r, u, v

LEMMA RuleSetNameMoves ==
    ASSUME RuleInv, RuleInv', NEW s \in Slots, RuleSetName(s)
    PROVE  [RuleAsValues!Next]_RuleView
<1> DEFINE u == RuleSeen(rule[s], ruleNames)
           old == rule[s]
<1>1. PICK prop \in RuleNameProps, name \in Labels, cell \in RuleFreeCells :
          /\ RuleStore(cell, name, old.val[prop])
          /\ RuleSet(s, Flag(old, prop, cell))
  BY DEF RuleSetName
<1>2. /\ old # NULL /\ old \in RuleObjects /\ RuleSound(old)
      /\ cell \in Cells /\ ruleNames[cell] = NULL /\ prop \in RuleProps
  BY RulePropNames DEF RuleSetName, RuleInv, RuleFreeCells
<1>3. \A c \in Cells : ruleNames'[c] =
          IF c = cell THEN name ELSE IF c = old.val[prop] THEN NULL ELSE ruleNames[c]
  BY <1>1 DEF RuleStore
<1>4. Strings(old) = [o \in RuleNameProps |-> old.val[o]]
  BY <1>2 DEF Strings
<1>5. RuleHeapKept(s)
  <2>1. ASSUME NEW c \in Cells, ruleNames'[c] # ruleNames[c], ruleNames[c] # NULL
        PROVE  Strings(old)[prop] = c
    BY <1>2, <1>3, <1>4, <2>1
  <2> QED
    BY <2>1 DEF RuleHeapKept, old
<1>6. SameNames(old, prop, ruleNames', ruleNames)
  <2> SUFFICES ASSUME NEW q \in RuleNameProps, q # prop, old.val[q] # Zero
               PROVE  ruleNames'[old.val[q]] = ruleNames[old.val[q]]
    BY DEF SameNames
  <2> DEFINE p == [t \in Slots |-> Strings(rule[t])]
  <2>1. Owned(p, ruleNames) /\ p[s] = Strings(old)
    BY DEF RuleInv, old
  <2>2. p[s][q] = old.val[q] /\ p[s][prop] = old.val[prop]
    BY <1>4, <2>1
  <2> HIDE DEF p, old
  <2>3. old.val[q] \in Cells
    BY <1>2 DEF RuleSound
  <2>4. ruleNames[old.val[q]] # NULL /\ old.val[q] # old.val[prop]
    BY <2>1, <2>2 DEF Owned
  <2> QED
    BY <1>2, <1>3, <2>3, <2>4
<1> DEFINE r == Flag(old, prop, cell)
           v == RuleSeen(r, ruleNames')
<1>7. r # NULL
  BY <1>2, FlagNameSound, RulesAreObjects DEF RuleSound
<1>8. Stored(prop, cell, ruleNames') = name
  BY <1>2, <1>3, RuleValueNames DEF Stored
<1>9. RuleIn(r, ruleNames') = Flag(RuleIn(old, ruleNames), prop, Stored(prop, cell, ruleNames'))
  <2> HIDE DEF old
  <2> QED
    BY <1>2, <1>6, FlagIn
<1>10. u = RuleIn(old, ruleNames) /\ u # NULL
  BY <1>2, SeenType DEF RuleSeen
<1>11. RuleSet(s, r)
  BY <1>1
<1> HIDE DEF r, u, old
<1>12. v = Flag(u, prop, name)
  BY <1>7, <1>8, <1>9, <1>10 DEF RuleSeen
<1>13. RuleSets(u, v)
  BY <1>12 DEF RuleSets
<1> HIDE DEF v
<1> QED
  BY <1>5, <1>10, <1>11, <1>13, RuleMoves DEF u, v, old

LEMMA RuleFreeMoves ==
    ASSUME RuleInv, RuleInv', NEW s \in Slots, RuleFree(s)
    PROVE  [RuleAsValues!Next]_RuleView
<1> DEFINE u == RuleSeen(rule[s], ruleNames)
           v == RuleSeen(NULL, ruleNames')
<1>1. rule[s] # NULL /\ RuleSet(s, NULL)
  BY DEF RuleFree
<1>2. Strings(rule[s]) = [o \in RuleNameProps |-> rule[s].val[o]]
  BY <1>1 DEF Strings
<1>3. RuleHeapKept(s)
  BY <1>2 DEF RuleHeapKept, RuleFree
<1>4. u # NULL /\ v = NULL
  BY <1>1, SeenType DEF RuleSeen
<1> HIDE DEF u, v
<1> QED
  BY <1>1, <1>3, <1>4, RuleMoves DEF u, v

LEMMA RuleCloneMoves ==
    ASSUME RuleInv, RuleInv', NEW s \in Slots, NEW t \in Slots, RuleClone(t, s)
    PROVE  [RuleAsValues!Next]_RuleView
<1>1. PICK filter \in SUBSET RuleProps : RuleSet(s, Copied(rule[t], filter))
  BY DEF RuleClone
<1>2. /\ rule[t] # NULL /\ rule[t] \in RuleObjects /\ rule[s] = NULL /\ ruleNames' = ruleNames
  BY DEF RuleClone, RuleInv
<1> DEFINE r == Copied(rule[t], filter)
           u == RuleSeen(rule[s], ruleNames)
           v == RuleSeen(r, ruleNames')
<1>3. r \in RuleObjects
  BY <1>2, CopiedObject, RuleValueNames DEF RuleObjects
<1>4. RuleSet(s, r)
  BY <1>1
<1>5. RuleIn(r, ruleNames) = Copied(RuleIn(rule[t], ruleNames), filter)
  BY <1>2, CopiedIn
<1> HIDE DEF r
<1>6. v = Copied(RuleIn(rule[t], ruleNames), filter)
  BY <1>2, <1>3, <1>5, RulesAreObjects DEF RuleSeen
<1>7. v \in RuleCopies(RuleSeen(rule[t], ruleNames))
  BY <1>2, <1>6 DEF RuleCopies, RuleSeen
<1>8. u = NULL /\ RuleHeapKept(s)
  BY <1>2 DEF RuleSeen, RuleHeapKept
<1> HIDE DEF u, v
<1> QED
  BY <1>2, <1>4, <1>7, <1>8, RuleMoves DEF u, v

(* What is read has the names of the message, wherever they are put. *)
LEMMA RuleOfIn ==
    ASSUME NEW e \in RuleEntries, NEW c1 \in Cells, NEW c2 \in Cells, NEW heap,
           e.iif # NULL => heap[c1] = e.iif, e.oif # NULL => heap[c2] = e.oif
    PROVE  /\ RuleOf(e, c1, c2) \in RuleObjects
           /\ RuleIn(RuleOf(e, c1, c2), heap) = RuleContentOf(e)
<1> DEFINE family == Flag(Blank(RuleProps), "FAMILY", e.family)
           f1 == Flag(family, "FAMILY", e.family)
           f2 == Flag(f1, "DST", e.dst)
           f3 == Flag(f2, "DST_PREFIX", e.prefix)
           dst == IF e.prefix = Zero THEN family ELSE f3
           iif == IF e.iif = NULL THEN dst ELSE Flag(dst, "IIFNAME", c1)
           oif == IF e.oif = NULL THEN iif ELSE Flag(iif, "OIFNAME", c2)
           cIif == IF e.iif = NULL THEN dst ELSE Flag(dst, "IIFNAME", e.iif)
           cOif == IF e.oif = NULL THEN cIif ELSE Flag(cIif, "OIFNAME", e.oif)
<1>1. /\ e.family \in RuleValues /\ e.prefix \in RuleValues /\ e.dst \in RuleValues
      /\ e.iif \in Labels \cup {NULL} /\ e.oif \in Labels \cup {NULL}
  BY RuleValueNames DEF RuleEntries
<1>2. RuleOf(e, c1, c2) = oif /\ RuleContentOf(e) = cOif
  BY DEF RuleOf, RuleContentOf, WithRuleFamily, WithRuleDst
<1>3. ASSUME NEW r \in RuleObjects, NEW prop \in RuleProps, NEW v \in RuleValues,
             RuleIn(r, heap) = r, prop \notin RuleNameProps
      PROVE  Flag(r, prop, v) \in RuleObjects /\ RuleIn(Flag(r, prop, v), heap) = Flag(r, prop, v)
  BY <1>3, FlagRule, FlagSeen
<1>4. Blank(RuleProps) \in RuleObjects /\ RuleIn(Blank(RuleProps), heap) = Blank(RuleProps)
  BY BlankRule DEF RuleIn, Blank, RuleSound
<1>5. family \in RuleObjects /\ RuleIn(family, heap) = family
  BY <1>1, <1>3, <1>4, RulePropNames
<1> HIDE DEF family
<1>6. f1 \in RuleObjects /\ RuleIn(f1, heap) = f1
  BY <1>1, <1>3, <1>5, RulePropNames
<1> HIDE DEF f1
<1>7. f2 \in RuleObjects /\ RuleIn(f2, heap) = f2
  BY <1>1, <1>3, <1>6, RulePropNames
<1> HIDE DEF f2
<1>8. f3 \in RuleObjects /\ RuleIn(f3, heap) = f3
  BY <1>1, <1>3, <1>7, RulePropNames
<1> HIDE DEF f3
<1>9. dst \in RuleObjects /\ RuleIn(dst, heap) = dst
  BY <1>5, <1>8
<1> HIDE DEF dst
<1>10. ASSUME NEW r \in RuleObjects, NEW prop \in RuleNameProps, NEW c \in Cells
       PROVE  /\ Flag(r, prop, c) \in RuleObjects
              /\ RuleIn(Flag(r, prop, c), heap) = Flag(RuleIn(r, heap), prop, heap[c])
  <2>1. prop \in RuleProps /\ c \in RuleValues /\ c # Zero
    BY RulePropNames, RuleValueNames
  <2>2. SameNames(r, prop, heap, heap)
    BY DEF SameNames
  <2>3. RuleIn(Flag(r, prop, c), heap) = Flag(RuleIn(r, heap), prop, Stored(prop, c, heap))
    BY <2>1, <2>2, FlagIn
  <2> QED
    BY <2>1, <2>3, FlagRule DEF Stored
<1>11. "IIFNAME" \in RuleNameProps /\ "OIFNAME" \in RuleNameProps
  BY DEF RuleNameProps
<1>12. iif \in RuleObjects /\ RuleIn(iif, heap) = cIif
  BY <1>9, <1>10, <1>11
<1> HIDE DEF iif, cIif
<1>13. oif \in RuleObjects /\ RuleIn(oif, heap) = cOif
  BY <1>10, <1>11, <1>12
<1> QED
  BY <1>2, <1>13

LEMMA RuleReadMoves ==
    ASSUME RuleInv, RuleInv', NEW s \in Slots, RuleRead(s)
    PROVE  [RuleAsValues!Next]_RuleView
<1>1. PICK e \in RuleEntries, c1 \in RuleFreeCells, c2 \in RuleFreeCells :
          /\ c1 = c2 => NULL \in {e.iif, e.oif}
          /\ RuleSet(s, RuleOf(e, c1, c2))
          /\ ruleNames' = [c \in Cells |-> IF c = c1 /\ e.iif # NULL THEN e.iif
                                           ELSE IF c = c2 /\ e.oif # NULL THEN e.oif
                                           ELSE ruleNames[c]]
  BY DEF RuleRead
<1>2. /\ rule[s] = NULL /\ c1 \in Cells /\ c2 \in Cells
      /\ ruleNames[c1] = NULL /\ ruleNames[c2] = NULL
  BY DEF RuleRead, RuleFreeCells
<1>3. /\ e.iif # NULL => ruleNames'[c1] = e.iif
      /\ e.oif # NULL => ruleNames'[c2] = e.oif
      /\ RuleHeapKept(s)
  BY <1>1, <1>2 DEF RuleHeapKept
<1> DEFINE r == RuleOf(e, c1, c2)
           u == RuleSeen(rule[s], ruleNames)
           v == RuleSeen(r, ruleNames')
<1>4. r \in RuleObjects /\ RuleIn(r, ruleNames') = RuleContentOf(e)
  BY <1>2, <1>3, RuleOfIn
<1>5. RuleSet(s, r)
  BY <1>1
<1> HIDE DEF r
<1>6. u = NULL /\ v = RuleContentOf(e)
  BY <1>2, <1>4, RulesAreObjects DEF RuleSeen
<1> HIDE DEF u, v
<1>7. v \in {RuleContentOf(x) : x \in RuleEntries}
  BY <1>6
<1> QED
  BY <1>3, <1>5, <1>6, <1>7, RuleMoves DEF u, v

(* Rules are values to the caller: a setter, a clone or a read changes the *)
(* one rule it is about, and what that rule says, names included, is then  *)
(* what the call says.  It is the property mnlxt_rt_rule_clone() breaks by *)
(* copying pointers, so no rule that has a name is cloned.                 *)
THEOREM RulesKeepValues == ASSUME ~CloneNamed PROVE RuleSpec => RulesAreValues
<1>1. RuleInit => RuleAsValues!Init
  BY DEF RuleInit, RuleAsValues!Init, RuleView
<1>2. RuleInv /\ RuleInv' /\ [RuleNext]_ruleVars => [RuleAsValues!Next]_RuleView
  <2> SUFFICES ASSUME RuleInv, RuleInv', [RuleNext]_ruleVars
               PROVE  [RuleAsValues!Next]_RuleView
    OBVIOUS
  <2>1. CASE UNCHANGED ruleVars
    <3>1. RuleView' = RuleView
      BY <2>1 DEF ruleVars, RuleView, RuleContent
    <3> QED
      BY <3>1
  <2>2. CASE RuleNext
    <3>1. PICK s \in Slots :
              \/ RuleNew(s) \/ RuleSetFamily(s) \/ RuleSetPrefix(s) \/ RuleSetDst(s)
              \/ RuleSetName(s) \/ RuleFree(s) \/ RuleRead(s)
              \/ \E t \in Slots : RuleClone(s, t)
      BY <2>2 DEF RuleNext
    <3> QED
      BY <3>1, RuleNewMoves, RuleSetFamilyMoves, RuleSetPrefixMoves, RuleSetDstMoves,
         RuleSetNameMoves, RuleFreeMoves, RuleReadMoves, RuleCloneMoves
  <2> QED
    BY <2>1, <2>2
<1> QED
  BY <1>1, <1>2, RuleInvariance, PTL DEF RuleSpec, RulesAreValues, RuleAsValues!Spec

-----------------------------------------------------------------------------
(* Interfaces.                                                             *)

LinkValues == Kinds \cup Ids \cup Mtus \cup {Zero}

InfoValues == Ids \cup TunModes \cup {Zero, Foreign}

(* An interface that setters, clones and reads lead to: what it has not    *)
(* for its kind is zero, or left of another kind.                          *)
LinkSound(l) ==
    /\ l \in Links
    /\ "INFO" \in l.props => l.val["INFO"] \in Kinds
    /\ \A bit \in InfoBits \ l.info.props : l.info.val[bit] \in {Zero, Foreign}

(* What it has for a kind is of its kind. *)
LinkOwns(l) ==
    /\ \A bit \in l.info.props : "INFO" \in l.props /\ bit \in KindBits[l.val["INFO"]]
    /\ \A bit \in InfoBits : l.info.val[bit] # Foreign

(* The flags are those that are asked for, others are left of clones. *)
FlagsAre(l, asked, left) ==
    /\ asked \in [IfFlags -> {"on", "off", NULL}]
    /\ \A f \in IfFlags : asked[f] # NULL =>
          "FLAGS" \in l.props /\ f \in l.mask /\ (f \in l.flags <=> asked[f] = "on")
    /\ "FLAGS" \notin left =>
          \A f \in IfFlags : asked[f] = NULL => f \notin l.mask /\ f \notin l.flags

LinkInv ==
    /\ linkLeft \in SUBSET {"FLAGS", "INFO"}
    /\ link = NULL => linkAsked = NothingAsked
    /\ link # NULL => /\ LinkSound(link)
                      /\ FlagsAre(link, linkAsked, linkLeft)
                      /\ "INFO" \notin linkLeft => LinkOwns(link)

(* Two interfaces have one state of flags. *)
SameFlags(l, m) ==
    /\ l.flags = m.flags
    /\ l.mask = m.mask
    /\ "FLAGS" \in l.props <=> "FLAGS" \in m.props

(* Memory holds no structure of another kind. *)
Keeps(l, kind) == l.val["INFO"] = kind \/ l.info = Blank(InfoBits)

(* w is l after a setter of a property of a kind, or after one that unsets *)
(* it.                                                                     *)
InfoSet(w, l, kind, bit, value, set) ==
    /\ LinkSound(w)
    /\ SameFlags(w, l)
    /\ Given(w, "INFO") = kind
    /\ \A q \in LinkProps : q # "INFO" => Given(w, q) = Given(l, q)
    /\ w.info.props = IF set THEN l.info.props \cup {bit} ELSE l.info.props \ {bit}
    /\ w.info.val[bit] = value
    /\ Keeps(l, kind) => \A b \in InfoBits : b # bit => w.info.val[b] = l.info.val[b]

LEMMA LinkNames ==
    /\ "FLAGS" \in LinkProps /\ "MTU" \in LinkProps /\ "MTU_MIN" \in LinkProps
    /\ "PARENT" \in LinkProps /\ "INFO" \in LinkProps
    /\ NULL \notin LinkValues /\ NULL \notin InfoValues /\ NULL \notin Links
    /\ NULL \notin Ids /\ NULL \notin Kinds /\ NULL \notin Mtus /\ NULL \notin TunModes
    /\ NULL # "on" /\ NULL # "off" /\ NULL # Zero /\ NULL # Foreign
    /\ Zero \notin Ids /\ Foreign \notin Ids
    /\ \A v \in Kinds \cup Ids \cup Mtus : v \in LinkValues
    /\ \A v \in Ids \cup TunModes : v \in InfoValues
    /\ Zero \in InfoValues
  BY LinkAssumption DEF LinkProps, LinkValues, InfoValues

LEMMA TunModeNames == Zero \notin TunModes /\ Foreign \notin TunModes /\ Zero # Foreign
  BY DEF TunModes, Zero, Foreign

LEMMA KindNames ==
    /\ "bridge" \in Kinds /\ "vlan" \in Kinds /\ "tun" \in Kinds /\ "xfrm" \in Kinds
    /\ KindBits["bridge"] = {}
    /\ KindBits["vlan"] = {VlanId}
    /\ KindBits["xfrm"] = {XfrmIfindex, XfrmId}
    /\ KindBits["tun"] = {TunType, TunFlags, TunUid, TunGid}
    /\ VlanId \in InfoBits /\ XfrmIfindex \in InfoBits /\ XfrmId \in InfoBits
    /\ TunType \in InfoBits /\ TunFlags \in InfoBits /\ TunUid \in InfoBits /\ TunGid \in InfoBits
  BY DEF Kinds, KindBits, VlanId, XfrmIfindex, XfrmId, TunType, TunFlags, TunUid, TunGid, InfoBits

LEMMA KindBitsTyped == ASSUME NEW kind \in Kinds PROVE KindBits[kind] \subseteq InfoBits
  BY KindNames DEF Kinds

LEMMA LinkParts ==
    ASSUME NEW l \in Links
    PROVE  /\ l.props \subseteq LinkProps /\ l.val \in [LinkProps -> LinkValues]
           /\ l.flags \subseteq IfFlags /\ l.mask \subseteq IfFlags /\ l.info \in Infos
           /\ l = [props |-> l.props, val |-> l.val, flags |-> l.flags, mask |-> l.mask,
                   info |-> l.info]
  BY DEF Links, LinkValues

LEMMA LinkMake ==
    ASSUME NEW p \in SUBSET LinkProps, NEW v \in [LinkProps -> LinkValues],
           NEW f \in SUBSET IfFlags, NEW m \in SUBSET IfFlags, NEW i \in Infos
    PROVE  [props |-> p, val |-> v, flags |-> f, mask |-> m, info |-> i] \in Links
  BY DEF Links, LinkValues

LEMMA InfoParts ==
    ASSUME NEW i \in Infos
    PROVE  /\ i.props \subseteq InfoBits /\ i.val \in [InfoBits -> InfoValues]
           /\ i = [props |-> i.props, val |-> i.val]
           /\ i \in ObjectsOf(InfoBits, InfoValues)
  BY DEF Infos, InfoValues, ObjectsOf

LEMMA InfoMake ==
    ASSUME NEW p \in SUBSET InfoBits, NEW v \in [InfoBits -> InfoValues]
    PROVE  [props |-> p, val |-> v] \in Infos
  BY DEF Infos, InfoValues

(* A setter of a property. *)
LEMMA FlagLink ==
    ASSUME NEW l \in Links, NEW prop \in LinkProps, NEW value \in LinkValues
    PROVE  /\ Flag(l, prop, value) \in Links
           /\ Flag(l, prop, value).flags = l.flags /\ Flag(l, prop, value).mask = l.mask
           /\ Flag(l, prop, value).info = l.info
           /\ \A q \in LinkProps : q \in Flag(l, prop, value).props <=> q \in l.props \/ q = prop
           /\ Flag(l, prop, value).val[prop] = value
           /\ \A q \in LinkProps : q # prop => Flag(l, prop, value).val[q] = l.val[q]
<1>1. Flag(l, prop, value) \in Links
  BY DEF Flag, Links, LinkValues
<1>2. /\ Flag(l, prop, value).flags = l.flags /\ Flag(l, prop, value).mask = l.mask
      /\ Flag(l, prop, value).info = l.info
  BY DEF Flag, Links
<1>3. /\ \A q \in LinkProps : q \in Flag(l, prop, value).props <=> q \in l.props \/ q = prop
      /\ Flag(l, prop, value).val[prop] = value
      /\ \A q \in LinkProps : q # prop => Flag(l, prop, value).val[q] = l.val[q]
  BY DEF Flag, Links
<1> QED
  BY <1>1, <1>2, <1>3

(* A setter of a scalar. *)
LEMMA ScalarLink ==
    ASSUME NEW l, LinkSound(l), NEW prop \in {"MTU", "MTU_MIN", "PARENT"}, NEW id \in Ids \cup Mtus
    PROVE  /\ LinkSound(Flag(l, prop, id))
           /\ SameFlags(Flag(l, prop, id), l)
           /\ Given(Flag(l, prop, id), prop) = id
           /\ \A q \in LinkProps : q # prop => Given(Flag(l, prop, id), q) = Given(l, q)
           /\ Flag(l, prop, id).info = l.info
           /\ LinkOwns(l) => LinkOwns(Flag(l, prop, id))
<1> DEFINE f == Flag(l, prop, id)
<1>1. l \in Links /\ prop \in LinkProps /\ prop # "INFO" /\ prop # "FLAGS" /\ id \in LinkValues
  BY LinkNames DEF LinkSound
<1>2. /\ f \in Links /\ f.flags = l.flags /\ f.mask = l.mask /\ f.info = l.info
      /\ \A q \in LinkProps : q \in f.props <=> q \in l.props \/ q = prop
      /\ f.val[prop] = id
      /\ \A q \in LinkProps : q # prop => f.val[q] = l.val[q]
  BY <1>1, FlagLink
<1> HIDE DEF f
<1>3. /\ "INFO" \in f.props <=> "INFO" \in l.props
      /\ "FLAGS" \in f.props <=> "FLAGS" \in l.props
      /\ f.val["INFO"] = l.val["INFO"]
  BY <1>1, <1>2, LinkNames
<1>4. LinkSound(f)
  BY <1>2, <1>3 DEF LinkSound
<1>5. SameFlags(f, l)
  BY <1>2, <1>3 DEF SameFlags
<1>6. Given(f, prop) = id /\ \A q \in LinkProps : q # prop => Given(f, q) = Given(l, q)
  BY <1>1, <1>2 DEF Given
<1>7. LinkOwns(l) => LinkOwns(f)
  BY <1>2, <1>3 DEF LinkOwns
<1> QED
  BY <1>2, <1>4, <1>5, <1>6, <1>7 DEF f

(* The kind is set.  A structure of another kind stays in memory. *)
LEMMA KindLink ==
    ASSUME NEW l, LinkSound(l), NEW kind \in Kinds
    PROVE  /\ LinkSound(WithKind(l, kind))
           /\ SameFlags(WithKind(l, kind), l)
           /\ Given(WithKind(l, kind), "INFO") = kind
           /\ \A q \in LinkProps : q # "INFO" => Given(WithKind(l, kind), q) = Given(l, q)
           /\ WithKind(l, kind).info.props = l.info.props
           /\ Keeps(l, kind) => WithKind(l, kind).info = l.info
<1> DEFINE f == Flag(l, "INFO", kind)
           w == WithKind(l, kind)
<1>1. l \in Links /\ "INFO" \in LinkProps /\ kind \in LinkValues /\ kind # NULL
  BY LinkNames DEF LinkSound
<1>2. /\ f \in Links /\ f.flags = l.flags /\ f.mask = l.mask /\ f.info = l.info
      /\ \A q \in LinkProps : q \in f.props <=> q \in l.props \/ q = "INFO"
      /\ f.val["INFO"] = kind
      /\ \A q \in LinkProps : q # "INFO" => f.val[q] = l.val[q]
  BY <1>1, FlagLink
<1>3. CASE Keeps(l, kind)
  <2>1. w = f
    BY <1>3 DEF WithKind, Keeps
  <2> HIDE DEF f, w
  <2>2. LinkSound(w)
    BY <1>1, <1>2, <2>1 DEF LinkSound
  <2>3. SameFlags(w, l)
    BY <1>2, <2>1, LinkNames DEF SameFlags
  <2>4. Given(w, "INFO") = kind /\ \A q \in LinkProps : q # "INFO" => Given(w, q) = Given(l, q)
    BY <1>1, <1>2, <2>1 DEF Given
  <2> QED
    BY <1>2, <2>1, <2>2, <2>3, <2>4 DEF w
<1>4. CASE ~Keeps(l, kind)
  <2> DEFINE v == [bit \in InfoBits |-> Foreign]
             i == [props |-> l.info.props, val |-> v]
  <2>1. w = [f EXCEPT !.info.val = v]
    BY <1>4 DEF WithKind, Keeps
  <2> HIDE DEF f, w
  <2>2. l.info \in Infos /\ v \in [InfoBits -> InfoValues]
    BY <1>1, LinkParts DEF InfoValues
  <2>3. i \in Infos
    BY <2>2, InfoParts, InfoMake
  <2>4. w = [props |-> f.props, val |-> f.val, flags |-> f.flags, mask |-> f.mask, info |-> i]
    <3> HIDE DEF v
    <3>1. f = [props |-> f.props, val |-> f.val, flags |-> f.flags, mask |-> f.mask, info |-> l.info]
      BY <1>2, LinkParts
    <3>2. l.info = [props |-> l.info.props, val |-> l.info.val]
      BY <2>2, InfoParts
    <3>3. w = [f EXCEPT !.info = [l.info EXCEPT !.val = v]]
      BY <1>2, <2>1
    <3>4. [l.info EXCEPT !.val = v] = i
      BY <3>2
    <3> HIDE DEF i
    <3> QED
      BY <3>1, <3>3, <3>4
  <2>5. w \in Links
    BY <1>2, <2>3, <2>4, LinkParts, LinkMake
  <2>6. /\ w.props = f.props /\ w.val = f.val /\ w.flags = f.flags /\ w.mask = f.mask
        /\ w.info.props = l.info.props /\ \A bit \in InfoBits : w.info.val[bit] = Foreign
    BY <2>4
  <2>7. LinkSound(w)
    BY <1>1, <1>2, <2>5, <2>6 DEF LinkSound
  <2>8. SameFlags(w, l)
    BY <1>2, <2>6, LinkNames DEF SameFlags
  <2>9. Given(w, "INFO") = kind /\ \A q \in LinkProps : q # "INFO" => Given(w, q) = Given(l, q)
    BY <1>1, <1>2, <2>6 DEF Given
  <2> QED
    BY <1>4, <2>6, <2>7, <2>8, <2>9 DEF w
<1> QED
  BY <1>3, <1>4

(* The structure of an interface that has only its own is kept. *)
LEMMA OwnKeeps ==
    ASSUME NEW l, LinkSound(l), LinkOwns(l), NEW kind \in Kinds, KindAllows(l, kind)
    PROVE  Keeps(l, kind)
<1>1. CASE "INFO" \in l.props
  BY <1>1, LinkNames DEF LinkSound, KindAllows, Given, Keeps
<1>2. CASE "INFO" \notin l.props
  <2>1. l.info \in Infos /\ l.info.props = {}
    BY <1>2, LinkParts DEF LinkSound, LinkOwns
  <2>2. \A bit \in InfoBits : l.info.val[bit] = Zero
    BY <2>1 DEF LinkSound, LinkOwns
  <2>3. l.info = [props |-> {}, val |-> l.info.val] /\ l.info.val \in [InfoBits -> InfoValues]
    BY <2>1, InfoParts
  <2>4. l.info.val = [bit \in InfoBits |-> Zero]
    BY <2>2, <2>3
  <2> QED
    BY <2>3, <2>4 DEF Keeps, Blank
<1> QED
  BY <1>1, <1>2

(* An interface gets another structure. *)
LEMMA NewInfoLink ==
    ASSUME NEW l, LinkSound(l), NEW i \in Infos,
           \A bit \in InfoBits \ i.props : i.val[bit] \in {Zero, Foreign}
    PROVE  /\ LinkSound([l EXCEPT !.info = i])
           /\ SameFlags([l EXCEPT !.info = i], l)
           /\ \A q \in LinkProps : Given([l EXCEPT !.info = i], q) = Given(l, q)
           /\ [l EXCEPT !.info = i].info = i
<1> DEFINE f == [l EXCEPT !.info = i]
<1>1. l \in Links
  BY DEF LinkSound
<1>2. f = [props |-> l.props, val |-> l.val, flags |-> l.flags, mask |-> l.mask, info |-> i]
  BY <1>1, LinkParts
<1>3. f \in Links
  BY <1>1, <1>2, LinkParts, LinkMake
<1>4. f.props = l.props /\ f.val = l.val /\ f.flags = l.flags /\ f.mask = l.mask /\ f.info = i
  BY <1>2
<1> HIDE DEF f
<1>5. LinkSound(f)
  BY <1>3, <1>4 DEF LinkSound
<1> QED
  BY <1>4, <1>5 DEF f, SameFlags, Given

(* The same, of an interface whose kind was just set. *)
LEMMA InfoIsSet ==
    ASSUME NEW l, LinkSound(l), NEW kind \in Kinds, NEW bit \in InfoBits, NEW value \in InfoValues,
           NEW set \in BOOLEAN, ~set => value = Zero, NEW i \in Infos,
           i.props = IF set THEN l.info.props \cup {bit} ELSE l.info.props \ {bit},
           i.val[bit] = value,
           \A b \in InfoBits : b # bit => i.val[b] = WithKind(l, kind).info.val[b]
    PROVE  InfoSet([WithKind(l, kind) EXCEPT !.info = i], l, kind, bit, value, set)
<1> DEFINE f == WithKind(l, kind)
           w == [f EXCEPT !.info = i]
<1>1. /\ LinkSound(f) /\ SameFlags(f, l) /\ Given(f, "INFO") = kind
      /\ \A q \in LinkProps : q # "INFO" => Given(f, q) = Given(l, q)
      /\ f.info.props = l.info.props
      /\ Keeps(l, kind) => f.info = l.info
  BY KindLink
<1> HIDE DEF f
<1>2. \A b \in InfoBits \ i.props : i.val[b] \in {Zero, Foreign}
  <2> SUFFICES ASSUME NEW b \in InfoBits \ i.props PROVE i.val[b] \in {Zero, Foreign}
    OBVIOUS
  <2>1. CASE b = bit
    BY <2>1
  <2>2. CASE b # bit
    <3>1. b \notin f.info.props
      BY <1>1, <2>2
    <3> QED
      BY <1>1, <2>2, <3>1 DEF LinkSound, f
  <2> QED
    BY <2>1, <2>2
<1>3. /\ LinkSound(w) /\ SameFlags(w, f) /\ w.info = i
      /\ \A q \in LinkProps : Given(w, q) = Given(f, q)
  BY <1>1, <1>2, NewInfoLink
<1>4. \A b \in InfoBits : b # bit => i.val[b] = f.info.val[b]
  BY DEF f
<1> HIDE DEF w
<1>5. SameFlags(w, l)
  BY <1>1, <1>3 DEF SameFlags
<1>6. InfoSet(w, l, kind, bit, value, set)
  BY <1>1, <1>3, <1>4, <1>5, LinkNames DEF InfoSet
<1> QED
  BY <1>6 DEF w, f

(* A setter of a property of a structure. *)
LEMMA InfoLink ==
    ASSUME NEW l, LinkSound(l), NEW kind \in Kinds, NEW bit \in InfoBits, NEW value \in InfoValues
    PROVE  InfoSet(WithInfo(l, kind, bit, value), l, kind, bit, value, TRUE)
<1> DEFINE f == WithKind(l, kind)
           i == Flag(f.info, bit, value)
<1>1. LinkSound(f) /\ f.info.props = l.info.props
  BY KindLink
<1>2. f \in Links /\ f.info \in Infos
  BY <1>1, LinkParts DEF LinkSound
<1>3. WithInfo(l, kind, bit, value) = [f EXCEPT !.info = i]
  <2>1. WithInfo(l, kind, bit, value) = [f EXCEPT !.info = Flag(@, bit, value)]
    BY DEF WithInfo
  <2> HIDE DEF f
  <2> QED
    BY <1>2, <2>1, LinkParts
<1> HIDE DEF f
<1>4. f.info \in ObjectsOf(InfoBits, InfoValues)
  BY <1>2, InfoParts
<1>5. /\ i \in ObjectsOf(InfoBits, InfoValues)
      /\ \A b \in InfoBits : b \in i.props <=> b \in f.info.props \/ b = bit
      /\ i.val[bit] = value
      /\ \A b \in InfoBits : b # bit => i.val[b] = f.info.val[b]
  BY <1>4, FlagObject
<1> HIDE DEF i
<1>6. i \in Infos
  BY <1>5 DEF Infos, InfoValues, ObjectsOf
<1>7. i.props = l.info.props \cup {bit}
  <2>1. i.props \subseteq InfoBits /\ l.info.props \subseteq InfoBits
    BY <1>1, <1>2, <1>6, InfoParts
  <2> QED
    BY <1>1, <1>5, <2>1
<1>8. \A b \in InfoBits : b # bit => i.val[b] = WithKind(l, kind).info.val[b]
  BY <1>5 DEF f
<1>9. InfoSet([WithKind(l, kind) EXCEPT !.info = i], l, kind, bit, value, TRUE)
  BY <1>5, <1>6, <1>7, <1>8, InfoIsSet
<1> QED
  BY <1>3, <1>9 DEF f

(* The type or the flags of a TUN device are set, or unset. *)
LEMMA TunLink ==
    ASSUME NEW l, LinkSound(l), NEW bit \in InfoBits, NEW value \in InfoValues
    PROVE  InfoSet(WithTun(l, bit, value), l, "tun", bit, value, value # Zero)
<1>1. CASE value # Zero
  <2>1. WithTun(l, bit, value) = WithInfo(l, "tun", bit, value) /\ (value # Zero) = TRUE
    BY <1>1 DEF WithTun
  <2>2. InfoSet(WithInfo(l, "tun", bit, value), l, "tun", bit, value, TRUE)
    BY InfoLink, KindNames
  <2> QED
    BY <2>1, <2>2
<1>2. CASE value = Zero
  <2> DEFINE f == WithKind(l, "tun")
             i == [f.info EXCEPT !.props = @ \ {bit}, !.val[bit] = Zero]
  <2>1. LinkSound(f) /\ f.info.props = l.info.props
    BY KindLink, KindNames
  <2>2. WithTun(l, bit, value) = [f EXCEPT !.info.props = @ \ {bit}, !.info.val[bit] = Zero]
    BY <1>2 DEF WithTun
  <2> HIDE DEF f
  <2>3. f \in Links /\ f.info \in Infos
    BY <2>1, LinkParts DEF LinkSound
  <2>4. WithTun(l, bit, value) = [f EXCEPT !.info = i]
    BY <2>2, <2>3, LinkParts
  <2>5. /\ i \in Infos
        /\ i.props = f.info.props \ {bit}
        /\ i.val[bit] = Zero
        /\ \A b \in InfoBits : b # bit => i.val[b] = f.info.val[b]
    BY <2>3 DEF Infos
  <2> HIDE DEF i
  <2>6. i.props = l.info.props \ {bit}
    BY <2>1, <2>5
  <2>7. \A b \in InfoBits : b # bit => i.val[b] = WithKind(l, "tun").info.val[b]
    BY <2>5 DEF f
  <2>8. InfoSet([WithKind(l, "tun") EXCEPT !.info = i], l, "tun", bit, Zero, FALSE)
    BY <2>5, <2>6, <2>7, InfoIsSet, KindNames, LinkNames
  <2>9. (value # Zero) = FALSE
    BY <1>2
  <2> QED
    BY <1>2, <2>4, <2>8, <2>9 DEF f
<1> QED
  BY <1>1, <1>2

(* The structure is still the interface's own. *)
LEMMA SetOwns ==
    ASSUME NEW l, LinkSound(l), LinkOwns(l), NEW kind \in Kinds, KindAllows(l, kind),
           NEW bit \in KindBits[kind], NEW value, value # Foreign, NEW set \in BOOLEAN,
           NEW w, InfoSet(w, l, kind, bit, value, set)
    PROVE  LinkOwns(w)
<1>1. Keeps(l, kind)
  BY OwnKeeps
<1>2. /\ w.info.props \subseteq l.info.props \cup {bit} /\ w.info.val[bit] = value
      /\ \A b \in InfoBits : b # bit => w.info.val[b] = l.info.val[b]
  BY <1>1 DEF InfoSet
<1>3. "INFO" \in w.props /\ w.val["INFO"] = kind
  BY LinkNames DEF InfoSet, Given
<1>4. l.info.props \subseteq KindBits[kind]
  <2> SUFFICES ASSUME NEW b \in l.info.props PROVE b \in KindBits[kind]
    OBVIOUS
  <2>1. "INFO" \in l.props /\ b \in KindBits[l.val["INFO"]] /\ l.val["INFO"] \in Kinds
    BY DEF LinkOwns, LinkSound
  <2>2. l.val["INFO"] = kind
    BY <2>1, LinkNames DEF KindAllows, Given
  <2> QED
    BY <2>1, <2>2
<1>5. \A b \in InfoBits : w.info.val[b] # Foreign
  BY <1>2 DEF LinkOwns
<1> QED
  BY <1>2, <1>3, <1>4, <1>5 DEF LinkOwns

(* The same, when no more than the kind is set. *)
LEMMA KindOwns ==
    ASSUME NEW l, LinkSound(l), LinkOwns(l), NEW kind \in Kinds, KindAllows(l, kind)
    PROVE  LinkOwns(WithKind(l, kind))
<1> DEFINE w == WithKind(l, kind)
<1>1. Given(w, "INFO") = kind /\ (Keeps(l, kind) => w.info = l.info)
  BY KindLink
<1>2. Keeps(l, kind)
  BY OwnKeeps
<1> HIDE DEF w
<1>3. "INFO" \in w.props /\ w.val["INFO"] = kind /\ w.info = l.info
  BY <1>1, <1>2, LinkNames DEF Given
<1>4. \A b \in l.info.props : b \in KindBits[kind]
  <2> SUFFICES ASSUME NEW b \in l.info.props PROVE b \in KindBits[kind]
    OBVIOUS
  <2>1. "INFO" \in l.props /\ b \in KindBits[l.val["INFO"]] /\ l.val["INFO"] \in Kinds
    BY DEF LinkOwns, LinkSound
  <2>2. l.val["INFO"] = kind
    BY <2>1, LinkNames DEF KindAllows, Given
  <2> QED
    BY <2>1, <2>2
<1>5. LinkOwns(w)
  BY <1>3, <1>4 DEF LinkOwns
<1> QED
  BY <1>5 DEF w

(* An interface gets other flags. *)
LEMMA AllFlagsLink ==
    ASSUME NEW l, LinkSound(l), NEW flags \in SUBSET IfFlags
    PROVE  /\ LinkSound(WithAllFlags(l, flags)) /\ "FLAGS" \in WithAllFlags(l, flags).props
           /\ WithAllFlags(l, flags).flags = flags /\ WithAllFlags(l, flags).mask = IfFlags
           /\ \A q \in LinkProps : q # "FLAGS" => Given(WithAllFlags(l, flags), q) = Given(l, q)
           /\ WithAllFlags(l, flags).info = l.info
           /\ LinkOwns(l) => LinkOwns(WithAllFlags(l, flags))
<1> DEFINE f == WithAllFlags(l, flags)
<1>1. l \in Links
  BY DEF LinkSound
<1>2. /\ f \in Links /\ f.props = l.props \cup {"FLAGS"} /\ f.val = l.val
      /\ f.flags = flags
      /\ f.mask = IfFlags /\ f.info = l.info
  BY <1>1, LinkNames DEF Links, WithAllFlags
<1> HIDE DEF f
<1>3. LinkSound(f) /\ (LinkOwns(l) => LinkOwns(f))
  BY <1>2 DEF LinkSound, LinkOwns
<1>4. \A q \in LinkProps : q # "FLAGS" => Given(f, q) = Given(l, q)
  BY <1>2 DEF Given
<1> QED
  BY <1>2, <1>3, <1>4 DEF f

LEMMA BlankLinkSound ==
    /\ LinkSound(BlankLink) /\ LinkOwns(BlankLink)
    /\ \A left : FlagsAre(BlankLink, NothingAsked, left)
    /\ \A q \in LinkProps : Given(BlankLink, q) = NULL
    /\ BlankLink.info = Blank(InfoBits)
<1>1. /\ BlankLink.props = {} /\ BlankLink.flags = {} /\ BlankLink.mask = {}
      /\ BlankLink.info = Blank(InfoBits)
  BY DEF BlankLink
<1>2. Blank(InfoBits) \in Infos /\ Blank(InfoBits).props = {}
  BY DEF Blank, Infos
<1>3. \A bit \in InfoBits : Blank(InfoBits).val[bit] = Zero
  BY DEF Blank
<1>4. BlankLink \in Links
  BY <1>2 DEF BlankLink, Links
<1>5. LinkSound(BlankLink) /\ LinkOwns(BlankLink)
  BY <1>1, <1>2, <1>3, <1>4, TunModeNames DEF LinkSound, LinkOwns
<1>6. \A left : FlagsAre(BlankLink, NothingAsked, left)
  BY <1>1 DEF FlagsAre, NothingAsked
<1> QED
  BY <1>1, <1>2, <1>5, <1>6 DEF Given

LEMMA FlagsSame ==
    ASSUME NEW l, NEW m, NEW asked, NEW left, FlagsAre(l, asked, left), SameFlags(m, l)
    PROVE  FlagsAre(m, asked, left)
  BY DEF FlagsAre, SameFlags

LEMMA LinkBecomesInv ==
    ASSUME LinkInv, link # NULL, NEW l, LinkSound(l), SameFlags(l, link),
           LinkOwns(link) => LinkOwns(l), LinkBecomes(l)
    PROVE  LinkInv'
<1>1. link' = l /\ linkAsked' = linkAsked /\ linkLeft' = linkLeft /\ l # NULL
  BY LinkNames DEF LinkBecomes, LinkSound
<1>2. FlagsAre(link, linkAsked, linkLeft) /\ ("INFO" \notin linkLeft => LinkOwns(l))
  BY DEF LinkInv
<1>3. FlagsAre(l, linkAsked, linkLeft)
  BY <1>2, FlagsSame
<1> QED
  BY <1>1, <1>2, <1>3 DEF LinkInv, LinkSound, LinkOwns, FlagsAre

(* A clone that keeps something has all of the memory: what the filter     *)
(* leaves out of the flags and of the structure is counted as left.        *)
LEMMA LinkCloneInv == ASSUME LinkInv, LinkClone PROVE LinkInv'
<1>1. CASE link' = BlankLink /\ linkAsked' = NothingAsked /\ linkLeft' = {}
  <2>1. BlankLink # NULL
    BY BlankLinkSound, LinkNames DEF LinkSound
  <2> QED
    BY <1>1, <2>1, BlankLinkSound DEF LinkInv, LinkSound, LinkOwns, FlagsAre
<1>2. CASE \E filter \in SUBSET LinkProps :
              /\ link' = [link EXCEPT !.props = @ \cap filter]
              /\ linkAsked' = IF "FLAGS" \in filter THEN linkAsked ELSE NothingAsked
              /\ linkLeft' = linkLeft \cup ((link.props \cap {"FLAGS", "INFO"}) \ filter)
  <2>1. PICK filter \in SUBSET LinkProps :
              /\ link' = [link EXCEPT !.props = @ \cap filter]
              /\ linkAsked' = IF "FLAGS" \in filter THEN linkAsked ELSE NothingAsked
              /\ linkLeft' = linkLeft \cup ((link.props \cap {"FLAGS", "INFO"}) \ filter)
    BY <1>2
  <2> DEFINE f == [link EXCEPT !.props = @ \cap filter]
             asked == IF "FLAGS" \in filter THEN linkAsked ELSE NothingAsked
             left == linkLeft \cup ((link.props \cap {"FLAGS", "INFO"}) \ filter)
  <2>2. /\ link # NULL /\ LinkSound(link) /\ link \in Links
        /\ FlagsAre(link, linkAsked, linkLeft)
        /\ "INFO" \notin linkLeft => LinkOwns(link)
        /\ linkLeft \in SUBSET {"FLAGS", "INFO"}
    BY DEF LinkClone, LinkInv, LinkSound
  <2>3. /\ f \in Links /\ f.props = link.props \cap filter /\ f.val = link.val
        /\ f.flags = link.flags /\ f.mask = link.mask /\ f.info = link.info
    BY <2>2 DEF Links
  <2>4. left \in SUBSET {"FLAGS", "INFO"} /\ linkLeft \subseteq left
    BY <2>2
  <2>5. /\ "INFO" \notin left => ("INFO" \in link.props => "INFO" \in filter)
        /\ "FLAGS" \notin left => ("FLAGS" \in link.props => "FLAGS" \in filter)
    OBVIOUS
  <2>6. link' = f /\ linkAsked' = asked /\ linkLeft' = left
    BY <2>1
  <2> HIDE DEF f, left
  <2>7. LinkSound(f)
    BY <2>2, <2>3 DEF LinkSound
  <2>8. "INFO" \notin left => LinkOwns(f)
    BY <2>2, <2>3, <2>4, <2>5 DEF LinkOwns
  <2>9. FlagsAre(f, asked, left)
    <3>1. CASE "FLAGS" \in filter
      BY <2>2, <2>3, <2>4, <3>1 DEF FlagsAre
    <3>2. CASE "FLAGS" \notin filter
      <4>1. asked = NothingAsked
        BY <3>2
      <4> HIDE DEF asked
      <4>2. asked \in [IfFlags -> {"on", "off", NULL}] /\ \A g \in IfFlags : asked[g] = NULL
        BY <4>1 DEF NothingAsked
      <4>3. "FLAGS" \notin left => \A g \in IfFlags : g \notin link.mask /\ g \notin link.flags
        BY <2>2, <2>4, <2>5, <3>2 DEF FlagsAre
      <4> QED
        BY <2>3, <4>2, <4>3 DEF FlagsAre
    <3> QED
      BY <3>1, <3>2
  <2>10. f # NULL
    BY <2>3, LinkNames
  <2> HIDE DEF asked
  <2> QED
    BY <2>4, <2>6, <2>7, <2>8, <2>9, <2>10 DEF LinkInv, LinkSound, LinkOwns, FlagsAre
<1> QED
  BY <1>1, <1>2 DEF LinkClone

(* What the kernel reports of an interface. *)
LEMMA LinkEntryValues ==
    ASSUME NEW e \in LinkEntries
    PROVE  /\ e.flags \in SUBSET IfFlags /\ e.mtu \in Mtus /\ e.limit \in Mtus
           /\ e.parent \in Ids \cup {NULL}
           /\ e.info \in [InfoBits -> Ids \cup TunModes \cup {Zero, NULL}]
           /\ \A bit \in InfoBits : e.info[bit] \in Reported(e.kind, bit)
           /\ e.kind = "xfrm" => e.parent = e.info[XfrmIfindex]
           /\ e.kind = "vlan" => e.parent # NULL
<1>1. PICK kind \in Kinds \cup {"veth", NULL} : e \in LinkEntriesOf(kind)
  BY DEF LinkEntries
<1>2. /\ e.kind = kind /\ e.flags \in SUBSET IfFlags /\ e.mtu \in Mtus /\ e.limit \in Mtus
      /\ e.parent \in Ids \cup {NULL} /\ e.info \in ReportedInfos(kind)
      /\ kind = "xfrm" => e.parent = e.info[XfrmIfindex]
      /\ kind = "vlan" => e.parent # NULL
  BY <1>1 DEF LinkEntriesOf
<1>3. /\ e.info \in [InfoBits -> Ids \cup TunModes \cup {Zero, NULL}]
      /\ \A bit \in InfoBits : e.info[bit] \in Reported(kind, bit)
  BY <1>2 DEF ReportedInfos
<1> QED
  BY <1>2, <1>3

(* The same, by the kind. *)
LEMMA ReportedValues ==
    ASSUME NEW kind, NEW bit \in InfoBits
    PROVE  /\ kind \notin Kinds => Reported(kind, bit) = {NULL}
           /\ kind \in Kinds /\ bit \notin KindBits[kind] => Reported(kind, bit) = {NULL}
           /\ kind \in Kinds /\ bit \in KindBits[kind] /\ kind # "tun" => Reported(kind, bit) = Ids
  BY DEF Reported

LEMMA ReportedTun ==
    /\ Reported("tun", TunType) = Ids
    /\ Reported("tun", TunFlags) = TunModes \cup {Zero}
    /\ Reported("tun", TunUid) = Ids \cup {NULL}
    /\ Reported("tun", TunGid) = Ids \cup {NULL}
  BY KindNames DEF Reported, TunType, TunFlags, TunUid, TunGid

(* What is read of a structure: flags that are zero are none. *)
ReadInfo(e) == [bit \in InfoBits |-> IF e.info[bit] = Zero THEN NULL ELSE e.info[bit]]

(* An interface that has what the kernel reports of e, its kind and its    *)
(* structure being read so far.                                            *)
LinkHas(l, e, kind, info) ==
    /\ LinkSound(l)
    /\ LinkOwns(l)
    /\ "FLAGS" \in l.props
    /\ l.flags = e.flags
    /\ l.mask = IfFlags
    /\ Given(l, "MTU") = e.mtu
    /\ Given(l, "MTU_MIN") = e.limit
    /\ Given(l, "PARENT") = e.parent
    /\ Given(l, "INFO") = kind
    /\ \A bit \in InfoBits : Given(l.info, bit) = info[bit]

SomeInfo == [InfoBits -> Ids \cup TunModes \cup {NULL}]

(* A property of the structure is read. *)
LEMMA InfoHas ==
    ASSUME NEW l, NEW e, NEW k, NEW info \in SomeInfo, LinkHas(l, e, k, info),
           NEW kind \in Kinds, k \in {NULL, kind}, NEW bit \in InfoBits, bit \in KindBits[kind],
           NEW id \in Ids \cup TunModes
    PROVE  /\ LinkHas(WithInfo(l, kind, bit, id), e, kind, [info EXCEPT ![bit] = id])
           /\ [info EXCEPT ![bit] = id] \in SomeInfo
<1> DEFINE w == WithInfo(l, kind, bit, id)
<1>1. LinkSound(l) /\ LinkOwns(l) /\ KindAllows(l, kind)
  BY DEF LinkHas, KindAllows
<1>2. id \in InfoValues /\ id # Foreign
  BY LinkNames, TunModeNames
<1>3. InfoSet(w, l, kind, bit, id, TRUE)
  BY <1>1, <1>2, InfoLink
<1> HIDE DEF w
<1>4. Keeps(l, kind)
  BY <1>1, OwnKeeps
<1>5. LinkOwns(w)
  BY <1>1, <1>2, <1>3, SetOwns
<1>6. /\ LinkSound(w) /\ SameFlags(w, l) /\ Given(w, "INFO") = kind
      /\ \A q \in LinkProps : q # "INFO" => Given(w, q) = Given(l, q)
  BY <1>3 DEF InfoSet
<1>7. \A b \in InfoBits : Given(w.info, b) = IF b = bit THEN id ELSE Given(l.info, b)
  BY <1>3, <1>4 DEF InfoSet, Given
<1>8. \A b \in InfoBits : Given(w.info, b) = [info EXCEPT ![bit] = id][b]
  BY <1>7 DEF LinkHas, SomeInfo
<1>9. LinkHas(w, e, kind, [info EXCEPT ![bit] = id])
  BY <1>5, <1>6, <1>8, LinkNames DEF LinkHas, SameFlags
<1> QED
  BY <1>9 DEF w, SomeInfo

(* A TUN device has none of the flags. *)
LEMMA TunNoneHas ==
    ASSUME NEW l, NEW e, NEW info, LinkHas(l, e, "tun", info), info[TunFlags] = NULL
    PROVE  LinkHas(WithTun(l, TunFlags, Zero), e, "tun", info)
<1> DEFINE w == WithTun(l, TunFlags, Zero)
<1>1. LinkSound(l) /\ LinkOwns(l) /\ KindAllows(l, "tun") /\ "tun" \in Kinds /\ TunFlags \in InfoBits
  BY KindNames DEF LinkHas, KindAllows
<1>2. InfoSet(w, l, "tun", TunFlags, Zero, FALSE)
  <2>1. InfoSet(w, l, "tun", TunFlags, Zero, Zero # Zero)
    BY <1>1, TunLink, LinkNames
  <2>2. (Zero # Zero) = FALSE
    OBVIOUS
  <2> QED
    BY <2>1, <2>2
<1> HIDE DEF w
<1>3. Keeps(l, "tun")
  BY <1>1, OwnKeeps
<1>4. LinkOwns(w)
  BY <1>1, <1>2, SetOwns, TunModeNames, KindNames
<1>5. /\ LinkSound(w) /\ SameFlags(w, l) /\ Given(w, "INFO") = "tun"
      /\ \A q \in LinkProps : q # "INFO" => Given(w, q) = Given(l, q)
  BY <1>2 DEF InfoSet
<1>6. \A b \in InfoBits : Given(w.info, b) = IF b = TunFlags THEN NULL ELSE Given(l.info, b)
  BY <1>2, <1>3 DEF InfoSet, Given
<1>7. \A b \in InfoBits : Given(w.info, b) = info[b]
  BY <1>6 DEF LinkHas
<1>8. LinkHas(w, e, "tun", info)
  BY <1>4, <1>5, <1>7, LinkNames DEF LinkHas, SameFlags
<1> QED
  BY <1>8 DEF w

(* What is read of an interface but for its structure. *)
LEMMA ScalarsHave ==
    ASSUME NEW e \in LinkEntries
    PROVE  \E l : LinkOf(e) = InfoOf(l, e) /\ LinkHas(l, e, NULL, [bit \in InfoBits |-> NULL])
<1> DEFINE none == [bit \in InfoBits |-> NULL]
           all == WithAllFlags(BlankLink, e.flags)
           mtu == Flag(all, "MTU", e.mtu)
           limit == Flag(mtu, "MTU_MIN", e.limit)
           l == IF e.parent = NULL THEN limit ELSE Flag(limit, "PARENT", e.parent)
<1>1. /\ e.flags \in SUBSET IfFlags /\ e.mtu \in Mtus /\ e.limit \in Mtus
      /\ e.parent \in Ids \cup {NULL}
  BY LinkEntryValues
<1>2. LinkOf(e) = InfoOf(l, e)
  BY DEF LinkOf
<1>3. /\ LinkSound(all) /\ LinkOwns(all) /\ "FLAGS" \in all.props /\ all.flags = e.flags
      /\ all.mask = IfFlags /\ Given(all, "PARENT") = NULL /\ Given(all, "INFO") = NULL
      /\ \A bit \in InfoBits : Given(all.info, bit) = NULL
  <2>1. LinkSound(BlankLink) /\ LinkOwns(BlankLink) /\ BlankLink.info = Blank(InfoBits)
        /\ Given(BlankLink, "PARENT") = NULL /\ Given(BlankLink, "INFO") = NULL
    BY BlankLinkSound, LinkNames
  <2>2. /\ LinkSound(all) /\ "FLAGS" \in all.props /\ all.flags = e.flags /\ all.mask = IfFlags
        /\ \A q \in LinkProps : q # "FLAGS" => Given(all, q) = Given(BlankLink, q)
        /\ all.info = BlankLink.info /\ (LinkOwns(BlankLink) => LinkOwns(all))
    BY <1>1, <2>1, AllFlagsLink
  <2> HIDE DEF all
  <2>3. Given(all, "PARENT") = NULL /\ Given(all, "INFO") = NULL
    BY <2>1, <2>2, LinkNames
  <2>4. \A bit \in InfoBits : Given(Blank(InfoBits), bit) = NULL
    BY DEF Blank, Given
  <2> QED
    BY <2>1, <2>2, <2>3, <2>4
<1> HIDE DEF all
<1>4. /\ LinkSound(mtu) /\ LinkOwns(mtu) /\ "FLAGS" \in mtu.props /\ mtu.flags = e.flags
      /\ mtu.mask = IfFlags /\ Given(mtu, "MTU") = e.mtu /\ Given(mtu, "PARENT") = NULL
      /\ Given(mtu, "INFO") = NULL /\ mtu.info = all.info
  <2>0. LinkSound(all) /\ "MTU" \in {"MTU", "MTU_MIN", "PARENT"} /\ e.mtu \in Ids \cup Mtus
    BY <1>1, <1>3
  <2>1. /\ LinkSound(mtu) /\ SameFlags(mtu, all) /\ Given(mtu, "MTU") = e.mtu
        /\ \A q \in LinkProps : q # "MTU" => Given(mtu, q) = Given(all, q)
        /\ mtu.info = all.info /\ (LinkOwns(all) => LinkOwns(mtu))
    BY <2>0, ScalarLink
  <2> HIDE DEF mtu
  <2>2. Given(mtu, "PARENT") = NULL /\ Given(mtu, "INFO") = NULL
    BY <1>3, <2>1, LinkNames
  <2> QED
    BY <1>3, <2>1, <2>2 DEF SameFlags
<1> HIDE DEF mtu
<1>6. /\ LinkSound(limit) /\ LinkOwns(limit) /\ "FLAGS" \in limit.props /\ limit.flags = e.flags
      /\ limit.mask = IfFlags /\ Given(limit, "MTU") = e.mtu /\ Given(limit, "MTU_MIN") = e.limit
      /\ Given(limit, "PARENT") = NULL /\ Given(limit, "INFO") = NULL /\ limit.info = all.info
  <2>0. LinkSound(mtu) /\ "MTU_MIN" \in {"MTU", "MTU_MIN", "PARENT"} /\ e.limit \in Ids \cup Mtus
    BY <1>1, <1>4
  <2>1. /\ LinkSound(limit) /\ SameFlags(limit, mtu) /\ Given(limit, "MTU_MIN") = e.limit
        /\ \A q \in LinkProps : q # "MTU_MIN" => Given(limit, q) = Given(mtu, q)
        /\ limit.info = mtu.info /\ (LinkOwns(mtu) => LinkOwns(limit))
    BY <2>0, ScalarLink
  <2> HIDE DEF limit
  <2>2. /\ Given(limit, "MTU") = e.mtu /\ Given(limit, "PARENT") = NULL
        /\ Given(limit, "INFO") = NULL
    BY <1>4, <2>1, LinkNames
  <2> QED
    BY <1>4, <2>1, <2>2 DEF SameFlags
<1> HIDE DEF limit
<1>7. LinkHas(l, e, NULL, none)
  <2>1. CASE e.parent = NULL
    BY <1>3, <1>6, <2>1 DEF LinkHas
  <2>2. CASE e.parent # NULL
    <3> DEFINE f == Flag(limit, "PARENT", e.parent)
    <3>1. e.parent \in Ids
      BY <1>1, <2>2
    <3>2. /\ LinkSound(f) /\ SameFlags(f, limit) /\ Given(f, "PARENT") = e.parent
          /\ \A q \in LinkProps : q # "PARENT" => Given(f, q) = Given(limit, q)
          /\ f.info = limit.info /\ (LinkOwns(limit) => LinkOwns(f))
      BY <1>6, <3>1, ScalarLink
    <3> HIDE DEF f
    <3>3. LinkHas(f, e, NULL, none)
      BY <1>3, <1>6, <3>2, LinkNames DEF LinkHas, SameFlags
    <3> QED
      BY <2>2, <3>3 DEF f
  <2> QED
    BY <2>1, <2>2
<1> HIDE DEF l, none
<1> QED
  BY <1>2, <1>7 DEF none

(* What is read of an interface. *)
LEMMA LinkIsRead ==
    ASSUME NEW e \in LinkEntries
    PROVE  LinkHas(LinkOf(e), e, IF e.kind \in Kinds THEN e.kind ELSE NULL, ReadInfo(e))
<1> DEFINE none == [bit \in InfoBits |-> NULL]
<1>1. PICK l : LinkOf(e) = InfoOf(l, e) /\ LinkHas(l, e, NULL, none)
  BY ScalarsHave
<1>2. none \in SomeInfo /\ \A bit \in InfoBits : none[bit] = NULL
  BY DEF SomeInfo
<1>3. /\ e.parent \in Ids \cup {NULL}
      /\ \A bit \in InfoBits : e.info[bit] \in Reported(e.kind, bit)
      /\ e.kind = "xfrm" => e.parent = e.info[XfrmIfindex]
  BY LinkEntryValues
<1>4. ASSUME NEW info \in SomeInfo, \A bit \in InfoBits : info[bit] = ReadInfo(e)[bit]
      PROVE  info = ReadInfo(e)
  BY <1>4 DEF SomeInfo, ReadInfo
<1>5. /\ \A bit \in InfoBits : e.info[bit] = NULL => ReadInfo(e)[bit] = NULL
      /\ \A bit \in InfoBits : e.info[bit] = Zero => ReadInfo(e)[bit] = NULL
      /\ \A bit \in InfoBits : e.info[bit] \in Ids \cup TunModes => ReadInfo(e)[bit] = e.info[bit]
  BY LinkNames, TunModeNames DEF ReadInfo
<1> HIDE DEF none
<1>6. ASSUME e.kind \in Kinds, NEW bit \in InfoBits, bit \notin KindBits[e.kind]
      PROVE  ReadInfo(e)[bit] = NULL
  BY <1>3, <1>5, <1>6, ReportedValues
<1>7. CASE e.kind \notin Kinds
  <2>1. InfoOf(l, e) = l
    BY <1>7, KindNames DEF InfoOf
  <2>2. \A bit \in InfoBits : none[bit] = ReadInfo(e)[bit]
    BY <1>2, <1>3, <1>5, <1>7, ReportedValues
  <2>3. none = ReadInfo(e)
    BY <1>2, <1>4, <2>2
  <2> QED
    BY <1>1, <1>7, <2>1, <2>3
<1>8. CASE e.kind = "bridge"
  <2> DEFINE w == WithKind(l, "bridge")
  <2>1. InfoOf(l, e) = w
    BY <1>8 DEF InfoOf
  <2>2. \A bit \in InfoBits : none[bit] = ReadInfo(e)[bit]
    BY <1>2, <1>6, <1>8, KindNames
  <2>3. none = ReadInfo(e)
    BY <1>2, <1>4, <2>2
  <2>4. KindAllows(l, "bridge") /\ LinkSound(l) /\ LinkOwns(l) /\ "bridge" \in Kinds
    BY <1>1, KindNames DEF LinkHas, KindAllows
  <2>5. /\ LinkSound(w) /\ SameFlags(w, l) /\ Given(w, "INFO") = "bridge"
        /\ \A q \in LinkProps : q # "INFO" => Given(w, q) = Given(l, q)
        /\ Keeps(l, "bridge") => w.info = l.info
    BY <2>4, KindLink
  <2>6. Keeps(l, "bridge") /\ LinkOwns(w)
    BY <2>4, OwnKeeps, KindOwns
  <2> HIDE DEF w
  <2>7. LinkHas(w, e, "bridge", none)
    BY <1>1, <2>5, <2>6, LinkNames DEF LinkHas, SameFlags
  <2> QED
    BY <1>1, <1>8, <2>1, <2>3, <2>7, KindNames
<1>9. CASE e.kind = "vlan"
  <2> DEFINE i == [none EXCEPT ![VlanId] = e.info[VlanId]]
  <2>1. InfoOf(l, e) = WithInfo(l, "vlan", VlanId, e.info[VlanId])
    BY <1>9 DEF InfoOf, VlanOf
  <2>2. VlanId \in InfoBits /\ "vlan" \in Kinds /\ VlanId \in KindBits["vlan"]
    BY KindNames
  <2>3. e.info[VlanId] \in Ids
    BY <1>3, <1>9, <2>2, ReportedValues
  <2>4. LinkHas(WithInfo(l, "vlan", VlanId, e.info[VlanId]), e, "vlan", i) /\ i \in SomeInfo
    BY <1>1, <1>2, <2>2, <2>3, InfoHas
  <2>5. \A bit \in InfoBits : i[bit] = IF bit = VlanId THEN e.info[VlanId] ELSE NULL
    BY <1>2 DEF SomeInfo
  <2> HIDE DEF i
  <2>6. \A bit \in InfoBits : i[bit] = ReadInfo(e)[bit]
    BY <1>5, <1>6, <1>9, <2>2, <2>3, <2>5, KindNames
  <2>7. i = ReadInfo(e)
    BY <1>4, <2>4, <2>6
  <2> QED
    BY <1>1, <1>9, <2>1, <2>2, <2>4, <2>7
<1>10. CASE e.kind = "xfrm"
  <2> DEFINE i == [none EXCEPT ![XfrmIfindex] = e.info[XfrmIfindex]]
             j == [i EXCEPT ![XfrmId] = e.info[XfrmId]]
             w == WithInfo(l, "xfrm", XfrmIfindex, e.info[XfrmIfindex])
  <2>1. /\ XfrmIfindex \in InfoBits /\ XfrmId \in InfoBits /\ "xfrm" \in Kinds
        /\ XfrmIfindex \in KindBits["xfrm"] /\ XfrmId \in KindBits["xfrm"]
    BY KindNames
  <2>2. e.info[XfrmIfindex] \in Ids /\ e.info[XfrmId] \in Ids
    BY <1>3, <1>10, <2>1, ReportedValues
  <2>3. "PARENT" \in l.props
    BY <1>1, <1>3, <1>10, <2>2, LinkNames DEF LinkHas, Given
  <2>4. InfoOf(l, e) = WithInfo(WithXfrmIfindex(l, e.info[XfrmIfindex]), "xfrm", XfrmId, e.info[XfrmId])
    BY <1>10 DEF InfoOf, XfrmOf
  <2>5. WithXfrmIfindex(l, e.info[XfrmIfindex]) = w
    BY <2>3 DEF WithXfrmIfindex
  <2>6. LinkHas(w, e, "xfrm", i) /\ i \in SomeInfo
    BY <1>1, <1>2, <2>1, <2>2, InfoHas
  <2>7. \A bit \in InfoBits : i[bit] = IF bit = XfrmIfindex THEN e.info[XfrmIfindex] ELSE NULL
    BY <1>2 DEF SomeInfo
  <2> HIDE DEF w, i
  <2>8. LinkHas(WithInfo(w, "xfrm", XfrmId, e.info[XfrmId]), e, "xfrm", j) /\ j \in SomeInfo
    BY <2>1, <2>2, <2>6, InfoHas
  <2>9. \A bit \in InfoBits : j[bit] = IF bit = XfrmId THEN e.info[XfrmId] ELSE i[bit]
    BY <2>6 DEF SomeInfo
  <2> HIDE DEF j
  <2>10. \A bit \in InfoBits : j[bit] = ReadInfo(e)[bit]
    <3> SUFFICES ASSUME NEW bit \in InfoBits PROVE j[bit] = ReadInfo(e)[bit]
      OBVIOUS
    <3>1. CASE bit = XfrmId
      BY <1>5, <2>1, <2>2, <2>9, <3>1
    <3>2. CASE bit = XfrmIfindex
      BY <1>5, <2>1, <2>2, <2>7, <2>9, <3>2 DEF XfrmIfindex, XfrmId
    <3>3. CASE bit \notin {XfrmId, XfrmIfindex}
      BY <1>6, <1>10, <2>1, <2>7, <2>9, <3>3, KindNames
    <3> QED
      BY <3>1, <3>2, <3>3
  <2>11. j = ReadInfo(e)
    BY <1>4, <2>8, <2>10
  <2> QED
    BY <1>1, <1>10, <2>1, <2>4, <2>5, <2>8, <2>11
<1>11. CASE e.kind = "tun"
  <2> DEFINE Owner(m, bit) == IF e.info[bit] = NULL THEN m ELSE WithInfo(m, "tun", bit, e.info[bit])
             t == WithInfo(l, "tun", TunType, e.info[TunType])
             u == Owner(t, TunUid)
             g == Owner(u, TunGid)
             i == [none EXCEPT ![TunType] = e.info[TunType]]
             j == [i EXCEPT ![TunUid] = e.info[TunUid]]
             k == [j EXCEPT ![TunGid] = e.info[TunGid]]
  <2>1. /\ TunType \in InfoBits /\ TunFlags \in InfoBits /\ TunUid \in InfoBits
        /\ TunGid \in InfoBits /\ "tun" \in Kinds
        /\ KindBits["tun"] = {TunType, TunFlags, TunUid, TunGid}
    BY KindNames
  <2>2. /\ e.info[TunType] \in Ids /\ e.info[TunFlags] \in TunModes \cup {Zero}
        /\ e.info[TunUid] \in Ids \cup {NULL} /\ e.info[TunGid] \in Ids \cup {NULL}
    BY <1>3, <1>11, <2>1, ReportedTun
  <2>3. InfoOf(l, e) = WithTun(g, TunFlags, e.info[TunFlags])
    <3>1. InfoOf(l, e) = TunOf(l, e)
      BY <1>11 DEF InfoOf
    <3>2. WithTun(l, TunType, e.info[TunType]) = t
      BY <2>2, LinkNames DEF WithTun
    <3> HIDE DEF t
    <3> QED
      BY <3>1, <3>2 DEF TunOf
  <2>4. LinkHas(t, e, "tun", i) /\ i \in SomeInfo
    BY <1>1, <1>2, <2>1, <2>2, InfoHas
  <2>5. \A bit \in InfoBits : i[bit] = IF bit = TunType THEN e.info[TunType] ELSE NULL
    BY <1>2 DEF SomeInfo
  <2> HIDE DEF t, i
  <2>6. ASSUME NEW m, NEW info \in SomeInfo, LinkHas(m, e, "tun", info),
               NEW bit \in {TunUid, TunGid}, info[bit] = NULL
        PROVE  /\ LinkHas(Owner(m, bit), e, "tun", [info EXCEPT ![bit] = e.info[bit]])
               /\ [info EXCEPT ![bit] = e.info[bit]] \in SomeInfo
    <3>1. bit \in InfoBits /\ bit \in KindBits["tun"]
      BY <2>1
    <3>2. CASE e.info[bit] = NULL
      <4>1. [info EXCEPT ![bit] = e.info[bit]] = info
        BY <2>6, <3>2 DEF SomeInfo
      <4> QED
        BY <2>6, <3>2, <4>1
    <3>3. CASE e.info[bit] # NULL
      <4>1. e.info[bit] \in Ids
        BY <2>2, <3>3
      <4> QED
        BY <2>1, <2>6, <3>1, <3>3, <4>1, InfoHas
    <3> QED
      BY <3>2, <3>3
  <2>7. LinkHas(u, e, "tun", j) /\ j \in SomeInfo
    BY <2>4, <2>5, <2>6, <2>1 DEF TunType, TunUid
  <2>8. \A bit \in InfoBits : j[bit] = IF bit = TunUid THEN e.info[TunUid] ELSE i[bit]
    BY <2>4 DEF SomeInfo
  <2> HIDE DEF u, j
  <2>9. LinkHas(g, e, "tun", k) /\ k \in SomeInfo
    <3>1. j[TunGid] = NULL
      BY <2>1, <2>5, <2>8 DEF TunType, TunUid, TunGid
    <3> QED
      BY <2>6, <2>7, <3>1
  <2>10. \A bit \in InfoBits : k[bit] = IF bit = TunGid THEN e.info[TunGid] ELSE j[bit]
    BY <2>7 DEF SomeInfo
  <2> HIDE DEF g, k, Owner
  <2>11. \A bit \in InfoBits : bit # TunFlags => k[bit] = ReadInfo(e)[bit]
    <3> SUFFICES ASSUME NEW bit \in InfoBits, bit # TunFlags PROVE k[bit] = ReadInfo(e)[bit]
      OBVIOUS
    <3>1. CASE bit = TunType
      <4>1. k[bit] = e.info[TunType]
        BY <2>5, <2>8, <2>10, <3>1 DEF TunType, TunUid, TunGid
      <4> QED
        BY <1>5, <2>1, <2>2, <3>1, <4>1
    <3>2. CASE bit \in {TunUid, TunGid}
      <4>1. k[bit] = e.info[bit]
        BY <2>8, <2>10, <3>2 DEF TunUid, TunGid
      <4> QED
        BY <1>5, <2>1, <2>2, <3>2, <4>1
    <3>3. CASE bit \notin {TunType, TunUid, TunGid}
      <4>1. k[bit] = NULL
        BY <2>5, <2>8, <2>10, <3>3
      <4> QED
        BY <1>6, <1>11, <2>1, <3>3, <4>1
    <3> QED
      BY <3>1, <3>2, <3>3
  <2>12. k[TunFlags] = NULL
    BY <2>1, <2>5, <2>8, <2>10 DEF TunType, TunUid, TunGid, TunFlags
  <2>13. CASE e.info[TunFlags] = Zero
    <3>1. \A bit \in InfoBits : k[bit] = ReadInfo(e)[bit]
      BY <1>5, <2>1, <2>11, <2>12, <2>13
    <3>2. k = ReadInfo(e)
      BY <1>4, <2>9, <3>1
    <3>3. LinkHas(WithTun(g, TunFlags, Zero), e, "tun", k)
      BY <2>9, <2>12, TunNoneHas
    <3> QED
      BY <1>1, <1>11, <2>1, <2>3, <2>13, <3>2, <3>3
  <2>14. CASE e.info[TunFlags] # Zero
    <3> DEFINE n == [k EXCEPT ![TunFlags] = e.info[TunFlags]]
    <3>1. e.info[TunFlags] \in TunModes
      BY <2>2, <2>14
    <3>2. WithTun(g, TunFlags, e.info[TunFlags]) = WithInfo(g, "tun", TunFlags, e.info[TunFlags])
      BY <2>14 DEF WithTun
    <3>3. LinkHas(WithInfo(g, "tun", TunFlags, e.info[TunFlags]), e, "tun", n) /\ n \in SomeInfo
      BY <2>1, <2>9, <3>1, InfoHas
    <3>4. \A bit \in InfoBits : n[bit] = IF bit = TunFlags THEN e.info[TunFlags] ELSE k[bit]
      BY <2>9 DEF SomeInfo
    <3> HIDE DEF n
    <3>5. \A bit \in InfoBits : n[bit] = ReadInfo(e)[bit]
      BY <1>5, <2>1, <2>11, <3>1, <3>4
    <3>6. n = ReadInfo(e)
      BY <1>4, <3>3, <3>5
    <3> QED
      BY <1>1, <1>11, <2>1, <2>3, <3>2, <3>3, <3>6
  <2> QED
    BY <2>13, <2>14
<1> QED
  BY <1>7, <1>8, <1>9, <1>10, <1>11 DEF Kinds

LEMMA LinkFlagsInv ==
    ASSUME LinkInv, link # NULL, NEW l, LinkSound(l), link' = l, LinkOwns(link) => LinkOwns(l),
           linkLeft' \in SUBSET linkLeft, "INFO" \in linkLeft => "INFO" \in linkLeft',
           FlagsAre(l, linkAsked', linkLeft')
    PROVE  LinkInv'
<1>1. l # NULL
  BY LinkNames DEF LinkSound
<1>2. "INFO" \notin linkLeft' => LinkOwns(l)
  BY DEF LinkInv
<1>3. linkLeft' \in SUBSET {"FLAGS", "INFO"}
  BY DEF LinkInv
<1> QED
  BY <1>1, <1>2, <1>3 DEF LinkInv, LinkSound, LinkOwns, FlagsAre

LEMMA LinkSetFlagsInv == ASSUME LinkInv, LinkSetFlags PROVE LinkInv'
<1>1. PICK flags \in SUBSET IfFlags :
          /\ link' = WithAllFlags(link, flags)
          /\ linkAsked' = [f \in IfFlags |-> IF f \in flags THEN "on" ELSE "off"]
  BY DEF LinkSetFlags
<1> DEFINE w == WithAllFlags(link, flags)
<1>2. link # NULL /\ LinkSound(link) /\ linkLeft' = linkLeft \ {"FLAGS"}
  BY DEF LinkSetFlags, LinkInv
<1>3. /\ LinkSound(w) /\ "FLAGS" \in w.props /\ w.flags = flags /\ w.mask = IfFlags
      /\ LinkOwns(link) => LinkOwns(w)
  BY <1>2, AllFlagsLink
<1>4. link' = w
  BY <1>1
<1> HIDE DEF w
<1>5. FlagsAre(w, linkAsked', linkLeft')
  BY <1>1, <1>3, LinkNames DEF FlagsAre
<1> QED
  BY <1>2, <1>3, <1>4, <1>5, LinkFlagsInv

LEMMA LinkSwitchInv == ASSUME LinkInv, LinkSwitchFlags PROVE LinkInv'
<1>1. PICK flags \in (SUBSET IfFlags) \ {{}}, on \in BOOLEAN :
          /\ link' = WithFlags(link, flags, on)
          /\ linkAsked' = [f \in IfFlags |-> IF f \notin flags THEN linkAsked[f]
                                             ELSE IF on THEN "on" ELSE "off"]
  BY DEF LinkSwitchFlags
<1> DEFINE w == WithFlags(link, flags, on)
<1>2. link # NULL /\ LinkSound(link) /\ FlagsAre(link, linkAsked, linkLeft) /\ linkLeft' = linkLeft
  BY DEF LinkSwitchFlags, LinkInv
<1>3. /\ LinkSound(w) /\ "FLAGS" \in w.props
      /\ w.flags = IF on THEN link.flags \cup flags ELSE link.flags \ flags
      /\ w.mask = link.mask \cup flags
      /\ LinkOwns(link) => LinkOwns(w)
  <2>1. link \in Links /\ flags \in SUBSET IfFlags
    BY <1>2 DEF LinkSound
  <2>2. /\ w \in Links /\ w.props = link.props \cup {"FLAGS"} /\ w.val = link.val
        /\ w.flags = IF on THEN link.flags \cup flags ELSE link.flags \ flags
        /\ w.mask = link.mask \cup flags /\ w.info = link.info
    BY <2>1, LinkNames DEF Links, WithFlags
  <2> HIDE DEF w
  <2>3. LinkSound(w) /\ (LinkOwns(link) => LinkOwns(w))
    BY <1>2, <2>2 DEF LinkSound, LinkOwns
  <2> QED
    BY <2>2, <2>3
<1>4. link' = w
  BY <1>1
<1> HIDE DEF w
<1>5. linkAsked' \in [IfFlags -> {"on", "off", NULL}]
  BY <1>1, <1>2 DEF FlagsAre
<1>6. ASSUME NEW f \in IfFlags
      PROVE  /\ linkAsked'[f] # NULL => f \in w.mask /\ (f \in w.flags <=> linkAsked'[f] = "on")
             /\ "FLAGS" \notin linkLeft /\ linkAsked'[f] = NULL => f \notin w.mask /\ f \notin w.flags
  <2>1. CASE f \in flags
    <3>1. linkAsked'[f] = IF on THEN "on" ELSE "off"
      BY <1>1, <2>1
    <3>2. f \in w.mask /\ (f \in w.flags <=> on)
      BY <1>3, <2>1
    <3> QED
      BY <3>1, <3>2, LinkNames
  <2>2. CASE f \notin flags
    <3>1. linkAsked'[f] = linkAsked[f]
      BY <1>1, <2>2
    <3>2. (f \in w.mask <=> f \in link.mask) /\ (f \in w.flags <=> f \in link.flags)
      BY <1>3, <2>2
    <3> QED
      BY <1>2, <3>1, <3>2 DEF FlagsAre
  <2> QED
    BY <2>1, <2>2
<1>7. FlagsAre(w, linkAsked', linkLeft')
  BY <1>2, <1>3, <1>5, <1>6 DEF FlagsAre
<1> QED
  BY <1>2, <1>3, <1>4, <1>7, LinkFlagsInv

LEMMA LinkReadInv == ASSUME LinkInv, LinkRead PROVE LinkInv'
<1>1. PICK e \in LinkEntries :
          /\ link' = LinkOf(e)
          /\ linkAsked' = [f \in IfFlags |-> IF f \in e.flags THEN "on" ELSE "off"]
  BY DEF LinkRead
<1>2. /\ LinkSound(LinkOf(e)) /\ LinkOwns(LinkOf(e)) /\ "FLAGS" \in LinkOf(e).props
      /\ LinkOf(e).flags = e.flags /\ LinkOf(e).mask = IfFlags
  BY LinkIsRead DEF LinkHas
<1>3. LinkOf(e) # NULL
  BY <1>2, LinkNames DEF LinkSound
<1>4. linkLeft' = {}
  BY DEF LinkRead
<1>5. FlagsAre(LinkOf(e), linkAsked', {})
  BY <1>1, <1>2, LinkNames DEF FlagsAre
<1> QED
  BY <1>1, <1>2, <1>3, <1>4, <1>5 DEF LinkInv, LinkSound, LinkOwns, FlagsAre

(* A setter of a kind's property. *)
LEMMA InfoBecomesInv ==
    ASSUME LinkInv, link # NULL, NEW kind \in Kinds, KindAllows(link, kind),
           NEW bit \in KindBits[kind], NEW value \in Ids, LinkBecomes(WithInfo(link, kind, bit, value))
    PROVE  LinkInv'
<1> DEFINE w == WithInfo(link, kind, bit, value)
<1>1. LinkSound(link) /\ bit \in InfoBits /\ value \in InfoValues /\ value # Foreign
  BY KindBitsTyped, LinkNames DEF LinkInv
<1>2. InfoSet(w, link, kind, bit, value, TRUE)
  BY <1>1, InfoLink
<1> HIDE DEF w
<1>3. LinkSound(w) /\ SameFlags(w, link)
  BY <1>2 DEF InfoSet
<1>4. LinkOwns(link) => LinkOwns(w)
  BY <1>1, <1>2, SetOwns
<1>5. LinkBecomes(w)
  BY DEF w
<1> QED
  BY <1>3, <1>4, <1>5, LinkBecomesInv

(* The same for the type and the flags of a TUN device. *)
LEMMA TunBecomesInv ==
    ASSUME LinkInv, link # NULL, KindAllows(link, "tun"), NEW bit \in {TunType, TunFlags},
           NEW value \in Ids \cup TunModes \cup {Zero}, LinkBecomes(WithTun(link, bit, value))
    PROVE  LinkInv'
<1> DEFINE w == WithTun(link, bit, value)
<1>1. /\ LinkSound(link) /\ bit \in InfoBits /\ bit \in KindBits["tun"] /\ "tun" \in Kinds
      /\ value \in InfoValues /\ value # Foreign
  BY KindNames, LinkNames, TunModeNames DEF LinkInv
<1>2. InfoSet(w, link, "tun", bit, value, value # Zero)
  BY <1>1, TunLink
<1> HIDE DEF w
<1>3. LinkSound(w) /\ SameFlags(w, link)
  BY <1>2 DEF InfoSet
<1>4. LinkOwns(link) => LinkOwns(w)
  <2>1. (value # Zero) \in BOOLEAN
    OBVIOUS
  <2> QED
    BY <1>1, <1>2, <2>1, SetOwns
<1>5. LinkBecomes(w)
  BY DEF w
<1> QED
  BY <1>3, <1>4, <1>5, LinkBecomesInv

(* The same for the interface of an xfrm interface, with its parent. *)
LEMMA XfrmBecomesInv ==
    ASSUME LinkInv, link # NULL, KindAllows(link, "xfrm"), NEW id \in Ids,
           LinkBecomes(WithXfrmIfindex(link, id))
    PROVE  LinkInv'
<1> DEFINE x == WithInfo(link, "xfrm", XfrmIfindex, id)
           y == Flag(x, "PARENT", id)
<1>1. /\ LinkSound(link) /\ XfrmIfindex \in InfoBits /\ XfrmIfindex \in KindBits["xfrm"]
      /\ "xfrm" \in Kinds /\ id \in InfoValues /\ id # Foreign
  BY KindNames, LinkNames DEF LinkInv
<1>2. InfoSet(x, link, "xfrm", XfrmIfindex, id, TRUE)
  BY <1>1, InfoLink
<1>3. LinkBecomes(x) \/ LinkBecomes(y)
  BY DEF WithXfrmIfindex
<1> HIDE DEF x
<1>4. LinkSound(x) /\ SameFlags(x, link)
  BY <1>2 DEF InfoSet
<1>5. LinkOwns(link) => LinkOwns(x)
  BY <1>1, <1>2, SetOwns
<1>6. LinkSound(y) /\ SameFlags(y, x) /\ (LinkOwns(x) => LinkOwns(y))
  <2>1. "PARENT" \in {"MTU", "MTU_MIN", "PARENT"} /\ id \in Ids \cup Mtus
    OBVIOUS
  <2> QED
    BY <1>4, <2>1, ScalarLink
<1> HIDE DEF y
<1>7. SameFlags(y, link)
  BY <1>4, <1>6 DEF SameFlags
<1> QED
  BY <1>3, <1>4, <1>5, <1>6, <1>7, LinkBecomesInv

LEMMA LinkInvNext == ASSUME LinkInv, LinkNext PROVE LinkInv'
<1>1. link # NULL => LinkSound(link)
  BY DEF LinkInv
<1>2. CASE LinkNew
  <2>1. BlankLink # NULL
    BY BlankLinkSound, LinkNames DEF LinkSound
  <2> QED
    BY <1>2, <2>1, BlankLinkSound DEF LinkNew, LinkInv, LinkSound, LinkOwns, FlagsAre
<1>3. CASE LinkSetFlags
  BY <1>3, LinkSetFlagsInv
<1>4. CASE LinkSwitchFlags
  BY <1>4, LinkSwitchInv
<1>5. CASE LinkSetScalar
  <2>1. ASSUME NEW prop \in {"MTU", "MTU_MIN", "PARENT"}, NEW id \in Ids \cup Mtus,
               LinkBecomes(Flag(link, prop, id))
        PROVE  LinkInv'
    <3>1. link # NULL /\ LinkSound(link)
      BY <1>1, <1>5 DEF LinkSetScalar
    <3>2. /\ LinkSound(Flag(link, prop, id)) /\ SameFlags(Flag(link, prop, id), link)
          /\ LinkOwns(link) => LinkOwns(Flag(link, prop, id))
      BY <3>1, ScalarLink
    <3> QED
      BY <2>1, <3>1, <3>2, LinkBecomesInv
  <2> QED
    BY <1>5, <2>1 DEF LinkSetScalar
<1>6. CASE LinkSetKind
  <2>1. PICK kind \in Kinds : KindAllows(link, kind) /\ LinkBecomes(WithKind(link, kind))
    BY <1>6 DEF LinkSetKind
  <2>2. link # NULL /\ LinkSound(link)
    BY <1>1, <1>6 DEF LinkSetKind
  <2>3. LinkSound(WithKind(link, kind)) /\ SameFlags(WithKind(link, kind), link)
    BY <2>2, KindLink
  <2>4. LinkOwns(link) => LinkOwns(WithKind(link, kind))
    BY <2>1, <2>2, KindOwns
  <2> QED
    BY <2>1, <2>2, <2>3, <2>4, LinkBecomesInv
<1>7. CASE LinkSetVlan
  BY <1>7, InfoBecomesInv, KindNames DEF LinkSetVlan
<1>8. CASE LinkSetXfrm
  BY <1>8, InfoBecomesInv, XfrmBecomesInv, KindNames DEF LinkSetXfrm
<1>9. CASE LinkSetTun
  <2>1. link # NULL /\ KindAllows(link, "tun")
    BY <1>9 DEF LinkSetTun
  <2>2. CASE \E type \in Ids \cup {Zero} : LinkBecomes(WithTun(link, TunType, type))
    BY <2>1, <2>2, TunBecomesInv
  <2>3. CASE \E mode \in TunModes \cup {Zero} : LinkBecomes(WithTun(link, TunFlags, mode))
    BY <2>1, <2>3, TunBecomesInv
  <2>4. CASE \E id \in Ids, bit \in {TunUid, TunGid} : LinkBecomes(WithInfo(link, "tun", bit, id))
    BY <2>1, <2>4, InfoBecomesInv, KindNames
  <2> QED
    BY <1>9, <2>2, <2>3, <2>4 DEF LinkSetTun
<1>10. CASE LinkClone
  BY <1>10, LinkCloneInv
<1>11. CASE LinkFree
  BY <1>11 DEF LinkFree, LinkInv
<1>12. CASE LinkRead
  BY <1>12, LinkReadInv
<1> QED
  BY <1>2, <1>3, <1>4, <1>5, <1>6, <1>7, <1>8, <1>9, <1>10, <1>11, <1>12 DEF LinkNext

(* The invariant of the interfaces is inductive, whatever the filters of   *)
(* clones leave out: what the filters have left is part of it.             *)
THEOREM LinkInvariance == LinkSpec => []LinkInv
<1>1. LinkInit => LinkInv
  BY DEF LinkInit, LinkInv
<1>2. LinkInv /\ UNCHANGED linkVars => LinkInv'
  BY DEF linkVars, LinkInv, LinkSound, LinkOwns, FlagsAre
<1>3. LinkInv /\ [LinkNext]_linkVars => LinkInv'
  BY <1>2, LinkInvNext
<1> QED
  BY <1>1, <1>3, PTL DEF LinkSpec

(* Every variable keeps its type, whatever setters, clones and reads make  *)
(* of an interface (link.c).                                               *)
THEOREM LinkTyped == LinkSpec => []LinkTypeOK
<1>1. LinkInv => LinkTypeOK
  BY DEF LinkInv, LinkSound, FlagsAre, LinkTypeOK, NothingAsked
<1> QED
  BY <1>1, LinkInvariance, PTL

(* mnlxt_rt_link_put() asks the kernel for the flags its caller has asked  *)
(* for, for any set of flags and any sequence of calls and clones; and for *)
(* no others as long as no clone's filter has left FLAGS out.              *)
THEOREM FlagsAsAsked == LinkSpec => []LinkFlagsAsAsked
<1>1. ASSUME LinkInv, link # NULL
      PROVE  \A f \in IfFlags :
                IF linkAsked[f] # NULL
                THEN /\ f \in LinkMessage(link).change
                     /\ f \in LinkMessage(link).flags <=> linkAsked[f] = "on"
                ELSE "FLAGS" \notin linkLeft =>
                        f \notin LinkMessage(link).change \cup LinkMessage(link).flags
  <2>1. FlagsAre(link, linkAsked, linkLeft)
    BY <1>1 DEF LinkInv
  <2>2. /\ LinkMessage(link).flags = IF "FLAGS" \in link.props THEN link.flags ELSE {}
        /\ LinkMessage(link).change = IF "FLAGS" \in link.props THEN link.mask ELSE {}
    BY DEF LinkMessage
  <2> QED
    BY <2>1, <2>2 DEF FlagsAre
<1>2. LinkInv => LinkFlagsAsAsked
  BY <1>1 DEF LinkFlagsAsAsked
<1> QED
  BY <1>2, LinkInvariance, PTL

(* The union of an interface holds what was set for its one kind, however  *)
(* the setters of the kinds are called (link_vlan.c, link_xfrm.c,          *)
(* link_tun.c), as long as no clone's filter has left INFO out.            *)
THEOREM InfoIsOwn == LinkSpec => []LinkInfoOwn
<1>1. LinkInv => LinkInfoOwn
  BY DEF LinkInv, LinkOwns, LinkInfoOwn
<1> QED
  BY <1>1, LinkInvariance, PTL

(* A property that two structures have alike compares as equal. *)
LEMMA SameInfoBit ==
    ASSUME NEW l, NEW m, LinkSound(l), LinkSound(m), NEW bit \in InfoBits,
           Given(l.info, bit) = Given(m.info, bit),
           l.info.val[bit] # Foreign, m.info.val[bit] # Foreign
    PROVE  /\ bit \in l.info.props <=> bit \in m.info.props
           /\ l.info.val[bit] = m.info.val[bit]
<1>1. l.info.val[bit] # NULL /\ m.info.val[bit] # NULL
  <2>1. l.info \in Infos /\ m.info \in Infos
    BY LinkParts DEF LinkSound
  <2>2. l.info.val \in [InfoBits -> InfoValues] /\ m.info.val \in [InfoBits -> InfoValues]
    BY <2>1, InfoParts
  <2> QED
    BY <2>2, LinkNames
<1>2. bit \in l.info.props <=> bit \in m.info.props
  BY <1>1 DEF Given
<1>3. CASE bit \in l.info.props
  BY <1>2, <1>3 DEF Given
<1>4. CASE bit \notin l.info.props
  BY <1>2, <1>4 DEF LinkSound
<1> QED
  BY <1>2, <1>3, <1>4

(* The structure of an interface that the kernel has made of an object is  *)
(* the object's, but for the flags of a TUN device that asks for none.     *)
LEMMA MadeInfo ==
    ASSUME LinkInv, link # NULL, LinkKept(link), NEW e \in LinkEntries,
           LinkMadeOf(e, LinkMessage(link)), "INFO" \in link.props,
           NEW bit \in KindBits[link.val["INFO"]], bit = TunFlags => bit \in link.info.props
    PROVE  ReadInfo(e)[bit] = Given(link.info, bit)
<1> DEFINE m == LinkMessage(link)
<1>1. LinkSound(link) /\ link.val["INFO"] \in Kinds /\ bit \in InfoBits
  BY KindBitsTyped DEF LinkInv, LinkSound
<1>2. m.kind = link.val["INFO"] /\ \A b \in KindBits[m.kind] : b \in InfoBits => m.info[b] = Given(link.info, b)
  BY DEF LinkMessage, InfoMessage, Given
<1>3. /\ m.kind \in {NULL, e.kind}
      /\ m.kind \in Kinds \ {"tun"} => e.info = m.info
      /\ m.kind = "tun" => /\ \A b \in InfoBits \ {TunFlags} : e.info[b] = m.info[b]
                           /\ e.info[TunFlags] \in DeviceFlags(m.info[TunFlags])
  BY DEF LinkMadeOf
<1> HIDE DEF m
<1>4. e.kind = link.val["INFO"] /\ m.kind = e.kind /\ e.kind \in Kinds
  BY <1>1, <1>2, <1>3, LinkNames
<1>5. e.info[bit] \in Reported(e.kind, bit)
  BY <1>1, LinkEntryValues
<1>6. e.info[bit] # Zero => ReadInfo(e)[bit] = e.info[bit]
  BY <1>1 DEF ReadInfo
<1>7. CASE e.kind # "tun"
  <2>1. e.info[bit] \in Ids
    BY <1>1, <1>4, <1>5, <1>7, ReportedValues
  <2>2. e.info[bit] = Given(link.info, bit)
    BY <1>1, <1>2, <1>3, <1>4, <1>7
  <2> QED
    BY <1>6, <2>1, <2>2, LinkNames
<1>8. CASE e.kind = "tun" /\ bit # TunFlags
  <2>1. bit \in {TunType, TunUid, TunGid}
    BY <1>4, <1>8, KindNames
  <2>2. e.info[bit] \in Ids \cup {NULL}
    BY <1>5, <1>8, <2>1, ReportedTun
  <2>3. e.info[bit] = Given(link.info, bit)
    BY <1>1, <1>2, <1>3, <1>4, <1>8
  <2> QED
    BY <1>6, <2>2, <2>3, LinkNames
<1>9. CASE e.kind = "tun" /\ bit = TunFlags
  <2> DEFINE asked == Given(link.info, TunFlags)
  <2>1. asked # NULL
    <3>1. link.info.val \in [InfoBits -> InfoValues]
      BY <1>1, LinkParts, InfoParts DEF LinkSound
    <3> QED
      BY <1>1, <1>9, <3>1, LinkNames DEF Given
  <2>2. Given(link, "INFO") = "tun"
    BY <1>4, <1>9 DEF Given
  <2>3. asked \in {"persist", "pi_persist"}
    BY <2>1, <2>2 DEF LinkKept
  <2>4. e.info[TunFlags] \in DeviceFlags(asked)
    BY <1>1, <1>2, <1>3, <1>4, <1>9
  <2> HIDE DEF asked
  <2>5. e.info[TunFlags] = asked /\ asked # Zero
    <3>1. asked \in TunModes
      BY <2>3 DEF TunModes
    <3>2. DeviceFlags(asked) = {asked}
      BY <2>3 DEF DeviceFlags
    <3> QED
      BY <2>4, <3>1, <3>2, TunModeNames
  <2> QED
    BY <1>6, <1>9, <2>5 DEF asked
<1> QED
  BY <1>7, <1>8, <1>9

(* What mnlxt_rt_link_put() writes of every kind of interface is what      *)
(* mnlxt_rt_link_data() reads and mnlxt_rt_link_match() compares, for any  *)
(* interface that setters, clones and reads lead to.                       *)
THEOREM LinkIsReadBack == LinkSpec => []LinkReadBack
<1>1. ASSUME LinkInv, link # NULL, LinkKept(link), NEW e \in LinkEntries,
             LinkMadeOf(e, LinkMessage(link)), Given(link, "MTU_MIN") \in {NULL, e.limit}
      PROVE  LinkMatches(LinkOf(e), link)
  <2> DEFINE m == LinkMessage(link)
             l == LinkOf(e)
  <2>1. LinkSound(link) /\ link.props \subseteq LinkProps
    BY <1>1, LinkParts DEF LinkInv, LinkSound
  <2>2. LinkHas(l, e, IF e.kind \in Kinds THEN e.kind ELSE NULL, ReadInfo(e))
    BY LinkIsRead
  <2>3. /\ m.kind = Given(link, "INFO") /\ m.mtu = Given(link, "MTU")
        /\ m.parent = Given(link, "PARENT")
        /\ "FLAGS" \in link.props => m.flags = link.flags /\ m.change = link.mask
    BY DEF LinkMessage
  <2>4. /\ m.kind \in {NULL, e.kind}
        /\ m.kind = "vlan" => e.parent = m.parent
        /\ m.mtu \in {NULL, e.mtu}
        /\ e.flags \cap m.change = m.flags \cap m.change
    BY <1>1 DEF LinkMadeOf
  <2>5. "INFO" \in link.props =>
            \A bit \in KindBits[link.val["INFO"]] :
                (bit = TunFlags => bit \in link.info.props) =>
                    ReadInfo(e)[bit] = Given(link.info, bit)
    BY <1>1, MadeInfo
  <2> HIDE DEF m, l
  <2>6. \A q \in link.props : Given(link, q) = link.val[q] /\ Given(link, q) # NULL
    BY <2>1, LinkParts, LinkNames DEF Given, LinkSound
  <2>7. "INFO" \in link.props =>
            e.kind \in Kinds /\ Given(link, "INFO") = e.kind /\ link.val["INFO"] = e.kind
    BY <2>1, <2>3, <2>4, <2>6 DEF LinkSound
  <2>8. "INFO" \in link.props => Given(l, "INFO") = Given(link, "INFO")
    BY <2>2, <2>7 DEF LinkHas
  <2>9. "MTU" \in link.props => Given(l, "MTU") = Given(link, "MTU")
    BY <2>2, <2>3, <2>4, <2>6 DEF LinkHas
  <2>10. "MTU_MIN" \in link.props => Given(l, "MTU_MIN") = Given(link, "MTU_MIN")
    BY <1>1, <2>2, <2>6 DEF LinkHas
  <2>11. "PARENT" \in link.props => Given(l, "PARENT") = Given(link, "PARENT")
    <3> SUFFICES ASSUME "PARENT" \in link.props
                 PROVE  Given(l, "PARENT") = Given(link, "PARENT")
      OBVIOUS
    <3>1. Given(l, "PARENT") = e.parent
      BY <2>2 DEF LinkHas
    <3>2. "INFO" \in link.props /\ Given(link, "INFO") \in {"vlan", "xfrm"}
      BY <1>1, LinkNames, KindNames DEF LinkKept, Given
    <3>3. CASE Given(link, "INFO") = "vlan"
      BY <2>3, <2>4, <3>1, <3>3
    <3>4. CASE Given(link, "INFO") = "xfrm"
      <4>1. e.kind = "xfrm" /\ link.val["INFO"] = "xfrm"
        BY <2>7, <3>2, <3>4
      <4>2. link.val["PARENT"] = link.info.val[XfrmIfindex]
        BY <1>1, <4>1 DEF LinkKept
      <4>3. e.parent = e.info[XfrmIfindex] /\ e.info[XfrmIfindex] \in Ids
        BY <4>1, LinkEntryValues, ReportedValues, KindNames
      <4>4. ReadInfo(e)[XfrmIfindex] = Given(link.info, XfrmIfindex)
        BY <2>5, <3>2, <4>1, KindNames DEF XfrmIfindex, TunFlags
      <4>5. ReadInfo(e)[XfrmIfindex] = e.info[XfrmIfindex]
        BY <4>3, KindNames, LinkNames DEF ReadInfo
      <4>6. Given(link.info, XfrmIfindex) = link.info.val[XfrmIfindex]
        BY <4>3, <4>4, <4>5, LinkNames DEF Given
      <4> QED
        BY <2>6, <3>1, <4>2, <4>3, <4>4, <4>5, <4>6
    <3> QED
      BY <3>2, <3>3, <3>4
  <2>12. Agree(l, link, link.props \ {"FLAGS"})
    <3>1. ASSUME NEW q \in link.props \ {"FLAGS"} PROVE Given(l, q) = Given(link, q)
      <4>1. q \in {"MTU", "MTU_MIN", "PARENT", "INFO"}
        BY <2>1 DEF LinkProps
      <4> QED
        BY <2>8, <2>9, <2>10, <2>11, <4>1
    <3> QED
      BY <3>1 DEF Agree
  <2>13. "FLAGS" \in link.props =>
            l.flags \cap l.mask \cap link.mask = link.flags \cap l.mask \cap link.mask
    <3>1. l.flags = e.flags
      BY <2>2 DEF LinkHas
    <3>2. "FLAGS" \in link.props => e.flags \cap link.mask = link.flags \cap link.mask
      BY <2>3, <2>4
    <3> QED
      BY <3>1, <3>2
  <2>14. LinksAgree(l, link, link.props)
    <3>1. "FLAGS" \in l.props
      BY <2>2 DEF LinkHas
    <3> QED
      BY <2>12, <2>13, <3>1 DEF LinksAgree
  <2>15. "INFO" \in link.props => InfosAgree(l, link, link.info.props)
    <3> SUFFICES ASSUME "INFO" \in link.props PROVE InfosAgree(l, link, link.info.props)
      OBVIOUS
    <3>1. LinkSound(l) /\ LinkOwns(l) /\ \A bit \in InfoBits : Given(l.info, bit) = ReadInfo(e)[bit]
      BY <2>2 DEF LinkHas
    <3>2. l.val["INFO"] = e.kind /\ link.val["INFO"] = e.kind /\ e.kind \in Kinds
      <4>1. Given(l, "INFO") = e.kind /\ e.kind # NULL
        BY <2>2, <2>7, LinkNames DEF LinkHas
      <4> QED
        BY <2>7, <4>1 DEF Given
    <3>3. \A bit \in KindBits[e.kind] : bit \in InfoBits
      BY <3>2, KindBitsTyped
    <3>4. \A bit \in KindBits[e.kind] : l.info.val[bit] # Foreign /\ link.info.val[bit] # Foreign
      BY <1>1, <3>1, <3>2, <3>3 DEF LinkOwns, LinkKept
    <3>5. ASSUME NEW bit \in KindBits[e.kind], bit = TunFlags => bit \in link.info.props
          PROVE  /\ bit \in l.info.props <=> bit \in link.info.props
                 /\ l.info.val[bit] = link.info.val[bit]
      <4>1. bit \in InfoBits /\ Given(l.info, bit) = Given(link.info, bit)
        BY <2>5, <3>1, <3>2, <3>3, <3>5
      <4> QED
        BY <2>1, <3>1, <3>4, <4>1, SameInfoBit
    <3>6. ASSUME NEW bit \in link.info.props \cap KindBits[e.kind]
          PROVE  /\ ComparedBy(e.kind, bit) \in KindBits[e.kind]
                 /\ ComparedBy(e.kind, bit) = TunFlags => ComparedBy(e.kind, bit) \in link.info.props
      BY KindNames DEF ComparedBy, TunUid, TunFlags
    <3>7. ASSUME NEW bit \in link.info.props \cap KindBits[e.kind]
          PROVE  /\ bit \in l.info.props <=> bit \in link.info.props
                 /\ l.info.val[ComparedBy(e.kind, bit)] = link.info.val[ComparedBy(e.kind, bit)]
      BY <3>5, <3>6
    <3> QED
      BY <3>2, <3>7 DEF InfosAgree
  <2> QED
    BY <2>14, <2>15 DEF LinkMatches, l
<1>2. LinkInv => LinkReadBack
  BY <1>1 DEF LinkReadBack
<1> QED
  BY <1>2, LinkInvariance, PTL
=============================================================================
