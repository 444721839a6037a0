------------------------------- MODULE RtRoute -------------------------------
(***************************************************************************)
(* The routes of libmnlxt, mnlxt_rt_route_t (rtnl/route.c and              *)
(* rtnl/route_data.c): an object of the caller's, the message that put     *)
(* makes of it, and the object the parse handler makes of a message.       *)
(*                                                                         *)
(* The kernel's table is external.  TABLE stands for the properties that   *)
(* are set, put, read and compared alike: type, protocol, scope, priority  *)
(* and the output interface.  The input interface, which the kernel keeps  *)
(* of no route, is left out.  The source is like the gateway, and its      *)
(* prefix like the destination's.  Ips are networks for every prefix       *)
(* length but 0.                                                           *)
(***************************************************************************)
EXTENDS PropObject

CONSTANT Tables    \* numbers of routing tables between 1 and 255 but 252

VARIABLES route,     \* the caller's route, or NULL
          routeRead  \* history: the kernel's route it was read from, while unchanged

routeVars == <<route, routeRead>>

RouteProps == {"FAMILY", "TABLE", "DST_PREFIX", "DST", "GATEWAY"}

RouteValues == Families \cup Tables \cup Prefixes \cup Ips \cup {"compat", Zero}

Routes == [props : SUBSET RouteProps, val : [RouteProps -> RouteValues]]

(* The kernel's routes.  "big" are the tables above 255, and "compat" is   *)
(* the number rtm_table has for them, 252.                                 *)
RouteEntries ==
    {e \in [family : Families, table : Tables \cup {"compat", "big"}, tos : {Zero, "tos"},
            prefix : Prefixes \cup {Zero}, dst : Ips \cup {Zero}, gateway : Ips \cup {NULL}] :
        e.prefix = Zero => e.dst = Zero}

ASSUME RouteAssumption ==
    /\ NULL \notin RouteValues \cup Routes \cup RouteEntries
    /\ Zero \notin Families \cup Tables \cup Prefixes \cup Ips
    /\ "main" \in Tables /\ "compat" \notin Tables /\ "big" \notin Tables

RouteTypeOK ==
    /\ route \in Routes \cup {NULL}
    /\ routeRead \in RouteEntries \cup {NULL}

RouteInit == route = NULL /\ routeRead = NULL

-----------------------------------------------------------------------------
(* Setters, as operators on an object.                                     *)

(* Mutant: other address families are accepted. *)
RouteAllowsOther(r, family) == Given(r, "FAMILY") \in {NULL, family}

RouteAllows(r, family) ==
    /\ family \in Families
    /\ Given(r, "FAMILY") \in {NULL, family}

WithRouteFamily(r, family) == Flag(r, "FAMILY", family)

(* The default destination is not set, whatever destination there is. *)
WithRouteDst(r, family, ip) ==
    LET s == WithRouteFamily(r, family)
    IN  IF ip = Zero THEN s ELSE Flag(s, "DST", ip)

WithRouteGateway(r, family, ip) == Flag(WithRouteFamily(r, family), "GATEWAY", ip)

-----------------------------------------------------------------------------
(* Requests and the kernel.                                                *)

(* Mutant: the table is written only next to a destination. *)
RouteMessageTableLost(r) ==
    [family  |-> Header(r, "FAMILY"),
     table   |-> IF "DST" \in r.props THEN Header(r, "TABLE") ELSE Zero,
     prefix  |-> Header(r, "DST_PREFIX"), dst |-> Given(r, "DST"),
     gateway |-> Given(r, "GATEWAY")]

(* mnlxt_rt_route_put() *)
RouteMessage(r) ==
    [family  |-> Header(r, "FAMILY"),     table |-> Header(r, "TABLE"),
     prefix  |-> Header(r, "DST_PREFIX"), dst   |-> Given(r, "DST"),
     gateway |-> Given(r, "GATEWAY")]

(* The destination the kernel reads from a message.  An IPv4 one is to be  *)
(* within its prefix, an IPv6 one is cut to it.                            *)
RouteAddressed(e, message) ==
    /\ e.family = message.family
    /\ e.prefix = message.prefix
    /\ e.table = IF message.table = Zero THEN "main" ELSE message.table
    /\ IF message.prefix = Zero
       THEN message.family = "inet" => message.dst \in {NULL, Zero}
       ELSE e.dst = IF message.dst = NULL THEN Zero ELSE message.dst

(* e is what the kernel makes of an RTM_NEWROUTE request.  An unspecified  *)
(* gateway is none of an IPv4 route, and refused for an IPv6 one.          *)
RouteMadeOf(e, message) ==
    /\ RouteAddressed(e, message)
    /\ e.tos = Zero
    /\ IF message.gateway = Zero THEN e.family = "inet" /\ e.gateway = NULL
       ELSE e.gateway = message.gateway

(* e is a route that an RTM_DELROUTE request may delete. *)
RouteDeletedBy(e, message) ==
    /\ RouteAddressed(e, message)
    /\ e.tos = Zero
    /\ IF message.gateway = Zero THEN e.family = "inet" \/ e.gateway = NULL
       ELSE message.gateway \in {NULL, e.gateway}

(* Mutant: the prefix length is read with the destination only. *)
RouteOfPrefixLost(e) ==
    LET header == Flag(WithRouteFamily(Blank(RouteProps), e.family), "TABLE",
                       IF e.table = "big" THEN "compat" ELSE e.table)
        r == IF e.dst = Zero THEN header
             ELSE Flag(WithRouteDst(header, e.family, e.dst), "DST_PREFIX", e.prefix)
    IN  IF e.gateway = NULL THEN r ELSE WithRouteGateway(r, e.family, e.gateway)

(* mnlxt_rt_route_data(): the attribute that has the number of a table     *)
(* above 255 is skipped, and so is the type of service.                    *)
RouteOf(e) ==
    LET table == IF e.table = "big" THEN "compat" ELSE e.table
        header == Flag(Flag(WithRouteFamily(Blank(RouteProps), e.family), "TABLE", table),
                       "DST_PREFIX", e.prefix)
        r == IF e.prefix = Zero THEN header ELSE WithRouteDst(header, e.family, e.dst)
    IN  IF e.gateway = NULL THEN r ELSE WithRouteGateway(r, e.family, e.gateway)

-----------------------------------------------------------------------------
(* The caller.  A setter that fails changes nothing.                       *)

RouteBecomes(r) == route' = r /\ routeRead' = NULL

RouteNew == route = NULL /\ RouteBecomes(Blank(RouteProps))

RouteSetFamily ==
    /\ route # NULL
    /\ \E family \in Families \cup {"packet"} :
          RouteAllows(route, family) /\ RouteBecomes(WithRouteFamily(route, family))

RouteSetScalar ==
    /\ route # NULL
    /\ \/ \E table \in Tables \cup {"compat", Zero} : RouteBecomes(Flag(route, "TABLE", table))
       \/ \E len \in Prefixes \cup {Zero} : RouteBecomes(Flag(route, "DST_PREFIX", len))

RouteSetDst ==
    /\ route # NULL
    /\ \E family \in Families \cup {"packet"}, ip \in Ips \cup {Zero} :
          RouteAllows(route, family) /\ RouteBecomes(WithRouteDst(route, family, ip))

RouteSetGateway ==
    /\ route # NULL
    /\ \E family \in Families \cup {"packet"}, ip \in Ips \cup {Zero} :
          RouteAllows(route, family) /\ RouteBecomes(WithRouteGateway(route, family, ip))

(* mnlxt_rt_route_clone().  The caller goes on with the copy; a route owns *)
(* no memory but its own.                                                  *)
RouteClone ==
    /\ route # NULL
    /\ \E filter \in SUBSET RouteProps : RouteBecomes(Copied(route, filter))

RouteFree == route # NULL /\ RouteBecomes(NULL)

(* A dump or a notification gives the caller a route of the kernel. *)
RouteRead ==
    /\ route = NULL
    /\ \E e \in RouteEntries : route' = RouteOf(e) /\ routeRead' = e

RouteNext ==
    \/ RouteNew \/ RouteSetFamily \/ RouteSetScalar \/ RouteSetDst \/ RouteSetGateway
    \/ RouteClone \/ RouteFree \/ RouteRead

RouteSpec == RouteInit /\ [][RouteNext]_routeVars

-----------------------------------------------------------------------------
(* Properties.                                                             *)

(* The kernel keeps what the object says: its table has a number, its      *)
(* destination a prefix, and its gateway is not the unspecified address,   *)
(* which set_gateway takes, unlike set_dst.                                *)
RouteKept(r) ==
    /\ Given(r, "TABLE") # Zero
    /\ Given(r, "GATEWAY") # Zero
    /\ "DST" \in r.props => Header(r, "DST_PREFIX") # Zero

(* A route that the kernel has made of an object matches it when it is     *)
(* read back, by mnlxt_rt_route_match(), and so does every route it may    *)
(* delete for the object: what put writes, what the parse handler reads    *)
(* and what set_dst leaves out agree in every object that setters, clones  *)
(* and reads lead to.                                                      *)
RouteReadBack ==
    route # NULL /\ RouteKept(route) =>
        LET message == RouteMessage(route)
        IN  \A e \in RouteEntries :
                RouteMadeOf(e, message) \/ RouteDeletedBy(e, message) => Matches(RouteOf(e), route)

(* RTM_DELROUTE with a route as it was read finds that route: the object   *)
(* keeps all of its key.  Not so for a route in a table above 255, or with *)
(* a type of service, which the object has no place for.                   *)
RouteFound ==
    routeRead # NULL /\ routeRead.table # "big" /\ routeRead.tos = Zero =>
        RouteDeletedBy(routeRead, RouteMessage(route))
=============================================================================
