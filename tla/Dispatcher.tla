----------------------------- MODULE Dispatcher -----------------------------
(***************************************************************************)
(* The tables of handlers by which libmnlxt parses a message of one of its *)
(* two buses, rtnl/rtnl.c and xfrm/xfrm.c, the mnlxt_data_t that remembers *)
(* one of them (mnlxt_data.c), and the getters that give a message's       *)
(* payload a type.  Numbers of messages mean different things on the two   *)
(* buses, and neither the payload nor the message says which one it is of. *)
(*                                                                         *)
(* How a buffer gets here is in NetlinkRequest and NetlinkHandle, how the  *)
(* list of messages works in MessageList.                                  *)
(***************************************************************************)
EXTENDS Naturals, FiniteSets

CONSTANTS NoBus,
          MaxStored  \* bound: messages in the list

VARIABLES handlers,  \* data->handlers: the bus whose table it is, or NoBus
          stored,    \* the messages in the list of data
          used       \* history: the bus the caller uses data for, or NoBus

dispatchVars == <<handlers, stored, used>>

Buses == {"rt", "xfrm"}

LinkTypes   == 16..19
AddrTypes   == 20..22
RouteTypes  == 24..26
RuleTypes   == 32..34
PolicyTypes == {19, 20, 21, 25}

(* The parse handler each table has for a number, as the kind of object it *)
(* makes.                                                                  *)
Handler ==
    [rt   |-> [type \in LinkTypes \cup AddrTypes \cup RouteTypes \cup RuleTypes |->
                  CASE type \in LinkTypes  -> "link"
                    [] type \in AddrTypes  -> "addr"
                    [] type \in RouteTypes -> "route"
                    [] type \in RuleTypes  -> "rule"],
     xfrm |-> [type \in PolicyTypes |-> "policy"]]

(* The numbers a kind's getter looks at: mnlxt_rt_link_get() and others. *)
Getter ==
    [link |-> LinkTypes, addr |-> AddrTypes, route |-> RouteTypes, rule |-> RuleTypes, policy |-> PolicyTypes]

(* The getters of a bus. *)
GettersOf == [rt |-> {"link", "addr", "route", "rule"}, xfrm |-> {"policy"}]

(* What the kernel notifies of on each bus: what the number says there, or *)
(* something the library does not know, as neighbours and states.          *)
Meant ==
    [rt   |-> [type \in LinkTypes \cup AddrTypes \cup RouteTypes \cup 28..30 \cup RuleTypes |->
                  IF type \in 28..30 THEN "neighbour" ELSE Handler.rt[type]],
     xfrm |-> [type \in 16..26 |-> IF type \in PolicyTypes THEN "policy" ELSE "state"]]

StoredMessages ==
    [type  : UNION {DOMAIN Handler[bus] : bus \in Buses},
     kind  : DOMAIN Getter,
     meant : UNION {{Meant[bus][type] : type \in DOMAIN Meant[bus]} : bus \in Buses}]

ASSUME DispatcherAssumption == NoBus \notin Buses /\ MaxStored \in Nat

DispatchInit == handlers = NoBus /\ stored = {} /\ used = NoBus

(* The caller uses a mnlxt_data_t for one bus until it cleans it. *)
Using(bus) == used \in {NoBus, bus} /\ used' = bus

(* mnlxt_data_cb() with the handlers of a table, for a message of a bus: a *)
(* number without a handler is remarked and skipped.                       *)
StoreParsed(bus, table, type) ==
    stored' = IF type \in DOMAIN Handler[table]
              THEN stored \cup {[type |-> type, kind |-> Handler[table][type],
                                 meant |-> Meant[bus][type]]}
              ELSE stored

(* mnlxt_data_parse() of a notification on a handle that is connected to   *)
(* bus: the first buffer's handlers are kept.                              *)
DispatchParse(bus) ==
    /\ Using(bus)
    /\ Cardinality(stored) < MaxStored
    /\ LET table == IF handlers = NoBus THEN bus ELSE handlers
       IN  /\ handlers' = table
           /\ \E type \in DOMAIN Meant[bus] : StoreParsed(bus, table, type)

(* mnlxt_rt_data_dump() and mnlxt_xfrm_data_dump() set the handlers, and   *)
(* the answers are then parsed by DispatchParse, if there are any.         *)
DispatchDump(bus) ==
    /\ Using(bus)
    /\ handlers' = bus
    /\ UNCHANGED stored

(* The caller removes a message. *)
DispatchRemove ==
    /\ \E message \in stored : stored' = stored \ {message}
    /\ UNCHANGED <<handlers, used>>

(* Mutant: the list is emptied, and nothing else. *)
CleanKeepsHandlers ==
    /\ handlers # NoBus
    /\ stored' = {}
    /\ used' = NoBus
    /\ UNCHANGED handlers

(* mnlxt_data_clean() *)
DispatchClean ==
    /\ handlers # NoBus
    /\ handlers' = NoBus
    /\ stored' = {}
    /\ used' = NoBus

DispatchNext ==
    \/ \E bus \in Buses : DispatchParse(bus) \/ DispatchDump(bus)
    \/ DispatchRemove
    \/ DispatchClean

DispatchSpec == DispatchInit /\ [][DispatchNext]_dispatchVars

-----------------------------------------------------------------------------
(* Properties.                                                             *)

(* What a getter of the bus returns is of the getter's type, and is what   *)
(* the kernel has described: every message was parsed by a handler of its  *)
(* own bus, and the numbers the getters know are those of the handlers.    *)
(* The two tables share five numbers, so that one message parsed by the    *)
(* other bus's handlers would be read as an object of another type.        *)
PayloadsTyped ==
    \A message \in stored :
        /\ message.kind = message.meant
        /\ \A kind \in GettersOf[used] : message.type \in Getter[kind] <=> kind = message.kind
=============================================================================
