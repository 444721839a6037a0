---------------------------- MODULE MessageList ----------------------------
(***************************************************************************)
(* mnlxt_data_t as mnlxt_data.c keeps it: singly linked messages behind a  *)
(* first and a last pointer, each message with a payload it owns.  One     *)
(* thread uses the lists; the loops of mnlxt_data_remove() and             *)
(* mnlxt_data_clean() are stepped through, the rest of a call is one step. *)
(*                                                                         *)
(* The caller keeps to the interface: it frees and adds only messages it   *)
(* holds, and does not go on with an iterator that was freed.  A call that *)
(* fails for want of memory changes nothing and is a stuttering step.      *)
(***************************************************************************)
EXTENDS Naturals, SequencesExt

CONSTANTS Messages,  \* the addresses malloc() may return for a message
          Payloads,  \* the same for a link, an address, a route, ...
          Lists,     \* the caller's mnlxt_data_t structures
          NULL

ASSUME NullAssumption == NULL \notin Messages /\ NULL \notin Payloads

VARIABLES first,     \* data->first
          last,      \* data->last
          next,      \* message->next
          payload,   \* message->payload
          msgs,      \* messages that are allocated
          objs,      \* payloads that are allocated
          held,      \* messages the caller has to free or to add
          owned,     \* payloads the caller has to free
          call,      \* the call that is in a loop or waits for the kernel
          ret,       \* what mnlxt_data_remove() returned last
          it,        \* the caller's iterator over each list
          order,     \* history: the list as it should be
          pending,   \* history: messages the iteration still owes
          sound      \* history: the iterator's message was not removed

ghosts == <<order, pending, sound>>
vars == <<first, last, next, payload, msgs, objs, held, owned, call, ret, it, ghosts>>

Pointers == Messages \cup {NULL}
Ops == {"none", "remove", "clean", "request"}
Idle == [op |-> "none", data |-> NULL, target |-> NULL, msg |-> NULL]

TypeOK ==
    /\ first \in [Lists -> Pointers]
    /\ last \in [Lists -> Pointers]
    /\ next \in [Messages -> Pointers]
    /\ payload \in [Messages -> Payloads \cup {NULL}]
    /\ msgs \in SUBSET Messages
    /\ objs \in SUBSET Payloads
    /\ held \in SUBSET Messages
    /\ owned \in SUBSET Payloads
    /\ call \in [op : Ops, data : Lists \cup {NULL}, target : Pointers, msg : Pointers]
    /\ ret \in Pointers
    /\ it \in [Lists -> Pointers]
    /\ order \in [Lists -> Seq(Messages)]
    /\ pending \in [Lists -> SUBSET Messages]
    /\ sound \in [Lists -> BOOLEAN]

Init ==
    /\ first = [d \in Lists |-> NULL]
    /\ last = [d \in Lists |-> NULL]
    /\ next = [m \in Messages |-> NULL]
    /\ payload = [m \in Messages |-> NULL]
    /\ msgs = {}
    /\ objs = {}
    /\ held = {}
    /\ owned = {}
    /\ call = Idle
    /\ ret = NULL
    /\ it = [d \in Lists |-> NULL]
    /\ order = [d \in Lists |-> <<>>]
    /\ pending = [d \in Lists |-> {}]
    /\ sound = [d \in Lists |-> FALSE]

-----------------------------------------------------------------------------
(* Payloads and messages outside the lists.                                *)

(* mnlxt_rt_link_new() and its like, and the matching free. *)
ObjectNew(p) ==
    /\ call = Idle
    /\ p \notin objs
    /\ objs' = objs \cup {p}
    /\ owned' = owned \cup {p}
    /\ UNCHANGED <<first, last, next, payload, msgs, held, call, ret, it, ghosts>>

ObjectFree(p) ==
    /\ call = Idle
    /\ p \in owned
    /\ objs' = objs \ {p}
    /\ owned' = owned \ {p}
    /\ UNCHANGED <<first, last, next, payload, msgs, held, call, ret, it, ghosts>>

(* calloc() of a message m with payload p. *)
Allocate(m, p) ==
    /\ m \notin msgs
    /\ msgs' = msgs \cup {m}
    /\ payload' = [payload EXCEPT ![m] = p]

(* mnlxt_rt_link_message() and its like take the caller's payload away;    *)
(* mnlxt_message_new() makes a message without one.                        *)
MessageNew(m, p) ==
    /\ call = Idle
    /\ p \in owned \cup {NULL}
    /\ Allocate(m, p)
    /\ held' = held \cup {m}
    /\ owned' = owned \ {p}
    /\ UNCHANGED <<first, last, next, objs, call, ret, it, ghosts>>

(* Message m and its payload are given back to the heap. *)
Release(m) ==
    /\ msgs' = msgs \ {m}
    /\ objs' = objs \ {payload[m]}
    /\ payload' = [payload EXCEPT ![m] = NULL]

MessageFree(m) ==
    /\ call = Idle
    /\ m \in held
    /\ Release(m)
    /\ next' = [next EXCEPT ![m] = NULL]
    /\ held' = held \ {m}
    /\ it' = [d \in Lists |-> IF it[d] = m THEN NULL ELSE it[d]]
    /\ UNCHANGED <<first, last, owned, call, ret, ghosts>>

(* Mutant: an empty payload is taken for one. *)
PayloadRemoveUnchecked(m) ==
    /\ call = Idle
    /\ m \in msgs
    /\ owned' = owned \cup {payload[m]}
    /\ payload' = [payload EXCEPT ![m] = NULL]
    /\ UNCHANGED <<first, last, next, msgs, objs, held, call, ret, it, ghosts>>

(* mnlxt_rt_link_remove() and its like: the payload becomes the caller's.  *)
PayloadRemove(m) ==
    /\ call = Idle
    /\ m \in msgs
    /\ payload[m] # NULL
    /\ owned' = owned \cup {payload[m]}
    /\ payload' = [payload EXCEPT ![m] = NULL]
    /\ UNCHANGED <<first, last, next, msgs, objs, held, call, ret, it, ghosts>>

(* mnlxt_rt_addr_request() and its like lend the payload to a message of   *)
(* their own while the request runs, and take it back before they free it. *)
RequestBegin(m, p) ==
    /\ call = Idle
    /\ p \in owned
    /\ Allocate(m, p)
    /\ owned' = owned \ {p}
    /\ call' = [Idle EXCEPT !.op = "request", !.msg = m]
    /\ UNCHANGED <<first, last, next, objs, held, ret, it, ghosts>>

(* Mutant: the message is freed with the payload still in it. *)
RequestEndForgets ==
    /\ call.op = "request"
    /\ Release(call.msg)
    /\ owned' = owned \cup {payload[call.msg]}
    /\ call' = Idle
    /\ UNCHANGED <<first, last, next, held, ret, it, ghosts>>

RequestEnd ==
    /\ call.op = "request"
    /\ msgs' = msgs \ {call.msg}
    /\ payload' = [payload EXCEPT ![call.msg] = NULL]
    /\ owned' = owned \cup {payload[call.msg]}
    /\ call' = Idle
    /\ UNCHANGED <<first, last, next, objs, held, ret, it, ghosts>>

-----------------------------------------------------------------------------
(* The lists.                                                              *)

(* The body of mnlxt_data_add(). *)
Link(d, m) ==
    /\ IF last[d] # NULL
       THEN /\ next' = [next EXCEPT ![last[d]] = m, ![m] = NULL]
            /\ UNCHANGED first
       ELSE /\ first' = [first EXCEPT ![d] = m]
            /\ next' = [next EXCEPT ![m] = NULL]
    /\ last' = [last EXCEPT ![d] = m]
    /\ order' = [order EXCEPT ![d] = Append(@, m)]

DataAdd(d, m) ==
    /\ call = Idle
    /\ m \in held
    /\ Link(d, m)
    /\ held' = held \ {m}
    /\ UNCHANGED <<payload, msgs, objs, owned, call, ret, it, pending, sound>>

(* A parse handler allocates a payload and a message, and adds it. *)
Parse(d, m, p) ==
    /\ call = Idle
    /\ p \notin objs
    /\ Allocate(m, p)
    /\ objs' = objs \cup {p}
    /\ Link(d, m)
    /\ UNCHANGED <<held, owned, call, ret, it, pending, sound>>

(* Message m leaves list d: the iteration owes it no longer, and ends      *)
(* early if it stands there.                                               *)
Forget(d, m) ==
    /\ pending' = [pending EXCEPT ![d] = @ \ {m}]
    /\ sound' = [sound EXCEPT ![d] = @ /\ it[d] # m]

(* Mutant: data->last still points to the message that left. *)
UnlinkFirstKeepsLast(d) ==
    /\ first' = [first EXCEPT ![d] = next[first[d]]]
    /\ next' = [next EXCEPT ![first[d]] = NULL]
    /\ order' = [order EXCEPT ![d] = RemoveAt(@, 1)]
    /\ Forget(d, first[d])
    /\ UNCHANGED last

(* mnlxt_data_remove() of the first message. *)
UnlinkFirst(d) ==
    /\ last' = [last EXCEPT ![d] = IF @ = first[d] THEN NULL ELSE @]
    /\ first' = [first EXCEPT ![d] = next[first[d]]]
    /\ next' = [next EXCEPT ![first[d]] = NULL]
    /\ order' = [order EXCEPT ![d] = RemoveAt(@, 1)]
    /\ Forget(d, first[d])

(* The message that goes back to the caller. *)
Return(m) ==
    /\ ret' = m
    /\ held' = held \cup ({m} \ {NULL})

RemoveHead(d, target) ==
    /\ call = Idle
    /\ target \in {NULL, first[d]}
    /\ first[d] # NULL
    /\ UnlinkFirst(d)
    /\ Return(first[d])
    /\ UNCHANGED <<payload, msgs, objs, owned, call, it>>

(* Nothing to remove: the list is empty. *)
RemoveNothing(d) ==
    /\ call = Idle
    /\ first[d] = NULL
    /\ Return(NULL)
    /\ UNCHANGED <<first, last, next, payload, msgs, objs, owned, call, it, ghosts>>

(* Any other message is looked for: msg walks to the one in front of it. *)
RemoveBegin(d, target) ==
    /\ call = Idle
    /\ target \in msgs \ {first[d]}
    /\ first[d] # NULL
    /\ call' = [op |-> "remove", data |-> d, target |-> target, msg |-> first[d]]
    /\ UNCHANGED <<first, last, next, payload, msgs, objs, held, owned, ret, it, ghosts>>

(* Mutant: msg = msg->next is missing. *)
RemoveWalkInPlace ==
    /\ call.op = "remove"
    /\ call.msg # NULL
    /\ next[call.msg] # call.target
    /\ UNCHANGED vars

RemoveWalk ==
    /\ call.op = "remove"
    /\ call.msg # NULL
    /\ next[call.msg] # call.target
    /\ call' = [call EXCEPT !.msg = next[@]]
    /\ UNCHANGED <<first, last, next, payload, msgs, objs, held, owned, ret, it, ghosts>>

RemoveFails ==
    /\ call.op = "remove"
    /\ call.msg = NULL
    /\ Return(NULL)
    /\ call' = Idle
    /\ UNCHANGED <<first, last, next, payload, msgs, objs, owned, it, ghosts>>

(* Mutant: the removed message keeps its place as the last one. *)
UnlinkKeepsLast(d, target, msg) ==
    /\ next' = [next EXCEPT ![msg] = next[target], ![target] = NULL]
    /\ \E i \in 1..Len(order[d]) :
          /\ order[d][i] = target
          /\ order' = [order EXCEPT ![d] = RemoveAt(@, i)]
    /\ Forget(d, target)
    /\ UNCHANGED <<first, last>>

(* Mutant: message->next is reset before it is copied. *)
UnlinkTruncates(d, target, msg) ==
    /\ last' = [last EXCEPT ![d] = IF @ = target THEN msg ELSE @]
    /\ next' = [next EXCEPT ![msg] = NULL, ![target] = NULL]
    /\ \E i \in 1..Len(order[d]) :
          /\ order[d][i] = target
          /\ order' = [order EXCEPT ![d] = RemoveAt(@, i)]
    /\ Forget(d, target)
    /\ UNCHANGED first

(* target leaves list d, msg being the message in front of it. *)
Unlink(d, target, msg) ==
    /\ last' = [last EXCEPT ![d] = IF @ = target THEN msg ELSE @]
    /\ next' = [next EXCEPT ![msg] = next[target], ![target] = NULL]
    /\ \E i \in 1..Len(order[d]) :
          /\ order[d][i] = target
          /\ order' = [order EXCEPT ![d] = RemoveAt(@, i)]
    /\ Forget(d, target)
    /\ UNCHANGED first

RemoveFound ==
    /\ call.op = "remove"
    /\ call.msg # NULL
    /\ next[call.msg] = call.target
    /\ Unlink(call.data, call.target, call.msg)
    /\ Return(call.target)
    /\ call' = Idle
    /\ UNCHANGED <<payload, msgs, objs, owned, it>>

(* mnlxt_data_clean(): a removal and a mnlxt_message_free() at a time. *)
CleanBegin(d) ==
    /\ call = Idle
    /\ call' = [Idle EXCEPT !.op = "clean", !.data = d]
    /\ it' = [it EXCEPT ![d] = NULL]
    /\ pending' = [pending EXCEPT ![d] = {}]
    /\ sound' = [sound EXCEPT ![d] = FALSE]
    /\ UNCHANGED <<first, last, next, payload, msgs, objs, held, owned, ret, order>>

(* Mutant: the first message is freed where it is. *)
CleanNextInPlace ==
    /\ call.op = "clean"
    /\ first[call.data] # NULL
    /\ Release(first[call.data])
    /\ it' = [d \in Lists |-> IF it[d] = first[call.data] THEN NULL ELSE it[d]]
    /\ UNCHANGED <<first, last, next, held, owned, call, ret, ghosts>>

CleanNext ==
    /\ call.op = "clean"
    /\ first[call.data] # NULL
    /\ UnlinkFirst(call.data)
    /\ Release(first[call.data])
    /\ it' = [d \in Lists |-> IF it[d] = first[call.data] THEN NULL ELSE it[d]]
    /\ UNCHANGED <<held, owned, call, ret>>

CleanEnd ==
    /\ call.op = "clean"
    /\ first[call.data] = NULL
    /\ last' = [last EXCEPT ![call.data] = NULL]
    /\ call' = Idle
    /\ UNCHANGED <<first, next, payload, msgs, objs, held, owned, ret, it, ghosts>>

(* mnlxt_data_iterate(), which the typed iterators repeat. *)
DataIterate(d) ==
    /\ call = Idle
    /\ it' = [it EXCEPT ![d] = IF @ = NULL THEN first[d] ELSE next[@]]
    /\ pending' = [pending EXCEPT ![d] =
                     (IF it[d] = NULL THEN ToSet(order[d]) ELSE @) \ {it'[d]}]
    /\ sound' = [sound EXCEPT ![d] = it[d] = NULL \/ @]
    /\ UNCHANGED <<first, last, next, payload, msgs, objs, held, owned, call, ret, order>>

Objects ==
    \/ \E p \in Payloads : ObjectNew(p) \/ ObjectFree(p)
    \/ \E m \in Messages : MessageFree(m) \/ PayloadRemove(m)
    \/ \E m \in Messages, p \in Payloads \cup {NULL} : MessageNew(m, p)
    \/ \E m \in Messages, p \in Payloads : RequestBegin(m, p)
    \/ \E d \in Lists, m \in Messages : DataAdd(d, m)
    \/ \E d \in Lists, m \in Messages, p \in Payloads : Parse(d, m, p)

(* The steps that go on with a call. *)
Loop ==
    \/ RequestEnd
    \/ RemoveWalk
    \/ RemoveFails
    \/ RemoveFound
    \/ CleanNext
    \/ CleanEnd

Next ==
    \/ Objects
    \/ \E d \in Lists, target \in Pointers : RemoveHead(d, target) \/ RemoveBegin(d, target)
    \/ \E d \in Lists : RemoveNothing(d) \/ CleanBegin(d) \/ DataIterate(d)
    \/ Loop

Spec == Init /\ [][Next]_vars

(* A thread in a loop goes on. *)
FairSpec == Spec /\ WF_vars(Loop)

-----------------------------------------------------------------------------
(* Properties.                                                             *)

(* The pointers are those of a list: from first along next to last, in the *)
(* order of the calls, whatever was removed from where (data.h:59-78).     *)
Linked(d) ==
    LET s == order[d]
    IN  /\ s = <<>> => first[d] = NULL /\ last[d] = NULL
        /\ s # <<>> => first[d] = s[1] /\ last[d] = s[Len(s)] /\ next[s[Len(s)]] = NULL
        /\ \A i \in 1..(Len(s) - 1) : next[s[i]] = s[i + 1]

ListShape == \A d \in Lists : Linked(d)

(* Every allocated message and payload has one owner that will free it: no *)
(* call of the interface leaks one, frees one twice, or leaves a pointer   *)
(* to one that is freed.                                                   *)
Lent == IF call.op = "request" THEN {call.msg} ELSE {}

Listed == UNION {ToSet(order[d]) : d \in Lists}

OnePlace ==
    /\ held \cap Listed = {}
    /\ Lent \cap (held \cup Listed) = {}
    /\ \A d \in Lists : IsInjective(order[d])
    /\ \A d, e \in Lists : d # e => ToSet(order[d]) \cap ToSet(order[e]) = {}

Ownership ==
    /\ OnePlace
    /\ msgs = held \cup Listed \cup Lent
    /\ objs = owned \cup ({payload[m] : m \in msgs} \ {NULL})
    /\ \A m, n \in msgs : payload[m] = payload[n] /\ payload[m] # NULL => m = n
    /\ \A m \in msgs : payload[m] \notin owned

(* An iteration whose current message is not removed under it ends only    *)
(* when it has returned every message that stayed on the list since it     *)
(* began, although messages were added and removed meanwhile.              *)
IterationComplete ==
    [][\A d \in Lists :
          sound[d] /\ it[d] # NULL /\ it'[d] = NULL => pending'[d] = {}]_vars

(* The lists implement queues; a list that is being cleaned is empty for   *)
(* the caller.                                                             *)
visibleOrder ==
    [d \in Lists |-> IF call.op = "clean" /\ call.data = d THEN <<>> ELSE order[d]]

Queue == INSTANCE MessageQueue WITH order <- visibleOrder

ImplementsQueue == Queue!Spec

(* A call that is under way is over after its next step, or has fewer      *)
(* messages in front of it: mnlxt_data_remove() and mnlxt_data_clean() see *)
(* no message twice, whatever was added and removed before.                *)
Ahead ==
    CASE call.op = "remove" ->
            LET s == order[call.data]
            IN  {s[j] : j \in {k \in 1..Len(s) : \E i \in 1..k : s[i] = call.msg}}
      [] call.op = "clean" -> ToSet(order[call.data])
      [] OTHER -> {}

LoopsAdvance ==
    [][call # Idle =>
          \/ call' = Idle
          \/ call'.op = call.op /\ Ahead' \subseteq Ahead /\ Ahead' # Ahead]_vars

(* The loops of mnlxt_data_remove() and mnlxt_data_clean() end. *)
LoopsEnd == (call # Idle) ~> (call = Idle)
-----------------------------------------------------------------------------
(* The inductive invariant behind the safety properties.                   *)

(* What the variables of a call that is under way stand for: msg has       *)
(* walked past messages none of which is the target.                       *)
WalkInv ==
    call.op = "remove" =>
        /\ call.data \in Lists
        /\ call.target \in msgs
        /\ call.msg = NULL => call.target \notin ToSet(order[call.data])
        /\ call.msg # NULL =>
              \E i \in 1..Len(order[call.data]) :
                 /\ order[call.data][i] = call.msg
                 /\ \A j \in 1..i : order[call.data][j] # call.target

CallInv ==
    /\ call.op = "none" => call = Idle
    /\ call.op = "clean" => call.data \in Lists /\ ~sound[call.data]
    /\ call.op = "request" => call.msg \in Messages /\ payload[call.msg] # NULL
    /\ WalkInv

(* What an iteration owes is still in front of it. *)
IterInv ==
    \A d \in Lists :
        sound[d] /\ it[d] # NULL =>
            \E i \in 1..Len(order[d]) :
               /\ order[d][i] = it[d]
               /\ pending[d] \subseteq {order[d][j] : j \in (i + 1)..Len(order[d])}

LInv == TypeOK /\ ListShape /\ Ownership /\ CallInv /\ IterInv
=============================================================================
