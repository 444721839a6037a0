---------------------------- MODULE MessageQueue ----------------------------
(***************************************************************************)
(* What mnlxt_data_t promises: each list is a queue of messages from which *)
(* any message can be taken; a message is on one list, or the caller's, or *)
(* does not exist.                                                         *)
(***************************************************************************)
EXTENDS Naturals, SequencesExt

CONSTANTS Messages,  \* the addresses malloc() may return for a message
          Lists,     \* the caller's mnlxt_data_t structures
          NULL

VARIABLES order,     \* the messages of each list, in order
          held,      \* messages the caller has to free or to add
          ret        \* what the last removal returned

vars == <<order, held, ret>>

Init ==
    /\ order = [d \in Lists |-> <<>>]
    /\ held = {}
    /\ ret = NULL

Listed == UNION {ToSet(order[d]) : d \in Lists}

New(m) ==
    /\ m \notin held \cup Listed
    /\ held' = held \cup {m}
    /\ UNCHANGED <<order, ret>>

Free(m) ==
    /\ m \in held
    /\ held' = held \ {m}
    /\ UNCHANGED <<order, ret>>

Add(d, m) ==
    /\ m \in held
    /\ order' = [order EXCEPT ![d] = Append(@, m)]
    /\ held' = held \ {m}
    /\ UNCHANGED ret

(* A message from the kernel appears on the list. *)
Parse(d, m) ==
    /\ m \notin held \cup Listed
    /\ order' = [order EXCEPT ![d] = Append(@, m)]
    /\ UNCHANGED <<held, ret>>

Take(d, i) ==
    /\ order' = [order EXCEPT ![d] = RemoveAt(@, i)]
    /\ held' = held \cup {order[d][i]}
    /\ ret' = order[d][i]

DataRemove(d, m) ==
    \/ \E i \in 1..Len(order[d]) : order[d][i] = m /\ Take(d, i)
    \/ m = NULL /\ order[d] # <<>> /\ Take(d, 1)
    \/ /\ m = NULL => order[d] = <<>>
       /\ m \notin ToSet(order[d])
       /\ ret' = NULL
       /\ UNCHANGED <<order, held>>

Clean(d) ==
    /\ order' = [order EXCEPT ![d] = <<>>]
    /\ UNCHANGED <<held, ret>>

Next ==
    \/ \E m \in Messages : New(m) \/ Free(m)
    \/ \E d \in Lists, m \in Messages : Add(d, m) \/ Parse(d, m)
    \/ \E d \in Lists, m \in Messages \cup {NULL} : DataRemove(d, m)
    \/ \E d \in Lists : Clean(d)

Spec == Init /\ [][Next]_vars
=============================================================================
