---------------------------- MODULE ValueObjects ----------------------------
(***************************************************************************)
(* What a caller may rely on of objects that have strings on the heap: the *)
(* objects are values.  What is done to one is seen in no other, a clone   *)
(* stays as it was when its source changes or is freed, and what is read   *)
(* of a message is there at once or not at all.  There are no pointers.    *)
(***************************************************************************)
CONSTANTS Slots,      \* the caller's variables
          NULL,       \* no object
          Fresh,      \* a new object
          Sets(_, _), \* a setter can make the second value of the first
          Copies(_),  \* what a clone of a value can be
          Readable    \* what a message can be read as

VARIABLE value  \* the value of each slot, or NULL

Init == value = [s \in Slots |-> NULL]

(* Slot s changes, and no other one. *)
Alone(s) == value'[s] # value[s] /\ value' = [value EXCEPT ![s] = value'[s]]

Create(s) == value[s] = NULL /\ value'[s] = Fresh

Read(s) == value[s] = NULL /\ value'[s] \in Readable

Clone(s, t) == value[s] # NULL /\ value[t] = NULL /\ value'[t] \in Copies(value[s])

Set(s) == value[s] # NULL /\ Sets(value[s], value'[s])

Free(s) == value[s] # NULL /\ value'[s] = NULL

Next ==
    \E s \in Slots :
        /\ Alone(s)
        /\ \/ Create(s) \/ Read(s) \/ Set(s) \/ Free(s)
           \/ \E t \in Slots : Clone(t, s)

Spec == Init /\ [][Next]_value
=============================================================================
