--------------------------- MODULE AtomicRequest ---------------------------
(***************************************************************************)
(* What a caller of libmnlxt's request engine may rely on, whatever the    *)
(* netlink traffic behind it looks like.  A kernel table (links, addresses,*)
(* routes, rules, policies) maps identifiers to entries.  A change takes   *)
(* effect at most once and only while its call runs; a successful call     *)
(* means that it did.  A successful dump returns the reported part of one  *)
(* table the kernel really had at some moment of the call; a failed dump   *)
(* may leave entries behind, but only ones the kernel had during the call. *)
(***************************************************************************)
EXTENDS KernelTable

VARIABLES table,    \* the kernel's table
          busy,     \* is the client inside a call?
          op,       \* the client's current or last request
          applied,  \* has the change been made?
          reply,    \* what the last call returned
          result,   \* what the last dump left in mnlxt_data_t
          moments   \* history: the tables the kernel had during the call

vars == <<table, busy, op, applied, reply, result, moments>>

TypeOK ==
    /\ table \in Tables
    /\ busy \in [Clients -> BOOLEAN]
    /\ op \in [Clients -> Changes \cup {Dump}]
    /\ applied \in [Clients -> BOOLEAN]
    /\ reply \in [Clients -> {"none", "ok", "failed"}]
    /\ result \in [Clients -> SUBSET Objects]
    /\ moments \in [Clients -> SUBSET Tables]

Init ==
    /\ table \in Tables
    /\ busy = [c \in Clients |-> FALSE]
    /\ op = [c \in Clients |-> Dump]
    /\ applied = [c \in Clients |-> FALSE]
    /\ reply = [c \in Clients |-> "none"]
    /\ result = [c \in Clients |-> {}]
    /\ moments = [c \in Clients |-> {}]

(* The entry i becomes v, which every call that runs could have seen. *)
SetEntry(i, v) ==
    /\ table' = [table EXCEPT ![i] = v]
    /\ moments' = [c \in Clients |->
                     IF busy[c] THEN moments[c] \cup {table'} ELSE moments[c]]

Call(c, request) ==
    /\ ~busy[c]
    /\ busy' = [busy EXCEPT ![c] = TRUE]
    /\ op' = [op EXCEPT ![c] = request]
    /\ applied' = [applied EXCEPT ![c] = FALSE]
    /\ reply' = [reply EXCEPT ![c] = "none"]
    /\ result' = [result EXCEPT ![c] = {}]
    /\ moments' = [moments EXCEPT ![c] = {table}]
    /\ UNCHANGED table

Apply(c) ==
    /\ busy[c]
    /\ op[c] # Dump
    /\ ~applied[c]
    /\ applied' = [applied EXCEPT ![c] = TRUE]
    /\ SetEntry(op[c].id, op[c].val)
    /\ UNCHANGED <<busy, op, reply, result>>

(* The kernel or a program that does not use the library changes an entry. *)
ForeignChange ==
    /\ \E i \in Ids, v \in Cells : SetEntry(i, v)
    /\ UNCHANGED <<busy, op, applied, reply, result>>

Leave(c, r, objects) ==
    /\ busy[c]
    /\ busy' = [busy EXCEPT ![c] = FALSE]
    /\ reply' = [reply EXCEPT ![c] = r]
    /\ result' = [result EXCEPT ![c] = objects]
    /\ UNCHANGED <<table, op, applied, moments>>

Succeed(c) ==
    \/ /\ op[c] = Dump
       /\ \E t \in moments[c] : Readable(t) /\ Leave(c, "ok", View(t))
    \/ /\ op[c] # Dump
       /\ applied[c]
       /\ Leave(c, "ok", {})

Fail(c) ==
    \E objects \in SUBSET UNION {View(t) : t \in moments[c]} :
        Leave(c, "failed", objects)

Next ==
    \/ \E c \in Clients :
          \/ \E request \in Changes \cup {Dump} : Call(c, request)
          \/ Apply(c)
          \/ Succeed(c)
          \/ Fail(c)
    \/ ForeignChange

Spec == Init /\ [][Next]_vars
=============================================================================
