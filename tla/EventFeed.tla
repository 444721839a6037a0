------------------------------ MODULE EventFeed ------------------------------
(***************************************************************************)
(* What a caller may rely on when it listens to multicast groups: a feed   *)
(* of numbered changes.  It gives them in their order and passes over none *)
(* without telling the caller, and once it is broken the caller can only   *)
(* close it.  There is no buffer, no queue and no dropped datagram.        *)
(***************************************************************************)
EXTENDS Naturals, Sequences

VARIABLES open,      \* the caller listens
          broken,    \* it was told that it has to start again
          happened,  \* number of changes since the feed was opened
          given,     \* the changes the caller has got
          told       \* those a call has failed on

feedVars == <<open, broken, happened, given, told>>

Closed == ~open /\ ~broken /\ happened = 0 /\ given = <<>> /\ told = {}

Init == Closed

Settled(e) == e \in told \/ \E k \in 1..Len(given) : given[k] = e

Open == ~open /\ open' = TRUE /\ UNCHANGED <<broken, happened, given, told>>

Happen == open /\ happened' = happened + 1 /\ UNCHANGED <<open, broken, given, told>>

(* The change is newer than any the caller has got, and the first that is  *)
(* not settled.                                                            *)
Give(e) ==
    /\ open
    /\ ~broken
    /\ \A k \in 1..Len(given) : given[k] < e
    /\ \A f \in 1..(e - 1) : Settled(f)
    /\ given' = Append(given, e)
    /\ UNCHANGED <<open, broken, happened, told>>

Tell(e) ==
    /\ open
    /\ ~broken
    /\ told' = told \cup {e}
    /\ UNCHANGED <<open, broken, happened, given>>

Break ==
    /\ open
    /\ ~broken
    /\ broken' = TRUE
    /\ told' = told \/ \E e \in 1..happened : told' = told \cup {e}
    /\ UNCHANGED <<open, happened, given>>

Close == open /\ Closed'

Next ==
    \/ Open
    \/ Happen
    \/ \E e \in 1..happened : Give(e) \/ Tell(e)
    \/ Break
    \/ Close

Spec == Init /\ [][Next]_feedVars
=============================================================================
