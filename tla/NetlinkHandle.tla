--------------------------- MODULE NetlinkHandle ---------------------------
(***************************************************************************)
(* The handle of libmnlxt's core interface (core.h): one thread connects   *)
(* to multicast groups, receives and parses notifications as               *)
(* tests/rtnl/rtnl_listen.c does, and may send requests of its own on the  *)
(* same socket, several before it reads an answer.                         *)
(*                                                                         *)
(* The kernel and mnl_cb_run() of libmnl are external: the kernel answers  *)
(* requests in order, notifies of changes whoever made them, each          *)
(* notification in a datagram of its own, and drops what does not fit into *)
(* the receive queue.  An empty non-blocking socket lets mnlxt_receive()   *)
(* return 0, which changes nothing and is a stuttering step.               *)
(***************************************************************************)
EXTENDS Naturals, Sequences

CONSTANTS SeqLimit,    \* number of sequence numbers, 2^32 in the code
          QueueLimit,  \* datagrams that fit into the socket's receive queue
          MaxEvents,   \* bound: notifications while a handle is connected
          MaxSends,    \* bound: requests while a handle is connected
          Nothing      \* no buffer

Seqs == 0..(SeqLimit - 1)

ASSUME LimitsAssumption ==
    /\ QueueLimit \in Nat \ {0}
    /\ MaxEvents \in Nat
    /\ MaxSends \in Nat
    /\ SeqLimit \in Nat
    /\ SeqLimit > MaxSends

VARIABLES nl,         \* handle->nl # NULL
          seq,        \* handle->seq
          failed,     \* mnlxt_receive() has returned -1
          waiting,    \* kernel: requests it has not answered
          queue,      \* kernel: the socket's receive queue
          congested,  \* kernel: datagrams are dropped until the queue is empty
          overrun,    \* kernel: ENOBUFS waits to be returned
          buffer,     \* the mnlxt_buffer_t, Nothing when it is clean
          stale,      \* history: it was received before mnlxt_disconnect()
          answer,     \* what mnlxt_data_parse() has last returned 1 for
          sent,       \* history: calls of mnlxt_send()
          emitted,    \* history: notifications of a type with a handler
          delivered,  \* history: those mnlxt_data_parse() has stored
          reported    \* history: those a call has failed on

kernelVars == <<waiting, queue, congested, overrun>>
vars == <<nl, seq, failed, kernelVars, buffer, stale, answer, sent, emitted, delivered, reported>>

(* num counts the notifications, or is that of the request answered. *)
Datagrams == [kind   : {"event", "unsupported", "ack", "nack"},
              num    : Nat,
              portid : {"kernel", "own", "other"},
              seq    : Seqs]

Requests == [num : Nat, seq : Seqs]

(* seq is the filter, newest the last request at the time of receiving. *)
Buffers == [datagram : Datagrams, seq : Seqs, newest : Nat]

ASSUME NothingAssumption == Nothing \notin Buffers

(* The request answered, the newest one, and the numbers compared. *)
Answers == [request : Nat, newest : Nat, seqs : SUBSET Seqs]

NoAnswer == [request |-> 0, newest |-> 0, seqs |-> {}]

TypeOK ==
    /\ nl \in BOOLEAN
    /\ seq \in Seqs
    /\ failed \in BOOLEAN
    /\ waiting \in Seq(Requests)
    /\ queue \in Seq(Datagrams)
    /\ Len(queue) <= QueueLimit
    /\ congested \in BOOLEAN
    /\ overrun \in BOOLEAN
    /\ buffer \in Buffers \cup {Nothing}
    /\ stale \in BOOLEAN
    /\ answer \in Answers
    /\ sent \in 0..MaxSends
    /\ emitted \in 0..MaxEvents
    /\ delivered \in Seq(1..MaxEvents)
    /\ reported \in SUBSET (1..MaxEvents)

Init ==
    /\ nl = FALSE
    /\ seq = 0
    /\ failed = FALSE
    /\ waiting = <<>>
    /\ queue = <<>>
    /\ congested = FALSE
    /\ overrun = FALSE
    /\ buffer = Nothing
    /\ stale = FALSE
    /\ answer = NoAnswer
    /\ sent = 0
    /\ emitted = 0
    /\ delivered = <<>>
    /\ reported = {}

-----------------------------------------------------------------------------
(* The kernel.                                                             *)

(* Mutant: nothing bounds the queue. *)
QueueingUnbounded(datagram) ==
    /\ queue' = Append(queue, datagram)
    /\ UNCHANGED <<congested, overrun>>

Queueing(datagram) ==
    IF congested \/ Len(queue) = QueueLimit
    THEN /\ congested' = TRUE
         /\ overrun' = (overrun \/ ~congested)
         /\ UNCHANGED queue
    ELSE /\ queue' = Append(queue, datagram)
         /\ UNCHANGED <<congested, overrun>>

(* A change by the kernel itself, by another socket, or by the request     *)
(* that is served, of a kind the library parses or of another one.  The    *)
(* number of another socket's request is never looked at, nor is who made  *)
(* a change of a kind that is not parsed.                                  *)
KernelNotifies ==
    /\ nl
    /\ emitted < MaxEvents
    /\ \E kind \in {"event", "unsupported"}, origin \in {"kernel", "own", "other"}, s \in Seqs :
          /\ origin # "own" => s = 0
          /\ kind = "unsupported" => origin = "kernel"
          /\ origin = "own" => waiting # <<>> /\ s = Head(waiting).seq
          /\ Queueing([kind   |-> kind,
                       num    |-> IF kind = "event" THEN emitted + 1 ELSE 0,
                       portid |-> origin,
                       seq    |-> s])
          /\ emitted' = IF kind = "event" THEN emitted + 1 ELSE emitted
    /\ UNCHANGED <<nl, seq, failed, waiting, buffer, stale, answer, sent, delivered,
                   reported>>

KernelAnswers ==
    /\ waiting # <<>>
    /\ \E kind \in {"ack", "nack"} :
          Queueing([kind   |-> kind,
                    num    |-> Head(waiting).num,
                    portid |-> "own",
                    seq    |-> Head(waiting).seq])
    /\ waiting' = Tail(waiting)
    /\ UNCHANGED <<nl, seq, failed, buffer, stale, answer, sent, emitted, delivered, reported>>

-----------------------------------------------------------------------------
(* The caller.                                                             *)

(* mnlxt_connect(): the sequence numbers start from time(NULL).  When it   *)
(* fails the handle stays closed, a stuttering step.                       *)
Connect ==
    /\ ~nl
    /\ nl' = TRUE
    /\ seq' \in Seqs
    /\ UNCHANGED <<failed, kernelVars, buffer, stale, answer, sent, emitted, delivered, reported>>

(* Mutant: handle->seq is not incremented. *)
SendUnnumbered ==
    /\ nl
    /\ ~failed
    /\ sent < MaxSends
    /\ sent' = sent + 1
    /\ waiting' = Append(waiting, [num |-> sent', seq |-> seq])
    /\ UNCHANGED <<nl, seq, failed, queue, congested, overrun, buffer, stale, answer, emitted,
                   delivered, reported>>

(* mnlxt_send() counts also when sendto() fails. *)
Send ==
    /\ nl
    /\ ~failed
    /\ sent < MaxSends
    /\ seq' = (seq + 1) % SeqLimit
    /\ sent' = sent + 1
    /\ \/ waiting' = Append(waiting, [num |-> sent', seq |-> seq'])
       \/ UNCHANGED waiting
    /\ UNCHANGED <<nl, failed, queue, congested, overrun, buffer, stale, answer, emitted,
                   delivered, reported>>

Dequeue ==
    /\ queue # <<>>
    /\ queue' = Tail(queue)
    /\ congested' = (congested /\ Tail(queue) # <<>>)
    /\ UNCHANGED overrun

(* A call fails on a datagram of the handle's connection. *)
Told(datagram) ==
    reported' = IF datagram.kind = "event" /\ ~stale THEN reported \cup {datagram.num} ELSE reported

(* mnlxt_receive() into a clean buffer. *)
Receive ==
    /\ nl
    /\ ~failed
    /\ buffer = Nothing
    /\ ~overrun
    /\ Dequeue
    /\ buffer' = [datagram |-> Head(queue), seq |-> seq, newest |-> sent]
    /\ UNCHANGED <<nl, seq, failed, waiting, stale, answer, sent, emitted, delivered, reported>>

(* Mutant: every error of recvfrom() is taken for EAGAIN. *)
ReceiveRetries ==
    /\ nl
    /\ overrun
    /\ overrun' = FALSE
    /\ UNCHANGED <<nl, seq, failed, waiting, queue, congested, buffer, stale, answer, sent, emitted,
                   delivered, reported>>

(* mnlxt_receive() returns -1: recvfrom() gives ENOBUFS, or malloc() fails *)
(* once the datagram has left the queue.                                   *)
ReceiveFails ==
    /\ nl
    /\ ~failed
    /\ buffer = Nothing
    /\ failed' = TRUE
    /\ \/ /\ overrun
          /\ overrun' = FALSE
          /\ UNCHANGED <<queue, congested, reported>>
       \/ /\ ~overrun
          /\ Dequeue
          /\ Told(Head(queue))
    /\ UNCHANGED <<nl, seq, waiting, buffer, stale, answer, sent, emitted, delivered>>

(* mnl_cb_run() accepts a datagram if neither side is without a number. *)
Passes(datagram, portid, s) ==
    /\ portid = 0 \/ datagram.portid \in {"kernel", "own"}
    /\ s = 0 \/ datagram.seq = 0 \/ datagram.seq = s

(* Mutant: the buffer is not cleaned. *)
DataParseKeeps(portid, s) ==
    /\ buffer # Nothing
    /\ Told(buffer.datagram)
    /\ UNCHANGED <<nl, seq, failed, kernelVars, buffer, stale, answer, sent, emitted, delivered>>

(* The message is stored in the mnlxt_data_t. *)
Stored(datagram) ==
    delivered' = IF stale THEN delivered ELSE Append(delivered, datagram.num)

(* Mutant: MNL_CB_ERROR is taken for MNL_CB_OK. *)
DataParseSilent(portid, s) ==
    LET datagram == buffer.datagram IN
    /\ buffer # Nothing
    /\ \/ /\ Passes(datagram, portid, s)
          /\ datagram.kind = "event"
          /\ Stored(datagram)
       \/ UNCHANGED delivered
    /\ buffer' = Nothing
    /\ stale' = FALSE
    /\ UNCHANGED <<nl, seq, failed, kernelVars, answer, sent, emitted, reported>>

(* mnlxt_data_parse() and mnlxt_buffer_clean() of a buffer whose portid    *)
(* and seq are portid and s.  A parse handler may fail.                    *)
DataParse(portid, s) ==
    LET datagram == buffer.datagram IN
    /\ buffer # Nothing
    /\ \/ /\ Passes(datagram, portid, s)
          /\ datagram.kind = "event"
          /\ Stored(datagram)
          /\ UNCHANGED <<answer, reported>>
       \/ /\ Passes(datagram, portid, s)
          /\ datagram.kind = "unsupported"
          /\ UNCHANGED <<answer, delivered, reported>>
       \/ /\ Passes(datagram, portid, s)
          /\ datagram.kind = "ack"
          /\ answer' = [request |-> datagram.num,
                        newest  |-> buffer.newest,
                        seqs    |-> {s, datagram.seq}]
          /\ UNCHANGED <<delivered, reported>>
       \/ /\ Passes(datagram, portid, s) => datagram.kind \in {"event", "nack"}
          /\ Told(datagram)
          /\ UNCHANGED <<answer, delivered>>
    /\ buffer' = Nothing
    /\ stale' = FALSE
    /\ UNCHANGED <<nl, seq, failed, kernelVars, sent, emitted>>

(* The caller leaves the buffer's filter as it is, or resets portid and    *)
(* seq to get everyone's notifications (rtnl_listen.c:81-82).              *)
Parse == buffer # Nothing /\ (DataParse(1, buffer.seq) \/ DataParse(0, 0))

(* mnlxt_buffer_clean() of what is left after disconnecting: the caller    *)
(* does not want to parse it any more.                                     *)
BufferClean ==
    /\ stale
    /\ buffer' = Nothing
    /\ stale' = FALSE
    /\ UNCHANGED <<nl, seq, failed, kernelVars, answer, sent, emitted, delivered, reported>>

(* mnlxt_disconnect(), in any case once receiving has failed.  The buffer  *)
(* is the caller's: a datagram in it can still be parsed, whether or not   *)
(* the handle is connected again.  The histories are of one connection.    *)
Disconnect ==
    /\ nl
    /\ nl' = FALSE
    /\ failed' = FALSE
    /\ waiting' = <<>>
    /\ queue' = <<>>
    /\ congested' = FALSE
    /\ overrun' = FALSE
    /\ stale' = (buffer # Nothing)
    /\ answer' = NoAnswer
    /\ sent' = 0
    /\ emitted' = 0
    /\ delivered' = <<>>
    /\ reported' = {}
    /\ UNCHANGED <<seq, buffer>>

Next ==
    \/ KernelNotifies
    \/ KernelAnswers
    \/ Connect
    \/ Send
    \/ Receive
    \/ ReceiveFails
    \/ Parse
    \/ BufferClean
    \/ Disconnect

Spec == Init /\ [][Next]_vars

(* poll() wakes the thread, which goes on with its loop. *)
FairSpec ==
    /\ Spec
    /\ WF_vars(Receive \/ ReceiveFails)
    /\ WF_vars(Parse)
    /\ WF_vars(failed /\ Disconnect)

-----------------------------------------------------------------------------
(* Properties.                                                             *)

(* Notifications are stored in the order of the changes, and when one is   *)
(* stored every earlier one was stored or some call has failed on it: what *)
(* the kernel drops is never passed over in silence.                       *)
GapsReported ==
    \A i \in 1..Len(delivered) :
        /\ \A j \in 1..(i - 1) : delivered[j] < delivered[i]
        /\ \A e \in 1..delivered[i] :
              e \in reported \/ \E j \in 1..i : delivered[j] = e

(* mnlxt_data_parse() that returns 1 has seen the acknowledgement of the   *)
(* request that was the newest when the buffer was received, not the late  *)
(* one of a request given up, unless a sequence number is 0: that of a     *)
(* filter the caller has reset, or one that mnlxt_send() has wrapped to.   *)
RightAnswer ==
    0 \notin answer.seqs => answer.request = answer.newest

(* The handle is a feed: each step of mnlxt_receive() and                  *)
(* mnlxt_data_parse() gives the caller the oldest notification that it has *)
(* neither got nor been told of, fails on one, or fails for good, after    *)
(* which nothing is given before the handle is connected again.            *)
Feed == INSTANCE EventFeed WITH
    open <- nl, broken <- failed, happened <- emitted, given <- delivered, told <- reported

HandleIsFeed == Feed!Spec

(* Every notification is stored, or the caller is told: by a call that     *)
(* fails on it, or by the failure that makes it disconnect.                *)
EventuallyTold ==
    \A e \in 1..MaxEvents :
        emitted >= e ~> \/ ~nl
                        \/ e \in reported
                        \/ \E i \in 1..Len(delivered) : delivered[i] = e
=============================================================================
