------------------------- MODULE NetlinkHandleProofs -------------------------
(***************************************************************************)
(* A handle loses no notification in silence and takes no late answer for  *)
(* the newest one, for any queue, any number of notifications and requests *)
(* and any range of sequence numbers: NetlinkHandle's HInv is inductive.   *)
(* It implements EventFeed.                                                *)
(***************************************************************************)
EXTENDS NetlinkHandle, TLAPS

(* The number d requests before the one numbered q, with a wrap at most. *)
Behind(q, s, d) == s + d = q \/ s + d = q + SeqLimit

Known(e) == e \in reported \/ \E k \in 1..Len(delivered) : delivered[k] = e

(* e is in the buffer, and of the present connection. *)
Held(e) ==
    buffer # Nothing /\ ~stale /\ buffer.datagram.kind = "event" /\ buffer.datagram.num = e

(* e is in the first n datagrams of the queue. *)
Queued(e, n) == \E i \in 1..n : queue[i].kind = "event" /\ queue[i].num = e

(* Nothing was dropped, and no call has failed. *)
Alive == ~overrun /\ ~failed

RangeInv ==
    /\ \A i \in 1..Len(queue) : queue[i].kind = "event" => queue[i].num \in 1..emitted
    /\ \A e \in Nat : Held(e) => e \in 1..emitted
    /\ \A k \in 1..Len(delivered) : delivered[k] <= emitted

(* The notification in the buffer is the next one that is not known. *)
BufferInv ==
    \A e \in Nat : Held(e) =>
        /\ \A k \in 1..Len(delivered) : delivered[k] < e
        /\ \A f \in 1..(e - 1) : Known(f)

(* The queue's notifications come later, in order. *)
OrderInv ==
    Alive =>
        /\ ~congested
        /\ \A i \in 1..Len(queue) : queue[i].kind = "event" =>
              /\ \A k \in 1..Len(delivered) : delivered[k] < queue[i].num
              /\ \A e \in Nat : Held(e) => e < queue[i].num
              /\ \A j \in 1..(i - 1) : queue[j].kind = "event" => queue[j].num < queue[i].num

(* Every notification is somewhere, and those before a queued one are not  *)
(* behind it.                                                              *)
PlaceInv ==
    Alive =>
        /\ \A e \in 1..emitted : Known(e) \/ Held(e) \/ Queued(e, Len(queue))
        /\ \A i \in 1..Len(queue) : queue[i].kind = "event" =>
              \A e \in 1..(queue[i].num - 1) : Known(e) \/ Held(e) \/ Queued(e, i - 1)

(* The numbers of requests under way count back from the handle's. *)
SeqInv ==
    /\ \A i \in 1..Len(waiting) :
          /\ waiting[i].num <= sent
          /\ Behind(seq, waiting[i].seq, sent - waiting[i].num)
    /\ \A i \in 1..Len(queue) : queue[i].kind = "ack" =>
          /\ queue[i].num <= sent
          /\ Behind(seq, queue[i].seq, sent - queue[i].num)
    /\ buffer # Nothing /\ buffer.datagram.kind = "ack" =>
          /\ buffer.datagram.num <= buffer.newest
          /\ buffer.newest <= MaxSends
          /\ Behind(buffer.seq, buffer.datagram.seq, buffer.newest - buffer.datagram.num)

ClosedInv ==
    /\ ~nl => waiting = <<>> /\ queue = <<>> /\ (buffer = Nothing \/ stale)
    /\ stale => buffer # Nothing

HInv ==
    /\ TypeOK /\ GapsReported /\ RightAnswer /\ ClosedInv
    /\ RangeInv /\ BufferInv /\ OrderInv /\ PlaceInv /\ SeqInv

-----------------------------------------------------------------------------
(* Sequence numbers.                                                       *)

LEMMA NextSeq ==
    ASSUME NEW s \in Seqs
    PROVE  (s + 1) % SeqLimit = IF s + 1 = SeqLimit THEN 0 ELSE s + 1
  BY LimitsAssumption DEF Seqs

LEMMA BehindNext ==
    ASSUME NEW q \in Seqs, NEW s \in Seqs, NEW d \in Nat, d + 1 < SeqLimit, Behind(q, s, d)
    PROVE  Behind((q + 1) % SeqLimit, s, d + 1)
  BY NextSeq, LimitsAssumption DEF Behind, Seqs

LEMMA BehindSame ==
    ASSUME NEW s \in Seqs, NEW d \in Nat, d < SeqLimit, Behind(s, s, d)
    PROVE  d = 0
  BY LimitsAssumption DEF Behind, Seqs

-----------------------------------------------------------------------------
(* Appending to a sequence, and taking its head. *)

LEMMA AppendAt ==
    ASSUME NEW S, NEW q \in Seq(S), NEW x \in S
    PROVE  /\ Append(q, x) \in Seq(S)
           /\ Len(Append(q, x)) = Len(q) + 1
           /\ \A i \in 1..Len(q) : Append(q, x)[i] = q[i]
           /\ Append(q, x)[Len(q) + 1] = x
  OBVIOUS

LEMMA TailAt ==
    ASSUME NEW S, NEW q \in Seq(S), q # <<>>
    PROVE  /\ Head(q) \in S /\ Head(q) = q[1]
           /\ Tail(q) \in Seq(S)
           /\ Len(q) \in Nat /\ Len(q) >= 1
           /\ Len(Tail(q)) = Len(q) - 1
           /\ \A i \in 1..Len(Tail(q)) : Tail(q)[i] = q[i + 1]
  OBVIOUS

LEMMA ElementAt ==
    ASSUME NEW S, NEW q \in Seq(S)
    PROVE  Len(q) \in Nat /\ \A i \in 1..Len(q) : q[i] \in S
  OBVIOUS

LEMMA EmptySeq == ASSUME NEW S PROVE <<>> \in Seq(S) /\ Len(<<>>) = 0
  OBVIOUS

-----------------------------------------------------------------------------
(* Steps that leave the notifications alone, or the sequence numbers.      *)

EventVars == <<failed, queue, congested, overrun, buffer, stale, emitted, delivered, reported>>

EventInv == RangeInv /\ BufferInv /\ OrderInv /\ PlaceInv /\ GapsReported

LEMMA EventsSame == ASSUME EventInv, UNCHANGED EventVars PROVE EventInv'
  BY DEF EventInv, EventVars, RangeInv, BufferInv, OrderInv, PlaceInv, GapsReported, Alive, Known,
         Held, Queued

(* The buffer is emptied of something that is not of this connection. *)
LEMMA EventsDropped ==
    ASSUME EventInv, stale, ~stale', buffer' = Nothing,
           UNCHANGED <<failed, queue, congested, overrun, emitted, delivered, reported>>
    PROVE  EventInv'
<1>1. \A e : Held(e)' = Held(e)
  BY DEF Held
<1>2. RangeInv' /\ BufferInv' /\ GapsReported'
  BY <1>1 DEF EventInv, RangeInv, BufferInv, GapsReported, Known
<1>3. OrderInv' /\ PlaceInv'
  BY <1>1 DEF EventInv, OrderInv, PlaceInv, Alive, Known, Queued
<1> QED
  BY <1>2, <1>3 DEF EventInv

LEMMA InitStep == ASSUME Init PROVE HInv
<1>1. NoAnswer \in Answers
  BY DEF NoAnswer, Answers
<1>2. 0 \in Seqs
  BY LimitsAssumption DEF Seqs
<1>3. TypeOK
  <2>1. /\ nl \in BOOLEAN /\ failed \in BOOLEAN /\ congested \in BOOLEAN /\ overrun \in BOOLEAN
        /\ stale \in BOOLEAN /\ seq \in Seqs /\ answer \in Answers /\ buffer \in Buffers \cup {Nothing}
        /\ reported \in SUBSET (1..MaxEvents)
    BY <1>1, <1>2 DEF Init
  <2>2. sent \in 0..MaxSends /\ emitted \in 0..MaxEvents
    BY LimitsAssumption DEF Init
  <2>3. waiting \in Seq(Requests) /\ queue \in Seq(Datagrams) /\ delivered \in Seq(1..MaxEvents)
    BY EmptySeq DEF Init
  <2>4. Len(queue) <= QueueLimit
    BY EmptySeq, LimitsAssumption DEF Init
  <2> QED
    BY <2>1, <2>2, <2>3, <2>4 DEF TypeOK
<1>4. RightAnswer /\ ClosedInv
  BY DEF Init, RightAnswer, NoAnswer, ClosedInv
<1>5. GapsReported /\ RangeInv /\ BufferInv /\ OrderInv /\ PlaceInv /\ SeqInv
  BY DEF Init, GapsReported, RangeInv, BufferInv, OrderInv, PlaceInv, SeqInv, Alive, Known, Held,
         Queued
<1> QED
  BY <1>3, <1>4, <1>5 DEF HInv

-----------------------------------------------------------------------------
(* Types.                                                                  *)

LEMMA QueueingTypes ==
    ASSUME TypeOK, NEW datagram \in Datagrams, Queueing(datagram)
    PROVE  /\ queue' \in Seq(Datagrams) /\ Len(queue') <= QueueLimit
           /\ congested' \in BOOLEAN /\ overrun' \in BOOLEAN
<1>1. CASE congested \/ Len(queue) = QueueLimit
  BY <1>1 DEF TypeOK, Queueing
<1>2. CASE ~(congested \/ Len(queue) = QueueLimit)
  <2>1. queue \in Seq(Datagrams) /\ Len(queue) \in Nat
    BY DEF TypeOK
  <2>2. queue' = Append(queue, datagram) /\ congested' = congested /\ overrun' = overrun
    BY <1>2 DEF Queueing
  <2>3. queue' \in Seq(Datagrams) /\ Len(queue') = Len(queue) + 1
    BY <2>1, <2>2, AppendAt
  <2> QED
    BY <1>2, <2>1, <2>2, <2>3, LimitsAssumption DEF TypeOK
<1> QED
  BY <1>1, <1>2

LEMMA DequeueTypes ==
    ASSUME TypeOK, Dequeue
    PROVE  /\ queue' \in Seq(Datagrams) /\ Len(queue') <= QueueLimit
           /\ congested' \in BOOLEAN /\ overrun' \in BOOLEAN
           /\ Head(queue) \in Datagrams
<1>1. queue \in Seq(Datagrams) /\ queue # <<>>
  BY DEF TypeOK, Dequeue
<1>2. /\ Tail(queue) \in Seq(Datagrams) /\ Head(queue) \in Datagrams
      /\ Len(queue) \in Nat /\ Len(Tail(queue)) = Len(queue) - 1
  BY <1>1, TailAt
<1> QED
  BY <1>2, LimitsAssumption DEF TypeOK, Dequeue

LEMMA NotifiesTypes == ASSUME HInv, KernelNotifies PROVE TypeOK'
<1>1. PICK kind \in {"event", "unsupported"}, origin \in {"kernel", "own", "other"}, s \in Seqs :
          Queueing([kind   |-> kind,
                    num    |-> IF kind = "event" THEN emitted + 1 ELSE 0,
                    portid |-> origin,
                    seq    |-> s])
  BY DEF KernelNotifies
<1>2. [kind   |-> kind, num |-> IF kind = "event" THEN emitted + 1 ELSE 0,
       portid |-> origin, seq |-> s] \in Datagrams
  BY LimitsAssumption DEF HInv, TypeOK, Datagrams
<1>3. emitted' \in 0..MaxEvents
  BY LimitsAssumption DEF HInv, TypeOK, KernelNotifies
<1> QED
  BY <1>1, <1>2, <1>3, QueueingTypes DEF HInv, TypeOK, KernelNotifies

LEMMA AnswersTypes == ASSUME HInv, KernelAnswers PROVE TypeOK'
<1>1. Head(waiting) \in Requests /\ waiting' \in Seq(Requests)
  BY TailAt DEF HInv, TypeOK, KernelAnswers
<1>2. PICK kind \in {"ack", "nack"} :
          Queueing([kind |-> kind, num |-> Head(waiting).num, portid |-> "own",
                    seq  |-> Head(waiting).seq])
  BY DEF KernelAnswers
<1>3. [kind |-> kind, num |-> Head(waiting).num, portid |-> "own", seq |-> Head(waiting).seq]
          \in Datagrams
  BY <1>1 DEF Datagrams, Requests
<1> QED
  BY <1>1, <1>2, <1>3, QueueingTypes DEF HInv, TypeOK, KernelAnswers

LEMMA SendTypes == ASSUME HInv, Send PROVE TypeOK'
<1>1. sent + 1 \in 1..MaxSends /\ sent' = sent + 1
  BY LimitsAssumption DEF HInv, TypeOK, Send
<1>2. seq' \in Seqs
  BY NextSeq, LimitsAssumption DEF HInv, TypeOK, Send, Seqs
<1>3. waiting' \in Seq(Requests)
  <2>1. [num |-> sent', seq |-> seq'] \in Requests
    BY <1>1, <1>2 DEF Requests
  <2>2. waiting \in Seq(Requests)
    BY DEF HInv, TypeOK
  <2>3. Append(waiting, [num |-> sent', seq |-> seq']) \in Seq(Requests)
    BY <2>1, <2>2, AppendAt
  <2> QED
    BY <2>2, <2>3 DEF Send
<1> QED
  BY <1>1, <1>2, <1>3, LimitsAssumption DEF HInv, TypeOK, Send

LEMMA ReceiveTypes == ASSUME HInv, Receive PROVE TypeOK'
<1>1. [datagram |-> Head(queue), seq |-> seq, newest |-> sent] \in Buffers
  BY DequeueTypes, LimitsAssumption DEF HInv, TypeOK, Receive, Buffers
<1> QED
  BY <1>1, DequeueTypes DEF HInv, TypeOK, Receive

LEMMA ReceiveFailsTypes == ASSUME HInv, ReceiveFails PROVE TypeOK'
<1>1. CASE overrun
  BY <1>1 DEF HInv, TypeOK, ReceiveFails
<1>2. CASE ~overrun
  <2>1. Dequeue /\ Told(Head(queue))
    BY <1>2 DEF ReceiveFails
  <2>2. queue \in Seq(Datagrams) /\ queue # <<>>
    BY <2>1 DEF HInv, TypeOK, Dequeue
  <2>3. Head(queue) = queue[1] /\ 1 \in 1..Len(queue)
    BY <2>2, TailAt
  <2>4. Head(queue).kind = "event" => Head(queue).num \in 1..MaxEvents
    BY <2>3, LimitsAssumption DEF HInv, TypeOK, RangeInv
  <2>5. reported' \in SUBSET (1..MaxEvents)
    BY <2>1, <2>4 DEF Told, HInv, TypeOK
  <2> QED
    BY <2>1, <2>5, DequeueTypes DEF HInv, TypeOK, ReceiveFails
<1> QED
  BY <1>1, <1>2

LEMMA ParseTypes ==
    ASSUME HInv, NEW portid \in {0, 1}, NEW s \in Seqs, DataParse(portid, s)
    PROVE  TypeOK'
<1>1. buffer \in Buffers /\ buffer.datagram \in Datagrams
  BY DEF HInv, TypeOK, DataParse, Buffers
<1>2. buffer.datagram.kind = "event" /\ ~stale => buffer.datagram.num \in 1..MaxEvents
  BY <1>1, LimitsAssumption DEF HInv, TypeOK, RangeInv, Held, DataParse, Datagrams
<1>3. reported' \in SUBSET (1..MaxEvents)
  BY <1>2 DEF Told, HInv, TypeOK, DataParse
<1>4. delivered' \in Seq(1..MaxEvents)
  <2>1. delivered \in Seq(1..MaxEvents)
    BY DEF HInv, TypeOK
  <2>2. CASE buffer.datagram.kind = "event" /\ ~stale
    <3>1. Append(delivered, buffer.datagram.num) \in Seq(1..MaxEvents)
      BY <1>2, <2>1, <2>2, AppendAt
    <3> QED
      BY <2>1, <2>2, <3>1 DEF DataParse, Stored
  <2>3. CASE buffer.datagram.kind # "event" \/ stale
    <3>1. UNCHANGED delivered
      BY <2>3 DEF DataParse, Stored
    <3> QED
      BY <2>1, <3>1
  <2> QED
    BY <2>2, <2>3
<1>5. answer' \in Answers
  BY <1>1 DEF HInv, TypeOK, DataParse, Answers, Buffers, Datagrams
<1> QED
  BY <1>3, <1>4, <1>5 DEF HInv, TypeOK, DataParse, kernelVars

LEMMA DisconnectTypes == ASSUME HInv, Disconnect PROVE TypeOK'
<1>1. NoAnswer \in Answers
  BY DEF NoAnswer, Answers
<1> QED
  <2>1. /\ nl' \in BOOLEAN /\ failed' \in BOOLEAN /\ congested' \in BOOLEAN
        /\ overrun' \in BOOLEAN /\ stale' \in BOOLEAN /\ seq' \in Seqs /\ answer' \in Answers
        /\ buffer' \in Buffers \cup {Nothing} /\ reported' \in SUBSET (1..MaxEvents)
    BY <1>1 DEF HInv, TypeOK, Disconnect
  <2>2. sent' \in 0..MaxSends /\ emitted' \in 0..MaxEvents
    BY LimitsAssumption DEF Disconnect
  <2>3. /\ waiting' \in Seq(Requests) /\ queue' \in Seq(Datagrams)
        /\ delivered' \in Seq(1..MaxEvents)
    BY EmptySeq DEF Disconnect
  <2>4. Len(queue') <= QueueLimit
    BY EmptySeq, LimitsAssumption DEF Disconnect
  <2> QED
    BY <2>1, <2>2, <2>3, <2>4 DEF TypeOK

LEMMA NextTypes == ASSUME HInv, Next PROVE TypeOK'
<1>1. CASE Connect
  BY <1>1 DEF HInv, TypeOK, Connect, kernelVars
<1>2. CASE Parse
  <2>1. buffer \in Buffers
    BY <1>2 DEF HInv, TypeOK, Parse
  <2>2. buffer.seq \in Seqs /\ 0 \in Seqs
    BY <2>1, LimitsAssumption DEF Buffers, Seqs
  <2> QED
    BY <1>2, <2>2, ParseTypes DEF Parse
<1>3. CASE BufferClean
  BY <1>3 DEF HInv, TypeOK, BufferClean, kernelVars
<1> QED
  BY <1>1, <1>2, <1>3, NotifiesTypes, AnswersTypes, SendTypes, ReceiveTypes, ReceiveFailsTypes,
     DisconnectTypes DEF Next

-----------------------------------------------------------------------------
(* Nothing is under way on a handle that is closed, whose buffer may hold  *)
(* what it has received before.                                            *)

LEMMA NextClosed == ASSUME HInv, Next PROVE ClosedInv'
<1>1. CASE KernelAnswers
  BY <1>1 DEF HInv, ClosedInv, KernelAnswers
<1>2. CASE Parse \/ BufferClean
  BY <1>2 DEF HInv, ClosedInv, Parse, DataParse, BufferClean, kernelVars
<1>3. CASE Connect \/ Send \/ KernelNotifies
  BY <1>3 DEF HInv, ClosedInv, Connect, Send, KernelNotifies, kernelVars
<1>4. CASE Receive
  <2>1. nl' /\ ~stale'
    BY <1>4 DEF HInv, ClosedInv, Receive
  <2> QED
    BY <2>1 DEF ClosedInv
<1>5. CASE ReceiveFails
  BY <1>5 DEF HInv, ClosedInv, ReceiveFails
<1>6. CASE Disconnect
  BY <1>6 DEF ClosedInv, Disconnect
<1> QED
  BY <1>1, <1>2, <1>3, <1>4, <1>5, <1>6 DEF Next

-----------------------------------------------------------------------------
(* The places of the notifications.                                        *)

(* The queue afterwards: as it was, or longer by one datagram. *)
LEMMA QueuedAtEnd ==
    ASSUME HInv, NEW datagram \in Datagrams, Queueing(datagram)
    PROVE  /\ Len(queue) \in Nat
           /\ \/ UNCHANGED queue /\ (Alive => overrun')
              \/ /\ Len(queue') = Len(queue) + 1
                 /\ \A i \in 1..Len(queue) : queue'[i] = queue[i]
                 /\ queue'[Len(queue) + 1] = datagram
                 /\ UNCHANGED <<congested, overrun>>
<1>1. queue \in Seq(Datagrams) /\ congested \in BOOLEAN
  BY DEF HInv, TypeOK
<1>2. Len(queue) \in Nat
  BY <1>1
<1>3. CASE congested \/ Len(queue) = QueueLimit
  BY <1>1, <1>2, <1>3 DEF Queueing, HInv, OrderInv
<1>4. CASE ~(congested \/ Len(queue) = QueueLimit)
  <2>1. queue' = Append(queue, datagram) /\ UNCHANGED <<congested, overrun>>
    BY <1>4 DEF Queueing
  <2> QED
    BY <1>1, <1>2, <2>1, AppendAt
<1> QED
  BY <1>3, <1>4

(* The numbers of the notifications, and the sequences that hold them. *)
LEMMA NumbersTyped ==
    ASSUME HInv
    PROVE  /\ emitted \in Nat /\ queue \in Seq(Datagrams) /\ Len(queue) \in Nat
           /\ \A i \in 1..Len(queue) : queue[i] \in Datagrams /\ queue[i].num \in Nat
           /\ delivered \in Seq(1..MaxEvents) /\ Len(delivered) \in Nat
           /\ \A k \in 1..Len(delivered) : delivered[k] \in 1..MaxEvents /\ delivered[k] \in Nat
<1>1. queue \in Seq(Datagrams) /\ delivered \in Seq(1..MaxEvents) /\ emitted \in Nat
  BY LimitsAssumption DEF HInv, TypeOK
<1>2. \A i \in 1..Len(queue) : queue[i] \in Datagrams
  BY <1>1
<1>3. \A i \in 1..Len(queue) : queue[i].num \in Nat
  BY <1>2 DEF Datagrams
<1>4. Len(delivered) \in Nat /\ \A k \in 1..Len(delivered) : delivered[k] \in 1..MaxEvents
  BY <1>1, ElementAt
<1> QED
  BY <1>1, <1>2, <1>3, <1>4, LimitsAssumption

(* A datagram more, which holds the newest notification or none. *)
LEMMA QueueingEvents ==
    ASSUME HInv, NEW datagram \in Datagrams, Queueing(datagram),
           UNCHANGED <<failed, buffer, stale, delivered, reported>>,
           \/ datagram.kind # "event" /\ emitted' = emitted
           \/ datagram.kind = "event" /\ datagram.num = emitted + 1 /\ emitted' = emitted + 1
    PROVE  EventInv'
<1> DEFINE n == Len(queue)
<1>1. /\ n \in Nat /\ emitted \in Nat
      /\ \A i \in 1..n : queue[i].num \in Nat
      /\ \A k \in 1..Len(delivered) : delivered[k] \in Nat
  BY NumbersTyped
<1>2. \/ UNCHANGED queue /\ ~Alive'
      \/ /\ Len(queue') = n + 1
         /\ \A i \in 1..n : queue'[i] = queue[i]
         /\ queue'[n + 1] = datagram
         /\ Alive' => Alive
         /\ UNCHANGED congested
      \/ UNCHANGED queue /\ ~Alive
  BY QueuedAtEnd DEF Alive
<1>3. Alive' => Alive
  BY DEF Alive, Queueing
<1>4. RangeInv'
  <2>1. \A e \in Nat : Held(e)' => e \in 1..emitted'
    BY <1>1 DEF HInv, RangeInv, Held
  <2>2. \A k \in 1..Len(delivered') : delivered'[k] <= emitted'
    BY <1>1 DEF HInv, RangeInv
  <2>3. \A i \in 1..Len(queue') : queue'[i].kind = "event" => queue'[i].num \in 1..emitted'
    <3>1. CASE UNCHANGED queue
      BY <1>1, <3>1 DEF HInv, RangeInv
    <3>2. CASE /\ Len(queue') = n + 1
               /\ \A i \in 1..n : queue'[i] = queue[i]
               /\ queue'[n + 1] = datagram
      <4>1. \A i \in 1..(n + 1) : i \in 1..n \/ i = n + 1
        BY <1>1
      <4>2. datagram.kind = "event" => datagram.num \in 1..emitted'
        BY <1>1
      <4> QED
        BY <1>1, <3>2, <4>1, <4>2 DEF HInv, RangeInv
    <3> QED
      BY <1>2, <3>1, <3>2
  <2> QED
    BY <2>1, <2>2, <2>3 DEF RangeInv
<1>5. BufferInv' /\ GapsReported'
  <2>1. BufferInv'
    BY DEF HInv, BufferInv, Held, Known
  <2>2. GapsReported'
    BY DEF HInv, GapsReported
  <2> QED
    BY <2>1, <2>2
<1>6. OrderInv'
  <2> SUFFICES ASSUME Alive' PROVE OrderInv'
    BY DEF OrderInv
  <2>1. /\ Len(queue') = n + 1
        /\ \A i \in 1..n : queue'[i] = queue[i]
        /\ queue'[n + 1] = datagram
        /\ Alive /\ ~congested' 
    BY <1>2, <1>3 DEF HInv, OrderInv
  <2>2. \A i \in 1..n : queue[i].kind = "event" => queue[i].num \in 1..emitted
    BY DEF HInv, RangeInv
  <2> SUFFICES ASSUME NEW i \in 1..(n + 1), queue'[i].kind = "event"
               PROVE  /\ \A k \in 1..Len(delivered) : delivered[k] < queue'[i].num
                      /\ \A e \in Nat : Held(e) => e < queue'[i].num
                      /\ \A j \in 1..(i - 1) :
                            queue'[j].kind = "event" => queue'[j].num < queue'[i].num
    BY <2>1 DEF OrderInv, Held
  <2>3. CASE i \in 1..n
    <3>1. \A j \in 1..(i - 1) : j \in 1..n
      BY <1>1, <2>3
    <3> QED
      BY <2>1, <2>3, <3>1 DEF HInv, OrderInv
  <2>4. CASE i = n + 1
    <3>1. queue'[i].num = emitted + 1
      BY <2>1, <2>4
    <3>2. \A k \in 1..Len(delivered) : delivered[k] < queue'[i].num
      BY <1>1, <3>1 DEF HInv, RangeInv
    <3>3. \A e \in Nat : Held(e) => e < queue'[i].num
      BY <1>1, <3>1 DEF HInv, RangeInv
    <3>4. \A j \in 1..(i - 1) : queue'[j].kind = "event" => queue'[j].num < queue'[i].num
      <4> TAKE j \in 1..(i - 1)
      <4>1. j \in 1..n
        BY <1>1, <2>4
      <4> QED
        BY <1>1, <2>1, <2>2, <3>1, <4>1
    <3> QED
      BY <3>2, <3>3, <3>4
  <2>5. i \in 1..n \/ i = n + 1
    BY <1>1
  <2> QED
    BY <2>3, <2>4, <2>5
<1>7. PlaceInv'
  <2> SUFFICES ASSUME Alive' PROVE PlaceInv'
    BY DEF PlaceInv
  <2>1. /\ Len(queue') = n + 1
        /\ \A i \in 1..n : queue'[i] = queue[i]
        /\ queue'[n + 1] = datagram
        /\ Alive
    BY <1>2, <1>3
  <2>2. \A e : Known(e)' = Known(e) /\ Held(e)' = Held(e)
    BY DEF Known, Held
  <2>3. \A e, m : m \in 0..n => (Queued(e, m)' <=> Queued(e, m))
    <3>1. \A m \in 0..n : \A i \in 1..m : queue'[i] = queue[i]
      BY <1>1, <2>1
    <3> QED
      BY <3>1 DEF Queued
  <2>4. \A e : Queued(e, n) => Queued(e, Len(queue))'
    BY <1>1, <2>1 DEF Queued
  <2>5. \A e \in 1..emitted' : Known(e)' \/ Held(e)' \/ Queued(e, Len(queue))'
    <3> TAKE e \in 1..emitted'
    <3>1. CASE e \in 1..emitted
      BY <2>1, <2>2, <2>4, <3>1 DEF HInv, PlaceInv
    <3>2. CASE e \notin 1..emitted
      <4>1. datagram.kind = "event" /\ datagram.num = e
        BY <1>1, <3>2
      <4>2. n + 1 \in 1..(n + 1)
        BY <1>1
      <4>3. Queued(e, Len(queue))'
        BY <2>1, <4>1, <4>2 DEF Queued
      <4> QED
        BY <4>3
    <3> QED
      BY <3>1, <3>2
  <2>6. \A i \in 1..(n + 1) : queue'[i].kind = "event" =>
            \A e \in 1..(queue'[i].num - 1) : Known(e)' \/ Held(e)' \/ Queued(e, i - 1)'
    <3> SUFFICES ASSUME NEW i \in 1..(n + 1), queue'[i].kind = "event",
                        NEW e \in 1..(queue'[i].num - 1)
                 PROVE  Known(e) \/ Held(e) \/ Queued(e, i - 1)'
      BY <2>2
    <3>1. CASE i \in 1..n
      <4>1. Known(e) \/ Held(e) \/ Queued(e, i - 1)
        BY <2>1, <3>1 DEF HInv, PlaceInv
      <4> QED
        BY <1>1, <2>3, <3>1, <4>1
    <3>2. CASE i = n + 1
      <4>1. e \in 1..emitted
        BY <1>1, <2>1, <3>2
      <4>2. Known(e) \/ Held(e) \/ Queued(e, n)
        BY <2>1, <4>1 DEF HInv, PlaceInv
      <4> QED
        BY <1>1, <2>3, <3>2, <4>2
    <3> QED
      BY <1>1, <3>1, <3>2
  <2> QED
    BY <2>1, <2>5, <2>6 DEF PlaceInv, Known, Held, Queued
<1> QED
  BY <1>4, <1>5, <1>6, <1>7 DEF EventInv

(* What a datagram less leaves in the queue. *)
LEMMA DequeuedAt ==
    ASSUME HInv, Dequeue
    PROVE  /\ Len(queue) \in Nat /\ Len(queue) >= 1 /\ Len(queue') = Len(queue) - 1
           /\ Head(queue) = queue[1] /\ queue[1] \in Datagrams
           /\ \A i \in 1..Len(queue') : queue'[i] = queue[i + 1] /\ i + 1 \in 1..Len(queue)
<1>1. queue \in Seq(Datagrams) /\ queue # <<>> /\ queue' = Tail(queue)
  BY DEF HInv, TypeOK, Dequeue
<1> QED
  BY <1>1, TailAt

LEMMA ReceiveEvents == ASSUME HInv, Receive PROVE EventInv'
<1> DEFINE n == Len(queue)
<1>1. /\ n \in Nat /\ n >= 1 /\ Len(queue') = n - 1
      /\ Head(queue) = queue[1] /\ queue[1] \in Datagrams
      /\ \A i \in 1..(n - 1) : queue'[i] = queue[i + 1] /\ i + 1 \in 1..n
      /\ 1 \in 1..n
  BY DequeuedAt DEF Receive
<1>2. /\ buffer'.datagram = queue[1] /\ buffer' # Nothing /\ ~stale'
      /\ UNCHANGED <<failed, overrun, emitted, delivered, reported>>
  <2>1. buffer' = [datagram |-> queue[1], seq |-> seq, newest |-> sent]
    BY <1>1 DEF Receive
  <2>2. buffer' \in Buffers
    BY <1>1, <2>1, LimitsAssumption DEF HInv, TypeOK, Buffers
  <2> QED
    BY <2>1, <2>2, NothingAssumption DEF HInv, ClosedInv, Receive, Dequeue
<1>3. /\ Alive /\ ~congested
      /\ \A e : ~Held(e)
      /\ \A e : Known(e)' = Known(e)
      /\ \A e : Held(e)' <=> queue[1].kind = "event" /\ e = queue[1].num
  BY <1>2 DEF Receive, Alive, HInv, OrderInv, Held, Known
<1>4. \A i \in 1..n : queue[i].kind = "event" =>
          /\ queue[i].num \in 1..emitted
          /\ \A k \in 1..Len(delivered) : delivered[k] < queue[i].num
          /\ \A j \in 1..(i - 1) : queue[j].kind = "event" => queue[j].num < queue[i].num
          /\ \A e \in 1..(queue[i].num - 1) : Known(e) \/ Queued(e, i - 1)
  BY <1>3 DEF HInv, RangeInv, OrderInv, PlaceInv
<1>5. RangeInv'
  BY <1>1, <1>2, <1>3, <1>4 DEF HInv, RangeInv
<1>6. BufferInv'
  <2>1. \A e : ~Queued(e, 0)
    BY DEF Queued
  <2>2. queue[1].kind = "event" => \A e \in 1..(queue[1].num - 1) : Known(e)
    BY <1>1, <1>4, <2>1
  <2>3. queue[1].kind = "event" => \A k \in 1..Len(delivered) : delivered[k] < queue[1].num
    BY <1>1, <1>4
  <2> QED
    BY <1>2, <1>3, <2>2, <2>3 DEF BufferInv
<1>7. GapsReported'
  BY <1>2 DEF HInv, GapsReported
<1>8. ~congested'
  BY <1>3 DEF Receive, Dequeue
<1>9. OrderInv'
  <2> SUFFICES ASSUME NEW i \in 1..(n - 1), queue'[i].kind = "event"
               PROVE  /\ \A k \in 1..Len(delivered) : delivered[k] < queue'[i].num
                      /\ \A e \in Nat : Held(e)' => e < queue'[i].num
                      /\ \A j \in 1..(i - 1) :
                            queue'[j].kind = "event" => queue'[j].num < queue'[i].num
    BY <1>1, <1>2, <1>8 DEF OrderInv
  <2>1. queue'[i] = queue[i + 1] /\ i + 1 \in 1..n /\ 1 \in 1..((i + 1) - 1)
    BY <1>1
  <2>2. \A j \in 1..(i - 1) : queue'[j] = queue[j + 1] /\ j + 1 \in 1..((i + 1) - 1)
    BY <1>1
  <2> QED
    BY <1>3, <1>4, <2>1, <2>2
<1>10. \A e, m : m \in 1..n /\ Queued(e, m) => Held(e)' \/ Queued(e, m - 1)'
  <2> SUFFICES ASSUME NEW e, NEW m \in 1..n,
                      NEW i \in 1..m, queue[i].kind = "event", queue[i].num = e, ~Held(e)'
               PROVE  Queued(e, m - 1)'
    BY DEF Queued
  <2>1. i # 1
    BY <1>3
  <2>2. i - 1 \in 1..(m - 1) /\ i - 1 \in 1..(n - 1) /\ (i - 1) + 1 = i
    BY <1>1, <2>1
  <2>3. queue'[i - 1] = queue[i]
    BY <1>1, <2>2
  <2> QED
    BY <2>2, <2>3 DEF Queued
<1>11. PlaceInv'
  <2>1. \A e \in 1..emitted : Known(e)' \/ Held(e)' \/ Queued(e, Len(queue))'
    <3> TAKE e \in 1..emitted
    <3>1. Known(e) \/ Queued(e, n)
      BY <1>3 DEF HInv, PlaceInv
    <3>2. n \in 1..n /\ Len(queue') = n - 1
      BY <1>1
    <3>3. Queued(e, n) => Held(e)' \/ Queued(e, Len(queue))'
      BY <1>10, <3>2 DEF Queued
    <3> QED
      BY <1>3, <3>1, <3>3
  <2>2. \A i \in 1..(n - 1) : queue'[i].kind = "event" =>
            \A e \in 1..(queue'[i].num - 1) : Known(e)' \/ Held(e)' \/ Queued(e, i - 1)'
    <3> SUFFICES ASSUME NEW i \in 1..(n - 1), queue'[i].kind = "event",
                        NEW e \in 1..(queue'[i].num - 1)
                 PROVE  Known(e)' \/ Held(e)' \/ Queued(e, i - 1)'
      OBVIOUS
    <3>1. queue'[i] = queue[i + 1] /\ i + 1 \in 1..n /\ (i + 1) - 1 = i /\ i \in 1..n
      BY <1>1
    <3>2. Known(e) \/ Queued(e, i)
      BY <1>4, <3>1
    <3> QED
      BY <1>3, <1>10, <3>1, <3>2
  <2> QED
    BY <1>1, <1>2, <2>1, <2>2 DEF PlaceInv, Known, Held, Queued
<1> QED
  BY <1>5, <1>6, <1>7, <1>9, <1>11 DEF EventInv

LEMMA ReceiveFailsEvents == ASSUME HInv, ReceiveFails PROVE EventInv'
<1>1. ~Alive' /\ buffer' = Nothing /\ UNCHANGED <<emitted, delivered>> /\ reported \subseteq reported'
  BY DEF ReceiveFails, Told, Alive
<1>2. OrderInv' /\ PlaceInv'
  BY <1>1 DEF OrderInv, PlaceInv
<1>3. BufferInv'
  BY <1>1 DEF BufferInv, Held
<1>4. GapsReported'
  BY <1>1 DEF HInv, GapsReported
<1>5. RangeInv'
  <2>1. CASE Dequeue
    BY <1>1, <2>1, DequeuedAt DEF HInv, RangeInv, Held
  <2>2. CASE UNCHANGED queue
    BY <1>1, <2>2 DEF HInv, RangeInv, Held
  <2> QED
    BY <2>1, <2>2 DEF ReceiveFails
<1> QED
  BY <1>2, <1>3, <1>4, <1>5 DEF EventInv

(* The parsed notification is stored, or a call fails on it. *)
LEMMA ParseEvents ==
    ASSUME HInv, ~stale, NEW portid \in {0, 1}, NEW s \in Seqs, DataParse(portid, s)
    PROVE  EventInv'
<1> DEFINE x == buffer.datagram.num
           m == Len(delivered)
<1>1. /\ buffer' = Nothing /\ UNCHANGED <<failed, queue, congested, overrun, emitted>>
      /\ buffer.datagram \in Datagrams /\ x \in Nat
      /\ \A e : Held(e) <=> buffer.datagram.kind = "event" /\ e = x
      /\ \A e : ~Held(e)'
  BY DEF DataParse, HInv, TypeOK, Buffers, Datagrams, Held, kernelVars
<1>2. /\ delivered \in Seq(1..MaxEvents) /\ m \in Nat
      /\ \A k \in 1..m : delivered[k] \in Nat
      /\ emitted \in Nat /\ Len(queue) \in Nat
      /\ \A i \in 1..Len(queue) : queue[i].num \in Nat
  BY NumbersTyped
<1>3. \/ /\ buffer.datagram.kind = "event" /\ UNCHANGED reported
         /\ Len(delivered') = m + 1 /\ delivered'[m + 1] = x
         /\ \A k \in 1..m : delivered'[k] = delivered[k]
      \/ /\ UNCHANGED delivered /\ reported \subseteq reported'
         /\ buffer.datagram.kind = "event" => x \in reported'
  <2>1. CASE buffer.datagram.kind = "event" /\ delivered' = Append(delivered, x) /\ UNCHANGED reported
    <3>1. Held(x) /\ x \in Nat /\ emitted \in 0..MaxEvents
      BY <1>1, <2>1 DEF HInv, TypeOK
    <3>2. x \in 1..emitted
      BY <3>1 DEF HInv, RangeInv
    <3>3. x \in 1..MaxEvents
      BY <3>1, <3>2, LimitsAssumption
    <3> QED
      BY <1>2, <2>1, <3>3, AppendAt
  <2>2. CASE buffer.datagram.kind # "event" /\ UNCHANGED <<delivered, reported>>
    BY <2>2
  <2>3. CASE Told(buffer.datagram) /\ UNCHANGED delivered
    BY <2>3 DEF Told
  <2> QED
    BY <2>1, <2>2, <2>3 DEF DataParse, Stored
<1>4. \A e : Known(e) \/ Held(e) => Known(e)'
  BY <1>1, <1>2, <1>3 DEF Known
<1>5. \A e : Held(e) => e \in 1..emitted /\ e \in Nat
  BY <1>1, <1>2 DEF HInv, RangeInv
<1>6. RangeInv'
  BY <1>1, <1>2, <1>3, <1>5 DEF HInv, RangeInv
<1>7. BufferInv'
  BY <1>1 DEF BufferInv
<1>8. OrderInv'
  <2> SUFFICES ASSUME Alive, NEW i \in 1..Len(queue), queue[i].kind = "event"
               PROVE  \A k \in 1..Len(delivered') : delivered'[k] < queue[i].num
    BY <1>1 DEF HInv, OrderInv, Alive
  <2>1. /\ \A k \in 1..m : delivered[k] < queue[i].num
        /\ \A e \in Nat : Held(e) => e < queue[i].num
    BY DEF HInv, OrderInv
  <2>2. CASE UNCHANGED delivered
    BY <2>1, <2>2
  <2>3. CASE /\ buffer.datagram.kind = "event"
             /\ Len(delivered') = m + 1 /\ delivered'[m + 1] = x
             /\ \A k \in 1..m : delivered'[k] = delivered[k]
    <3>1. x < queue[i].num
      BY <1>1, <2>1, <2>3
    <3> QED
      BY <1>2, <2>1, <2>3, <3>1
  <2> QED
    BY <1>3, <2>2, <2>3
<1>9. PlaceInv'
  BY <1>1, <1>4 DEF HInv, PlaceInv, Alive, Queued
<1>10. GapsReported'
  <2>1. CASE UNCHANGED delivered /\ reported \subseteq reported'
    BY <2>1 DEF HInv, GapsReported
  <2>2. CASE /\ buffer.datagram.kind = "event" /\ UNCHANGED reported
             /\ Len(delivered') = m + 1 /\ delivered'[m + 1] = x
             /\ \A k \in 1..m : delivered'[k] = delivered[k]
    <3> SUFFICES ASSUME NEW i \in 1..(m + 1)
                 PROVE  /\ \A j \in 1..(i - 1) : delivered'[j] < delivered'[i]
                        /\ \A e \in 1..delivered'[i] :
                              e \in reported \/ \E j \in 1..i : delivered'[j] = e
      BY <2>2 DEF GapsReported
    <3>0. i \in 1..m \/ i = m + 1
      BY <1>2
    <3>1. CASE i \in 1..m
      <4>1. /\ delivered'[i] = delivered[i]
            /\ \A j \in 1..i : delivered'[j] = delivered[j]
            /\ \A j \in 1..(i - 1) : delivered'[j] = delivered[j]
        BY <1>2, <2>2, <3>1
      <4>2. /\ \A j \in 1..(i - 1) : delivered[j] < delivered[i]
            /\ \A e \in 1..delivered[i] : e \in reported \/ \E j \in 1..i : delivered[j] = e
        BY <3>1 DEF HInv, GapsReported
      <4> QED
        BY <4>1, <4>2
    <3>2. CASE i = m + 1
      <4>1. /\ \A k \in 1..m : delivered[k] < x
            /\ \A f \in 1..(x - 1) : Known(f)
        BY <1>1, <2>2 DEF HInv, BufferInv
      <4>2. \A j \in 1..(i - 1) : delivered'[j] < delivered'[i]
        BY <1>2, <2>2, <3>2, <4>1
      <4>3. ASSUME NEW e \in 1..delivered'[i]
            PROVE  e \in reported \/ \E j \in 1..i : delivered'[j] = e
        <5>1. CASE e = x
          BY <1>2, <2>2, <3>2, <5>1
        <5>2. CASE e # x
          <6>1. Known(e)
            BY <1>1, <2>2, <3>2, <4>1, <5>2
          <6> QED
            <7>1. CASE e \in reported
              BY <7>1
            <7>2. CASE \E k \in 1..m : delivered[k] = e
              <8>1. PICK k \in 1..m : delivered[k] = e
                BY <7>2
              <8>2. k \in 1..i /\ delivered'[k] = e
                BY <1>2, <2>2, <3>2, <8>1
              <8> QED
                BY <8>2
            <7> QED
              BY <6>1, <7>1, <7>2 DEF Known
        <5> QED
          BY <5>1, <5>2
      <4> QED
        BY <4>2, <4>3
    <3> QED
      BY <3>0, <3>1, <3>2
  <2> QED
    BY <1>3, <2>1, <2>2
<1> QED
  BY <1>6, <1>7, <1>8, <1>9, <1>10 DEF EventInv

LEMMA NextEvents == ASSUME HInv, Next PROVE EventInv'
<1>1. EventInv
  BY DEF HInv, EventInv
<1>2. CASE KernelNotifies
  <2>1. PICK kind \in {"event", "unsupported"}, origin \in {"kernel", "own", "other"}, s \in Seqs :
            /\ Queueing([kind   |-> kind,
                         num    |-> IF kind = "event" THEN emitted + 1 ELSE 0,
                         portid |-> origin,
                         seq    |-> s])
            /\ emitted' = IF kind = "event" THEN emitted + 1 ELSE emitted
    BY <1>2 DEF KernelNotifies
  <2> DEFINE datagram == [kind   |-> kind,
                          num    |-> IF kind = "event" THEN emitted + 1 ELSE 0,
                          portid |-> origin,
                          seq    |-> s]
  <2>2. datagram \in Datagrams
    BY LimitsAssumption DEF HInv, TypeOK, Datagrams
  <2>3. \/ datagram.kind # "event" /\ emitted' = emitted
        \/ datagram.kind = "event" /\ datagram.num = emitted + 1 /\ emitted' = emitted + 1
    BY <2>1
  <2>4. UNCHANGED <<failed, buffer, stale, delivered, reported>>
    BY <1>2 DEF KernelNotifies
  <2> HIDE DEF datagram
  <2>5. Queueing(datagram)
    BY <2>1 DEF datagram
  <2> QED
    BY <2>2, <2>3, <2>4, <2>5, QueueingEvents
<1>3. CASE KernelAnswers
  <2>1. PICK kind \in {"ack", "nack"} :
            Queueing([kind |-> kind, num |-> Head(waiting).num, portid |-> "own",
                      seq  |-> Head(waiting).seq])
    BY <1>3 DEF KernelAnswers
  <2> DEFINE datagram == [kind |-> kind, num |-> Head(waiting).num, portid |-> "own",
                          seq  |-> Head(waiting).seq]
  <2>2. Head(waiting) \in Requests
    BY <1>3, TailAt DEF HInv, TypeOK, KernelAnswers
  <2>3. datagram \in Datagrams /\ datagram.kind # "event"
    BY <2>2 DEF Datagrams, Requests
  <2>4. UNCHANGED <<failed, buffer, stale, emitted, delivered, reported>>
    BY <1>3 DEF KernelAnswers
  <2> HIDE DEF datagram
  <2>5. Queueing(datagram)
    BY <2>1 DEF datagram
  <2> QED
    BY <2>3, <2>4, <2>5, QueueingEvents
<1>4. CASE Connect \/ Send
  BY <1>1, <1>4, EventsSame DEF Connect, Send, kernelVars, EventVars
<1>5. CASE Parse
  <2>1. buffer \in Buffers
    BY <1>5 DEF HInv, TypeOK, Parse
  <2>2. buffer.seq \in Seqs /\ 0 \in Seqs
    BY <2>1, LimitsAssumption DEF Buffers, Seqs
  <2>3. CASE stale
    <3>1. /\ buffer' = Nothing /\ ~stale'
          /\ UNCHANGED <<failed, queue, congested, overrun, emitted, delivered, reported>>
      BY <1>5, <2>3 DEF Parse, DataParse, Stored, Told, kernelVars
    <3> QED
      BY <1>1, <2>3, <3>1, EventsDropped
  <2>4. CASE ~stale
    BY <1>5, <2>2, <2>4, ParseEvents DEF Parse
  <2> QED
    BY <2>3, <2>4
<1>6. CASE Disconnect
  <2>1. /\ Len(queue') = 0 /\ Len(delivered') = 0 /\ (buffer' = Nothing \/ stale')
        /\ emitted' = 0 /\ congested' = FALSE
    BY <1>6, EmptySeq DEF Disconnect
  <2> QED
    BY <2>1 DEF EventInv, RangeInv, BufferInv, OrderInv, PlaceInv, GapsReported, Held
<1>7. CASE BufferClean
  <2>1. /\ stale /\ buffer' = Nothing /\ ~stale'
        /\ UNCHANGED <<failed, queue, congested, overrun, emitted, delivered, reported>>
    BY <1>7 DEF BufferClean, kernelVars
  <2> QED
    BY <1>1, <2>1, EventsDropped
<1> QED
  BY <1>2, <1>3, <1>4, <1>5, <1>6, <1>7, ReceiveEvents, ReceiveFailsEvents DEF Next

-----------------------------------------------------------------------------
(* Sequence numbers under way.                                             *)

(* A queued acknowledgement's number is the one its request was sent with. *)
Fits(datagram) ==
    datagram.kind = "ack" =>
        /\ datagram.num <= sent
        /\ Behind(seq, datagram.seq, sent - datagram.num)

LEMMA QueueingSeqs ==
    ASSUME HInv, NEW datagram \in Datagrams, Queueing(datagram), Fits(datagram),
           UNCHANGED <<seq, sent>>
    PROVE  \A i \in 1..Len(queue') : Fits(queue[i])'
<1>1. \A i \in 1..Len(queue) : Fits(queue[i])
  BY DEF HInv, SeqInv, Fits
<1>2. CASE UNCHANGED queue
  BY <1>1, <1>2 DEF Fits
<1>3. CASE /\ Len(queue') = Len(queue) + 1
           /\ \A i \in 1..Len(queue) : queue'[i] = queue[i]
           /\ queue'[Len(queue) + 1] = datagram
  <2> SUFFICES ASSUME NEW i \in 1..(Len(queue) + 1) PROVE Fits(queue[i])'
    BY <1>3
  <2>1. CASE i \in 1..Len(queue)
    BY <1>1, <1>3, <2>1 DEF Fits
  <2>2. CASE i = Len(queue) + 1
    BY <1>3, <2>2 DEF Fits
  <2> QED
    BY <2>1, <2>2, QueuedAtEnd
<1> QED
  BY <1>2, <1>3, QueuedAtEnd

LEMMA NextSeqs == ASSUME HInv, Next PROVE SeqInv'
<1>1. /\ \A i \in 1..Len(queue) : Fits(queue[i])
      /\ \A i \in 1..Len(waiting) : /\ waiting[i].num <= sent
                                    /\ Behind(seq, waiting[i].seq, sent - waiting[i].num)
  BY DEF HInv, SeqInv, Fits
<1>2. CASE KernelNotifies
  <2>1. PICK kind \in {"event", "unsupported"}, origin \in {"kernel", "own", "other"}, s \in Seqs :
            Queueing([kind   |-> kind,
                      num    |-> IF kind = "event" THEN emitted + 1 ELSE 0,
                      portid |-> origin,
                      seq    |-> s])
    BY <1>2 DEF KernelNotifies
  <2> DEFINE datagram == [kind   |-> kind,
                          num    |-> IF kind = "event" THEN emitted + 1 ELSE 0,
                          portid |-> origin,
                          seq    |-> s]
  <2>2. datagram \in Datagrams /\ datagram.kind # "ack"
    BY LimitsAssumption DEF HInv, TypeOK, Datagrams
  <2> HIDE DEF datagram
  <2>3. Queueing(datagram) /\ Fits(datagram)
    BY <2>1, <2>2 DEF datagram, Fits
  <2>4. UNCHANGED <<seq, sent, waiting, buffer>>
    BY <1>2 DEF KernelNotifies
  <2>5. \A i \in 1..Len(queue') : Fits(queue[i])'
    BY <2>2, <2>3, <2>4, QueueingSeqs
  <2> QED
    BY <2>4, <2>5 DEF HInv, SeqInv, Fits
<1>3. CASE KernelAnswers
  <2>1. PICK kind \in {"ack", "nack"} :
            Queueing([kind |-> kind, num |-> Head(waiting).num, portid |-> "own",
                      seq  |-> Head(waiting).seq])
    BY <1>3 DEF KernelAnswers
  <2> DEFINE datagram == [kind |-> kind, num |-> Head(waiting).num, portid |-> "own",
                          seq  |-> Head(waiting).seq]
  <2>2. /\ Head(waiting) \in Requests /\ Head(waiting) = waiting[1] /\ 1 \in 1..Len(waiting)
        /\ Len(waiting') = Len(waiting) - 1 /\ Len(waiting) \in Nat
        /\ \A i \in 1..Len(waiting') : waiting'[i] = waiting[i + 1]
    BY <1>3, TailAt DEF HInv, TypeOK, KernelAnswers
  <2>3. datagram \in Datagrams /\ Fits(datagram)
    BY <1>1, <2>2 DEF Datagrams, Requests, Fits
  <2> HIDE DEF datagram
  <2>4. Queueing(datagram)
    BY <2>1 DEF datagram
  <2>5. UNCHANGED <<seq, sent, buffer>>
    BY <1>3 DEF KernelAnswers
  <2>6. \A i \in 1..Len(queue') : Fits(queue[i])'
    BY <2>3, <2>4, <2>5, QueueingSeqs
  <2>7. \A i \in 1..Len(waiting') : /\ waiting'[i].num <= sent
                                    /\ Behind(seq, waiting'[i].seq, sent - waiting'[i].num)
    BY <1>1, <2>2
  <2> QED
    BY <2>5, <2>6, <2>7 DEF HInv, SeqInv, Fits, Behind
<1>4. CASE Connect
  <2>1. waiting' = <<>> /\ queue' = <<>> /\ UNCHANGED buffer
    BY <1>4 DEF HInv, ClosedInv, Connect, kernelVars
  <2> QED
    BY <2>1, EmptySeq DEF HInv, SeqInv, Behind
<1>5. CASE Send
  <2>1. /\ seq \in Seqs /\ sent \in Nat /\ sent < MaxSends
        /\ waiting \in Seq(Requests) /\ queue \in Seq(Datagrams)
    BY <1>5, LimitsAssumption DEF HInv, TypeOK, Send
  <2>2. \A s \in Seqs, num \in Nat : num <= sent /\ Behind(seq, s, sent - num) =>
            num <= sent' /\ Behind(seq', s, sent' - num)
    <3> SUFFICES ASSUME NEW s \in Seqs, NEW num \in Nat, num <= sent, Behind(seq, s, sent - num)
                 PROVE  num <= sent' /\ Behind(seq', s, sent' - num)
      OBVIOUS
    <3>1. sent' = sent + 1 /\ seq' = (seq + 1) % SeqLimit
      BY <1>5 DEF Send
    <3>2. sent - num \in Nat /\ (sent - num) + 1 < SeqLimit /\ sent' - num = (sent - num) + 1
      BY <2>1, <3>1, LimitsAssumption
    <3>3. Behind((seq + 1) % SeqLimit, s, (sent - num) + 1)
      BY <2>1, <3>2, BehindNext
    <3> QED
      BY <2>1, <3>1, <3>2, <3>3
  <2>3. \A i \in 1..Len(queue') : Fits(queue[i])'
    <3>1. \A i \in 1..Len(queue) : queue[i] \in Datagrams
      BY <2>1, ElementAt
    <3>2. \A i \in 1..Len(queue) : queue[i].seq \in Seqs /\ queue[i].num \in Nat
      BY <3>1 DEF Datagrams
    <3> QED
      BY <1>1, <1>5, <2>2, <3>2 DEF Fits, Send
  <2>4. \A i \in 1..Len(waiting) : /\ waiting[i].num <= sent'
                                   /\ Behind(seq', waiting[i].seq, sent' - waiting[i].num)
    <3>1. \A i \in 1..Len(waiting) : waiting[i] \in Requests
      BY <2>1, ElementAt
    <3>2. \A i \in 1..Len(waiting) : waiting[i].seq \in Seqs /\ waiting[i].num \in Nat
      BY <3>1 DEF Requests
    <3> QED
      BY <1>1, <2>2, <3>2
  <2>5. \A i \in 1..Len(waiting') : /\ waiting'[i].num <= sent'
                                    /\ Behind(seq', waiting'[i].seq, sent' - waiting'[i].num)
    <3>1. sent' = sent + 1 /\ sent' \in Nat /\ seq' \in Seqs
      BY <1>5, <2>1, NextTypes, LimitsAssumption DEF Next, TypeOK, Send
    <3>2. CASE UNCHANGED waiting
      BY <2>4, <3>2
    <3>3. CASE waiting' = Append(waiting, [num |-> sent', seq |-> seq'])
      <4>1. [num |-> sent', seq |-> seq'] \in Requests
        BY <3>1 DEF Requests
      <4>2. /\ Len(waiting') = Len(waiting) + 1 /\ Len(waiting) \in Nat
            /\ \A i \in 1..Len(waiting) : waiting'[i] = waiting[i]
            /\ waiting'[Len(waiting) + 1] = [num |-> sent', seq |-> seq']
        BY <2>1, <3>3, <4>1, AppendAt, ElementAt
      <4>3. sent' <= sent' /\ Behind(seq', seq', sent' - sent')
        BY <3>1 DEF Behind, Seqs
      <4> QED
        BY <2>4, <4>2, <4>3
    <3> QED
      BY <1>5, <3>2, <3>3 DEF Send
  <2> QED
    BY <1>5, <2>3, <2>5 DEF HInv, SeqInv, Fits, Send
<1>6. CASE Receive
  <2>1. /\ UNCHANGED <<seq, sent, waiting>>
        /\ buffer' = [datagram |-> Head(queue), seq |-> seq, newest |-> sent]
    BY <1>6 DEF Receive
  <2>2. Dequeue
    BY <1>6 DEF Receive
  <2>3. \A i \in 1..Len(queue') : Fits(queue[i])'
    BY <1>1, <2>1, <2>2, DequeuedAt DEF Fits
  <2>4. Fits(Head(queue)) /\ sent <= MaxSends
    BY <1>1, <2>2, DequeuedAt, LimitsAssumption DEF HInv, TypeOK
  <2> QED
    BY <2>1, <2>3, <2>4 DEF HInv, SeqInv, Fits, Behind
<1>7. CASE ReceiveFails
  <2>1. UNCHANGED <<seq, sent, waiting, buffer>> /\ buffer = Nothing
    BY <1>7 DEF ReceiveFails
  <2>2. \A i \in 1..Len(queue') : Fits(queue[i])'
    <3>1. CASE Dequeue
      BY <1>1, <2>1, <3>1, DequeuedAt DEF Fits
    <3>2. CASE UNCHANGED queue
      BY <1>1, <2>1, <3>2 DEF Fits
    <3> QED
      BY <1>7, <3>1, <3>2 DEF ReceiveFails
  <2> QED
    BY <2>1, <2>2 DEF HInv, SeqInv, Fits
<1>8. CASE Parse
  BY <1>8 DEF HInv, SeqInv, Parse, DataParse, kernelVars
<1>9. CASE Disconnect
  <2>1. waiting' = <<>> /\ queue' = <<>> /\ UNCHANGED buffer
    BY <1>9 DEF Disconnect
  <2> QED
    BY <2>1, EmptySeq DEF HInv, SeqInv, Behind
<1>10. CASE BufferClean
  BY <1>10 DEF HInv, SeqInv, Behind, BufferClean, kernelVars
<1> QED
  BY <1>2, <1>3, <1>4, <1>5, <1>6, <1>7, <1>8, <1>9, <1>10 DEF Next

LEMMA ParseAnswer ==
    ASSUME HInv, NEW portid \in {0, 1}, NEW s \in {0, buffer.seq}, DataParse(portid, s)
    PROVE  RightAnswer'
<1> DEFINE datagram == buffer.datagram
<1>1. buffer \in Buffers /\ buffer # Nothing /\ datagram \in Datagrams
  BY DEF HInv, TypeOK, DataParse, Buffers
<1>2. CASE UNCHANGED answer
  BY <1>2 DEF HInv, RightAnswer
<1>3. CASE /\ Passes(datagram, portid, s)
           /\ datagram.kind = "ack"
           /\ answer' = [request |-> datagram.num, newest |-> buffer.newest, seqs |-> {s, datagram.seq}]
           /\ 0 \notin answer'.seqs
  <2>1. s # 0 /\ datagram.seq # 0
    BY <1>3
  <2>2. s = buffer.seq /\ datagram.seq = buffer.seq
    BY <1>3, <2>1 DEF Passes
  <2>3. /\ datagram.num <= buffer.newest /\ buffer.newest <= MaxSends
        /\ Behind(buffer.seq, buffer.seq, buffer.newest - datagram.num)
    BY <1>1, <1>3, <2>2 DEF HInv, SeqInv
  <2>4. buffer.seq \in Seqs /\ datagram.num \in Nat /\ buffer.newest \in Nat
    BY <1>1 DEF Buffers, Datagrams
  <2>5. buffer.newest - datagram.num \in Nat /\ buffer.newest - datagram.num < SeqLimit
    BY <2>3, <2>4, LimitsAssumption
  <2>6. buffer.newest - datagram.num = 0
    BY <2>3, <2>4, <2>5, BehindSame
  <2>7. datagram.num = buffer.newest
    BY <2>4, <2>6
  <2> QED
    BY <1>3, <2>7 DEF RightAnswer
<1> QED
  BY <1>2, <1>3 DEF DataParse, RightAnswer

LEMMA NextAnswer == ASSUME HInv, Next PROVE RightAnswer'
<1>1. CASE Parse
  BY <1>1, ParseAnswer DEF Parse
<1>2. CASE Disconnect
  BY <1>2 DEF Disconnect, RightAnswer, NoAnswer
<1> QED
  BY <1>1, <1>2 DEF HInv, RightAnswer, Next, KernelNotifies, KernelAnswers, Connect, Send, Receive,
                    ReceiveFails, BufferClean

-----------------------------------------------------------------------------
(* The handle implements a feed.                                           *)

FailedInv == failed => nl /\ buffer = Nothing

FeedVars == <<nl, failed, emitted, delivered, reported>>

LEMMA FailedInvariance == Spec => []FailedInv
<1>1. Init => FailedInv
  BY DEF Init, FailedInv
<1>2. FailedInv /\ [Next]_vars => FailedInv'
  BY DEF FailedInv, vars, kernelVars, Next, KernelNotifies, KernelAnswers, Connect, Send, Receive,
         ReceiveFails, Parse, DataParse, BufferClean, Disconnect
<1> QED
  BY <1>1, <1>2, PTL DEF Spec

LEMMA FeedSame == ASSUME UNCHANGED FeedVars PROVE [Feed!Next]_Feed!feedVars
  BY DEF FeedVars, Feed!feedVars

LEMMA FeedTells ==
    ASSUME HInv, FailedInv, NEW e \in 1..emitted, nl, ~failed,
           reported' = reported \cup {e}, UNCHANGED <<nl, failed, emitted, delivered>>
    PROVE  Feed!Next
<1>1. Feed!Tell(e)
  BY DEF Feed!Tell
<1> QED
  BY <1>1 DEF Feed!Next

LEMMA FeedParse ==
    ASSUME HInv, FailedInv, ~stale, NEW portid \in {0, 1}, NEW s \in Seqs, DataParse(portid, s)
    PROVE  [Feed!Next]_Feed!feedVars
<1> DEFINE x == buffer.datagram.num
<1>1. nl /\ ~failed /\ UNCHANGED <<nl, failed, emitted>>
  BY DEF HInv, ClosedInv, FailedInv, DataParse
<1>2. x \in Nat /\ (Held(x) <=> buffer.datagram.kind = "event")
  BY DEF HInv, TypeOK, Buffers, Datagrams, Held, DataParse
<1>3. Held(x) => x \in 1..emitted
  BY <1>2 DEF HInv, RangeInv
<1>4. CASE /\ buffer.datagram.kind = "event"
           /\ delivered' = Append(delivered, x) /\ UNCHANGED reported
  <2>1. /\ \A k \in 1..Len(delivered) : delivered[k] < x
        /\ \A f \in 1..(x - 1) : Known(f)
    BY <1>2, <1>4 DEF HInv, BufferInv
  <2>2. \A f \in 1..(x - 1) : Feed!Settled(f)
    BY <2>1 DEF Known, Feed!Settled
  <2>3. Feed!Give(x)
    BY <1>1, <1>4, <2>1, <2>2 DEF Feed!Give
  <2> QED
    BY <1>2, <1>3, <1>4, <2>3 DEF Feed!Next
<1>5. CASE Told(buffer.datagram) /\ UNCHANGED delivered
  <2>1. CASE buffer.datagram.kind = "event"
    <3>1. reported' = reported \cup {x} /\ x \in 1..emitted
      BY <1>2, <1>3, <1>5, <2>1 DEF Told
    <3> HIDE DEF x
    <3> QED
      BY <1>1, <1>5, <3>1, FeedTells
  <2>2. CASE buffer.datagram.kind # "event"
    BY <1>1, <1>5, <2>2, FeedSame DEF Told, FeedVars
  <2> QED
    BY <2>1, <2>2
<1>6. CASE UNCHANGED <<delivered, reported>>
  BY <1>1, <1>6, FeedSame DEF FeedVars
<1> QED
  BY <1>4, <1>5, <1>6 DEF DataParse, Stored

LEMMA FeedBreaks ==
    ASSUME HInv, ReceiveFails
    PROVE  Feed!Next
<1>1. nl /\ ~failed /\ failed' = TRUE /\ UNCHANGED <<nl, emitted, delivered>>
  BY DEF ReceiveFails
<1>2. UNCHANGED reported \/ \E e \in 1..emitted : reported' = reported \cup {e}
  <2>1. CASE UNCHANGED reported
    BY <2>1
  <2>2. CASE Dequeue /\ Told(Head(queue))
    <3>1. queue # <<>> /\ Head(queue) = queue[1] /\ 1 \in 1..Len(queue)
      BY <2>2 DEF Dequeue, HInv, TypeOK
    <3>2. queue[1].kind = "event" => queue[1].num \in 1..emitted
      BY <3>1 DEF HInv, RangeInv
    <3> QED
      BY <2>2, <3>1, <3>2 DEF Told
  <2> QED
    BY <2>1, <2>2 DEF ReceiveFails
<1>3. Feed!Break
  BY <1>1, <1>2 DEF Feed!Break
<1> QED
  BY <1>3 DEF Feed!Next

LEMMA FeedStep == ASSUME HInv, FailedInv, [Next]_vars PROVE [Feed!Next]_Feed!feedVars
<1>1. CASE KernelNotifies
  <2>1. CASE emitted' = emitted
    BY <1>1, <2>1, FeedSame DEF KernelNotifies, FeedVars
  <2>2. CASE emitted' = emitted + 1
    <3>1. Feed!Happen
      BY <1>1, <2>2 DEF KernelNotifies, Feed!Happen
    <3> QED
      BY <3>1 DEF Feed!Next
  <2> QED
    BY <1>1, <2>1, <2>2 DEF KernelNotifies
<1>2. CASE KernelAnswers
  BY <1>2, FeedSame DEF KernelAnswers, FeedVars
<1>3. CASE Connect
  <2>1. Feed!Open
    BY <1>3 DEF Connect, Feed!Open
  <2> QED
    BY <2>1 DEF Feed!Next
<1>4. CASE Send
  BY <1>4, FeedSame DEF Send, FeedVars
<1>5. CASE Receive
  BY <1>5, FeedSame DEF Receive, FeedVars
<1>6. CASE ReceiveFails
  BY <1>6, FeedBreaks
<1>7. CASE Parse
  <2>1. buffer # Nothing => buffer.seq \in Seqs
    BY DEF HInv, TypeOK, Buffers
  <2>2. 0 \in Seqs
    BY LimitsAssumption DEF Seqs
  <2>3. CASE stale
    <3>1. UNCHANGED FeedVars
      BY <1>7, <2>3 DEF Parse, DataParse, Stored, Told, FeedVars
    <3> QED
      BY <3>1, FeedSame
  <2>4. CASE ~stale
    BY <1>7, <2>1, <2>2, <2>4, FeedParse DEF Parse
  <2> QED
    BY <2>3, <2>4
<1>8. CASE Disconnect
  <2>1. Feed!Close
    BY <1>8 DEF Disconnect, Feed!Close, Feed!Closed
  <2> QED
    BY <2>1 DEF Feed!Next
<1>9. CASE UNCHANGED vars
  BY <1>9, FeedSame DEF vars, FeedVars
<1>10. CASE BufferClean
  BY <1>10, FeedSame DEF BufferClean, FeedVars
<1> QED
  BY <1>1, <1>2, <1>3, <1>4, <1>5, <1>6, <1>7, <1>8, <1>9, <1>10 DEF Next

-----------------------------------------------------------------------------
(* The theorems.                                                           *)

(* The invariant is inductive. *)
THEOREM HandleInvariance == Spec => []HInv
<1>1. Init => HInv
  BY InitStep
<1>2. HInv /\ [Next]_vars => HInv'
  <2>1. ASSUME HInv, Next PROVE HInv'
    BY <2>1, NextTypes, NextClosed, NextEvents, NextSeqs, NextAnswer DEF HInv, EventInv
  <2>2. ASSUME HInv, UNCHANGED vars PROVE HInv'
    BY <2>2 DEF vars, kernelVars, HInv, TypeOK, GapsReported, RightAnswer, ClosedInv, RangeInv,
                BufferInv, OrderInv, PlaceInv, SeqInv, Alive, Known, Held, Queued, Behind
  <2> QED
    BY <2>1, <2>2
<1> QED
  BY <1>1, <1>2, PTL DEF Spec

(* Every variable keeps its type, and the receive queue its limit          *)
(* (core.c's handle, and the socket under it).                             *)
THEOREM HandleTypes == Spec => []TypeOK
BY HandleInvariance, PTL DEF HInv

(* mnlxt_data_parse() stores notifications in the order of the changes and *)
(* passes none over without a call that fails, whatever the kernel drops.  *)
THEOREM NoGapInSilence == Spec => []GapsReported
BY HandleInvariance, PTL DEF HInv

(* What EventuallyTold rests on, short of fairness: unless the next call   *)
(* of mnlxt_receive() fails, or one has failed, a notification of which    *)
(* the caller does not know is in the buffer or in the socket's queue.     *)
EventsKept == Alive => \A e \in 1..emitted : Known(e) \/ Held(e) \/ Queued(e, Len(queue))

(* No notification is lost between the kernel and the caller in silence.   *)
THEOREM EventsAreKept == Spec => []EventsKept
<1>1. HInv => EventsKept
  BY DEF HInv, PlaceInv, EventsKept
<1>2. QED BY <1>1, HandleInvariance, PTL

(* mnlxt_data_parse() takes no late acknowledgement for that of the newest *)
(* request, unless a sequence number is 0.                                 *)
THEOREM AnswerIsRight == Spec => []RightAnswer
BY HandleInvariance, PTL DEF HInv

(* The handle is a feed: mnlxt_receive() and mnlxt_data_parse() give the   *)
(* caller one notification after the other, the oldest it has neither got  *)
(* nor been told of, and nothing once receiving has failed.                *)
THEOREM HandleGivesFeed == Spec => HandleIsFeed
<1>1. Init => Feed!Init
  BY DEF Init, Feed!Init, Feed!Closed
<1>2. HInv /\ FailedInv /\ [Next]_vars => [Feed!Next]_Feed!feedVars
  BY FeedStep
<1> QED
  BY <1>1, <1>2, HandleInvariance, FailedInvariance, PTL DEF Spec, HandleIsFeed, Feed!Spec
=============================================================================
