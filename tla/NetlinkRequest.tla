--------------------------- MODULE NetlinkRequest ---------------------------
(***************************************************************************)
(* The request engine of libmnlxt, mnlxt_request() and what it calls:      *)
(* connect a socket of its own, send, receive and parse datagrams until    *)
(* one ends the answer, disconnect.  Any number of clients run it at the   *)
(* same time against one kernel, which answers a dump in several datagrams *)
(* and keeps changing its table in between.                                *)
(*                                                                         *)
(* mnl_cb_run() of libmnl and the kernel are external.  The socket of a    *)
(* request blocks, so mnlxt_receive() never returns 0 here; EINTR only     *)
(* repeats recvfrom() and is a stuttering step.                            *)
(***************************************************************************)
EXTENDS KernelTable, Naturals

CONSTANT Nothing     \* no datagram

VARIABLES table,     \* kernel: the table
          query,     \* kernel: a request that waits in the socket
          dumping,   \* kernel: the socket's dump has not been finished
          todo,      \* kernel: identifiers the dump has still to visit
          changed,   \* kernel: the table changed since the last dump pass
          inbox,     \* kernel: the datagram that waits to be received
          pc,        \* where the client is in mnlxt_request()
          op,        \* the request the client makes
          sock,      \* handle.nl # NULL
          buf,       \* mnlxt_buf, Nothing when buf.buf = NULL
          heap,      \* receive buffers the client has allocated
          data,      \* the messages of mnlxt_data_t, as <<id, content>>
          err,       \* data->error_str
          reply,     \* rc of mnlxt_request()
          applied,   \* history: the kernel has made the change
          moments    \* history: the tables there were during the call

kernelVars == <<query, dumping, todo, changed, inbox>>
clientVars == <<pc, op, sock, buf, heap, data, err, reply>>
vars == <<table, kernelVars, clientVars, applied, moments>>

(* intr: NLM_F_DUMP_INTR on the first message; end: the last message is    *)
(* NLMSG_DONE, an acknowledgement, an error, or more datagrams follow.     *)
Datagrams == [objs : SUBSET Objects, intr : BOOLEAN,
              end : {"more", "done", "ack", "nack"}]

ASSUME NothingAssumption == Nothing \notin Datagrams

Errors == {"none", "unsupported kind", "send failed", "receive failed",
           "malloc failed", "validation failed", "mnl_cb_run failed"}

TypeOK ==
    /\ table \in Tables
    /\ query \in [Clients -> BOOLEAN]
    /\ dumping \in [Clients -> BOOLEAN]
    /\ todo \in [Clients -> SUBSET Ids]
    /\ changed \in [Clients -> BOOLEAN]
    /\ inbox \in [Clients -> Datagrams \cup {Nothing}]
    /\ pc \in [Clients -> {"idle", "connect", "send", "receive", "parse", "close"}]
    /\ op \in [Clients -> Changes \cup {Dump}]
    /\ sock \in [Clients -> BOOLEAN]
    /\ buf \in [Clients -> Datagrams \cup {Nothing}]
    /\ heap \in [Clients -> Nat]
    /\ data \in [Clients -> SUBSET Objects]
    /\ err \in [Clients -> Errors]
    /\ reply \in [Clients -> {"none", "ok", "failed"}]
    /\ applied \in [Clients -> BOOLEAN]
    /\ moments \in [Clients -> SUBSET Tables]

Init ==
    /\ table \in Tables
    /\ query = [c \in Clients |-> FALSE]
    /\ dumping = [c \in Clients |-> FALSE]
    /\ todo = [c \in Clients |-> {}]
    /\ changed = [c \in Clients |-> FALSE]
    /\ inbox = [c \in Clients |-> Nothing]
    /\ pc = [c \in Clients |-> "idle"]
    /\ op = [c \in Clients |-> Dump]
    /\ sock = [c \in Clients |-> FALSE]
    /\ buf = [c \in Clients |-> Nothing]
    /\ heap = [c \in Clients |-> 0]
    /\ data = [c \in Clients |-> {}]
    /\ err = [c \in Clients |-> "none"]
    /\ reply = [c \in Clients |-> "none"]
    /\ applied = [c \in Clients |-> FALSE]
    /\ moments = [c \in Clients |-> {}]

-----------------------------------------------------------------------------
(* The kernel.                                                             *)

SetEntry(i, v) ==
    /\ table' = [table EXCEPT ![i] = v]
    /\ changed' = [c \in Clients |-> changed[c] \/ (dumping[c] /\ table' # table)]
    /\ moments' = [c \in Clients |->
                     IF pc[c] # "idle" THEN moments[c] \cup {table'} ELSE moments[c]]

ForeignChange ==
    /\ \E i \in Ids, v \in Cells : SetEntry(i, v)
    /\ UNCHANGED <<query, dumping, todo, inbox, clientVars, applied>>

Answer(c, objects, interrupted, end) ==
    inbox' = [inbox EXCEPT ![c] =
                [objs |-> objects, intr |-> interrupted, end |-> end]]

KernelChange(c) ==
    /\ query[c]
    /\ op[c] # Dump
    /\ query' = [query EXCEPT ![c] = FALSE]
    /\ SetEntry(op[c].id, op[c].val)
    /\ applied' = [applied EXCEPT ![c] = TRUE]
    /\ Answer(c, {}, FALSE, "ack")
    /\ UNCHANGED <<dumping, todo, clientVars>>

KernelRefuse(c) ==
    /\ query[c]
    /\ query' = [query EXCEPT ![c] = FALSE]
    /\ Answer(c, {}, FALSE, "nack")
    /\ UNCHANGED <<table, dumping, todo, changed, clientVars, applied, moments>>

KernelStartDump(c) ==
    /\ query[c]
    /\ op[c] = Dump
    /\ query' = [query EXCEPT ![c] = FALSE]
    /\ dumping' = [dumping EXCEPT ![c] = TRUE]
    /\ todo' = [todo EXCEPT ![c] = Ids]
    /\ changed' = [changed EXCEPT ![c] = FALSE]
    /\ UNCHANGED <<table, inbox, clientVars, applied, moments>>

(* One pass of the dump visits some of the identifiers left, as many as    *)
(* fit into a datagram; the first message after a change is flagged.       *)
KernelPass(c) ==
    /\ dumping[c]
    /\ inbox[c] = Nothing
    /\ \E visited \in SUBSET todo[c], done \in BOOLEAN :
          LET objects == {o \in Objects : o[1] \in visited /\ table[o[1]] = o[2]}
          IN  /\ done => visited = todo[c]
              /\ done \/ objects # {}
              /\ Answer(c, objects, changed[c], IF done THEN "done" ELSE "more")
              /\ todo' = [todo EXCEPT ![c] = @ \ visited]
              /\ dumping' = [dumping EXCEPT ![c] = ~done]
    /\ changed' = [changed EXCEPT ![c] = FALSE]
    /\ UNCHANGED <<table, query, clientVars, applied, moments>>

-----------------------------------------------------------------------------
(* The client.                                                             *)

Goto(c, from, to) ==
    /\ pc[c] = from
    /\ pc' = [pc EXCEPT ![c] = to]

Request(c, request) ==
    /\ Goto(c, "idle", "connect")
    /\ op' = [op EXCEPT ![c] = request]
    /\ data' = [data EXCEPT ![c] = {}]
    /\ err' = [err EXCEPT ![c] = "none"]
    /\ reply' = [reply EXCEPT ![c] = "none"]
    /\ applied' = [applied EXCEPT ![c] = FALSE]
    /\ moments' = [moments EXCEPT ![c] = {table}]
    /\ UNCHANGED <<table, kernelVars, sock, buf, heap>>

(* mnlxt_data_dump() with a zeroed or cleaned mnlxt_data_t. *)
DataDump(c) == Request(c, Dump)

(* mnlxt_message_request() up to mnlxt_request(). *)
MessageRequest(c) == \E change \in Changes : Request(c, change)

(* The handler's put function or malloc() fails, so nothing is sent. *)
CreateFails(c) ==
    /\ op[c] # Dump
    /\ Goto(c, "connect", "idle")
    /\ reply' = [reply EXCEPT ![c] = "failed"]
    /\ UNCHANGED <<table, kernelVars, op, sock, buf, heap, data, err, applied, moments>>

Connect(c) ==
    \/ /\ Goto(c, "connect", "send")
       /\ sock' = [sock EXCEPT ![c] = TRUE]
       /\ UNCHANGED <<table, kernelVars, op, buf, heap, data, err, reply, applied, moments>>
    \/ /\ Goto(c, "connect", "idle")
       /\ reply' = [reply EXCEPT ![c] = "failed"]
       /\ UNCHANGED <<table, kernelVars, op, sock, buf, heap, data, err, applied, moments>>

(* Mutant: the error is never copied out of the handle. *)
SetErrorForgotten(c, e) == UNCHANGED err

(* data->error_str, which a change has not: it passes data = NULL. *)
SetError(c, e) ==
    err' = [err EXCEPT ![c] = IF op[c] = Dump THEN e ELSE @]

Send(c) ==
    \/ /\ Goto(c, "send", "receive")
       /\ query' = [query EXCEPT ![c] = TRUE]
       /\ UNCHANGED <<dumping, todo, changed, inbox, err, reply>>
       /\ UNCHANGED <<table, op, sock, buf, heap, data, applied, moments>>
    \/ /\ Goto(c, "send", "close")
       /\ SetError(c, "send failed")
       /\ reply' = [reply EXCEPT ![c] = "failed"]
       /\ UNCHANGED <<table, kernelVars, op, sock, buf, heap, data, applied, moments>>

(* recvfrom() returns a datagram, which is copied to the heap. *)
Receive(c) ==
    /\ inbox[c] # Nothing
    /\ Goto(c, "receive", "parse")
    /\ buf' = [buf EXCEPT ![c] = inbox[c]]
    /\ heap' = [heap EXCEPT ![c] = @ + 1]
    /\ inbox' = [inbox EXCEPT ![c] = Nothing]
    /\ UNCHANGED <<table, query, dumping, todo, changed, op, sock, data, err, reply,
                   applied, moments>>

(* recvfrom() fails, or malloc() does once the datagram is consumed. *)
ReceiveFails(c) ==
    /\ Goto(c, "receive", "close")
    /\ reply' = [reply EXCEPT ![c] = "failed"]
    /\ \/ /\ SetError(c, "receive failed")
          /\ UNCHANGED inbox
       \/ /\ inbox[c] # Nothing
          /\ SetError(c, "malloc failed")
          /\ inbox' = [inbox EXCEPT ![c] = Nothing]
    /\ UNCHANGED <<table, query, dumping, todo, changed, op, sock, buf, heap, data,
                   applied, moments>>

(* Mutants: the dump-interrupted flag, or an error message, is overlooked. *)
CbFailsNotInterrupted(d) ==
    d.end = "nack" \/ \E o \in d.objs : o[2] \in Rejected

CbFailsNotRefused(d) ==
    d.intr \/ \E o \in d.objs : o[2] \in Rejected

(* What mnl_cb_run() with mnlxt_data_cb() makes of datagram d: it fails on *)
(* an interrupted dump before any message is stored, on an error message,  *)
(* and on a message whose parse handler fails; the messages that are       *)
(* reported are stored.                                                    *)
CbFails(d) ==
    \/ d.intr
    \/ d.end = "nack"
    \/ \E o \in d.objs : o[2] \in Rejected

Stored(d) == {o \in d.objs : o[2] \in Reported}

(* What the handlers leave in data->error_str when they store objects.     *)
Remark(objects, e) ==
    IF \E o \in objects : o[2] \in Noted THEN "unsupported kind" ELSE e

(* Mutants: the pointer is reset without free(), or freed and not tested. *)
BufferCleanLeaks(c) ==
    /\ buf' = [buf EXCEPT ![c] = Nothing]
    /\ UNCHANGED heap

BufferCleanTwice(c) ==
    /\ buf' = [buf EXCEPT ![c] = Nothing]
    /\ heap' = [heap EXCEPT ![c] = @ - 1]

(* mnlxt_buffer_clean() *)
BufferClean(c) ==
    /\ buf' = [buf EXCEPT ![c] = Nothing]
    /\ heap' = [heap EXCEPT ![c] = IF buf[c] = Nothing THEN @ ELSE @ - 1]

(* mnlxt_data_parse() returns -1.  Messages in front of the one that fails *)
(* have been stored, and stay.  A handler that fails may name its reason;  *)
(* else an earlier remark stays, and hides that mnl_cb_run() failed.       *)
ParseFails(c) ==
    /\ CbFails(buf[c])
    /\ \E added \in SUBSET Stored(buf[c]) :
          /\ buf[c].intr => added = {}
          /\ data' = [data EXCEPT ![c] = @ \cup added]
          /\ \/ /\ ~buf[c].intr /\ buf[c].end # "nack"
                /\ SetError(c, "validation failed")
             \/ LET left == Remark(added, err[c])
                IN  SetError(c, IF left = "none" THEN "mnl_cb_run failed" ELSE left)
    /\ Goto(c, "parse", "close")
    /\ reply' = [reply EXCEPT ![c] = "failed"]

(* Mutant: rc 0 is taken for the end of the answer. *)
ParseStopsEarly(c) ==
    /\ ~CbFails(buf[c])
    /\ data' = [data EXCEPT ![c] = @ \cup Stored(buf[c])]
    /\ Goto(c, "parse", "close")
    /\ reply' = [reply EXCEPT ![c] = "ok"]
    /\ err' = [err EXCEPT ![c] = Remark(Stored(buf[c]), @)]

(* mnlxt_data_parse() returns 1: the datagram ends the answer. *)
ParseStops(c) ==
    /\ ~CbFails(buf[c])
    /\ buf[c].end # "more"
    /\ data' = [data EXCEPT ![c] = @ \cup Stored(buf[c])]
    /\ Goto(c, "parse", "close")
    /\ reply' = [reply EXCEPT ![c] = "ok"]
    /\ err' = [err EXCEPT ![c] = Remark(Stored(buf[c]), @)]

(* Mutant: the loop goes on whatever ended the datagram. *)
ParseContinuesAlways(c) ==
    /\ ~CbFails(buf[c])
    /\ data' = [data EXCEPT ![c] = @ \cup Stored(buf[c])]
    /\ Goto(c, "parse", "receive")
    /\ err' = [err EXCEPT ![c] = Remark(Stored(buf[c]), @)]
    /\ UNCHANGED reply

(* mnlxt_data_parse() returns 0, and the loop receives the next datagram. *)
ParseContinues(c) ==
    /\ ~CbFails(buf[c])
    /\ buf[c].end = "more"
    /\ data' = [data EXCEPT ![c] = @ \cup Stored(buf[c])]
    /\ Goto(c, "parse", "receive")
    /\ err' = [err EXCEPT ![c] = Remark(Stored(buf[c]), @)]
    /\ UNCHANGED reply

(* One turn of the loop: the buffer is parsed and cleaned. *)
DataParse(c) ==
    /\ pc[c] = "parse"
    /\ ParseFails(c) \/ ParseStops(c) \/ ParseContinues(c)
    /\ BufferClean(c)
    /\ UNCHANGED <<table, kernelVars, op, sock, applied, moments>>

(* mnlxt_disconnect(), which drops what the kernel holds for the socket,   *)
(* and the buffer if one is left.                                          *)
Disconnect(c) ==
    /\ Goto(c, "close", "idle")
    /\ sock' = [sock EXCEPT ![c] = FALSE]
    /\ query' = [query EXCEPT ![c] = FALSE]
    /\ dumping' = [dumping EXCEPT ![c] = FALSE]
    /\ todo' = [todo EXCEPT ![c] = {}]
    /\ changed' = [changed EXCEPT ![c] = FALSE]
    /\ inbox' = [inbox EXCEPT ![c] = Nothing]
    /\ BufferClean(c)
    /\ UNCHANGED <<table, op, data, err, reply, applied, moments>>

Kernel(c) ==
    \/ KernelChange(c)
    \/ KernelRefuse(c)
    \/ KernelStartDump(c)
    \/ KernelPass(c)

Client(c) ==
    \/ DataDump(c)
    \/ MessageRequest(c)
    \/ CreateFails(c)
    \/ Connect(c)
    \/ Send(c)
    \/ Receive(c)
    \/ ReceiveFails(c)
    \/ DataParse(c)
    \/ Disconnect(c)

Next == (\E c \in Clients : Kernel(c) \/ Client(c)) \/ ForeignChange

Spec == Init /\ [][Next]_vars

(* The kernel answers, and a thread that can go on does.  Nothing is       *)
(* assumed of new calls, of failures, or of changes to the table.          *)
Fairness ==
    \A c \in Clients :
        /\ WF_vars(KernelChange(c) \/ KernelRefuse(c) \/ KernelStartDump(c))
        /\ WF_vars(KernelPass(c))
        /\ WF_vars(Connect(c))
        /\ WF_vars(Send(c))
        /\ WF_vars(Receive(c))
        /\ WF_vars(DataParse(c))
        /\ WF_vars(Disconnect(c))

FairSpec == Spec /\ Fairness

-----------------------------------------------------------------------------
(* Properties.                                                             *)

(* mnlxt_data_dump() that returns 0 has collected exactly the reported     *)
(* part of one table the kernel had during the call, although the answer   *)
(* came in pieces and the table changed between them (data.h:107-112).     *)
SnapshotDump ==
    \A c \in Clients :
        pc[c] = "idle" /\ op[c] = Dump /\ reply[c] = "ok" =>
            \E t \in moments[c] : Readable(t) /\ data[c] = View(t)

(* mnlxt_message_request() that returns 0 was acknowledged by the kernel,  *)
(* which has made the change, once (data.h:52-57).                         *)
AcknowledgedChange ==
    \A c \in Clients :
        pc[c] = "idle" /\ op[c] # Dump /\ reply[c] = "ok" => applied[c]

(* No path through mnlxt_request() leaks the socket or a receive buffer:   *)
(* a second buffer is never allocated while one is held, and a call that   *)
(* ends holds nothing, on either side of the socket.                       *)
NothingLeaks ==
    \A c \in Clients :
        /\ heap[c] = IF buf[c] = Nothing THEN 0 ELSE 1
        /\ pc[c] = "idle" => /\ ~sock[c]
                             /\ buf[c] = Nothing
                             /\ inbox[c] = Nothing
                             /\ ~query[c]
                             /\ ~dumping[c]

(* The caller of a dump that fails on an open socket finds some reason in  *)
(* data->error_str, which the test programs print (rtnl_dump.c:22-26).     *)
(* After a dump that returns 0 it holds exactly the handlers' remark about *)
(* what was stored (link_data.c:323-329), and no trace of anything else.   *)
ErrorReported ==
    \A c \in Clients :
        op[c] = Dump /\ pc[c] \in {"close", "idle"} =>
            /\ reply[c] = "ok" => err[c] = Remark(data[c], "none")
            /\ reply[c] = "failed" /\ pc[c] = "close" => err[c] # "none"

(* What ChangeLog:47 promises, "Support for netlink error messages", and   *)
(* mnlxt_data_cb() has code for (mnlxt_data.c:158-171): a dump the kernel   *)
(* refuses fails with the kernel's reason in data->error_str.              *)
RefusalNamed ==
    [][\A c \in Clients :
          op[c] = Dump /\ buf[c] # Nothing /\ buf[c].end = "nack" /\ buf'[c] = Nothing
             => err'[c] # "mnl_cb_run failed"]_vars

(* The engine implements its abstract promise.  While a call runs nothing  *)
(* of its result is visible to the caller.                                 *)
busy == [c \in Clients |-> pc[c] # "idle"]
visibleReply == [c \in Clients |-> IF busy[c] THEN "none" ELSE reply[c]]
visibleData == [c \in Clients |-> IF busy[c] THEN {} ELSE data[c]]

Atomic == INSTANCE AtomicRequest
              WITH reply <- visibleReply, result <- visibleData

ImplementsAtomic == Atomic!Spec

(* Every call returns: whatever else happens to the table, a dump is not   *)
(* prolonged for ever, and no answer leaves the loop of mnlxt_request()    *)
(* waiting for a datagram that will not come.                              *)
EveryCallReturns ==
    \A c \in Clients : pc[c] # "idle" ~> pc[c] = "idle"

-----------------------------------------------------------------------------
(* The inductive invariant behind the safety properties.                   *)

(* A datagram that may be missing. *)
Carried(d) == IF d = Nothing THEN {} ELSE d.objs
Spoilt(d) == d # Nothing /\ (d.intr \/ d.end = "nack")
Ends(d, e) == d # Nothing /\ d.end = e

(* What the socket, the buffer and rc may hold where in mnlxt_request().   *)
PhaseInv(c) ==
    /\ sock[c] <=> pc[c] \notin {"idle", "connect"}
    /\ buf[c] # Nothing <=> pc[c] = "parse"
    /\ heap[c] = IF buf[c] = Nothing THEN 0 ELSE 1
    /\ query[c] => inbox[c] = Nothing /\ ~dumping[c] /\ ~applied[c] /\ data[c] = {}
    /\ query[c] => pc[c] \in {"receive", "close"}
    /\ dumping[c] \/ inbox[c] # Nothing => pc[c] \in {"receive", "parse", "close"}
    /\ dumping[c] => op[c] = Dump
    /\ pc[c] \in {"connect", "send"} => ~applied[c] /\ data[c] = {}
    /\ pc[c] \in {"connect", "send", "receive", "parse"} =>
          reply[c] = "none" /\ err[c] = Remark(data[c], "none")
    /\ pc[c] = "close" => reply[c] # "none"
    /\ pc[c] # "idle" => table \in moments[c]

(* The answer to a change: one datagram, an acknowledgement or an error.   *)
ChangeInv(c) ==
    op[c] # Dump =>
        /\ data[c] = {}
        /\ Carried(inbox[c]) = {} /\ Carried(buf[c]) = {}
        /\ \A d \in {inbox[c], buf[c]} :
              d # Nothing => ~d.intr /\ (d.end = "nack" \/ (d.end = "ack" /\ applied[c]))
        /\ reply[c] = "ok" => applied[c]

(* Every entry under way was in the table at some moment of the call.      *)
SeenInv(c) ==
    /\ \A o \in data[c] : o[2] \in Reported
    /\ \A o \in data[c] \cup Carried(buf[c]) \cup Carried(inbox[c]) :
          \E t \in moments[c] : t[o[1]] = o[2]

(* As long as nothing under way is spoilt, table t of the call explains    *)
(* what the dump has delivered: all of t but the identifiers left to do.   *)
Explains(c, t) ==
    /\ dumping[c] /\ ~changed[c] => table = t
    /\ \A o \in data[c] \cup Carried(buf[c]) \cup Carried(inbox[c]) :
          o[1] \notin todo[c] /\ t[o[1]] = o[2]
    /\ \A i \in Ids \ todo[c] :
          /\ t[i] \in Reported =>
                <<i, t[i]>> \in data[c] \cup Carried(buf[c]) \cup Carried(inbox[c])
          /\ t[i] \in Rejected =>
                <<i, t[i]>> \in Carried(buf[c]) \cup Carried(inbox[c])

DumpInv(c) ==
    op[c] = Dump =>
        /\ ~Ends(inbox[c], "ack") /\ ~Ends(buf[c], "ack")
        /\ Ends(inbox[c], "done") => ~dumping[c] /\ todo[c] = {}
        /\ Ends(buf[c], "done") => ~dumping[c] /\ todo[c] = {} /\ inbox[c] = Nothing
        /\ pc[c] \in {"receive", "parse"} /\ ~query[c]
              /\ ~Spoilt(inbox[c]) /\ ~Spoilt(buf[c]) =>
                \E t \in moments[c] : Explains(c, t)
        /\ reply[c] = "ok" =>
              \E t \in moments[c] : Readable(t) /\ data[c] = View(t)

IInv ==
    /\ TypeOK
    /\ ErrorReported
    /\ \A c \in Clients : PhaseInv(c) /\ ChangeInv(c) /\ SeenInv(c) /\ DumpInv(c)
=============================================================================
