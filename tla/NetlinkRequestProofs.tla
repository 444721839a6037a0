------------------------ MODULE NetlinkRequestProofs ------------------------
(***************************************************************************)
(* Proofs about the request engine, for any number of clients, entries and *)
(* contents.  The inductive invariant is IInv of NetlinkRequest.  A step   *)
(* of one client leaves every other client alone but for the table, which  *)
(* Elsewhere states; so each part of the invariant is proved for the       *)
(* clients elsewhere once, and for the client that moves action by action. *)
(***************************************************************************)
EXTENDS NetlinkRequest, FiniteSets, FiniteSetTheorems, TLAPS

(* Facts about the datagrams a client may hold. *)
LEMMA DatagramFields ==
    ASSUME NEW d \in Datagrams
    PROVE  /\ d # Nothing
           /\ d.objs \in SUBSET Objects
           /\ d.intr \in BOOLEAN
           /\ d.end \in {"more", "done", "ack", "nack"}
           /\ Stored(d) \in SUBSET Objects
BY NothingAssumption DEF Datagrams, Stored

(* A remark is an error string; remarks about two sets add up. *)
LEMMA RemarkType ==
    ASSUME NEW objects, NEW e \in Errors
    PROVE  Remark(objects, e) \in Errors /\ (e # "none" => Remark(objects, e) # "none")
BY DEF Remark, Errors

LEMMA RemarkUnion ==
    ASSUME NEW S, NEW T
    PROVE  Remark(T, Remark(S, "none")) = Remark(S \cup T, "none")
BY DEF Remark

LEMMA RemarkNothing == \A e : Remark({}, e) = e
BY DEF Remark

(* Changing an entry gives another table. *)
LEMMA UpdatedTable ==
    ASSUME NEW t \in Tables, NEW i \in Ids, NEW v \in Cells
    PROVE  [t EXCEPT ![i] = v] \in Tables
BY DEF Tables

(* The first state satisfies the invariant. *)
LEMMA InitIInv == Init => IInv
<1> SUFFICES ASSUME Init PROVE IInv
    OBVIOUS
<1>1. TypeOK
    BY DEF Init, TypeOK, Errors
<1>2. ErrorReported
    BY DEF Init, ErrorReported
<1>3. ASSUME NEW c \in Clients
      PROVE  PhaseInv(c) /\ ChangeInv(c) /\ SeenInv(c) /\ DumpInv(c)
    BY DEF Init, PhaseInv, ChangeInv, SeenInv, DumpInv, Carried, Ends
<1>4. QED
    BY <1>1, <1>2, <1>3 DEF IInv

-----------------------------------------------------------------------------
(* The clients that do not move.                                           *)

(* What a step of another client, or of another program, may do to e. *)
Elsewhere(e) ==
    /\ UNCHANGED <<query[e], dumping[e], todo[e], inbox[e], pc[e], op[e], sock[e], buf[e],
              heap[e], data[e], err[e], reply[e], applied[e]>>
    /\ \/ UNCHANGED <<table, changed[e], moments[e]>>
       \/ /\ changed'[e] = (changed[e] \/ (dumping[e] /\ table' # table))
          /\ moments'[e] = IF pc[e] # "idle" THEN moments[e] \cup {table'} ELSE moments[e]

(* A step of the kernel for client c does no more than that to e. *)
LEMMA ElsewhereKernel ==
    ASSUME TypeOK, NEW c \in Clients, Kernel(c), NEW e \in Clients, e # c
    PROVE  Elsewhere(e)
<1>1. CASE KernelChange(c)
  BY <1>1 DEF TypeOK, KernelChange, SetEntry, Answer, clientVars, Elsewhere
<1>2. CASE KernelRefuse(c)
  BY <1>2 DEF TypeOK, KernelRefuse, Answer, clientVars, Elsewhere
<1>3. CASE KernelStartDump(c)
  BY <1>3 DEF TypeOK, KernelStartDump, clientVars, Elsewhere
<1>4. CASE KernelPass(c)
  BY <1>4 DEF TypeOK, KernelPass, Answer, clientVars, Elsewhere
<1>5. QED BY <1>1, <1>2, <1>3, <1>4 DEF Kernel

(* Nor does a step of client c. *)
LEMMA ElsewhereClient ==
    ASSUME TypeOK, NEW c \in Clients, Client(c), NEW e \in Clients, e # c
    PROVE  Elsewhere(e)
<1> USE DEF Goto, Elsewhere, TypeOK
<1>1. CASE DataDump(c) \/ MessageRequest(c)
  BY <1>1 DEF DataDump, MessageRequest, Request, kernelVars
<1>2. CASE CreateFails(c) \/ Connect(c)
  BY <1>2 DEF CreateFails, Connect, kernelVars
<1>3. CASE Send(c)
  BY <1>3 DEF Send, SetError, kernelVars
<1>4. CASE Receive(c)
  BY <1>4 DEF Receive
<1>5. CASE ReceiveFails(c)
  BY <1>5 DEF ReceiveFails, SetError
<1>6. CASE DataParse(c)
  <2>1. BufferClean(c) /\ UNCHANGED <<table, kernelVars, op, sock, applied, moments>>
    BY <1>6 DEF DataParse
  <2>2. UNCHANGED <<buf[e], heap[e]>>
    BY <2>1 DEF BufferClean
  <2>3. UNCHANGED <<pc[e], data[e], err[e], reply[e]>>
    <3>1. CASE ParseFails(c)
      BY <3>1 DEF ParseFails, SetError
    <3>2. CASE ParseStops(c)
      BY <3>2 DEF ParseStops
    <3>3. CASE ParseContinues(c)
      BY <3>3 DEF ParseContinues
    <3>4. QED BY <1>6, <3>1, <3>2, <3>3 DEF DataParse
  <2>4. QED BY <2>1, <2>2, <2>3 DEF kernelVars
<1>7. CASE Disconnect(c)
  BY <1>7 DEF Disconnect, BufferClean
<1>8. QED BY <1>1, <1>2, <1>3, <1>4, <1>5, <1>6, <1>7 DEF Client

(* Nor does a change by another program, to any client. *)
LEMMA ElsewhereForeign ==
    ASSUME TypeOK, ForeignChange \/ UNCHANGED vars, NEW e \in Clients
    PROVE  Elsewhere(e)
<1>1. CASE ForeignChange
  BY <1>1 DEF TypeOK, ForeignChange, SetEntry, clientVars, Elsewhere
<1>2. CASE UNCHANGED vars
  BY <1>2 DEF TypeOK, clientVars, kernelVars, vars, Elsewhere
<1>3. QED BY <1>1, <1>2

(* The invariant of a client survives the steps of the others. *)
LEMMA ElseDump ==
    ASSUME TypeOK, NEW e \in Clients, PhaseInv(e), DumpInv(e), Elsewhere(e)
    PROVE DumpInv(e)'
<1> SUFFICES ASSUME op[e] = Dump PROVE DumpInv(e)'
  BY DEF DumpInv, Elsewhere
<1>1. Carried(buf[e])' = Carried(buf[e]) /\ Carried(inbox[e])' = Carried(inbox[e])
  BY DEF Elsewhere, Carried
<1>2. moments[e] \subseteq moments'[e]
  BY DEF Elsewhere
<1>3. ASSUME NEW t, Explains(e, t) PROVE Explains(e, t)'
  <2>1. dumping'[e] /\ ~changed'[e] => table' = t
     BY <1>3 DEF Elsewhere, Explains, TypeOK
  <2>2. QED BY <1>1, <1>3, <2>1 DEF Explains, Elsewhere
<1>4. ASSUME NEW x PROVE /\ Ends(inbox[e], x)' = Ends(inbox[e], x)
                        /\ Ends(buf[e], x)' = Ends(buf[e], x)
  BY DEF Ends, Elsewhere
<1>5. Spoilt(inbox[e])' = Spoilt(inbox[e]) /\ Spoilt(buf[e])' = Spoilt(buf[e])
  BY DEF Spoilt, Elsewhere
<1>6. (pc[e] \in {"receive", "parse"} /\ ~query[e] /\ ~Spoilt(inbox[e]) /\ ~Spoilt(buf[e])
    => \E t \in moments[e] : Explains(e, t))'
  BY <1>2, <1>3, <1>5 DEF DumpInv, Elsewhere
<1>7. (reply[e] = "ok" => \E t \in moments[e] : Readable(t) /\ data[e] = View(t))'
  BY <1>2 DEF DumpInv, Elsewhere
<1>8. QED BY <1>4, <1>6, <1>7 DEF DumpInv, Elsewhere

(* All parts of it together. *)
LEMMA ElsewhereInv ==
    ASSUME TypeOK, NEW e \in Clients, Elsewhere(e),
           PhaseInv(e), ChangeInv(e), SeenInv(e), DumpInv(e)
    PROVE  PhaseInv(e)' /\ ChangeInv(e)' /\ SeenInv(e)' /\ DumpInv(e)'
<1>1. PhaseInv(e)'
    BY DEF PhaseInv, Elsewhere
<1>2. ChangeInv(e)'
    BY DEF ChangeInv, Elsewhere, Carried
<1>3. SeenInv(e)'
    BY DEF SeenInv, Elsewhere, Carried
<1>4. DumpInv(e)'
    BY ElseDump
<1>5. QED
    BY <1>1, <1>2, <1>3, <1>4

-----------------------------------------------------------------------------
(* The parser.                                                             *)

(* What DataParse does, with the buffer known to be full. *)
ParseEffect(c) ==
    /\ pc[c] = "parse" /\ buf[c] \in Datagrams
    /\ buf' = [buf EXCEPT ![c] = Nothing]
    /\ heap' = [heap EXCEPT ![c] = 0]
    /\ UNCHANGED <<table, kernelVars, op, sock, applied, moments>>
    /\ \/ /\ CbFails(buf[c])
          /\ \E added \in SUBSET Stored(buf[c]) :
                data' = [data EXCEPT ![c] = @ \cup added]
          /\ pc' = [pc EXCEPT ![c] = "close"]
          /\ reply' = [reply EXCEPT ![c] = "failed"]
          /\ \E e \in Errors \ {"none"} :
                err' = [err EXCEPT ![c] = IF op[c] = Dump THEN e ELSE @]
       \/ /\ ~CbFails(buf[c])
          /\ data' = [data EXCEPT ![c] = @ \cup Stored(buf[c])]
          /\ err' = [err EXCEPT ![c] = Remark(Stored(buf[c]), @)]
          /\ IF buf[c].end = "more"
             THEN pc' = [pc EXCEPT ![c] = "receive"] /\ reply' = reply
             ELSE pc' = [pc EXCEPT ![c] = "close"] /\ reply' = [reply EXCEPT ![c] = "ok"]

(* It does that. *)
LEMMA ParseHasEffect ==
    ASSUME TypeOK, NEW c \in Clients, DataParse(c), PhaseInv(c)
    PROVE  ParseEffect(c)
<1> USE DEF ParseEffect
<1>1. pc[c] = "parse" /\ buf[c] # Nothing /\ heap[c] = 1 /\ err[c] \in Errors
  BY DEF DataParse, PhaseInv, TypeOK
<1>2. buf[c] \in Datagrams
  BY <1>1 DEF TypeOK
<1>3. /\ buf' = [buf EXCEPT ![c] = Nothing]
      /\ heap' = [heap EXCEPT ![c] = 0]
      /\ UNCHANGED <<table, kernelVars, op, sock, applied, moments>>
  BY <1>1 DEF DataParse, BufferClean
<1>4. CASE ParseFails(c)
  <2>1. PICK added \in SUBSET Stored(buf[c]) :
          /\ data' = [data EXCEPT ![c] = @ \cup added]
          /\ \/ SetError(c, "validation failed")
             \/ LET left == Remark(added, err[c])
                IN  SetError(c, IF left = "none" THEN "mnl_cb_run failed" ELSE left)
    BY <1>4 DEF ParseFails
  <2>2. \E e \in Errors \ {"none"} : SetError(c, e)
    <3>1. Remark(added, err[c]) \in Errors
      BY <1>1, RemarkType
    <3>2. QED BY <2>1, <3>1 DEF Errors
  <2>3. CbFails(buf[c]) /\ pc' = [pc EXCEPT ![c] = "close"] /\ reply' = [reply EXCEPT ![c] = "failed"]
    BY <1>4 DEF ParseFails, Goto
  <2>4. QED BY <1>1, <1>2, <1>3, <2>1, <2>2, <2>3 DEF SetError
<1>5. CASE ParseStops(c)
  BY <1>1, <1>2, <1>3, <1>5 DEF ParseStops, Goto
<1>6. CASE ParseContinues(c)
  BY <1>1, <1>2, <1>3, <1>6 DEF ParseContinues, Goto
<1>7. QED BY <1>4, <1>5, <1>6 DEF DataParse

(* Parsing keeps the types. *)
LEMMA ParseTypes ==
    ASSUME TypeOK, NEW c \in Clients, DataParse(c), PhaseInv(c)
    PROVE TypeOK'
<1>1. ParseEffect(c) BY ParseHasEffect
<1>2. data' \in [Clients -> SUBSET Objects]
  <2>1. Stored(buf[c]) \in SUBSET Objects BY <1>1, DatagramFields DEF ParseEffect
  <2>2. PICK added \in SUBSET Objects : data' = [data EXCEPT ![c] = @ \cup added]
    BY <1>1, <2>1 DEF ParseEffect
  <2> DEFINE P == SUBSET Objects
  <2>3. data \in [Clients -> P] /\ data[c] \cup added \in P
    BY DEF TypeOK
  <2> HIDE DEF P
  <2>4. data' \in [Clients -> P]
    BY <2>2, <2>3
  <2>5. QED BY <2>4 DEF P
<1>3. err' \in [Clients -> Errors]
  <2>1. \A e \in Errors : Remark(Stored(buf[c]), e) \in Errors
    BY RemarkType
  <2>2. QED BY <1>1, <2>1 DEF TypeOK, ParseEffect
<1>4. pc' \in [Clients -> {"idle", "connect", "send", "receive", "parse", "close"}]
     /\ reply' \in [Clients -> {"none", "ok", "failed"}]
  BY <1>1 DEF TypeOK, ParseEffect
<1>5. QED BY <1>1, <1>2, <1>3, <1>4 DEF TypeOK, kernelVars, ParseEffect

(* Parsing a datagram leaves the remark about all that is stored. *)
LEMMA ParseRemark ==
    ASSUME TypeOK, NEW c \in Clients, ParseEffect(c), PhaseInv(c), ~CbFails(buf[c])
    PROVE err'[c] = Remark(data'[c], "none")
<1>1. err[c] = Remark(data[c], "none")
  BY DEF PhaseInv, ParseEffect
<1>2. data'[c] = data[c] \cup Stored(buf[c])
  BY DEF TypeOK, ParseEffect
<1>3. err'[c] = Remark(Stored(buf[c]), err[c])
  BY DEF TypeOK, ParseEffect
<1>4. QED BY <1>1, <1>2, <1>3, RemarkUnion

(* Parsing keeps the phases. *)
LEMMA ParsePhase ==
    ASSUME TypeOK, NEW c \in Clients, DataParse(c), PhaseInv(c)
    PROVE PhaseInv(c)'
<1>1. ParseEffect(c) BY ParseHasEffect
<1>2. CASE CbFails(buf[c])
  <2>1. pc'[c] = "close"
    BY <1>1, <1>2 DEF TypeOK, ParseEffect
  <2>2. QED BY <1>1, <1>2, <2>1 DEF TypeOK, PhaseInv, kernelVars, ParseEffect
<1>3. CASE ~CbFails(buf[c])
  <2>2. err'[c] = Remark(data'[c], "none")
    BY <1>1, <1>3, ParseRemark
  <2>3. pc'[c] = "receive" => reply'[c] = "none"
    BY <1>1, <1>3 DEF TypeOK, PhaseInv, ParseEffect
  <2>4. pc'[c] \in {"receive", "close"} /\ (pc'[c] = "close" => reply'[c] = "ok")
    BY <1>1, <1>3 DEF TypeOK, ParseEffect
  <2>5. buf'[c] = Nothing /\ heap'[c] = 0
    BY <1>1 DEF TypeOK, ParseEffect
  <2>6. UNCHANGED <<table, query, dumping, inbox, op, sock, applied, moments>> /\ pc[c] = "parse"
    BY <1>1 DEF ParseEffect, kernelVars
  <2>7. QED BY <2>2, <2>3, <2>4, <2>5, <2>6 DEF PhaseInv
<1>4. QED BY <1>2, <1>3

(* A parser that fails leaves its reason. *)
LEMMA ParseError ==
    ASSUME TypeOK, NEW c \in Clients, DataParse(c), PhaseInv(c), ErrorReported
    PROVE ErrorReported'
<1>1. ParseEffect(c) BY ParseHasEffect
<1>2. ASSUME NEW e \in Clients, e # c
      PROVE /\ err'[e] = err[e] /\ pc'[e] = pc[e] /\ reply'[e] = reply[e]
            /\ op'[e] = op[e] /\ data'[e] = data[e]
  <2>1. err'[e] = err[e] /\ op'[e] = op[e] /\ data'[e] = data[e]
    <3>1. /\ op' = op
          /\ \E v : err' = [err EXCEPT ![c] = v]
          /\ \E v : data' = [data EXCEPT ![c] = v]
      BY <1>1 DEF ParseEffect
    <3>2. QED BY <1>2, <3>1 DEF TypeOK
  <2>2. pc'[e] = pc[e] /\ reply'[e] = reply[e]
    <3>1. /\ \E v : pc' = [pc EXCEPT ![c] = v]
          /\ reply' = reply \/ \E v : reply' = [reply EXCEPT ![c] = v]
      BY <1>1 DEF ParseEffect
    <3>2. QED BY <1>2, <3>1 DEF TypeOK
  <2>3. QED BY <2>1, <2>2
<1>3. op'[c] = Dump /\ pc'[c] = "close" =>
          /\ reply'[c] = "ok" => err'[c] = Remark(data'[c], "none")
          /\ reply'[c] = "failed" => err'[c] # "none"
  <2>1. CASE CbFails(buf[c])
    BY <1>1, <2>1 DEF TypeOK, ParseEffect
  <2>2. CASE ~CbFails(buf[c])
    <3>1. reply'[c] # "failed"
      BY <1>1, <2>2 DEF TypeOK, PhaseInv, ParseEffect
    <3>2. QED BY <1>1, <2>2, <3>1, ParseRemark
  <2>3. QED BY <2>1, <2>2
<1>4. pc'[c] \in {"receive", "close"}
  BY <1>1 DEF TypeOK, ParseEffect
<1>5. QED BY <1>2, <1>3, <1>4 DEF ErrorReported

(* The answer to a change stores nothing and reports its outcome. *)
LEMMA ParseChange ==
    ASSUME TypeOK, NEW c \in Clients, DataParse(c), PhaseInv(c), ChangeInv(c)
    PROVE ChangeInv(c)'
<1>1. ParseEffect(c) BY ParseHasEffect
<1> SUFFICES ASSUME op[c] # Dump PROVE ChangeInv(c)'
  BY <1>1 DEF ChangeInv, ParseEffect
<1>2. Stored(buf[c]) = {}
  BY <1>1, DatagramFields DEF ChangeInv, Carried, Stored, ParseEffect
<1>3. data'[c] = {}
  BY <1>1, <1>2 DEF ChangeInv, TypeOK, ParseEffect
<1>4. reply'[c] = "ok" => applied[c]
  <2>1. buf[c] # Nothing /\ buf[c].end \in {"nack", "ack"}
    BY <1>1, DatagramFields DEF ChangeInv, ParseEffect
  <2>2. reply'[c] = "ok" => buf[c].end = "ack"
    BY <1>1, <2>1 DEF CbFails, TypeOK, ParseEffect
  <2>3. buf[c].end = "ack" => applied[c]
    BY <2>1 DEF ChangeInv
  <2>4. QED BY <2>2, <2>3
<1>5. buf'[c] = Nothing
  BY <1>1 DEF TypeOK, ParseEffect
<1>6. QED BY <1>1, <1>3, <1>4, <1>5 DEF ChangeInv, Carried, kernelVars, ParseEffect

(* Parsing a clean datagram keeps the dump explained by one table. *)
LEMMA OwnDumpParse ==
    ASSUME TypeOK, NEW c \in Clients, DataParse(c), PhaseInv(c), SeenInv(c), DumpInv(c),
           op[c] = Dump
    PROVE DumpInv(c)'
<1>1. ParseEffect(c)
  BY ParseHasEffect
<1>2. /\ buf[c] \in Datagrams /\ buf'[c] = Nothing /\ ~query[c] /\ pc[c] = "parse"
      /\ UNCHANGED <<table, query, dumping, todo, changed, inbox, op, moments>>
  BY <1>1 DEF ParseEffect, TypeOK, PhaseInv, kernelVars
<1>3. buf[c] # Nothing /\ Carried(buf[c]) = buf[c].objs /\ Carried(buf[c])' = {}
  BY <1>2, DatagramFields DEF Carried
<1>4. /\ ~Ends(inbox[c], "ack")' /\ ~Ends(buf[c], "ack")' /\ ~Ends(buf[c], "done")'
      /\ Ends(inbox[c], "done")' => ~dumping'[c] /\ todo'[c] = {}
  BY <1>2 DEF Ends, DumpInv
<1>5. CASE CbFails(buf[c])
  <2>1. pc'[c] = "close" /\ reply'[c] = "failed"
    BY <1>1, <1>5 DEF ParseEffect, TypeOK
  <2>2. QED BY <1>4, <2>1 DEF DumpInv
<1>6. CASE ~CbFails(buf[c])
  <2>1. /\ ~Spoilt(buf[c])
        /\ \A o \in Carried(buf[c]) : o[2] \notin Rejected
    BY <1>3, <1>6 DEF CbFails, Spoilt
  <2>2. data'[c] = data[c] \cup Stored(buf[c])
    BY <1>1, <1>6 DEF ParseEffect, TypeOK
  <2>3. \A o \in Stored(buf[c]) : o \in Carried(buf[c]) /\ o[2] \in Reported
    BY <1>3 DEF Stored
  <2>4. \A o \in Carried(buf[c]) : o[2] \in Reported => o \in Stored(buf[c])
    BY <1>3 DEF Stored
  <2>5. CASE buf[c].end = "more"
    <3>1. pc'[c] = "receive" /\ reply'[c] = "none"
      BY <1>1, <1>6, <2>5 DEF ParseEffect, TypeOK, PhaseInv
    <3>2. ASSUME NEW t \in moments[c], Explains(c, t) PROVE Explains(c, t)'
      <4>1. Carried(inbox[c])' = Carried(inbox[c])
        BY <1>2 DEF Carried
      <4>2. \A o \in data'[c] \cup Carried(inbox[c]) : o[1] \notin todo[c] /\ t[o[1]] = o[2]
        BY <2>2, <2>3, <3>2 DEF Explains
      <4>3. ASSUME NEW i \in Ids \ todo[c]
            PROVE  /\ t[i] \in Reported => <<i, t[i]>> \in data'[c] \cup Carried(inbox[c])
                   /\ t[i] \in Rejected => <<i, t[i]>> \in Carried(inbox[c])
        <5>1. /\ t[i] \in Reported =>
                   <<i, t[i]>> \in data[c] \cup Carried(buf[c]) \cup Carried(inbox[c])
              /\ t[i] \in Rejected =>
                   <<i, t[i]>> \in Carried(buf[c]) \cup Carried(inbox[c])
          BY <3>2 DEF Explains
        <5>2. <<i, t[i]>>[2] = t[i]
          OBVIOUS
        <5>3. QED BY <5>1, <5>2, <2>1, <2>2, <2>4
      <4>4. dumping[c] /\ ~changed[c] => table = t
        BY <3>2 DEF Explains
      <4>5. QED BY <1>2, <1>3, <4>1, <4>2, <4>3, <4>4 DEF Explains
    <3>3. (~Spoilt(inbox[c]))' => ~Spoilt(inbox[c])
      BY <1>2 DEF Spoilt
    <3>4. (pc[c] \in {"receive", "parse"} /\ ~query[c] /\ ~Spoilt(inbox[c]) /\ ~Spoilt(buf[c])
             => \E t \in moments[c] : Explains(c, t))'
      BY <1>2, <2>1, <3>2, <3>3 DEF DumpInv
    <3>5. QED BY <1>4, <3>1, <3>4 DEF DumpInv
  <2>6. CASE buf[c].end # "more"
    <3>1. pc'[c] = "close"
      BY <1>1, <1>6, <2>6 DEF ParseEffect, TypeOK
    <3>2. buf[c].end = "done"
      <4>1. buf[c].end \in {"more", "done", "ack", "nack"}
        BY <1>2, DatagramFields
      <4>2. buf[c].end # "ack" /\ buf[c].end # "nack"
        BY <1>3, <2>1 DEF DumpInv, Ends, Spoilt
      <4>3. QED BY <2>6, <4>1, <4>2
    <3>3. todo[c] = {} /\ inbox[c] = Nothing
      BY <1>3, <3>2 DEF DumpInv, Ends
    <3>4. PICK t \in moments[c] : Explains(c, t)
      BY <1>2, <2>1, <3>3 DEF DumpInv, Spoilt
    <3>5. Carried(inbox[c]) = {}
      BY <3>3 DEF Carried
    <3>6. t \in Tables
      BY DEF TypeOK
    <3>7. ASSUME NEW i \in Ids
          PROVE  /\ t[i] \in Reported => <<i, t[i]>> \in data'[c]
                 /\ t[i] \notin Rejected
      <4>1. /\ t[i] \in Reported => <<i, t[i]>> \in data[c] \cup Carried(buf[c])
            /\ t[i] \in Rejected => <<i, t[i]>> \in Carried(buf[c])
        BY <3>3, <3>4, <3>5 DEF Explains
      <4>2. <<i, t[i]>>[2] = t[i]
        OBVIOUS
      <4>3. QED BY <4>1, <4>2, <2>1, <2>2, <2>4
    <3>8. Readable(t)
      BY <3>7 DEF Readable
    <3>9. data'[c] = View(t)
      <4>1. ASSUME NEW o \in data'[c] PROVE o \in View(t)
        <5>1. o[2] \in Reported /\ t[o[1]] = o[2]
          BY <2>2, <2>3, <3>4, <4>1 DEF SeenInv, Explains
        <5>2. o \in Objects
          BY <1>2, <2>2, <4>1, DatagramFields DEF TypeOK
        <5>3. QED BY <5>1, <5>2 DEF View
      <4>2. ASSUME NEW o \in View(t) PROVE o \in data'[c]
        <5>1. o \in Objects /\ t[o[1]] = o[2] /\ o[2] \in Reported
          BY <4>2 DEF View
        <5>2. o = <<o[1], o[2]>> /\ o[1] \in Ids
          BY <5>1 DEF Objects
        <5>3. QED BY <3>7, <5>1, <5>2
      <4>3. QED BY <4>1, <4>2
    <3>10. QED BY <1>2, <1>4, <3>1, <3>8, <3>9 DEF DumpInv
  <2>7. QED BY <2>5, <2>6
<1>7. QED BY <1>5, <1>6

-----------------------------------------------------------------------------
(* The client that moves.                                                  *)

(* The kernel keeps the phases. *)
LEMMA OwnPhaseKernel ==
    ASSUME TypeOK, NEW c \in Clients, Kernel(c), PhaseInv(c)
    PROVE PhaseInv(c)'
<1> USE DEF TypeOK, PhaseInv, Answer, clientVars
<1>1. CASE KernelChange(c)
  <2>1. [objs |-> {}, intr |-> FALSE, end |-> "ack"] \in Datagrams
        BY DEF Datagrams
  <2>2. QED BY <1>1, <2>1, NothingAssumption DEF KernelChange, SetEntry
<1>2. CASE KernelRefuse(c)
  BY <1>2 DEF KernelRefuse
<1>3. CASE KernelStartDump(c)
  BY <1>3 DEF KernelStartDump
<1>4. CASE KernelPass(c)
  BY <1>4 DEF KernelPass
<1>5. QED BY <1>1, <1>2, <1>3, <1>4 DEF Kernel

(* The client keeps the phases. *)
LEMMA OwnPhaseClient ==
    ASSUME TypeOK, NEW c \in Clients, Client(c), PhaseInv(c)
    PROVE PhaseInv(c)'
<1> USE DEF TypeOK, Goto, PhaseInv
<1>1. CASE DataDump(c) \/ MessageRequest(c)
  <2>1. /\ pc[c] = "idle" /\ pc'[c] = "connect" /\ data'[c] = {} /\ err'[c] = "none"
        /\ reply'[c] = "none" /\ ~applied'[c] /\ moments'[c] = {table}
        /\ UNCHANGED <<table, kernelVars, sock, buf, heap>>
    BY <1>1 DEF DataDump, MessageRequest, Request
  <2>2. err'[c] = Remark(data'[c], "none")
    BY <2>1, RemarkNothing
  <2>3. ~query[c] /\ ~dumping[c] /\ inbox[c] = Nothing
    BY <2>1
  <2>4. QED BY <2>1, <2>2, <2>3 DEF kernelVars
<1>2. CASE CreateFails(c) \/ Connect(c)
  BY <1>2 DEF CreateFails, Connect, kernelVars
<1>3. CASE Send(c)
  <2>1. /\ pc[c] = "send"
        /\ UNCHANGED <<table, dumping, todo, changed, inbox, op, sock, buf, heap, data, applied,
                       moments>>
    BY <1>3 DEF Send, kernelVars
  <2>2. \/ pc'[c] = "receive" /\ UNCHANGED <<err, reply>>
        \/ pc'[c] = "close" /\ reply'[c] = "failed" /\ UNCHANGED query
    BY <1>3 DEF Send, kernelVars
  <2>3. QED BY <2>1, <2>2
<1>4. CASE Receive(c)
  BY <1>4 DEF Receive
<1>5. CASE ReceiveFails(c)
  <2>1. pc'[c] = "close" /\ reply'[c] = "failed" /\ pc[c] = "receive"
    BY <1>5 DEF ReceiveFails
  <2>2. /\ UNCHANGED <<table, query, dumping, op, sock, buf, heap, data, applied, moments>>
        /\ inbox'[c] \in {inbox[c], Nothing}
    BY <1>5 DEF ReceiveFails
  <2>3. QED BY <2>1, <2>2
<1>6. CASE DataParse(c)
  BY <1>6, ParsePhase
<1>7. CASE Disconnect(c)
  BY <1>7 DEF Disconnect, BufferClean
<1>8. QED BY <1>1, <1>2, <1>3, <1>4, <1>5, <1>6, <1>7 DEF Client

(* The kernel answers a change with one datagram. *)
LEMMA OwnChangeKernel ==
    ASSUME TypeOK, NEW c \in Clients, Kernel(c), PhaseInv(c), ChangeInv(c)
    PROVE ChangeInv(c)'
<1> USE DEF TypeOK, ChangeInv, PhaseInv, Answer, clientVars, Carried
<1>1. CASE KernelChange(c)
  BY <1>1 DEF KernelChange, SetEntry
<1>2. CASE KernelRefuse(c)
  BY <1>2 DEF KernelRefuse
<1>3. CASE KernelStartDump(c)
  BY <1>3 DEF KernelStartDump
<1>4. CASE KernelPass(c)
  BY <1>4 DEF KernelPass
<1>5. QED BY <1>1, <1>2, <1>3, <1>4 DEF Kernel

(* The client keeps what holds of a change. *)
LEMMA OwnChangeClient ==
    ASSUME TypeOK, NEW c \in Clients, Client(c), PhaseInv(c), ChangeInv(c)
    PROVE ChangeInv(c)'
<1> USE DEF TypeOK, Goto, PhaseInv, ChangeInv, Carried
<1>1. CASE DataDump(c) \/ MessageRequest(c)
  BY <1>1 DEF DataDump, MessageRequest, Request, kernelVars
<1>2. CASE CreateFails(c) \/ Connect(c)
  BY <1>2 DEF CreateFails, Connect, kernelVars
<1>3. CASE Send(c)
  <2>1. UNCHANGED <<op, data, inbox, buf, applied>> /\ reply'[c] \in {reply[c], "failed"}
    BY <1>3 DEF Send, kernelVars
  <2> HIDE DEF TypeOK, PhaseInv, Goto
  <2>2. QED BY <2>1
<1>4. CASE Receive(c)
  BY <1>4 DEF Receive
<1>5. CASE ReceiveFails(c)
  BY <1>5 DEF ReceiveFails, SetError
<1>6. CASE DataParse(c)
  BY <1>6, ParseChange
<1>7. CASE Disconnect(c)
  BY <1>7 DEF Disconnect, BufferClean
<1>8. QED BY <1>1, <1>2, <1>3, <1>4, <1>5, <1>6, <1>7 DEF Client

(* The kernel sends entries the table has. *)
LEMMA OwnSeenKernel ==
    ASSUME TypeOK, NEW c \in Clients, Kernel(c), PhaseInv(c), SeenInv(c)
    PROVE SeenInv(c)'
<1> USE DEF Answer, clientVars, Carried
<1>1. CASE KernelChange(c) \/ KernelRefuse(c)
  <2>1. Carried(inbox[c])' = {}
    BY <1>1 DEF KernelChange, KernelRefuse, TypeOK
  <2>2. moments[c] \subseteq moments'[c]
    BY <1>1 DEF KernelChange, KernelRefuse, SetEntry, TypeOK
  <2>3. UNCHANGED <<data, buf>>
    BY <1>1 DEF KernelChange, KernelRefuse
  <2>4. QED BY <2>1, <2>2, <2>3 DEF SeenInv
<1>2. CASE KernelStartDump(c)
  BY <1>2 DEF KernelStartDump, SeenInv
<1>3. CASE KernelPass(c)
  <2>1. table \in moments[c]
    BY <1>3 DEF KernelPass, PhaseInv
  <2>2. \A o \in Carried(inbox[c])' : table[o[1]] = o[2]
    BY <1>3 DEF KernelPass, TypeOK
  <2>3. UNCHANGED <<data, buf, moments>>
    BY <1>3 DEF KernelPass
  <2>4. QED BY <2>1, <2>2, <2>3 DEF SeenInv
<1>4. QED BY <1>1, <1>2, <1>3 DEF Kernel

(* The client stores entries the kernel sent. *)
LEMMA OwnSeenClient ==
    ASSUME TypeOK, NEW c \in Clients, Client(c), PhaseInv(c), SeenInv(c)
    PROVE SeenInv(c)'
<1> USE DEF Goto, Carried
<1>1. CASE DataDump(c) \/ MessageRequest(c)
  <2>1. inbox'[c] = Nothing /\ buf'[c] = Nothing /\ data'[c] = {}
    BY <1>1 DEF DataDump, MessageRequest, Request, kernelVars, PhaseInv, TypeOK
  <2>2. QED BY <2>1 DEF SeenInv
<1>2. CASE CreateFails(c) \/ Connect(c) \/ Send(c)
  BY <1>2 DEF CreateFails, Connect, Send, kernelVars, SeenInv
<1>3. CASE Receive(c)
  <2>1. buf'[c] = inbox[c] /\ inbox'[c] = Nothing /\ buf[c] = Nothing
    BY <1>3 DEF Receive, TypeOK, PhaseInv
  <2>2. QED BY <1>3, <2>1 DEF Receive, SeenInv
<1>4. CASE ReceiveFails(c) \/ Disconnect(c)
  <2>1. (inbox'[c] = inbox[c] \/ inbox'[c] = Nothing) /\ (buf'[c] = buf[c] \/ buf'[c] = Nothing)
    BY <1>4 DEF ReceiveFails, Disconnect, BufferClean, TypeOK
  <2>2. UNCHANGED <<data, moments>>
    BY <1>4 DEF ReceiveFails, Disconnect
  <2>3. QED BY <2>1, <2>2 DEF SeenInv
<1>5. CASE DataParse(c)
  <2>1. ParseEffect(c)
    BY <1>5, ParseHasEffect
  <2>2. buf[c] # Nothing /\ buf'[c] = Nothing /\ UNCHANGED <<inbox, moments>>
    BY <2>1, DatagramFields DEF ParseEffect, TypeOK, kernelVars
  <2>3. \A o \in data'[c] : o \in data[c] \/ o \in Stored(buf[c])
    <3>1. \E added \in SUBSET Stored(buf[c]) : data' = [data EXCEPT ![c] = @ \cup added]
      BY <2>1 DEF ParseEffect
    <3>2. QED BY <3>1 DEF TypeOK
  <2>4. \A o \in Stored(buf[c]) : o \in Carried(buf[c]) /\ o[2] \in Reported
    BY <2>2 DEF Stored
  <2>5. Carried(buf[c])' = {} /\ Carried(inbox[c])' = Carried(inbox[c])
    BY <2>2
  <2> HIDE DEF Carried
  <2>6. QED BY <2>2, <2>3, <2>4, <2>5 DEF SeenInv
<1>6. QED BY <1>1, <1>2, <1>3, <1>4, <1>5 DEF Client

(* A dump pass is explained by the table of the passes before, or flagged. *)
LEMMA OwnDumpKernel ==
    ASSUME TypeOK, NEW c \in Clients, Kernel(c), PhaseInv(c), DumpInv(c)
    PROVE DumpInv(c)'
<1> USE DEF Answer, clientVars
<1> SUFFICES ASSUME op[c] = Dump PROVE DumpInv(c)'
  BY DEF DumpInv, Kernel, KernelChange, KernelRefuse, KernelStartDump, KernelPass
<1>1. CASE KernelRefuse(c)
  <2>1. inbox'[c] = [objs |-> {}, intr |-> FALSE, end |-> "nack"]
    BY <1>1 DEF KernelRefuse, TypeOK
  <2>2. Spoilt(inbox[c])' /\ ~Ends(inbox[c], "ack")' /\ ~Ends(inbox[c], "done")'
    <3>1. [objs |-> {}, intr |-> FALSE, end |-> "nack"] \in Datagrams
      BY DEF Datagrams
    <3>2. inbox'[c] # Nothing /\ inbox'[c].end = "nack"
      <4>1. inbox'[c] \in Datagrams
        BY <2>1, <3>1
      <4>2. inbox'[c].end = "nack"
        BY <2>1
      <4>3. QED BY <4>1, <4>2, NothingAssumption
    <3>3. QED BY <3>2 DEF Spoilt, Ends
  <2>3. buf[c] = Nothing
    BY <1>1 DEF KernelRefuse, PhaseInv
  <2>4. QED BY <1>1, <2>2, <2>3 DEF KernelRefuse, DumpInv, Ends
<1>2. CASE KernelStartDump(c)
  <2>1. /\ inbox[c] = Nothing /\ buf[c] = Nothing /\ data[c] = {} /\ todo'[c] = Ids
        /\ table \in moments[c]
    BY <1>2 DEF KernelStartDump, PhaseInv, TypeOK
  <2>2. UNCHANGED <<table, inbox, buf, data, moments, reply, op, pc>>
    BY <1>2 DEF KernelStartDump
  <2>3. Explains(c, table)'
    BY <2>1, <2>2 DEF Explains, Carried
  <2>4. QED BY <2>1, <2>2, <2>3 DEF DumpInv, Ends
<1>3. CASE KernelPass(c)
  <2>1. PICK visited \in SUBSET todo[c], done \in BOOLEAN :
            LET objects == {o \in Objects : o[1] \in visited /\ table[o[1]] = o[2]}
            IN  /\ done => visited = todo[c]
                /\ Answer(c, objects, changed[c], IF done THEN "done" ELSE "more")
                /\ todo' = [todo EXCEPT ![c] = @ \ visited]
                /\ dumping' = [dumping EXCEPT ![c] = ~done]
    BY <1>3 DEF KernelPass
  <2> DEFINE objects == {o \in Objects : o[1] \in visited /\ table[o[1]] = o[2]}
             d == [objs |-> objects, intr |-> changed[c],
                   end |-> IF done THEN "done" ELSE "more"]
  <2>2. d \in Datagrams
    BY DEF Datagrams, TypeOK
  <2>3. /\ inbox'[c] = d /\ todo'[c] = todo[c] \ visited /\ dumping'[c] = ~done
        /\ changed'[c] = FALSE
    BY <1>3, <2>1 DEF TypeOK, KernelPass
  <2>4. /\ inbox[c] = Nothing /\ dumping[c] /\ ~query[c]
        /\ UNCHANGED <<table, query, buf, data, moments, reply, op, pc>>
    BY <1>3 DEF KernelPass, PhaseInv
  <2>5. d # Nothing /\ d.objs = objects /\ d.intr = changed[c]
        /\ d.end = IF done THEN "done" ELSE "more"
    BY <2>2, NothingAssumption
  <2>6. ~Ends(inbox[c], "ack")' /\ (Ends(inbox[c], "done")' => done /\ todo'[c] = {})
    BY <2>1, <2>3, <2>5 DEF Ends
  <2>7. ~Ends(buf[c], "done")
    BY <2>4 DEF DumpInv
  <2>8. ASSUME NEW t \in moments[c], ~changed[c], Explains(c, t) PROVE Explains(c, t)'
    <3>1. t = table
      BY <2>4, <2>8 DEF Explains
    <3>2. Carried(inbox[c]) = {} /\ Carried(inbox[c])' = objects /\ Carried(buf[c])' = Carried(buf[c])
      BY <2>3, <2>4, <2>5 DEF Carried
    <3>3. \A o \in objects : o[1] \in visited /\ t[o[1]] = o[2]
      BY <3>1
    <3>4. \A i \in visited : t[i] \in Vals => <<i, t[i]>> \in objects
      BY <3>1, <2>1 DEF Objects, TypeOK
    <3>5. Reported \subseteq Vals /\ Rejected \subseteq Vals
      BY ContentsAssumption
    <3>6. \A o \in data'[c] \cup Carried(buf[c])' \cup Carried(inbox[c])' :
             o[1] \notin todo'[c] /\ t[o[1]] = o[2]
      BY <2>3, <2>4, <2>8, <3>2, <3>3 DEF Explains
    <3>7. ASSUME NEW i \in Ids, i \notin todo'[c]
          PROVE /\ t[i] \in Reported =>
                     <<i, t[i]>> \in data'[c] \cup Carried(buf[c])' \cup Carried(inbox[c])'
                /\ t[i] \in Rejected =>
                     <<i, t[i]>> \in Carried(buf[c])' \cup Carried(inbox[c])'
      <4>1. CASE i \in visited
        BY <4>1, <3>2, <3>4, <3>5
      <4>2. CASE i \notin visited
        <5>1. i \in Ids \ todo[c]
          BY <2>3, <3>7, <4>2
        <5>2. QED BY <5>1, <2>4, <2>8, <3>2 DEF Explains
      <4>3. QED BY <4>1, <4>2
    <3>8. QED BY <2>3, <2>4, <3>1, <3>6, <3>7 DEF Explains
  <2>9. Spoilt(inbox[c])' <=> changed[c]
    BY <2>3, <2>5 DEF Spoilt
  <2>10. ~Spoilt(inbox[c]) /\ Spoilt(buf[c])' = Spoilt(buf[c])
    BY <2>4 DEF Spoilt
  <2>11. QED
    <3>1. (pc[c] \in {"receive", "parse"} /\ ~query[c] /\ ~Spoilt(inbox[c]) /\ ~Spoilt(buf[c])
             => \E t \in moments[c] : Explains(c, t))'
      BY <2>4, <2>8, <2>9, <2>10 DEF DumpInv
    <3>2. /\ ~Ends(buf[c], "ack")' /\ ~Ends(buf[c], "done")'
      BY <2>4, <2>7 DEF DumpInv, Ends
    <3>3. (reply[c] = "ok" => \E t \in moments[c] : Readable(t) /\ data[c] = View(t))'
      BY <2>4 DEF DumpInv
    <3>4. Ends(inbox[c], "done")' => ~dumping'[c] /\ todo'[c] = {}
      BY <2>3, <2>6
    <3>5. QED BY <2>6, <3>1, <3>2, <3>3, <3>4 DEF DumpInv
<1>4. QED BY <1>1, <1>2, <1>3 DEF Kernel, KernelChange

(* The client keeps the dump explained by one table. *)
LEMMA OwnDumpClient ==
    ASSUME TypeOK, NEW c \in Clients, Client(c), PhaseInv(c), SeenInv(c), DumpInv(c)
    PROVE DumpInv(c)'
<1> USE DEF Goto
<1>1. CASE DataDump(c) \/ MessageRequest(c)
  <2>1. inbox'[c] = Nothing /\ buf'[c] = Nothing /\ pc'[c] = "connect" /\ reply'[c] = "none"
    BY <1>1 DEF DataDump, MessageRequest, Request, kernelVars, PhaseInv, TypeOK
  <2>2. QED BY <2>1 DEF DumpInv, Ends
<1>2. CASE CreateFails(c) \/ Connect(c) \/ Send(c)
  <2>1. /\ UNCHANGED <<inbox, buf, data, moments, op, dumping, todo>>
        /\ reply'[c] = reply[c] \/ reply'[c] = "failed"
        /\ pc'[c] \in {"send", "idle", "close"} \/ query'[c]
    BY <1>2 DEF CreateFails, Connect, Send, kernelVars, TypeOK
  <2>2. QED BY <2>1 DEF DumpInv, Ends
<1>3. CASE Receive(c)
  <2>1. /\ buf'[c] = inbox[c] /\ inbox'[c] = Nothing /\ buf[c] = Nothing /\ pc[c] = "receive"
        /\ UNCHANGED <<table, query, dumping, todo, changed, op, data, reply, moments>>
    BY <1>3 DEF Receive, TypeOK, PhaseInv
  <2>2. Carried(buf[c])' = Carried(inbox[c]) /\ Carried(inbox[c])' = {} /\ Carried(buf[c]) = {}
    BY <2>1 DEF Carried
  <2>3. ASSUME NEW t \in moments[c], Explains(c, t) PROVE Explains(c, t)'
    BY <2>1, <2>2, <2>3 DEF Explains
  <2>4. Spoilt(buf[c])' = Spoilt(inbox[c]) /\ ~Spoilt(buf[c])
    BY <2>1 DEF Spoilt
  <2>5. \A x : Ends(buf[c], x)' = Ends(inbox[c], x) /\ ~Ends(inbox[c], x)'
    BY <2>1 DEF Ends
  <2>6. QED BY <2>1, <2>3, <2>4, <2>5 DEF DumpInv
<1>4. CASE ReceiveFails(c) \/ Disconnect(c)
  <2>1. /\ inbox'[c] = inbox[c] \/ inbox'[c] = Nothing
        /\ buf'[c] = Nothing
        /\ pc'[c] \in {"close", "idle"}
        /\ reply'[c] = reply[c] \/ reply'[c] = "failed"
        /\ UNCHANGED <<data, moments, op>>
        /\ UNCHANGED <<dumping[c], todo[c]>> \/ (dumping'[c] = FALSE /\ todo'[c] = {})
    <3>1. CASE ReceiveFails(c)
      BY <3>1 DEF ReceiveFails, TypeOK, PhaseInv
    <3>2. CASE Disconnect(c)
      BY <3>2 DEF Disconnect, BufferClean, TypeOK
    <3>3. QED BY <1>4, <3>1, <3>2
  <2>2. QED BY <2>1 DEF DumpInv, Ends
<1>5. CASE DataParse(c)
  <2>1. CASE op[c] = Dump
    BY <1>5, <2>1, OwnDumpParse
  <2>2. CASE op[c] # Dump
    BY <1>5, <2>2 DEF DumpInv, DataParse
  <2>3. QED BY <2>1, <2>2
<1>6. QED BY <1>1, <1>2, <1>3, <1>4, <1>5 DEF Client

-----------------------------------------------------------------------------
(* Types.                                                                  *)

(* Every step keeps the types, given the phases: only a full buffer is     *)
(* parsed.                                                                 *)
LEMMA TypeStep == IInv /\ [Next]_vars => TypeOK'
<1> SUFFICES ASSUME IInv, [Next]_vars PROVE TypeOK'
    OBVIOUS
<1>0. TypeOK /\ \A c \in Clients : PhaseInv(c)
    BY DEF IInv
<1>1. CASE ForeignChange
    <2>1. PICK i \in Ids, v \in Cells : SetEntry(i, v)
        BY <1>1 DEF ForeignChange
    <2>2. table' \in Tables
        BY <1>0, <2>1, UpdatedTable DEF SetEntry, TypeOK
    <2>3. QED
        BY <1>0, <1>1, <2>1, <2>2 DEF ForeignChange, SetEntry, clientVars, TypeOK
<1>2. ASSUME NEW c \in Clients, Kernel(c) PROVE TypeOK'
    <2>1. CASE KernelChange(c)
        <3>1. op[c].id \in Ids /\ op[c].val \in Cells
            BY <1>0, <2>1 DEF KernelChange, Changes, TypeOK
        <3>2. table' \in Tables
            BY <1>0, <2>1, <3>1, UpdatedTable DEF KernelChange, SetEntry, TypeOK
        <3>3. [objs |-> {}, intr |-> FALSE, end |-> "ack"] \in Datagrams
            BY DEF Datagrams
        <3>4. QED
            BY <1>0, <2>1, <3>2, <3>3 DEF KernelChange, SetEntry, Answer, clientVars, TypeOK
    <2>2. CASE KernelRefuse(c)
        <3>1. [objs |-> {}, intr |-> FALSE, end |-> "nack"] \in Datagrams
            BY DEF Datagrams
        <3>2. QED
            BY <1>0, <2>2, <3>1 DEF KernelRefuse, Answer, clientVars, TypeOK
    <2>3. CASE KernelStartDump(c)
        BY <1>0, <2>3 DEF KernelStartDump, clientVars, TypeOK
    <2>4. CASE KernelPass(c)
        <3>1. PICK visited \in SUBSET todo[c], done \in BOOLEAN :
                 LET objects == {o \in Objects : o[1] \in visited /\ table[o[1]] = o[2]}
                 IN  /\ Answer(c, objects, changed[c], IF done THEN "done" ELSE "more")
                     /\ todo' = [todo EXCEPT ![c] = @ \ visited]
                     /\ dumping' = [dumping EXCEPT ![c] = ~done]
            BY <2>4 DEF KernelPass
        <3>2. [objs |-> {o \in Objects : o[1] \in visited /\ table[o[1]] = o[2]},
               intr |-> changed[c], end |-> IF done THEN "done" ELSE "more"] \in Datagrams
            BY <1>0 DEF Datagrams, TypeOK
        <3>3. QED
            BY <1>0, <2>4, <3>1, <3>2 DEF KernelPass, Answer, clientVars, TypeOK
    <2>5. QED
        BY <1>2, <2>1, <2>2, <2>3, <2>4 DEF Kernel
<1>3. ASSUME NEW c \in Clients, Client(c) PROVE TypeOK'
    <2>1. CASE DataDump(c) \/ MessageRequest(c)
        <3>1. PICK request \in Changes \cup {Dump} : Request(c, request)
            BY <2>1 DEF DataDump, MessageRequest
        <3>2. err' \in [Clients -> Errors] /\ data' \in [Clients -> SUBSET Objects]
            BY <1>0, <3>1 DEF Request, Errors, TypeOK
        <3>3. QED
            BY <1>0, <3>1, <3>2 DEF Request, Goto, kernelVars, TypeOK
    <2>2. CASE CreateFails(c) \/ Connect(c)
        BY <1>0, <2>2 DEF CreateFails, Connect, Goto, kernelVars, TypeOK
    <2>3. CASE Send(c)
        <3>1. err' \in [Clients -> Errors]
            <4>1. CASE UNCHANGED err
                BY <1>0, <4>1 DEF TypeOK
            <4>2. CASE SetError(c, "send failed")
                BY <1>0, <4>2 DEF SetError, Errors, TypeOK
            <4>3. QED
                BY <2>3, <4>1, <4>2 DEF Send
        <3>2. QED
            BY <1>0, <2>3, <3>1 DEF Send, Goto, kernelVars, TypeOK
    <2>4. CASE Receive(c)
        BY <1>0, <2>4 DEF Receive, Goto, TypeOK
    <2>5. CASE ReceiveFails(c)
        <3>1. err' \in [Clients -> Errors]
            BY <1>0, <2>5 DEF ReceiveFails, SetError, Errors, TypeOK
        <3>2. QED
            BY <1>0, <2>5, <3>1 DEF ReceiveFails, Goto, TypeOK
    <2>6. CASE DataParse(c)
        BY <1>0, <2>6, ParseTypes
    <2>7. CASE Disconnect(c)
        <3>1. buf[c] = Nothing
            BY <1>0, <2>7 DEF Disconnect, Goto, PhaseInv
        <3>2. QED
            BY <1>0, <2>7, <3>1 DEF Disconnect, BufferClean, Goto, TypeOK
    <2>8. QED
        BY <1>3, <2>1, <2>2, <2>3, <2>4, <2>5, <2>6, <2>7 DEF Client
<1>4. CASE UNCHANGED vars
    BY <1>0, <1>4 DEF vars, kernelVars, clientVars, TypeOK
<1>5. QED
    BY <1>1, <1>2, <1>3, <1>4 DEF Next

-----------------------------------------------------------------------------
(* The reason of a failed dump.                                            *)

(* Every step keeps what ErrorReported says of each client. *)
LEMMA ErrorStep == IInv /\ [Next]_vars => ErrorReported'
<1> SUFFICES ASSUME IInv, [Next]_vars PROVE ErrorReported'
    OBVIOUS
<1>0. TypeOK /\ ErrorReported /\ \A c \in Clients : PhaseInv(c)
    BY DEF IInv
<1>1. CASE ForeignChange \/ UNCHANGED vars
    BY <1>0, <1>1 DEF ForeignChange, vars, clientVars, ErrorReported
<1>2. ASSUME NEW c \in Clients, Kernel(c) PROVE ErrorReported'
    BY <1>0, <1>2 DEF Kernel, KernelChange, KernelRefuse, KernelStartDump, KernelPass,
                      clientVars, ErrorReported
<1>3. ASSUME NEW c \in Clients, Client(c) PROVE ErrorReported'
    <2> USE DEF ErrorReported, Goto, TypeOK
    <2>1. CASE DataDump(c) \/ MessageRequest(c)
        BY <1>0, <2>1 DEF DataDump, MessageRequest, Request
    <2>2. CASE CreateFails(c) \/ Connect(c)
        BY <1>0, <2>2 DEF CreateFails, Connect, PhaseInv
    <2>3. CASE Send(c)
        <3>1. CASE Goto(c, "send", "receive") /\ UNCHANGED <<op, err, reply, data>>
            BY <1>0, <3>1
        <3>2. CASE /\ Goto(c, "send", "close")
                   /\ SetError(c, "send failed")
                   /\ reply' = [reply EXCEPT ![c] = "failed"]
                   /\ UNCHANGED <<op, data>>
            BY <1>0, <3>2 DEF SetError
        <3>3. QED
            BY <2>3, <3>1, <3>2 DEF Send
    <2>4. CASE Receive(c)
        BY <1>0, <2>4 DEF Receive
    <2>5. CASE ReceiveFails(c)
        <3>1. op[c] = Dump => err'[c] # "none"
            BY <1>0, <2>5 DEF ReceiveFails, SetError
        <3>2. \A e \in Clients \ {c} : err'[e] = err[e]
            BY <1>0, <2>5 DEF ReceiveFails, SetError
        <3>3. QED
            <4>1. /\ Goto(c, "receive", "close")
                  /\ reply' = [reply EXCEPT ![c] = "failed"]
                  /\ UNCHANGED <<op, data>>
                BY <2>5 DEF ReceiveFails
            <4>2. QED
                BY <1>0, <3>1, <3>2, <4>1
    <2>6. CASE DataParse(c)
        BY <1>0, <2>6, ParseError
    <2>7. CASE Disconnect(c)
        BY <1>0, <2>7 DEF Disconnect
    <2>8. QED
        BY <1>3, <2>1, <2>2, <2>3, <2>4, <2>5, <2>6, <2>7 DEF Client
<1>4. QED
    BY <1>1, <1>2, <1>3 DEF Next

-----------------------------------------------------------------------------
(* The invariant.                                                          *)

(* Every step preserves it. *)
LEMMA IInvStep == IInv /\ [Next]_vars => IInv'
<1> SUFFICES ASSUME IInv, [Next]_vars PROVE IInv'
    OBVIOUS
<1>1. TypeOK' /\ ErrorReported'
    BY TypeStep, ErrorStep
<1>2. ASSUME NEW e \in Clients
      PROVE  PhaseInv(e)' /\ ChangeInv(e)' /\ SeenInv(e)' /\ DumpInv(e)'
    <2>1. TypeOK /\ PhaseInv(e) /\ ChangeInv(e) /\ SeenInv(e) /\ DumpInv(e)
        BY DEF IInv
    <2>2. CASE ForeignChange \/ UNCHANGED vars
        BY <2>1, <2>2, ElsewhereForeign, ElsewhereInv
    <2>3. ASSUME NEW c \in Clients, Kernel(c) \/ Client(c), c # e
          PROVE  PhaseInv(e)' /\ ChangeInv(e)' /\ SeenInv(e)' /\ DumpInv(e)'
        BY <2>1, <2>3, ElsewhereKernel, ElsewhereClient, ElsewhereInv
    <2>4. CASE Kernel(e)
        BY <2>1, <2>4, OwnPhaseKernel, OwnChangeKernel, OwnSeenKernel, OwnDumpKernel
    <2>5. CASE Client(e)
        BY <2>1, <2>5, OwnPhaseClient, OwnChangeClient, OwnSeenClient, OwnDumpClient
    <2>6. QED
        BY <2>2, <2>3, <2>4, <2>5 DEF Next
<1>3. QED
    BY <1>1, <1>2 DEF IInv

(* The invariant holds of every reachable state of the request engine. *)
THEOREM Invariance == Spec => []IInv
<1>1. QED
    BY InitIInv, IInvStep, PTL DEF Spec

(* The state of the engine has its types: in particular no buffer is freed *)
(* twice, which would take heap below 0.                                   *)
THEOREM TypeCorrect == Spec => []TypeOK
<1>1. IInv => TypeOK
    BY DEF IInv
<1>2. QED
    BY <1>1, Invariance, PTL

(* A dump that succeeds is a snapshot of the kernel's table. *)
THEOREM DumpIsSnapshot == Spec => []SnapshotDump
<1>1. IInv => SnapshotDump
    BY DEF IInv, DumpInv, SnapshotDump
<1>2. QED
    BY <1>1, Invariance, PTL

(* A change that succeeds has been made. *)
THEOREM ChangeIsAcknowledged == Spec => []AcknowledgedChange
<1>1. IInv => AcknowledgedChange
    BY DEF IInv, ChangeInv, AcknowledgedChange
<1>2. QED
    BY <1>1, Invariance, PTL

(* No call leaves a socket, a buffer or a request behind. *)
THEOREM CallsLeakNothing == Spec => []NothingLeaks
<1>1. IInv => NothingLeaks
    BY DEF IInv, PhaseInv, NothingLeaks
<1>2. QED
    BY <1>1, Invariance, PTL

(* A dump that fails on an open socket says why. *)
THEOREM FailureIsExplained == Spec => []ErrorReported
<1>1. IInv => ErrorReported
    BY DEF IInv
<1>2. QED
    BY <1>1, Invariance, PTL

-----------------------------------------------------------------------------
(* The refinement.                                                         *)

(* Everything the abstract specification sees of the engine. *)
visible == <<table, busy, op, applied, visibleReply, visibleData, moments>>

(* Initial states are initial states of the abstract specification. *)
LEMMA InitImplements == Init => Atomic!Init
<1> SUFFICES ASSUME Init PROVE Atomic!Init
    OBVIOUS
<1>1. Atomic!Tables = Tables
    BY DEF Tables, Cells, Atomic!Tables, Atomic!Cells
<1>2. busy = [c \in Clients |-> FALSE]
    BY DEF Init, busy
<1>3. /\ visibleReply = [c \in Clients |-> "none"]
      /\ visibleData = [c \in Clients |-> {}]
    BY <1>2 DEF Init, visibleReply, visibleData
<1>4. QED
    BY <1>1, <1>2, <1>3 DEF Init, Atomic!Init

(* A change of the table is a change there too. *)
LEMMA SetEntryImplements ==
    ASSUME TypeOK, NEW i \in Ids, NEW v \in Cells, SetEntry(i, v)
    PROVE  Atomic!SetEntry(i, v)
BY DEF SetEntry, Atomic!SetEntry, busy

(* A step inside a call that leaves the table alone is invisible. *)
LEMMA Invisible ==
    ASSUME UNCHANGED <<table, op, applied, moments>>,
           \A e \in Clients : /\ pc'[e] = "idle" <=> pc[e] = "idle"
                              /\ pc[e] = "idle" => reply'[e] = reply[e] /\ data'[e] = data[e]
    PROVE  UNCHANGED Atomic!vars
<1>1. busy' = busy
  BY DEF busy
<1>2. visibleReply' = visibleReply /\ visibleData' = visibleData
  BY <1>1 DEF visibleReply, visibleData, busy
<1>3. QED BY <1>1, <1>2 DEF Atomic!vars

(* The step that ends a call makes its outcome visible. *)
LEMMA LeaveImplements ==
    ASSUME TypeOK, NEW c \in Clients, pc[c] # "idle", pc' = [pc EXCEPT ![c] = "idle"],
           NEW r, reply'[c] = r, NEW objects, data'[c] = objects,
           \A e \in Clients \ {c} : reply'[e] = reply[e] /\ data'[e] = data[e],
           UNCHANGED <<table, op, applied, moments>>
    PROVE  Atomic!Leave(c, r, objects)
<1>1. busy[c] /\ busy' = [busy EXCEPT ![c] = FALSE]
  BY DEF busy, TypeOK
<1>2. visibleReply' = [visibleReply EXCEPT ![c] = r]
  BY DEF visibleReply, busy, TypeOK
<1>3. visibleData' = [visibleData EXCEPT ![c] = objects]
  BY DEF visibleData, busy, TypeOK
<1>4. QED BY <1>1, <1>2, <1>3 DEF Atomic!Leave

(* The step that begins a call begins it there too. *)
LEMMA CallImplements ==
    ASSUME TypeOK, NEW c \in Clients, NEW request \in Changes \cup {Dump}, Request(c, request)
    PROVE  Atomic!Call(c, request)
<1>1. ~busy[c] /\ busy' = [busy EXCEPT ![c] = TRUE]
  BY DEF Request, Goto, busy, TypeOK
<1>2. visibleReply' = [visibleReply EXCEPT ![c] = "none"]
  BY DEF Request, Goto, visibleReply, busy, TypeOK
<1>3. visibleData' = [visibleData EXCEPT ![c] = {}]
  BY DEF Request, Goto, visibleData, busy, TypeOK
<1>4. QED BY <1>1, <1>2, <1>3 DEF Atomic!Call, Request

(* What a failed dump leaves behind was in the table during the call. *)
LEMMA FailImplements ==
    ASSUME TypeOK, NEW c \in Clients, SeenInv(c), Atomic!Leave(c, "failed", data[c])
    PROVE  Atomic!Fail(c)
<1>1. data[c] \subseteq UNION {Atomic!View(t) : t \in moments[c]}
  <2>1. ASSUME NEW o \in data[c] PROVE o \in UNION {Atomic!View(t) : t \in moments[c]}
    <3>1. PICK t \in moments[c] : t[o[1]] = o[2]
      BY DEF SeenInv
    <3>2. o \in Objects /\ o[2] \in Reported
      BY DEF SeenInv, TypeOK
    <3>3. o \in Atomic!View(t)
      BY <3>1, <3>2 DEF Atomic!View, Atomic!Objects, Objects
    <3>4. QED BY <3>3
  <2>2. QED BY <2>1
<1>2. QED BY <1>1 DEF Atomic!Fail

(* Every step is a step of the abstract specification or invisible. *)
LEMMA StepImplements == IInv /\ IInv' /\ [Next]_vars => [Atomic!Next]_(Atomic!vars)
<1> SUFFICES ASSUME IInv, IInv', [Next]_vars PROVE Atomic!Next \/ UNCHANGED Atomic!vars
    OBVIOUS
<1>0. TypeOK /\ \A c \in Clients : PhaseInv(c) /\ SeenInv(c) /\ DumpInv(c) /\ ChangeInv(c)
    BY DEF IInv
<1>1. CASE ForeignChange
    <2>1. PICK i \in Ids, v \in Cells : SetEntry(i, v)
        BY <1>1 DEF ForeignChange
    <2>2. Atomic!SetEntry(i, v)
        BY <1>0, <2>1, SetEntryImplements
    <2>3. UNCHANGED <<busy, op, applied, visibleReply, visibleData>>
        BY <1>1 DEF ForeignChange, clientVars, busy, visibleReply, visibleData
    <2>4. QED
        BY <2>2, <2>3 DEF Atomic!Next, Atomic!ForeignChange, Atomic!Cells, Cells
<1>2. CASE UNCHANGED vars
    <2>1. UNCHANGED <<table, op, applied, moments, pc, reply, data>>
        BY <1>2 DEF vars, clientVars
    <2>2. QED
        BY <2>1, Invisible
<1>3. ASSUME NEW c \in Clients, Kernel(c) PROVE Atomic!Next \/ UNCHANGED Atomic!vars
    <2>1. CASE KernelChange(c)
        <3>1. op[c].id \in Ids /\ op[c].val \in Cells /\ op[c] # Dump
            BY <1>0, <2>1 DEF KernelChange, Changes, TypeOK
        <3>2. busy[c] /\ ~applied[c]
            <4>1. pc[c] \in {"receive", "close"} /\ ~applied[c]
                BY <1>0, <2>1 DEF KernelChange, PhaseInv
            <4>2. QED
                BY <4>1 DEF busy
        <3>3. Atomic!SetEntry(op[c].id, op[c].val)
            BY <1>0, <2>1, <3>1, SetEntryImplements DEF KernelChange
        <3>4. UNCHANGED <<busy, op, visibleReply, visibleData>>
            BY <2>1 DEF KernelChange, clientVars, busy, visibleReply, visibleData
        <3>5. applied' = [applied EXCEPT ![c] = TRUE]
            BY <2>1 DEF KernelChange
        <3>6. Atomic!Apply(c)
            BY <3>1, <3>2, <3>3, <3>4, <3>5 DEF Atomic!Apply
        <3>7. QED
            BY <3>6 DEF Atomic!Next
    <2>2. CASE KernelRefuse(c) \/ KernelStartDump(c) \/ KernelPass(c)
        <3>1. UNCHANGED <<table, op, applied, moments, pc, reply, data>>
            BY <2>2 DEF KernelRefuse, KernelStartDump, KernelPass, clientVars
        <3>2. QED
            BY <3>1, Invisible
    <2>3. QED
        BY <1>3, <2>1, <2>2 DEF Kernel
<1>4. ASSUME NEW c \in Clients, Client(c) PROVE Atomic!Next \/ UNCHANGED Atomic!vars
    <2>1. CASE DataDump(c) \/ MessageRequest(c)
        <3>1. PICK request \in Changes \cup {Dump} : Request(c, request)
            BY <2>1 DEF DataDump, MessageRequest
        <3>2. Atomic!Call(c, request)
            BY <1>0, <3>1, CallImplements
        <3>3. QED
            BY <3>2 DEF Atomic!Next, Atomic!Changes, Changes, Atomic!Cells, Cells
    <2>2. ASSUME Goto(c, "connect", "idle"), reply' = [reply EXCEPT ![c] = "failed"],
                 UNCHANGED <<table, op, applied, moments, data>>
          PROVE  Atomic!Next
        <3>1. Atomic!Leave(c, "failed", data[c])
            BY <1>0, <2>2, LeaveImplements DEF Goto, TypeOK
        <3>2. QED
            BY <1>0, <3>1, FailImplements DEF Atomic!Next
    <2>3. CASE CreateFails(c) \/ Connect(c)
        <3>1. CASE /\ Goto(c, "connect", "idle")
                   /\ reply' = [reply EXCEPT ![c] = "failed"]
                   /\ UNCHANGED <<table, op, applied, moments, data>>
            BY <2>2, <3>1
        <3>2. CASE /\ Goto(c, "connect", "send")
                   /\ UNCHANGED <<table, op, applied, moments, reply, data>>
            BY <1>0, <3>2, Invisible DEF Goto, TypeOK
        <3>3. QED
            BY <2>3, <3>1, <3>2 DEF CreateFails, Connect
    <2>4. CASE Send(c) \/ Receive(c) \/ ReceiveFails(c)
        <3>1. /\ UNCHANGED <<table, op, applied, moments, data>>
              /\ pc[c] # "idle" /\ pc'[c] # "idle"
              /\ \A e \in Clients \ {c} : pc'[e] = pc[e] /\ reply'[e] = reply[e]
            <4>1. CASE Send(c)
                BY <1>0, <4>1 DEF Send, Goto, TypeOK, kernelVars
            <4>2. CASE Receive(c)
                BY <1>0, <4>2 DEF Receive, Goto, TypeOK, kernelVars
            <4>3. CASE ReceiveFails(c)
                BY <1>0, <4>3 DEF ReceiveFails, Goto, TypeOK, kernelVars
            <4>4. QED
                BY <2>4, <4>1, <4>2, <4>3
        <3>2. QED
            BY <3>1, Invisible
    <2>5. CASE DataParse(c)
        <3>1. ParseEffect(c)
            BY <1>0, <2>5, ParseHasEffect
        <3>2. UNCHANGED <<table, op, applied, moments>> /\ pc[c] # "idle"
            BY <3>1 DEF ParseEffect
        <3>3. pc'[c] # "idle" /\ \A e \in Clients \ {c} : pc'[e] = pc[e]
            BY <1>0, <3>1 DEF ParseEffect, TypeOK
        <3>4. \A e \in Clients \ {c} : reply'[e] = reply[e] /\ data'[e] = data[e]
            BY <1>0, <3>1 DEF ParseEffect, TypeOK
        <3>5. QED
            BY <3>2, <3>3, <3>4, Invisible
    <2>6. CASE Disconnect(c)
        <3>1. Atomic!Leave(c, reply[c], data[c])
            BY <1>0, <2>6, LeaveImplements DEF Disconnect, Goto
        <3>2. reply[c] \in {"ok", "failed"}
            BY <1>0, <2>6 DEF Disconnect, Goto, PhaseInv, TypeOK
        <3>3. CASE reply[c] = "failed"
            BY <1>0, <3>1, <3>3, FailImplements DEF Atomic!Next
        <3>4. CASE reply[c] = "ok" /\ op[c] = Dump
            <4>1. PICK t \in moments[c] : Readable(t) /\ data[c] = View(t)
                BY <1>0, <3>4 DEF DumpInv
            <4>2. Atomic!Readable(t) /\ Atomic!View(t) = View(t)
                BY <4>1 DEF Readable, View, Objects, Atomic!Readable, Atomic!View, Atomic!Objects
            <4>3. Atomic!Succeed(c)
                BY <3>1, <3>4, <4>1, <4>2 DEF Atomic!Succeed
            <4>4. QED
                BY <4>3 DEF Atomic!Next
        <3>5. CASE reply[c] = "ok" /\ op[c] # Dump
            <4>1. applied[c] /\ data[c] = {}
                BY <1>0, <3>5 DEF ChangeInv
            <4>2. QED
                BY <3>1, <3>5, <4>1 DEF Atomic!Succeed, Atomic!Next
        <3>6. QED
            BY <3>2, <3>3, <3>4, <3>5
    <2>7. QED
        BY <1>4, <2>1, <2>3, <2>4, <2>5, <2>6 DEF Client
<1>5. QED
    BY <1>1, <1>2, <1>3, <1>4 DEF Next

(* The request engine implements its abstract promise: calls take effect  *)
(* atomically, and dumps that succeed return one table of the call.       *)
THEOREM Implementation == Spec => ImplementsAtomic
<1>1. QED
    BY InitImplements, StepImplements, Invariance, PTL DEF Spec, ImplementsAtomic, Atomic!Spec

-----------------------------------------------------------------------------
(* Progress: what EveryCallReturns rests on, short of fairness.            *)

(* The steps that a call has at most in front of it: three for each        *)
(* identifier that is not visited yet, and those of its place, of the      *)
(* request, of the dump and of the datagram that are under way.            *)
Unvisited(c) == IF pc[c] \in {"connect", "send"} \/ query[c] THEN Ids ELSE todo[c]

Place(c) ==
    CASE pc[c] = "connect" -> 8
      [] pc[c] = "send"    -> 7
      [] pc[c] = "parse"   -> 3
      [] pc[c] = "receive" -> 2
      [] pc[c] = "close"   -> 1
      [] OTHER             -> 0

UnderWay(c) ==
    (IF query[c] THEN 4 ELSE 0) + (IF dumping[c] THEN 3 ELSE 0)
        + (IF inbox[c] # Nothing THEN 2 ELSE 0)

Rest(c) == Place(c) + UnderWay(c)

Ahead(c) == 3 * Cardinality(Unvisited(c)) + Rest(c)

(* Every step of a call, the kernel's for it included, brings it nearer to *)
(* its end, and no other client and no change of the table puts it off.    *)
Advance(c) ==
    pc[c] # "idle" =>
        /\ pc'[c] = "idle" \/ Ahead(c)' <= Ahead(c)
        /\ Kernel(c) \/ Client(c) => pc'[c] = "idle" \/ Ahead(c)' < Ahead(c)

CallsAdvance == [][\A c \in Clients : Advance(c)]_vars

CallsAreShort == \A c \in Clients : Ahead(c) <= 3 * Cardinality(Ids) + 8

(* A client that waits for a datagram has one in its socket, or the kernel *)
(* is still to serve its request or to go on with its dump.                *)
AnswerComes ==
    \A c \in Clients :
        pc[c] = "receive" => query[c] \/ dumping[c] \/ inbox[c] # Nothing

WaitInv(c) ==
    /\ pc[c] = "receive" => query[c] \/ dumping[c] \/ inbox[c] # Nothing
    /\ Ends(inbox[c], "more") => dumping[c]
    /\ Ends(buf[c], "more") => dumping[c] \/ inbox[c] # Nothing

WInv == IInv /\ \A c \in Clients : WaitInv(c)

LEMMA WaitKernel ==
    ASSUME TypeOK, NEW c \in Clients, Kernel(c), PhaseInv(c), WaitInv(c)
    PROVE  WaitInv(c)'
<1>1. CASE KernelChange(c) \/ KernelRefuse(c)
  <2>1. PICK end \in {"ack", "nack"} :
          inbox'[c] = [objs |-> {}, intr |-> FALSE, end |-> end]
    BY <1>1 DEF KernelChange, KernelRefuse, Answer, TypeOK
  <2>2. inbox'[c] \in Datagrams
    BY <2>1 DEF Datagrams
  <2>3. inbox'[c] # Nothing
    BY <2>2, NothingAssumption
  <2>4. inbox'[c].end # "more"
    BY <2>1
  <2>5. QED
    BY <2>3, <2>4 DEF WaitInv, Ends
<1>3. CASE KernelStartDump(c)
  BY <1>3 DEF KernelStartDump, clientVars, TypeOK, WaitInv, Ends
<1>4. CASE KernelPass(c)
  <2>1. PICK done \in BOOLEAN, visited \in SUBSET todo[c] :
          LET objects == {o \in Objects : o[1] \in visited /\ table[o[1]] = o[2]}
          IN  /\ Answer(c, objects, changed[c], IF done THEN "done" ELSE "more")
              /\ dumping' = [dumping EXCEPT ![c] = ~done]
    BY <1>4 DEF KernelPass
  <2> DEFINE objects == {o \in Objects : o[1] \in visited /\ table[o[1]] = o[2]}
  <2>2. inbox'[c] = [objs |-> objects, intr |-> changed[c],
                     end |-> IF done THEN "done" ELSE "more"]
    BY <2>1 DEF Answer, TypeOK
  <2>3. inbox'[c] \in Datagrams
    BY <2>2 DEF Datagrams, TypeOK
  <2>4. inbox'[c] # Nothing
    BY <2>3, NothingAssumption
  <2>5. inbox'[c].end = IF done THEN "done" ELSE "more"
    BY <2>2
  <2>6. dumping'[c] = ~done
    BY <2>1 DEF TypeOK
  <2>7. inbox'[c].end = "more" => dumping'[c]
    BY <2>5, <2>6
  <2>8. QED BY <2>4, <2>7 DEF WaitInv, Ends
<1>5. QED BY <1>1, <1>3, <1>4 DEF Kernel

LEMMA WaitClient ==
    ASSUME TypeOK, NEW c \in Clients, Client(c), PhaseInv(c), WaitInv(c)
    PROVE  WaitInv(c)'
<1> USE DEF TypeOK, WaitInv, Ends, Goto
<1>1. CASE DataDump(c) \/ MessageRequest(c)
  <2>1. pc'[c] = "connect" /\ UNCHANGED <<kernelVars, buf>>
    BY <1>1 DEF DataDump, MessageRequest, Request
  <2>2. QED BY <2>1 DEF kernelVars
<1>2. CASE CreateFails(c) \/ Connect(c)
  <2>1. pc'[c] \in {"idle", "send"} /\ UNCHANGED <<kernelVars, buf>>
    BY <1>2 DEF CreateFails, Connect
  <2>2. QED BY <2>1 DEF kernelVars
<1>3. CASE Send(c)
  <2>1. /\ UNCHANGED <<dumping, inbox, buf>>
        /\ pc'[c] = "close" \/ query'[c]
    BY <1>3 DEF Send, kernelVars
  <2>2. QED BY <2>1
<1>4. CASE Receive(c)
  BY <1>4 DEF Receive
<1>5. CASE ReceiveFails(c)
  <2>1. pc'[c] = "close" /\ UNCHANGED <<query, dumping, buf>> /\ inbox'[c] \in {inbox[c], Nothing}
    BY <1>5 DEF ReceiveFails
  <2>2. buf[c] = Nothing
    BY <1>5 DEF ReceiveFails, PhaseInv
  <2>3. QED BY <2>1, <2>2
<1>6. CASE DataParse(c)
  <2>1. ParseEffect(c)
    BY <1>6, ParseHasEffect
  <2>2. buf'[c] = Nothing /\ UNCHANGED kernelVars /\ buf[c] # Nothing
    BY <2>1, NothingAssumption DEF ParseEffect
  <2>3. pc'[c] = "close" \/ (pc'[c] = "receive" /\ buf[c].end = "more")
    BY <2>1 DEF ParseEffect
  <2>4. QED BY <2>2, <2>3 DEF kernelVars
<1>7. CASE Disconnect(c)
  BY <1>7 DEF Disconnect, BufferClean
<1>8. QED BY <1>1, <1>2, <1>3, <1>4, <1>5, <1>6, <1>7 DEF Client

LEMMA WaitElsewhere ==
    ASSUME NEW e \in Clients, Elsewhere(e), WaitInv(e)
    PROVE  WaitInv(e)'
BY DEF Elsewhere, WaitInv, Ends

LEMMA WInvStep == WInv /\ [Next]_vars => WInv'
<1> SUFFICES ASSUME WInv, [Next]_vars PROVE WInv'
    OBVIOUS
<1>1. IInv'
    BY IInvStep DEF WInv
<1>2. ASSUME NEW e \in Clients PROVE WaitInv(e)'
    <2>1. TypeOK /\ PhaseInv(e) /\ WaitInv(e)
        BY DEF WInv, IInv
    <2>2. CASE ForeignChange \/ UNCHANGED vars
        BY <2>1, <2>2, ElsewhereForeign, WaitElsewhere
    <2>3. ASSUME NEW c \in Clients, Kernel(c) \/ Client(c), c # e PROVE WaitInv(e)'
        BY <2>1, <2>3, ElsewhereKernel, ElsewhereClient, WaitElsewhere
    <2>4. CASE Kernel(e) \/ Client(e)
        BY <2>1, <2>4, WaitKernel, WaitClient
    <2>5. QED
        BY <2>2, <2>3, <2>4 DEF Next
<1>3. QED
    BY <1>1, <1>2 DEF WInv

(* The loop of mnlxt_request() never waits for a datagram that will not    *)
(* come, although its socket has no timeout (mnlxt_data.c:55-70).          *)
THEOREM AnAnswerComes == Spec => []AnswerComes
<1>1. Init => WInv
    BY InitIInv DEF Init, WInv, WaitInv, Ends
<1>2. WInv => AnswerComes
    BY DEF WInv, WaitInv, AnswerComes
<1>3. QED
    BY <1>1, <1>2, WInvStep, PTL DEF Spec

(* The size of what a dump has still to visit. *)
LEMMA Sizes ==
    ASSUME IsFiniteSet(Ids)
    PROVE  \A S \in SUBSET Ids :
              /\ Cardinality(S) \in Nat /\ Cardinality(S) <= Cardinality(Ids)
              /\ \A T \in SUBSET S : T # S => Cardinality(T) < Cardinality(S)
<1> TAKE S \in SUBSET Ids
<1>1. IsFiniteSet(S) /\ Cardinality(S) \in Nat /\ Cardinality(Ids) \in Nat
    BY FS_Subset, FS_CardinalityType
<1>2. Cardinality(S) <= Cardinality(Ids)
    BY FS_Subset
<1>3. \A T \in SUBSET S : T # S => Cardinality(T) < Cardinality(S)
    BY <1>1, FS_Subset, FS_CardinalityType
<1> QED
    BY <1>1, <1>2, <1>3

LEMMA AheadFalls ==
    ASSUME IsFiniteSet(Ids), TypeOK, TypeOK', NEW c \in Clients,
           Unvisited(c)' \subseteq Unvisited(c),
           \/ Rest(c)' < Rest(c)
           \/ Unvisited(c)' # Unvisited(c) /\ Rest(c)' < Rest(c) + 3
    PROVE  Ahead(c)' < Ahead(c)
<1> DEFINE n == Cardinality(Unvisited(c))
           m == Cardinality(Unvisited(c)')
<1>1. Unvisited(c) \in SUBSET Ids
  BY DEF Unvisited, TypeOK
<1>2. n \in Nat /\ m \in Nat
  BY <1>1, Sizes
<1>3. m <= n /\ (Unvisited(c)' # Unvisited(c) => m < n)
  BY <1>1, <1>2, Sizes
<1>4. Rest(c) \in Nat /\ Rest(c)' \in Nat
  BY DEF Rest, Place, UnderWay
<1>5. Ahead(c) = 3 * n + Rest(c) /\ Ahead(c)' = 3 * m + Rest(c)'
  BY DEF Ahead
<1> HIDE DEF n, m
<1>6. QED BY <1>2, <1>3, <1>4, <1>5

LEMMA AheadKernel ==
    ASSUME IsFiniteSet(Ids), TypeOK, TypeOK', NEW c \in Clients, Kernel(c), PhaseInv(c)
    PROVE  Ahead(c)' < Ahead(c)
<1>1. CASE KernelChange(c) \/ KernelRefuse(c)
  <2>1. query[c] /\ ~query'[c] /\ UNCHANGED <<pc, todo, dumping>>
    BY <1>1 DEF KernelChange, KernelRefuse, clientVars, TypeOK
  <2>2. inbox[c] = Nothing
    BY <2>1 DEF PhaseInv
  <2>3. Unvisited(c)' \subseteq Unvisited(c)
    BY <2>1 DEF Unvisited, TypeOK
  <2>4. Rest(c)' < Rest(c)
    BY <2>1, <2>2 DEF Rest, Place, UnderWay
  <2>5. QED BY <2>3, <2>4, AheadFalls
<1>2. CASE KernelStartDump(c)
  <2>1. query[c] /\ ~query'[c] /\ UNCHANGED <<pc, inbox>>
    BY <1>2 DEF KernelStartDump, clientVars, TypeOK
  <2>2. ~dumping[c]
    BY <2>1 DEF PhaseInv
  <2>3. Unvisited(c)' \subseteq Unvisited(c)
    BY <2>1 DEF Unvisited, TypeOK
  <2>4. Rest(c)' < Rest(c)
    BY <2>1, <2>2 DEF Rest, Place, UnderWay
  <2>5. QED BY <2>3, <2>4, AheadFalls
<1>3. CASE KernelPass(c)
  <2>1. /\ dumping[c] /\ ~query[c] /\ ~query'[c] /\ inbox[c] = Nothing
        /\ pc[c] \notin {"connect", "send"} /\ UNCHANGED pc
    BY <1>3 DEF KernelPass, PhaseInv, clientVars
  <2>2. PICK visited \in SUBSET todo[c], done \in BOOLEAN :
           /\ \/ done
              \/ {o \in Objects : o[1] \in visited /\ table[o[1]] = o[2]} # {}
           /\ todo' = [todo EXCEPT ![c] = @ \ visited]
           /\ dumping' = [dumping EXCEPT ![c] = ~done]
    BY <1>3 DEF KernelPass
  <2>3. Unvisited(c) = todo[c] /\ Unvisited(c)' = todo[c] \ visited
    BY <2>1, <2>2 DEF Unvisited, TypeOK
  <2>4. dumping'[c] = ~done
    BY <2>2 DEF TypeOK
  <2>5. CASE done
    <3>1. ~dumping'[c]
      BY <2>4, <2>5
    <3>2. Rest(c)' < Rest(c)
      BY <2>1, <3>1 DEF Rest, Place, UnderWay
    <3>3. QED BY <2>3, <3>2, AheadFalls
  <2>6. CASE ~done
    <3>1. visited # {}
      BY <2>2, <2>6
    <3>2. Unvisited(c)' # Unvisited(c)
      BY <2>3, <3>1
    <3>3. Rest(c)' < Rest(c) + 3
      BY <2>1 DEF Rest, Place, UnderWay
    <3>4. QED BY <2>3, <3>2, <3>3, AheadFalls
  <2>7. QED BY <2>5, <2>6
<1>4. QED BY <1>1, <1>2, <1>3 DEF Kernel

LEMMA AheadClient ==
    ASSUME IsFiniteSet(Ids), TypeOK, TypeOK', NEW c \in Clients, Client(c), PhaseInv(c),
           pc[c] # "idle"
    PROVE  pc'[c] = "idle" \/ Ahead(c)' < Ahead(c)
<1>1. \/ pc'[c] = "idle"
      \/ /\ pc[c] = "connect" /\ pc'[c] = "send"
         /\ UNCHANGED kernelVars
      \/ /\ pc[c] = "send" /\ pc'[c] = "receive"
         /\ UNCHANGED <<dumping, inbox>>
      \/ /\ pc[c] = "send" /\ pc'[c] = "close"
         /\ UNCHANGED kernelVars
      \/ /\ pc[c] = "receive" /\ pc'[c] = "parse" /\ inbox[c] # Nothing /\ inbox'[c] = Nothing
         /\ UNCHANGED <<query, dumping, todo>>
      \/ /\ pc[c] = "receive" /\ pc'[c] = "close" /\ inbox'[c] \in {inbox[c], Nothing}
         /\ UNCHANGED <<query, dumping, todo>>
      \/ /\ pc[c] = "parse" /\ pc'[c] \in {"receive", "close"}
         /\ UNCHANGED kernelVars
  <2> USE DEF Goto, TypeOK
  <2>1. ~DataDump(c) /\ ~MessageRequest(c)
    BY DEF DataDump, MessageRequest, Request
  <2>2. CASE CreateFails(c) \/ Connect(c)
    BY <2>2 DEF CreateFails, Connect
  <2>3. CASE Send(c)
    BY <2>3 DEF Send
  <2>4. CASE Receive(c)
    BY <2>4 DEF Receive
  <2>5. CASE ReceiveFails(c)
    <3>1. pc[c] = "receive" /\ pc' = [pc EXCEPT ![c] = "close"]
      BY <2>5 DEF ReceiveFails
    <3>2. UNCHANGED <<query, dumping, todo>>
      BY <2>5 DEF ReceiveFails
    <3>3. inbox'[c] \in {inbox[c], Nothing}
      BY <2>5 DEF ReceiveFails
    <3>4. QED BY <3>1, <3>2, <3>3
  <2>6. CASE DataParse(c)
    <3>1. ParseEffect(c)
      BY <2>6, ParseHasEffect
    <3>2. pc[c] = "parse" /\ pc'[c] \in {"receive", "close"} /\ UNCHANGED kernelVars
      BY <3>1 DEF ParseEffect
    <3>3. QED BY <3>2
  <2>7. CASE Disconnect(c)
    BY <2>7 DEF Disconnect
  <2>8. QED BY <2>1, <2>2, <2>3, <2>4, <2>5, <2>6, <2>7 DEF Client
<1>2. SUFFICES ASSUME pc'[c] # "idle" PROVE Ahead(c)' < Ahead(c)
  OBVIOUS
<1>3. Unvisited(c)' \subseteq Unvisited(c)
  BY <1>1, <1>2 DEF Unvisited, TypeOK, kernelVars
<1>4. pc[c] = "send" => ~query[c]
  BY DEF PhaseInv
<1>5. Rest(c)' < Rest(c)
  BY <1>1, <1>2, <1>4 DEF Rest, Place, UnderWay, kernelVars
<1>6. QED BY <1>3, <1>5, AheadFalls

(* A call takes no more than 3 * Cardinality(Ids) + 8 steps, whatever the  *)
(* other clients and the table do meanwhile: a dump is not prolonged by    *)
(* changes, and no datagram is parsed twice (mnlxt_data.c:55-70).          *)
THEOREM CallsDoAdvance ==
    ASSUME IsFiniteSet(Ids)
    PROVE  Spec => []CallsAreShort /\ CallsAdvance
<1>1. ASSUME IInv, IInv', [Next]_vars, NEW c \in Clients, pc[c] # "idle"
      PROVE  Advance(c)
  <2>1. TypeOK /\ TypeOK' /\ PhaseInv(c)
    BY <1>1 DEF IInv
  <2>2. Kernel(c) \/ Client(c) => pc'[c] = "idle" \/ Ahead(c)' < Ahead(c)
    BY <1>1, <2>1, AheadKernel, AheadClient
  <2>3. Ahead(c) \in Nat /\ Ahead(c)' \in Nat
    <3>1. Unvisited(c) \in SUBSET Ids /\ Unvisited(c)' \in SUBSET Ids
      BY <2>1 DEF Unvisited, TypeOK
    <3>2. Cardinality(Unvisited(c)) \in Nat /\ Cardinality(Unvisited(c)') \in Nat
      BY <3>1, Sizes
    <3>3. Rest(c) \in Nat /\ Rest(c)' \in Nat
      BY DEF Rest, Place, UnderWay
    <3>4. QED BY <3>2, <3>3 DEF Ahead
  <2>4. Elsewhere(c) => Ahead(c)' = Ahead(c)
    BY DEF Elsewhere, Ahead, Unvisited, Rest, Place, UnderWay
  <2>5. Elsewhere(c) \/ Kernel(c) \/ Client(c)
    BY <1>1, <2>1, ElsewhereKernel, ElsewhereClient, ElsewhereForeign DEF Next
  <2>6. QED BY <2>2, <2>3, <2>4, <2>5 DEF Advance
<1>2. IInv /\ IInv' /\ [Next]_vars => [\A c \in Clients : Advance(c)]_vars
  BY <1>1 DEF Advance
<1>3. IInv => CallsAreShort
  <2> SUFFICES ASSUME IInv, NEW c \in Clients
               PROVE  Ahead(c) <= 3 * Cardinality(Ids) + 8
    BY DEF CallsAreShort
  <2>1. TypeOK /\ PhaseInv(c)
    BY DEF IInv
  <2>2. Rest(c) \in Nat /\ Rest(c) <= 8
    BY <2>1 DEF PhaseInv, Rest, Place, UnderWay
  <2>3. /\ Cardinality(Unvisited(c)) \in Nat /\ Cardinality(Ids) \in Nat
        /\ Cardinality(Unvisited(c)) <= Cardinality(Ids)
    <3>1. Unvisited(c) \in SUBSET Ids /\ Ids \in SUBSET Ids
      BY <2>1 DEF Unvisited, TypeOK
    <3>2. QED BY <3>1, Sizes
  <2>4. QED BY <2>2, <2>3 DEF Ahead
<1>4. QED
  BY <1>2, <1>3, Invariance, PTL DEF Spec, CallsAdvance
=============================================================================
