---------------------------- MODULE LinkRequest ----------------------------
(***************************************************************************)
(* Link requests of libmnlxt (mnlxt_rt_link_request()) and the TUN/TAP     *)
(* devices they create and delete (rtnl/link_tun_tools.c).  rtnetlink      *)
(* cannot create TUN devices, so such a request goes through a descriptor  *)
(* of /dev/net/tun and five system calls, each of which may fail while     *)
(* other processes create and delete links of the same names.              *)
(*                                                                         *)
(* The kernel is external: its links, which descriptor controls which, and *)
(* requests by rtnetlink, which NetlinkRequest models and which are one    *)
(* step here.  Owner and group, set by the same code, are one attribute,   *)
(* and of the TUN flags only the one the kernel compares is kept.  Links   *)
(* are not renamed.                                                        *)
(***************************************************************************)
EXTENDS Naturals

CONSTANTS Procs,     \* callers, each with one link object
          Names,     \* interface names
          TunTypes,  \* IFF_TUN, IFF_TAP
          MaxIndex,  \* bounds the links that are ever created
          NULL

VARIABLES dev,     \* kernel: the link of each name, or NULL
          issued,  \* kernel: the last interface index given to a link
          fd,      \* the descriptor a caller has open: the index of the device it
                   \* controls, Unattached, or NULL
          index,   \* rt_link->index of the caller's object, 0 when not set
          pc,      \* where the caller is in its call; "held": it has the descriptor
                   \* mnlxt_tun_create() returned
          call,    \* the object's other properties and the arguments of the call, or NULL
          result   \* what the last call returned

vars == <<dev, issued, fd, index, pc, call, result>>

Unattached == 0
Indices == 1..MaxIndex

Requests == {"NEWLINK", "SETLINK", "DELLINK"}

Devices == [index : Indices, type : TunTypes \cup {"other"},
            multi : BOOLEAN, persist : BOOLEAN]

(* multi: MNLXT_RT_LINK_TUN_FLAG_MULTI_QUEUE; owner, persist: whether      *)
(* these are asked for.  History: made is the device TUNSETIFF has created *)
(* for the call.                                                           *)
Calls == [op : Requests \cup {"tun_create"}, kind : {"tun", "other"}, name : Names \cup {NULL},
          type : TunTypes \cup {NULL}, multi : BOOLEAN, owner : BOOLEAN, persist : BOOLEAN,
          made : Indices \cup {0}]

Results == {"none", "ok", "failed"}

ASSUME LinkAssumption ==
    /\ MaxIndex \in Nat
    /\ NULL \notin Names \cup TunTypes \cup Nat \cup BOOLEAN \cup Devices \cup Calls
    /\ "other" \notin TunTypes

TypeOK ==
    /\ dev \in [Names -> Devices \cup {NULL}]
    /\ issued \in 0..MaxIndex
    /\ fd \in [Procs -> Indices \cup {Unattached, NULL}]
    /\ index \in [Procs -> Indices \cup {0}]
    /\ pc \in [Procs -> {"idle", "open", "setiff", "owner", "persist", "held",
                         "close", "index", "request"}]
    /\ call \in [Procs -> Calls \cup {NULL}]
    /\ result \in [Procs -> Results]

Init ==
    /\ dev = [n \in Names |-> NULL]
    /\ issued = 0
    /\ fd = [p \in Procs |-> NULL]
    /\ index = [p \in Procs |-> 0]
    /\ pc = [p \in Procs |-> "idle"]
    /\ call = [p \in Procs |-> NULL]
    /\ result = [p \in Procs |-> "none"]

-----------------------------------------------------------------------------
(* The kernel.                                                             *)

HasIndex(n, i) == dev[n] # NULL /\ dev[n].index = i

Exists(i) == \E n \in Names : HasIndex(n, i)

(* The descriptor of p controls a device; one whose device was deleted, or *)
(* that was never attached, controls none, and its ioctl() calls fail.     *)
Controls(p) == fd[p] # NULL /\ Exists(fd[p])

InUse(i) == \E q \in Procs : fd[q] = i

(* Interface indices are not used again. *)
NewDevice(n, type, multi, persist) ==
    /\ dev[n] = NULL
    /\ issued < MaxIndex
    /\ issued' = issued + 1
    /\ dev' = [dev EXCEPT ![n] = [index |-> issued + 1, type |-> type,
                                  multi |-> multi, persist |-> persist]]

(* TUNSETIFF: a new device, or the one of that name.                       *)
Attach(p, n, type, multi) ==
    \/ /\ NewDevice(n, type, multi, FALSE)
       /\ fd' = [fd EXCEPT ![p] = issued']
       /\ call' = [call EXCEPT ![p].made = issued']
    \/ /\ dev[n] # NULL
       /\ dev[n].type = type
       /\ dev[n].multi = multi
       /\ multi \/ ~InUse(dev[n].index)
       /\ fd' = [fd EXCEPT ![p] = dev[n].index]
       /\ UNCHANGED <<dev, issued, call>>

(* close(): a device that does not persist goes with its last descriptor.  *)
CloseFd(p) ==
    /\ fd' = [fd EXCEPT ![p] = NULL]
    /\ dev' = [n \in Names |->
                  IF /\ HasIndex(n, fd[p])
                     /\ ~dev[n].persist
                     /\ \A q \in Procs \ {p} : fd[q] # fd[p]
                  THEN NULL
                  ELSE dev[n]]

(* TUNSETPERSIST *)
Persist(p, on) ==
    dev' = [n \in Names |-> IF HasIndex(n, fd[p]) THEN [dev[n] EXCEPT !.persist = on] ELSE dev[n]]

(* Another program creates or deletes a link. *)
ForeignCreate(n) ==
    /\ NewDevice(n, "other", FALSE, TRUE)
    /\ UNCHANGED <<fd, index, pc, call, result>>

ForeignDelete(n) ==
    /\ dev[n] # NULL
    /\ dev' = [dev EXCEPT ![n] = NULL]
    /\ UNCHANGED <<issued, fd, index, pc, call, result>>

-----------------------------------------------------------------------------
(* Calls.                                                                  *)

Ready(p) == pc[p] = "idle"

(* Mutant: malloc() in place of calloc(). *)
LinkNewUninitialised(p) ==
    /\ Ready(p)
    /\ index' = [index EXCEPT ![p] = NULL]
    /\ result' = [result EXCEPT ![p] = "none"]
    /\ UNCHANGED <<dev, issued, fd, pc, call>>

(* mnlxt_rt_link_new(): until then a caller goes on with the object it     *)
(* has, whose index is kept; its other properties are set before each call.*)
LinkNew(p) ==
    /\ Ready(p)
    /\ index' = [index EXCEPT ![p] = 0]
    /\ result' = [result EXCEPT ![p] = "none"]
    /\ UNCHANGED <<dev, issued, fd, pc, call>>

Begin(p, at, args) ==
    /\ Ready(p)
    /\ pc' = [pc EXCEPT ![p] = at]
    /\ call' = [call EXCEPT ![p] = args]
    /\ result' = [result EXCEPT ![p] = "none"]
    /\ UNCHANGED <<dev, issued, fd, index>>

Args(op, kind, name, type, multi, owner, persist) ==
    [op |-> op, kind |-> kind, name |-> name, type |-> type, multi |-> multi,
     owner |-> owner, persist |-> persist, made |-> 0]

Return(p, rc) ==
    /\ pc' = [pc EXCEPT ![p] = "idle"]
    /\ call' = [call EXCEPT ![p] = NULL]
    /\ result' = [result EXCEPT ![p] = rc]

(* A program that wants a descriptor calls mnlxt_tun_create() itself. *)
TunCreate(p) ==
    \E n \in Names, type \in TunTypes, multi, owner, persist \in BOOLEAN :
        Begin(p, "open", Args("tun_create", "tun", n, type, multi, owner, persist))

(* mnlxt_rt_link_request(RTM_NEWLINK) on a TUN link with the flag set, or  *)
(* not, or with no flags: then tun_flags is read uninitialised, and either *)
(* may result.                                                             *)
TunLinkCreate(p) ==
    \E n \in Names, type \in TunTypes, multi, owner \in BOOLEAN :
        Begin(p, "open", Args("NEWLINK", "tun", n, type, multi, owner, TRUE))

(* The name of the link to delete: its own, or the one its index has now. *)
NameToDelete(p, given, n) == IF given # NULL THEN n = given ELSE HasIndex(n, index[p])

(* Mutant: the device is opened with the flags of the object. *)
TunLinkDeleteAsCreated(p) ==
    \E given \in Names \cup {NULL}, n \in Names, type \in TunTypes, multi \in BOOLEAN :
        /\ NameToDelete(p, given, n)
        /\ Begin(p, "open", Args("DELLINK", "tun", n, type, multi, FALSE, FALSE))

(* RTM_DELLINK; of the flags only the type is passed on. *)
TunLinkDelete(p) ==
    \E given \in Names \cup {NULL}, n \in Names, type \in TunTypes :
        /\ NameToDelete(p, given, n)
        /\ Begin(p, "open", Args("DELLINK", "tun", n, type, FALSE, FALSE, FALSE))

(* The object has no TUN type, no name, or an index that is not in use. *)
TunLinkRefused(p) ==
    /\ Ready(p)
    /\ Return(p, "failed")
    /\ UNCHANGED <<dev, issued, fd, index>>

(* Every other request is rtnetlink's. *)
LinkMessage(p) ==
    \E op \in Requests, kind \in {"tun", "other"}, name \in Names \cup {NULL} :
        /\ kind = "tun" => op = "SETLINK"
        /\ Begin(p, "request", Args(op, kind, name, NULL, FALSE, FALSE, FALSE))

-----------------------------------------------------------------------------
(* Descriptors: mnlxt_tun_open(), mnlxt_tun_create(), mnlxt_tun_delete().  *)

At(p, where) == pc[p] = where /\ UNCHANGED index

Goto(p, where) == pc' = [pc EXCEPT ![p] = where] /\ UNCHANGED result

Deleting(p) == call[p].op = "DELLINK"

Open(p) ==
    /\ At(p, "open")
    /\ fd' = [fd EXCEPT ![p] = Unattached]
    /\ Goto(p, "setiff")
    /\ UNCHANGED <<dev, issued, call>>

OpenFails(p) ==
    /\ At(p, "open")
    /\ Return(p, "failed")
    /\ UNCHANGED <<dev, issued, fd>>

SetIff(p) ==
    /\ At(p, "setiff")
    /\ Attach(p, call[p].name, call[p].type, call[p].multi)
    /\ Goto(p, IF Deleting(p) THEN "persist" ELSE "owner")

(* The descriptor is returned all the same; close() and fd = -1 follow the *)
(* goto.  The next ioctl() on it fails, if there is one.                   *)
SetIffFails(p) ==
    /\ At(p, "setiff")
    /\ Goto(p, IF Deleting(p) THEN "persist" ELSE "owner")
    /\ UNCHANGED <<dev, issued, fd, call>>

(* Mutant: the device is made persistent before its owner is known. *)
SetOwnerPersists(p) ==
    /\ At(p, "owner")
    /\ call[p].owner => Controls(p)
    /\ Goto(p, "persist")
    /\ IF call[p].persist THEN Persist(p, TRUE) ELSE UNCHANGED dev
    /\ UNCHANGED <<issued, fd, call>>

(* TUNSETOWNER and TUNSETGROUP, if uid or gid is given *)
SetOwner(p) ==
    /\ At(p, "owner")
    /\ call[p].owner => Controls(p)
    /\ Goto(p, "persist")
    /\ UNCHANGED <<dev, issued, fd, call>>

(* TUNSETPERSIST, if asked for; mnlxt_tun_create() returns the descriptor. *)
SetPersist(p) ==
    /\ At(p, "persist")
    /\ ~Deleting(p)
    /\ IF call[p].persist THEN Controls(p) /\ Persist(p, TRUE) ELSE UNCHANGED dev
    /\ Goto(p, IF call[p].op = "tun_create" THEN "held" ELSE "close")
    /\ UNCHANGED <<issued, fd, call>>

(* Mutant: the error path does not close the descriptor. *)
CreateFailsOpen(p) ==
    /\ \/ At(p, "owner") /\ call[p].owner
       \/ At(p, "persist") /\ ~Deleting(p) /\ call[p].persist
    /\ Return(p, "failed")
    /\ UNCHANGED <<dev, issued, fd>>

(* One of these ioctl() calls fails, and the descriptor is closed. *)
CreateFails(p) ==
    /\ \/ At(p, "owner") /\ call[p].owner
       \/ At(p, "persist") /\ ~Deleting(p) /\ call[p].persist
    /\ CloseFd(p)
    /\ Return(p, "failed")
    /\ UNCHANGED issued

(* TUNSETPERSIST 0 of mnlxt_tun_delete() *)
Unpersist(p) ==
    /\ At(p, "persist")
    /\ Deleting(p)
    /\ Controls(p)
    /\ Persist(p, FALSE)
    /\ Goto(p, "close")
    /\ UNCHANGED <<issued, fd, call>>

DeleteFails(p) ==
    /\ At(p, "persist")
    /\ Deleting(p)
    /\ CloseFd(p)
    /\ Return(p, "failed")
    /\ UNCHANGED issued

(* close(): the device is deleted, or mnlxt_rt_link_tun_create() goes on. *)
Close(p) ==
    /\ At(p, "close")
    /\ CloseFd(p)
    /\ IF Deleting(p) THEN Return(p, "ok") ELSE Goto(p, "index") /\ UNCHANGED call
    /\ UNCHANGED issued

(* The caller of mnlxt_tun_create() has done with its descriptor. *)
Release(p) ==
    /\ At(p, "held")
    /\ CloseFd(p)
    /\ Return(p, "ok")
    /\ UNCHANGED issued

-----------------------------------------------------------------------------
(* The rest of mnlxt_rt_link_request().                                    *)

(* Mutant: an index the object has already is kept. *)
AddIndexOnce(p) ==
    /\ pc[p] = "index"
    /\ dev[call[p].name] # NULL
    /\ index' = [index EXCEPT ![p] = IF @ = 0 THEN dev[call[p].name].index ELSE @]
    /\ Goto(p, "request")
    /\ UNCHANGED <<dev, issued, fd, call>>

(* if_nametoindex() *)
AddIndex(p) ==
    /\ pc[p] = "index"
    /\ dev[call[p].name] # NULL
    /\ index' = [index EXCEPT ![p] = dev[call[p].name].index]
    /\ Goto(p, "request")
    /\ UNCHANGED <<dev, issued, fd, call>>

(* The name is gone, or if_nametoindex() gets no socket; the device stays. *)
AddIndexFails(p) ==
    /\ At(p, "index")
    /\ Return(p, "failed")
    /\ UNCHANGED <<dev, issued, fd>>

(* The link the kernel takes the message for: by index, or else by name. *)
Addressed(p, n) ==
    IF index[p] # 0 THEN HasIndex(n, index[p]) ELSE dev[n] # NULL /\ call[p].name = n

(* The kernel carries the request out.  A TUN link is configured here, by  *)
(* RTM_SETLINK, after it was created.  The kernel does not create a link   *)
(* with an index of the caller's choice here.                              *)
Perform(p) ==
    LET c == call[p]
    IN  \/ /\ c.op # "DELLINK"
           /\ \E n \in Names : Addressed(p, n)
           /\ UNCHANGED <<dev, issued>>
        \/ /\ c.op = "DELLINK"
           /\ \E n \in Names :
                 /\ Addressed(p, n)
                 /\ dev' = [dev EXCEPT ![n] = NULL]
           /\ UNCHANGED issued
        \/ /\ c.op = "NEWLINK"
           /\ c.kind # "tun"
           /\ c.name # NULL
           /\ index[p] = 0
           /\ NewDevice(c.name, "other", FALSE, TRUE)

(* mnlxt_rt_message_request(): done, or done and the answer lost.  The     *)
(* object was taken from rt_link by mnlxt_rt_link_message(), so that the   *)
(* name is looked up on NULL and no index is set after RTM_NEWLINK.        *)
Request(p) ==
    /\ At(p, "request")
    /\ Perform(p)
    /\ Return(p, "ok") \/ Return(p, "failed")
    /\ UNCHANGED fd

(* No memory, no socket, or the kernel refuses. *)
RequestFails(p) ==
    /\ At(p, "request")
    /\ Return(p, "failed")
    /\ UNCHANGED <<dev, issued, fd>>

Caller(p) ==
    \/ LinkNew(p)
    \/ TunCreate(p)
    \/ TunLinkCreate(p)
    \/ TunLinkDelete(p)
    \/ TunLinkRefused(p)
    \/ LinkMessage(p)
    \/ Open(p)
    \/ OpenFails(p)
    \/ SetIff(p)
    \/ SetIffFails(p)
    \/ SetOwner(p)
    \/ SetPersist(p)
    \/ CreateFails(p)
    \/ Unpersist(p)
    \/ DeleteFails(p)
    \/ Close(p)
    \/ Release(p)
    \/ AddIndex(p)
    \/ AddIndexFails(p)
    \/ Request(p)
    \/ RequestFails(p)

Next ==
    \/ \E p \in Procs : Caller(p)
    \/ \E n \in Names : ForeignCreate(n) \/ ForeignDelete(n)

Spec == Init /\ [][Next]_vars

-----------------------------------------------------------------------------
(* Properties.                                                             *)

(* A call leaves no descriptor open but the one mnlxt_tun_create() returns *)
(* (link_tun_tools.c:47-89, 91-134), on whichever of its paths, and that   *)
(* one was attached to a device if anything besides the flags was asked    *)
(* for: the descriptor mnlxt_tun_open() returns after a failed TUNSETIFF   *)
(* is caught by the next ioctl().                                          *)
DescriptorsAccounted ==
    \A p \in Procs :
        /\ pc[p] \in {"idle", "index", "request"} => fd[p] = NULL
        /\ pc[p] = "held" /\ (call[p].owner \/ call[p].persist) => fd[p] # Unattached

(* When mnlxt_tun_create() fails no device is left of it: persistence is   *)
(* the last thing asked for (link_tun_tools.c:59-69), and closing the      *)
(* descriptor takes the device away.  A device with several queues may be  *)
(* kept by another caller, which attached to it in between.                *)
NoHalfMadeDevice ==
    [][\A p \in Procs, i \in Indices :
          /\ pc[p] \in {"owner", "persist"} /\ pc'[p] = "idle"
          /\ ~Deleting(p) /\ ~call[p].multi /\ call[p].made = i
          => ~Exists(i)']_vars

(* The link that a successful RTM_NEWLINK of a TUN link configures has the *)
(* name that was asked for: it is never one whose index the object has     *)
(* kept (link_tun_tools.c:125-129), whatever others do to the name.        *)
ConfiguresItsLink ==
    [][\A p \in Procs :
          /\ pc[p] = "request" /\ pc'[p] = "idle" /\ result'[p] = "ok"
          /\ call[p].op = "NEWLINK" /\ call[p].kind = "tun"
          => HasIndex(call[p].name, index[p])]_vars

(* When mnlxt_tun_delete() returns 0 the device it has opened is gone      *)
(* (link_tun_tools.c:79-89): no other descriptor keeps it.                 *)
DeletedIsGone ==
    [][\A p \in Procs, i \in Indices :
          pc[p] = "close" /\ Deleting(p) /\ pc'[p] = "idle" /\ fd[p] = i => ~Exists(i)']_vars

(* rt_link_tun.h:105: a descriptor that mnlxt_tun_create() returns controls *)
(* a device, or did so until the device was deleted.                       *)
DescriptorControls ==
    \A p \in Procs : pc[p] = "held" => fd[p] # Unattached
=============================================================================
