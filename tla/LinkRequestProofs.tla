-------------------------- MODULE LinkRequestProofs -------------------------
(***************************************************************************)
(* Link requests leave no descriptor and no half-made device behind, and   *)
(* act on the links they are for, for any number of callers, names and     *)
(* links: LInv is inductive.  There is one lemma per action and in it one  *)
(* step per part of the invariant.                                         *)
(***************************************************************************)
EXTENDS LinkRequest, TLAPS

(* The links: no two have one index, and none has one not issued yet.      *)
IndexInv ==
    /\ \A n, m \in Names : dev[n] # NULL /\ dev[m] # NULL /\ dev[n].index = dev[m].index => n = m
    /\ \A n \in Names : dev[n] # NULL => dev[n].index <= issued
    /\ \A p \in Procs : index[p] <= issued
    /\ \A p \in Procs : fd[p] # NULL => fd[p] <= issued

(* What a caller has and knows at its place in a call.                     *)
PhaseInv ==
    \A p \in Procs :
        /\ pc[p] = "idle" <=> call[p] = NULL
        /\ fd[p] = NULL <=> pc[p] \in {"idle", "open", "index", "request"}
        /\ pc[p] \in {"open", "setiff"} =>
              /\ call[p].made = 0
              /\ call[p].name \in Names
              /\ call[p].type \in TunTypes
              /\ call[p].op \in {"tun_create", "NEWLINK", "DELLINK"}
        /\ pc[p] \in {"owner", "held"} => ~Deleting(p)
        /\ pc[p] = "index" => call[p].op = "NEWLINK" /\ call[p].name \in Names
        /\ pc[p] = "close" => call[p].op \in {"DELLINK", "NEWLINK"} /\ call[p].name \in Names
        /\ pc[p] \in {"owner", "persist"} =>
              /\ call[p].name \in Names
              /\ call[p].op \in {"DELLINK", "NEWLINK", "tun_create"}
        /\ pc[p] \in {"owner", "persist"} /\ call[p].made # 0 => fd[p] = call[p].made

(* A device is opened for deletion as one with a single queue.             *)
MultiInv ==
    \A p \in Procs :
        pc[p] \in {"open", "setiff", "persist", "close"} /\ Deleting(p) => ~call[p].multi

(* An ioctl() has succeeded on a descriptor only if it is attached.        *)
AttachedInv ==
    \A p \in Procs :
        /\ pc[p] = "persist" /\ ~Deleting(p) /\ call[p].owner => fd[p] # Unattached
        /\ pc[p] = "held" /\ (call[p].owner \/ call[p].persist) => fd[p] # Unattached

(* An attached descriptor is of the sort asked for, and a device with a    *)
(* single queue has one descriptor.                                        *)
QueueInv ==
    \A p \in Procs, n \in Names :
        fd[p] # NULL /\ HasIndex(n, fd[p]) =>
            /\ dev[n].multi = call[p].multi
            /\ ~dev[n].multi => \A q \in Procs : fd[q] = fd[p] => q = p

(* A device that is about to be deleted is not persistent.                 *)
DeleteInv ==
    \A p \in Procs, n \in Names :
        pc[p] = "close" /\ Deleting(p) /\ HasIndex(n, fd[p]) => ~dev[n].persist

(* Neither is one that mnlxt_tun_create() has not finished.                *)
MadeInv ==
    \A p \in Procs, n \in Names :
        /\ pc[p] \in {"owner", "persist"}
        /\ ~Deleting(p) /\ ~call[p].multi
        /\ HasIndex(n, call[p].made)
        => ~dev[n].persist

(* A TUN link is configured by the index its name had, which is not that   *)
(* of a link of another name.                                              *)
AimInv ==
    \A p \in Procs :
        pc[p] = "request" /\ call[p].op = "NEWLINK" /\ call[p].kind = "tun" =>
            /\ index[p] # 0
            /\ \A n \in Names : HasIndex(n, index[p]) => n = call[p].name

LInv ==
    /\ TypeOK
    /\ IndexInv
    /\ PhaseInv
    /\ MultiInv
    /\ AttachedInv
    /\ QueueInv
    /\ DeleteInv
    /\ MadeInv
    /\ AimInv

-----------------------------------------------------------------------------
(* Calls begin.                                                            *)

LEMMA NewDeviceType ==
    ASSUME TypeOK, NEW n \in Names, NEW type \in TunTypes \cup {"other"},
           NEW multi \in BOOLEAN, NEW persist \in BOOLEAN, NewDevice(n, type, multi, persist)
    PROVE  dev' \in [Names -> Devices \cup {NULL}] /\ issued' \in 0..MaxIndex
<1>1. issued + 1 \in Indices
  BY LinkAssumption DEF TypeOK, NewDevice, Indices
<1>2. [index |-> issued + 1, type |-> type, multi |-> multi, persist |-> persist] \in Devices
  BY <1>1 DEF Devices
<1> QED
  BY <1>1, <1>2 DEF TypeOK, NewDevice, Indices

(* A call begins, with a descriptor to open or with a message to send. *)
LEMMA BeginStep ==
    ASSUME LInv, NEW p \in Procs, NEW a \in Calls, NEW at \in {"open", "request"}, Begin(p, at, a),
           at = "open" => /\ a.made = 0
                          /\ a.name \in Names
                          /\ a.type \in TunTypes
                          /\ a.op \in {"tun_create", "NEWLINK", "DELLINK"}
                          /\ a.op = "DELLINK" => ~a.multi,
           at = "request" => ~(a.op = "NEWLINK" /\ a.kind = "tun")
    PROVE  LInv'
<1>1. /\ pc[p] = "idle" /\ fd[p] = NULL /\ a # NULL
      /\ pc' = [pc EXCEPT ![p] = at] /\ call' = [call EXCEPT ![p] = a]
      /\ call'[p] = a /\ pc'[p] = at
      /\ UNCHANGED <<dev, issued, fd, index>>
  BY LinkAssumption DEF Begin, Ready, LInv, PhaseInv, TypeOK
<1>2. TypeOK'
  BY DEF LInv, Begin, TypeOK, Results
<1>3. IndexInv'
  BY <1>1 DEF LInv, IndexInv
<1>4. PhaseInv'
  BY <1>1 DEF LInv, PhaseInv, TypeOK, Deleting
<1>5. MultiInv'
  BY <1>1 DEF LInv, MultiInv, TypeOK, Deleting
<1>6. AttachedInv'
  BY <1>1 DEF LInv, AttachedInv, TypeOK, Deleting
<1>7. QueueInv'
  BY <1>1 DEF LInv, QueueInv, TypeOK, HasIndex
<1>8. DeleteInv'
  BY <1>1 DEF LInv, DeleteInv, TypeOK, HasIndex, Deleting
<1>9. MadeInv'
  BY <1>1 DEF LInv, MadeInv, TypeOK, HasIndex, Deleting
<1>10. AimInv'
  BY <1>1 DEF LInv, AimInv, TypeOK, HasIndex
<1> QED
  BY <1>2, <1>3, <1>4, <1>5, <1>6, <1>7, <1>8, <1>9, <1>10 DEF LInv

LEMMA TunCreateStep ==
    ASSUME LInv, NEW p \in Procs, TunCreate(p)
    PROVE  LInv'
<1>1. PICK n \in Names, type \in TunTypes, multi \in BOOLEAN, owner \in BOOLEAN, persist \in BOOLEAN :
          Begin(p, "open", Args("tun_create", "tun", n, type, multi, owner, persist))
  BY DEF TunCreate
<1>2. Args("tun_create", "tun", n, type, multi, owner, persist) \in Calls
  BY DEF Args, Calls, Requests
<1> QED
  BY <1>1, <1>2, BeginStep DEF Args

LEMMA TunLinkCreateStep ==
    ASSUME LInv, NEW p \in Procs, TunLinkCreate(p)
    PROVE  LInv'
<1>1. PICK n \in Names, type \in TunTypes, multi \in BOOLEAN, owner \in BOOLEAN :
          Begin(p, "open", Args("NEWLINK", "tun", n, type, multi, owner, TRUE))
  BY DEF TunLinkCreate
<1>2. Args("NEWLINK", "tun", n, type, multi, owner, TRUE) \in Calls
  BY DEF Args, Calls, Requests
<1> QED
  BY <1>1, <1>2, BeginStep DEF Args

LEMMA TunLinkDeleteStep ==
    ASSUME LInv, NEW p \in Procs, TunLinkDelete(p)
    PROVE  LInv'
<1>1. PICK n \in Names, type \in TunTypes :
          Begin(p, "open", Args("DELLINK", "tun", n, type, FALSE, FALSE, FALSE))
  BY DEF TunLinkDelete
<1>2. Args("DELLINK", "tun", n, type, FALSE, FALSE, FALSE) \in Calls
  BY DEF Args, Calls, Requests
<1> QED
  BY <1>1, <1>2, BeginStep DEF Args

LEMMA LinkMessageStep ==
    ASSUME LInv, NEW p \in Procs, LinkMessage(p)
    PROVE  LInv'
<1>1. PICK op \in Requests, kind \in {"tun", "other"}, name \in Names \cup {NULL} :
          /\ kind = "tun" => op = "SETLINK"
          /\ Begin(p, "request", Args(op, kind, name, NULL, FALSE, FALSE, FALSE))
  BY DEF LinkMessage
<1>2. Args(op, kind, name, NULL, FALSE, FALSE, FALSE) \in Calls
  BY DEF Args, Calls, Requests
<1> QED
  BY <1>1, <1>2, BeginStep DEF Args

LEMMA LinkNewStep ==
    ASSUME LInv, NEW p \in Procs, LinkNew(p)
    PROVE  LInv'
<1>1. TypeOK'
  BY DEF LInv, LinkNew, Ready, Requests, Results, TypeOK
<1>2. IndexInv'
  BY DEF LInv, LinkNew, Ready, TypeOK, IndexInv
<1>3. PhaseInv'
  BY DEF LInv, LinkNew, Ready, Deleting, PhaseInv
<1>4. MultiInv'
  BY DEF LInv, LinkNew, Ready, Deleting, MultiInv
<1>5. AttachedInv'
  BY DEF LInv, LinkNew, Ready, Deleting, AttachedInv
<1>6. QueueInv'
  BY DEF LInv, LinkNew, Ready, HasIndex, QueueInv
<1>7. DeleteInv'
  BY DEF LInv, LinkNew, Ready, HasIndex, Deleting, DeleteInv
<1>8. MadeInv'
  BY DEF LInv, LinkNew, Ready, HasIndex, Deleting, MadeInv
<1>9. AimInv'
  BY DEF LInv, LinkNew, Ready, HasIndex, AimInv
<1> QED
  BY <1>1, <1>2, <1>3, <1>4, <1>5, <1>6, <1>7, <1>8, <1>9 DEF LInv

LEMMA TunLinkRefusedStep ==
    ASSUME LInv, NEW p \in Procs, TunLinkRefused(p)
    PROVE  LInv'
<1>1. TypeOK'
  BY DEF LInv, TunLinkRefused, Ready, Return, Requests, Results, TypeOK
<1>2. IndexInv'
  BY DEF LInv, TunLinkRefused, Ready, IndexInv
<1>3. PhaseInv'
  BY DEF LInv, TunLinkRefused, Ready, Return, Deleting, PhaseInv
<1>4. MultiInv'
  BY DEF LInv, TunLinkRefused, Ready, Return, Deleting, MultiInv
<1>5. AttachedInv'
  BY DEF LInv, TunLinkRefused, Ready, Return, Deleting, AttachedInv
<1>6. QueueInv'
  BY DEF LInv, TunLinkRefused, Ready, Return, HasIndex, PhaseInv, QueueInv
<1>7. DeleteInv'
  BY DEF LInv, TunLinkRefused, Ready, Return, HasIndex, Deleting, DeleteInv
<1>8. MadeInv'
  BY DEF LInv, TunLinkRefused, Ready, Return, HasIndex, Deleting, MadeInv
<1>9. AimInv'
  BY DEF LInv, TunLinkRefused, Ready, Return, HasIndex, AimInv
<1> QED
  BY <1>1, <1>2, <1>3, <1>4, <1>5, <1>6, <1>7, <1>8, <1>9 DEF LInv

-----------------------------------------------------------------------------
(* System calls.                                                           *)

LEMMA OpenStep ==
    ASSUME LInv, NEW p \in Procs, Open(p)
    PROVE  LInv'
<1>1. TypeOK'
  BY DEF LInv, Open, At, Goto, TypeOK
<1>2. IndexInv'
  BY DEF LInv, Open, At, TypeOK, Unattached, IndexInv
<1>3. PhaseInv'
  BY LinkAssumption DEF LInv, Open, At, Goto, TypeOK, Requests, Unattached, Deleting,
       PhaseInv
<1>4. MultiInv'
  BY DEF LInv, Open, At, Goto, Deleting, MultiInv
<1>5. AttachedInv'
  BY DEF LInv, Open, At, Goto, Deleting, AttachedInv
<1>6. QueueInv'
  BY DEF LInv, Open, HasIndex, TypeOK, Devices, Indices, Unattached, QueueInv
<1>7. DeleteInv'
  BY DEF LInv, Open, At, Goto, HasIndex, Deleting, DeleteInv
<1>8. MadeInv'
  BY DEF LInv, Open, Goto, HasIndex, Deleting, MadeInv
<1>9. AimInv'
  BY DEF LInv, Open, At, Goto, HasIndex, AimInv
<1> QED
  BY <1>1, <1>2, <1>3, <1>4, <1>5, <1>6, <1>7, <1>8, <1>9 DEF LInv

LEMMA OpenFailsStep ==
    ASSUME LInv, NEW p \in Procs, OpenFails(p)
    PROVE  LInv'
<1>1. TypeOK'
  BY DEF LInv, OpenFails, At, Return, Requests, Results, TypeOK
<1>2. IndexInv'
  BY DEF LInv, OpenFails, At, IndexInv
<1>3. PhaseInv'
  BY DEF LInv, OpenFails, At, Return, TypeOK, Deleting, PhaseInv
<1>4. MultiInv'
  BY DEF LInv, OpenFails, Return, TypeOK, Deleting, MultiInv
<1>5. AttachedInv'
  BY DEF LInv, OpenFails, At, Return, Deleting, AttachedInv
<1>6. QueueInv'
  BY DEF LInv, OpenFails, At, Return, HasIndex, PhaseInv, QueueInv
<1>7. DeleteInv'
  BY DEF LInv, OpenFails, At, Return, HasIndex, Deleting, DeleteInv
<1>8. MadeInv'
  BY DEF LInv, OpenFails, At, Return, HasIndex, Deleting, MadeInv
<1>9. AimInv'
  BY DEF LInv, OpenFails, At, Return, HasIndex, AimInv
<1> QED
  BY <1>1, <1>2, <1>3, <1>4, <1>5, <1>6, <1>7, <1>8, <1>9 DEF LInv

LEMMA SetIffStep ==
    ASSUME LInv, NEW p \in Procs, SetIff(p)
    PROVE  LInv'
<1>1. TypeOK'
  <2>1. call[p] \in Calls /\ call[p].name \in Names /\ call[p].type \in TunTypes
    BY DEF LInv, SetIff, At, TypeOK, PhaseInv
  <2>2. /\ dev' \in [Names -> Devices \cup {NULL}] /\ issued' \in 0..MaxIndex
        /\ fd' \in [Procs -> Indices \cup {Unattached, NULL}]
        /\ call' \in [Procs -> Calls \cup {NULL}]
    <3>1. CASE NewDevice(call[p].name, call[p].type, call[p].multi, FALSE)
               /\ fd' = [fd EXCEPT ![p] = issued']
               /\ call' = [call EXCEPT ![p].made = issued']
      <4>1. issued' \in Indices
        BY <3>1, LinkAssumption DEF NewDevice, LInv, TypeOK, Indices
      <4>2. [call[p] EXCEPT !.made = issued'] \in Calls
        BY <2>1, <4>1 DEF Calls
      <4>3. call[p].multi \in BOOLEAN
        BY <2>1 DEF Calls
      <4>4. dev' \in [Names -> Devices \cup {NULL}] /\ issued' \in 0..MaxIndex
        BY <2>1, <3>1, <4>3, NewDeviceType DEF LInv
      <4> QED
        BY <3>1, <4>1, <4>2, <4>4 DEF LInv, TypeOK
    <3>2. CASE /\ dev[call[p].name] # NULL
               /\ fd' = [fd EXCEPT ![p] = dev[call[p].name].index]
               /\ UNCHANGED <<dev, issued, call>>
      BY <2>1, <3>2 DEF LInv, TypeOK, Devices
    <3> QED
      BY <3>1, <3>2 DEF SetIff, Attach
  <2> QED
    BY <2>2 DEF LInv, SetIff, At, Goto, TypeOK
<1>2. IndexInv'
  <2>1. CASE NewDevice(call[p].name, call[p].type, call[p].multi, FALSE)
             /\ fd' = [fd EXCEPT ![p] = issued']
    BY <2>1 DEF LInv, SetIff, At, NewDevice, TypeOK, Devices, Indices, Unattached, PhaseInv,
         IndexInv
  <2>2. CASE /\ dev[call[p].name] # NULL
             /\ fd' = [fd EXCEPT ![p] = dev[call[p].name].index]
             /\ UNCHANGED <<dev, issued>>
    BY <2>2 DEF LInv, SetIff, At, TypeOK, PhaseInv, IndexInv
  <2> QED
    BY <2>1, <2>2 DEF SetIff, Attach
<1>3. PhaseInv'
  <2>1. call[p] \in Calls /\ call[p].op \in {"DELLINK", "NEWLINK", "tun_create"}
    BY DEF LInv, SetIff, At, TypeOK, PhaseInv
  <2>2. /\ call'[p] \in Calls /\ call'[p].op = call[p].op /\ call'[p].name = call[p].name
        /\ call'[p].made # 0 => fd'[p] = call'[p].made
        /\ fd'[p] # NULL
        /\ \A q \in Procs \ {p} : call'[q] = call[q] /\ fd'[q] = fd[q]
    <3>1. CASE /\ NewDevice(call[p].name, call[p].type, call[p].multi, FALSE)
               /\ fd' = [fd EXCEPT ![p] = issued']
               /\ call' = [call EXCEPT ![p].made = issued']
      <4>1. call \in [Procs -> Calls \cup {NULL}] /\ DOMAIN fd = Procs
        BY DEF LInv, TypeOK
      <4>2. fd'[p] = issued' /\ call'[p] = [call[p] EXCEPT !.made = issued']
        BY <3>1, <4>1
      <4>3. issued' \in Indices
        BY <3>1, LinkAssumption DEF NewDevice, LInv, TypeOK, Indices
      <4>4. call'[p] \in Calls
        BY <2>1, <4>2, <4>3 DEF Calls
      <4>5. /\ call'[p].op = call[p].op /\ call'[p].name = call[p].name
            /\ call'[p].made = fd'[p]
        BY <2>1, <4>2 DEF Calls
      <4>6. \A q \in Procs \ {p} : call'[q] = call[q] /\ fd'[q] = fd[q]
        BY <3>1, <4>1
      <4>7. fd'[p] # NULL
        BY <4>2, <4>3, LinkAssumption DEF Indices
      <4> QED
        BY <4>4, <4>5, <4>6, <4>7
    <3>2. CASE /\ dev[call[p].name] # NULL
               /\ fd' = [fd EXCEPT ![p] = dev[call[p].name].index]
               /\ UNCHANGED <<dev, issued, call>>
      BY <2>1, <3>2, LinkAssumption DEF SetIff, At, LInv, TypeOK, PhaseInv, Calls, Devices, Indices
    <3> QED
      BY <3>1, <3>2 DEF SetIff, Attach
  <2> QED
    BY <2>1, <2>2, LinkAssumption DEF LInv, SetIff, At, Goto, Deleting, PhaseInv, TypeOK
<1>4. MultiInv'
  BY DEF LInv, SetIff, At, Goto, Attach, NewDevice, TypeOK, PhaseInv, Deleting, Calls,
       MultiInv
<1>5. AttachedInv'
  BY DEF LInv, SetIff, At, Goto, Attach, NewDevice, TypeOK, PhaseInv, Deleting, Calls,
       AttachedInv
<1>6. QueueInv'
  BY DEF LInv, SetIff, At, Attach, NewDevice, HasIndex, InUse, TypeOK, PhaseInv,
       IndexInv, MultiInv, Calls, QueueInv
<1>7. DeleteInv'
  BY DEF LInv, SetIff, Goto, Attach, NewDevice, HasIndex, TypeOK, Deleting, DeleteInv
<1>8. MadeInv'
  BY DEF LInv, SetIff, At, Goto, Attach, NewDevice, HasIndex, TypeOK, PhaseInv,
       IndexInv, QueueInv, Devices, Indices, Deleting, Calls, MadeInv
<1>9. AimInv'
  BY DEF LInv, SetIff, At, Goto, Attach, NewDevice, HasIndex, TypeOK, IndexInv, AimInv
<1> QED
  BY <1>1, <1>2, <1>3, <1>4, <1>5, <1>6, <1>7, <1>8, <1>9 DEF LInv

LEMMA SetIffFailsStep ==
    ASSUME LInv, NEW p \in Procs, SetIffFails(p)
    PROVE  LInv'
<1>1. TypeOK'
  BY DEF LInv, SetIffFails, At, Goto, TypeOK
<1>2. IndexInv'
  BY DEF LInv, SetIffFails, At, IndexInv
<1>3. PhaseInv'
  <2>1. call[p] \in Calls /\ call[p].op \in {"DELLINK", "NEWLINK", "tun_create"}
    BY DEF LInv, SetIffFails, At, TypeOK, PhaseInv
  <2> QED
    BY <2>1, LinkAssumption DEF LInv, SetIffFails, At, Goto, Deleting, PhaseInv, TypeOK
<1>4. MultiInv'
  BY DEF LInv, SetIffFails, At, Goto, Deleting, MultiInv
<1>5. AttachedInv'
  BY DEF LInv, SetIffFails, Goto, Deleting, AttachedInv
<1>6. QueueInv'
  BY DEF LInv, SetIffFails, HasIndex, QueueInv
<1>7. DeleteInv'
  BY DEF LInv, SetIffFails, Goto, HasIndex, Deleting, DeleteInv
<1>8. MadeInv'
  BY DEF LInv, SetIffFails, At, Goto, HasIndex, TypeOK, PhaseInv, QueueInv, Devices,
       Indices, Deleting, MadeInv
<1>9. AimInv'
  BY DEF LInv, SetIffFails, At, Goto, HasIndex, AimInv
<1> QED
  BY <1>1, <1>2, <1>3, <1>4, <1>5, <1>6, <1>7, <1>8, <1>9 DEF LInv

LEMMA SetOwnerStep ==
    ASSUME LInv, NEW p \in Procs, SetOwner(p)
    PROVE  LInv'
<1>1. TypeOK'
  BY DEF LInv, SetOwner, At, Goto, TypeOK
<1>2. IndexInv'
  BY DEF LInv, SetOwner, At, IndexInv
<1>3. PhaseInv'
  BY DEF LInv, SetOwner, At, Goto, Deleting, PhaseInv
<1>4. MultiInv'
  BY DEF LInv, SetOwner, At, Goto, PhaseInv, Deleting, MultiInv
<1>5. AttachedInv'
  BY DEF LInv, SetOwner, Goto, Controls, Exists, HasIndex, InUse, TypeOK, Devices,
       Indices, Deleting, Unattached, AttachedInv
<1>6. QueueInv'
  BY DEF LInv, SetOwner, HasIndex, QueueInv
<1>7. DeleteInv'
  BY DEF LInv, SetOwner, Goto, HasIndex, Deleting, DeleteInv
<1>8. MadeInv'
  BY DEF LInv, SetOwner, At, Goto, HasIndex, Deleting, MadeInv
<1>9. AimInv'
  BY DEF LInv, SetOwner, At, Goto, HasIndex, AimInv
<1> QED
  BY <1>1, <1>2, <1>3, <1>4, <1>5, <1>6, <1>7, <1>8, <1>9 DEF LInv

LEMMA SetPersistStep ==
    ASSUME LInv, NEW p \in Procs, SetPersist(p)
    PROVE  LInv'
<1>1. TypeOK'
  <2>1. \A d \in Devices : [d EXCEPT !.persist = TRUE] \in Devices
    BY DEF Devices
  <2>2. \A n \in Names : HasIndex(n, fd[p]) => dev[n] \in Devices
    BY DEF LInv, TypeOK, HasIndex
  <2>3. dev' \in [Names -> Devices \cup {NULL}]
    BY <2>1, <2>2 DEF LInv, SetPersist, Persist, TypeOK
  <2> QED
    BY <2>3 DEF LInv, SetPersist, At, Goto, TypeOK
<1>2. IndexInv'
  BY DEF LInv, SetPersist, At, Persist, HasIndex, TypeOK, Devices, IndexInv
<1>3. PhaseInv'
  BY DEF LInv, SetPersist, At, Goto, Deleting, PhaseInv
<1>4. MultiInv'
  BY DEF LInv, SetPersist, Goto, Deleting, MultiInv
<1>5. AttachedInv'
  BY DEF LInv, SetPersist, At, Goto, Persist, Controls, Exists, HasIndex, InUse,
       TypeOK, Devices, Indices, Deleting, Unattached, AttachedInv
<1>6. QueueInv'
  BY DEF LInv, SetPersist, Persist, HasIndex, TypeOK, Devices, QueueInv
<1>7. DeleteInv'
  BY DEF LInv, SetPersist, Goto, Persist, Controls, Exists, HasIndex, TypeOK,
       IndexInv, MultiInv, QueueInv, Devices, Deleting, DeleteInv
<1>8. MadeInv'
  BY DEF LInv, SetPersist, Goto, Persist, HasIndex, TypeOK, PhaseInv, QueueInv,
       Devices, Indices, Deleting, MadeInv
<1>9. AimInv'
  BY DEF LInv, SetPersist, At, Goto, Persist, HasIndex, TypeOK, Devices, AimInv
<1> QED
  BY <1>1, <1>2, <1>3, <1>4, <1>5, <1>6, <1>7, <1>8, <1>9 DEF LInv

LEMMA CreateFailsStep ==
    ASSUME LInv, NEW p \in Procs, CreateFails(p)
    PROVE  LInv'
<1>1. TypeOK'
  BY DEF LInv, CreateFails, At, Return, CloseFd, Requests, Results, TypeOK
<1>2. IndexInv'
  BY DEF LInv, CreateFails, At, CloseFd, IndexInv
<1>3. PhaseInv'
  BY DEF LInv, CreateFails, Return, CloseFd, TypeOK, Deleting, PhaseInv
<1>4. MultiInv'
  BY DEF LInv, CreateFails, Return, TypeOK, Deleting, MultiInv
<1>5. AttachedInv'
  BY DEF LInv, CreateFails, Return, CloseFd, TypeOK, Deleting, AttachedInv
<1>6. QueueInv'
  BY DEF LInv, CreateFails, Return, CloseFd, HasIndex, TypeOK, QueueInv
<1>7. DeleteInv'
  BY DEF LInv, CreateFails, At, Return, CloseFd, HasIndex, Deleting, DeleteInv
<1>8. MadeInv'
  BY DEF LInv, CreateFails, Return, CloseFd, HasIndex, TypeOK, Deleting, MadeInv
<1>9. AimInv'
  BY DEF LInv, CreateFails, At, Return, CloseFd, HasIndex, AimInv
<1> QED
  BY <1>1, <1>2, <1>3, <1>4, <1>5, <1>6, <1>7, <1>8, <1>9 DEF LInv

LEMMA UnpersistStep ==
    ASSUME LInv, NEW p \in Procs, Unpersist(p)
    PROVE  LInv'
<1>1. TypeOK'
  BY DEF LInv, Unpersist, At, Goto, Persist, HasIndex, Devices, TypeOK
<1>2. IndexInv'
  BY DEF LInv, Unpersist, At, Persist, HasIndex, IndexInv
<1>3. PhaseInv'
  BY DEF LInv, Unpersist, At, Goto, Deleting, PhaseInv
<1>4. MultiInv'
  BY DEF LInv, Unpersist, At, Goto, Deleting, MultiInv
<1>5. AttachedInv'
  BY DEF LInv, Unpersist, Goto, Deleting, AttachedInv
<1>6. QueueInv'
  BY DEF LInv, Unpersist, Persist, HasIndex, QueueInv
<1>7. DeleteInv'
  BY DEF LInv, Unpersist, Goto, Persist, HasIndex, Deleting, DeleteInv
<1>8. MadeInv'
  BY DEF LInv, Unpersist, Goto, Persist, HasIndex, Deleting, MadeInv
<1>9. AimInv'
  BY DEF LInv, Unpersist, At, Goto, Persist, HasIndex, AimInv
<1> QED
  BY <1>1, <1>2, <1>3, <1>4, <1>5, <1>6, <1>7, <1>8, <1>9 DEF LInv

LEMMA DeleteFailsStep ==
    ASSUME LInv, NEW p \in Procs, DeleteFails(p)
    PROVE  LInv'
<1>1. TypeOK'
  BY DEF LInv, DeleteFails, At, Return, CloseFd, Requests, Results, TypeOK
<1>2. IndexInv'
  BY DEF LInv, DeleteFails, At, CloseFd, IndexInv
<1>3. PhaseInv'
  BY DEF LInv, DeleteFails, Return, CloseFd, TypeOK, Deleting, PhaseInv
<1>4. MultiInv'
  BY DEF LInv, DeleteFails, Return, TypeOK, Deleting, MultiInv
<1>5. AttachedInv'
  BY DEF LInv, DeleteFails, Return, CloseFd, TypeOK, Deleting, AttachedInv
<1>6. QueueInv'
  BY DEF LInv, DeleteFails, Return, CloseFd, HasIndex, TypeOK, QueueInv
<1>7. DeleteInv'
  BY DEF LInv, DeleteFails, At, Return, CloseFd, HasIndex, Deleting, DeleteInv
<1>8. MadeInv'
  BY DEF LInv, DeleteFails, Return, CloseFd, HasIndex, TypeOK, Deleting, MadeInv
<1>9. AimInv'
  BY DEF LInv, DeleteFails, At, Return, CloseFd, HasIndex, AimInv
<1> QED
  BY <1>1, <1>2, <1>3, <1>4, <1>5, <1>6, <1>7, <1>8, <1>9 DEF LInv

LEMMA CloseStep ==
    ASSUME LInv, NEW p \in Procs, Close(p)
    PROVE  LInv'
<1>1. TypeOK'
  BY DEF LInv, Close, At, Goto, Return, CloseFd, Requests, Results, TypeOK
<1>2. IndexInv'
  BY DEF LInv, Close, At, CloseFd, IndexInv
<1>3. PhaseInv'
  BY DEF LInv, Close, At, Goto, Return, CloseFd, TypeOK, Deleting, PhaseInv
<1>4. MultiInv'
  BY DEF LInv, Close, Goto, Return, TypeOK, Deleting, MultiInv
<1>5. AttachedInv'
  BY DEF LInv, Close, Goto, Return, CloseFd, TypeOK, Deleting, AttachedInv
<1>6. QueueInv'
  BY DEF LInv, Close, Goto, Return, CloseFd, HasIndex, TypeOK, QueueInv
<1>7. DeleteInv'
  BY DEF LInv, Close, Goto, Return, CloseFd, HasIndex, TypeOK, Deleting, DeleteInv
<1>8. MadeInv'
  BY DEF LInv, Close, Goto, Return, CloseFd, HasIndex, TypeOK, Deleting, MadeInv
<1>9. AimInv'
  BY DEF LInv, Close, At, Goto, Return, CloseFd, HasIndex, TypeOK, AimInv
<1> QED
  BY <1>1, <1>2, <1>3, <1>4, <1>5, <1>6, <1>7, <1>8, <1>9 DEF LInv

LEMMA ReleaseStep ==
    ASSUME LInv, NEW p \in Procs, Release(p)
    PROVE  LInv'
<1>1. TypeOK'
  BY DEF LInv, Release, At, Return, CloseFd, Requests, Results, TypeOK
<1>2. IndexInv'
  BY DEF LInv, Release, At, CloseFd, IndexInv
<1>3. PhaseInv'
  BY DEF LInv, Release, Return, CloseFd, TypeOK, Deleting, PhaseInv
<1>4. MultiInv'
  BY DEF LInv, Release, At, Return, Deleting, MultiInv
<1>5. AttachedInv'
  BY DEF LInv, Release, Return, CloseFd, TypeOK, Deleting, AttachedInv
<1>6. QueueInv'
  BY DEF LInv, Release, Return, CloseFd, HasIndex, TypeOK, QueueInv
<1>7. DeleteInv'
  BY DEF LInv, Release, At, Return, CloseFd, HasIndex, Deleting, DeleteInv
<1>8. MadeInv'
  BY DEF LInv, Release, At, Return, CloseFd, HasIndex, Deleting, MadeInv
<1>9. AimInv'
  BY DEF LInv, Release, At, Return, CloseFd, HasIndex, AimInv
<1> QED
  BY <1>1, <1>2, <1>3, <1>4, <1>5, <1>6, <1>7, <1>8, <1>9 DEF LInv

LEMMA AddIndexStep ==
    ASSUME LInv, NEW p \in Procs, AddIndex(p)
    PROVE  LInv'
<1>1. TypeOK'
  <2>1. dev[call[p].name] \in Devices
    BY DEF LInv, AddIndex, TypeOK, PhaseInv
  <2>2. dev[call[p].name].index \in Indices
    BY <2>1 DEF Devices
  <2> QED
    BY <2>2 DEF LInv, AddIndex, Goto, TypeOK
<1>2. IndexInv'
  BY DEF LInv, AddIndex, PhaseInv, IndexInv
<1>3. PhaseInv'
  BY DEF LInv, AddIndex, Goto, Deleting, PhaseInv
<1>4. MultiInv'
  BY DEF LInv, AddIndex, Goto, Deleting, MultiInv
<1>5. AttachedInv'
  BY DEF LInv, AddIndex, Goto, Deleting, AttachedInv
<1>6. QueueInv'
  BY DEF LInv, AddIndex, HasIndex, QueueInv
<1>7. DeleteInv'
  BY DEF LInv, AddIndex, Goto, HasIndex, Deleting, DeleteInv
<1>8. MadeInv'
  BY DEF LInv, AddIndex, Goto, HasIndex, Deleting, MadeInv
<1>9. AimInv'
  BY DEF LInv, AddIndex, Goto, HasIndex, TypeOK, PhaseInv, IndexInv, Devices, Indices,
       AimInv
<1> QED
  BY <1>1, <1>2, <1>3, <1>4, <1>5, <1>6, <1>7, <1>8, <1>9 DEF LInv

LEMMA AddIndexFailsStep ==
    ASSUME LInv, NEW p \in Procs, AddIndexFails(p)
    PROVE  LInv'
<1>1. TypeOK'
  BY DEF LInv, AddIndexFails, At, Return, Requests, Results, TypeOK
<1>2. IndexInv'
  BY DEF LInv, AddIndexFails, At, IndexInv
<1>3. PhaseInv'
  BY DEF LInv, AddIndexFails, At, Return, TypeOK, Deleting, PhaseInv
<1>4. MultiInv'
  BY DEF LInv, AddIndexFails, At, Return, Deleting, MultiInv
<1>5. AttachedInv'
  BY DEF LInv, AddIndexFails, At, Return, Deleting, AttachedInv
<1>6. QueueInv'
  BY DEF LInv, AddIndexFails, At, Return, HasIndex, PhaseInv, QueueInv
<1>7. DeleteInv'
  BY DEF LInv, AddIndexFails, At, Return, HasIndex, Deleting, DeleteInv
<1>8. MadeInv'
  BY DEF LInv, AddIndexFails, At, Return, HasIndex, Deleting, MadeInv
<1>9. AimInv'
  BY DEF LInv, AddIndexFails, At, Return, HasIndex, AimInv
<1> QED
  BY <1>1, <1>2, <1>3, <1>4, <1>5, <1>6, <1>7, <1>8, <1>9 DEF LInv

LEMMA RequestStep ==
    ASSUME LInv, NEW p \in Procs, Request(p)
    PROVE  LInv'
<1>1. TypeOK'
  <2>1. dev' \in [Names -> Devices \cup {NULL}] /\ issued' \in 0..MaxIndex
    <3>1. CASE UNCHANGED <<dev, issued>>
      BY <3>1 DEF LInv, TypeOK
    <3>2. ASSUME NEW n \in Names, dev' = [dev EXCEPT ![n] = NULL], UNCHANGED issued
          PROVE  dev' \in [Names -> Devices \cup {NULL}] /\ issued' \in 0..MaxIndex
      BY <3>2 DEF LInv, TypeOK
    <3>3. ASSUME NEW n \in Names, NewDevice(n, "other", FALSE, TRUE)
          PROVE  dev' \in [Names -> Devices \cup {NULL}] /\ issued' \in 0..MaxIndex
      BY <3>3, NewDeviceType DEF LInv
    <3>4. call[p] \in Calls
      BY DEF Request, At, LInv, PhaseInv, TypeOK
    <3>5. call[p].name # NULL => call[p].name \in Names
      BY <3>4 DEF Calls
    <3> QED
      BY <3>1, <3>2, <3>3, <3>5 DEF Request, Perform
  <2> QED
    BY <2>1 DEF LInv, Request, At, Return, TypeOK, Results
<1>2. IndexInv'
  BY DEF LInv, Request, At, Perform, NewDevice, TypeOK, Devices, Indices, Unattached,
       IndexInv
<1>3. PhaseInv'
  BY DEF LInv, Request, At, Return, TypeOK, Deleting, PhaseInv
<1>4. MultiInv'
  BY DEF LInv, Request, Return, TypeOK, Deleting, MultiInv
<1>5. AttachedInv'
  BY DEF LInv, Request, Return, TypeOK, Deleting, AttachedInv
<1>6. QueueInv'
  BY DEF LInv, Request, At, Return, Perform, NewDevice, HasIndex, TypeOK, PhaseInv,
       IndexInv, MultiInv, QueueInv
<1>7. DeleteInv'
  BY DEF LInv, Request, Return, Perform, NewDevice, HasIndex, TypeOK, PhaseInv,
       IndexInv, MultiInv, QueueInv, Deleting, DeleteInv
<1>8. MadeInv'
  <2>1. CASE UNCHANGED <<dev, issued>> \/ \E n \in Names : dev' = [dev EXCEPT ![n] = NULL]
    BY <2>1 DEF LInv, Request, Return, HasIndex, TypeOK, Deleting, MadeInv
  <2>2. CASE NewDevice(call[p].name, "other", FALSE, TRUE)
    BY <2>2 DEF LInv, Request, Return, NewDevice, HasIndex, TypeOK, PhaseInv, IndexInv, Deleting,
         MadeInv
  <2> QED
    BY <2>1, <2>2 DEF Request, Perform
<1>9. AimInv'
  BY DEF LInv, Request, At, Return, Perform, NewDevice, HasIndex, TypeOK, IndexInv,
       AimInv
<1> QED
  BY <1>1, <1>2, <1>3, <1>4, <1>5, <1>6, <1>7, <1>8, <1>9 DEF LInv

LEMMA RequestFailsStep ==
    ASSUME LInv, NEW p \in Procs, RequestFails(p)
    PROVE  LInv'
<1>1. TypeOK'
  BY DEF LInv, RequestFails, At, Return, Requests, Results, TypeOK
<1>2. IndexInv'
  BY DEF LInv, RequestFails, At, IndexInv
<1>3. PhaseInv'
  BY DEF LInv, RequestFails, At, Return, TypeOK, Deleting, PhaseInv
<1>4. MultiInv'
  BY DEF LInv, RequestFails, At, Return, Deleting, MultiInv
<1>5. AttachedInv'
  BY DEF LInv, RequestFails, At, Return, Deleting, AttachedInv
<1>6. QueueInv'
  BY DEF LInv, RequestFails, At, Return, HasIndex, PhaseInv, QueueInv
<1>7. DeleteInv'
  BY DEF LInv, RequestFails, At, Return, HasIndex, Deleting, DeleteInv
<1>8. MadeInv'
  BY DEF LInv, RequestFails, At, Return, HasIndex, Deleting, MadeInv
<1>9. AimInv'
  BY DEF LInv, RequestFails, At, Return, HasIndex, TypeOK, AimInv
<1> QED
  BY <1>1, <1>2, <1>3, <1>4, <1>5, <1>6, <1>7, <1>8, <1>9 DEF LInv

-----------------------------------------------------------------------------
(* Other programs.                                                         *)

LEMMA ForeignCreateStep ==
    ASSUME LInv, NEW n \in Names, ForeignCreate(n)
    PROVE  LInv'
<1>1. NewDevice(n, "other", FALSE, TRUE)
  BY DEF ForeignCreate
<1>2. TypeOK'
  <2>1. dev' \in [Names -> Devices \cup {NULL}] /\ issued' \in 0..MaxIndex
    BY <1>1, NewDeviceType DEF LInv
  <2> QED
    BY <2>1 DEF LInv, ForeignCreate, TypeOK
<1>3. IndexInv'
  BY DEF LInv, ForeignCreate, NewDevice, TypeOK, Devices, Indices, Unattached, IndexInv
<1>4. PhaseInv'
  BY DEF LInv, ForeignCreate, Deleting, PhaseInv
<1>5. MultiInv'
  BY DEF LInv, ForeignCreate, Deleting, MultiInv
<1>6. AttachedInv'
  BY DEF LInv, ForeignCreate, Deleting, AttachedInv
<1>7. QueueInv'
  <2>1. \A p \in Procs : fd[p] # NULL => fd[p] # issued + 1
    BY LinkAssumption DEF LInv, TypeOK, IndexInv, Indices, Unattached
  <2>2. \A p \in Procs, m \in Names :
           fd[p] # NULL /\ HasIndex(m, fd[p])' => HasIndex(m, fd[p]) /\ dev'[m] = dev[m]
    BY <1>1, <2>1 DEF ForeignCreate, NewDevice, HasIndex, LInv, TypeOK
  <2> QED
    BY <2>2 DEF LInv, QueueInv, ForeignCreate, HasIndex
<1>8. DeleteInv'
  BY DEF LInv, ForeignCreate, NewDevice, HasIndex, TypeOK, PhaseInv, IndexInv,
       MultiInv, QueueInv, Deleting, DeleteInv
<1>9. MadeInv'
  BY DEF LInv, ForeignCreate, NewDevice, HasIndex, TypeOK, PhaseInv, IndexInv,
       QueueInv, Deleting, MadeInv
<1>10. AimInv'
  BY DEF LInv, ForeignCreate, NewDevice, HasIndex, TypeOK, IndexInv, AimInv
<1> QED
  BY <1>2, <1>3, <1>4, <1>5, <1>6, <1>7, <1>8, <1>9, <1>10 DEF LInv

LEMMA ForeignDeleteStep ==
    ASSUME LInv, NEW n \in Names, ForeignDelete(n)
    PROVE  LInv'
<1>1. TypeOK'
  BY DEF LInv, ForeignDelete, TypeOK
<1>2. IndexInv'
  BY DEF LInv, ForeignDelete, IndexInv
<1>3. PhaseInv'
  BY DEF LInv, ForeignDelete, Deleting, PhaseInv
<1>4. MultiInv'
  BY DEF LInv, ForeignDelete, Deleting, MultiInv
<1>5. AttachedInv'
  BY DEF LInv, ForeignDelete, Deleting, AttachedInv
<1>6. QueueInv'
  BY DEF LInv, ForeignDelete, HasIndex, QueueInv
<1>7. DeleteInv'
  BY DEF LInv, ForeignDelete, HasIndex, Deleting, DeleteInv
<1>8. MadeInv'
  BY DEF LInv, ForeignDelete, HasIndex, Deleting, MadeInv
<1>9. AimInv'
  BY DEF LInv, ForeignDelete, HasIndex, AimInv
<1> QED
  BY <1>1, <1>2, <1>3, <1>4, <1>5, <1>6, <1>7, <1>8, <1>9 DEF LInv

-----------------------------------------------------------------------------
(* Theorems.                                                               *)

LEMMA InitStep == ASSUME Init PROVE LInv
<1>1. TypeOK
  BY LinkAssumption DEF Init, TypeOK, Results, Unattached
<1>2. IndexInv /\ PhaseInv /\ MultiInv
  BY LinkAssumption DEF Init, IndexInv, PhaseInv, MultiInv
<1>3. AttachedInv /\ QueueInv /\ DeleteInv /\ MadeInv /\ AimInv
  BY DEF Init, AttachedInv, QueueInv, DeleteInv, MadeInv, AimInv
<1> QED
  BY <1>1, <1>2, <1>3 DEF LInv

LEMMA NextStep == ASSUME LInv, [Next]_vars PROVE LInv'
<1>1. ASSUME NEW p \in Procs, Caller(p) PROVE LInv'
  BY <1>1, LinkNewStep, TunCreateStep, TunLinkCreateStep, TunLinkDeleteStep,
       TunLinkRefusedStep, LinkMessageStep, OpenStep, OpenFailsStep,
       SetIffStep, SetIffFailsStep, SetOwnerStep, SetPersistStep,
       CreateFailsStep, UnpersistStep, DeleteFailsStep, CloseStep,
       ReleaseStep, AddIndexStep, AddIndexFailsStep, RequestStep,
       RequestFailsStep DEF Caller
<1>2. ASSUME NEW n \in Names, ForeignCreate(n) \/ ForeignDelete(n) PROVE LInv'
  BY <1>2, ForeignCreateStep, ForeignDeleteStep
<1>3. CASE UNCHANGED vars
  BY <1>3 DEF vars, LInv, TypeOK, IndexInv, PhaseInv, MultiInv, AttachedInv, QueueInv,
              DeleteInv, MadeInv, AimInv, HasIndex, Deleting
<1> QED
  BY <1>1, <1>2, <1>3 DEF Next

(* The inductive invariant holds for any callers, names and number of      *)
(* links (link_data.c:565-598 with link_tun_tools.c:22-159).               *)
THEOREM LinkInvariance == Spec => []LInv
  BY InitStep, NextStep, PTL DEF Spec

(* Type correctness of link requests. *)
THEOREM LinkTypes == Spec => []TypeOK
<1>1. LInv => TypeOK
  BY DEF LInv
<1> QED
  BY <1>1, LinkInvariance, PTL

(* No path of a link request leaves a descriptor open (link_tun_tools.c:   *)
(* 47-89).                                                                 *)
THEOREM DescriptorsAreAccounted == Spec => []DescriptorsAccounted
<1>1. LInv => DescriptorsAccounted
  BY DEF LInv, PhaseInv, AttachedInv, DescriptorsAccounted
<1> QED
  BY <1>1, LinkInvariance, PTL

(* Which action takes a caller from its place in a call back to the start. *)
LEMMA PcOf ==
    ASSUME TypeOK, [Next]_vars, NEW p \in Procs, pc'[p] = "idle"
    PROVE  /\ pc[p] \in {"owner", "persist"} /\ ~Deleting(p) => CreateFails(p)
           /\ pc[p] = "close" => Close(p)
           /\ pc[p] = "request" /\ result'[p] = "ok" => Request(p)
<1>1. ASSUME NEW q \in Procs, Caller(q), q # p PROVE pc'[p] = pc[p]
  BY <1>1 DEF Caller, TypeOK, LinkNew, TunCreate, TunLinkCreate, TunLinkDelete,
       TunLinkRefused,
       LinkMessage, Begin, Goto, Return, Open, OpenFails, SetIff, SetIffFails, SetOwner,
       SetPersist, CreateFails, Unpersist, DeleteFails, Close, Release, AddIndex,
       AddIndexFails, Request, RequestFails
<1>2. ASSUME Caller(p), pc[p] \in {"owner", "persist"}, ~Deleting(p) PROVE CreateFails(p)
  <2>1. pc[p] # "idle" /\ pc[p] # "open" /\ pc[p] # "setiff" /\ pc[p] # "held"
        /\ pc[p] # "close" /\ pc[p] # "index" /\ pc[p] # "request"
    BY <1>2
  <2> QED
    BY <1>2, <2>1 DEF Caller, TypeOK, Ready, LinkNew, TunCreate, TunLinkCreate,
         TunLinkDelete,
         TunLinkRefused, LinkMessage, Begin, At, Goto, Open, OpenFails, SetIff, SetIffFails,
         SetOwner, SetPersist, Unpersist, DeleteFails, Close, Release, AddIndex, AddIndexFails,
         Request, RequestFails
<1>3. ASSUME Caller(p), pc[p] = "close" PROVE Close(p)
  BY <1>3 DEF Caller, Ready, LinkNew, TunCreate, TunLinkCreate, TunLinkDelete,
       TunLinkRefused, LinkMessage, Begin, At, Open, OpenFails, SetIff, SetIffFails, SetOwner,
       SetPersist, CreateFails, Unpersist, DeleteFails, Release, AddIndex, AddIndexFails,
       Request, RequestFails
<1>4. ASSUME Caller(p), pc[p] = "request", result'[p] = "ok" PROVE Request(p)
  BY <1>4 DEF Caller, TypeOK, Ready, LinkNew, TunCreate, TunLinkCreate, TunLinkDelete,
       TunLinkRefused, LinkMessage, Begin, At, Return, Open, OpenFails, SetIff, SetIffFails,
       SetOwner, SetPersist, CreateFails, Unpersist, DeleteFails, Close, Release, AddIndex,
       AddIndexFails, RequestFails
<1> QED
  BY <1>1, <1>2, <1>3, <1>4 DEF Next, vars, ForeignCreate, ForeignDelete

LEMMA FailureStep ==
    ASSUME LInv, [Next]_vars, NEW p \in Procs, NEW i \in Indices,
           pc[p] \in {"owner", "persist"}, pc'[p] = "idle",
           ~Deleting(p), ~call[p].multi, call[p].made = i
    PROVE  ~Exists(i)'
<1>1. CreateFails(p)
  BY PcOf DEF LInv
<1>2. fd[p] = i
  BY DEF LInv, PhaseInv, Indices
<1>3. ASSUME NEW n \in Names, HasIndex(n, i)
      PROVE  ~dev[n].persist /\ \A q \in Procs \ {p} : fd[q] # i
  BY <1>2, <1>3, LinkAssumption DEF LInv, MadeInv, QueueInv, Indices
<1>4. \A n \in Names : ~HasIndex(n, i)'
  BY <1>1, <1>2, <1>3 DEF CreateFails, CloseFd, HasIndex
<1> QED
  BY <1>4 DEF Exists

(* A mnlxt_tun_create() that fails leaves no device (link_tun_tools.c:     *)
(* 59-75).                                                                 *)
THEOREM NoDeviceIsHalfMade == Spec => NoHalfMadeDevice
<1>1. LInv /\ [Next]_vars =>
         [\A p \in Procs, i \in Indices :
             /\ pc[p] \in {"owner", "persist"} /\ pc'[p] = "idle"
             /\ ~Deleting(p) /\ ~call[p].multi /\ call[p].made = i
             => ~Exists(i)']_vars
  BY FailureStep
<1> QED
  BY <1>1, LinkInvariance, PTL DEF Spec, NoHalfMadeDevice

LEMMA DeletionStep ==
    ASSUME LInv, [Next]_vars, NEW p \in Procs, NEW i \in Indices,
           pc[p] = "close", Deleting(p), pc'[p] = "idle", fd[p] = i
    PROVE  ~Exists(i)'
<1>1. Close(p)
  BY PcOf DEF LInv
<1>2. ASSUME NEW n \in Names, HasIndex(n, i)
      PROVE  ~dev[n].persist /\ \A q \in Procs \ {p} : fd[q] # i
  BY <1>2, LinkAssumption DEF LInv, MultiInv, DeleteInv, QueueInv, Indices
<1>3. \A n \in Names : ~HasIndex(n, i)'
  BY <1>1, <1>2 DEF Close, CloseFd, HasIndex
<1> QED
  BY <1>3 DEF Exists

(* A mnlxt_tun_delete() that succeeds has deleted the device it opened     *)
(* (link_tun_tools.c:79-89).                                               *)
THEOREM DeletionDeletes == Spec => DeletedIsGone
<1>1. LInv /\ [Next]_vars =>
         [\A p \in Procs, i \in Indices :
             pc[p] = "close" /\ Deleting(p) /\ pc'[p] = "idle" /\ fd[p] = i => ~Exists(i)']_vars
  BY DeletionStep
<1> QED
  BY <1>1, LinkInvariance, PTL DEF Spec, DeletedIsGone

LEMMA ConfigurationStep ==
    ASSUME LInv, [Next]_vars, NEW p \in Procs,
           pc[p] = "request", pc'[p] = "idle", result'[p] = "ok",
           call[p].op = "NEWLINK", call[p].kind = "tun"
    PROVE  HasIndex(call[p].name, index[p])
<1>1. Request(p)
  BY PcOf DEF LInv
<1>2. PICK n \in Names : Addressed(p, n)
  BY <1>1 DEF Request, Perform
<1>3. index[p] # 0 /\ (HasIndex(n, index[p]) => n = call[p].name)
  BY DEF LInv, AimInv
<1> QED
  BY <1>2, <1>3 DEF Addressed

(* The link that a request for a TUN link configures has the name asked    *)
(* for (link_tun_tools.c:125-129, link_data.c:571-584).                    *)
THEOREM ConfiguresWhatWasAsked == Spec => ConfiguresItsLink
<1>1. LInv /\ [Next]_vars =>
         [\A p \in Procs :
             /\ pc[p] = "request" /\ pc'[p] = "idle" /\ result'[p] = "ok"
             /\ call[p].op = "NEWLINK" /\ call[p].kind = "tun"
             => HasIndex(call[p].name, index[p])]_vars
  BY ConfigurationStep
<1> QED
  BY <1>1, LinkInvariance, PTL DEF Spec, ConfiguresItsLink
=============================================================================
