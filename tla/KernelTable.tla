---------------------------- MODULE KernelTable ----------------------------
(***************************************************************************)
(* The kernel table a netlink request reads or changes (links, addresses,  *)
(* routes, rules, policies), and what of it a dump reports: the parse      *)
(* handlers of libmnlxt store an entry, skip it (MNL_CB_OK without a       *)
(* message, as for an unsupported address family) or fail on it.  They     *)
(* leave a remark about some they store, as a link of an unknown kind.     *)
(***************************************************************************)
CONSTANTS Clients,   \* callers, each in a call of its own
          Ids,       \* identifiers of table entries (interface index, ...)
          Vals,      \* contents an entry may have
          Reported,  \* contents the parse handler stores in mnlxt_data_t
          Noted,     \* contents stored with a remark in data->error_str
          Rejected,  \* contents the parse handler fails on
          Absent,    \* no entry under this identifier
          Dump       \* the request that asks for the whole table

Cells   == Vals \cup {Absent}
Tables  == [Ids -> Cells]
Changes == [id : Ids, val : Cells]
Objects == Ids \X Vals

ASSUME ContentsAssumption ==
    /\ Reported \subseteq Vals
    /\ Noted \subseteq Reported
    /\ Rejected \subseteq Vals
    /\ Reported \cap Rejected = {}
    /\ Absent \notin Vals

ASSUME DumpAssumption == Dump \notin Changes

(* What a dump of table t stores when nothing goes wrong. *)
View(t) == {o \in Objects : t[o[1]] = o[2] /\ o[2] \in Reported}

(* No entry of t makes the parse handler fail. *)
Readable(t) == \A i \in Ids : t[i] \notin Rejected
=============================================================================
