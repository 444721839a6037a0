# A formal model of libmnlxt

libmnlxt is a C library on top of libmnl: it lists, creates, changes, deletes
and watches the kernel's links, addresses, routes, rules (rtnetlink) and IPsec
policies (xfrm). This directory holds TLA+ modules that model it, TLC
configurations that check them on small instances, and proofs checked by TLAPS.
Paths below are relative to the root of the repository.

## 1. The system

| component | code | state | operations |
|---|---|---|---|
| request engine | `src/mnlxt_data.c`, `src/mnlxt.c` | one socket, one receive buffer and `mnlxt_data_t` per call | `mnlxt_request` (static) behind `mnlxt_message_request` and `mnlxt_data_dump`; connect, send, receive, parse, disconnect |
| message list | `src/mnlxt_data.c` | `first`/`last`/`next` pointers, payload ownership | `mnlxt_data_add/remove/clean/iterate`, `mnlxt_message_new/free` |
| handle interface | `src/mnlxt.c`, `core.h` | `nl`, `seq`, `error_str`, buffers | the same functions used one by one, with `poll()`, by a listener |
| rtnetlink dispatcher | `src/rtnl/rtnl.c` | static handler table | `mnlxt_rt_connect`, `_data_dump`, `_message_request`, `_message_new` |
| addresses, routes, rules | `src/rtnl/{addr,route,rule}*.c` | objects with property flags, strings on the heap | new, clone, free, setters, getters, compare, match, put, parse, request, dump |
| links and link kinds | `src/rtnl/link*.c` | the same, with nested kind data (vlan, xfrm, tun) | the same, and creation of TUN devices before a request |
| TUN devices | `src/rtnl/link_tun_tools.c` | descriptors, persistent devices | open, create, delete |
| xfrm dispatcher, policies | `src/xfrm/*.c` | handler table; policy objects with templates | as for rtnetlink |

How they interact. A typed request (`mnlxt_rt_addr_request`) wraps the caller's
object in a message, which lends the ownership of the payload to it; the
dispatcher sets the handler from its table; the engine calls the handler's
`put`, sends on a socket of its own, and loops over receive and parse until an
acknowledgement, an error or the end of a dump. Parsing goes through libmnl's
`mnl_cb_run()`, which answers control messages itself and calls
`mnlxt_data_cb()` for the rest; that calls the handler's `parse`, which adds a
message to the caller's list. There are no threads, locks or callbacks kept in
the library: concurrency is that of several processes and threads, each in its
own call, with one kernel.

What is hard here:

- an answer in several datagrams while others change the same table;
- failures at each of seven places of the engine, which must clean up and leave
  a reason;
- pointer surgery under iteration, and ownership that moves between caller,
  message and list;
- notifications that are lost, filtered, or refer to someone else's request,
  and sequence numbers that wrap;
- objects whose values and flags depend on the order of setters.

`PROJECT.json` lists each hazard at its line with the properties that cover it,
or the reason why none does.

What makes each part correct: the engine hands out one table the kernel had, or
an error that says what failed, and leaves nothing behind; the lists keep their
order and every message one owner; a handle reports what it has lost and never
mistakes an answer; an object that is sent to the kernel is the one that is read
back, whichever setters, clones and reads led to it, and its memory has one
owner; a payload has the type its getter gives it; a failed `mnlxt_tun_create()`
leaves no device behind. (`mnlxt_rt_link_tun_create()` and
`mnlxt_rt_link_request()` do: when the index of the new device is not found or
`RTM_SETLINK` fails, the persistent device stays.)

## 2. Modules

| module | models | kind |
|---|---|---|
| `KernelTable` | a kernel table, and which entries the parse handlers store, skip, remark on or fail on | shared definitions |
| `AtomicRequest` | what a caller of the engine may rely on | abstract specification |
| `NetlinkRequest` | the engine, several clients, the kernel | detailed, implements `AtomicRequest` |
| `MessageQueue` | what `mnlxt_data_t` promises | abstract specification |
| `MessageList` | the pointers and the ownership | detailed, implements `MessageQueue` |
| `EventFeed` | what a caller that listens may rely on | abstract specification |
| `NetlinkHandle` | one handle that listens and sends | detailed, implements `EventFeed` |
| `PropObject` | properties, flags, values, clone and comparison of any object | shared definitions |
| `ValueObjects` | what a caller may rely on of objects that own strings | abstract specification |
| `RtAddr` | address objects, labels on the heap, put and the steps of parse | detailed, implements `ValueObjects` |
| `RtRoute` | route objects, put, parse, and the kernel's routes | detailed |
| `RtRule` | rule objects, names of interfaces on the heap, put, parse | detailed, implements `ValueObjects` |
| `RtLink` | interface objects with the structures of the kinds, put, parse | detailed |
| `XfrmPolicy` | IPsec policy objects, selectors, put, parse | detailed |
| `Dispatcher` | the handler tables of the two buses, and the getters | detailed |
| `LinkRequest` | requests for links, TUN devices and their descriptors | detailed |
| `MCNetlinkRequest`, `MCLinkRequest`, `MCLinks` | symmetry sets and bounds for TLC | model checking |
| `MCObjects` | one behaviour of one of the six modules above at a time | model checking |
| `NetlinkRequestProofs`, `MessageListProofs`, `NetlinkHandleProofs`, `RtAddrProofs`, `LinkRequestProofs` | theorems about the module of the same name | proofs |
| `RtObjectProofs` | lemmas on flags, clones and comparison; theorems about `RtRoute`, `RtRule`, `RtLink` | proofs |
| `XfrmProofs` | theorems about `XfrmPolicy` and `Dispatcher` | proofs |
| `ObjectProofs` | programs that use objects of all types side by side | proofs |

### NetlinkRequest

A client goes through `mnlxt_request()` (mnlxt_data.c:46-92): `pc` is its place
in it. `Connect`, `Send`, `Receive`, `ReceiveFails`, `DataParse` and
`Disconnect` are the calls, each with its failures; `DataParse` is
`mnlxt_data_parse()` with the decision of the loop and the
`mnlxt_buffer_clean()` that follow it. `buf` and `heap` are the receive buffer
and the number of buffers allocated, `data` what the handlers have stored, `err`
is `data->error_str`, `reply` is rc. A change passes `data = NULL`
(mnlxt_data.c:107), so it has no `err`.

The kernel is external. It takes a request, acknowledges or refuses it, or
starts a dump whose passes visit any part of the remaining identifiers, as many
as fit into a datagram, and flags the first datagram after a change
(`NLM_F_DUMP_INTR`). `ForeignChange` changes any entry at any time. Contents of
entries are classes: stored, stored with a remark (a link of unknown kind,
link_data.c:323-329), skipped (another address family) and failing (an attribute
that does not validate).

Abstractions: sockets of requests block, so the "no data" branch
(mnlxt_data.c:76-80) is unreachable and left out; error codes in `NLMSG_DONE`
are ignored by libmnl and here; `mnlxt_data_t` is zeroed or cleaned before a
dump, as every caller in `tests/` does. When `mnlxt_connect()` fails, rc is -1
and nothing is recorded, which is why `ErrorReported` speaks of open sockets.

### MessageList

`first`, `last`, `next` and `payload` are the fields; `msgs` and `objs` what is
allocated; `held` and `owned` what the caller has to free. The loops of
`mnlxt_data_remove()` and `mnlxt_data_clean()` are stepped through (`call` keeps
their local variables), every other call is one step. `Ahead` are the messages
that a loop has in front of it; `LoopsAdvance` says that each of its steps
leaves fewer of them or ends it. Typed functions
(`mnlxt_rt_addr_new`, `_remove`, `_message`, `_request`) are the same code for
every payload and are modelled once. The caller obeys the interface: it adds
and frees only messages it holds, and does not continue an iterator it has
freed.

### NetlinkHandle

A thread connects, receives, parses and sends on one handle as
`tests/rtnl/rtnl_listen.c` does, either with the filter `mnlxt_receive()` has
put into the buffer or after resetting it (rtnl_listen.c:81-82). The kernel
queues notifications of any origin, of types with a handler and without, drops
them when the queue is full, and reports that once (ENOBUFS). A caller
disconnects after a failed receive, as every caller in the repository does.
Sequence numbers are `0..SeqLimit-1` and wrap; 0 means "no filter" to libmnl on
either side, as in `Passes`.

A buffer is the caller's: `mnlxt_disconnect()` closes the socket and leaves it as
it is, and the datagram in it can be parsed later, also after the handle is
connected again (`stale`). What it gives then is a notification of the connection
before, so that it counts neither as given nor as told in the new one. Or the
caller cleans it (`BufferClean`).

`EventFeed` has neither buffer nor queue nor drops: it gives numbered changes in
their order, and passes over one only after it has told the caller. `HandleIsFeed`
maps an open handle to an open feed, a failed one to a broken feed, what the
kernel has noted to what has happened, what the caller has got to what was given,
and the events that a failed receive or parse has reported to what was told; each
connection is a feed of its own.
Receiving, sending and dropping are stuttering steps of the feed.

### RtAddr

Objects are records with the set of flagged properties. Setters are operators
on an object (`WithAddr`, `WithLocal`, ...), actions apply them. Labels are
cells of a heap. `mnlxt_rt_addr_data()` is stepped through attribute by
attribute, since it may fail after each. Prefix length stands for the scalar
properties set and parsed alike. The kernel keeps IPv4 and IPv6 addresses as
Linux does: a local address and a label for IPv4, a local address that differs
from the peer's for IPv6. It computes flags and scope itself, which is why these
are not among the properties compared after a round trip.

`ValueObjects` has objects without memory: a slot's value changes only by a call
that names the slot, a clone is what the filter makes of its source at that
moment, and what is read is there at once or not at all. `AddrsAreValues` maps an
object to its content with the string its label points to (`AddrView`,
`Content`), and an object that is being parsed to none. A shared, freed or
overwritten string would be a value that changes although nobody touched it.
`RulesAreValues` is the same for the two names of a rule (`RuleView`).

### PropObject, RtRoute, RtRule, RtLink, XfrmPolicy

The four files `rtnl/route.c`, `rtnl/rule.c`, `rtnl/link.c` and `xfrm/policy.c`
repeat the same functions for a structure with one flag per property.
`PropObject` has them once: an object is a record of the flags that are set and
of the values in memory, which stay when a flag is not set (`Flag`, `Given`,
`Copied`, `Agree`, `Matches`). Each module adds what is its own: the setters that
check or set more than one property, the message that put makes (`...Message`),
the object that the parse handler makes of an entry of the kernel's (`...Of`),
and what the kernel makes or deletes for a message (`...MadeOf`,
`...DeletedBy`), which is external. A parse is one step here, since these objects
are not seen before they are stored; `RtAddr` has the steps. The setters of the
selector are operators that return the object as it was when they fail, since
the parse handler does not look at what they return.

| module | variables | actions | what stands for the rest |
|---|---|---|---|
| `RtRoute` | `route`, `routeRead` | `RouteNew`, `RouteSetFamily`, `RouteSetScalar`, `RouteSetDst`, `RouteSetGateway`, `RouteClone`, `RouteFree`, `RouteRead` | `TABLE` for type, protocol, scope, priority and the output interface; the gateway for the source; the input interface, which the kernel keeps of no route, is left out |
| `RtRule` | `rule`, `ruleNames` | `RuleNew`, `RuleSetFamily`, `RuleSetPrefix`, `RuleSetDst`, `RuleSetName`, `RuleClone`, `RuleFree`, `RuleRead` | the destination for the source; table, action, priority and mark are left out |
| `RtLink` | `link`, `linkAsked`, `linkLeft` | `LinkNew`, `LinkSetFlags`, `LinkSwitchFlags`, `LinkSetScalar`, `LinkSetKind`, `LinkSetVlan`, `LinkSetXfrm`, `LinkSetTun`, `LinkClone`, `LinkFree`, `LinkRead` | `MTU` for the scalars that are set, put and read alike and the hardware address; `MTU_MIN` for `MTU_MAX`, which put leaves out too; `"bridge"` for bonds; the TUN flag PI for all but PERSIST; name and index are in `LinkRequest` |
| `XfrmPolicy` | `policy`, `policyRead` | `PolicyNew`, `PolicySetFamily`, `PolicySetDst`, `PolicySetProto`, `PolicySetPort`, `PolicySetDir`, `PolicyClone`, `PolicyFree`, `PolicyRead` | the destination for the source; the direction for priority and action |

`routeRead` and `policyRead` remember the entry an object was read from, while
it is unchanged; `linkAsked` what the caller has asked for each flag of an
interface, and `linkLeft` which of `FLAGS` and `INFO` a clone's filter has left out
while memory has kept them. `ruleNames` is the heap. `link.info` is the union of the kinds'
structures: their flags are bits of one word, so that the VLAN identifier, the
interface of an xfrm interface and the type of a TUN device share one. A
structure of one kind that is read as another's has the value `Foreign`.

A clone has a filter, any set of properties. `mnlxt_rt_link_clone()` takes the
flags of the properties away that the filter leaves out, but copies the mask of
`FLAGS` and the structure of `INFO` with its flags (link.c:45). A setter that comes
later finds them: `link_clone` shows what goes wrong.
`LinkFlagsAsAsked` and `LinkInfoOwn` say what holds after such a clone and what
holds without one.

A TUN device is not made of a message, but what is asked for and what is read
meet in `LinkReadBack` as for other kinds: `DeviceFlags` are the flags of the
device that `mnlxt_rt_link_tun_create()` makes, always with PERSIST, and with or
without PI when the object has no flags (`tun_flags` is read uninitialised,
link_tun_tools.c:107). Its group is compared by its user (`ComparedBy`), as in
link_data_tun.c:51-54, so that `LinkReadBack` says nothing of groups.

What is assumed of the caller, because the code does not check it: no rule with
names is cloned (`CloneNamed = FALSE`); with `TRUE` the run `rule_clone` shows why.

What the round trips leave out, each named in the definition that does
(`RouteKept`, `RuleKept`, `LinkKept`, and the premises of `PolicyFound` and
`RouteFound`): objects that say what the kernel does not keep, such as a
destination without a prefix length or with an unspecified gateway, which
`mnlxt_rt_route_set_gateway()` takes and the kernel refuses or ignores; routes of
tables above 255 or with a type of service, for which the object has no place;
flags of a TUN device other than none or with PERSIST; a limit of the MTU that is
not the interface's, since it is not put; structures that are another kind's;
policies of sockets; ICMP types.

### Dispatcher

`handlers` is `data->handlers`, the table of the bus that the first buffer came
from or a dump was started for; `stored` the messages in the list, each with the
type its handler gave the payload and what the kernel had described; `used` the
bus for which the caller uses the `mnlxt_data_t`. `DispatchParse` is
`mnlxt_data_parse()` with `mnlxt_data_cb()`, which takes the table that is there.
The two buses share the numbers 19, 20, 21 and 25 among those with handlers, and
others that only the kernel sends. The caller uses one `mnlxt_data_t` for one bus
until it cleans it, as the programs in `tests/` do.

### MCObjects

A behaviour is one module's, picked at the start, so that the states of six
modules add up instead of multiplying. All six have their own variables; nothing
is shared but the constants. `ObjTypeOK` is the conjunction of the five modules'
type invariants. `ObjectProofs` has the behaviours TLC leaves out, those that
interleave the modules' steps (`Program`), and proves of them what is proved of
the modules.

### LinkRequest

A caller is in `mnlxt_tun_create()` or `mnlxt_rt_link_request()`
(link_data.c:565-598), which goes to rtnetlink (`LinkMessage`, `Request`) or,
for TUN links, through `/dev/net/tun` (link_tun_tools.c). `pc` is the next
system call: `Open`, `SetIff`, `SetOwner`, `SetPersist` or `Unpersist`, `Close`
and `AddIndex` are those that succeed, each with an action for its failure. `fd`
is the descriptor, `index` the one property of the object that a call changes;
the others are chosen when a call begins (`call`), which stands for all setters
before it. A descriptor after a failed `TUNSETIFF` is `Unattached`, as
`mnlxt_tun_open()` returns it. `tun_flags` is read uninitialised when the object
has no flags; `TunLinkCreate` takes either value of the only flag that the
kernel compares.

The kernel is external: a device has an index that is never used again, is of a
type, has one queue or several, and goes with its last descriptor unless it is
persistent. Requests over rtnetlink are atomic, as `AtomicRequest` promises, with
the answer possibly lost. Other programs create and delete links of the same
names. `owner` stands for user and group, which are set by the same code. A
caller that keeps a descriptor makes no other call; another one does.

## 3. Runs

| run | configuration | checks | distinct states |
|---|---|---|---|
| `request_dump` | 1 client, 2 identifiers, contents of three classes, 3 tables in a call, fairness | `TypeOK`, `SnapshotDump`, `NothingLeaks`, `ErrorReported`, `EveryCallReturns` | 306 000 |
| `request_clients` | 2 clients, 2 identifiers | `AcknowledgedChange`, `ImplementsAtomic` | 330 000 |
| `request_refused` | 1 client | `RefusalNamed`, violated | |
| `list_shape` | 2 lists, 3 messages, 1 payload, fairness | `TypeOK`, `ListShape`, `Ownership`, `IterationComplete`, `ImplementsQueue`, `LoopsAdvance`, `LoopsEnd` | 532 000 |
| `handle_events` | queue of 2, 2 events, 2 requests, 3 sequence numbers, fairness | `TypeOK`, `GapsReported`, `RightAnswer`, `HandleIsFeed`, `EventuallyTold` | 430 000 |
| `objects` | one module at a time: 2 objects where they own memory, 2 addresses, 2 tables, 1 port, 2 interface flags, no identifiers | `ObjTypeOK`; of addresses: `LabelsOwned`, `DumpedAsRequested`, `AddrsAreValues`; of routes: `RouteReadBack`, `RouteFound`; of rules: `RuleNamesOwned`, `RuleReadBack`, `RulesAreValues`; of interfaces: `LinkFlagsAsAsked`; of policies: `PolicyPorts`, `PolicyReadBack`, `PolicyFound`; of the two buses: `PayloadsTyped` | 186 000 |
| `links` | 2 identifiers, 1 MTU, 1 flag, every filter of a clone | `LinkInfoOwn`, `LinkReadBack` | 234 000 |
| `link_clone` | 1 identifier, 1 MTU, 2 flags | `LinkFiltered`, violated | |
| `rule_clone` | 2 rules, `CloneNamed = TRUE` | `RuleNamesOwned`, violated | |
| `policy_dump` | 1 policy | `PolicyDumped`, violated | |
| `link_requests` | 2 callers, 2 names, 2 links | `TypeOK`, `DescriptorsAccounted`, `NoHalfMadeDevice`, `ConfiguresItsLink`, `DeletedIsGone` | 2 100 000 |
| `link_descriptor` | the same | `DescriptorControls`, violated | |

Bounds and why they are enough.

- `MaxMoments` bounds the number of different tables there are during a call.
  Two identifiers and three tables suffice for a dump to see an entry before one
  change and another after a second one, which is what an inconsistent dump
  takes. It bounds a set, so that changes back and forth among three tables go on
  for ever, and `EveryCallReturns` is checked against them. The proofs have no
  such bound. In `request_dump` a content is stored with a remark (`strange`),
  skipped (`odd`) or failing (`bad`); one that is stored without a remark is in
  `request_clients`.
- Three messages make a first, a middle and a last one; two lists let a message
  move from one to another; a payload that is in the wrong place is noticed by
  the message that has it, for which one payload is enough.
- In `handle_events` a queue of two holds a datagram of no interest and one of
  interest; one event dropped and a later one stored is a gap. Two requests make
  one late answer; three numbers let the counter wrap to 0. A change that another
  socket's request has caused has no number, and one of a type without a handler
  has no origin, since the code looks at neither.
- In `objects` two objects are a source and a clone, or a request and its echo;
  three strings are one for each object and one for a label or a name that
  replaces another before it is freed. Properties are related by equality only,
  for which two values and the unset one are enough; a value that is special has
  a name of its own (`Zero`, the tables `"big"` and `"compat"`, the direction
  `"socket"`). Interfaces have two flags there, one that is asked for and one that
  is not, and no identifiers: `links` has two of those, which make a value that is
  lost or of another property visible. One MTU is enough for a limit that is the
  interface's or not given; all TUN flags but PERSIST behave as PI does. Two stored
  messages are one from before and one from after a change of the bus.
- In `link_requests` two callers share a device or compete for its name; two
  names and two indices let an object keep the index of a link while it asks for
  another. `MaxIndex` bounds the links ever created; the proofs have no bound on
  it.

Fairness. `NetlinkRequest`: weak fairness of the kernel's answers and of each
step of the client, none of new calls, failures or foreign changes; a blocking
`recvfrom()` returns when there is a datagram, and the kernel serves what was
sent. `MessageList`: a thread in a loop goes on. `NetlinkHandle`: `poll()`
reports a readable socket and the thread goes round its loop again; nothing is
assumed of notifications, sends or answers.

Every property of a passing run has a mutant: an operator beside the one it
replaces, marked `Mutant` in a comment, with a plausible bug that TLC catches.

### Findings

- `request_refused`: the code in `mnlxt_data_cb()` for error messages cannot
  run, because `mnl_cb_run()` does not pass control messages on. ChangeLog:47
  announces it as a feature; a dump the kernel refuses ends with
  `mnl_cb_run failed`.
- `link_descriptor`: `mnlxt_tun_open()` returns the descriptor after a failed
  `TUNSETIFF` (link_tun_tools.c:38-42), and `mnlxt_tun_create()` passes it on
  when nothing but flags is asked for. `DescriptorsAccounted` shows that every
  other call notices.
- `rule_clone`: `mnlxt_rt_rule_clone()` copies the pointers to the names of the
  interfaces (rule.c:47), which both objects then free. `rt_rule.h:352` advises
  to clone before the message is freed.
- `policy_dump`: a policy with templates, or one with a mark, fails to parse and
  ends the dump: the length of the templates is taken with the attribute's header
  (policy_data.c:374), and `mnlxt_xfrm_policy_set_mark()` sets four bytes of a
  property of eight (policy.c:366).
- `link_clone`: `mnlxt_rt_link_clone()` copies the whole structure and takes away
  only the flags of the properties that its filter leaves out (link.c:45-46). The
  mask of the flags stays, so that a flag switched later asks for all flags of the
  source, and so does the structure of the kind, which is read as another kind's
  after `mnlxt_rt_link_set_info_kind()`. `rt_link.h:143` calls the filter a data
  filter.

Three more defects are in the modules as they are in the code. No run shows them,
since a property that each of them breaks could only repeat one assignment:

- `mnlxt_rt_addr_set_local()` writes an IPv4 address to the field of the peer
  (addr.c:226; `WithLocal`), though rt_addr.h:189 says that it sets the local one:
  point-to-point addresses are read with their ends swapped. `DumpedAsRequested`
  excepts such addresses.
- The index of a new link is looked up by the name of an object that has just been
  given away (link_data.c:589), and so is not set as `rt_link.h:486` promises,
  except for TUN links (`Request` in `LinkRequest`).
- Two TUN devices' groups are compared by their users (link_data_tun.c:52;
  `ComparedBy`).

## 4. Theorems

All are proved for every value of the constants, from the assumptions on them in
the modules (`ContentsAssumption`, `DumpAssumption`, `NothingAssumption`,
`NullAssumption`, `RtAddrAssumption`, `RouteAssumption`, ...), which say that
special values differ from others; TLC evaluates each of them in a run.
`RtObjectProofs` proves the theorems about rules from `~CloneNamed` as well. In
what follows "inductive" means: true at the start, kept by every step, and
stronger than the properties named.

`NetlinkRequestProofs`. `IInv` is the inductive invariant (`Invariance`); from
it follow `TypeOK`, `SnapshotDump`, `AcknowledgedChange`, `NothingLeaks`,
`ErrorReported`, and the refinement `ImplementsAtomic`. `SnapshotDump` is not
inductive: what a dump has collected says nothing about a table before the last
datagram is parsed. The invariant's `DumpInv` therefore names, as long as no
datagram under way is spoilt by the interruption flag or an error, one table of
the call that explains all datagrams so far, those in the buffer and in the
inbox included, except for the identifiers left to visit; while the kernel has
not noted a change, that table is the present one. `PhaseInv` ties buffer,
socket and error to the place in `mnlxt_request()`, `ChangeInv` does so for
the answer to a change, `SeenInv` says that every entry was once in the table,
which a failed dump in `AtomicRequest` needs. The proof treats the client that
steps and the others apart (`ElsewhereInv`), and each part of the invariant in
its own lemma.

Two theorems are the parts of `EveryCallReturns` that need no fairness.
`AnAnswerComes` says that a client in the loop of `mnlxt_request()` never waits in
vain: its request is still to be served, its dump still to be continued, or a
datagram is there. It needs `WaitInv`: behind a datagram that does not end the
answer there is another one, or the dump goes on. `CallsDoAdvance` gives a call
that is under way a number (`Ahead`) that each of its steps lowers, that no other
client and no change of the table raises, and that is at most
`3 * Cardinality(Ids) + 8`; its one hypothesis is that the table is finite. Each
pass of a dump that is not the last one visits an entry, and an entry is visited
once. What is left to fairness is that the steps are taken.

`MessageListProofs`. `LInv` adds to `ListShape` and `Ownership` what a loop that
is under way knows (`CallInv`: `mnlxt_data_remove()` has walked past messages
none of which is the target) and what an iteration still owes (`IterInv`: it is
in front of the iterator). Lemmas say what `Append` and `RemoveAt` do to the
elements and the set of a sequence; `LinkShape`, `UnlinkFirstShape` and
`UnlinkShape` are the three pieces of pointer surgery. `IterationIsComplete` and
the refinement `ListsAreQueues` follow from the invariant. `LoopsDoAdvance` is
the part of `LoopsEnd` that needs no fairness: each step of a loop takes a message
out of `Ahead`, a set that is finite. It rests on `CallInv` and on the fact that a
list has no message twice: a walk that met one again would not get on.
`RemovesWhatIsListed` says that the walk comes to its target exactly if the list
has it, so that a message of another list is not unlinked from this one.

`NetlinkHandleProofs`. `HInv` is the inductive invariant. For `GapsReported` it
says that every notification is known, in the buffer or in the queue, and in
front of later ones (`PlaceInv`, `OrderInv`, `BufferInv`), as long as nothing was
dropped and no call has failed; once that happened, the caller is about to be
told, or was. For `RightAnswer` it says that the sequence numbers of requests and
answers under way count back from the handle's, with one wrap at most (`Behind`,
`SeqInv`); there are to be fewer requests than numbers, an assumption of
`NetlinkHandle`. `HandleGivesFeed` is the refinement: when `mnl_cb_run()` hands a
notification to its handler, `BufferInv` and `OrderInv` say that it is newer than
what the caller has got and that everything before it is settled, which is what
the feed demands of `Give`. A buffer that was left by the connection before is
exempt from `BufferInv`, and a stuttering step of the feed when it is parsed or
cleaned. `FailedInv` adds that nothing is left in the buffer of
a handle on which a call has failed. `EventsAreKept` is the part of
`EventuallyTold` that needs no fairness: a notification that the caller does not
know of is in the buffer or in the queue, unless a failure tells of it.

`RtAddrProofs`. `AInv` is `TypeOK`, `LabelsOwned` and the fact that an object
that is being parsed exists. Every action keeps the label of the slot it
touches, replaces it, or frees it with the object; each of the three is one
lemma (`KeepLabel`, `NewLabel`, `DropLabel`), and the lemma of an action only
says which one applies. `DumpedAsRequested` speaks of a message that is read to
its end; `DumpInv` adds, for every place in the message, what has been read
(`ReadSoFar`: header, address, local address, label), and that the object that
was requested is still there and has its label. `AttributeIsRead` carries it from
one attribute to the next, and `ReadIsRequested` draws the conclusion.
`AddressesAreValues` is the refinement of `ValueObjects`. Labels with one owner
make it work: a cell that is written or freed is pointed to by no other object
(`AInv`), so the view of every other slot stays. The abstract read happens where the parse
ends: `ReadingInv` names the entry that is being read, and says which of its
attributes the object has already (`ReadExactly`).

`RtObjectProofs` starts with what `Flag` and `Copied` do to a property and leave
alone, for any set of properties and values. `CloneAgrees` states what clone and
compare have to agree on, `MatchIsTransitive` that a pattern may stand for what
matches it; neither depends on a type of object. The rest, and `XfrmProofs`, say
with these lemmas which objects setters, clones and reads lead to: a route's
destination is not the default one (`RouteSound`), what an interface has not is
zero or left of another kind (`LinkSound`), what it has is of its kind unless a
filter has left `INFO` out (`LinkOwns`), a policy has no
port with a protocol that has none (`Sound`). The inductive invariants
`RouteInv` and `PolInv` add that what was read is the entry it was read from,
`LinkInv` that flags and mask are what was asked for, and no more unless a filter
has left `FLAGS` out (`FlagsAre`). The read-back
theorems then speak of a sound object and any entry that the kernel makes of its
message, property by property. `RouteIsFound` and `PolicyIsFound` need no setter:
they follow the parse of an entry and the put of the result.

`RtObjectProofs`, rules. `RuleInv` adds the heap: `Owned` is stated of a function
from slots to pointers, and each action is one of the changes to that function
that keep it. The invariant holds only if names are not cloned, for which
`rule_clone` has the counterexample. `RulesKeepValues` is the refinement of
`ValueObjects` under the same hypothesis, with two pointers in an object: no name
that a setter frees is another object's or the object's own other one.

`ObjectProofs`. `Program` interleaves the steps of the six modules of `MCObjects`,
which itself has only the behaviours that stay with one (`OneModuleIsAProgram`).
The lemma `ModulesStandAlone` says that such a program has a behaviour of each
module, which is so because they share no variables. `ObjectsTyped` and
`ObjectsKeepValues` are `ObjTypeOK`, the ownership of strings and the two
refinements for such programs.

`XfrmProofs`, dispatcher. `DInv` says that the table kept is that of the bus in
use, and that a message has what this table and the kernel say of its number
(`PayloadsAreTyped`), for lists of any length.

Only model-checked: liveness (`EveryCallReturns`, `LoopsEnd`, `EventuallyTold`),
which is out of TLAPS's reach; `AnAnswerComes`, `CallsDoAdvance`, `LoopsDoAdvance`
and `EventsAreKept` are what these properties add to the fairness of the steps.
Every safety property and every refinement of a passing run is proved. Not stated
as an abstract specification, and so neither checked nor proved as one: routes,
links and policies as values, since they own no memory that a second object could
share, and TUN devices, whose external half has more states than what a caller
relies on.

## 5. What is not modelled

- The lifetimes of an address, `CACHEINFO`: two setters under one flag (addr.c:69),
  in a structure the kernel fills with time stamps and counts down, so that what
  is read differs from what was put in any case.
- The templates and the mark of a policy beyond the fact that no object can have
  them: neither can be set, put or parsed (policy.c:366, policy_data.c:374).
- The bounds test of the handler tables, `nhandlers < type` (rtnl.c:79,
  xfrm.c:62): every call in the library passes a number of its own table.
- The input interface of a route, which `RTM_NEWROUTE` does not keep.
- Interfaces whose hardware address is not of 6 bytes end a dump
  (link_data.c:457): they are in `LinkEntries`, and `LinkParsed` leaves them out.
- The test programs, except for the loop of `rtnl_listen.c`: command line front
  ends without state.
- Formatting and printing, the build files and the symbol map, memory and byte
  layout of netlink messages (libmnl's work).
- A composition of `NetlinkRequest` with `MessageList`, where a dump fills a list:
  the two meet in `mnlxt_data_add()` only, which `MessageList` has as `Parse`;
  the engine counts what is stored.
