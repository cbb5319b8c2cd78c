# Verification of sr-ctrl, the SDN resolver controller

This directory holds TLA+ specifications of the controller in
`sdnres-src/sr-ctrl` and of the library it is built on (`sdnres-src/lib`), the
TLC configurations that check them, and TLAPS proofs. The rest of the repository
is measurement data, plots, scripts and vendored libraries.

## 1. Inventory

sr-ctrl keeps the topology of an IPv6 segment-routing network, receives flow
requests through an OVSDB database, computes a segment list for each and writes
it back to the database. Its threads:

| thread | code | what it does |
|---|---|---|
| main | `sr-ctrl.c` 1358-1462 | starts everything, then waits for the monitors to end and stops the rest |
| one monitor per table (NodeState, LinkState, FlowReq) | `srdb.c` ovsdb_monitor, `sr-ctrl.c` 732-1004 | reads row events from its own connection and runs the callbacks |
| workers (`worker_threads`) | `sr-ctrl.c` 570-730, 1078-1094 | take requests from `req_buffer`, answer them |
| netmon | `sr-ctrl.c` 1096-1326 | collects expired flows, synchronises the graph, recomputes flows |
| transaction workers (`ntransacts`) | `srdb.c` 1412-1473 | carry transactions to the database and results back |

| component | state | operations | interacts by | what is hard | correct when |
|---|---|---|---|---|---|
| sbuf (`lib/sbuf.c`) | ring, two wrapping counters, mutex, two semaphores | push, trypush, pop, trypop | shared memory | the test on the semaphore and the access are separate steps | it is a bounded FIFO and the head is taken |
| network state (`struct netstate`) | staging and active graph, dirty flag, two instants, routers, prefixes, two rwlocks | nodestate_read, linkstate_read/update/delete, netstate_graph_sync | monitors, netmon and workers share it | unlocked reads, two locks, copy/swap/clear in three critical sections, unsigned time differences | the active graph is a consistent, eventually current copy |
| flows (`_cfg.flows`) | map from binding segment to flow, reference counts, rows of FlowReq and FlowState | process_request, gc_flows, recompute_flows | workers and netmon, under ns->lock and the map's lock | freeing, expiry during commit, graph changes during a computation, failing transactions | flows follow the graph, rows follow flows, nothing is used after it is freed, requests are answered |
| transactions (`lib/srdb.c`) | buffer of transactions, a connection and a pending transaction per worker | srdb_update_sync, srdb_insert_sync, srdb_destroy | callers block on the result | streams have no message boundaries, echo requests, connections end | every caller gets its own result, once |
| monitors (`lib/srdb.c`) | receive buffer, callbacks, initial-read semaphore | ovsdb_monitor, srdb_read | callbacks above | framing, order of tables, stop while idle | every row event is delivered once and in order |
| graph algorithms (`sr-ctrl/graph.c`) | minimal edges, cached shortest paths | graph_finalize, graph_dijkstra, graph_minseg, build_segpath | called by workers and netmon | 32-bit sums, parallel links, pruned graphs | the segments make a packet follow the path |
| lpm, hashmap, llist, arraylist (`lib`) | containers | insert, lookup, delete | called under their users' locks | order of insertions, node splits | they are maps |
| rules (`sr-ctrl/rules.c`) | list of rules | load_rules, match_rules | called by workers | precedence | the rule that applies is found |
| srdns (`lib/srdns.c`) | a lookup in progress | name resolution, walk over the SRH | c-ares callbacks | bounds of the walk | all segments are examined |
| SR cycle monitor (`scmon-data/probe3.py`) | per-cycle state machine | transmitter, receiver, monitor threads | one lock per cycle | lost and late probes, 16-bit counter | a broken cycle is reported, a working one is not |
| start-up and shutdown | order of thread creation and joins | main, launch_srdb, srdb_destroy | semaphores, NULL elements | a thread that never hears of the stop | the process ends |

## 2. Modules

| module | models | how its state and actions correspond |
|---|---|---|
| `BoundedFifo` | what sbuf promises | abstract: a sequence and one register per thread; `Load`, `Put`, `Take` |
| `Sbuf` | `lib/sbuf.c`, `lib/sbuf.h` | a program counter per thread; one action per operation on a semaphore or the mutex; `Incr`, `Diff` are unsigned arithmetic modulo 2^Width, `Mask` is the bitwise and |
| `RwLock` | POSIX rwlock (external) | sets of readers and writers |
| `NetState` | `struct netstate`, the row handlers, `thread_netmon` up to the swap | a step ends where a lock is taken or released, and where netmon reads `dirty`, `gs_mod` or `gs_dirty` without a lock. Instants are kept as ages |
| `FlowTable` | `process_request`, `gc_flows`, `recompute_flows` | a step ends where ns->lock is taken or released and at each database transaction; a critical section of the flow map is one step |
| `SrdbTransact` | `srdb_*_sync`, `transaction_worker`, `srdb_destroy` | the two kinds of buffer are sequences, which `SbufProofs` justifies; the server is part of the environment |
| `MonitorStream` | `ovsdb_monitor`, `srdb_read`, and `srdb_monitor`, `srdb_monitor_join_all`, `srdb_destroy` as far as one monitor is concerned | a step is one `recv`, one `json_loadb` with the callbacks it leads to, or the removal of what was parsed; `buf`, `curBuflen`, `jpos` are the code's, a byte knows its message and its position in it |
| `Lifecycle` | `main` from `srdb_new` on, `launch_srdb`, the joins, the stops and what is freed | composes the threads of the modules above, each reduced to what the order of start and stop depends on; `main` is a program counter over the lines 1358-1462 |
| `SegPath` | `graph_dijkstra`, `graph_minseg`, `build_segpath` | one iteration of the search and one hop of the encoding per step; `Walks` (which ways a packet may take on a list of segments) and `Distance` (Bellman's equations) are the references |
| `Lpm` | `lib/lpm.c` | insertions and deletions are one step each; `heap` holds the nodes at their addresses, with `parent` and `kids` as the code links them; one walk is `Descend`, one call of `optimize_virtual` is `Optimise`; `table` is the reference |
| `CycleMonitor` | `scmon-data/probe3.py` | one step per pass of a thread over a cycle, which it makes under the cycle's lock |
| `SbufProofs`, `NetStateProofs`, `FlowTableProofs`, `SrdbTransactProofs`, `MonitorStreamProofs`, `LifecycleProofs`, `CycleMonitorProofs`, `SegPathProofs` | | the inductive invariant of each module, and its theorems (section 4); those about `Lpm`, the tree of `ns->prefixes`, are in the second half of `NetStateProofs` |
| `MCSbuf`, `MCNetState`, `MCFlowTable`, `MCSrdbTransact`, `MCMonitorStream`, `MCLifecycle`, `MCSegPath`, `MCLpm`, `MCCycleMonitor` | | instances for TLC |

`Sbuf` implements `BoundedFifo`; `NetState` and `FlowTable` use `RwLock`.
`SrdbTransact` and `Lifecycle` take their buffers as sequences, which
`SbufProofs` justifies. The callbacks that
`MonitorStream` calls are the handlers of `NetState` and the push of a request of
`FlowTable`; the choice of a route that `FlowTable` leaves open is `SegPath`.

An operator under a comment "Mutant" is a wrong version of the definition that
follows it. It is used by nothing; substituted for that definition it breaks
the property named in `PROJECT.json`, which shows that the property depends on
that line of the code.

Abstractions worth knowing:

* `NetState`: a link is the address pair of its row with two directed edges;
  `bw`, `ava_bw` and `delay`, which every handler treats alike, are one
  attribute. Allocation does not fail. `overtaken` is a history variable.
* `FlowTable`: the result of `build_segpath` is any usable route of the request,
  or failure if there is none; segments are the route they encode. The routers
  and the graph change as `NetState` allows. A transaction is one step; with
  `MayFail` it may fail. `expiredEarly` and `failed` are history variables that
  the properties use to name their exceptions.
* `SrdbTransact`: `Recv` says how `recv` may cut the stream; `lost` records that
  it swallowed a message.
* `MonitorStream`: JSON is a message of `Size[kind]` bytes that parses when all
  of it is in the buffer and `jpos` is at its start. A callback that fails is one
  of a row in `BadRows`. `dropped`, `skipped` and `silent` are history variables
  for bytes discarded unparsed, rows not handed over, and an error reply.
* `Lifecycle`: a transaction is named by the thread that waits for it. A transaction
  worker that finds the server down ends at once (`TrConnect`); it has one
  transaction pending at a time, and its result arrives whole (`Reply`, `Fetch`; the
  cuts of `recv` are in `SrdbTransact`). When the server has closed, what is pending
  stays so, a send succeeds without effect or fails and ends the worker
  (`TakeTransaction`), and `poll` may report an error (`PollFails`). All
  connections end together. `refused` records a failed monitor connection or launch.
* `SegPath`: an edge's place in the code's list is its `id`, which decides ties
  as the list's order does. The shortest paths of the full graph, which the code
  caches per node, are a function of it.
* `Lpm`: bits of a node's prefix behind its length are never compared and not
  kept; those of an announced address are, since `lpm_insert` reads one. Which
  free address `malloc` returns is fixed (`Fresh`), since no operation depends on
  it. `Depth` bounds the walks by the number of nodes and `Calls` the recursion of
  `optimize_virtual` by three; theorem `LpmLoopsEnd` says that they cut nothing
  short. `skewed` records that a node was
  put in a slot that is not its own.
* `CycleMonitor`: instants are ages in units of T1, capped where no comparison
  tells them apart. `late` records that an answer of an earlier round was
  counted, `answered` the segments that answered in this round.

## 3. What TLC checks

| run | instance | shows |
|---|---|---|
| `sbuf` | 2 pushers, 2 poppers, 2 slots, 2-bit counters, 2 elements | `NoOverrun`, `NoGarbagePopped`, refinement of `BoundedFifo`, `HeadIsTaken` |
| `netstate` | 2 routers (one arrives late), 1 link, 2 metrics, 1 worker, 3 events | `NoTornGraph`, `RoutersAreStaged`, `SyncedUnlessOvertaken`, `GraphIsStableForReaders`, `CallbacksReturn`, `DirtyIsSynced` |
| `flows` | 2 requests (one with a ttl), 2 workers, 2 links, 2 binding segments, 2 swaps of the graph, 2 seconds, failing transactions | `FlowsFollowGraph`, `NoUseAfterFree`, `BsidsAreUnique`, `RowsFollowFlows`, `AllowedHasRow`, `AnsweredOnce` |
| `flows_live` | 1 request to serve and 1 to deny, 2 workers, routers that arrive late and may be removed | `RequestsAreAnswered` |
| `transactions` | 2 callers with 2 calls each, 2 workers, 1 echo request each, connections that fail | `NoDanglingTransaction`, `OwnResult`, `CallsReturn`, `DestroyEnds` |
| `monitor` | a table of 2 rows, one refused by its callback; a buffer of 4 units that grows to 8; messages of 2 and 3 units | `ViewCatchesUp`, `InitialBeforeReturn`, `StopIsHonoured`, `LostIsAborted` |
| `lifecycle` | 2 routers, 2 links, 2 requests, 2 workers, 2 transaction workers, a request buffer of 2, a server that is late, does not answer or goes away | `InitialLinksAreKept`, `NothingIsFreedInUse`, `HandedOverIsAnswered`, `MainReturns` |
| `segpath` | 648 graphs of 4 routers, 5 requests | `SearchIsExact`, `PathIsPinned`, `GrantedBandwidth`, `RefusedIffCut` |
| `lpm` | the canonical prefixes of at most 3 bits, 2 values, at most 3 entries | `LongestUnlessSkewed`, `NoIdleNode`, `TreeIsLinked`, `AssertionsHold` |
| `cycle` | 2 segments, probe numbers of 0 to 2, 2 probes under way | `MonIsEarned`, `ReportedIsNearest`, `BreakIsReported` |

Type correctness is no property of a run: `TypeOK` is a theorem of every module that
has one, and in `SegPath` and `Lpm` the types are a part of the inductive invariant
(section 4).

What the properties except. Several hold but for a case the code does not
protect, which the property names instead of leaving it out of the model:
`SyncedUnlessOvertaken` a change staged during a synchronisation (`overtaken`);
`NoUseAfterFree` a flow whose ttl runs out while its commit still waits
(`expiredEarly`); `RowsFollowFlows` a flow one of whose updates failed (`failed`);
`CallsReturn` a result that was swallowed or a connection that ended (`lost`);
`ViewCatchesUp` a byte the end of the loop drops and rows behind a failed
callback (`dropped`, `skipped`); `InitialLinksAreKept` refused connections and
`NothingIsFreedInUse` failed launches; `MainReturns` a thread left without the
result of its transaction (`Unanswered`): `main` joins that thread (`sr-ctrl.c` 1440,
1444) and waits with it; `PathIsPinned` links that stray (`Strays`)
and `GrantedBandwidth` bundles whose links differ; `LongestUnlessSkewed` a
misplaced node (`skewed`); the two reports of `CycleMonitor` answers counted a
round too late (`late`). In each of these cases a counterexample exists: removing
the exception makes the property fail.

Bounds. Two slots and two-bit counters make the ring fill, empty and the
counters wrap. Three row events are enough for a router to arrive, its link to
be added and that link to be updated, removed or announced again; the delay
constants are scaled down (Soft 0, Hard 1) since only their order and the
comparison matter. Two swaps of the graph build a first graph and change it
under a flow. Two seconds let a ttl of one run out. Workers and binding segments
are interchangeable in `flows`, which uses that symmetry. In `monitor` a
message of three units fits a buffer of four only if what precedes it is
removed, so that the buffer fills, is shifted, doubles and reaches its limit;
messages are cut at every unit. In `lifecycle` two NULL elements and a buffer of
two make main wait for the workers while they wait for transactions, and a
link handled before its second router needs two routers. In `segpath` four
routers are the fewest with equal-cost paths of two hops and a detour around
them; metrics are 1 or 3, so that one hop can equal, beat or lose against three,
and every sum stays below `Infinite`. In `lpm` three entries of three bits
lead to virtual nodes with entries and virtual nodes below them, to merges and to a
removal after which the parent is merged. The run goes on after a node was
misplaced. Only then does `optimize_virtual_plen` lengthen a node: insert 01, then 0,
which hangs 01 in slot 0 (233), then 010 and delete 0. The prefixes are canonical, as
in the repository's topologies; bits behind a prefix's length would put
other nodes in the wrong slot, which the theorems cover. The two values, which no
operation tells apart, are symmetric. `lpm_order` has a fourth entry, which the wrong
answer needs. In `cycle` three
probe numbers wrap with every third probe and two segments suffice for a break
in front of or behind a segment that answers; the ages are capped.

Deadlock is checked in `sbuf`, `netstate`, `cycle` and `lpm`; in the other passing runs
the system stops legitimately: when the bounded supply of requests and events is
used up, after `srdb_destroy` or when main has returned, and when a path has been
computed.

Two runs end in a violation, each a disagreement between the code and a line of
the repository (details in `PROJECT.json`, findings; others in section 5):

| run | property | what happens |
|---|---|---|
| `lost_update` | `ChangesReachActive` | a change staged between netmon's copy (164) and its clearing of `dirty` (184) is not synchronised |
| `lpm_order` | `LookupIsLongest` | a prefix inserted in front of a longer one hangs it in a slot chosen by the wrong bit (233); a later insertion then hides an entry |

Fairness. Weak fairness of each thread's own steps: the scheduler runs every
thread that is not blocked. `Sbuf`: the poppers loop on the buffer
(`thread_worker`, `transaction_worker`), hence weak fairness of `PopCall`; nothing
is assumed of pushers' decisions to push. `NetState`: time passes. Nothing is assumed
of the order in which a lock is granted; the number of times a worker takes
ns->lock is bounded, because a continuous succession of overlapping readers
can keep a writer out (glibc's default rwlock prefers readers) and no fairness
of the code excludes it. `SrdbTransact`: the server answers what it receives.
`MonitorStream`: an idle connection receives echo requests, as ovsdb-server's do;
without them a stop is not looked at (`srdb.c` 203). `Lifecycle`: every thread,
nothing of the server, which may stay down, leave a transaction unanswered or never
close; nor is an error of `poll` on a closed connection promised. `CycleMonitor`: the
three threads loop and time passes; nothing of the network. `SegPath` and `Lpm`
are sequential and state no liveness. None of it is used for safety properties.

## 4. What is proved

Each proof module extends the module it is about, strengthens the properties to
an inductive invariant `IInv`, proves that the initial states satisfy it and that
every action preserves it (one step per action, under it one per conjunct the
action can disturb), and draws the properties from it. All hold for every value
of the constants that the named assumptions allow.

`SbufProofs`, for any finite sets of threads, any elements, any word width and
any capacity that satisfies `MaskAssumption` (consecutive counters fall into
different slots, which is the case for powers of two):

* `SbufInvariant`: the inductive invariant `IInv`. `NoOverrun` is not inductive:
  that a pusher finds a free slot after it took the mutex depends on every other
  thread that has passed a semaphore and not yet moved a counter. The
  strengthening is two conservation laws, `EmptyAccounting` and
  `FullAccounting`, that count the threads at each label, together with `MutexInv`
  and `RingHoldsElements`. Lemmas `MoveCounts` and `GotoCounts` say how a step of
  one thread changes such a count; `WordFacts` and `StoreSlotIsFree` are the
  arithmetic of wrapping counters and the mask.
* `SbufTypes`, `SbufNoOverrun`, `SbufNoGarbage`: `TypeOK`, `NoOverrun` and
  `NoGarbagePopped` of every behaviour.
* `SbufRefinesFifo`: `Spec => FifoSpec` under the mapping of `Sbuf`. A store is a
  `Put` (lemma `StoreAppends`), a load a `Take` (`LoadTakes`), a call a `Load`, and
  every other step leaves the queue alone.

`NetStateProofs`, for any routers, links, workers, timeouts and row events:
`TypeCorrect`, `CopiesAreWhole` (`NoTornGraph`), `RoutersStayStaged`
(`RoutersAreStaged`), `SyncLosesOnlyOvertaken` (`SyncedUnlessOvertaken`) and the
action property `ReadersSeeOneGraph` (`GraphIsStableForReaders`). None of them is
inductive: a step that copies, marks or swaps is harmless only because of who
else can be where. `IInv` therefore says which thread holds which lock, and how,
at each label (`StagingLockInv`, `NsLockInv`), what each handler works on
(`EventInv`), that the staging graph is torn only between two steps of the
LinkState handler under its lock (`StagingInv`), and what holds from netmon's copy
to its clearing of `dirty` (`WindowInv`).

The second half of `NetStateProofs` is about `Lpm`, for any width of addresses, any
announcements, any values and any number of entries, from `LpmAssumption` alone
(the announcements are addresses with a length; no value is NULL or -1):
`LpmNoIdleNode` (`NoIdleNode`), `LpmTreeIsLinked` (`TreeIsLinked`),
`LpmAssertionsHold` (`AssertionsHold`), `LpmLongestUnlessSkewed`
(`LongestUnlessSkewed`) and `LpmLoopsEnd`. None of the properties is inductive. The
invariant `LpmInv` has three layers:

* `Linked` and `BusyBut(heap, {})` hold of every tree, also of one in which nodes are
  in wrong slots: the nodes are typed, the head is never virtual, children and
  parents agree, every node hangs in one slot of its parent, and some numbering
  grows from parent to child, so that there is no cycle (`Ranks`). Within a
  deletion one node may be idle: `BusyBut(h, {node})` for the node of the next
  call of `optimize_virtual`. After the first call that node has a child, if virtual
  (`Half`); after the second nothing is idle (`OptimiseKeeps`), so that the third can
  only lengthen a node and is the last (`RunEnds`). Walks end by counting: each step
  goes to a node of a higher rank, so that after as many steps as there are nodes
  there is none left (`WalkEnds`).
* `Shaped` holds of every tree as well: the prefix of a node begins with its
  parent's (`Nested`), only the head's is empty, and the children of the head hang in
  the slots of their first bits (`FirstBits`). A misplaced node hangs in a wrong slot
  and nothing worse. This is why no assertion of `lpm.c` fails: the
  walk of `lpm_insert` ends at a part of the prefix, and below the head, where that
  part is empty, the slot vouches for the first bit (lemmas `Entrance` and `Shares`);
  two children of a node have at least their parent's prefix in common (`CommonPart`).
  A deletion keeps it since prefixes only grow and the head keeps its children or
  loses one (`ShrunkShaped`), an insertion by lemma `InsertedShaped`.
* `~ Misplaced` and `Stores` hold until `skewed` is set: the bit of a node behind its
  parent's prefix is its slot, and the entries are those of the table. Lookups are
  right because of `AllVisited`: every node that is a part of the address is met by
  the walk (by induction over its length, as a node's parent is met before it), so
  that the walk ends at the longest of them (`DescendFinds`); an exact walk,
  likewise, ends at the node with the prefix, or where it belongs (`ExactFinds`).

Each helper that writes the heap has a lemma that says what it writes (`LinkIs`,
`BelowIs`, `BetweenIs`) and one that it keeps the invariant (`LengthenKeeps`,
`MergeKeeps`, `RemoveKeeps`, `SpliceKeeps`). The proof shows what the defect of
`lpm_order` costs: of `Splice` everything is proved but that the slots fit, and that is
the only part of the tree's invariant that an insertion can lose; what is lost with
it are answers of lookups, not the tree, and not the controller to an assertion.

`FlowTableProofs`, for any requests, routes, binding segments and workers:
`NoFlowEscapes` (`FlowsFollowGraph`), `FreedIsUntouched` (`NoUseAfterFree`),
`BsidsStayUnique`, `RowsAreTrue` (`RowsFollowFlows`), `AllowedIsInserted`
(`AllowedHasRow`), the types, and the action property `OneAnswer`
(`AnsweredOnce`). The argument follows a flow: one worker works on a request
(`WorkInv`), the flow is in no table until its path is computed (`FreshInv`), the
graph is not swapped while the worker holds ns->lock (`LockInv`), so that what it
inserts follows the active graph and netmon never lists a flow that a worker
holds (`FlightInv`); netmon's references are those of its list (`TodoInv`). Lemma
`Recomputed` shows in passing that the branch of `recompute_flow` that orphans a
flow is never taken, for any constants: no node ever leaves the active graph.
`MCOrphan` (section 5) is the instance of it.

`SrdbTransactProofs`, for any callers, workers, numbers of calls and ways in which
`recv` cuts a stream: `NothingDangles` (`NoDanglingTransaction`), `ResultsAreOwn`
(`OwnResult`) and the types. `OwnResult` needs that a transaction is in one place:
in the buffer, with one worker, or back with its caller (`BufferInv`, `WorkerInv`,
`ResultInv`), and that a connection carries at most the pending transaction or
its result (`ConnectionInv`), since the worker never looks at the id.

`MonitorStreamProofs`, for any table, any sizes of the messages and of the buffer
and any cuts of the stream: `EveryEventIsTold` (`ViewCatchesUp`), the action
property `ReadBeforeReturn` (`InitialBeforeReturn`) and the types.
`ViewCatchesUp` constrains the state by what the unparsed bytes would lead to;
it is preserved because buffer and wire are one stream of whole messages, in
front of which only the tail of one message can have been consumed (`FrameInv`),
and those messages lead from `view` to `rows` (`ViewInv`). Each action either moves
the border between buffer and wire, takes a message from the front or appends one
at the end. `StreamAssumption` asks for finitely many rows (they are sent in some
order) and for a buffer limit that repeated doubling of `JSON_BUFLEN` meets
exactly (4096 and 8M: `Doublings`); with another limit the buffer could outgrow
it (`srdb.c` 264-270).

`LifecycleProofs`, for any contents of the database, any number of workers and
any sizes of the buffers: `LinksAreKept` (`InitialLinksAreKept`), `FreedIsUnused`
(`NothingIsFreedInUse`), `NoRequestIsLeft` (`HandedOverIsAnswered`) and the types.
The invariant is a map from the place of `main` to which threads are alive and
which NULL elements have been pushed (`MainInv`, `EndInv`, `NullsInv`), together
with where a request can be (`HeldInv`). `LifecycleAssumption` asks for at least
one worker of each kind, as `load_config` does (`sr-ctrl.c` 1028-1036 replaces 0
by 1): without workers a full buffer would block `main`.

`CycleMonitorProofs`, for any number of segments, probe numbers and threshold:
`SilenceIsEarned` (`MonIsEarned`), `ReportsNameNearest` (`ReportedIsNearest`) and
the types. The report is right because of what a round of dprobes has gathered so
far (`RoundInv`); `TypeOK` says that `tmp_up` is never all segments between two
steps, so that the report has a least silent segment to name.

`SegPathProofs`, for any graphs, way points and bandwidths: `DistancesAreShortest`
(`SearchIsExact`), `RefusalsAreRight` (`RefusedIffCut`), `PathsArePinned`
(`PathIsPinned`) and `BandwidthIsGranted` (`GrantedBandwidth`), under hypotheses
that the theorems name. `NoWrap`: some bound on the costs of links, times the number
of nodes, stays below `UINT32_MAX`, without which the code's sums wrap and its
distances are wrong. `PositiveCosts`, for all but `RefusalsAreRight`: no link that is
routed by costs 0; metrics never are (`sr-ctrl.c` 852, 936), a delay may be, and
then a node extracted later can be an equal-cost predecessor that the list lacks.
`MCSegPath` assumes both, so that TLC evaluates them on its graphs. `SearchIsExact`
speaks of extracted nodes only and does not follow from itself. The invariant
compares the search with Bellman's equations: an extracted node is no farther than
any other (`OrderInv`) and its links are relaxed (`RelaxedInv`), so that no walk of
any length is shorter (lemma `NoWalkIsShorter`, by induction over the length); the
distances after n extractions are at least those of the walks of n links
(`UpperInv`); sums stay small (`SmallInv`); and the predecessors attain the
distance (`PrevInv`).

The segments pin the path because of a second invariant, `Pins`: the segments so
far lead a packet along the computed way to the root `node_r` and nowhere else,
and from the root one shortest path of the full graph, the rest of the way, leads
to where `graph_minseg` is (`Led`); every hop of the way has the bandwidth and, on
the graph and measure the routers use, does not stray (`WayInv`). It needs that the
cached searches are exact (`DijkstraEnds`, from the same lemmas as
`SearchIsExact`), that a node with one predecessor has the shortest paths of the
predecessor and one node more (`OnePredecessor`), the equations of the recursive
functions `ShortestPaths`, `Walks` and `Way` (`PathsAre`, `WalksGrow`, `WayGrows`),
and what the three outcomes of `graph_minseg` say about predecessors (`HopIs`). On
the graph and measure of the routers a hop never strays, since its start
attains the distance of its end (`NotStray`). TLC checked `Pins` on the instance
of `MCSegPath` before it was proved.

Induction. The library's induction theorems take an operator as a parameter and
cannot be used; where a proof needs induction over the naturals (the positions
of a stream, a least segment) it takes a smallest counterexample instead (lemma
`LeastExists`, from the well-foundedness of `<`).

Only model-checked: the liveness properties, which are beyond the prover
(`HeadIsTaken`, `CallbacksReturn`, `DirtyIsSynced`, `RequestsAreAnswered`,
`CallsReturn`, `DestroyEnds`, `StopIsHonoured`, `LostIsAborted`, `MainReturns`,
`BreakIsReported`), and the two runs that end in a violation. Every other property
of a passing run is a theorem.

## 5. Disagreements outside the runs

Met while modelling; each configuration reproduces one with
`tlc -config <cfg> <module>` and ends in the violation named.

| configuration | module | property | code | what the repository says |
|---|---|---|---|---|
| `MCDebounce.cfg` | `MCNetState` | `DebounceRespected` | a modification after netmon read the clock makes `getmsdiff` wrap, and the graph is synchronised at once (`sr-ctrl.c` 1310) | comment 1298: only after a soft or hard timeout |
| `MCDirections.cfg` | `MCNetState` | `DirectionsAgree` | `link2 = edge->data` (929): an update reaches one direction of a link | the lines 917-929 look the second direction up |
| `MCOrphan.cfg` | `MCFlowTable` | `RemovedRouterOrphansFlows` | NodeState is monitored without a delete callback (1334), so no flow is orphaned | comment 1120: flows are orphaned when a router's node is removed |
| `MCEcho.cfg` | `MCSrdbTransact` | `EchosAreHarmless` | one `recv` parses one message (`srdb.c` 1370): a result behind an echo request is dropped, and its caller waits | comment 1381: "echo, and if pending, transaction result" |
| `MCLoneByte.cfg` | `MCMonitorStream` | `FullBufferProcessed` | the loop ends one byte before the end (252) and `len` is set to 0 (258-260) | comment 259: "the full buffer was processed" |
| `MCProbeWrap.cfg` | `MCCycleMonitor` | `LastIsNotOutdated` | after 2^16 probes the latest number is below `last_ack` and every answer is dropped until it catches up (`probe3.py` 144) | the message at 145: "Guess: high delay or reordering" |
| `MCUnavailable.cfg` | `MCLifecycle` | `StartIsNotUnavailable` | netmon starts after the initial requests were handed over (1432), so that they find no active graph | comment 638: the rare case of a new router |

`MCHang.cfg` (`MCLifecycle`, `MainAlwaysReturns`) contradicts no line of the
repository but shows what `MainReturns` excepts: a server that closes with a
transaction pending leaves its caller in `sbuf_pop` (`srdb.c` 1366-1368, 1441-1449),
and `main` never returns. It also happens when the transaction workers start before
the server (1422-1424) or when a send fails (1460-1463).

Read in the code, and not modelled: the way points of a rule are a list of
strings (`rules.c` 19-44) that `process_request` passes as a list of graph nodes
(`sr-ctrl.c` 663); `SegPath` models way points as `build_segpath` takes them.
With way points `fpath` names each of them twice, and `build_epath` finds no edge
from a node to itself (`graph.c` 1074, 960). The loop at `srdns.c` 199 compares
every record of a reply but the last. Deleting the entry of the tree's head, which
no caller does, would follow a NULL parent (`lpm.c` 336).

## 6. Not modelled, and the plan

Left out, and why:

* c-ares, with its table of platforms alone of 11,000 lines, and libredblack are
  vendored. They are most of the lines of the implementation, and this project
  therefore covers a small share of its lines by design.
* `srdns.c` is one callback on replies that c-ares delivers on a single thread.
* `rules.c` parses a text file; `match_rules` takes the first rule of a list that
  applies. `hashmap.c`, `llist.c`, `arraylist.c` are sequential containers, modelled
  as functions, sets and sequences where they are used.
* the traffic duplication client and server, the benchmarks and the plots are
  I/O and timing; `net.c` is not built.
* inside the modelled components: conversion to and from JSON, failing
  allocations, the configuration file, reference counts of routers, links and
  edges, and copies of paths.

Nothing that the runs check and the prover can reach is left to prove. What would
extend the project next is `load_rules` and `match_rules` together with the way
points of `process_request` (section 5), and the connection of `NetState` and `Lpm` in
one specification: `NetState` keeps `ns->prefixes` as the set of the routers in it.
