------------------------------ MODULE NetState ------------------------------
(***************************************************************************)
(* The network state of sr-ctrl (struct netstate in sr-ctrl.c) and the     *)
(* threads that share it.  The NodeState and LinkState monitors apply row  *)
(* events of the database to the staging graph.  The thread netmon copies  *)
(* a dirty staging graph, after a debounce delay, and swaps the copy in as *)
(* the active graph.  The workers compute paths on the active graph.       *)
(*                                                                         *)
(* Two read-write locks are involved: ns->lock over the routers, the       *)
(* prefixes and the pointer to the active graph, and the lock of the       *)
(* staging graph.  A thread's steps are broken where it takes or releases  *)
(* a lock and where netmon reads dirty, gs_mod and gs_dirty, which it does *)
(* without a lock.                                                         *)
(*                                                                         *)
(* Abstractions: a router is its name; a link is the pair of addresses of  *)
(* its row, its two directed edges are <<l, 1>> and <<l, 2>>; bw, ava_bw   *)
(* and delay, which every handler treats alike, are the one attribute bw;  *)
(* instants are represented by their age in milliseconds, which is all the *)
(* code asks of them; allocation does not fail.                            *)
(***************************************************************************)
EXTENDS Integers, RwLock

CONSTANTS Nodes,        \* names of routers
          Links,        \* address pairs of links
          Ends,         \* Ends[l]: the routers named by the row of l
          InitNodes,    \* routers of the initial contents of NodeState
          Metrics,      \* values of the column metric, 0 meaning down
          Bws,          \* values of the columns bw, ava_bw and delay
          Workers,      \* worker threads
          UIntMax,      \* UINT32_MAX
          Soft, Hard,   \* GSYNC_SOFT_TIMEOUT and GSYNC_HARD_TIMEOUT
          MaxEvents,    \* bound: row events delivered in a behaviour
          MaxLag        \* bound: ms from netmon's gettimeofday to its checks

ASSUME NetAssumption ==
    /\ Ends \in [Links -> SUBSET Nodes]
    /\ InitNodes \subseteq Nodes
    /\ Metrics \subseteq Nat
    /\ Bws \subseteq Nat
    /\ Soft \in Nat /\ Hard \in Nat /\ Soft <= Hard
    /\ MaxEvents \in Nat
    /\ MaxLag \in Nat
    /\ UIntMax \in Nat /\ UIntMax > Hard + MaxLag

NodeMon == "nodemon"
LinkMon == "linkmon"
NetMon == "netmon"

ASSUME WorkersAssumption == {NodeMon, LinkMon, NetMon} \cap Workers = {}

Threads == {NodeMon, LinkMon, NetMon} \cup Workers

\* Ages above this bound are not told apart by any comparison below.
MaxAge == Hard + MaxLag + 1
Age == 0 .. MaxAge

Dirs == {1, 2}
\* The value of an absent edge; an edge never has metric 0 (Cost below).
NoEdge == [metric |-> 0, bw |-> 0]
EdgeData == [metric : Nat, bw : Nat]
Graphs == [nodes : SUBSET Nodes,
           edges : [Links \X Dirs -> EdgeData]]

VARIABLES routers,      \* ns->routers
          prefixes,     \* routers whose prefixes are in ns->prefixes
          active,       \* *ns->graph
          staging,      \* *ns->graph_staging
          dirty,        \* ns->graph_staging->dirty
          modAge,       \* age of ns->gs_mod
          dirtyAge,     \* age of ns->gs_dirty
          nowAge,       \* age of netmon's local variable now
          copy,         \* netmon's local variable g
          ns, st,       \* ns->lock and ns->graph_staging->lock
          pc,           \* pc[t]: where thread t is
          event,        \* event[m]: the row event monitor m is handling
          rows,         \* links with a row, going by the events delivered
          events,       \* number of row events delivered, FlowReq included
          overtaken     \* history: a change was staged after netmon's copy
                        \* and before netmon cleared dirty

graphVars == <<routers, prefixes, active, staging, dirty>>
timeVars == <<modAge, dirtyAge, nowAge>>
lockVars == <<ns, st>>
envVars == <<event, rows, events>>
vars == <<graphVars, timeVars, copy, lockVars, pc, envVars, overtaken>>

NoEvent == [kind |-> "none"]
NodeEvents == [kind : {"node"}, node : Nodes]
LinkEvents ==
         [kind : {"insert"}, link : Links, metric : Metrics, bw : Bws]
    \cup [kind : {"update"}, link : Links, metric : Metrics, bw : Bws,
          mask : SUBSET {"metric", "bw"}]
    \cup [kind : {"delete"}, link : Links]

Cost(metric) == IF metric = 0 THEN UIntMax ELSE metric

EmptyGraph(nodes) ==
    [nodes |-> nodes, edges |-> [e \in Links \X Dirs |-> NoEdge]]

Present(g, e) == g.edges[e] # NoEdge

(***************************************************************************)
(* init_netstate, then the initial read of the NodeState monitor, which    *)
(* launch_srdb waits for before it starts the LinkState monitor.           *)
(***************************************************************************)
Init ==
    /\ routers = InitNodes
    /\ prefixes = InitNodes
    /\ active = EmptyGraph({})
    /\ staging = EmptyGraph(InitNodes)
    /\ dirty = (InitNodes # {})
    /\ modAge = 0 /\ dirtyAge = 0 /\ nowAge = 0
    /\ copy = EmptyGraph({})
    /\ ns = RwFree /\ st = RwFree
    /\ pc = [t \in Threads |-> "idle"]
    /\ event = [m \in {NodeMon, LinkMon} |-> NoEvent]
    /\ rows = {}
    /\ events = 0
    /\ overtaken = FALSE

Goto(t, from, to) ==
    /\ pc[t] = from
    /\ pc' = [pc EXCEPT ![t] = to]

\* netmon has copied the staging graph and not yet cleared dirty.
InWindow ==
    pc[NetMon] \in {"copied", "sync_ns", "sync_swap", "sync_nsunlock",
                    "clear_lock", "clear"}

\* Mutant: only the instants are recorded.
MarkGraphDirtyTimesOnly(d) ==
    /\ dirtyAge' = IF d THEN dirtyAge ELSE 0
    /\ modAge' = 0
    /\ dirty' = d
    /\ overtaken' = (overtaken \/ InWindow)

\* mark_graph_dirty, for a handler that finds dirty equal to d.
MarkGraphDirty(d) ==
    /\ dirtyAge' = IF d THEN dirtyAge ELSE 0
    /\ modAge' = 0
    /\ dirty' = TRUE
    /\ overtaken' = (overtaken \/ InWindow)

-----------------------------------------------------------------------------
(***************************************************************************)
(* nodestate_read, on the thread of the NodeState monitor                  *)
(***************************************************************************)
NodeRow(n) ==
    /\ events < MaxEvents
    /\ Goto(NodeMon, "idle", "node_ns")
    /\ event' = [event EXCEPT ![NodeMon] = [kind |-> "node", node |-> n]]
    /\ events' = events + 1
    /\ UNCHANGED <<graphVars, timeVars, copy, lockVars, rows, overtaken>>

\* Mutant: net_state_read_lock where the routers are changed.
NodeNsReadLock ==
    /\ Goto(NodeMon, "node_ns", "node_new")
    /\ CanRead(ns)
    /\ ns' = Reading(ns, NodeMon)
    /\ UNCHANGED <<graphVars, timeVars, copy, st, envVars, overtaken>>

NodeNsLock ==
    /\ Goto(NodeMon, "node_ns", "node_new")
    /\ CanWrite(ns)
    /\ ns' = Writing(ns, NodeMon)
    /\ UNCHANGED <<graphVars, timeVars, copy, st, envVars, overtaken>>

NodeDuplicate ==
    /\ Goto(NodeMon, "node_new", "node_unlock")
    /\ event[NodeMon].node \in routers
    /\ UNCHANGED <<graphVars, timeVars, copy, lockVars, envVars, overtaken>>

\* lpm_insert of the new router's prefixes.
NodePrefixes ==
    /\ Goto(NodeMon, "node_new", "node_st")
    /\ event[NodeMon].node \notin routers
    /\ prefixes' = prefixes \cup {event[NodeMon].node}
    /\ UNCHANGED <<routers, active, staging, dirty, timeVars, copy, lockVars,
                   envVars, overtaken>>

NodeStagingLock ==
    /\ Goto(NodeMon, "node_st", "node_add")
    /\ CanWrite(st)
    /\ st' = Writing(st, NodeMon)
    /\ UNCHANGED <<graphVars, timeVars, copy, ns, envVars, overtaken>>

NodeAdd ==
    /\ Goto(NodeMon, "node_add", "node_set")
    /\ MarkGraphDirty(dirty)
    /\ staging' = [staging EXCEPT !.nodes = @ \cup {event[NodeMon].node}]
    /\ st' = Released(st, NodeMon)
    /\ UNCHANGED <<routers, prefixes, active, nowAge, copy, ns, envVars>>

NodeSet ==
    /\ Goto(NodeMon, "node_set", "node_unlock")
    /\ routers' = routers \cup {event[NodeMon].node}
    /\ UNCHANGED <<prefixes, active, staging, dirty, timeVars, copy, lockVars,
                   envVars, overtaken>>

NodeUnlock ==
    /\ Goto(NodeMon, "node_unlock", "idle")
    /\ ns' = Released(ns, NodeMon)
    /\ event' = [event EXCEPT ![NodeMon] = NoEvent]
    /\ UNCHANGED <<graphVars, timeVars, copy, st, rows, events, overtaken>>

NodeStep ==
    \/ NodeNsLock \/ NodeDuplicate \/ NodePrefixes \/ NodeStagingLock
    \/ NodeAdd \/ NodeSet \/ NodeUnlock

-----------------------------------------------------------------------------
(***************************************************************************)
(* linkstate_read, linkstate_update and linkstate_delete, on the thread of *)
(* the LinkState monitor                                                   *)
(***************************************************************************)
\* The row events the database sends: updates and deletions of existing rows.
LinkRow(e) ==
    /\ events < MaxEvents
    /\ e.kind # "insert" => e.link \in rows
    /\ Goto(LinkMon, "idle",
            IF e.kind = "insert" THEN "link_ns" ELSE "link_st")
    /\ event' = [event EXCEPT ![LinkMon] = e]
    /\ rows' = IF e.kind = "delete" THEN rows \ {e.link} ELSE rows \cup {e.link}
    /\ events' = events + 1
    /\ UNCHANGED <<graphVars, timeVars, copy, lockVars, overtaken>>

LinkNsLock ==
    /\ Goto(LinkMon, "link_ns", "link_routers")
    /\ CanRead(ns)
    /\ ns' = Reading(ns, LinkMon)
    /\ UNCHANGED <<graphVars, timeVars, copy, st, envVars, overtaken>>

LinkUnknownRouter ==
    /\ Goto(LinkMon, "link_routers", "link_nsunlock")
    /\ ~ Ends[event[LinkMon].link] \subseteq routers
    /\ UNCHANGED <<graphVars, timeVars, copy, lockVars, envVars, overtaken>>

LinkKnownRouters ==
    /\ Goto(LinkMon, "link_routers", "link_st")
    /\ Ends[event[LinkMon].link] \subseteq routers
    /\ UNCHANGED <<graphVars, timeVars, copy, lockVars, envVars, overtaken>>

LinkStagingLock ==
    /\ Goto(LinkMon, "link_st", "link_apply")
    /\ CanWrite(st)
    /\ st' = Writing(st, LinkMon)
    /\ UNCHANGED <<graphVars, timeVars, copy, ns, envVars, overtaken>>

\* graph_get_edge_data finds one of the two directions already there
\* (linkstate_read), or misses one of them (linkstate_update): the handler
\* returns -1.
LinkReject ==
    LET l == event[LinkMon].link
    IN  /\ Goto(LinkMon, "link_apply", "link_stunlock")
        /\ \/ /\ event[LinkMon].kind = "insert"
              /\ \E d \in Dirs : Present(staging, <<l, d>>)
           \/ /\ event[LinkMon].kind = "update"
              /\ \E d \in Dirs : ~ Present(staging, <<l, d>>)
        /\ UNCHANGED <<graphVars, timeVars, copy, lockVars, envVars, overtaken>>

EventData ==
    [metric |-> Cost(event[LinkMon].metric), bw |-> event[LinkMon].bw]

\* graph_add_edge of the two directions.
LinkAdd ==
    LET l == event[LinkMon].link
    IN  /\ Goto(LinkMon, "link_apply", "link_add2")
        /\ event[LinkMon].kind = "insert"
        /\ \A d \in Dirs : ~ Present(staging, <<l, d>>)
        /\ MarkGraphDirty(dirty)
        /\ staging' = [staging EXCEPT !.edges[<<l, 1>>] = EventData]
        /\ UNCHANGED <<routers, prefixes, active, nowAge, copy, lockVars, envVars>>

LinkAdd2 ==
    LET l == event[LinkMon].link
    IN  /\ Goto(LinkMon, "link_add2", "link_stunlock")
        /\ staging' = [staging EXCEPT !.edges[<<l, 2>>] = EventData]
        /\ dirty' = TRUE
        /\ UNCHANGED <<routers, prefixes, active, timeVars, copy, lockVars,
                       envVars, overtaken>>

\* The fields of the mask are stored.  The metric goes to both edges, but
\* link2 is read from edge, not from edge2: the data of the second direction
\* is not touched.
LinkUpdate ==
    LET l == event[LinkMon].link
        mask == event[LinkMon].mask
        metric(e) == IF "metric" \in mask THEN EventData.metric
                                          ELSE staging.edges[e].metric
        bw == IF "bw" \in mask THEN EventData.bw
                               ELSE staging.edges[<<l, 1>>].bw
    IN  /\ Goto(LinkMon, "link_apply", "link_stunlock")
        /\ event[LinkMon].kind = "update"
        /\ \A d \in Dirs : Present(staging, <<l, d>>)
        /\ MarkGraphDirty(dirty)
        /\ staging' = [staging EXCEPT
                         !.edges[<<l, 1>>] = [metric |-> metric(<<l, 1>>), bw |-> bw],
                         !.edges[<<l, 2>>].metric = metric(<<l, 2>>)]
        /\ UNCHANGED <<routers, prefixes, active, nowAge, copy, lockVars, envVars>>

\* graph_remove_edge sets dirty itself, before mark_graph_dirty looks at it.
LinkRemove ==
    LET l == event[LinkMon].link
        there == \E d \in Dirs : Present(staging, <<l, d>>)
    IN  /\ Goto(LinkMon, "link_apply", "link_mark")
        /\ event[LinkMon].kind = "delete"
        /\ staging' = [staging EXCEPT !.edges[<<l, 1>>] = NoEdge,
                                      !.edges[<<l, 2>>] = NoEdge]
        /\ dirty' = (dirty \/ there)
        /\ overtaken' = (overtaken \/ InWindow)
        /\ UNCHANGED <<routers, prefixes, active, timeVars, copy, lockVars, envVars>>

LinkMark ==
    /\ Goto(LinkMon, "link_mark", "link_stunlock")
    /\ MarkGraphDirty(dirty)
    /\ UNCHANGED <<routers, prefixes, active, staging, nowAge, copy, lockVars,
                   envVars>>

LinkStagingUnlock ==
    /\ Goto(LinkMon, "link_stunlock",
            IF event[LinkMon].kind = "insert" THEN "link_nsunlock" ELSE "link_done")
    /\ st' = Released(st, LinkMon)
    /\ UNCHANGED <<graphVars, timeVars, copy, ns, envVars, overtaken>>

LinkNsUnlock ==
    /\ Goto(LinkMon, "link_nsunlock", "link_done")
    /\ ns' = Released(ns, LinkMon)
    /\ UNCHANGED <<graphVars, timeVars, copy, st, envVars, overtaken>>

LinkDone ==
    /\ Goto(LinkMon, "link_done", "idle")
    /\ event' = [event EXCEPT ![LinkMon] = NoEvent]
    /\ UNCHANGED <<graphVars, timeVars, copy, lockVars, rows, events, overtaken>>

LinkStep ==
    \/ LinkNsLock \/ LinkUnknownRouter \/ LinkKnownRouters \/ LinkStagingLock
    \/ LinkReject \/ LinkAdd \/ LinkAdd2 \/ LinkUpdate \/ LinkRemove \/ LinkMark
    \/ LinkStagingUnlock \/ LinkNsUnlock \/ LinkDone

-----------------------------------------------------------------------------
(***************************************************************************)
(* thread_netmon and netstate_graph_sync                                   *)
(***************************************************************************)
\* getmsdiff(&now, &t) for an instant t of the given age: the difference of
\* two instants, reduced to an unsigned int.  An instant after now gives a
\* value near 2^32, larger than every timeout.
MsDiff(age) ==
    IF age >= nowAge THEN age - nowAge ELSE age - nowAge + UIntMax + 1

NetmonNow ==
    /\ Goto(NetMon, "idle", "check_dirty")
    /\ nowAge' = 0
    /\ UNCHANGED <<graphVars, modAge, dirtyAge, copy, lockVars, envVars, overtaken>>

NetmonClean ==
    /\ ~ dirty
    /\ Goto(NetMon, "check_dirty", "idle")
    /\ nowAge' = 0
    /\ UNCHANGED <<graphVars, modAge, dirtyAge, copy, lockVars, envVars, overtaken>>

NetmonDirty ==
    /\ dirty
    /\ Goto(NetMon, "check_dirty", "check_time")
    /\ UNCHANGED <<graphVars, timeVars, copy, lockVars, envVars, overtaken>>

TimedOut == MsDiff(modAge) > Soft \/ MsDiff(dirtyAge) > Hard

NetmonWait ==
    /\ ~ TimedOut
    /\ Goto(NetMon, "check_time", "idle")
    /\ nowAge' = 0
    /\ UNCHANGED <<graphVars, modAge, dirtyAge, copy, lockVars, envVars, overtaken>>

NetmonSync ==
    /\ TimedOut
    /\ Goto(NetMon, "check_time", "sync_st")
    /\ nowAge' = 0
    /\ UNCHANGED <<graphVars, modAge, dirtyAge, copy, lockVars, envVars, overtaken>>

\* Mutant: the staging graph is copied without its lock.
SyncWithoutStagingLock ==
    /\ Goto(NetMon, "sync_st", "sync_copy")
    /\ UNCHANGED <<graphVars, timeVars, copy, lockVars, envVars, overtaken>>

SyncStagingLock ==
    /\ Goto(NetMon, "sync_st", "sync_copy")
    /\ CanRead(st)
    /\ st' = Reading(st, NetMon)
    /\ UNCHANGED <<graphVars, timeVars, copy, ns, envVars, overtaken>>

\* graph_deepcopy.  The test of dirty before it always succeeds: only netmon
\* clears the flag.
SyncCopy ==
    /\ Goto(NetMon, "sync_copy", "copied")
    /\ copy' = staging
    /\ overtaken' = FALSE
    /\ UNCHANGED <<graphVars, timeVars, lockVars, envVars>>

\* Mutant: the lock of the staging graph is kept over the swap.
SyncKeepsStagingLock ==
    /\ Goto(NetMon, "copied", "sync_ns")
    /\ UNCHANGED <<graphVars, timeVars, copy, lockVars, envVars, overtaken>>

SyncStagingUnlock ==
    /\ Goto(NetMon, "copied", "sync_ns")
    /\ st' = Released(st, NetMon)
    /\ UNCHANGED <<graphVars, timeVars, copy, ns, envVars, overtaken>>

\* Mutant: the graph is swapped under a read lock.
SyncNsReadLock ==
    /\ Goto(NetMon, "sync_ns", "sync_swap")
    /\ CanRead(ns)
    /\ ns' = Reading(ns, NetMon)
    /\ UNCHANGED <<graphVars, timeVars, copy, st, envVars, overtaken>>

SyncNsLock ==
    /\ Goto(NetMon, "sync_ns", "sync_swap")
    /\ CanWrite(ns)
    /\ ns' = Writing(ns, NetMon)
    /\ UNCHANGED <<graphVars, timeVars, copy, st, envVars, overtaken>>

SyncSwap ==
    /\ Goto(NetMon, "sync_swap", "sync_nsunlock")
    /\ active' = copy
    /\ UNCHANGED <<routers, prefixes, staging, dirty, timeVars, copy, lockVars,
                   envVars, overtaken>>

SyncNsUnlock ==
    /\ Goto(NetMon, "sync_nsunlock", "clear_lock")
    /\ ns' = Released(ns, NetMon)
    /\ copy' = EmptyGraph({})
    /\ UNCHANGED <<graphVars, timeVars, st, envVars, overtaken>>

SyncClearLock ==
    /\ Goto(NetMon, "clear_lock", "clear")
    /\ CanWrite(st)
    /\ st' = Writing(st, NetMon)
    /\ UNCHANGED <<graphVars, timeVars, copy, ns, envVars, overtaken>>

\* Mutant: dirty is never reset.
SyncClearForgotten ==
    /\ Goto(NetMon, "clear", "recompute")
    /\ st' = Released(st, NetMon)
    /\ UNCHANGED <<graphVars, timeVars, copy, ns, envVars, overtaken>>

SyncClear ==
    /\ Goto(NetMon, "clear", "recompute")
    /\ dirty' = FALSE
    /\ st' = Released(st, NetMon)
    /\ UNCHANGED <<routers, prefixes, active, staging, timeVars, copy, ns,
                   envVars, overtaken>>

\* recompute_flows reads the active graph under ns->lock (module FlowTable
\* has what it does to the flows).
RecomputeLock ==
    /\ Goto(NetMon, "recompute", "recomputing")
    /\ CanRead(ns)
    /\ ns' = Reading(ns, NetMon)
    /\ UNCHANGED <<graphVars, timeVars, copy, st, envVars, overtaken>>

RecomputeUnlock ==
    /\ Goto(NetMon, "recomputing", "idle")
    /\ ns' = Released(ns, NetMon)
    /\ UNCHANGED <<graphVars, timeVars, copy, st, envVars, overtaken>>

NetmonStep ==
    \/ NetmonNow \/ NetmonClean \/ NetmonDirty \/ NetmonWait \/ NetmonSync
    \/ SyncStagingLock \/ SyncCopy \/ SyncStagingUnlock \/ SyncNsLock
    \/ SyncSwap \/ SyncNsUnlock \/ SyncClearLock \/ SyncClear
    \/ RecomputeLock \/ RecomputeUnlock

-----------------------------------------------------------------------------
\* process_request reads the routers, the prefixes and the active graph, and
\* runs its transactions, with ns->lock held for reading.
WorkerLock(w) ==
    /\ events < MaxEvents
    /\ Goto(w, "idle", "request")
    /\ CanRead(ns)
    /\ ns' = Reading(ns, w)
    /\ events' = events + 1
    /\ UNCHANGED <<graphVars, timeVars, copy, st, event, rows, overtaken>>

WorkerUnlock(w) ==
    /\ Goto(w, "request", "idle")
    /\ ns' = Released(ns, w)
    /\ UNCHANGED <<graphVars, timeVars, copy, st, envVars, overtaken>>

\* A millisecond passes.  Between gettimeofday and the last use of now netmon
\* is assumed to spend at most MaxLag of them.
Older(age) == IF age < MaxAge THEN age + 1 ELSE age

Tick ==
    LET waiting == pc[NetMon] \in {"check_dirty", "check_time"}
    IN  /\ waiting => nowAge < MaxLag
        /\ nowAge' = IF waiting THEN nowAge + 1 ELSE nowAge
        /\ modAge' = Older(modAge)
        /\ dirtyAge' = Older(dirtyAge)
        /\ UNCHANGED <<graphVars, copy, lockVars, pc, envVars, overtaken>>

Next ==
    \/ \E n \in Nodes : NodeRow(n)
    \/ NodeStep
    \/ \E e \in LinkEvents : LinkRow(e)
    \/ LinkStep
    \/ NetmonStep
    \/ \E w \in Workers : WorkerLock(w) \/ WorkerUnlock(w)
    \/ Tick

Spec == Init /\ [][Next]_vars

\* Every thread is scheduled as long as it is not blocked on a lock for ever,
\* and time passes.  Nothing is assumed of the order in which a lock is
\* granted to those who wait for it.
Fairness ==
    /\ WF_vars(NodeStep)
    /\ WF_vars(LinkStep)
    /\ WF_vars(NetmonStep)
    /\ \A w \in Workers : WF_vars(WorkerUnlock(w))
    /\ WF_vars(Tick)

FairSpec == Spec /\ Fairness

-----------------------------------------------------------------------------
NodeLabels == {"idle", "node_ns", "node_new", "node_st", "node_add",
               "node_set", "node_unlock"}
LinkLabels == {"idle", "link_ns", "link_routers", "link_st", "link_apply",
               "link_add2", "link_mark", "link_stunlock", "link_nsunlock",
               "link_done"}
NetmonLabels == {"idle", "check_dirty", "check_time", "sync_st", "sync_copy",
                 "copied", "sync_ns", "sync_swap", "sync_nsunlock",
                 "clear_lock", "clear", "recompute", "recomputing"}

TypeOK ==
    /\ routers \in SUBSET Nodes
    /\ prefixes \in SUBSET Nodes
    /\ active \in Graphs /\ staging \in Graphs /\ copy \in Graphs
    /\ dirty \in BOOLEAN /\ overtaken \in BOOLEAN
    /\ modAge \in Age /\ dirtyAge \in Age /\ nowAge \in 0 .. MaxLag
    /\ ns \in RwLocks(Threads) /\ st \in RwLocks(Threads)
    /\ pc[NodeMon] \in NodeLabels
    /\ pc[LinkMon] \in LinkLabels
    /\ pc[NetMon] \in NetmonLabels
    /\ \A w \in Workers : pc[w] \in {"idle", "request"}
    /\ event[NodeMon] \in NodeEvents \cup {NoEvent}
    /\ event[LinkMon] \in LinkEvents \cup {NoEvent}
    /\ rows \in SUBSET Links
    /\ events \in 0 .. MaxEvents

\* A graph whose edges come in pairs of equal metric, between routers that
\* are nodes of the same graph.
WellFormed(g) ==
    \A l \in Links :
        /\ Present(g, <<l, 1>>) <=> Present(g, <<l, 2>>)
        /\ g.edges[<<l, 1>>].metric = g.edges[<<l, 2>>].metric
        /\ Present(g, <<l, 1>>) => Ends[l] \subseteq g.nodes

\* Whatever the monitors do to the staging graph meanwhile, netmon never
\* copies it in the middle of a change (one direction of a link without the
\* other, an edge to a node that is not there), so paths are never computed on
\* such a graph.
NoTornGraph == WellFormed(copy) /\ WellFormed(active)

\* linkstate_read asserts that the nodes of the two routers it found are in
\* the staging graph; a worker that holds ns->lock finds a router through its
\* name if and only if it finds it through its prefixes.
RoutersAreStaged ==
    /\ pc[LinkMon] = "link_apply" /\ event[LinkMon].kind = "insert"
          => Ends[event[LinkMon].link] \subseteq staging.nodes
    /\ ns.w = {} => routers = prefixes /\ routers \subseteq staging.nodes

\* A clean flag means that the active graph is the staging graph, with one
\* exception: a change staged between netmon's copy and its clearing of dirty.
SyncedUnlessOvertaken ==
    ~ dirty => active = staging \/ overtaken

\* The active graph does not change under a thread that holds ns->lock for
\* reading: paths, flows and segments of one request are of one graph.
GraphIsStableForReaders ==
    [][\A t \in Threads : t \in ns.r /\ t \in ns'.r => active' = active]_vars

\* No handler of a row event blocks for ever: the orders in which the threads
\* take ns->lock and the lock of the staging graph fit together.
CallbacksReturn ==
    /\ pc[NodeMon] # "idle" ~> pc[NodeMon] = "idle"
    /\ pc[LinkMon] # "idle" ~> pc[LinkMon] = "idle"

\* A dirty staging graph is synchronised, by the soft or the hard timeout.
DirtyIsSynced == dirty ~> ~ dirty

-----------------------------------------------------------------------------
(***************************************************************************)
(* What the comments and the test topologies say, and the code does not do *)
(***************************************************************************)
\* No more row events are to be delivered, and the handlers have returned.
Quiet == events = MaxEvents /\ \A t \in Threads \ {NetMon} : pc[t] = "idle"

\* Every change staged by a handler ends up in the active graph.
ChangesReachActive == Quiet ~> active = staging

\* netmon synchronises only a graph that was last modified more than Soft ms
\* ago or became dirty more than Hard ms ago.
DebounceRespected ==
    [][NetmonSync => modAge > Soft \/ dirtyAge > Hard]_vars

\* The two directions of a link have the attributes of its one row.
DirectionsAgree ==
    st.w = {} =>
        \A l \in Links : staging.edges[<<l, 1>>] = staging.edges[<<l, 2>>]
=============================================================================
