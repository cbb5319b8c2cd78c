------------------------------ MODULE FlowTable ------------------------------
(***************************************************************************)
(* The flows of sr-ctrl: the workers that turn flow requests into flows    *)
(* (thread_worker, process_request), the garbage collector and the         *)
(* recomputation that netmon runs on them (gc_flows, recompute_flows), and *)
(* their rows in the database (tables FlowReq and FlowState).              *)
(*                                                                         *)
(* ns->lock is held for reading by a worker from the lookup of the routers *)
(* to the end of the request, its transactions included, and for writing   *)
(* by netmon while it swaps the graph.  A critical section of the hash map *)
(* _cfg.flows waits for nothing and is part of one step.  Steps are broken *)
(* where ns->lock is taken or released and at the transactions.            *)
(*                                                                         *)
(* Abstractions: a request is the flow it may become; the active graph is  *)
(* the set of its routers and, for each link, the id and metric of its     *)
(* edge (id 0: no edge); build_segpath picks one of the usable routes of   *)
(* the request (which one is the business of graph.c), or fails if there   *)
(* is none; segments are the route they encode; a synchronous transaction  *)
(* is one step that succeeds or, if MayFail, fails; time is in seconds.    *)
(***************************************************************************)
EXTENDS Integers, RwLock

CONSTANTS Requests,     \* rows of FlowReq
          Denied,       \* requests whose rule is RULE_DENY
          SrcRt, DstRt, \* SrcRt[r], DstRt[r]: router of the source and of
                        \* the longest prefix of the destination
          Routes,       \* Routes[r]: sets of links that join the two
          Ttl,          \* Ttl[r]: ttl of the rule of r, 0 for none
          Routers,      \* names of routers
          InitRouters,  \* routers known when the FlowReq monitor starts
          Links,        \* links of the network
          Metrics,      \* metrics of edges, Down included
          Down,         \* UINT32_MAX, the metric of a link that is down
          Bsids,        \* binding segments under the routers' prefixes
          Workers,      \* worker threads
          NbProviders,  \* number of providers in the configuration
          Removable,    \* routers whose row of NodeState may be deleted
          MayFail,      \* whether transactions can fail
          MaxSyncs,     \* bound: graphs swapped in
          MaxClock      \* bound: seconds

None == "none"
NetMon == "netmon"
Threads == Workers \cup {NetMon}

ASSUME FlowAssumption ==
    /\ Denied \subseteq Requests
    /\ SrcRt \in [Requests -> Routers] /\ DstRt \in [Requests -> Routers]
    /\ Routes \in [Requests -> SUBSET (SUBSET Links)]
    /\ Ttl \in [Requests -> Nat]
    /\ InitRouters \subseteq Routers /\ Removable \subseteq Routers
    /\ NbProviders \in Nat
    /\ Metrics \subseteq Nat \ {0} /\ Down \in Metrics
    /\ None \notin Requests /\ None \notin Bsids
    /\ NetMon \notin Workers
    /\ MayFail \in BOOLEAN
    /\ MaxSyncs \in Nat /\ MaxClock \in Nat

VARIABLES routers,      \* ns->routers, and the routers in ns->prefixes
          graph,        \* *ns->graph
          gone,         \* routers whose row of NodeState has been deleted
          ns,           \* ns->lock
          flows,        \* _cfg.flows: binding segment -> flow
          flow,         \* flow[r]: the struct flow of r
          pc, cur,      \* where thread t is, and the flow it is working on
          todo,         \* netmon's temporary list nhead
          diff,         \* netmon's local variable diff
          queue,        \* requests pushed to req_buffer and not yet popped
          dbReq,        \* dbReq[r]: column status of FlowReq
          dbFlow,       \* dbFlow[r]: row of FlowState
          clock, syncs,
          expiredEarly, \* history: flows expired while still being committed
          failed        \* history: flows one of whose updates failed

netVars == <<routers, graph, gone>>
dbVars == <<dbReq, dbFlow, failed>>
vars == <<netVars, ns, flows, flow, pc, cur, todo, diff, queue, dbVars, clock,
          syncs, expiredEarly>>

NoFlow == [mem |-> "none", ref |-> 0, bsid |-> None, epath |-> {}, segs |-> {},
           timestamp |-> 0, status |-> None, uuid |-> FALSE]
NoRow == [status |-> None, segs |-> {}]

\* The edges of a route in a graph, as (link, id, metric) triples.
EdgesOf(g, route) ==
    {[link |-> l, id |-> g.edges[l].id, metric |-> g.edges[l].metric] :
        l \in route}

Usable(g, r) ==
    {route \in Routes[r] :
        \A l \in route : g.edges[l].id # 0 /\ g.edges[l].metric # Down}

\* Whether both routers of r have a node in the active graph.
InGraph(r) == {SrcRt[r], DstRt[r]} \subseteq graph.nodes

\* flow_affected: an edge of the path is gone or has another metric.
Affected(f, g) ==
    \E e \in f.epath : g.edges[e.link].id # e.id \/ g.edges[e.link].metric # e.metric

InMap(r) == \E b \in Bsids : flows[b] = r

Outcomes == IF MayFail THEN BOOLEAN ELSE {TRUE}

Init ==
    /\ routers = InitRouters
    /\ graph = [nodes |-> {}, edges |-> [l \in Links |-> [id |-> 0, metric |-> Down]]]
    /\ gone = {}
    /\ ns = RwFree
    /\ flows = [b \in Bsids |-> None]
    /\ flow = [r \in Requests |-> NoFlow]
    /\ pc = [t \in Threads |-> "idle"]
    /\ cur = [t \in Threads |-> None]
    /\ todo = {} /\ diff = FALSE
    /\ queue = {}
    /\ dbReq = [r \in Requests |-> None]
    /\ dbFlow = [r \in Requests |-> NoRow]
    /\ clock = 0 /\ syncs = 0
    /\ expiredEarly = {} /\ failed = {}

Goto(t, from, to) ==
    /\ pc[t] = from
    /\ pc' = [pc EXCEPT ![t] = to]

-----------------------------------------------------------------------------
\* A row of FlowReq is read and flowreq_read pushes it to req_buffer: a new
\* request, or one that was answered by an earlier run of the controller.
FlowReq(r, status) ==
    /\ dbReq[r] = None
    /\ dbReq' = [dbReq EXCEPT ![r] = status]
    /\ queue' = queue \cup {r}
    /\ UNCHANGED <<netVars, ns, flows, flow, pc, cur, todo, diff, dbFlow, failed,
                   clock, syncs, expiredEarly>>

\* nodestate_read of a new router, seen from the flows: it is known at once
\* and enters the active graph with the next swap.
NewRouter(n) ==
    /\ n \notin routers
    /\ CanWrite(ns)
    /\ routers' = routers \cup {n}
    /\ UNCHANGED <<graph, gone, ns, flows, flow, pc, cur, todo, diff, queue,
                   dbVars, clock, syncs, expiredEarly>>

\* A row of NodeState is deleted.  launch_srdb gives the NodeState monitor no
\* callback for deletions: the controller does nothing.
RouterRemoved(n) ==
    /\ n \in (Removable \cap routers) \ gone
    /\ gone' = gone \cup {n}
    /\ UNCHANGED <<routers, graph, ns, flows, flow, pc, cur, todo, diff, queue,
                   dbVars, clock, syncs, expiredEarly>>

Tick ==
    /\ clock < MaxClock
    /\ clock' = clock + 1
    /\ UNCHANGED <<netVars, ns, flows, flow, pc, cur, todo, diff, queue, dbVars,
                   syncs, expiredEarly>>

-----------------------------------------------------------------------------
(***************************************************************************)
(* thread_worker and process_request                                       *)
(***************************************************************************)
\* Mutant: the status of the request is not looked at.
WorkerPopAny(w, r) ==
    /\ r \in queue
    /\ Goto(w, "idle", IF r \in Denied THEN "deny" ELSE "lock")
    /\ cur' = [cur EXCEPT ![w] = r]
    /\ queue' = queue \ {r}
    /\ UNCHANGED <<netVars, ns, flows, flow, todo, diff, dbVars, clock, syncs,
                   expiredEarly>>

WorkerPop(w, r) ==
    /\ r \in queue
    /\ dbReq[r] = "pending"
    /\ Goto(w, "idle", IF r \in Denied THEN "deny" ELSE "lock")
    /\ cur' = [cur EXCEPT ![w] = r]
    /\ queue' = queue \ {r}
    /\ UNCHANGED <<netVars, ns, flows, flow, todo, diff, dbVars, clock, syncs,
                   expiredEarly>>

\* process_request returns at once if the request is not pending.
WorkerSkip(w, r) ==
    /\ r \in queue
    /\ dbReq[r] # "pending"
    /\ pc[w] = "idle"
    /\ queue' = queue \ {r}
    /\ UNCHANGED <<netVars, ns, flows, flow, pc, cur, todo, diff, dbVars, clock,
                   syncs, expiredEarly>>

\* set_flowreq_status: an update of the row that may fail; the outcome is
\* reported and otherwise ignored.
SetFlowreqStatus(r, status) ==
    \E ok \in Outcomes :
        dbReq' = [dbReq EXCEPT ![r] = IF ok THEN status ELSE @]

WorkerDeny(w) ==
    /\ Goto(w, "deny", "idle")
    /\ SetFlowreqStatus(cur[w], "denied")
    /\ cur' = [cur EXCEPT ![w] = None]
    /\ UNCHANGED <<netVars, ns, flows, flow, todo, diff, queue, dbFlow, failed,
                   clock, syncs, expiredEarly>>

WorkerLock(w) ==
    /\ Goto(w, "lock", "lookup")
    /\ CanRead(ns)
    /\ ns' = Reading(ns, w)
    /\ UNCHANGED <<netVars, flows, flow, cur, todo, diff, queue, dbVars, clock,
                   syncs, expiredEarly>>

\* The status of a request that cannot be served, "ok" for one that can.
Lookup(r) ==
    IF SrcRt[r] \notin routers THEN "norouter"
    ELSE IF DstRt[r] \notin routers THEN "noprefix"
    ELSE IF ~ InGraph(r) THEN "unavailable"
    ELSE IF NbProviders = 0 THEN "error"
    ELSE IF Usable(graph, r) = {} THEN "unavailable"
    ELSE "ok"

WorkerRefuse(w) ==
    /\ Goto(w, "lookup", "unlock")
    /\ Lookup(cur[w]) # "ok"
    /\ SetFlowreqStatus(cur[w], Lookup(cur[w]))
    /\ UNCHANGED <<netVars, ns, flows, flow, cur, todo, diff, queue, dbFlow,
                   failed, clock, syncs, expiredEarly>>

NewFlow(g, route) ==
    [NoFlow EXCEPT !.mem = "live", !.ref = 1, !.epath = EdgesOf(g, route),
                   !.segs = route, !.timestamp = clock, !.status = "active"]

\* Mutant: ns->lock is released once the path is computed.
WorkerPathUnlocks(w) ==
    /\ Goto(w, "lookup", "insert")
    /\ Lookup(cur[w]) = "ok"
    /\ \E route \in Usable(graph, cur[w]) :
          flow' = [flow EXCEPT ![cur[w]] = NewFlow(graph, route)]
    /\ ns' = Released(ns, w)
    /\ UNCHANGED <<netVars, flows, cur, todo, diff, queue, dbVars, clock, syncs,
                   expiredEarly>>

WorkerPath(w) ==
    /\ Goto(w, "lookup", "insert")
    /\ Lookup(cur[w]) = "ok"
    /\ \E route \in Usable(graph, cur[w]) :
          flow' = [flow EXCEPT ![cur[w]] = NewFlow(graph, route)]
    /\ UNCHANGED <<netVars, ns, flows, cur, todo, diff, queue, dbVars, clock,
                   syncs, expiredEarly>>

\* Mutant: the binding segment drawn is not looked up.
WorkerInsertAnyBsid(w) ==
    /\ Goto(w, "insert", "commit")
    /\ \E b \in Bsids :
          /\ flows' = [flows EXCEPT ![b] = cur[w]]
          /\ flow' = [flow EXCEPT ![cur[w]].bsid = b]
    /\ UNCHANGED <<netVars, ns, cur, todo, diff, queue, dbVars, clock, syncs,
                   expiredEarly>>

\* The critical section of _cfg.flows: generate_unique_bsid and hmap_set.
\* Nothing in it waits for another thread.
WorkerInsert(w) ==
    /\ Goto(w, "insert", "commit")
    /\ \E b \in Bsids :
          /\ flows[b] = None
          /\ flows' = [flows EXCEPT ![b] = cur[w]]
          /\ flow' = [flow EXCEPT ![cur[w]].bsid = b]
    /\ UNCHANGED <<netVars, ns, cur, todo, diff, queue, dbVars, clock, syncs,
                   expiredEarly>>

\* commit_flow: the row is inserted and its uuid stored in the flow.
WorkerCommit(w) ==
    LET r == cur[w]
    IN  /\ Goto(w, "commit", "allow")
        /\ dbFlow' = [dbFlow EXCEPT ![r] = [status |-> "active", segs |-> flow[r].segs]]
        /\ flow' = [flow EXCEPT ![r].uuid = TRUE]
        /\ UNCHANGED <<netVars, ns, flows, cur, todo, diff, queue, dbReq, failed,
                       clock, syncs, expiredEarly>>

\* Mutant: the result of commit_flow is ignored.
WorkerCommitIgnored(w) ==
    /\ FALSE \in Outcomes
    /\ Goto(w, "commit", "allow")
    /\ UNCHANGED <<netVars, ns, flows, flow, cur, todo, diff, queue, dbVars,
                   clock, syncs, expiredEarly>>

WorkerCommitFails(w) ==
    /\ FALSE \in Outcomes
    /\ Goto(w, "commit", "undo")
    /\ SetFlowreqStatus(cur[w], "error")
    /\ UNCHANGED <<netVars, ns, flows, flow, cur, todo, diff, queue, dbFlow,
                   failed, clock, syncs, expiredEarly>>

WorkerAllow(w) ==
    /\ Goto(w, "allow", "unlock")
    /\ SetFlowreqStatus(cur[w], "allowed")
    /\ UNCHANGED <<netVars, ns, flows, flow, cur, todo, diff, queue, dbFlow,
                   failed, clock, syncs, expiredEarly>>

\* The label free_segs: the flow leaves the map and is freed, whatever its
\* reference count.
WorkerUndo(w) ==
    LET r == cur[w]
    IN  /\ Goto(w, "undo", "unlock")
        /\ flows' = [flows EXCEPT ![flow[r].bsid] = None]
        /\ flow' = [flow EXCEPT ![r].mem = "freed"]
        /\ UNCHANGED <<netVars, ns, cur, todo, diff, queue, dbVars, clock, syncs,
                       expiredEarly>>

WorkerUnlock(w) ==
    /\ Goto(w, "unlock", "idle")
    /\ ns' = Released(ns, w)
    /\ cur' = [cur EXCEPT ![w] = None]
    /\ UNCHANGED <<netVars, flows, flow, todo, diff, queue, dbVars, clock, syncs,
                   expiredEarly>>

WorkerStep(w) ==
    \/ WorkerDeny(w) \/ WorkerLock(w) \/ WorkerRefuse(w) \/ WorkerPath(w)
    \/ WorkerInsert(w) \/ WorkerCommit(w) \/ WorkerCommitFails(w)
    \/ WorkerAllow(w) \/ WorkerUndo(w) \/ WorkerUnlock(w)

-----------------------------------------------------------------------------
(***************************************************************************)
(* thread_netmon: gc_flows, then netstate_graph_sync and recompute_flows   *)
(***************************************************************************)
\* flow_release
Release(f) ==
    [f EXCEPT !.ref = @ - 1, !.mem = IF f.ref = 1 THEN "freed" ELSE @]

Expired(r) ==
    \/ Ttl[r] # 0 /\ clock > flow[r].timestamp + Ttl[r]
    \/ flow[r].status = "orphan"

\* A flow that a worker has put into the map and is still working on.
InFlight(r) ==
    \E w \in Workers : cur[w] = r /\ pc[w] \in {"commit", "undo"}

\* gc_flows moves the expired flows from the map to a list, under the lock.
GcScan ==
    LET dead == {r \in Requests : InMap(r) /\ Expired(r)}
    IN  /\ Goto(NetMon, "idle", "gc")
        /\ dead # {}
        /\ flows' = [b \in Bsids |-> IF flows[b] \in dead THEN None ELSE flows[b]]
        /\ todo' = dead
        /\ expiredEarly' = expiredEarly \cup {r \in dead : InFlight(r)}
        /\ UNCHANGED <<netVars, ns, flow, cur, diff, queue, dbVars, clock, syncs>>

\* set_flow_status and flow_release of one of them.  Without a uuid the
\* update matches no row.
GcExpire(r) ==
    /\ pc[NetMon] = "gc"
    /\ r \in todo
    /\ \E ok \in Outcomes :
          /\ dbFlow' = IF ok /\ flow[r].uuid
                       THEN [dbFlow EXCEPT ![r].status = "expired"] ELSE dbFlow
          /\ failed' = IF ok THEN failed ELSE failed \cup {r}
    /\ flow' = [flow EXCEPT ![r] = Release([flow[r] EXCEPT !.status = "expired"])]
    /\ todo' = todo \ {r}
    /\ UNCHANGED <<netVars, ns, flows, pc, cur, diff, queue, dbReq, clock, syncs,
                   expiredEarly>>

GcDone ==
    /\ todo = {}
    /\ Goto(NetMon, "gc", "idle")
    /\ UNCHANGED <<netVars, ns, flows, flow, cur, todo, diff, queue, dbVars, clock,
                   syncs, expiredEarly>>

\* What a synchronisation can find changed: an edge that is there keeps its
\* id or has been removed and added again, any edge may be gone or have
\* another metric.  Ids grow: an edge first seen by the k-th synchronisation
\* has id k.
NextEdge(l) ==
    [id : {syncs + 1} \cup ({graph.edges[l].id} \ {0}), metric : Metrics]
        \cup {[id |-> 0, metric |-> Down]}

SyncLock ==
    /\ syncs < MaxSyncs
    /\ Goto(NetMon, "idle", "swap")
    /\ CanWrite(ns)
    /\ ns' = Writing(ns, NetMon)
    /\ UNCHANGED <<netVars, flows, flow, cur, todo, diff, queue, dbVars, clock,
                   syncs, expiredEarly>>

\* Mutant: ns->lock is not released after the swap.
SyncSwapKeepsLock ==
    /\ Goto(NetMon, "swap", "list")
    /\ graph' = [graph EXCEPT !.nodes = routers]
    /\ syncs' = syncs + 1
    /\ UNCHANGED <<routers, gone, ns, flows, flow, cur, todo, diff, queue,
                   dbVars, clock, expiredEarly>>

SyncSwap ==
    /\ Goto(NetMon, "swap", "list")
    /\ ns' = Released(ns, NetMon)
    /\ \E new \in SUBSET (routers \ graph.nodes) :
       \E edges \in [Links -> UNION {NextEdge(l) : l \in Links}] :
          /\ \A l \in Links : edges[l] \in NextEdge(l)
          /\ graph' = [nodes |-> graph.nodes \cup new, edges |-> edges]
    /\ syncs' = syncs + 1
    /\ UNCHANGED <<routers, gone, flows, flow, cur, todo, diff, queue, dbVars, clock,
                   expiredEarly>>

\* Mutant: flows are listed without flow_hold.
RecomputeListNoHold ==
    /\ Goto(NetMon, "list", "each")
    /\ CanRead(ns)
    /\ todo' = {r \in Requests : InMap(r) /\ Affected(flow[r], graph)}
    /\ UNCHANGED <<netVars, ns, flows, flow, cur, diff, queue, dbVars, clock,
                   syncs, expiredEarly>>

\* recompute_flows lists the affected flows, and takes a reference on each.
RecomputeList ==
    LET hit == {r \in Requests : InMap(r) /\ Affected(flow[r], graph)}
    IN  /\ Goto(NetMon, "list", "each")
        /\ CanRead(ns)
        /\ todo' = hit
        /\ flow' = [r \in Requests |->
                      IF r \in hit THEN [flow[r] EXCEPT !.ref = @ + 1] ELSE flow[r]]
        /\ UNCHANGED <<netVars, ns, flows, cur, diff, queue, dbVars, clock, syncs,
                       expiredEarly>>

\* Mutant: the segments are compared after they have been replaced.
RecomputePathNoDiff(r) ==
    /\ Goto(NetMon, "each", "update")
    /\ r \in todo
    /\ CanRead(ns)
    /\ ns' = Reading(ns, NetMon)
    /\ cur' = [cur EXCEPT ![NetMon] = r]
    /\ \/ Usable(graph, r) = {} /\ flow' = flow
       \/ \E route \in Usable(graph, r) :
             flow' = [flow EXCEPT ![r].epath = EdgesOf(graph, route),
                                  ![r].segs = route]
    /\ diff' = FALSE
    /\ UNCHANGED <<netVars, flows, todo, queue, dbVars, clock, syncs,
                   expiredEarly>>

\* recompute_flow, up to the comparison of the segments.  Without a usable
\* route the flow keeps the path it has.
RecomputePath(r) ==
    /\ Goto(NetMon, "each", "update")
    /\ r \in todo
    /\ CanRead(ns)
    /\ ns' = Reading(ns, NetMon)
    /\ cur' = [cur EXCEPT ![NetMon] = r]
    /\ IF ~ InGraph(r)
       THEN flow' = [flow EXCEPT ![r].status = "orphan"] /\ diff' = FALSE
       ELSE IF Usable(graph, r) = {}
       THEN flow' = flow /\ diff' = FALSE
       ELSE \E route \in Usable(graph, r) :
              /\ flow' = [flow EXCEPT ![r].epath = EdgesOf(graph, route),
                                      ![r].segs = route]
              /\ diff' = (route # flow[r].segs)
    /\ UNCHANGED <<netVars, flows, todo, queue, dbVars, clock, syncs,
                   expiredEarly>>

\* The row is updated if the segments have changed; if that fails it is only
\* reported.  The reference on the flow and ns->lock are released.
RecomputeUpdate ==
    LET r == cur[NetMon]
    IN  /\ Goto(NetMon, "update", "each")
        /\ \E ok \in Outcomes :
              /\ dbFlow' = IF diff /\ ok
                           THEN [dbFlow EXCEPT ![r].segs = flow[r].segs] ELSE dbFlow
              /\ failed' = IF diff /\ ~ ok THEN failed \cup {r} ELSE failed
        /\ flow' = [flow EXCEPT ![r] = Release(flow[r])]
        /\ todo' = todo \ {r}
        /\ ns' = Released(ns, NetMon)
        /\ cur' = [cur EXCEPT ![NetMon] = None]
        /\ diff' = FALSE
        /\ UNCHANGED <<netVars, flows, queue, dbReq, clock, syncs, expiredEarly>>

RecomputeDone ==
    /\ todo = {}
    /\ Goto(NetMon, "each", "idle")
    /\ UNCHANGED <<netVars, ns, flows, flow, cur, todo, diff, queue, dbVars, clock,
                   syncs, expiredEarly>>

NetmonStep ==
    \/ \E r \in Requests : GcExpire(r) \/ RecomputePath(r)
    \/ GcScan \/ GcDone
    \/ SyncSwap \/ RecomputeList \/ RecomputeUpdate \/ RecomputeDone

Next ==
    \/ \E r \in Requests, status \in {"pending", "denied"} : FlowReq(r, status)
    \/ \E n \in Routers : NewRouter(n) \/ RouterRemoved(n)
    \/ \E w \in Workers, r \in Requests : WorkerPop(w, r) \/ WorkerSkip(w, r)
    \/ \E w \in Workers : WorkerStep(w)
    \/ SyncLock
    \/ NetmonStep
    \/ Tick

Spec == Init /\ [][Next]_vars

\* Threads are scheduled, workers take requests from a buffer that is not
\* empty, and netmon goes on with what it has started.
Fairness ==
    /\ \A w \in Workers : WF_vars(WorkerStep(w))
    /\ \A w \in Workers :
          WF_vars(\E r \in Requests : WorkerPop(w, r) \/ WorkerSkip(w, r))
    /\ WF_vars(NetmonStep)

FairSpec == Spec /\ Fairness

-----------------------------------------------------------------------------
Edges == [link : Links, id : 1 .. MaxSyncs, metric : Metrics]

TypeOK ==
    /\ routers \in SUBSET Routers
    /\ graph.nodes \subseteq routers /\ gone \subseteq routers
    /\ graph.edges \in [Links -> [id : 0 .. MaxSyncs, metric : Metrics]]
    /\ ns \in RwLocks(Threads)
    /\ flows \in [Bsids -> Requests \cup {None}]
    /\ \A r \in Requests :
          /\ flow[r].mem \in {"none", "live", "freed"}
          /\ flow[r].ref \in 0 .. 2
          /\ flow[r].bsid \in Bsids \cup {None}
          /\ flow[r].epath \subseteq Edges
          /\ flow[r].segs \subseteq Links
          /\ flow[r].timestamp \in 0 .. MaxClock
          /\ flow[r].status \in {None, "active", "expired", "orphan"}
          /\ flow[r].uuid \in BOOLEAN
          /\ dbReq[r] \in {None, "pending", "denied", "norouter", "noprefix",
                           "unavailable", "error", "allowed"}
          /\ dbFlow[r].status \in {None, "active", "expired"}
          /\ dbFlow[r].segs \subseteq Links
    /\ pc[NetMon] \in {"idle", "gc", "swap", "list", "each", "update"}
    /\ \A w \in Workers : pc[w] \in {"idle", "deny", "lock", "lookup", "insert",
                                     "commit", "undo", "allow", "unlock"}
    /\ cur \in [Threads -> Requests \cup {None}]
    /\ todo \in SUBSET Requests
    /\ diff \in BOOLEAN
    /\ queue \in SUBSET Requests
    /\ clock \in 0 .. MaxClock /\ syncs \in 0 .. MaxSyncs
    /\ expiredEarly \in SUBSET Requests /\ failed \in SUBSET Requests

\* No flow escapes a change of the graph: once recompute_flows is done, every
\* flow in the map runs over edges of the active graph with the metrics they
\* have there, or the active graph has no route for it.  A worker that was
\* computing a path when the graph changed is no exception.
FlowsFollowGraph ==
    pc[NetMon] \in {"idle", "gc", "swap"} =>
        \A r \in Requests :
            InMap(r) => ~ Affected(flow[r], graph) \/ Usable(graph, r) = {}

\* A worker or netmon only touches a flow that is not freed; the one
\* exception is a flow whose ttl ran out before it was committed.
NoUseAfterFree ==
    /\ \A w \in Workers :
          pc[w] \in {"commit", "undo"} =>
              flow[cur[w]].mem = "live" \/ cur[w] \in expiredEarly
    /\ \A r \in todo : flow[r].mem = "live" \/ r \in expiredEarly
    /\ \A r \in Requests : InMap(r) => flow[r].mem = "live"

\* A packet that carries the binding segment of a flow is steered into that
\* flow as long as it lives: although workers draw binding segments at random
\* and concurrently, none takes over the entry of a flow that has not been
\* collected.  (Not so once a flow has expired before it was committed.)
BsidsAreUnique ==
    expiredEarly = {} =>
        \A r \in Requests :
            flow[r].mem = "live" /\ flow[r].bsid # None =>
                \/ flows[flow[r].bsid] = r
                \/ pc[NetMon] = "gc" /\ r \in todo

\* FlowState tells the routers what the controller believes: a flow in the
\* map that has a row has its segments there, unless an update of the row
\* failed or is under way.
RowsFollowFlows ==
    \A r \in Requests :
        InMap(r) /\ flow[r].uuid /\ r \notin failed /\ cur[NetMon] # r =>
            dbFlow[r] = [status |-> "active", segs |-> flow[r].segs]

\* A client that reads "allowed" finds the row of its flow.
AllowedHasRow ==
    \A r \in Requests : dbReq[r] = "allowed" => dbFlow[r] # NoRow

\* A request is answered once: no status other than "pending" is replaced.
AnsweredOnce ==
    [][\A r \in Requests : dbReq[r] \notin {None, "pending"} =>
           dbReq'[r] = dbReq[r]]_vars

\* Every request is answered if transactions succeed: workers, the collector
\* and the recomputation never wait for each other for ever.
RequestsAreAnswered ==
    \A r \in Requests : dbReq[r] = "pending" ~> dbReq[r] # "pending"

\* What the comment in gc_flows says: the flows of a router whose node is
\* removed from the network are orphaned, and collected.
RemovedRouterOrphansFlows ==
    \A r \in Requests :
        InMap(r) /\ SrcRt[r] \in gone ~> ~ InMap(r)
=============================================================================
