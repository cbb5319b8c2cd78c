--------------------------- MODULE FlowTableProofs ---------------------------
(***************************************************************************)
(* Proofs about the flows of sr-ctrl, for any requests, routes, routers    *)
(* and workers.                                                            *)
(*                                                                         *)
(* The argument follows a flow.  Only one worker ever works on a request   *)
(* (WorkInv), and until it has computed a path the flow is in no table     *)
(* (FreshInv).  While the worker holds ns->lock the graph is not swapped   *)
(* (LockInv): the path it inserts follows the active graph, so that        *)
(* recompute_flows never lists a flow a worker holds (FlightInv).  The     *)
(* references netmon has taken are those of its list (TodoInv).            *)
(***************************************************************************)
EXTENDS FlowTable, TLAPS

ReqStatus ==
    {None, "pending", "denied", "norouter", "noprefix", "unavailable", "error",
     "allowed"}
NetmonLabels == {"idle", "gc", "swap", "list", "each", "update"}
WorkerLabels ==
    {"idle", "deny", "lock", "lookup", "insert", "commit", "undo", "allow", "unlock"}
FlowType ==
    [mem : {"none", "live", "freed"}, ref : 0 .. 2, bsid : Bsids \cup {None},
     epath : SUBSET Edges, segs : SUBSET Links, timestamp : 0 .. MaxClock,
     status : {None, "active", "expired", "orphan"}, uuid : BOOLEAN]
Row == [status : {None, "active", "expired"}, segs : SUBSET Links]
Graphs ==
    [nodes : SUBSET Routers,
     edges : [Links -> [id : 0 .. MaxSyncs, metric : Metrics]]]

\* TypeOK, with the functions and records typed as such.
TypeInv ==
    /\ routers \in SUBSET Routers /\ graph \in Graphs
    /\ graph.nodes \subseteq routers /\ gone \subseteq routers
    /\ ns \in RwLocks(Threads)
    /\ flows \in [Bsids -> Requests \cup {None}]
    /\ flow \in [Requests -> FlowType]
    /\ pc \in [Threads -> NetmonLabels \cup WorkerLabels]
    /\ pc[NetMon] \in NetmonLabels /\ \A w \in Workers : pc[w] \in WorkerLabels
    /\ cur \in [Threads -> Requests \cup {None}]
    /\ todo \in SUBSET Requests /\ diff \in BOOLEAN /\ queue \in SUBSET Requests
    /\ dbReq \in [Requests -> ReqStatus] /\ dbFlow \in [Requests -> Row]
    /\ clock \in 0 .. MaxClock /\ syncs \in 0 .. MaxSyncs
    /\ expiredEarly \in SUBSET Requests /\ failed \in SUBSET Requests

\* ns->lock is held where the labels say.
LockInv ==
    /\ \A w \in Workers :
          /\ pc[w] \in {"lookup", "insert", "commit", "undo", "allow", "unlock"}
                => w \in ns.r
          /\ w \notin ns.w
    /\ pc[NetMon] = "update" => NetMon \in ns.r
    /\ pc[NetMon] = "swap" <=> NetMon \in ns.w
    /\ ns.w = {} \/ ns.r = {}
    /\ pc[NetMon] = "swap" => syncs < MaxSyncs

\* A request is read once, queued once and taken by one worker, which works on
\* it until it is answered.
WorkInv ==
    /\ \A w \in Workers :
          /\ pc[w] = "idle" <=> cur[w] = None
          /\ pc[w] # "idle" => dbReq[cur[w]] # None /\ cur[w] \notin queue
          /\ pc[w] \in {"deny", "lock", "lookup", "insert", "commit", "allow"}
                => dbReq[cur[w]] = "pending"
    /\ \A v, w \in Workers : cur[v] = cur[w] /\ v # w => cur[v] = None
    /\ \A r \in queue : dbReq[r] # None
    /\ pc[NetMon] = "update" <=> cur[NetMon] # None
    /\ pc[NetMon] = "update" => cur[NetMon] \in todo

\* A request without a flow: the worker has not computed its path.
Unserved(r) ==
    dbReq[r] = None \/ r \in queue
        \/ \E w \in Workers : cur[w] = r /\ pc[w] \in {"deny", "lock", "lookup"}

FreshInv ==
    \A r \in Requests :
        /\ Unserved(r) => flow[r].mem = "none"
        /\ flow[r].mem = "none" => r \notin todo \cup expiredEarly
        /\ flow[r].mem # "none" => InGraph(r)

\* The map leads to live flows, each by its own binding segment.
MapInv ==
    \A b \in Bsids :
        flows[b] # None =>
            flow[flows[b]].mem = "live" /\ flow[flows[b]].bsid = b

\* What a flow that a worker is creating is like.
FlightInv ==
    \A w \in Workers :
        /\ pc[w] \in {"insert", "commit", "undo"} =>
              /\ ~ Affected(flow[cur[w]], graph)
              /\ ~ flow[cur[w]].uuid
              /\ cur[w] \notin expiredEarly =>
                    flow[cur[w]].mem = "live" /\ cur[w] \notin todo
        /\ pc[w] = "insert" =>
              /\ flow[cur[w]].bsid = None
              /\ cur[w] \notin expiredEarly
        /\ pc[w] \in {"commit", "undo"} => flow[cur[w]].bsid # None

\* The flows on netmon's list, and the references on flows.
TodoInv ==
    /\ pc[NetMon] \in {"idle", "swap", "list"} => todo = {}
    /\ pc[NetMon] = "gc" =>
          \A r \in todo :
              /\ flow[r].ref = 1 /\ ~ InMap(r)
              /\ flow[r].mem = "live" \/ r \in expiredEarly
    /\ pc[NetMon] \in {"each", "update"} =>
          \A r \in todo :
              /\ flow[r].mem = "live" /\ flow[r].ref = 2
              /\ \A w \in Workers :
                    pc[w] \in {"insert", "commit", "undo"} => cur[w] # r
    /\ \A r \in Requests \ todo :
          /\ flow[r].mem = "live" => flow[r].ref = 1
          /\ flow[r].ref \in 0 .. 1

\* Flows that do not follow the active graph are still to be recomputed.
GraphInv ==
    pc[NetMon] # "list" =>
        \A r \in Requests :
            InMap(r) /\ (r \in todo => r = cur[NetMon]) =>
                ~ Affected(flow[r], graph) \/ Usable(graph, r) = {}

\* RowsFollowFlows, and what it is for the flow that netmon is updating.
RowInv ==
    \A r \in Requests :
        InMap(r) /\ flow[r].uuid /\ r \notin failed =>
            /\ dbFlow[r].status = "active"
            /\ dbFlow[r].segs = flow[r].segs \/ (cur[NetMon] = r /\ diff)

\* A worker that is about to answer "allowed" has inserted the row.
AllowInv ==
    /\ \A r \in Requests : dbReq[r] = "allowed" => dbFlow[r].status # None
    /\ \A w \in Workers : pc[w] = "allow" => dbFlow[cur[w]].status # None

IInv ==
    /\ TypeInv
    /\ LockInv
    /\ WorkInv
    /\ FreshInv
    /\ MapInv
    /\ FlightInv
    /\ TodoInv
    /\ GraphInv
    /\ RowInv
    /\ AllowInv
    /\ BsidsAreUnique

-----------------------------------------------------------------------------
\* Who is who: threads and the empty marks are told apart.
LEMMA Names ==
    /\ NetMon \in Threads /\ Workers \subseteq Threads /\ NetMon \notin Workers
    /\ None \notin Requests /\ None \notin Bsids
    /\ None \notin {"pending", "denied", "allowed", "error", "norouter", "noprefix",
                    "unavailable", "active", "expired", "orphan"}
BY FlowAssumption DEF Threads, None

\* The edges of a usable route are those of the graph.
LEMMA RouteEdges ==
    ASSUME TypeInv, NEW r \in Requests, NEW route \in Usable(graph, r)
    PROVE  /\ route \in SUBSET Links
           /\ EdgesOf(graph, route) \in SUBSET Edges
           /\ \A e \in EdgesOf(graph, route) :
                 graph.edges[e.link].id = e.id /\ graph.edges[e.link].metric = e.metric
<1>1. route \in SUBSET Links /\ \A l \in route : graph.edges[l].id # 0
  BY FlowAssumption DEF Usable
<1>2. \A l \in Links : graph.edges[l] \in [id : 0 .. MaxSyncs, metric : Metrics]
  BY DEF TypeInv, Graphs
<1>3. ASSUME NEW e \in EdgesOf(graph, route)
      PROVE  /\ e \in Edges
             /\ graph.edges[e.link].id = e.id /\ graph.edges[e.link].metric = e.metric
  <2>1. PICK l \in route :
            e = [link |-> l, id |-> graph.edges[l].id, metric |-> graph.edges[l].metric]
    BY <1>3 DEF EdgesOf
  <2>2. /\ l \in Links /\ graph.edges[l].id \in 1 .. MaxSyncs
        /\ graph.edges[l].metric \in Metrics
    BY <1>1, <1>2, FlowAssumption
  <2> QED
    BY <2>1, <2>2 DEF Edges
<1> QED
  BY <1>1, <1>3

\* The worker's path.
FirstPath(r, f) ==
    /\ flow' = [flow EXCEPT ![r] = f]
    /\ f.mem = "live" /\ f.ref = 1 /\ f.bsid = None /\ ~ f.uuid
    /\ \A x \in f.epath :
          graph.edges[x.link].id = x.id /\ graph.edges[x.link].metric = x.metric

LEMMA PathFound ==
    ASSUME IInv, NEW w \in Workers, WorkerPath(w)
    PROVE  \E f \in FlowType : FirstPath(cur[w], f)
<1>1. cur[w] \in Requests
  BY Names DEF IInv, TypeInv, WorkInv, WorkerPath, Goto
<1>2. PICK route \in Usable(graph, cur[w]) :
          flow' = [flow EXCEPT ![cur[w]] = NewFlow(graph, route)]
  BY DEF WorkerPath
<1> DEFINE f == NewFlow(graph, route)
<1>3. /\ f.mem = "live" /\ f.ref = 1 /\ f.bsid = None /\ f.uuid = FALSE
      /\ f.epath = EdgesOf(graph, route) /\ f.segs = route
      /\ f.timestamp = clock /\ f.status = "active"
  BY DEF NewFlow, NoFlow
<1>4. NoFlow \in FlowType
  BY FlowAssumption DEF NoFlow, FlowType
<1>5. clock \in 0 .. MaxClock
  BY DEF IInv, TypeInv
<1>6. /\ EdgesOf(graph, route) \in SUBSET Edges /\ route \in SUBSET Links
      /\ \A x \in EdgesOf(graph, route) :
            graph.edges[x.link].id = x.id /\ graph.edges[x.link].metric = x.metric
  BY <1>1, RouteEdges DEF IInv
<1>7. f \in FlowType
  <2>1. ASSUME NEW x \in FlowType, NEW e \in SUBSET Edges, NEW s \in SUBSET Links,
               NEW c \in 0 .. MaxClock, NEW i \in 0 .. 2
        PROVE  [x EXCEPT !.mem = "live", !.ref = i, !.epath = e, !.segs = s,
                         !.timestamp = c, !.status = "active"] \in FlowType
    BY DEF FlowType
  <2>2. \A i \in 0 .. 2 :
            [NoFlow EXCEPT !.mem = "live", !.ref = i, !.epath = EdgesOf(graph, route),
                           !.segs = route, !.timestamp = clock, !.status = "active"]
                \in FlowType
    BY <1>4, <1>5, <1>6, <2>1
  <2>3. 1 \in 0 .. 2
    OBVIOUS
  <2> QED
    BY <2>2, <2>3, Zenon DEF NewFlow
<1> HIDE DEF f
<1> QED
  BY <1>2, <1>3, <1>6, <1>7 DEF f, FirstPath

\* A request that can be served has both its routers in the active graph.
LEMMA ServedInGraph ==
    ASSUME NEW r, Lookup(r) = "ok"
    PROVE  InGraph(r)
BY DEF Lookup

\* What recompute_flow makes of a flow: never an orphan, because the routers of
\* a flow stay in the active graph.
NewPath(r, e, s) ==
    /\ flow' = [flow EXCEPT ![r] = [flow[r] EXCEPT !.epath = e, !.segs = s]]
    /\ \/ Usable(graph, r) = {}
       \/ \A x \in e :
             graph.edges[x.link].id = x.id /\ graph.edges[x.link].metric = x.metric
    /\ diff' \in BOOLEAN /\ (diff' \/ s = flow[r].segs)

LEMMA Recomputed ==
    ASSUME IInv, NEW r \in Requests, RecomputePath(r)
    PROVE  \E e \in SUBSET Edges, s \in SUBSET Links : NewPath(r, e, s)
<1>1. r \in todo /\ pc[NetMon] = "each"
  BY DEF RecomputePath, Goto
<1>2. InGraph(r)
  BY <1>1 DEF IInv, TodoInv, FreshInv
<1>3. flow \in [Requests -> FlowType]
  BY DEF IInv, TypeInv
<1>4. CASE Usable(graph, r) = {}
  <2>1. flow' = flow /\ diff' = FALSE
    BY <1>2, <1>4 DEF RecomputePath
  <2>2. flow = [flow EXCEPT ![r] = [flow[r] EXCEPT !.epath = flow[r].epath,
                                                   !.segs = flow[r].segs]]
    BY <1>3 DEF FlowType
  <2>3. flow[r].epath \in SUBSET Edges /\ flow[r].segs \in SUBSET Links
    BY <1>3 DEF FlowType
  <2>4. NewPath(r, flow[r].epath, flow[r].segs)
    BY <1>4, <2>1, <2>2 DEF NewPath
  <2> QED
    BY <2>3, <2>4
<1>5. CASE Usable(graph, r) # {}
  <2>1. PICK route \in Usable(graph, r) :
            /\ flow' = [flow EXCEPT ![r].epath = EdgesOf(graph, route),
                                    ![r].segs = route]
            /\ diff' = (route # flow[r].segs)
    BY <1>2, <1>5 DEF RecomputePath
  <2>2. flow' = [flow EXCEPT ![r] = [flow[r] EXCEPT !.epath = EdgesOf(graph, route),
                                                    !.segs = route]]
    BY <1>3, <2>1 DEF FlowType
  <2>3. diff' \in BOOLEAN /\ (diff' \/ route = flow[r].segs)
    BY <2>1, Zenon
  <2>4. /\ EdgesOf(graph, route) \in SUBSET Edges /\ route \in SUBSET Links
        /\ \A x \in EdgesOf(graph, route) :
              graph.edges[x.link].id = x.id /\ graph.edges[x.link].metric = x.metric
    BY RouteEdges DEF IInv
  <2>5. NewPath(r, EdgesOf(graph, route), route)
    BY <2>2, <2>3, <2>4 DEF NewPath
  <2> QED
    BY <2>4, <2>5
<1> QED
  BY <1>4, <1>5

\* The answer that cannot be served by a flow.
LEMMA Refusals ==
    ASSUME NEW r
    PROVE  Lookup(r) \in {"norouter", "noprefix", "unavailable", "error", "ok"}
BY DEF Lookup

\* An answer changes the status of one request, unless the update fails.
LEMMA Answered ==
    ASSUME IInv, NEW r \in Requests, NEW s \in ReqStatus, SetFlowreqStatus(r, s)
    PROVE  /\ dbReq' \in [Requests -> ReqStatus]
           /\ dbReq'[r] \in {dbReq[r], s}
           /\ \A q \in Requests : q # r => dbReq'[q] = dbReq[q]
<1>1. dbReq \in [Requests -> ReqStatus]
  BY DEF IInv, TypeInv
<1>2. PICK ok \in Outcomes : dbReq' = [dbReq EXCEPT ![r] = IF ok THEN s ELSE @]
  BY DEF SetFlowreqStatus
<1>3. PICK v \in {dbReq[r], s} : dbReq' = [dbReq EXCEPT ![r] = v]
  BY <1>2
<1> QED
  BY <1>1, <1>3

\* The changes that the threads make to a flow, typed.
LEMMA FlowUpdates ==
    ASSUME NEW x \in FlowType
    PROVE  /\ \A b \in Bsids : [x EXCEPT !.bsid = b] \in FlowType
           /\ [x EXCEPT !.uuid = TRUE] \in FlowType
           /\ [x EXCEPT !.mem = "freed"] \in FlowType
           /\ \A e \in SUBSET Edges, s \in SUBSET Links :
                 [x EXCEPT !.epath = e, !.segs = s] \in FlowType
           /\ x.ref \in 0 .. 1 => [x EXCEPT !.ref = @ + 1] \in FlowType
           /\ x.ref \in 1 .. 2 =>
                 /\ Release(x) \in FlowType
                 /\ Release([x EXCEPT !.status = "expired"]) \in FlowType
<1>1. \A b \in Bsids : [x EXCEPT !.bsid = b] \in FlowType
  BY DEF FlowType
<1>2. [x EXCEPT !.uuid = TRUE] \in FlowType
  BY DEF FlowType
<1>3. [x EXCEPT !.mem = "freed"] \in FlowType
  BY DEF FlowType
<1>4. \A e \in SUBSET Edges, s \in SUBSET Links :
          [x EXCEPT !.epath = e, !.segs = s] \in FlowType
  BY DEF FlowType
<1>5. x.ref \in 0 .. 1 => [x EXCEPT !.ref = @ + 1] \in FlowType
  BY DEF FlowType
<1>6. ASSUME NEW y \in FlowType, y.ref \in 1 .. 2
      PROVE  Release(y) \in FlowType
  <2>1. \A i \in 0 .. 2, m \in {"none", "live", "freed"} :
            [y EXCEPT !.ref = i, !.mem = m] \in FlowType
    BY DEF FlowType
  <2>2. y.ref - 1 \in 0 .. 2
    BY <1>6
  <2>3. (IF y.ref = 1 THEN "freed" ELSE y.mem) \in {"none", "live", "freed"}
    BY DEF FlowType
  <2> QED
    BY <2>1, <2>2, <2>3 DEF Release
<1>7. [x EXCEPT !.status = "expired"] \in FlowType
      /\ [x EXCEPT !.status = "expired"].ref = x.ref
  BY DEF FlowType
<1> QED
  BY <1>1, <1>2, <1>3, <1>4, <1>5, <1>6, <1>7

\* A thread that is busy with a request has one.
LEMMA Busy ==
    ASSUME IInv
    PROVE  /\ \A w \in Workers : pc[w] # "idle" => cur[w] \in Requests
           /\ pc[NetMon] = "update" => cur[NetMon] \in Requests
           /\ \A w \in Workers :
                 pc[w] \in {"commit", "undo"} => flow[cur[w]].bsid \in Bsids
<1>1. \A w \in Workers : pc[w] # "idle" => cur[w] \in Requests
  BY Names DEF IInv, TypeInv, WorkInv
<1>2. pc[NetMon] = "update" => cur[NetMon] \in Requests
  BY DEF IInv, TypeInv, WorkInv
<1>3. ASSUME NEW w \in Workers, pc[w] \in {"commit", "undo"}
      PROVE  flow[cur[w]].bsid \in Bsids
  <2>1. cur[w] \in Requests /\ flow \in [Requests -> FlowType]
    BY <1>1, <1>3 DEF IInv, TypeInv
  <2>2. flow[cur[w]].bsid \in Bsids \cup {None} /\ flow[cur[w]].bsid # None
    BY <1>3, <2>1 DEF IInv, FlightInv, FlowType
  <2> QED
    BY <2>2
<1> QED
  BY <1>1, <1>2, <1>3

\* The active graph after a swap.
LEMMA Swapped ==
    ASSUME IInv, SyncSwap
    PROVE  /\ graph' \in Graphs
           /\ graph.nodes \subseteq graph'.nodes /\ graph'.nodes \subseteq routers
           /\ syncs' \in 0 .. MaxSyncs
<1>1. graph \in Graphs /\ graph.nodes \subseteq routers /\ routers \subseteq Routers
  BY DEF IInv, TypeInv
<1>2. syncs \in 0 .. MaxSyncs /\ syncs < MaxSyncs /\ MaxSyncs \in Nat
  BY FlowAssumption DEF IInv, TypeInv, LockInv, SyncSwap, Goto
<1>3. PICK new \in SUBSET (routers \ graph.nodes),
           edges \in [Links -> UNION {NextEdge(l) : l \in Links}] :
          /\ \A l \in Links : edges[l] \in NextEdge(l)
          /\ graph' = [nodes |-> graph.nodes \cup new, edges |-> edges]
  BY DEF SyncSwap
<1>4. ASSUME NEW l \in Links
      PROVE  edges[l] \in [id : 0 .. MaxSyncs, metric : Metrics]
  <2>1. graph.edges[l].id \in 0 .. MaxSyncs /\ syncs + 1 \in 0 .. MaxSyncs
    BY <1>1, <1>2 DEF Graphs
  <2>2. 0 \in 0 .. MaxSyncs /\ Down \in Metrics
    BY <1>2, FlowAssumption
  <2> QED
    BY <1>3, <2>1, <2>2 DEF NextEdge
<1>5. edges \in [Links -> [id : 0 .. MaxSyncs, metric : Metrics]]
  BY <1>3, <1>4
<1>6. graph' \in Graphs
  BY <1>1, <1>3, <1>5 DEF Graphs
<1>7. syncs' \in 0 .. MaxSyncs
  BY <1>2 DEF SyncSwap
<1> QED
  BY <1>1, <1>3, <1>6, <1>7

\* The answers a worker gives, each to the request it works on.
Answers(w) == WorkerDeny(w) \/ WorkerRefuse(w) \/ WorkerCommitFails(w) \/ WorkerAllow(w)

LEMMA AnswerKinds ==
    ASSUME IInv, NEW w \in Workers, Answers(w)
    PROVE  /\ cur[w] \in Requests /\ dbReq[cur[w]] = "pending"
           /\ dbReq' \in [Requests -> ReqStatus]
           /\ \A q \in Requests : q # cur[w] => dbReq'[q] = dbReq[q]
           /\ dbReq'[cur[w]] # None
           /\ dbReq'[cur[w]] = "allowed" => pc[w] = "allow"
<1>1. pc[w] \in {"deny", "lookup", "commit", "allow"}
  BY DEF Answers, WorkerDeny, WorkerRefuse, WorkerCommitFails, WorkerAllow, Goto
<1>2. cur[w] \in Requests /\ dbReq[cur[w]] = "pending"
  BY <1>1, Busy DEF IInv, WorkInv
<1>3. \E s \in ReqStatus \ {None} :
          SetFlowreqStatus(cur[w], s) /\ (s = "allowed" => pc[w] = "allow")
  <2>1. CASE WorkerDeny(w)
    <3>1. "denied" \in ReqStatus \ {None}
      BY Names DEF ReqStatus
    <3> QED
      BY <2>1, <3>1 DEF WorkerDeny
  <2>2. CASE WorkerRefuse(w)
    <3>1. Lookup(cur[w]) \in ReqStatus \ {None, "allowed"}
      BY <2>2, Refusals, Names DEF ReqStatus, WorkerRefuse
    <3> QED
      BY <2>2, <3>1 DEF WorkerRefuse
  <2>3. CASE WorkerCommitFails(w)
    <3>1. "error" \in ReqStatus \ {None}
      BY Names DEF ReqStatus
    <3> QED
      BY <2>3, <3>1 DEF WorkerCommitFails
  <2>4. CASE WorkerAllow(w)
    <3>1. "allowed" \in ReqStatus \ {None}
      BY Names DEF ReqStatus
    <3> QED
      BY <2>4, <3>1 DEF WorkerAllow, Goto
  <2> QED
    BY <2>1, <2>2, <2>3, <2>4 DEF Answers
<1>4. PICK s \in ReqStatus \ {None} :
          SetFlowreqStatus(cur[w], s) /\ (s = "allowed" => pc[w] = "allow")
  BY <1>3
<1>5. /\ dbReq' \in [Requests -> ReqStatus]
      /\ dbReq'[cur[w]] \in {dbReq[cur[w]], s}
      /\ \A q \in Requests : q # cur[w] => dbReq'[q] = dbReq[q]
  BY <1>2, <1>4, Answered
<1> QED
  BY <1>2, <1>4, <1>5, Names

-----------------------------------------------------------------------------
\* What the steps that write to flows do to each of them.
SamePath(f, g) == f.epath = g.epath /\ f.segs = g.segs
SameId(f, g) == f.bsid = g.bsid /\ f.uuid = g.uuid
SameUse(f, g) == f.mem = g.mem /\ f.ref = g.ref
Others(r) == \A q \in Requests : q # r => flow'[q] = flow[q]

LEMMA PathEffect ==
    ASSUME IInv, NEW w \in Workers, WorkerPath(w)
    PROVE  /\ cur[w] \in Requests /\ InGraph(cur[w]) /\ Others(cur[w])
           /\ flow'[cur[w]].mem = "live" /\ flow'[cur[w]].ref = 1
           /\ flow'[cur[w]].bsid = None /\ ~ flow'[cur[w]].uuid
           /\ ~ Affected(flow'[cur[w]], graph)
<1>1. cur[w] \in Requests /\ Lookup(cur[w]) = "ok"
  BY Busy DEF WorkerPath, Goto
<1>2. PICK f \in FlowType : FirstPath(cur[w], f)
  BY PathFound
<1>3. flow \in [Requests -> FlowType]
  BY DEF IInv, TypeInv
<1>4. flow'[cur[w]] = f /\ Others(cur[w])
  BY <1>1, <1>2, <1>3 DEF FirstPath, Others
<1> QED
  BY <1>1, <1>2, <1>4, ServedInGraph DEF FirstPath, Affected

LEMMA InsertEffect ==
    ASSUME IInv, NEW w \in Workers, WorkerInsert(w)
    PROVE  /\ cur[w] \in Requests /\ Others(cur[w])
           /\ SamePath(flow'[cur[w]], flow[cur[w]])
           /\ SameUse(flow'[cur[w]], flow[cur[w]])
           /\ flow'[cur[w]].uuid = flow[cur[w]].uuid
           /\ flow'[cur[w]].bsid \in Bsids /\ flows[flow'[cur[w]].bsid] = None
           /\ flows' = [flows EXCEPT ![flow'[cur[w]].bsid] = cur[w]]
<1>1. cur[w] \in Requests
  BY Busy DEF WorkerInsert, Goto
<1>2. PICK b \in Bsids :
          /\ flows[b] = None
          /\ flows' = [flows EXCEPT ![b] = cur[w]]
          /\ flow' = [flow EXCEPT ![cur[w]].bsid = b]
  BY DEF WorkerInsert
<1>3. flow \in [Requests -> FlowType]
  BY DEF IInv, TypeInv
<1>4. flow'[cur[w]] = [flow[cur[w]] EXCEPT !.bsid = b] /\ Others(cur[w])
  BY <1>1, <1>2, <1>3 DEF Others
<1>5. flow'[cur[w]].bsid = b
  BY <1>1, <1>3, <1>4 DEF FlowType
<1>6. /\ SamePath(flow'[cur[w]], flow[cur[w]]) /\ SameUse(flow'[cur[w]], flow[cur[w]])
      /\ flow'[cur[w]].uuid = flow[cur[w]].uuid
  BY <1>1, <1>3, <1>4 DEF FlowType, SamePath, SameUse
<1> QED
  BY <1>1, <1>2, <1>4, <1>5, <1>6

LEMMA CommitEffect ==
    ASSUME IInv, NEW w \in Workers, WorkerCommit(w)
    PROVE  /\ cur[w] \in Requests /\ Others(cur[w])
           /\ SamePath(flow'[cur[w]], flow[cur[w]])
           /\ SameUse(flow'[cur[w]], flow[cur[w]])
           /\ flow'[cur[w]].bsid = flow[cur[w]].bsid
           /\ dbFlow'[cur[w]].status = "active"
           /\ dbFlow'[cur[w]].segs = flow[cur[w]].segs
           /\ \A q \in Requests : q # cur[w] => dbFlow'[q] = dbFlow[q]
<1>1. cur[w] \in Requests
  BY Busy DEF WorkerCommit, Goto
<1>2. flow \in [Requests -> FlowType] /\ dbFlow \in [Requests -> Row]
  BY DEF IInv, TypeInv
<1>3. flow'[cur[w]] = [flow[cur[w]] EXCEPT !.uuid = TRUE] /\ Others(cur[w])
  BY <1>1, <1>2 DEF WorkerCommit, Others
<1>4. /\ dbFlow'[cur[w]] = [status |-> "active", segs |-> flow[cur[w]].segs]
      /\ \A q \in Requests : q # cur[w] => dbFlow'[q] = dbFlow[q]
  BY <1>1, <1>2 DEF WorkerCommit
<1> QED
  BY <1>1, <1>2, <1>3, <1>4 DEF FlowType, SamePath, SameUse

LEMMA UndoEffect ==
    ASSUME IInv, NEW w \in Workers, WorkerUndo(w)
    PROVE  /\ cur[w] \in Requests /\ Others(cur[w])
           /\ SamePath(flow'[cur[w]], flow[cur[w]])
           /\ SameId(flow'[cur[w]], flow[cur[w]])
           /\ flow'[cur[w]].mem = "freed"
           /\ flow'[cur[w]].ref = flow[cur[w]].ref
           /\ flow[cur[w]].bsid \in Bsids
           /\ flows' = [flows EXCEPT ![flow[cur[w]].bsid] = None]
<1>1. cur[w] \in Requests /\ flow[cur[w]].bsid \in Bsids
  BY Busy DEF WorkerUndo, Goto
<1>2. flow \in [Requests -> FlowType]
  BY DEF IInv, TypeInv
<1>3. flow'[cur[w]] = [flow[cur[w]] EXCEPT !.mem = "freed"] /\ Others(cur[w])
  BY <1>1, <1>2 DEF WorkerUndo, Others
<1> QED
  BY <1>1, <1>2, <1>3 DEF WorkerUndo, FlowType, SamePath, SameId

LEMMA ExpireEffect ==
    ASSUME IInv, NEW r \in Requests, GcExpire(r)
    PROVE  /\ r \in todo /\ ~ InMap(r) /\ Others(r)
           /\ SamePath(flow'[r], flow[r]) /\ SameId(flow'[r], flow[r])
           /\ flow'[r].mem = "freed" /\ flow'[r].ref = 0
           /\ flow[r].mem = "live" \/ r \in expiredEarly
           /\ dbFlow'[r].status \in {dbFlow[r].status, "expired"}
           /\ \A q \in Requests : q # r => dbFlow'[q] = dbFlow[q]
<1>1. r \in todo /\ pc[NetMon] = "gc"
  BY DEF GcExpire
<1>2. flow \in [Requests -> FlowType] /\ dbFlow \in [Requests -> Row]
  BY DEF IInv, TypeInv
<1>3. flow[r].ref = 1 /\ ~ InMap(r) /\ (flow[r].mem = "live" \/ r \in expiredEarly)
  BY <1>1 DEF IInv, TodoInv
<1>4. flow'[r] = Release([flow[r] EXCEPT !.status = "expired"]) /\ Others(r)
  BY <1>2 DEF GcExpire, Others
<1> DEFINE f == [flow[r] EXCEPT !.status = "expired"]
<1>5. /\ f \in FlowType /\ f.ref = flow[r].ref
      /\ SamePath(f, flow[r]) /\ SameId(f, flow[r])
  BY <1>2 DEF FlowType, SamePath, SameId
<1> HIDE DEF f
<1>6. /\ SamePath(Release(f), f) /\ SameId(Release(f), f)
      /\ Release(f).mem = "freed" /\ Release(f).ref = 0
  BY <1>3, <1>5 DEF FlowType, Release, SamePath, SameId
<1>7. /\ dbFlow'[r].status \in {dbFlow[r].status, "expired"}
      /\ \A q \in Requests : q # r => dbFlow'[q] = dbFlow[q]
  BY <1>2 DEF GcExpire, Row
<1> QED
  BY <1>1, <1>3, <1>4, <1>5, <1>6, <1>7 DEF SamePath, SameId, f

LEMMA RecomputeEffect ==
    ASSUME IInv, NEW r \in Requests, RecomputePath(r)
    PROVE  /\ r \in todo /\ Others(r)
           /\ SameUse(flow'[r], flow[r]) /\ SameId(flow'[r], flow[r])
           /\ ~ Affected(flow'[r], graph) \/ Usable(graph, r) = {}
           /\ diff' \in BOOLEAN /\ (diff' \/ flow'[r].segs = flow[r].segs)
<1>1. r \in todo
  BY DEF RecomputePath
<1>2. PICK e \in SUBSET Edges, s \in SUBSET Links : NewPath(r, e, s)
  BY Recomputed
<1>3. flow \in [Requests -> FlowType]
  BY DEF IInv, TypeInv
<1>4. /\ flow'[r] = [flow[r] EXCEPT !.epath = e, !.segs = s]
      /\ Others(r)
  BY <1>2, <1>3 DEF NewPath, Others
<1>5. /\ flow'[r].epath = e /\ flow'[r].segs = s
      /\ SameUse(flow'[r], flow[r]) /\ SameId(flow'[r], flow[r])
  BY <1>3, <1>4 DEF FlowType, SameUse, SameId
<1>6. ~ Affected(flow'[r], graph) \/ Usable(graph, r) = {}
  BY <1>2, <1>5 DEF NewPath, Affected
<1> QED
  BY <1>1, <1>2, <1>4, <1>5, <1>6 DEF NewPath

LEMMA UpdateEffect ==
    ASSUME IInv, RecomputeUpdate
    PROVE  LET r == cur[NetMon]
           IN  /\ r \in todo /\ r \in Requests /\ Others(r)
               /\ SamePath(flow'[r], flow[r]) /\ SameId(flow'[r], flow[r])
               /\ flow'[r].mem = "live" /\ flow'[r].ref = 1 /\ flow[r].mem = "live"
               /\ dbFlow'[r].status = dbFlow[r].status
               /\ ~ diff => dbFlow'[r] = dbFlow[r]
               /\ diff /\ r \notin failed' => dbFlow'[r].segs = flow[r].segs
               /\ \A q \in Requests : q # r => dbFlow'[q] = dbFlow[q]
<1> DEFINE r == cur[NetMon]
<1>1. r \in todo /\ r \in Requests /\ pc[NetMon] = "update"
  BY Busy DEF IInv, WorkInv, RecomputeUpdate, Goto
<1>2. flow \in [Requests -> FlowType] /\ dbFlow \in [Requests -> Row]
  BY DEF IInv, TypeInv
<1>3. flow[r].ref = 2 /\ flow[r].mem = "live"
  BY <1>1 DEF IInv, TodoInv
<1>4. flow'[r] = Release(flow[r]) /\ Others(r)
  BY <1>1, <1>2 DEF RecomputeUpdate, Others
<1>5. /\ SamePath(Release(flow[r]), flow[r]) /\ SameId(Release(flow[r]), flow[r])
      /\ Release(flow[r]).mem = "live" /\ Release(flow[r]).ref = 1
  BY <1>1, <1>2, <1>3 DEF FlowType, Release, SamePath, SameId
<1>6. PICK ok \in Outcomes :
          /\ dbFlow' = IF diff /\ ok
                       THEN [dbFlow EXCEPT ![r].segs = flow[r].segs] ELSE dbFlow
          /\ failed' = IF diff /\ ~ ok THEN failed \cup {r} ELSE failed
  BY DEF RecomputeUpdate
<1>7. /\ dbFlow'[r].status = dbFlow[r].status
      /\ ~ diff => dbFlow'[r] = dbFlow[r]
      /\ diff /\ r \notin failed' => dbFlow'[r].segs = flow[r].segs
      /\ \A q \in Requests : q # r => dbFlow'[q] = dbFlow[q]
  BY <1>1, <1>2, <1>6 DEF Row
<1> QED
  BY <1>1, <1>3, <1>4, <1>5, <1>7

-----------------------------------------------------------------------------
\* Every step of every thread keeps the types.
LEMMA TypeStep ==
    ASSUME IInv, [Next]_vars
    PROVE  TypeInv'
<1> USE FlowAssumption
<1> USE DEF IInv, TypeInv, RwLocks, Reading, Writing, Released, NetmonLabels, WorkerLabels,
            Goto, Threads, netVars, dbVars
<1>1. ASSUME NEW r \in Requests, NEW status \in {"pending", "denied"},
             FlowReq(r, status)
      PROVE  TypeInv'
  BY <1>1 DEF FlowReq, ReqStatus
<1>2. ASSUME NEW n \in Routers, NewRouter(n) \/ RouterRemoved(n)
      PROVE  TypeInv'
  BY <1>2 DEF NewRouter, RouterRemoved
<1>3. ASSUME NEW w \in Workers, NEW r \in Requests, WorkerPop(w, r)
      PROVE  TypeInv'
  BY <1>3 DEF WorkerPop
<1>4. ASSUME NEW w \in Workers, NEW r \in Requests, WorkerSkip(w, r)
      PROVE  TypeInv'
  BY <1>4 DEF WorkerSkip
<1>5. ASSUME NEW w \in Workers, WorkerStep(w)
      PROVE  TypeInv'
  <2>1. CASE WorkerDeny(w)
    <3>1. dbReq' \in [Requests -> ReqStatus]
      BY <2>1, AnswerKinds DEF Answers
    <3> QED
      BY <2>1, <3>1 DEF WorkerDeny
  <2>2. CASE WorkerLock(w)
    BY <2>2 DEF WorkerLock
  <2>3. CASE WorkerRefuse(w)
    <3>1. dbReq' \in [Requests -> ReqStatus]
      BY <2>3, AnswerKinds DEF Answers
    <3> QED
      BY <2>3, <3>1 DEF WorkerRefuse
  <2>4. CASE WorkerPath(w)
    <3>1. PICK f \in FlowType : FirstPath(cur[w], f)
      BY <2>4, PathFound
    <3>2. flow' \in [Requests -> FlowType]
      BY <3>1 DEF FirstPath
    <3> QED
      BY <2>4, <3>2 DEF WorkerPath
  <2>5. CASE WorkerInsert(w)
    <3>1. PICK b \in Bsids : /\ flows' = [flows EXCEPT ![b] = cur[w]]
                             /\ flow' = [flow EXCEPT ![cur[w]].bsid = b]
      BY <2>5 DEF WorkerInsert
    <3>2. cur[w] \in Requests
      BY <2>5, Busy DEF WorkerInsert
    <3>3. flow' \in [Requests -> FlowType]
      BY <3>1, <3>2, FlowUpdates
    <3>4. flows' \in [Bsids -> Requests \cup {None}]
      BY <3>1, <3>2
    <3> QED
      BY <2>5, <3>3, <3>4 DEF WorkerInsert
  <2>6. CASE WorkerCommit(w)
    <3>1. cur[w] \in Requests
      BY <2>6, Busy DEF WorkerCommit
    <3>2. flow' \in [Requests -> FlowType]
      BY <2>6, <3>1, FlowUpdates DEF WorkerCommit
    <3>3. flow[cur[w]].segs \in SUBSET Links
      BY <3>1 DEF FlowType
    <3>4. dbFlow' \in [Requests -> Row]
      BY <2>6, <3>1, <3>3 DEF WorkerCommit, Row
    <3> QED
      BY <2>6, <3>2, <3>4 DEF WorkerCommit
  <2>7. CASE WorkerCommitFails(w)
    <3>1. dbReq' \in [Requests -> ReqStatus]
      BY <2>7, AnswerKinds DEF Answers
    <3> QED
      BY <2>7, <3>1 DEF WorkerCommitFails
  <2>8. CASE WorkerAllow(w)
    <3>1. dbReq' \in [Requests -> ReqStatus]
      BY <2>8, AnswerKinds DEF Answers
    <3> QED
      BY <2>8, <3>1 DEF WorkerAllow
  <2>9. CASE WorkerUndo(w)
    <3>1. cur[w] \in Requests /\ flow[cur[w]].bsid \in Bsids
      BY <2>9, Busy DEF WorkerUndo
    <3>2. flow' \in [Requests -> FlowType]
      BY <2>9, <3>1, FlowUpdates DEF WorkerUndo
    <3>3. flows' \in [Bsids -> Requests \cup {None}]
      BY <2>9 DEF WorkerUndo
    <3> QED
      BY <2>9, <3>2, <3>3 DEF WorkerUndo
  <2>10. CASE WorkerUnlock(w)
    BY <2>10 DEF WorkerUnlock
  <2> QED
    BY <1>5, <2>1, <2>2, <2>3, <2>4, <2>5, <2>6, <2>7, <2>8, <2>9, <2>10 DEF WorkerStep
<1>6. ASSUME NEW r \in Requests, GcExpire(r)
      PROVE  TypeInv'
  <2>1. flow[r] \in FlowType /\ flow[r].ref \in 1 .. 2
    BY <1>6 DEF GcExpire, TodoInv
  <2>2. flow' \in [Requests -> FlowType]
    BY <1>6, <2>1, FlowUpdates DEF GcExpire
  <2>3. dbFlow' \in [Requests -> Row] /\ failed' \in SUBSET Requests
    BY <1>6 DEF GcExpire, Row
  <2> QED
    BY <1>6, <2>2, <2>3 DEF GcExpire
<1>7. ASSUME NEW r \in Requests, RecomputePath(r)
      PROVE  TypeInv'
  <2>1. PICK e \in SUBSET Edges, s \in SUBSET Links : NewPath(r, e, s)
    BY <1>7, Recomputed
  <2>2. flow' \in [Requests -> FlowType]
    BY <2>1, FlowUpdates DEF NewPath
  <2>3. diff' \in BOOLEAN
    BY <2>1 DEF NewPath
  <2> QED
    BY <1>7, <2>2, <2>3 DEF RecomputePath
<1>8. CASE GcScan
  BY <1>8 DEF GcScan
<1>9. CASE GcDone
  BY <1>9 DEF GcDone
<1>10. CASE SyncLock
  BY <1>10 DEF SyncLock
<1>11. CASE SyncSwap
  BY <1>11, Swapped DEF SyncSwap
<1>12. CASE RecomputeList
  <2> DEFINE hit == {r \in Requests : InMap(r) /\ Affected(flow[r], graph)}
  <2>1. todo = {}
    BY <1>12 DEF RecomputeList, TodoInv
  <2>2. \A r \in Requests : flow[r] \in FlowType /\ flow[r].ref \in 0 .. 1
    BY <2>1 DEF TodoInv
  <2>3. \A r \in Requests : [flow[r] EXCEPT !.ref = @ + 1] \in FlowType
    BY <2>2, FlowUpdates
  <2>4. flow' \in [Requests -> FlowType] /\ todo' \in SUBSET Requests
    BY <1>12, <2>2, <2>3 DEF RecomputeList
  <2> QED
    BY <1>12, <2>4 DEF RecomputeList
<1>13. CASE RecomputeUpdate
  <2>1. cur[NetMon] \in Requests /\ cur[NetMon] \in todo
    BY <1>13, Busy DEF RecomputeUpdate, WorkInv
  <2>2. flow[cur[NetMon]] \in FlowType /\ flow[cur[NetMon]].ref \in 1 .. 2
    BY <1>13, <2>1 DEF RecomputeUpdate, TodoInv
  <2>3. flow' \in [Requests -> FlowType]
    BY <1>13, <2>2, FlowUpdates DEF RecomputeUpdate
  <2>4. dbFlow' \in [Requests -> Row] /\ failed' \in SUBSET Requests
    <3>1. PICK ok \in Outcomes :
              dbFlow' = IF diff /\ ok
                        THEN [dbFlow EXCEPT ![cur[NetMon]].segs = flow[cur[NetMon]].segs]
                        ELSE dbFlow
      BY <1>13 DEF RecomputeUpdate
    <3>2. flow[cur[NetMon]].segs \in SUBSET Links
      BY <2>2 DEF FlowType
    <3>3. dbFlow' \in [Requests -> Row]
      BY <2>1, <3>1, <3>2 DEF Row
    <3>4. failed' \in SUBSET Requests
      BY <1>13, <2>1 DEF RecomputeUpdate
    <3> QED
      BY <3>3, <3>4
  <2> QED
    BY <1>13, <2>3, <2>4 DEF RecomputeUpdate
<1>14. CASE RecomputeDone
  BY <1>14 DEF RecomputeDone
<1>15. CASE Tick
  BY <1>15 DEF Tick
<1>16. CASE UNCHANGED vars
  BY <1>16 DEF vars
<1> HIDE DEF TypeInv
<1> QED
  BY <1>1, <1>2, <1>3, <1>4, <1>5, <1>6, <1>7, <1>8, <1>9, <1>10, <1>11, <1>12, <1>13,
     <1>14, <1>15, <1>16
  DEF Next, NetmonStep

\* ns->lock is held where the labels say, and netmon swaps the graph alone.
LEMMA LockStep ==
    ASSUME IInv, [Next]_vars
    PROVE  LockInv'
<1> USE FlowAssumption
<1> USE DEF IInv, TypeInv, LockInv, RwLocks, CanRead, CanWrite, Reading, Writing, Released,
            NetmonLabels, WorkerLabels, Goto, Threads, netVars, dbVars
<1>1. ASSUME NEW r \in Requests, NEW status \in {"pending", "denied"},
             FlowReq(r, status)
      PROVE  LockInv'
  BY <1>1 DEF FlowReq
<1>2. ASSUME NEW n \in Routers, NewRouter(n) \/ RouterRemoved(n)
      PROVE  LockInv'
  BY <1>2 DEF NewRouter, RouterRemoved
<1>3. ASSUME NEW w \in Workers, NEW r \in Requests, WorkerPop(w, r)
      PROVE  LockInv'
  BY <1>3 DEF WorkerPop
<1>4. ASSUME NEW w \in Workers, NEW r \in Requests, WorkerSkip(w, r)
      PROVE  LockInv'
  BY <1>4 DEF WorkerSkip
<1>5. ASSUME NEW w \in Workers, WorkerStep(w)
      PROVE  LockInv'
  <2>1. CASE WorkerDeny(w)
    BY <2>1 DEF WorkerDeny, SetFlowreqStatus
  <2>2. CASE WorkerLock(w)
    BY <2>2 DEF WorkerLock
  <2>3. CASE WorkerRefuse(w)
    BY <2>3 DEF WorkerRefuse, SetFlowreqStatus
  <2>4. CASE WorkerPath(w)
    BY <2>4 DEF WorkerPath, NewFlow, NoFlow
  <2>5. CASE WorkerInsert(w)
    BY <2>5 DEF WorkerInsert
  <2>6. CASE WorkerCommit(w)
    BY <2>6 DEF WorkerCommit
  <2>7. CASE WorkerCommitFails(w)
    BY <2>7 DEF WorkerCommitFails, SetFlowreqStatus
  <2>8. CASE WorkerAllow(w)
    BY <2>8 DEF WorkerAllow, SetFlowreqStatus
  <2>9. CASE WorkerUndo(w)
    BY <2>9 DEF WorkerUndo
  <2>10. CASE WorkerUnlock(w)
    BY <2>10 DEF WorkerUnlock
  <2> QED
    BY <1>5, <2>1, <2>2, <2>3, <2>4, <2>5, <2>6, <2>7, <2>8, <2>9, <2>10 DEF WorkerStep
<1>6. ASSUME NEW r \in Requests, GcExpire(r)
      PROVE  LockInv'
  BY <1>6 DEF GcExpire, Release
<1>7. ASSUME NEW r \in Requests, RecomputePath(r)
      PROVE  LockInv'
  BY <1>7 DEF RecomputePath
<1>8. CASE GcScan
  BY <1>8 DEF GcScan
<1>9. CASE GcDone
  BY <1>9 DEF GcDone
<1>10. CASE SyncLock
  BY <1>10 DEF SyncLock
<1>11. CASE SyncSwap
  BY <1>11 DEF SyncSwap
<1>12. CASE RecomputeList
  BY <1>12 DEF RecomputeList
<1>13. CASE RecomputeUpdate
  BY <1>13 DEF RecomputeUpdate, Release
<1>14. CASE RecomputeDone
  BY <1>14 DEF RecomputeDone
<1>15. CASE Tick
  BY <1>15 DEF Tick
<1>16. CASE UNCHANGED vars
  BY <1>16 DEF vars
<1> HIDE DEF LockInv
<1> QED
  BY <1>1, <1>2, <1>3, <1>4, <1>5, <1>6, <1>7, <1>8, <1>9, <1>10, <1>11, <1>12, <1>13,
     <1>14, <1>15, <1>16
  DEF Next, NetmonStep

\* A request has at most one worker, and is answered once.
LEMMA WorkStep ==
    ASSUME IInv, [Next]_vars
    PROVE  WorkInv'
<1> USE FlowAssumption
<1> USE DEF IInv, TypeInv, WorkInv, TodoInv, Goto, Threads, netVars, dbVars
<1>1. ASSUME NEW r \in Requests, NEW status \in {"pending", "denied"},
             FlowReq(r, status)
      PROVE  WorkInv'
  BY <1>1, Names DEF FlowReq
<1>2. ASSUME NEW n \in Routers, NewRouter(n) \/ RouterRemoved(n)
      PROVE  WorkInv'
  BY <1>2 DEF NewRouter, RouterRemoved
<1>3. ASSUME NEW w \in Workers, NEW r \in Requests, WorkerPop(w, r)
      PROVE  WorkInv'
  BY <1>3, Names DEF WorkerPop
<1>4. ASSUME NEW w \in Workers, NEW r \in Requests, WorkerSkip(w, r)
      PROVE  WorkInv'
  BY <1>4 DEF WorkerSkip
<1>5. ASSUME NEW w \in Workers, WorkerStep(w)
      PROVE  WorkInv'
  <2>1. CASE WorkerDeny(w)
    <3>1. Answers(w)
      BY <2>1 DEF Answers
    <3> QED
      BY <2>1, <3>1, AnswerKinds DEF WorkerDeny
  <2>2. CASE WorkerLock(w)
    BY <2>2 DEF WorkerLock
  <2>3. CASE WorkerRefuse(w)
    <3>1. Answers(w)
      BY <2>3 DEF Answers
    <3> QED
      BY <2>3, <3>1, AnswerKinds DEF WorkerRefuse
  <2>4. CASE WorkerPath(w)
    BY <2>4 DEF WorkerPath, NewFlow, NoFlow
  <2>5. CASE WorkerInsert(w)
    BY <2>5 DEF WorkerInsert
  <2>6. CASE WorkerCommit(w)
    BY <2>6 DEF WorkerCommit
  <2>7. CASE WorkerCommitFails(w)
    <3>1. Answers(w)
      BY <2>7 DEF Answers
    <3> QED
      BY <2>7, <3>1, AnswerKinds DEF WorkerCommitFails
  <2>8. CASE WorkerAllow(w)
    <3>1. Answers(w)
      BY <2>8 DEF Answers
    <3> QED
      BY <2>8, <3>1, AnswerKinds DEF WorkerAllow
  <2>9. CASE WorkerUndo(w)
    BY <2>9 DEF WorkerUndo
  <2>10. CASE WorkerUnlock(w)
    BY <2>10 DEF WorkerUnlock
  <2> QED
    BY <1>5, <2>1, <2>2, <2>3, <2>4, <2>5, <2>6, <2>7, <2>8, <2>9, <2>10 DEF WorkerStep
<1>6. ASSUME NEW r \in Requests, GcExpire(r)
      PROVE  WorkInv'
  BY <1>6 DEF GcExpire, Release
<1>7. ASSUME NEW r \in Requests, RecomputePath(r)
      PROVE  WorkInv'
  BY <1>7 DEF RecomputePath
<1>8. CASE GcScan
  BY <1>8 DEF GcScan
<1>9. CASE GcDone
  BY <1>9 DEF GcDone
<1>10. CASE SyncLock
  BY <1>10 DEF SyncLock
<1>11. CASE SyncSwap
  BY <1>11 DEF SyncSwap
<1>12. CASE RecomputeList
  BY <1>12 DEF RecomputeList
<1>13. CASE RecomputeUpdate
  BY <1>13 DEF RecomputeUpdate, Release
<1>14. CASE RecomputeDone
  BY <1>14 DEF RecomputeDone
<1>15. CASE Tick
  BY <1>15 DEF Tick
<1>16. CASE UNCHANGED vars
  BY <1>16 DEF vars
<1> HIDE DEF WorkInv
<1> QED
  BY <1>1, <1>2, <1>3, <1>4, <1>5, <1>6, <1>7, <1>8, <1>9, <1>10, <1>11, <1>12, <1>13,
     <1>14, <1>15, <1>16
  DEF Next, NetmonStep

\* A request without a path has no flow yet.
LEMMA FreshStep ==
    ASSUME IInv, [Next]_vars
    PROVE  FreshInv'
<1> USE FlowAssumption
<1> USE DEF IInv, TypeInv, WorkInv, FreshInv, MapInv, FlightInv, InMap, InGraph, Unserved,
            Goto, Threads, netVars, dbVars
<1>1. ASSUME NEW r \in Requests, NEW status \in {"pending", "denied"},
             FlowReq(r, status)
      PROVE  FreshInv'
  BY <1>1 DEF FlowReq
<1>2. ASSUME NEW n \in Routers, NewRouter(n) \/ RouterRemoved(n)
      PROVE  FreshInv'
  BY <1>2 DEF NewRouter, RouterRemoved
<1>3. ASSUME NEW w \in Workers, NEW r \in Requests, WorkerPop(w, r)
      PROVE  FreshInv'
  BY <1>3 DEF WorkerPop
<1>4. ASSUME NEW w \in Workers, NEW r \in Requests, WorkerSkip(w, r)
      PROVE  FreshInv'
  BY <1>4 DEF WorkerSkip
<1>5. ASSUME NEW w \in Workers, WorkerStep(w)
      PROVE  FreshInv'
  <2>1. CASE WorkerDeny(w)
    <3>1. Answers(w)
      BY <2>1 DEF Answers
    <3> QED
      BY <2>1, <3>1, AnswerKinds DEF WorkerDeny
  <2>2. CASE WorkerLock(w)
    BY <2>2 DEF WorkerLock
  <2>3. CASE WorkerRefuse(w)
    <3>1. Answers(w)
      BY <2>3 DEF Answers
    <3> QED
      BY <2>3, <3>1, AnswerKinds DEF WorkerRefuse
  <2>4. CASE WorkerPath(w)
    <3>1. /\ pc[w] = "lookup" /\ pc' = [pc EXCEPT ![w] = "insert"]
          /\ UNCHANGED <<routers, graph, flows, cur, todo, diff, queue, dbReq, dbFlow,
                         failed, expiredEarly>>
      BY <2>4 DEF WorkerPath
    <3> QED
      BY <2>4, <3>1, PathEffect, Names DEF Others, SamePath, SameId, SameUse
  <2>5. CASE WorkerInsert(w)
    BY <2>5 DEF WorkerInsert
  <2>6. CASE WorkerCommit(w)
    BY <2>6 DEF WorkerCommit
  <2>7. CASE WorkerCommitFails(w)
    <3>1. Answers(w)
      BY <2>7 DEF Answers
    <3> QED
      BY <2>7, <3>1, AnswerKinds DEF WorkerCommitFails
  <2>8. CASE WorkerAllow(w)
    <3>1. Answers(w)
      BY <2>8 DEF Answers
    <3> QED
      BY <2>8, <3>1, AnswerKinds DEF WorkerAllow
  <2>9. CASE WorkerUndo(w)
    <3>1. /\ pc[w] = "undo" /\ pc' = [pc EXCEPT ![w] = "unlock"]
          /\ UNCHANGED <<routers, graph, cur, todo, diff, queue, dbReq, dbFlow, failed,
                         expiredEarly>>
      BY <2>9 DEF WorkerUndo
    <3> QED
      BY <2>9, <3>1, UndoEffect, Names DEF Others, SamePath, SameId, SameUse
  <2>10. CASE WorkerUnlock(w)
    BY <2>10 DEF WorkerUnlock
  <2> QED
    BY <1>5, <2>1, <2>2, <2>3, <2>4, <2>5, <2>6, <2>7, <2>8, <2>9, <2>10 DEF WorkerStep
<1>6. ASSUME NEW r \in Requests, GcExpire(r)
      PROVE  FreshInv'
  BY <1>6 DEF GcExpire, Release
<1>7. ASSUME NEW r \in Requests, RecomputePath(r)
      PROVE  FreshInv'
  <2>1. /\ pc[NetMon] = "each" /\ pc' = [pc EXCEPT ![NetMon] = "update"]
        /\ cur' = [cur EXCEPT ![NetMon] = r]
        /\ UNCHANGED <<routers, graph, flows, todo, queue, dbReq, dbFlow, failed,
                       expiredEarly>>
    BY <1>7 DEF RecomputePath
  <2> QED
    BY <1>7, <2>1, RecomputeEffect, Names DEF Others, SamePath, SameId, SameUse
<1>8. CASE GcScan
  BY <1>8 DEF GcScan, InFlight
<1>9. CASE GcDone
  BY <1>9 DEF GcDone
<1>10. CASE SyncLock
  BY <1>10 DEF SyncLock
<1>11. CASE SyncSwap
  BY <1>11 DEF SyncSwap
<1>12. CASE RecomputeList
  BY <1>12 DEF RecomputeList
<1>13. CASE RecomputeUpdate
  BY <1>13 DEF RecomputeUpdate, Release
<1>14. CASE RecomputeDone
  BY <1>14 DEF RecomputeDone
<1>15. CASE Tick
  BY <1>15 DEF Tick
<1>16. CASE UNCHANGED vars
  BY <1>16 DEF vars
<1> HIDE DEF FreshInv
<1> QED
  BY <1>1, <1>2, <1>3, <1>4, <1>5, <1>6, <1>7, <1>8, <1>9, <1>10, <1>11, <1>12, <1>13,
     <1>14, <1>15, <1>16
  DEF Next, NetmonStep

\* The map leads to live flows.
LEMMA MapStep ==
    ASSUME IInv, [Next]_vars
    PROVE  MapInv'
<1> USE FlowAssumption
<1> USE DEF IInv, TypeInv, WorkInv, FreshInv, MapInv, FlightInv, InMap, Unserved, TodoInv,
            Goto, Threads, netVars, dbVars
<1>1. ASSUME NEW r \in Requests, NEW status \in {"pending", "denied"},
             FlowReq(r, status)
      PROVE  MapInv'
  BY <1>1 DEF FlowReq
<1>2. ASSUME NEW n \in Routers, NewRouter(n) \/ RouterRemoved(n)
      PROVE  MapInv'
  BY <1>2 DEF NewRouter, RouterRemoved
<1>3. ASSUME NEW w \in Workers, NEW r \in Requests, WorkerPop(w, r)
      PROVE  MapInv'
  BY <1>3 DEF WorkerPop
<1>4. ASSUME NEW w \in Workers, NEW r \in Requests, WorkerSkip(w, r)
      PROVE  MapInv'
  BY <1>4 DEF WorkerSkip
<1>5. ASSUME NEW w \in Workers, WorkerStep(w)
      PROVE  MapInv'
  <2>1. CASE WorkerDeny(w)
    BY <2>1 DEF WorkerDeny, SetFlowreqStatus
  <2>2. CASE WorkerLock(w)
    BY <2>2 DEF WorkerLock
  <2>3. CASE WorkerRefuse(w)
    BY <2>3 DEF WorkerRefuse, SetFlowreqStatus
  <2>4. CASE WorkerPath(w)
    BY <2>4 DEF WorkerPath, NewFlow, NoFlow
  <2>5. CASE WorkerInsert(w)
    BY <2>5 DEF WorkerInsert
  <2>6. CASE WorkerCommit(w)
    BY <2>6 DEF WorkerCommit
  <2>7. CASE WorkerCommitFails(w)
    BY <2>7 DEF WorkerCommitFails, SetFlowreqStatus
  <2>8. CASE WorkerAllow(w)
    BY <2>8 DEF WorkerAllow, SetFlowreqStatus
  <2>9. CASE WorkerUndo(w)
    BY <2>9 DEF WorkerUndo
  <2>10. CASE WorkerUnlock(w)
    BY <2>10 DEF WorkerUnlock
  <2> QED
    BY <1>5, <2>1, <2>2, <2>3, <2>4, <2>5, <2>6, <2>7, <2>8, <2>9, <2>10 DEF WorkerStep
<1>6. ASSUME NEW r \in Requests, GcExpire(r)
      PROVE  MapInv'
  BY <1>6 DEF GcExpire, Release
<1>7. ASSUME NEW r \in Requests, RecomputePath(r)
      PROVE  MapInv'
  <2>1. /\ pc[NetMon] = "each" /\ pc' = [pc EXCEPT ![NetMon] = "update"]
        /\ cur' = [cur EXCEPT ![NetMon] = r]
        /\ UNCHANGED <<routers, graph, flows, todo, queue, dbReq, dbFlow, failed,
                       expiredEarly>>
    BY <1>7 DEF RecomputePath
  <2> QED
    BY <1>7, <2>1, RecomputeEffect DEF Others, SamePath, SameId, SameUse
<1>8. CASE GcScan
  BY <1>8 DEF GcScan
<1>9. CASE GcDone
  BY <1>9 DEF GcDone
<1>10. CASE SyncLock
  BY <1>10 DEF SyncLock
<1>11. CASE SyncSwap
  BY <1>11 DEF SyncSwap
<1>12. CASE RecomputeList
  BY <1>12 DEF RecomputeList
<1>13. CASE RecomputeUpdate
  BY <1>13 DEF RecomputeUpdate, Release
<1>14. CASE RecomputeDone
  BY <1>14 DEF RecomputeDone
<1>15. CASE Tick
  BY <1>15 DEF Tick
<1>16. CASE UNCHANGED vars
  BY <1>16 DEF vars
<1> HIDE DEF MapInv
<1> QED
  BY <1>1, <1>2, <1>3, <1>4, <1>5, <1>6, <1>7, <1>8, <1>9, <1>10, <1>11, <1>12, <1>13,
     <1>14, <1>15, <1>16
  DEF Next, NetmonStep

\* Netmon leaves the flow alone that a worker is creating, unless it has
\* expired: it follows the active graph, which is not swapped meanwhile.
LEMMA FlightStep ==
    ASSUME IInv, [Next]_vars
    PROVE  FlightInv'
<1> USE FlowAssumption
<1> USE DEF IInv, TypeInv, LockInv, WorkInv, FreshInv, MapInv, FlightInv, TodoInv, InMap,
            Unserved, Goto, Threads, netVars, dbVars
<1>1. ASSUME NEW r \in Requests, NEW status \in {"pending", "denied"},
             FlowReq(r, status)
      PROVE  FlightInv'
  BY <1>1 DEF FlowReq
<1>2. ASSUME NEW n \in Routers, NewRouter(n) \/ RouterRemoved(n)
      PROVE  FlightInv'
  BY <1>2 DEF NewRouter, RouterRemoved
<1>3. ASSUME NEW w \in Workers, NEW r \in Requests, WorkerPop(w, r)
      PROVE  FlightInv'
  BY <1>3 DEF WorkerPop
<1>4. ASSUME NEW w \in Workers, NEW r \in Requests, WorkerSkip(w, r)
      PROVE  FlightInv'
  BY <1>4 DEF WorkerSkip
<1>5. ASSUME NEW w \in Workers, WorkerStep(w)
      PROVE  FlightInv'
  <2>1. CASE WorkerDeny(w)
    BY <2>1 DEF WorkerDeny, SetFlowreqStatus
  <2>2. CASE WorkerLock(w)
    BY <2>2 DEF WorkerLock
  <2>3. CASE WorkerRefuse(w)
    BY <2>3 DEF WorkerRefuse, SetFlowreqStatus
  <2>4. CASE WorkerPath(w)
    <3>1. /\ pc[w] = "lookup" /\ pc' = [pc EXCEPT ![w] = "insert"]
          /\ UNCHANGED <<routers, graph, flows, cur, todo, diff, queue, dbReq, dbFlow,
                         failed, expiredEarly>>
      BY <2>4 DEF WorkerPath
    <3> QED
      BY <2>4, <3>1, PathEffect DEF Others, SamePath, SameId, SameUse, Affected
  <2>5. CASE WorkerInsert(w)
    <3>1. /\ pc[w] = "insert" /\ pc' = [pc EXCEPT ![w] = "commit"]
          /\ UNCHANGED <<routers, graph, cur, todo, diff, queue, dbReq, dbFlow, failed,
                         expiredEarly>>
      BY <2>5 DEF WorkerInsert
    <3> QED
      BY <2>5, <3>1, InsertEffect DEF Others, SamePath, SameId, SameUse, Affected
  <2>6. CASE WorkerCommit(w)
    BY <2>6 DEF WorkerCommit
  <2>7. CASE WorkerCommitFails(w)
    BY <2>7 DEF WorkerCommitFails, SetFlowreqStatus
  <2>8. CASE WorkerAllow(w)
    BY <2>8 DEF WorkerAllow, SetFlowreqStatus
  <2>9. CASE WorkerUndo(w)
    BY <2>9 DEF WorkerUndo
  <2>10. CASE WorkerUnlock(w)
    BY <2>10 DEF WorkerUnlock
  <2> QED
    BY <1>5, <2>1, <2>2, <2>3, <2>4, <2>5, <2>6, <2>7, <2>8, <2>9, <2>10 DEF WorkerStep
<1>6. ASSUME NEW r \in Requests, GcExpire(r)
      PROVE  FlightInv'
  <2>1. /\ todo' = todo \ {r} /\ pc[NetMon] = "gc"
        /\ UNCHANGED <<routers, graph, flows, pc, cur, queue, dbReq, expiredEarly>>
    BY <1>6 DEF GcExpire
  <2> QED
    BY <1>6, <2>1, ExpireEffect DEF Others, SamePath, SameId, SameUse, Affected
<1>7. ASSUME NEW r \in Requests, RecomputePath(r)
      PROVE  FlightInv'
  <2>1. /\ pc[NetMon] = "each" /\ pc' = [pc EXCEPT ![NetMon] = "update"]
        /\ cur' = [cur EXCEPT ![NetMon] = r]
        /\ UNCHANGED <<routers, graph, flows, todo, queue, dbReq, dbFlow, failed,
                       expiredEarly>>
    BY <1>7 DEF RecomputePath
  <2> QED
    BY <1>7, <2>1, RecomputeEffect, SMTT(30) DEF Others, SamePath, SameId, SameUse, Affected
<1>8. CASE GcScan
  BY <1>8 DEF GcScan, InFlight
<1>9. CASE GcDone
  BY <1>9 DEF GcDone
<1>10. CASE SyncLock
  BY <1>10 DEF SyncLock
<1>11. CASE SyncSwap
  BY <1>11 DEF SyncSwap
<1>12. CASE RecomputeList
  BY <1>12 DEF RecomputeList
<1>13. CASE RecomputeUpdate
  BY <1>13 DEF RecomputeUpdate, Release
<1>14. CASE RecomputeDone
  BY <1>14 DEF RecomputeDone
<1>15. CASE Tick
  BY <1>15 DEF Tick
<1>16. CASE UNCHANGED vars
  BY <1>16 DEF vars
<1> HIDE DEF FlightInv
<1> QED
  BY <1>1, <1>2, <1>3, <1>4, <1>5, <1>6, <1>7, <1>8, <1>9, <1>10, <1>11, <1>12, <1>13,
     <1>14, <1>15, <1>16
  DEF Next, NetmonStep

\* The references that netmon has taken are those of its list.
LEMMA TodoStep ==
    ASSUME IInv, [Next]_vars
    PROVE  TodoInv'
<1> USE FlowAssumption
<1> USE DEF IInv, TypeInv, WorkInv, FreshInv, MapInv, FlightInv, TodoInv, InMap, Unserved,
            Goto, Threads, netVars, dbVars
<1>1. ASSUME NEW r \in Requests, NEW status \in {"pending", "denied"},
             FlowReq(r, status)
      PROVE  TodoInv'
  BY <1>1 DEF FlowReq
<1>2. ASSUME NEW n \in Routers, NewRouter(n) \/ RouterRemoved(n)
      PROVE  TodoInv'
  BY <1>2 DEF NewRouter, RouterRemoved
<1>3. ASSUME NEW w \in Workers, NEW r \in Requests, WorkerPop(w, r)
      PROVE  TodoInv'
  BY <1>3 DEF WorkerPop
<1>4. ASSUME NEW w \in Workers, NEW r \in Requests, WorkerSkip(w, r)
      PROVE  TodoInv'
  BY <1>4 DEF WorkerSkip
<1>5. ASSUME NEW w \in Workers, WorkerStep(w)
      PROVE  TodoInv'
  <2>1. CASE WorkerDeny(w)
    BY <2>1 DEF WorkerDeny, SetFlowreqStatus
  <2>2. CASE WorkerLock(w)
    BY <2>2 DEF WorkerLock
  <2>3. CASE WorkerRefuse(w)
    BY <2>3 DEF WorkerRefuse, SetFlowreqStatus
  <2>4. CASE WorkerPath(w)
    BY <2>4 DEF WorkerPath, NewFlow, NoFlow
  <2>5. CASE WorkerInsert(w)
    BY <2>5 DEF WorkerInsert
  <2>6. CASE WorkerCommit(w)
    BY <2>6 DEF WorkerCommit
  <2>7. CASE WorkerCommitFails(w)
    BY <2>7 DEF WorkerCommitFails, SetFlowreqStatus
  <2>8. CASE WorkerAllow(w)
    BY <2>8 DEF WorkerAllow, SetFlowreqStatus
  <2>9. CASE WorkerUndo(w)
    BY <2>9 DEF WorkerUndo
  <2>10. CASE WorkerUnlock(w)
    BY <2>10 DEF WorkerUnlock
  <2> QED
    BY <1>5, <2>1, <2>2, <2>3, <2>4, <2>5, <2>6, <2>7, <2>8, <2>9, <2>10 DEF WorkerStep
<1>6. ASSUME NEW r \in Requests, GcExpire(r)
      PROVE  TodoInv'
  BY <1>6 DEF GcExpire, Release
<1>7. ASSUME NEW r \in Requests, RecomputePath(r)
      PROVE  TodoInv'
  <2>1. /\ pc[NetMon] = "each" /\ pc' = [pc EXCEPT ![NetMon] = "update"]
        /\ cur' = [cur EXCEPT ![NetMon] = r]
        /\ UNCHANGED <<routers, graph, flows, todo, queue, dbReq, dbFlow, failed,
                       expiredEarly>>
    BY <1>7 DEF RecomputePath
  <2> QED
    BY <1>7, <2>1, RecomputeEffect DEF Others, SamePath, SameId, SameUse
<1>8. CASE GcScan
  BY <1>8 DEF GcScan, InFlight
<1>9. CASE GcDone
  BY <1>9 DEF GcDone
<1>10. CASE SyncLock
  BY <1>10 DEF SyncLock
<1>11. CASE SyncSwap
  BY <1>11 DEF SyncSwap
<1>12. CASE RecomputeList
  BY <1>12 DEF RecomputeList
<1>13. CASE RecomputeUpdate
  BY <1>13 DEF RecomputeUpdate, Release
<1>14. CASE RecomputeDone
  BY <1>14 DEF RecomputeDone
<1>15. CASE Tick
  BY <1>15 DEF Tick
<1>16. CASE UNCHANGED vars
  BY <1>16 DEF vars
<1> HIDE DEF TodoInv
<1> QED
  BY <1>1, <1>2, <1>3, <1>4, <1>5, <1>6, <1>7, <1>8, <1>9, <1>10, <1>11, <1>12, <1>13,
     <1>14, <1>15, <1>16
  DEF Next, NetmonStep

\* The flows that do not follow the active graph are on netmon's list.
LEMMA GraphStep ==
    ASSUME IInv, [Next]_vars
    PROVE  GraphInv'
<1> USE FlowAssumption
<1> USE DEF IInv, TypeInv, WorkInv, FreshInv, MapInv, FlightInv, TodoInv, GraphInv, InMap,
            Unserved, Goto, Threads, netVars, dbVars
<1>1. ASSUME NEW r \in Requests, NEW status \in {"pending", "denied"},
             FlowReq(r, status)
      PROVE  GraphInv'
  BY <1>1 DEF FlowReq
<1>2. ASSUME NEW n \in Routers, NewRouter(n) \/ RouterRemoved(n)
      PROVE  GraphInv'
  BY <1>2 DEF NewRouter, RouterRemoved
<1>3. ASSUME NEW w \in Workers, NEW r \in Requests, WorkerPop(w, r)
      PROVE  GraphInv'
  BY <1>3 DEF WorkerPop
<1>4. ASSUME NEW w \in Workers, NEW r \in Requests, WorkerSkip(w, r)
      PROVE  GraphInv'
  BY <1>4 DEF WorkerSkip
<1>5. ASSUME NEW w \in Workers, WorkerStep(w)
      PROVE  GraphInv'
  <2>1. CASE WorkerDeny(w)
    BY <2>1 DEF WorkerDeny, SetFlowreqStatus
  <2>2. CASE WorkerLock(w)
    BY <2>2 DEF WorkerLock
  <2>3. CASE WorkerRefuse(w)
    BY <2>3 DEF WorkerRefuse, SetFlowreqStatus
  <2>4. CASE WorkerPath(w)
    BY <2>4 DEF WorkerPath, NewFlow, NoFlow
  <2>5. CASE WorkerInsert(w)
    <3>1. /\ pc[w] = "insert" /\ pc' = [pc EXCEPT ![w] = "commit"]
          /\ UNCHANGED <<routers, graph, cur, todo, diff, queue, dbReq, dbFlow, failed,
                         expiredEarly>>
      BY <2>5 DEF WorkerInsert
    <3> QED
      BY <2>5, <3>1, InsertEffect, SMTT(30) DEF Others, SamePath, SameId, SameUse, Affected
  <2>6. CASE WorkerCommit(w)
    <3>1. /\ pc[w] = "commit" /\ pc' = [pc EXCEPT ![w] = "allow"]
          /\ UNCHANGED <<routers, graph, flows, cur, todo, diff, queue, dbReq, failed,
                         expiredEarly>>
      BY <2>6 DEF WorkerCommit
    <3> QED
      BY <2>6, <3>1, CommitEffect, SMTT(30) DEF Others, SamePath, SameId, SameUse, Affected
  <2>7. CASE WorkerCommitFails(w)
    BY <2>7 DEF WorkerCommitFails, SetFlowreqStatus
  <2>8. CASE WorkerAllow(w)
    BY <2>8 DEF WorkerAllow, SetFlowreqStatus
  <2>9. CASE WorkerUndo(w)
    BY <2>9 DEF WorkerUndo
  <2>10. CASE WorkerUnlock(w)
    BY <2>10 DEF WorkerUnlock
  <2> QED
    BY <1>5, <2>1, <2>2, <2>3, <2>4, <2>5, <2>6, <2>7, <2>8, <2>9, <2>10 DEF WorkerStep
<1>6. ASSUME NEW r \in Requests, GcExpire(r)
      PROVE  GraphInv'
  BY <1>6 DEF GcExpire, Release
<1>7. ASSUME NEW r \in Requests, RecomputePath(r)
      PROVE  GraphInv'
  <2>1. /\ pc[NetMon] = "each" /\ pc' = [pc EXCEPT ![NetMon] = "update"]
        /\ cur' = [cur EXCEPT ![NetMon] = r]
        /\ UNCHANGED <<routers, graph, flows, todo, queue, dbReq, dbFlow, failed,
                       expiredEarly>>
    BY <1>7 DEF RecomputePath
  <2> QED
    BY <1>7, <2>1, RecomputeEffect, SMTT(30) DEF Others, SamePath, SameId, SameUse, Affected
<1>8. CASE GcScan
  BY <1>8 DEF GcScan
<1>9. CASE GcDone
  BY <1>9 DEF GcDone
<1>10. CASE SyncLock
  BY <1>10 DEF SyncLock
<1>11. CASE SyncSwap
  BY <1>11 DEF SyncSwap
<1>12. CASE RecomputeList
  BY <1>12 DEF RecomputeList
<1>13. CASE RecomputeUpdate
  <2>1. /\ pc[NetMon] = "update" /\ pc' = [pc EXCEPT ![NetMon] = "each"]
        /\ todo' = todo \ {cur[NetMon]} /\ cur' = [cur EXCEPT ![NetMon] = None]
        /\ UNCHANGED <<routers, graph, flows, queue, dbReq, expiredEarly>>
    BY <1>13 DEF RecomputeUpdate
  <2> QED
    BY <1>13, <2>1, UpdateEffect DEF Others, SamePath, SameId, SameUse, Affected
<1>14. CASE RecomputeDone
  BY <1>14 DEF RecomputeDone
<1>15. CASE Tick
  BY <1>15 DEF Tick
<1>16. CASE UNCHANGED vars
  BY <1>16 DEF vars
<1> HIDE DEF GraphInv
<1> QED
  BY <1>1, <1>2, <1>3, <1>4, <1>5, <1>6, <1>7, <1>8, <1>9, <1>10, <1>11, <1>12, <1>13,
     <1>14, <1>15, <1>16
  DEF Next, NetmonStep

\* A row follows its flow, but while netmon is about to update it.
LEMMA RowStep ==
    ASSUME IInv, [Next]_vars
    PROVE  RowInv'
<1> USE FlowAssumption
<1> USE DEF IInv, TypeInv, WorkInv, FreshInv, MapInv, FlightInv, TodoInv, RowInv, InMap,
            Unserved, Goto, Threads, netVars, dbVars
<1>1. ASSUME NEW r \in Requests, NEW status \in {"pending", "denied"},
             FlowReq(r, status)
      PROVE  RowInv'
  BY <1>1 DEF FlowReq
<1>2. ASSUME NEW n \in Routers, NewRouter(n) \/ RouterRemoved(n)
      PROVE  RowInv'
  BY <1>2 DEF NewRouter, RouterRemoved
<1>3. ASSUME NEW w \in Workers, NEW r \in Requests, WorkerPop(w, r)
      PROVE  RowInv'
  BY <1>3 DEF WorkerPop
<1>4. ASSUME NEW w \in Workers, NEW r \in Requests, WorkerSkip(w, r)
      PROVE  RowInv'
  BY <1>4 DEF WorkerSkip
<1>5. ASSUME NEW w \in Workers, WorkerStep(w)
      PROVE  RowInv'
  <2>1. CASE WorkerDeny(w)
    BY <2>1 DEF WorkerDeny, SetFlowreqStatus
  <2>2. CASE WorkerLock(w)
    BY <2>2 DEF WorkerLock
  <2>3. CASE WorkerRefuse(w)
    BY <2>3 DEF WorkerRefuse, SetFlowreqStatus
  <2>4. CASE WorkerPath(w)
    BY <2>4 DEF WorkerPath, NewFlow, NoFlow
  <2>5. CASE WorkerInsert(w)
    BY <2>5 DEF WorkerInsert
  <2>6. CASE WorkerCommit(w)
    BY <2>6 DEF WorkerCommit
  <2>7. CASE WorkerCommitFails(w)
    BY <2>7 DEF WorkerCommitFails, SetFlowreqStatus
  <2>8. CASE WorkerAllow(w)
    BY <2>8 DEF WorkerAllow, SetFlowreqStatus
  <2>9. CASE WorkerUndo(w)
    BY <2>9 DEF WorkerUndo
  <2>10. CASE WorkerUnlock(w)
    BY <2>10 DEF WorkerUnlock
  <2> QED
    BY <1>5, <2>1, <2>2, <2>3, <2>4, <2>5, <2>6, <2>7, <2>8, <2>9, <2>10 DEF WorkerStep
<1>6. ASSUME NEW r \in Requests, GcExpire(r)
      PROVE  RowInv'
  BY <1>6 DEF GcExpire, Release
<1>7. ASSUME NEW r \in Requests, RecomputePath(r)
      PROVE  RowInv'
  <2>1. /\ pc[NetMon] = "each" /\ pc' = [pc EXCEPT ![NetMon] = "update"]
        /\ cur' = [cur EXCEPT ![NetMon] = r]
        /\ UNCHANGED <<routers, graph, flows, todo, queue, dbReq, dbFlow, failed,
                       expiredEarly>>
    BY <1>7 DEF RecomputePath
  <2> QED
    BY <1>7, <2>1, RecomputeEffect DEF Others, SamePath, SameId, SameUse
<1>8. CASE GcScan
  BY <1>8 DEF GcScan
<1>9. CASE GcDone
  BY <1>9 DEF GcDone
<1>10. CASE SyncLock
  BY <1>10 DEF SyncLock
<1>11. CASE SyncSwap
  BY <1>11 DEF SyncSwap
<1>12. CASE RecomputeList
  BY <1>12 DEF RecomputeList
<1>13. CASE RecomputeUpdate
  BY <1>13 DEF RecomputeUpdate, Release
<1>14. CASE RecomputeDone
  BY <1>14 DEF RecomputeDone
<1>15. CASE Tick
  BY <1>15 DEF Tick
<1>16. CASE UNCHANGED vars
  BY <1>16 DEF vars
<1> HIDE DEF RowInv
<1> QED
  BY <1>1, <1>2, <1>3, <1>4, <1>5, <1>6, <1>7, <1>8, <1>9, <1>10, <1>11, <1>12, <1>13,
     <1>14, <1>15, <1>16
  DEF Next, NetmonStep

\* A row is inserted before the request is allowed, and is never removed.
LEMMA AllowStep ==
    ASSUME IInv, [Next]_vars
    PROVE  AllowInv'
<1> USE FlowAssumption
<1> USE DEF IInv, TypeInv, WorkInv, AllowInv, Row, Goto, Threads, netVars, dbVars
<1>1. ASSUME NEW r \in Requests, NEW status \in {"pending", "denied"},
             FlowReq(r, status)
      PROVE  AllowInv'
  BY <1>1, Names DEF FlowReq
<1>2. ASSUME NEW n \in Routers, NewRouter(n) \/ RouterRemoved(n)
      PROVE  AllowInv'
  BY <1>2 DEF NewRouter, RouterRemoved
<1>3. ASSUME NEW w \in Workers, NEW r \in Requests, WorkerPop(w, r)
      PROVE  AllowInv'
  BY <1>3 DEF WorkerPop
<1>4. ASSUME NEW w \in Workers, NEW r \in Requests, WorkerSkip(w, r)
      PROVE  AllowInv'
  BY <1>4 DEF WorkerSkip
<1>5. ASSUME NEW w \in Workers, WorkerStep(w)
      PROVE  AllowInv'
  <2>1. CASE WorkerDeny(w)
    <3>1. Answers(w)
      BY <2>1 DEF Answers
    <3> QED
      BY <2>1, <3>1, AnswerKinds DEF WorkerDeny
  <2>2. CASE WorkerLock(w)
    BY <2>2 DEF WorkerLock
  <2>3. CASE WorkerRefuse(w)
    <3>1. Answers(w)
      BY <2>3 DEF Answers
    <3> QED
      BY <2>3, <3>1, AnswerKinds DEF WorkerRefuse
  <2>4. CASE WorkerPath(w)
    BY <2>4 DEF WorkerPath, NewFlow, NoFlow
  <2>5. CASE WorkerInsert(w)
    BY <2>5 DEF WorkerInsert
  <2>6. CASE WorkerCommit(w)
    <3>1. pc' = [pc EXCEPT ![w] = "allow"] /\ UNCHANGED <<cur, dbReq>>
      BY <2>6 DEF WorkerCommit
    <3>2. /\ cur[w] \in Requests /\ dbFlow'[cur[w]].status # None
          /\ \A q \in Requests : dbFlow[q].status # None => dbFlow'[q].status # None
      BY <2>6, CommitEffect, Names
    <3> QED
      BY <3>1, <3>2, Busy
  <2>7. CASE WorkerCommitFails(w)
    <3>1. Answers(w)
      BY <2>7 DEF Answers
    <3> QED
      BY <2>7, <3>1, AnswerKinds DEF WorkerCommitFails
  <2>8. CASE WorkerAllow(w)
    <3>1. Answers(w)
      BY <2>8 DEF Answers
    <3> QED
      BY <2>8, <3>1, AnswerKinds DEF WorkerAllow
  <2>9. CASE WorkerUndo(w)
    BY <2>9 DEF WorkerUndo
  <2>10. CASE WorkerUnlock(w)
    BY <2>10 DEF WorkerUnlock
  <2> QED
    BY <1>5, <2>1, <2>2, <2>3, <2>4, <2>5, <2>6, <2>7, <2>8, <2>9, <2>10 DEF WorkerStep
<1>6. ASSUME NEW r \in Requests, GcExpire(r)
      PROVE  AllowInv'
  <2>1. UNCHANGED <<pc, cur, dbReq>>
    BY <1>6 DEF GcExpire
  <2>2. \A q \in Requests : dbFlow[q].status # None => dbFlow'[q].status # None
    BY <1>6, ExpireEffect, Names
  <2> QED
    BY <2>1, <2>2, Busy
<1>7. ASSUME NEW r \in Requests, RecomputePath(r)
      PROVE  AllowInv'
  BY <1>7 DEF RecomputePath
<1>8. CASE GcScan
  BY <1>8 DEF GcScan
<1>9. CASE GcDone
  BY <1>9 DEF GcDone
<1>10. CASE SyncLock
  BY <1>10 DEF SyncLock
<1>11. CASE SyncSwap
  BY <1>11 DEF SyncSwap
<1>12. CASE RecomputeList
  BY <1>12 DEF RecomputeList
<1>13. CASE RecomputeUpdate
  BY <1>13 DEF RecomputeUpdate, Release
<1>14. CASE RecomputeDone
  BY <1>14 DEF RecomputeDone
<1>15. CASE Tick
  BY <1>15 DEF Tick
<1>16. CASE UNCHANGED vars
  BY <1>16 DEF vars
<1> HIDE DEF AllowInv
<1> QED
  BY <1>1, <1>2, <1>3, <1>4, <1>5, <1>6, <1>7, <1>8, <1>9, <1>10, <1>11, <1>12, <1>13,
     <1>14, <1>15, <1>16
  DEF Next, NetmonStep

\* A live flow has its binding segment in the map, or is being collected.
LEMMA BsidStep ==
    ASSUME IInv, [Next]_vars
    PROVE  BsidsAreUnique'
<1> USE FlowAssumption
<1> USE DEF IInv, TypeInv, WorkInv, FreshInv, MapInv, FlightInv, TodoInv, BsidsAreUnique,
            Unserved, InMap, Goto, Threads, netVars, dbVars
<1>1. ASSUME NEW r \in Requests, NEW status \in {"pending", "denied"},
             FlowReq(r, status)
      PROVE  BsidsAreUnique'
  BY <1>1 DEF FlowReq
<1>2. ASSUME NEW n \in Routers, NewRouter(n) \/ RouterRemoved(n)
      PROVE  BsidsAreUnique'
  BY <1>2 DEF NewRouter, RouterRemoved
<1>3. ASSUME NEW w \in Workers, NEW r \in Requests, WorkerPop(w, r)
      PROVE  BsidsAreUnique'
  BY <1>3 DEF WorkerPop
<1>4. ASSUME NEW w \in Workers, NEW r \in Requests, WorkerSkip(w, r)
      PROVE  BsidsAreUnique'
  BY <1>4 DEF WorkerSkip
<1>5. ASSUME NEW w \in Workers, WorkerStep(w)
      PROVE  BsidsAreUnique'
  <2>1. CASE WorkerDeny(w)
    BY <2>1 DEF WorkerDeny, SetFlowreqStatus
  <2>2. CASE WorkerLock(w)
    BY <2>2 DEF WorkerLock
  <2>3. CASE WorkerRefuse(w)
    BY <2>3 DEF WorkerRefuse, SetFlowreqStatus
  <2>4. CASE WorkerPath(w)
    BY <2>4 DEF WorkerPath, NewFlow, NoFlow
  <2>5. CASE WorkerInsert(w)
    BY <2>5 DEF WorkerInsert
  <2>6. CASE WorkerCommit(w)
    BY <2>6 DEF WorkerCommit
  <2>7. CASE WorkerCommitFails(w)
    BY <2>7 DEF WorkerCommitFails, SetFlowreqStatus
  <2>8. CASE WorkerAllow(w)
    BY <2>8 DEF WorkerAllow, SetFlowreqStatus
  <2>9. CASE WorkerUndo(w)
    BY <2>9 DEF WorkerUndo
  <2>10. CASE WorkerUnlock(w)
    BY <2>10 DEF WorkerUnlock
  <2> QED
    BY <1>5, <2>1, <2>2, <2>3, <2>4, <2>5, <2>6, <2>7, <2>8, <2>9, <2>10 DEF WorkerStep
<1>6. ASSUME NEW r \in Requests, GcExpire(r)
      PROVE  BsidsAreUnique'
  BY <1>6 DEF GcExpire, Release
<1>7. ASSUME NEW r \in Requests, RecomputePath(r)
      PROVE  BsidsAreUnique'
  <2>1. /\ pc[NetMon] = "each" /\ pc' = [pc EXCEPT ![NetMon] = "update"]
        /\ cur' = [cur EXCEPT ![NetMon] = r]
        /\ UNCHANGED <<routers, graph, flows, todo, queue, dbReq, dbFlow, failed,
                       expiredEarly>>
    BY <1>7 DEF RecomputePath
  <2> QED
    BY <1>7, <2>1, RecomputeEffect DEF Others, SamePath, SameId, SameUse
<1>8. CASE GcScan
  <2> DEFINE dead == {q \in Requests : InMap(q) /\ Expired(q)}
  <2>1. /\ flows' = [b \in Bsids |-> IF flows[b] \in dead THEN None ELSE flows[b]]
        /\ todo' = dead /\ flow' = flow /\ pc[NetMon] = "idle" /\ pc'[NetMon] = "gc"
        /\ expiredEarly' = {} => expiredEarly = {}
    BY <1>8 DEF GcScan
  <2> HIDE DEF dead
  <2>2. ASSUME expiredEarly' = {}, NEW r \in Requests,
               flow[r].mem = "live" /\ flow[r].bsid # None
        PROVE  flows'[flow[r].bsid] = r \/ r \in todo'
    <3>1. flows[flow[r].bsid] = r /\ flow[r].bsid \in Bsids
      BY <2>1, <2>2 DEF FlowType
    <3> QED
      BY <2>1, <3>1
  <2> QED
    BY <2>1, <2>2
<1>9. CASE GcDone
  BY <1>9 DEF GcDone
<1>10. CASE SyncLock
  BY <1>10 DEF SyncLock
<1>11. CASE SyncSwap
  BY <1>11 DEF SyncSwap
<1>12. CASE RecomputeList
  BY <1>12 DEF RecomputeList
<1>13. CASE RecomputeUpdate
  BY <1>13 DEF RecomputeUpdate, Release
<1>14. CASE RecomputeDone
  BY <1>14 DEF RecomputeDone
<1>15. CASE Tick
  BY <1>15 DEF Tick
<1>16. CASE UNCHANGED vars
  BY <1>16 DEF vars
<1> HIDE DEF BsidsAreUnique
<1> QED
  BY <1>1, <1>2, <1>3, <1>4, <1>5, <1>6, <1>7, <1>8, <1>9, <1>10, <1>11, <1>12, <1>13,
     <1>14, <1>15, <1>16
  DEF Next, NetmonStep

-----------------------------------------------------------------------------
LEMMA InitInv == Init => IInv
<1> SUFFICES ASSUME Init PROVE IInv
  OBVIOUS
<1> USE FlowAssumption DEF Init, Threads
<1>1. TypeInv
  <2>1. graph \in Graphs
    BY DEF Graphs
  <2>2. flow \in [Requests -> FlowType]
    BY DEF FlowType, NoFlow
  <2>3. dbReq \in [Requests -> ReqStatus] /\ dbFlow \in [Requests -> Row]
    BY DEF ReqStatus, Row, NoRow
  <2>4. ns \in RwLocks(Threads)
    BY DEF RwFree, RwLocks
  <2>5. /\ pc \in [Threads -> NetmonLabels \cup WorkerLabels]
        /\ pc[NetMon] \in NetmonLabels /\ \A w \in Workers : pc[w] \in WorkerLabels
        /\ cur \in [Threads -> Requests \cup {None}]
    BY DEF NetmonLabels, WorkerLabels
  <2>6. graph.nodes \subseteq routers /\ flows \in [Bsids -> Requests \cup {None}]
    OBVIOUS
  <2>7. clock \in 0 .. MaxClock /\ syncs \in 0 .. MaxSyncs
    OBVIOUS
  <2>8. /\ routers \in SUBSET Routers /\ gone \subseteq routers
        /\ todo \in SUBSET Requests /\ queue \in SUBSET Requests
        /\ expiredEarly \in SUBSET Requests /\ failed \in SUBSET Requests
    OBVIOUS
  <2>9. diff \in BOOLEAN
    BY Zenon
  <2> HIDE DEF Init
  <2> QED
    BY <2>1, <2>2, <2>3, <2>4, <2>5, <2>6, <2>7, <2>8, <2>9 DEF TypeInv
<1>2. LockInv
  BY DEF LockInv, RwFree
<1>3. WorkInv /\ AllowInv
  BY DEF WorkInv, AllowInv, None
<1>4. FreshInv /\ MapInv /\ FlightInv
  BY DEF FreshInv, MapInv, FlightInv, NoFlow
<1>5. TodoInv /\ BsidsAreUnique
  BY DEF TodoInv, BsidsAreUnique, NoFlow
<1>6. GraphInv /\ RowInv
  BY DEF GraphInv, RowInv, InMap
<1> QED
  BY <1>1, <1>2, <1>3, <1>4, <1>5, <1>6 DEF IInv

LEMMA NextInv == IInv /\ [Next]_vars => IInv'
BY TypeStep, LockStep, WorkStep, FreshStep, MapStep, FlightStep, TodoStep,
   GraphStep, RowStep, AllowStep, BsidStep DEF IInv

\* The inductive invariant.
THEOREM Invariance == Spec => []IInv
BY InitInv, NextInv, PTL DEF Spec

\* Every variable keeps its type; in particular a flow never has more than two
\* references, that of the map and that of recompute_flows.
THEOREM TypeCorrect == Spec => []TypeOK
<1>1. IInv => TypeOK
  BY DEF IInv, TypeInv, TypeOK, FlowType, Row, Graphs, ReqStatus, NetmonLabels,
         WorkerLabels
<1> QED
  BY <1>1, Invariance, PTL

\* No flow escapes a change of the graph, not even one whose path a worker was
\* computing while it changed (process_request, recompute_flows).
THEOREM NoFlowEscapes == Spec => []FlowsFollowGraph
<1>1. IInv => FlowsFollowGraph
  BY DEF IInv, GraphInv, TodoInv, FlowsFollowGraph
<1> QED
  BY <1>1, Invariance, PTL

\* Workers, the collector and the recomputation touch no flow that has been
\* freed, but for a flow that expired before it was committed.
THEOREM FreedIsUntouched == Spec => []NoUseAfterFree
<1>1. ASSUME IInv PROVE NoUseAfterFree
  <2>1. ASSUME NEW w \in Workers, pc[w] \in {"commit", "undo"}
        PROVE  flow[cur[w]].mem = "live" \/ cur[w] \in expiredEarly
    BY <1>1, <2>1 DEF IInv, FlightInv
  <2>2. ASSUME NEW r \in todo
        PROVE  flow[r].mem = "live" \/ r \in expiredEarly
    BY <1>1, <2>2 DEF IInv, TypeInv, TodoInv, NetmonLabels
  <2>3. ASSUME NEW r \in Requests, InMap(r)
        PROVE  flow[r].mem = "live"
    BY <1>1, <2>3, Names DEF IInv, MapInv, InMap
  <2> QED
    BY <2>1, <2>2, <2>3 DEF NoUseAfterFree
<1> QED
  BY <1>1, Invariance, PTL

\* No worker draws a binding segment that a living flow has in the map
\* (generate_unique_bsid).
THEOREM BsidsStayUnique == Spec => []BsidsAreUnique
<1>1. IInv => BsidsAreUnique
  BY DEF IInv
<1> QED
  BY <1>1, Invariance, PTL

\* The rows of FlowState are what the controller believes, unless an update
\* failed or is under way.
THEOREM RowsAreTrue == Spec => []RowsFollowFlows
<1>1. IInv => RowsFollowFlows
  <2> SUFFICES ASSUME IInv, NEW r \in Requests,
                      InMap(r), flow[r].uuid, r \notin failed, cur[NetMon] # r
               PROVE  dbFlow[r] = [status |-> "active", segs |-> flow[r].segs]
    BY DEF RowsFollowFlows
  <2>1. dbFlow[r] \in Row
    BY DEF IInv, TypeInv
  <2>2. dbFlow[r].status = "active" /\ dbFlow[r].segs = flow[r].segs
    BY DEF IInv, RowInv
  <2> QED
    BY <2>1, <2>2 DEF Row
<1> QED
  BY <1>1, Invariance, PTL

\* A request whose status is "allowed" has its row in FlowState.
THEOREM AllowedIsInserted == Spec => []AllowedHasRow
<1>1. IInv => AllowedHasRow
  BY DEF IInv, AllowInv, AllowedHasRow, NoRow
<1> QED
  BY <1>1, Invariance, PTL

\* No answer is replaced by another: a request is taken by one worker, which
\* answers it once.
THEOREM OneAnswer == Spec => AnsweredOnce
<1> DEFINE Kept == \A r \in Requests :
                      dbReq[r] \notin {None, "pending"} => dbReq'[r] = dbReq[r]
<1>1. ASSUME IInv, [Next]_vars PROVE [Kept]_vars
  <2>1. CASE dbReq' = dbReq
    BY <2>1
  <2>2. ASSUME NEW r \in Requests, NEW status \in {"pending", "denied"},
               FlowReq(r, status)
        PROVE  Kept
    BY <1>1, <2>2 DEF FlowReq, IInv, TypeInv
  <2>3. ASSUME NEW w \in Workers, Answers(w)
        PROVE  Kept
    BY <1>1, <2>3, AnswerKinds
  <2>4. CASE ~ (\/ \E r \in Requests, status \in {"pending", "denied"} : FlowReq(r, status)
                \/ \E w \in Workers : Answers(w))
    <3>1. dbReq' = dbReq
      BY <1>1, <2>4
      DEF Next, NetmonStep, WorkerStep, Answers, vars, dbVars, NewRouter,
          RouterRemoved, Tick, WorkerPop, WorkerSkip, WorkerLock, WorkerPath,
          WorkerInsert, WorkerCommit, WorkerUndo, WorkerUnlock, GcScan, GcExpire,
          GcDone, SyncLock, SyncSwap, RecomputeList, RecomputePath, RecomputeUpdate,
          RecomputeDone
    <3> QED
      BY <2>1, <3>1
  <2> QED
    BY <2>2, <2>3, <2>4
<1> QED
  BY <1>1, Invariance, PTL DEF Spec, AnsweredOnce
=============================================================================
