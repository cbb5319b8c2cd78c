--------------------------- MODULE NetStateProofs ---------------------------
(***************************************************************************)
(* Proofs about the network state of sr-ctrl for any sets of routers,      *)
(* links and workers, any timeouts and any number of row events.           *)
(*                                                                         *)
(* The argument starts from the labels: which thread holds which lock, and *)
(* in which mode, is a function of where the threads are (StagingLockInv,  *)
(* NsLockInv).  The staging graph is torn only between two steps of the    *)
(* LinkState monitor that holds its lock (StagingInv), so that a copy made *)
(* under the lock is well-formed; the routers are in the staging graph     *)
(* because netmon never shrinks it (RouterInv); and from the copy to the   *)
(* clearing of dirty either the copy is still the staging graph or the     *)
(* history variable says that it was overtaken (WindowInv).                *)
(*                                                                         *)
(* The second half is about the tree of ns->prefixes, for any width of     *)
(* addresses and any announcements: lpm.c, called with ns->lock held. The  *)
(* tree is linked, whatever prefixes its nodes have (Linked); but within a *)
(* deletion no virtual node is idle (BusyBut); prefixes grow from parent   *)
(* to child and the children of the head hang in the slots of their first  *)
(* bits (Shaped). All of this holds also after a node was misplaced, and   *)
(* is enough for the assertions of lpm.c. Until then every slot fits and   *)
(* the entries are those of the table (Stores); a walk for an address then *)
(* meets every node that is a part of it (AllVisited).                     *)
(***************************************************************************)
EXTENDS NetState, Lpm, FiniteSetTheorems, WellFoundedInduction, TLAPS

Labels == NodeLabels \cup LinkLabels \cup NetmonLabels \cup {"request"}

\* TypeOK says where each thread may be; that pc and event are functions is
\* what their updates need.
TypeInv ==
    /\ TypeOK
    /\ pc \in [Threads -> Labels]
    /\ event \in [{NodeMon, LinkMon} -> NodeEvents \cup LinkEvents \cup {NoEvent}]

\* What a monitor is handling at each of its labels.
EventInv ==
    /\ pc[NodeMon] # "idle" => event[NodeMon] \in NodeEvents
    /\ pc[LinkMon] # "idle" => event[LinkMon] \in LinkEvents
    /\ pc[LinkMon] \in {"link_ns", "link_routers", "link_nsunlock", "link_add2"}
          => event[LinkMon].kind = "insert"
    /\ pc[LinkMon] = "link_mark" => event[LinkMon].kind = "delete"

Exclusive(lock) ==
    /\ \A t, u \in lock.w : t = u
    /\ lock.w # {} => lock.r = {}

\* Who holds the lock of the staging graph.
StagingLockInv ==
    /\ Exclusive(st)
    /\ st.w \subseteq {NodeMon, LinkMon, NetMon}
    /\ NodeMon \in st.w <=> pc[NodeMon] = "node_add"
    /\ LinkMon \in st.w <=>
          pc[LinkMon] \in {"link_apply", "link_add2", "link_mark", "link_stunlock"}
    /\ NetMon \in st.w <=> pc[NetMon] = "clear"
    /\ st.r \subseteq {NetMon}
    /\ NetMon \in st.r <=> pc[NetMon] \in {"sync_copy", "copied"}

\* Who holds ns->lock.
NsLockInv ==
    /\ Exclusive(ns)
    /\ ns.w \subseteq {NodeMon, NetMon}
    /\ NodeMon \in ns.w <=>
          pc[NodeMon] \in {"node_new", "node_st", "node_add", "node_set", "node_unlock"}
    /\ NetMon \in ns.w <=> pc[NetMon] \in {"sync_swap", "sync_nsunlock"}
    /\ NodeMon \notin ns.r
    /\ LinkMon \in ns.r <=>
          \/ pc[LinkMon] \in {"link_routers", "link_nsunlock"}
          \/ /\ pc[LinkMon] \in {"link_st", "link_apply", "link_add2", "link_mark",
                                 "link_stunlock"}
             /\ event[LinkMon].kind = "insert"
    /\ NetMon \in ns.r <=> pc[NetMon] = "recomputing"

\* Routers, prefixes and nodes of the staging graph.
RouterInv ==
    /\ routers \subseteq staging.nodes
    /\ prefixes = routers \cup (IF pc[NodeMon] \in {"node_st", "node_add", "node_set"}
                                THEN {event[NodeMon].node} ELSE {})
    /\ pc[NodeMon] = "node_set" => event[NodeMon].node \in staging.nodes
    /\ pc[LinkMon] \in {"link_st", "link_apply", "link_add2"}
          /\ event[LinkMon].kind = "insert"
       => Ends[event[LinkMon].link] \subseteq routers

\* A link of a graph is there in both directions or in none, with one metric,
\* between nodes of the graph.
WholeLink(g, l) ==
    /\ Present(g, <<l, 1>>) <=> Present(g, <<l, 2>>)
    /\ g.edges[<<l, 1>>].metric = g.edges[<<l, 2>>].metric
    /\ Present(g, <<l, 1>>) => Ends[l] \subseteq g.nodes

\* The staging graph is whole but for the link that is being added.
StagingInv ==
    /\ \A e \in Links \X Dirs : Present(staging, e) => staging.edges[e].metric # 0
    /\ \A l \in Links :
          \/ WholeLink(staging, l)
          \/ pc[LinkMon] = "link_add2" /\ event[LinkMon].link = l
    /\ pc[LinkMon] = "link_add2"
          => staging.edges[<<event[LinkMon].link, 1>>] = EventData

\* What netmon's copy and the active graph are worth.
WindowInv ==
    /\ pc[NetMon] \in {"check_time", "sync_st", "sync_copy"} \/ InWindow => dirty
    /\ pc[NetMon] \in {"copied", "sync_ns", "sync_swap"}
          => copy = staging \/ overtaken
    /\ pc[NetMon] \in {"sync_nsunlock", "clear_lock", "clear"}
          => active = staging \/ overtaken
    /\ pc[LinkMon] = "link_add2" => dirty
    /\ pc[LinkMon] = "link_add2" /\ InWindow => overtaken

IInv ==
    /\ TypeInv
    /\ EventInv
    /\ StagingLockInv
    /\ NsLockInv
    /\ RouterInv
    /\ StagingInv
    /\ NoTornGraph
    /\ WindowInv
    /\ SyncedUnlessOvertaken

-----------------------------------------------------------------------------

\* What a row event makes of an edge: a metric that is never 0, so that the
\* edge is not taken for an absent one (create_edata and Cost).
LEMMA EventDataType ==
    ASSUME IInv, pc[LinkMon] # "idle", event[LinkMon].kind \in {"insert", "update"}
    PROVE  EventData \in EdgeData /\ EventData.metric # 0
<1>1. event[LinkMon] \in LinkEvents
  BY DEF IInv, EventInv
<1>2. event[LinkMon].metric \in Metrics /\ event[LinkMon].bw \in Bws
  BY <1>1 DEF LinkEvents
<1>3. ASSUME NEW m \in Metrics PROVE Cost(m) \in Nat /\ Cost(m) # 0
  <2>1. m \in Nat /\ UIntMax \in Nat /\ Hard \in Nat /\ MaxLag \in Nat /\ UIntMax > Hard + MaxLag
    BY NetAssumption
  <2> QED BY <2>1 DEF Cost
<1>4. event[LinkMon].bw \in Nat
  BY <1>2, NetAssumption
<1> QED BY <1>2, <1>3, <1>4 DEF EventData, EdgeData

\* Every step of every thread keeps the types.
LEMMA TypeStep == ASSUME IInv, [Next]_vars PROVE TypeInv'
<1> USE NetAssumption, WorkersAssumption
<1> USE DEF IInv, TypeInv, TypeOK, Goto, Labels, NodeLabels, LinkLabels, NetmonLabels,
            Threads,
            NodeMon, LinkMon, NetMon, graphVars, timeVars, lockVars, envVars,
            RwLocks, Reading, Writing, Released
<1>1. ASSUME NEW n \in Nodes, NodeRow(n) PROVE TypeInv'
  BY <1>1 DEF NodeRow, NodeEvents
<1>2. CASE NodeStep
  <2>1. CASE NodeNsLock
    BY <2>1 DEF NodeNsLock
  <2>2. CASE NodeDuplicate
    BY <2>2 DEF NodeDuplicate
  <2>3. CASE NodePrefixes
    BY <2>3 DEF NodePrefixes, EventInv, NodeEvents
  <2>4. CASE NodeStagingLock
    BY <2>4 DEF NodeStagingLock
  <2>5. CASE NodeAdd
    BY <2>5 DEF NodeAdd, EventInv, NodeEvents, MarkGraphDirty, Graphs, Age, MaxAge
  <2>6. CASE NodeSet
    BY <2>6 DEF NodeSet, EventInv, NodeEvents
  <2>7. CASE NodeUnlock
    BY <2>7 DEF NodeUnlock
  <2> QED BY <1>2, <2>1, <2>2, <2>3, <2>4, <2>5, <2>6, <2>7 DEF NodeStep
<1>3. ASSUME NEW e \in LinkEvents, LinkRow(e) PROVE TypeInv'
  BY <1>3 DEF LinkRow, LinkEvents
<1>4. CASE LinkStep
  <2>1. CASE LinkNsLock \/ LinkUnknownRouter \/ LinkKnownRouters \/ LinkStagingLock
             \/ LinkReject \/ LinkStagingUnlock \/ LinkNsUnlock \/ LinkDone
    BY <2>1 DEF LinkNsLock, LinkUnknownRouter, LinkKnownRouters, LinkStagingLock,
       LinkReject, LinkStagingUnlock, LinkNsUnlock, LinkDone
  <2>2. CASE LinkAdd
    <3>1. EventData \in EdgeData
      BY <2>2, EventDataType DEF LinkAdd
    <3>2. staging' \in Graphs
      BY <2>2, <3>1 DEF LinkAdd, Graphs, Dirs
    <3> QED BY <2>2, <3>2 DEF LinkAdd, MarkGraphDirty, Age, MaxAge
  <2>3. CASE LinkAdd2
    <3>1. EventData \in EdgeData
      BY <2>3, EventDataType DEF LinkAdd2, EventInv
    <3> QED BY <2>3, <3>1 DEF LinkAdd2, Graphs, Dirs
  <2>4. CASE LinkUpdate
    <3>1. EventData \in EdgeData
      BY <2>4, EventDataType DEF LinkUpdate
    <3>2. staging' \in Graphs
      <4> DEFINE l == event[LinkMon].link
      <4>1. staging.edges \in [Links \X Dirs -> EdgeData]
        BY DEF Graphs
      <4>2. staging'.nodes = staging.nodes
        BY <2>4 DEF LinkUpdate, Graphs
      <4>3. <<l, 1>> \in Links \X Dirs /\ <<l, 2>> \in Links \X Dirs
        BY <2>4 DEF LinkUpdate, EventInv, LinkEvents, Dirs
      <4>5. PICK a, m : staging'.edges = [staging.edges EXCEPT ![<<l, 1>>] = a, ![<<l, 2>>].metric = m]
                     /\ a \in EdgeData /\ m \in Nat
        <5> DEFINE mask == event[LinkMon].mask
                     mt(e) == IF "metric" \in mask THEN EventData.metric ELSE staging.edges[e].metric
                     b == IF "bw" \in mask THEN EventData.bw ELSE staging.edges[<<l, 1>>].bw
        <5>2. \A e \in Links \X Dirs : mt(e) \in Nat
          BY <4>1, <3>1 DEF EdgeData
        <5>3. b \in Nat
          BY <4>1, <3>1, <4>3 DEF EdgeData
        <5>4. staging'.edges = [staging.edges EXCEPT
                               ![<<l, 1>>] = [metric |-> mt(<<l, 1>>), bw |-> b],
                               ![<<l, 2>>].metric = mt(<<l, 2>>)]
          BY <2>4 DEF LinkUpdate, Graphs
        <5>5. [metric |-> mt(<<l, 1>>), bw |-> b] \in EdgeData
          BY <5>2, <5>3, <4>3 DEF EdgeData
        <5> HIDE DEF mt, b
        <5> QED BY <5>2, <5>4, <5>5, <4>3
      <4>4. staging'.edges \in [Links \X Dirs -> EdgeData]
        <5> DEFINE E1 == [staging.edges EXCEPT ![<<l, 1>>] = a]
        <5>1. E1 \in [Links \X Dirs -> EdgeData]
          BY <4>1, <4>5
        <5>2. \A d \in EdgeData : [d EXCEPT !.metric = m] \in EdgeData
          BY <4>5 DEF EdgeData
        <5>3. staging'.edges = [E1 EXCEPT ![<<l, 2>>] = [E1[<<l, 2>>] EXCEPT !.metric = m]]
          BY <4>5
        <5> HIDE DEF E1
        <5> QED BY <5>1, <5>2, <5>3, <4>3
      <4> QED BY <2>4, <4>4, <4>2 DEF LinkUpdate, Graphs
    <3> QED BY <2>4, <3>2 DEF LinkUpdate, MarkGraphDirty, Age, MaxAge
  <2>5. CASE LinkRemove
    BY <2>5 DEF LinkRemove, EventInv, LinkEvents, Graphs, EdgeData, Dirs, NoEdge
  <2>6. CASE LinkMark
    BY <2>6 DEF LinkMark, MarkGraphDirty, Age, MaxAge
  <2> QED BY <1>4, <2>1, <2>2, <2>3, <2>4, <2>5, <2>6 DEF LinkStep
<1>5. CASE NetmonStep
  <2>1. CASE NetmonNow
    BY <2>1 DEF NetmonNow
  <2>2. CASE NetmonClean
    BY <2>2 DEF NetmonClean
  <2>3. CASE NetmonDirty
    BY <2>3 DEF NetmonDirty
  <2>4. CASE NetmonWait
    BY <2>4 DEF NetmonWait
  <2>5. CASE NetmonSync
    BY <2>5 DEF NetmonSync
  <2>6. CASE SyncStagingLock
    BY <2>6 DEF SyncStagingLock
  <2>7. CASE SyncCopy
    BY <2>7 DEF SyncCopy
  <2>8. CASE SyncStagingUnlock
    BY <2>8 DEF SyncStagingUnlock
  <2>9. CASE SyncNsLock
    BY <2>9 DEF SyncNsLock
  <2>10. CASE SyncSwap
    BY <2>10 DEF SyncSwap
  <2>11. CASE SyncNsUnlock
    BY <2>11 DEF SyncNsUnlock, EmptyGraph, Graphs, NoEdge, EdgeData
  <2>12. CASE SyncClearLock
    BY <2>12 DEF SyncClearLock
  <2>13. CASE SyncClear
    BY <2>13 DEF SyncClear
  <2>14. CASE RecomputeLock
    BY <2>14 DEF RecomputeLock
  <2>15. CASE RecomputeUnlock
    BY <2>15 DEF RecomputeUnlock
  <2> QED BY <1>5, <2>1, <2>2, <2>3, <2>4, <2>5, <2>6, <2>7, <2>8, <2>9, <2>10, <2>11,
             <2>12, <2>13, <2>14, <2>15 DEF NetmonStep
<1>6. ASSUME NEW w \in Workers, WorkerLock(w) \/ WorkerUnlock(w) PROVE TypeInv'
  BY <1>6 DEF WorkerLock, WorkerUnlock
<1>7. CASE Tick
  BY <1>7 DEF Tick, Older, Age, MaxAge
<1>8. CASE UNCHANGED vars
  BY <1>8 DEF vars
<1> QED BY <1>1, <1>2, <1>3, <1>4, <1>5, <1>6, <1>7, <1>8 DEF Next

\* A monitor handles one row event from its first label to its last.
LEMMA EventStep == ASSUME IInv, [Next]_vars PROVE EventInv'
<1> USE NetAssumption, WorkersAssumption
<1> USE DEF IInv, TypeInv, EventInv, Goto, Threads, NodeMon, LinkMon, NetMon, graphVars,
            timeVars, lockVars, envVars
<1>1. ASSUME NEW n \in Nodes, NodeRow(n) PROVE EventInv'
  BY <1>1 DEF NodeRow, NodeEvents
<1>2. CASE NodeStep
  BY <1>2 DEF NodeStep, NodeNsLock, NodeDuplicate, NodePrefixes, NodeStagingLock, NodeAdd,
     NodeSet, NodeUnlock
<1>3. ASSUME NEW e \in LinkEvents, LinkRow(e) PROVE EventInv'
  BY <1>3 DEF LinkRow, LinkEvents
<1>4. CASE LinkStep
  BY <1>4 DEF LinkStep, LinkNsLock, LinkUnknownRouter, LinkKnownRouters, LinkStagingLock,
     LinkReject, LinkAdd, LinkAdd2, LinkUpdate, LinkRemove, LinkMark, LinkStagingUnlock,
     LinkNsUnlock, LinkDone
<1>5. CASE NetmonStep
  BY <1>5 DEF NetmonStep, NetmonNow, NetmonClean, NetmonDirty, NetmonWait, NetmonSync,
     SyncStagingLock, SyncCopy, SyncStagingUnlock, SyncNsLock, SyncSwap, SyncNsUnlock,
     SyncClearLock, SyncClear, RecomputeLock, RecomputeUnlock
<1>6. ASSUME NEW w \in Workers, WorkerLock(w) \/ WorkerUnlock(w) PROVE EventInv'
  BY <1>6 DEF WorkerLock, WorkerUnlock
<1>7. CASE Tick
  BY <1>7 DEF Tick
<1>8. CASE UNCHANGED vars
  BY <1>8 DEF vars
<1> QED BY <1>1, <1>2, <1>3, <1>4, <1>5, <1>6, <1>7, <1>8 DEF Next

\* The lock of the staging graph is held where the labels say, by one writer
\* or by netmon's copy.
LEMMA StagingLockStep == ASSUME IInv, [Next]_vars PROVE StagingLockInv'
<1> USE NetAssumption, WorkersAssumption
<1> USE DEF IInv, TypeInv, EventInv, StagingLockInv, Goto, Threads, NodeMon, LinkMon,
            NetMon, graphVars, timeVars, lockVars, envVars, TypeOK, CanRead, CanWrite,
            Reading, Writing, Released, RwLocks, Exclusive
<1>1. ASSUME NEW n \in Nodes, NodeRow(n) PROVE StagingLockInv'
  BY <1>1 DEF NodeRow
<1>2. CASE NodeStep
  BY <1>2 DEF NodeStep, NodeNsLock, NodeDuplicate, NodePrefixes, NodeStagingLock, NodeAdd,
     NodeSet, NodeUnlock
<1>3. ASSUME NEW e \in LinkEvents, LinkRow(e) PROVE StagingLockInv'
  BY <1>3 DEF LinkRow
<1>4. CASE LinkStep
  BY <1>4 DEF LinkStep, LinkNsLock, LinkUnknownRouter, LinkKnownRouters, LinkStagingLock,
     LinkReject, LinkAdd, LinkAdd2, LinkUpdate, LinkRemove, LinkMark, LinkStagingUnlock,
     LinkNsUnlock, LinkDone
<1>5. CASE NetmonStep
  BY <1>5 DEF NetmonStep, NetmonNow, NetmonClean, NetmonDirty, NetmonWait, NetmonSync,
     SyncStagingLock, SyncCopy, SyncStagingUnlock, SyncNsLock, SyncSwap, SyncNsUnlock,
     SyncClearLock, SyncClear, RecomputeLock, RecomputeUnlock
<1>6. ASSUME NEW w \in Workers, WorkerLock(w) \/ WorkerUnlock(w) PROVE StagingLockInv'
  BY <1>6 DEF WorkerLock, WorkerUnlock
<1>7. CASE Tick
  BY <1>7 DEF Tick
<1>8. CASE UNCHANGED vars
  BY <1>8 DEF vars
<1> QED BY <1>1, <1>2, <1>3, <1>4, <1>5, <1>6, <1>7, <1>8 DEF Next

\* The same for ns->lock, whose readers are the LinkState monitor, netmon and
\* the workers.
LEMMA NsLockStep == ASSUME IInv, [Next]_vars PROVE NsLockInv'
<1> USE NetAssumption, WorkersAssumption
<1> USE DEF IInv, TypeInv, EventInv, NsLockInv, Goto, Threads, NodeMon, LinkMon, NetMon,
            graphVars, timeVars, lockVars, envVars, TypeOK, CanRead, CanWrite, Reading,
            Writing, Released, RwLocks, Exclusive
<1>1. ASSUME NEW n \in Nodes, NodeRow(n) PROVE NsLockInv'
  BY <1>1 DEF NodeRow
<1>2. CASE NodeStep
  BY <1>2 DEF NodeStep, NodeNsLock, NodeDuplicate, NodePrefixes, NodeStagingLock, NodeAdd,
     NodeSet, NodeUnlock
<1>3. ASSUME NEW e \in LinkEvents, LinkRow(e) PROVE NsLockInv'
  BY <1>3 DEF LinkRow
<1>4. CASE LinkStep
  BY <1>4 DEF LinkStep, LinkNsLock, LinkUnknownRouter, LinkKnownRouters, LinkStagingLock,
     LinkReject, LinkAdd, LinkAdd2, LinkUpdate, LinkRemove, LinkMark, LinkStagingUnlock,
     LinkNsUnlock, LinkDone
<1>5. CASE NetmonStep
  BY <1>5 DEF NetmonStep, NetmonNow, NetmonClean, NetmonDirty, NetmonWait, NetmonSync,
     SyncStagingLock, SyncCopy, SyncStagingUnlock, SyncNsLock, SyncSwap, SyncNsUnlock,
     SyncClearLock, SyncClear, RecomputeLock, RecomputeUnlock
<1>6. ASSUME NEW w \in Workers, WorkerLock(w) \/ WorkerUnlock(w) PROVE NsLockInv'
  BY <1>6 DEF WorkerLock, WorkerUnlock
<1>7. CASE Tick
  BY <1>7 DEF Tick
<1>8. CASE UNCHANGED vars
  BY <1>8 DEF vars
<1> QED BY <1>1, <1>2, <1>3, <1>4, <1>5, <1>6, <1>7, <1>8 DEF Next

\* A router enters the staging graph before it enters ns->routers, and neither
\* is ever left.
LEMMA RouterStep == ASSUME IInv, [Next]_vars PROVE RouterInv'
<1> USE NetAssumption, WorkersAssumption
<1> USE DEF IInv, TypeInv, EventInv, NsLockInv, StagingLockInv, Exclusive, RouterInv, Goto,
            Threads, NodeMon, LinkMon, NetMon, graphVars, timeVars, lockVars, envVars,
            TypeOK, Graphs
<1>1. ASSUME NEW n \in Nodes, NodeRow(n) PROVE RouterInv'
  BY <1>1 DEF NodeRow, NodeEvents
<1>2. CASE NodeStep
  BY <1>2 DEF NodeStep, NodeNsLock, NodeDuplicate, NodePrefixes, NodeStagingLock, NodeAdd,
     MarkGraphDirty, NodeSet, NodeUnlock
<1>3. ASSUME NEW e \in LinkEvents, LinkRow(e) PROVE RouterInv'
  BY <1>3 DEF LinkRow, LinkEvents
<1>4. CASE LinkStep
  <2>1. CASE LinkNsLock
    BY <2>1 DEF LinkNsLock
  <2>2. CASE LinkUnknownRouter
    BY <2>2 DEF LinkUnknownRouter
  <2>3. CASE LinkKnownRouters
    BY <2>3 DEF LinkKnownRouters
  <2>4. CASE LinkStagingLock
    BY <2>4 DEF LinkStagingLock
  <2>5. CASE LinkReject
    BY <2>5 DEF LinkReject, Present
  <2>6. CASE LinkAdd
    BY <2>6 DEF LinkAdd
  <2>7. CASE LinkAdd2
    BY <2>7 DEF LinkAdd2
  <2>8. CASE LinkUpdate
    BY <2>8 DEF LinkUpdate
  <2>9. CASE LinkRemove
    BY <2>9 DEF LinkRemove
  <2>10. CASE LinkMark
    BY <2>10 DEF LinkMark
  <2>11. CASE LinkStagingUnlock
    BY <2>11 DEF LinkStagingUnlock
  <2>12. CASE LinkNsUnlock
    BY <2>12 DEF LinkNsUnlock
  <2>13. CASE LinkDone
    BY <2>13 DEF LinkDone
  <2> QED BY <1>4, <2>1, <2>2, <2>3, <2>4, <2>5, <2>6, <2>7, <2>8, <2>9, <2>10, <2>11,
             <2>12, <2>13 DEF LinkStep
<1>5. CASE NetmonStep
  BY <1>5 DEF NetmonStep, NetmonNow, NetmonClean, NetmonDirty, NetmonWait, NetmonSync,
     SyncStagingLock, SyncCopy, SyncStagingUnlock, SyncNsLock, SyncSwap, SyncNsUnlock,
     SyncClearLock, SyncClear, RecomputeLock, RecomputeUnlock
<1>6. ASSUME NEW w \in Workers, WorkerLock(w) \/ WorkerUnlock(w) PROVE RouterInv'
  BY <1>6 DEF WorkerLock, WorkerUnlock
<1>7. CASE Tick
  BY <1>7 DEF Tick
<1>8. CASE UNCHANGED vars
  BY <1>8 DEF vars
<1> QED BY <1>1, <1>2, <1>3, <1>4, <1>5, <1>6, <1>7, <1>8 DEF Next

\* netmon copies under the lock of the staging graph, hence never between the
\* two graph_add_edge of linkstate_read.
LEMMA TornStep == ASSUME IInv, [Next]_vars PROVE NoTornGraph'
<1> USE NetAssumption, WorkersAssumption
<1> USE DEF IInv, TypeInv, EventInv, StagingLockInv, NsLockInv, Exclusive, NoTornGraph,
            WellFormed, StagingInv, RouterInv, WholeLink, Present, Goto, Threads, NodeMon,
            LinkMon, NetMon, graphVars, timeVars, lockVars, envVars, TypeOK
<1>1. ASSUME NEW n \in Nodes, NodeRow(n) PROVE NoTornGraph'
  BY <1>1 DEF NodeRow
<1>2. CASE NodeStep
  BY <1>2 DEF NodeStep, NodeNsLock, NodeDuplicate, NodePrefixes, NodeStagingLock, NodeAdd,
     NodeSet, NodeUnlock
<1>3. ASSUME NEW e \in LinkEvents, LinkRow(e) PROVE NoTornGraph'
  BY <1>3 DEF LinkRow
<1>4. CASE LinkStep
  BY <1>4 DEF LinkStep, LinkNsLock, LinkUnknownRouter, LinkKnownRouters, LinkStagingLock,
     LinkReject, LinkAdd, LinkAdd2, LinkUpdate, LinkRemove, LinkMark, LinkStagingUnlock,
     LinkNsUnlock, LinkDone
<1>5. CASE NetmonStep
  <2>1. CASE NetmonNow
    BY <2>1 DEF NetmonNow
  <2>2. CASE NetmonClean
    BY <2>2 DEF NetmonClean
  <2>3. CASE NetmonDirty
    BY <2>3 DEF NetmonDirty
  <2>4. CASE NetmonWait
    BY <2>4 DEF NetmonWait
  <2>5. CASE NetmonSync
    BY <2>5 DEF NetmonSync
  <2>6. CASE SyncStagingLock
    BY <2>6 DEF SyncStagingLock
  <2>7. CASE SyncCopy
    BY <2>7 DEF SyncCopy, WellFormed
  <2>8. CASE SyncStagingUnlock
    BY <2>8 DEF SyncStagingUnlock
  <2>9. CASE SyncNsLock
    BY <2>9 DEF SyncNsLock
  <2>10. CASE SyncSwap
    BY <2>10 DEF SyncSwap
  <2>11. CASE SyncNsUnlock
    BY <2>11 DEF SyncNsUnlock, EmptyGraph, Dirs
  <2>12. CASE SyncClearLock
    BY <2>12 DEF SyncClearLock
  <2>13. CASE SyncClear
    BY <2>13 DEF SyncClear
  <2>14. CASE RecomputeLock
    BY <2>14 DEF RecomputeLock
  <2>15. CASE RecomputeUnlock
    BY <2>15 DEF RecomputeUnlock
  <2> QED BY <1>5, <2>1, <2>2, <2>3, <2>4, <2>5, <2>6, <2>7, <2>8, <2>9, <2>10, <2>11,
             <2>12, <2>13, <2>14, <2>15 DEF NetmonStep
<1>6. ASSUME NEW w \in Workers, WorkerLock(w) \/ WorkerUnlock(w) PROVE NoTornGraph'
  BY <1>6 DEF WorkerLock, WorkerUnlock
<1>7. CASE Tick
  BY <1>7 DEF Tick
<1>8. CASE UNCHANGED vars
  BY <1>8 DEF vars
<1> QED BY <1>1, <1>2, <1>3, <1>4, <1>5, <1>6, <1>7, <1>8 DEF Next

\* Each handler leaves the link it handles whole when it is done with it.
LEMMA StagingStep == ASSUME IInv, [Next]_vars PROVE StagingInv'
<1> USE NetAssumption, WorkersAssumption
<1> USE DEF IInv, TypeInv, EventInv, StagingLockInv, Exclusive, StagingInv, RouterInv,
            WholeLink, Present, EventData, Goto, Threads, NodeMon, LinkMon, NetMon,
            graphVars, timeVars, lockVars, envVars, TypeOK
<1>1. ASSUME NEW n \in Nodes, NodeRow(n) PROVE StagingInv'
  BY <1>1 DEF NodeRow
<1>2. CASE NodeStep
  BY <1>2 DEF NodeStep, NodeNsLock, NodeDuplicate, NodePrefixes, NodeStagingLock, NodeAdd,
     Graphs, MarkGraphDirty, NodeSet, NodeUnlock
<1>3. ASSUME NEW e \in LinkEvents, LinkRow(e) PROVE StagingInv'
  BY <1>3 DEF LinkRow
<1>4. CASE LinkStep
  <2>1. CASE LinkNsLock
    BY <2>1 DEF LinkNsLock
  <2>2. CASE LinkUnknownRouter
    BY <2>2 DEF LinkUnknownRouter
  <2>3. CASE LinkKnownRouters
    BY <2>3 DEF LinkKnownRouters
  <2>4. CASE LinkStagingLock
    BY <2>4 DEF LinkStagingLock
  <2>5. CASE LinkReject
    BY <2>5 DEF LinkReject
  <2>6. CASE LinkAdd
    <3> DEFINE l == event[LinkMon].link
    <3>1. l \in Links /\ event' = event /\ pc'[LinkMon] = "link_add2" /\ EventData' = EventData
      BY <2>6 DEF LinkAdd, LinkEvents
    <3>2. EventData \in EdgeData /\ EventData.metric # 0
      BY <2>6, EventDataType DEF LinkAdd
    <3>3. /\ staging'.nodes = staging.nodes
          /\ \A e \in Links \X Dirs :
                staging'.edges[e] = IF e = <<l, 1>> THEN EventData ELSE staging.edges[e]
      BY <2>6 DEF LinkAdd, Graphs
    <3> HIDE DEF EventData
    <3> QED BY <3>1, <3>2, <3>3 DEF Dirs
  <2>7. CASE LinkAdd2
    <3> DEFINE l == event[LinkMon].link
    <3>1. l \in Links /\ event' = event /\ pc'[LinkMon] = "link_stunlock" /\ EventData' = EventData
      BY <2>7 DEF LinkAdd2, LinkEvents
    <3>2. EventData \in EdgeData /\ EventData.metric # 0
      BY <2>7, EventDataType DEF LinkAdd2
    <3>3. /\ staging'.nodes = staging.nodes
          /\ \A e \in Links \X Dirs :
                staging'.edges[e] = IF e = <<l, 2>> THEN EventData ELSE staging.edges[e]
      BY <2>7 DEF LinkAdd2, Graphs
    <3>4. staging.edges[<<l, 1>>] = EventData /\ Ends[l] \subseteq staging.nodes
      BY <2>7 DEF LinkAdd2
    <3>5. ASSUME NEW k \in Links PROVE WholeLink(staging', k)
      BY <3>2, <3>3, <3>4, <2>7, SMTT(30) DEF LinkAdd2, Dirs
    <3> HIDE DEF EventData
    <3> QED BY <3>1, <3>2, <3>3, <3>5, SMTT(30) DEF Dirs
  <2>8. CASE LinkUpdate
    <3> DEFINE l == event[LinkMon].link
    <3>1. l \in Links /\ event' = event /\ pc'[LinkMon] = "link_stunlock"
      BY <2>8 DEF LinkUpdate, LinkEvents
    <3>2. EventData \in EdgeData /\ EventData.metric # 0
      BY <2>8, EventDataType DEF LinkUpdate
    <3>3. PICK m \in Nat \ {0}, b \in Nat :
             /\ staging'.nodes = staging.nodes
             /\ staging'.edges = [staging.edges EXCEPT ![<<l, 1>>] = [metric |-> m, bw |-> b],
                                                      ![<<l, 2>>].metric = m]
      BY <2>8, <3>2, <3>1 DEF LinkUpdate, Graphs, Dirs, EdgeData
    <3>4. /\ \A e \in Links \X Dirs \ {<<l, 1>>, <<l, 2>>} : staging'.edges[e] = staging.edges[e]
          /\ staging'.edges[<<l, 1>>].metric = m
          /\ staging'.edges[<<l, 2>>].metric = m
      BY <3>1, <3>3 DEF Graphs, Dirs, EdgeData
    <3>5. ASSUME NEW k \in Links PROVE WholeLink(staging', k)
      BY <3>1, <3>3, <3>4, <2>8, SMTT(30) DEF LinkUpdate, Dirs, NoEdge
    <3> QED BY <3>1, <3>3, <3>4, <3>5, SMTT(30) DEF Dirs
  <2>9. CASE LinkRemove
    <3> DEFINE l == event[LinkMon].link
    <3>1. l \in Links /\ event' = event /\ pc'[LinkMon] = "link_mark"
      BY <2>9 DEF LinkRemove, LinkEvents
    <3>2. /\ staging'.nodes = staging.nodes
          /\ \A e \in Links \X Dirs :
                staging'.edges[e] = IF e \in {<<l, 1>>, <<l, 2>>} THEN NoEdge ELSE staging.edges[e]
      BY <2>9 DEF LinkRemove, Graphs
    <3> QED BY <3>1, <3>2, <2>9 DEF LinkRemove, Dirs
  <2>10. CASE LinkMark
    BY <2>10 DEF LinkMark
  <2>11. CASE LinkStagingUnlock
    BY <2>11 DEF LinkStagingUnlock
  <2>12. CASE LinkNsUnlock
    BY <2>12 DEF LinkNsUnlock
  <2>13. CASE LinkDone
    BY <2>13 DEF LinkDone
  <2> QED BY <1>4, <2>1, <2>2, <2>3, <2>4, <2>5, <2>6, <2>7, <2>8, <2>9, <2>10, <2>11,
             <2>12, <2>13 DEF LinkStep
<1>5. CASE NetmonStep
  BY <1>5 DEF NetmonStep, NetmonNow, NetmonClean, NetmonDirty, NetmonWait, NetmonSync,
     SyncStagingLock, SyncCopy, SyncStagingUnlock, SyncNsLock, SyncSwap, SyncNsUnlock,
     SyncClearLock, SyncClear, RecomputeLock, RecomputeUnlock
<1>6. ASSUME NEW w \in Workers, WorkerLock(w) \/ WorkerUnlock(w) PROVE StagingInv'
  BY <1>6 DEF WorkerLock, WorkerUnlock
<1>7. CASE Tick
  BY <1>7 DEF Tick
<1>8. CASE UNCHANGED vars
  BY <1>8 DEF vars
<1> QED BY <1>1, <1>2, <1>3, <1>4, <1>5, <1>6, <1>7, <1>8 DEF Next

\* From the copy of the staging graph to the clearing of dirty, a change either
\* is in the copy or sets overtaken.
LEMMA WindowStep == ASSUME IInv, [Next]_vars PROVE (WindowInv /\ SyncedUnlessOvertaken)'
<1> USE NetAssumption, WorkersAssumption
<1> USE DEF IInv, TypeInv, EventInv, StagingLockInv, NsLockInv, Exclusive, WindowInv,
            InWindow, SyncedUnlessOvertaken, MarkGraphDirty, Goto, Threads, NodeMon,
            LinkMon, NetMon, graphVars, timeVars, lockVars, envVars, TypeOK
<1>1. ASSUME NEW n \in Nodes, NodeRow(n) PROVE (WindowInv /\ SyncedUnlessOvertaken)'
  BY <1>1 DEF NodeRow
<1>2. CASE NodeStep
  BY <1>2 DEF NodeStep, NodeNsLock, NodeDuplicate, NodePrefixes, NodeStagingLock, NodeAdd,
     Graphs, NodeSet, NodeUnlock
<1>3. ASSUME NEW e \in LinkEvents, LinkRow(e) PROVE (WindowInv /\ SyncedUnlessOvertaken)'
  BY <1>3 DEF LinkRow
<1>4. CASE LinkStep
  <2>1. CASE LinkNsLock \/ LinkUnknownRouter \/ LinkKnownRouters \/ LinkStagingLock
             \/ LinkReject \/ LinkAdd \/ LinkAdd2 \/ LinkUpdate \/ LinkMark
             \/ LinkStagingUnlock \/ LinkNsUnlock \/ LinkDone
    BY <2>1 DEF LinkNsLock, LinkUnknownRouter, LinkKnownRouters, LinkStagingLock,
       LinkReject, LinkAdd, LinkAdd2, LinkUpdate, LinkMark, LinkStagingUnlock,
       LinkNsUnlock, LinkDone
  <2>2. CASE LinkRemove
    <3>1. ~ dirty' => staging' = staging
      <4> DEFINE l == event[LinkMon].link
      <4>1. SUFFICES ASSUME staging.edges[<<l, 1>>] = NoEdge, staging.edges[<<l, 2>>] = NoEdge
                     PROVE  staging' = staging
        BY <2>2 DEF LinkRemove, Present, Dirs
      <4>2. staging' = [staging EXCEPT !.edges = [staging.edges EXCEPT ![<<l, 1>>] = NoEdge,
                                                                 ![<<l, 2>>] = NoEdge]]
        BY <2>2 DEF LinkRemove, Graphs
      <4>3. [staging.edges EXCEPT ![<<l, 1>>] = NoEdge, ![<<l, 2>>] = NoEdge] = staging.edges
        BY <4>1 DEF Graphs
      <4> QED BY <4>2, <4>3 DEF Graphs
    <3> QED BY <2>2, <3>1 DEF LinkRemove
  <2> QED BY <1>4, <2>1, <2>2 DEF LinkStep
<1>5. CASE NetmonStep
  <2>1. CASE NetmonNow
    BY <2>1 DEF NetmonNow
  <2>2. CASE NetmonClean
    BY <2>2 DEF NetmonClean
  <2>3. CASE NetmonDirty
    BY <2>3 DEF NetmonDirty
  <2>4. CASE NetmonWait
    BY <2>4 DEF NetmonWait
  <2>5. CASE NetmonSync
    BY <2>5 DEF NetmonSync
  <2>6. CASE SyncStagingLock
    BY <2>6 DEF SyncStagingLock
  <2>7. CASE SyncCopy
    BY <2>7 DEF SyncCopy
  <2>8. CASE SyncStagingUnlock
    BY <2>8 DEF SyncStagingUnlock
  <2>9. CASE SyncNsLock
    BY <2>9 DEF SyncNsLock
  <2>10. CASE SyncSwap
    BY <2>10 DEF SyncSwap
  <2>11. CASE SyncNsUnlock
    BY <2>11 DEF SyncNsUnlock
  <2>12. CASE SyncClearLock
    BY <2>12 DEF SyncClearLock
  <2>13. CASE SyncClear
    BY <2>13 DEF SyncClear
  <2>14. CASE RecomputeLock
    BY <2>14 DEF RecomputeLock
  <2>15. CASE RecomputeUnlock
    BY <2>15 DEF RecomputeUnlock
  <2> QED BY <1>5, <2>1, <2>2, <2>3, <2>4, <2>5, <2>6, <2>7, <2>8, <2>9, <2>10, <2>11,
             <2>12, <2>13, <2>14, <2>15 DEF NetmonStep
<1>6. ASSUME NEW w \in Workers, WorkerLock(w) \/ WorkerUnlock(w)
      PROVE  (WindowInv /\ SyncedUnlessOvertaken)'
  BY <1>6 DEF WorkerLock, WorkerUnlock
<1>7. CASE Tick
  BY <1>7 DEF Tick
<1>8. CASE UNCHANGED vars
  BY <1>8 DEF vars
<1> QED BY <1>1, <1>2, <1>3, <1>4, <1>5, <1>6, <1>7, <1>8 DEF Next

-----------------------------------------------------------------------------
\* The state netstate and the monitors start from.
LEMMA InitInv == Init => IInv
<1> SUFFICES ASSUME Init PROVE IInv
  OBVIOUS
<1> USE NetAssumption, WorkersAssumption
<1>1. TypeInv
  <2>1. ASSUME NEW N \in SUBSET Nodes PROVE EmptyGraph(N) \in Graphs
    BY DEF EmptyGraph, Graphs, EdgeData, NoEdge
  <2>2. RwFree \in RwLocks(Threads)
    BY DEF RwFree, RwLocks
  <2>3. active \in Graphs /\ staging \in Graphs /\ copy \in Graphs
    BY <2>1 DEF Init
  <2>4. pc \in [Threads -> {"idle"}] /\ event \in [{NodeMon, LinkMon} -> {NoEvent}]
    BY DEF Init
  <2>5. NodeMon \in Threads /\ LinkMon \in Threads /\ NetMon \in Threads /\ Workers \subseteq Threads
    BY DEF Threads
  <2>6. 0 \in Age /\ 0 \in 0 .. MaxLag /\ 0 \in 0 .. MaxEvents
    BY DEF Age, MaxAge
  <2> QED BY <2>2, <2>3, <2>4, <2>5, <2>6
          DEF Init, TypeInv, TypeOK, Labels, NodeLabels, LinkLabels, NetmonLabels
<1> USE DEF Init, Threads, NodeMon, LinkMon, NetMon, RwFree
<1>2. EventInv
  BY DEF EventInv
<1>3. StagingLockInv /\ NsLockInv
  BY DEF StagingLockInv, NsLockInv, Exclusive
<1>4. RouterInv
  BY DEF RouterInv, EmptyGraph
<1>5. StagingInv /\ NoTornGraph
  BY DEF StagingInv, NoTornGraph, WellFormed, WholeLink, Present, EmptyGraph, Dirs
<1>6. WindowInv /\ SyncedUnlessOvertaken
  BY DEF WindowInv, SyncedUnlessOvertaken, InWindow, EmptyGraph
<1> QED BY <1>1, <1>2, <1>3, <1>4, <1>5, <1>6 DEF IInv

\* The conjunction is inductive.
LEMMA NextInv == IInv /\ [Next]_vars => IInv'
BY TypeStep, EventStep, StagingLockStep, NsLockStep, RouterStep, StagingStep,
   TornStep, WindowStep DEF IInv

\* IInv holds in every reachable state.
THEOREM Invariance == Spec => []IInv
BY InitInv, NextInv, PTL DEF Spec

\* Routers, prefixes, graphs, locks and labels keep their types, whatever rows
\* the database sends and however the handlers, netmon and the workers
\* interleave.
THEOREM TypeCorrect == Spec => []TypeOK
<1>1. IInv => TypeOK
  BY DEF IInv, TypeInv
<1> QED BY <1>1, Invariance, PTL

\* netstate_graph_sync never copies the staging graph in the middle of a
\* change by linkstate_read, linkstate_update or linkstate_delete, nor swaps
\* such a copy in.
THEOREM CopiesAreWhole == Spec => []NoTornGraph
<1>1. IInv => NoTornGraph
  BY DEF IInv
<1> QED BY <1>1, Invariance, PTL

\* The assertion of linkstate_read on the nodes of the routers it found, and
\* the agreement of ns->routers, ns->prefixes and the staging graph whenever
\* no thread holds ns->lock for writing.
THEOREM RoutersStayStaged == Spec => []RoutersAreStaged
<1>1. IInv => RoutersAreStaged
  BY DEF IInv, TypeInv, EventInv, RouterInv, NsLockInv, RoutersAreStaged, NodeMon, LinkMon,
     NetMon
<1> QED BY <1>1, Invariance, PTL

\* thread_netmon clears dirty only when the graph it swapped in is the staging
\* graph, unless a handler staged a change after the copy: the exception is
\* the whole of what can be lost.
THEOREM SyncLosesOnlyOvertaken == Spec => []SyncedUnlessOvertaken
<1>1. IInv => SyncedUnlessOvertaken
  BY DEF IInv
<1> QED BY <1>1, Invariance, PTL

\* netstate_graph_sync swaps the active graph under ns->lock held for writing:
\* no request, flow or recomputation sees it change while it reads.
THEOREM ReadersSeeOneGraph == Spec => GraphIsStableForReaders
<1> DEFINE A == \A t \in Threads : t \in ns.r /\ t \in ns'.r => active' = active
<1>1. ASSUME IInv, [Next]_vars PROVE A
  <2>1. CASE SyncSwap
    BY <1>1, <2>1 DEF IInv, NsLockInv, Exclusive, SyncSwap, Goto
  <2>2. CASE ~ SyncSwap
    <3>1. active' = active
      <4> USE DEF graphVars
      <4>1. ASSUME NEW n \in Nodes, NodeRow(n) PROVE active' = active
        BY <4>1 DEF NodeRow
      <4>2. CASE NodeStep
        BY <4>2 DEF NodeStep, NodeNsLock, NodeDuplicate, NodePrefixes, NodeStagingLock,
           NodeAdd,
                    NodeSet, NodeUnlock
      <4>3. ASSUME NEW e \in LinkEvents, LinkRow(e) PROVE active' = active
        BY <4>3 DEF LinkRow
      <4>4. CASE LinkStep
        BY <4>4 DEF LinkStep, LinkNsLock, LinkUnknownRouter, LinkKnownRouters,
           LinkStagingLock,
                    LinkReject, LinkAdd, LinkAdd2, LinkUpdate, LinkRemove, LinkMark,
                    LinkStagingUnlock, LinkNsUnlock, LinkDone
      <4>5. CASE NetmonStep
        BY <2>2, <4>5 DEF NetmonStep, NetmonNow, NetmonClean, NetmonDirty, NetmonWait,
           NetmonSync,
                    SyncStagingLock, SyncCopy, SyncStagingUnlock, SyncNsLock, SyncNsUnlock,
                    SyncClearLock, SyncClear, RecomputeLock, RecomputeUnlock
      <4>6. ASSUME NEW w \in Workers, WorkerLock(w) \/ WorkerUnlock(w)
            PROVE  active' = active
        BY <4>6 DEF WorkerLock, WorkerUnlock
      <4>7. CASE Tick \/ UNCHANGED vars
        BY <4>7 DEF Tick, vars
      <4> QED BY <1>1, <4>1, <4>2, <4>3, <4>4, <4>5, <4>6, <4>7 DEF Next
    <3> QED BY <3>1
  <2> QED BY <2>1, <2>2
<1>2. IInv /\ [Next]_vars => [A]_vars
  BY <1>1
<1> QED BY <1>2, Invariance, PTL DEF Spec, GraphIsStableForReaders

-----------------------------------------------------------------------------
(***************************************************************************)
(* Numbers and prefixes                                                    *)
(***************************************************************************)
\* A nonempty set of naturals has a least element.
LEMMA LeastExists ==
    ASSUME NEW S \in SUBSET Nat, S # {}
    PROVE  \E m \in S : \A y \in S : m <= y
<1> DEFINE Less == {s \in Nat \X Nat : s[1] < s[2]}
<1>1. IsWellFoundedOn(Less, Nat)
  BY NatLessThanWellFounded DEF OpToRel
<1>2. \A m, n \in Nat : m < n => <<m, n>> \in Less
  OBVIOUS
<1> HIDE DEF Less
<1>3. PICK m \in S : \A y \in S : ~ (<<y, m>> \in Less)
  BY <1>1, WFMin, Zenon
<1>4. \A y \in S : m <= y
  <2> SUFFICES ASSUME NEW y \in S, ~ (m <= y) PROVE FALSE
    OBVIOUS
  <2>1. m \in Nat /\ y \in Nat /\ y < m
    OBVIOUS
  <2>2. <<y, m>> \in Less
    BY <1>2, <2>1
  <2> QED
    BY <1>3, <2>2
<1> QED
  BY <1>4

\* What holds for 0, and for k + 1 whenever it holds for k, holds up to n; P is
\* the set of numbers it holds for.
LEMMA UpTo ==
    ASSUME NEW n \in Nat, NEW P, 0 \in P,
           \A k \in 0 .. n - 1 : k \in P => k + 1 \in P
    PROVE  \A k \in 0 .. n : k \in P
<1> DEFINE D == {k \in 0 .. n : k \notin P}
<1> SUFFICES ASSUME D # {} PROVE FALSE
  OBVIOUS
<1>0. D \in SUBSET Nat
  OBVIOUS
<1>1. PICK m \in D : \A y \in D : m <= y
  <2> HIDE DEF D
  <2> QED
    BY <1>0, LeastExists, Zenon
<1>2. m \in 1 .. n /\ m \notin P
  BY <1>1
<1>3. m - 1 \in P
  <2>1. m - 1 \in 0 .. n /\ ~ (m <= m - 1)
    BY <1>2
  <2> QED
    BY <1>1, <2>1
<1>4. m - 1 \in 0 .. n - 1 /\ (m - 1) + 1 = m
  BY <1>2
<1> QED
  BY <1>2, <1>3, <1>4

\* p is the beginning of q.
IsPart(p, q) == Len(p) <= Len(q) /\ \A i \in 1..Len(p) : p[i] = q[i]

\* The bits of a prefix.
LEMMA PrefixType ==
    ASSUME NEW p \in AllPrefixes
    PROVE  /\ Len(p) \in 0..Width /\ p \in [1..Len(p) -> Slots]
           /\ \A i \in 1..Len(p) : p[i] \in Slots
BY LpmAssumption DEF AllPrefixes

\* The head's prefix is one.
LEMMA EmptyPrefix == << >> \in AllPrefixes /\ Len(<< >>) = 0
<1>1. << >> \in [1..0 -> Slots]
  OBVIOUS
<1> QED
  BY <1>1, LpmAssumption DEF AllPrefixes

\* An address is a prefix of full length.
LEMMA AddressIsPrefix ==
    ASSUME NEW p \in Addresses
    PROVE  p \in AllPrefixes /\ Len(p) = Width
BY LpmAssumption DEF Addresses, AllPrefixes

\* Two prefixes of one length that agree are one.
LEMMA SamePrefix ==
    ASSUME NEW p \in AllPrefixes, NEW q \in AllPrefixes, IsPart(p, q), Len(p) = Len(q)
    PROVE  p = q
<1>1. p \in [1..Len(p) -> Slots] /\ q \in [1..Len(p) -> Slots]
  BY PrefixType
<1>2. \A i \in 1..Len(p) : p[i] = q[i]
  BY DEF IsPart
<1> QED
  BY <1>1, <1>2

\* The first n bits of p.
LEMMA Begin ==
    ASSUME NEW p \in AllPrefixes, NEW n \in 0..Len(p)
    PROVE  /\ SubSeq(p, 1, n) \in AllPrefixes /\ Len(SubSeq(p, 1, n)) = n
           /\ \A i \in 1..n : SubSeq(p, 1, n)[i] = p[i]
           /\ IsPart(SubSeq(p, 1, n), p)
<1>0. Len(p) \in 0..Width /\ p \in [1..Len(p) -> Slots] /\ n \in 0..Width
  BY PrefixType, LpmAssumption
<1>1. p \in Seq(Slots) /\ n \in Nat
  BY <1>0
<1>2. SubSeq(p, 1, n) = [i \in 1..n |-> p[i]]
  BY <1>0, <1>1
<1>3. SubSeq(p, 1, n) \in [1..n -> Slots]
  <2>1. [i \in 1..n |-> p[i]] \in [1..n -> Slots]
    BY <1>0
  <2> QED
    BY <1>2, <2>1, Zenon
<1> HIDE DEF IsPart
<1>4. SubSeq(p, 1, n) \in AllPrefixes
  BY <1>0, <1>3 DEF AllPrefixes
<1>5. Len(SubSeq(p, 1, n)) = n
  BY <1>1, <1>3
<1>6. \A i \in 1..n : SubSeq(p, 1, n)[i] = p[i]
  BY <1>2
<1> QED
  BY <1>0, <1>4, <1>5, <1>6 DEF IsPart

\* Being a part is transitive.
LEMMA PartOfPart ==
    ASSUME NEW p \in AllPrefixes, NEW q \in AllPrefixes, NEW s \in AllPrefixes,
           IsPart(p, q), IsPart(q, s)
    PROVE  IsPart(p, s)
<1>1. Len(p) \in Nat /\ Len(q) \in Nat /\ Len(s) \in Nat
  BY PrefixType
<1> QED
  BY <1>1 DEF IsPart

\* The common part of p and q.
LEMMA CommonLenIs ==
    ASSUME NEW p \in AllPrefixes, NEW q \in AllPrefixes
    PROVE  LET max == Shorter(p, q)
               k == CommonLen(p, q, max)
           IN  /\ max \in 0..Width /\ max <= Len(p) /\ max <= Len(q)
               /\ k \in 0..max /\ \A i \in 1..k : p[i] = q[i]
               /\ k = max \/ p[k + 1] # q[k + 1]
<1> DEFINE max == Shorter(p, q)
           C(k) == /\ \A i \in 1..k : p[i] = q[i]
                   /\ k = max \/ p[k + 1] # q[k + 1]
<1>0. max \in 0..Width /\ max <= Len(p) /\ max <= Len(q)
  BY PrefixType DEF Shorter
<1> HIDE DEF max
<1>1. \E k \in 0..max : C(k)
  <2> DEFINE D == {k \in 0..max : k = max \/ p[k + 1] # q[k + 1]}
  <2>1. D \in SUBSET Nat /\ D # {}
    BY <1>0
  <2>2. PICK k \in D : \A y \in D : k <= y
    <3> HIDE DEF D
    <3> QED
      BY <2>1, LeastExists
  <2>3. ASSUME NEW i \in 1..k
        PROVE  p[i] = q[i]
    <3>1. i - 1 \in 0..max /\ ~ (k <= i - 1) /\ (i - 1) + 1 = i
      BY <1>0, <2>2
    <3>2. i - 1 \notin D
      BY <2>2, <3>1
    <3> QED
      BY <3>1, <3>2
  <2> QED
    BY <2>2, <2>3
<1>2. CommonLen(p, q, max) = CHOOSE k \in 0..max : C(k)
  BY DEF CommonLen
<1>3. CommonLen(p, q, max) \in 0..max /\ C(CommonLen(p, q, max))
  <2> HIDE DEF C
  <2> QED
    BY <1>1, <1>2
<1> QED
  BY <1>0, <1>3 DEF max

\* What is part of both is part of the common part.
LEMMA CommonPart ==
    ASSUME NEW p \in AllPrefixes, NEW q \in AllPrefixes, NEW s \in AllPrefixes,
           IsPart(s, p), IsPart(s, q)
    PROVE  Len(s) <= CommonLen(p, q, Shorter(p, q))
<1> DEFINE max == Shorter(p, q)
           k == CommonLen(p, q, max)
<1>1. k \in 0..max /\ max \in 0..Width /\ (k = max \/ p[k + 1] # q[k + 1])
  BY CommonLenIs
<1>2. Len(s) \in Nat /\ Len(s) <= max
  BY PrefixType DEF IsPart, Shorter
<1> HIDE DEF max, k
<1>3. SUFFICES ASSUME k < Len(s) PROVE FALSE
  BY <1>1, <1>2 DEF k, max
<1>4. k + 1 \in 1..Len(s) /\ k # max
  BY <1>1, <1>2, <1>3
<1> QED
  BY <1>1, <1>4 DEF IsPart

-----------------------------------------------------------------------------
(***************************************************************************)
(* Trees                                                                   *)
(***************************************************************************)
\* What is stored at an address when the nodes are at D.
Cells(D) ==
    [prefix : AllPrefixes, data : Values \cup {NoData, Virtual},
     parent : D \cup {Nil}, kids : [Slots -> D \cup {Nil}]]

\* The nodes are records with pointers to nodes; the head is one of them.
HeapType(h) ==
    /\ h \in [DOMAIN h -> Cells(DOMAIN h)]
    /\ IsFiniteSet(DOMAIN h)
    /\ Nil \notin DOMAIN h /\ TreeHead \in DOMAIN h

\* The head has no parent and is never virtual.
HeadInv(h) ==
    /\ h[TreeHead].prefix = << >> /\ h[TreeHead].parent = Nil
    /\ h[TreeHead].data # Virtual
    /\ \A i \in DOMAIN h \ {TreeHead} : h[i].data # NoData

\* The pointers down and the pointers up agree.
KidsInv(h) ==
    \A i \in DOMAIN h, slot \in Slots :
        h[i].kids[slot] # Nil => h[h[i].kids[slot]].parent = i

\* Every other node hangs in one slot of its parent.
HangsInv(h) ==
    \A i \in DOMAIN h \ {TreeHead} :
        /\ h[i].parent \in DOMAIN h
        /\ \E slot \in Slots : /\ h[h[i].parent].kids[slot] = i
                               /\ h[h[i].parent].kids[1 - slot] # i

\* There is no cycle: some numbering of the nodes grows from parent to child.
Ranks(h, r) ==
    /\ r \in [DOMAIN h -> Nat]
    /\ \A i \in DOMAIN h \ {TreeHead} : r[h[i].parent] < r[i]

\* A tree, whatever its prefixes are.
Linked(h) ==
    /\ HeapType(h) /\ HeadInv(h) /\ KidsInv(h) /\ HangsInv(h)
    /\ \E r : Ranks(h, r)

\* All virtual nodes but those in S have two children.
BusyBut(h, S) ==
    \A i \in DOMAIN h \ S : h[i].data = Virtual =>
        \A slot \in Slots : h[i].kids[slot] # Nil

\* The prefix of every node begins with its parent's.
Nested(h) ==
    \A i \in DOMAIN h \ {TreeHead} : IsPart(h[h[i].parent].prefix, h[i].prefix)

\* Only the head is empty, and its children hang in the slots of their first bits.
FirstBits(h) ==
    /\ \A i \in DOMAIN h \ {TreeHead} : Plen(h[i]) >= 1
    /\ \A slot \in Slots :
          LET c == h[TreeHead].kids[slot]
          IN  c # Nil => h[c].prefix[1] = slot

\* What is left of Nested and of the slots when nodes may be misplaced.
Shaped(h) == Nested(h) /\ FirstBits(h)

\* g has some of the nodes of h; prefixes only grew, and the head has no new child.
Shrunk(h, g) ==
    /\ DOMAIN g \subseteq DOMAIN h
    /\ \A i \in DOMAIN g : IsPart(h[i].prefix, g[i].prefix)
    /\ \A slot \in Slots : g[TreeHead].kids[slot] \in {Nil, h[TreeHead].kids[slot]}

\* Whether a node is an entry that was inserted.
Holds(n) == n.data \notin {Virtual, NoData}

\* The entries of the tree are those of the table.
Stores(h, t) ==
    /\ \A i \in DOMAIN h : Holds(h[i]) =>
          h[i].prefix \in DOMAIN t /\ t[h[i].prefix] = h[i].data
    /\ \A q \in DOMAIN t : \E i \in DOMAIN h : Holds(h[i]) /\ h[i].prefix = q

\* The types of the fields of a node.
LEMMA NodeType ==
    ASSUME NEW h, HeapType(h), NEW i \in DOMAIN h
    PROVE  /\ h[i] \in Cells(DOMAIN h)
           /\ h[i].prefix \in AllPrefixes /\ Plen(h[i]) \in 0..Width
           /\ h[i].data \in Values \cup {NoData, Virtual}
           /\ h[i].parent \in DOMAIN h \cup {Nil}
           /\ h[i].kids \in [Slots -> DOMAIN h \cup {Nil}]
           /\ \A slot \in Slots : h[i].kids[slot] \in DOMAIN h \cup {Nil}
<1>1. h[i] \in Cells(DOMAIN h)
  BY DEF HeapType
<1>2. /\ h[i].prefix \in AllPrefixes /\ h[i].data \in Values \cup {NoData, Virtual}
      /\ h[i].parent \in DOMAIN h \cup {Nil}
      /\ h[i].kids \in [Slots -> DOMAIN h \cup {Nil}]
  BY <1>1 DEF Cells
<1> QED
  BY <1>1, <1>2, PrefixType DEF Plen

\* A child is a node other than the head.
LEMMA KidIs ==
    ASSUME NEW h, Linked(h), NEW i \in DOMAIN h, NEW slot \in Slots,
           h[i].kids[slot] # Nil
    PROVE  /\ h[i].kids[slot] \in DOMAIN h \ {TreeHead}
           /\ h[h[i].kids[slot]].parent = i
<1>1. h[i].kids[slot] \in DOMAIN h /\ h[h[i].kids[slot]].parent = i
  BY NodeType DEF Linked, KidsInv
<1> QED
  BY <1>1 DEF Linked, HeapType, HeadInv

\* Such a change keeps the shape.
LEMMA ShrunkShaped ==
    ASSUME NEW h, Linked(h), NEW g, Linked(g), Shaped(h), Nested(g), Shrunk(h, g)
    PROVE  Shaped(g)
<1>1. ASSUME NEW i \in DOMAIN g
      PROVE  /\ h[i].prefix \in AllPrefixes /\ g[i].prefix \in AllPrefixes
             /\ Len(h[i].prefix) \in Nat /\ Len(g[i].prefix) \in Nat
             /\ Len(h[i].prefix) <= Len(g[i].prefix)
             /\ 1 <= Len(h[i].prefix) => g[i].prefix[1] = h[i].prefix[1]
  <2>1. i \in DOMAIN h /\ IsPart(h[i].prefix, g[i].prefix)
    BY DEF Shrunk
  <2>2. h[i].prefix \in AllPrefixes /\ g[i].prefix \in AllPrefixes
    BY <2>1, NodeType DEF Linked
  <2>3. Len(h[i].prefix) \in Nat /\ Len(g[i].prefix) \in Nat
    BY <2>2, PrefixType, LpmAssumption
  <2> QED
    BY <2>1, <2>2, <2>3 DEF IsPart
<1>2. ASSUME NEW i \in DOMAIN g \ {TreeHead}
      PROVE  Plen(g[i]) >= 1
  BY <1>1 DEF Shaped, FirstBits, Shrunk, Plen
<1>3. ASSUME NEW slot \in Slots, NEW c, c = g[TreeHead].kids[slot], c # Nil
      PROVE  g[c].prefix[1] = slot
  <2>1. c = h[TreeHead].kids[slot]
    BY <1>3 DEF Shrunk
  <2>2. TreeHead \in DOMAIN g
    BY DEF Linked, HeapType
  <2>3. c \in DOMAIN g \ {TreeHead} /\ c \in DOMAIN h
    BY <1>3, <2>2, KidIs DEF Shrunk
  <2>4. Plen(h[c]) >= 1 /\ h[c].prefix[1] = slot
    BY <1>3, <2>1, <2>3 DEF Shaped, FirstBits
  <2> QED
    BY <1>1, <2>3, <2>4 DEF Plen
<1> QED
  BY <1>2, <1>3 DEF Shaped, FirstBits

\* Where trees are sorted, a child's prefix goes on with the bit of its slot.
LEMMA SortedKid ==
    ASSUME NEW h, Linked(h), Nested(h), ~ Misplaced(h), NEW i \in DOMAIN h,
           NEW slot \in Slots, NEW c, c = h[i].kids[slot], c # Nil
    PROVE  /\ c \in DOMAIN h \ {TreeHead} /\ h[c].parent = i
           /\ Plen(h[i]) < Plen(h[c]) /\ IsPart(h[i].prefix, h[c].prefix)
           /\ h[c].prefix[Plen(h[i]) + 1] = slot
<1>1. c \in DOMAIN h \ {TreeHead} /\ h[c].parent = i
  BY KidIs
<1>2. Plen(h[i]) \in 0..Width /\ Plen(h[c]) \in 0..Width
  BY <1>1, NodeType DEF Linked
<1>3. ~ (Plen(h[c]) <= Plen(h[i])) /\ h[c].prefix[Plen(h[i]) + 1] = slot
  BY DEF Misplaced
<1> QED
  BY <1>1, <1>2, <1>3 DEF Nested

-----------------------------------------------------------------------------
(***************************************************************************)
(* Walks                                                                   *)
(***************************************************************************)
\* The first n + 1 members of the sequence of places a walk is at.
IsWalk(f, n, h, addr, exact) ==
    /\ f[0] = [node |-> TreeHead, last |-> TreeHead]
    /\ \A k \in 0 .. n - 1 : f[k + 1] = Step(h, addr, exact, f[k])

LEMMA DepthIs ==
    ASSUME NEW h, Linked(h)
    PROVE  Depth(h) \in Nat
  BY FS_CardinalityType DEF Depth, Linked, HeapType

\* The walks that Descend is defined by.
LEMMA WalkExists ==
    ASSUME NEW h, Linked(h), NEW addr, NEW exact
    PROVE  \E w : IsWalk(w, Depth(h), h, addr, exact) /\ DOMAIN w = 0..Depth(h)
<1> DEFINE P == {n \in 0..Depth(h) :
                    \E f : IsWalk(f, n, h, addr, exact) /\ DOMAIN f = 0..n}
<1>0. Depth(h) \in Nat
  BY DepthIs
<1>1. 0 \in P
  <2>1. IsWalk([k \in 0..0 |-> [node |-> TreeHead, last |-> TreeHead]], 0, h, addr, exact)
    BY DEF IsWalk
  <2> QED
    BY <1>0, <2>1
<1>2. ASSUME NEW n \in 0 .. Depth(h) - 1, n \in P
      PROVE  n + 1 \in P
  <2>1. PICK f : IsWalk(f, n, h, addr, exact) /\ DOMAIN f = 0..n
    BY <1>2
  <2> DEFINE g == [k \in 0 .. n + 1 |-> IF k <= n THEN f[k]
                                        ELSE Step(h, addr, exact, f[n])]
  <2>2. g[0] = [node |-> TreeHead, last |-> TreeHead]
    BY <1>0, <2>1 DEF IsWalk
  <2>3. ASSUME NEW k \in 0 .. (n + 1) - 1
        PROVE  g[k + 1] = Step(h, addr, exact, g[k])
    <3>1. CASE k < n
      <4>1. g[k] = f[k] /\ g[k + 1] = f[k + 1] /\ k \in 0 .. n - 1
        BY <1>0, <3>1
      <4> HIDE DEF g
      <4> QED
        BY <2>1, <4>1 DEF IsWalk
    <3>2. CASE k = n
      BY <1>0, <3>2
    <3> QED
      BY <1>0, <3>1, <3>2
  <2>4. DOMAIN g = 0 .. n + 1
    OBVIOUS
  <2> HIDE DEF g
  <2>5. IsWalk(g, n + 1, h, addr, exact)
    BY <2>2, <2>3 DEF IsWalk
  <2>6. n + 1 \in 0..Depth(h)
    BY <1>0
  <2> QED
    BY <2>4, <2>5, <2>6
<1> HIDE DEF P
<1>3. Depth(h) \in P
  BY <1>0, <1>1, <1>2, UpTo
<1> QED
  BY <1>3 DEF P

\* Descend is the last place of a walk.
LEMMA DescendIs ==
    ASSUME NEW h, Linked(h), NEW addr, NEW exact
    PROVE  \E w : IsWalk(w, Depth(h), h, addr, exact) /\ Descend(h, addr, exact) = w[Depth(h)]
<1> DEFINE F(f) == [k \in 0..Depth(h) |->
                       IF k = 0 THEN [node |-> TreeHead, last |-> TreeHead]
                       ELSE Step(h, addr, exact, f[k - 1])]
           W == CHOOSE f : f = F(f)
<1>0. Depth(h) \in Nat
  BY DepthIs
<1>1. PICK w : IsWalk(w, Depth(h), h, addr, exact) /\ DOMAIN w = 0..Depth(h)
  BY WalkExists
<1> DEFINE g == [k \in 0..Depth(h) |-> w[k]]
<1>2. g = F(g)
  <2>1. ASSUME NEW k \in 0..Depth(h), k # 0
        PROVE  g[k] = Step(h, addr, exact, g[k - 1])
    <3>1. k - 1 \in 0 .. Depth(h) - 1 /\ (k - 1) + 1 = k /\ k - 1 \in 0..Depth(h)
      BY <1>0, <2>1
    <3>2. g[k] = w[k] /\ g[k - 1] = w[k - 1]
      BY <3>1
    <3> HIDE DEF g
    <3> QED
      BY <1>1, <3>1, <3>2 DEF IsWalk
  <2>2. 0 \in 0..Depth(h) /\ g[0] = [node |-> TreeHead, last |-> TreeHead]
    BY <1>0, <1>1 DEF IsWalk
  <2>3. \A k \in 0..Depth(h) : g[k] = IF k = 0 THEN [node |-> TreeHead, last |-> TreeHead]
                                      ELSE Step(h, addr, exact, g[k - 1])
    <3> HIDE DEF g
    <3> QED
      BY <2>1, <2>2
  <2>4. g = [k \in 0..Depth(h) |-> g[k]]
    OBVIOUS
  <2> HIDE DEF g
  <2> QED
    BY <2>3, <2>4
<1>3. W = F(W)
  <2> HIDE DEF g, F
  <2> QED
    BY <1>2, Zenon
<1>4. Descend(h, addr, exact) = W[Depth(h)]
  BY DEF Descend
<1> HIDE DEF W
<1>5. W[0] = [node |-> TreeHead, last |-> TreeHead]
  BY <1>0, <1>3
<1>6. ASSUME NEW k \in 0 .. Depth(h) - 1
      PROVE  W[k + 1] = Step(h, addr, exact, W[k])
  <2>1. k + 1 \in 0..Depth(h) /\ k + 1 # 0 /\ (k + 1) - 1 = k
    BY <1>0
  <2>2. W[k + 1] = F(W)[k + 1]
    BY <1>3
  <2> HIDE DEF W
  <2>3. F(W)[k + 1] = Step(h, addr, exact, W[(k + 1) - 1])
    BY <2>1
  <2> QED
    BY <2>1, <2>2, <2>3
<1> QED
  BY <1>4, <1>5, <1>6 DEF IsWalk

\* Whether a walk at n may go to the child in slot.
Fits(h, addr, exact, n, slot) ==
    /\ n.kids[slot] # Nil
    /\ exact => Plen(h[n.kids[slot]]) <= Len(addr)
    /\ Match(h[n.kids[slot]], addr, Plen(n))

\* The place after w when c is the next node.
Onto(h, c, w) == [node |-> c, last |-> IF h[c].data = Virtual THEN w.last ELSE c]

\* In any tree, a step of a walk either stays or goes to a child.
LEMMA StepDown ==
    ASSUME NEW h, Linked(h), NEW addr, NEW exact, NEW v, v.node \in DOMAIN h
    PROVE  \/ Step(h, addr, exact, v) = v
           \/ LET c == Step(h, addr, exact, v).node
              IN  c \in DOMAIN h \ {TreeHead} /\ h[c].parent = v.node
<1> DEFINE n == h[v.node]
           F(slot) == Fits(h, addr, exact, n, slot)
           kid == n.kids[IF F(0) THEN 0 ELSE 1]
<1>1. Step(h, addr, exact, v) =
         IF (exact /\ IsEntry(n, addr)) \/ ~ (F(0) \/ F(1)) THEN v ELSE Onto(h, kid, v)
  BY DEF Step, Fits, Onto
<1>2. F(0) \/ F(1) => kid \in DOMAIN h \ {TreeHead} /\ h[kid].parent = v.node
  <2>1. PICK slot \in Slots : kid = n.kids[slot] /\ (F(0) \/ F(1) => F(slot))
    BY DEF Slots
  <2>2. F(slot) => kid # Nil
    BY <2>1 DEF Fits
  <2> HIDE DEF F, kid
  <2> QED
    BY <2>1, <2>2, KidIs
<1> HIDE DEF F, kid, n
<1>3. Onto(h, kid, v).node = kid
  BY DEF Onto
<1> QED
  BY <1>1, <1>2, <1>3

\* A walk that has come to its end.
AtEnd(h, addr, exact, w) == Step(h, addr, exact, w) = w

\* A walk of as many steps as the tree has nodes has come to its end: every step
\* before that goes to a node of a higher rank than all nodes passed.
LEMMA WalkEnds ==
    ASSUME NEW h, Linked(h), NEW addr, NEW exact,
           NEW w, IsWalk(w, Depth(h), h, addr, exact)
    PROVE  AtEnd(h, addr, exact, w[Depth(h)])
<1>0. Depth(h) \in Nat /\ IsFiniteSet(DOMAIN h) /\ TreeHead \in DOMAIN h
  BY DepthIs DEF Linked, HeapType
<1>1. PICK r : Ranks(h, r)
  BY DEF Linked
<1> DEFINE Passed(k, S) == /\ S \in SUBSET (DOMAIN h) /\ Cardinality(S) = k + 1
                           /\ \A x \in S : r[x] <= r[w[k].node]
           Ok(k) == /\ w[k].node \in DOMAIN h
                    /\ AtEnd(h, addr, exact, w[k]) \/ \E S : Passed(k, S)
           P == {k \in 0..Depth(h) : Ok(k)}
<1>2. Ok(0)
  <2>1. w[0].node = TreeHead
    BY DEF IsWalk
  <2>2. Cardinality({TreeHead}) = 0 + 1
    <3>1. Cardinality({TreeHead}) = 1
      BY FS_Singleton, Zenon
    <3> QED
      BY <3>1
  <2>3. r[TreeHead] \in Nat
    BY <1>0, <1>1 DEF Ranks
  <2>4. Passed(0, {TreeHead})
    BY <1>0, <2>1, <2>2, <2>3
  <2> HIDE DEF Passed
  <2> QED
    BY <1>0, <2>1, <2>4
<1>3. ASSUME NEW k \in 0 .. Depth(h) - 1, Ok(k)
      PROVE  Ok(k + 1)
  <2>1. w[k + 1] = Step(h, addr, exact, w[k])
    BY DEF IsWalk
  <2>2. w[k].node \in DOMAIN h
    BY <1>3
  <2>3. CASE w[k + 1] = w[k]
    <3>1. AtEnd(h, addr, exact, w[k + 1])
      BY <2>1, <2>3 DEF AtEnd
    <3> HIDE DEF Passed
    <3> QED
      BY <2>2, <2>3, <3>1
  <2>4. CASE w[k + 1] # w[k]
    <3> DEFINE c == w[k + 1].node
    <3>1. c \in DOMAIN h \ {TreeHead} /\ h[c].parent = w[k].node
      BY <2>1, <2>2, <2>4, StepDown
    <3>2. PICK S : Passed(k, S)
      <4> HIDE DEF Passed
      <4> QED
        BY <1>3, <2>1, <2>4 DEF AtEnd
    <3> HIDE DEF c
    <3>3. r[w[k].node] < r[c] /\ r[c] \in Nat /\ r[w[k].node] \in Nat
      BY <1>1, <2>2, <3>1 DEF Ranks
    <3>4. \A x \in S : r[x] < r[c]
      <4>1. \A x \in S : r[x] \in Nat /\ r[x] <= r[w[k].node]
        BY <1>1, <3>2 DEF Ranks
      <4> QED
        BY <3>3, <4>1
    <3>5. c \notin S
      BY <3>3, <3>4
    <3>6. IsFiniteSet(S) /\ Cardinality(S) = k + 1
      BY <1>0, <3>2, FS_Subset
    <3>7. Cardinality(S \cup {c}) = (k + 1) + 1
      BY <3>5, <3>6, FS_AddElement
    <3>8. \A x \in S \cup {c} : r[x] <= r[c]
      <4>1. \A x \in S : r[x] \in Nat
        BY <1>1, <3>2 DEF Ranks
      <4> QED
        BY <3>3, <3>4, <4>1
    <3>9. Passed(k + 1, S \cup {c})
      BY <3>1, <3>2, <3>7, <3>8 DEF c
    <3> HIDE DEF Passed
    <3> QED
      BY <3>1, <3>9 DEF c
  <2> QED
    BY <2>3, <2>4
<1> HIDE DEF Ok
<1>4. Ok(Depth(h))
  <2>1. 0 \in P
    BY <1>0, <1>2
  <2>2. \A k \in 0 .. Depth(h) - 1 : k \in P => k + 1 \in P
    BY <1>0, <1>3
  <2> HIDE DEF P
  <2>3. \A k \in 0..Depth(h) : k \in P
    BY <1>0, <2>1, <2>2, UpTo
  <2> QED
    BY <1>0, <2>3 DEF P
<1>5. ~ \E S : Passed(Depth(h), S)
  <2> SUFFICES ASSUME NEW S, Passed(Depth(h), S) PROVE FALSE
    OBVIOUS
  <2>1. Cardinality(S) <= Depth(h)
    BY <1>0, FS_Subset DEF Depth
  <2>2. Cardinality(S) = Depth(h) + 1
    OBVIOUS
  <2> HIDE DEF Passed
  <2> QED
    BY <1>0, <2>1, <2>2
<1> HIDE DEF Passed
<1> QED
  BY <1>4, <1>5 DEF Ok

\* The bound of Descend ends no walk too early.
LEMMA DescendEnds ==
    ASSUME NEW h, Linked(h), NEW addr, NEW exact
    PROVE  AtEnd(h, addr, exact, Descend(h, addr, exact))
<1>1. PICK w : IsWalk(w, Depth(h), h, addr, exact) /\ Descend(h, addr, exact) = w[Depth(h)]
  BY DescendIs
<1>2. AtEnd(h, addr, exact, w[Depth(h)])
  BY <1>1, WalkEnds
<1> QED
  BY <1>1, <1>2

\* A tree whose nodes are where lookups expect them.
Sorted(h) == Linked(h) /\ Nested(h) /\ ~ Misplaced(h)

\* An exact walk is for any prefix, another one for an address.
Sought(addr, exact) ==
    /\ exact \in BOOLEAN /\ addr \in AllPrefixes
    /\ ~ exact => Len(addr) = Width

\* A walk may go on to the children that are a part of what it is for.
LEMMA FitsIs ==
    ASSUME NEW h, Sorted(h), NEW addr, NEW exact, Sought(addr, exact),
           NEW i \in DOMAIN h, IsPart(h[i].prefix, addr),
           NEW slot \in Slots
    PROVE  Fits(h, addr, exact, h[i], slot) <=>
              h[i].kids[slot] # Nil /\ IsPart(h[h[i].kids[slot]].prefix, addr)
<1> DEFINE c == h[i].kids[slot]
<1> SUFFICES ASSUME c # Nil
             PROVE  Fits(h, addr, exact, h[i], slot) <=> IsPart(h[c].prefix, addr)
  BY DEF Fits
<1>1. /\ c \in DOMAIN h \ {TreeHead} /\ h[c].parent = i
      /\ Plen(h[i]) < Plen(h[c]) /\ IsPart(h[i].prefix, h[c].prefix)
  BY SortedKid DEF Sorted
<1>2. Plen(h[i]) \in 0..Width /\ Plen(h[c]) \in 0..Width /\ Len(addr) \in 0..Width
  BY <1>1, NodeType, PrefixType DEF Sorted, Linked, Sought
<1> HIDE DEF c
<1>3. Match(h[c], addr, Plen(h[i])) <=>
         \A k \in (Plen(h[i]) + 1)..Plen(h[c]) : h[c].prefix[k] = addr[k]
  BY <1>1, <1>2 DEF Match
<1>4. \A k \in 1..Plen(h[i]) : h[c].prefix[k] = addr[k]
  BY <1>1 DEF IsPart, Plen
<1>5. Match(h[c], addr, Plen(h[i])) <=> \A k \in 1..Plen(h[c]) : h[c].prefix[k] = addr[k]
  BY <1>1, <1>2, <1>3, <1>4
<1>6. exact \/ Len(addr) = Width
  BY DEF Sought
<1> QED
  BY <1>2, <1>5, <1>6 DEF Fits, IsPart, Plen, c

\* The child of i that is a part of addr, if there is one.
GoesTo(h, addr, i, c) ==
    c \in DOMAIN h \ {TreeHead} /\ h[c].parent = i /\ IsPart(h[c].prefix, addr)

\* At most one child of a node is a part of addr: a walk never has a choice.
LEMMA OneWay ==
    ASSUME NEW h, Sorted(h), NEW addr, NEW i \in DOMAIN h,
           NEW c, GoesTo(h, addr, i, c), NEW d, GoesTo(h, addr, i, d)
    PROVE  c = d
<1>1. PICK s \in Slots : h[i].kids[s] = c
  BY DEF GoesTo, Sorted, Linked, HangsInv
<1>2. PICK t \in Slots : h[i].kids[t] = d
  BY DEF GoesTo, Sorted, Linked, HangsInv
<1>3. c # Nil /\ d # Nil
  BY DEF GoesTo, Sorted, Linked, HeapType
<1>4. /\ Plen(h[i]) < Plen(h[c]) /\ h[c].prefix[Plen(h[i]) + 1] = s
      /\ Plen(h[i]) < Plen(h[d]) /\ h[d].prefix[Plen(h[i]) + 1] = t
  BY <1>1, <1>2, <1>3, SortedKid DEF Sorted
<1>5. Plen(h[i]) \in Nat /\ Plen(h[c]) \in Nat /\ Plen(h[d]) \in Nat
  BY NodeType DEF GoesTo, Sorted, Linked
<1>6. Plen(h[i]) + 1 \in 1..Plen(h[c]) /\ Plen(h[i]) + 1 \in 1..Plen(h[d])
  BY <1>4, <1>5
<1>7. s = t
  BY <1>4, <1>6 DEF GoesTo, IsPart, Plen
<1> QED
  BY <1>1, <1>2, <1>7

\* A step of a walk stays, if there is no such child, or goes to it.
LEMMA StepIs ==
    ASSUME NEW h, Sorted(h), NEW addr, NEW exact, Sought(addr, exact),
           NEW w, w.node \in DOMAIN h, IsPart(h[w.node].prefix, addr)
    PROVE  \/ /\ Step(h, addr, exact, w) = w
              /\ \A c : ~ GoesTo(h, addr, w.node, c)
           \/ \E c : /\ GoesTo(h, addr, w.node, c)
                     /\ Step(h, addr, exact, w) = Onto(h, c, w)
<1> DEFINE n == h[w.node]
           F(slot) == Fits(h, addr, exact, n, slot)
           kid == n.kids[IF F(0) THEN 0 ELSE 1]
<1>0. Step(h, addr, exact, w) =
         IF (exact /\ IsEntry(n, addr)) \/ ~ (F(0) \/ F(1)) THEN w
         ELSE Onto(h, kid, w)
  BY DEF Step, Fits, Onto
<1>1. \A slot \in Slots : F(slot) <=>
         n.kids[slot] # Nil /\ IsPart(h[n.kids[slot]].prefix, addr)
  BY FitsIs
<1>2. \A slot \in Slots : F(slot) => GoesTo(h, addr, w.node, n.kids[slot])
  <2> SUFFICES ASSUME NEW slot \in Slots, F(slot)
               PROVE  GoesTo(h, addr, w.node, n.kids[slot])
    OBVIOUS
  <2>1. n.kids[slot] # Nil /\ IsPart(h[n.kids[slot]].prefix, addr)
    BY <1>1
  <2> QED
    BY <2>1, KidIs DEF GoesTo, Sorted
<1>3. \A c : GoesTo(h, addr, w.node, c) => \E slot \in Slots : F(slot)
  <2> SUFFICES ASSUME NEW c, GoesTo(h, addr, w.node, c)
               PROVE  \E slot \in Slots : F(slot)
    OBVIOUS
  <2>1. PICK slot \in Slots : n.kids[slot] = c
    BY DEF GoesTo, Sorted, Linked, HangsInv
  <2>2. c # Nil
    BY DEF GoesTo, Sorted, Linked, HeapType
  <2> QED
    BY <1>1, <2>1, <2>2 DEF GoesTo
<1>4. exact /\ IsEntry(n, addr) => ~ (F(0) \/ F(1))
  <2> SUFFICES ASSUME n.prefix = addr, NEW slot \in Slots, F(slot) PROVE FALSE
    BY DEF IsEntry, Slots
  <2>1. n.kids[slot] # Nil /\ IsPart(h[n.kids[slot]].prefix, addr)
    BY <1>1
  <2>2. Plen(n) < Plen(h[n.kids[slot]]) /\ n.kids[slot] \in DOMAIN h
    BY <2>1, SortedKid DEF Sorted
  <2>3. Plen(n) \in Nat /\ Plen(h[n.kids[slot]]) \in Nat
    BY <2>2, NodeType DEF Sorted, Linked
  <2> QED
    BY <2>1, <2>2, <2>3 DEF IsPart, Plen
<1> HIDE DEF F
<1>5. CASE F(0) \/ F(1)
  <2>1. GoesTo(h, addr, w.node, kid)
    BY <1>2, <1>5 DEF Slots
  <2> QED
    BY <1>0, <1>4, <1>5, <2>1
<1>6. CASE ~ (F(0) \/ F(1))
  <2>1. \A slot \in Slots : ~ F(slot)
    BY <1>6 DEF Slots
  <2> QED
    BY <1>0, <1>3, <1>6, <2>1
<1> QED
  BY <1>5, <1>6

\* What is known of a walk that is at w, of a place v it has been at.
After(h, v, w) ==
    /\ Plen(h[v.node]) <= Plen(h[w.node])
    /\ Plen(h[v.node]) = Plen(h[w.node]) => v.node = w.node
    /\ h[v.node].data # Virtual => Plen(h[v.node]) <= Plen(h[w.last])

\* A place a walk for addr may be at.
Place(h, addr, w) ==
    /\ w.node \in DOMAIN h /\ IsPart(h[w.node].prefix, addr)
    /\ w.last \in DOMAIN h /\ IsPart(h[w.last].prefix, addr)
    /\ h[w.last].data # Virtual
    /\ After(h, w, w)

\* A step keeps what is known of the walk and of the places it has been at.
LEMMA StepGoesOn ==
    ASSUME NEW h, Sorted(h), NEW addr, NEW exact, Sought(addr, exact),
           NEW w, Place(h, addr, w)
    PROVE  LET s == Step(h, addr, exact, w)
           IN  /\ Place(h, addr, s)
               /\ \A v : After(h, v, w) /\ v.node \in DOMAIN h => After(h, v, s)
<1> DEFINE s == Step(h, addr, exact, w)
<1>1. CASE s = w
  BY <1>1
<1>2. CASE s # w
  <2>1. PICK c : /\ GoesTo(h, addr, w.node, c)
                 /\ s = Onto(h, c, w)
    BY <1>2, StepIs DEF Place
  <2> HIDE DEF s
  <2>2. s.node = c /\ s.last = IF h[c].data = Virtual THEN w.last ELSE c
    BY <2>1 DEF Onto
  <2>3. PICK slot \in Slots : h[w.node].kids[slot] = c
    BY <2>1 DEF GoesTo, Sorted, Linked, HangsInv
  <2>4. c # Nil /\ c \in DOMAIN h
    BY <2>1 DEF GoesTo, Sorted, Linked, HeapType
  <2>5. Plen(h[w.node]) < Plen(h[c])
    BY <2>3, <2>4, SortedKid DEF Sorted, Place
  <2>6. \A i \in DOMAIN h : Plen(h[i]) \in Nat
    BY NodeType DEF Sorted, Linked
  <2>7. Place(h, addr, s)
    BY <2>1, <2>2, <2>4, <2>5, <2>6 DEF Place, After, GoesTo
  <2>8. \A v : After(h, v, w) /\ v.node \in DOMAIN h => After(h, v, s)
    <3> SUFFICES ASSUME NEW v, After(h, v, w), v.node \in DOMAIN h
                 PROVE  After(h, v, s)
      OBVIOUS
    <3>1. Plen(h[v.node]) <= Plen(h[w.node])
      BY DEF After
    <3>2. Plen(h[v.node]) < Plen(h[s.node])
      BY <2>2, <2>4, <2>5, <2>6, <3>1 DEF Place
    <3>3. h[v.node].data # Virtual => Plen(h[v.node]) <= Plen(h[s.last])
      BY <2>2, <2>4, <2>5, <2>6, <3>1 DEF After, Place
    <3> QED
      BY <2>2, <2>4, <2>6, <3>2, <3>3 DEF After
  <2> QED
    BY <2>7, <2>8 DEF s
<1> QED
  BY <1>1, <1>2

\* A walk never gets shorter.
LEMMA WalkGoesDown ==
    ASSUME NEW h, Sorted(h), NEW addr, NEW exact, Sought(addr, exact),
           NEW w, IsWalk(w, Depth(h), h, addr, exact)
    PROVE  \A k \in 0..Depth(h) : /\ Place(h, addr, w[k])
                                  /\ \A j \in 0..k : After(h, w[j], w[k])
<1> DEFINE P == {k \in 0..Depth(h) : /\ Place(h, addr, w[k])
                                     /\ \A j \in 0..k : After(h, w[j], w[k])
                                     /\ \A j \in 0..k : w[j].node \in DOMAIN h}
<1>0. Depth(h) \in Nat
  BY DepthIs DEF Sorted
<1>1. 0 \in P
  <2>1. w[0].node = TreeHead /\ w[0].last = TreeHead
    BY DEF IsWalk
  <2>2. TreeHead \in DOMAIN h /\ h[TreeHead].prefix = << >> /\ h[TreeHead].data # Virtual
    BY DEF Sorted, Linked, HeapType, HeadInv
  <2>3. Len(h[TreeHead].prefix) = 0 /\ Len(addr) \in Nat
    BY <2>2, EmptyPrefix, PrefixType DEF Sought
  <2>4. Place(h, addr, w[0])
    BY <2>1, <2>2, <2>3 DEF Place, IsPart, After, Plen
  <2> QED
    BY <1>0, <2>4 DEF Place
<1>2. ASSUME NEW k \in 0 .. Depth(h) - 1, k \in P
      PROVE  k + 1 \in P
  <2>1. w[k + 1] = Step(h, addr, exact, w[k])
    BY DEF IsWalk
  <2>2. Place(h, addr, w[k])
    BY <1>2
  <2>3. /\ Place(h, addr, w[k + 1])
        /\ \A v : After(h, v, w[k]) /\ v.node \in DOMAIN h => After(h, v, w[k + 1])
    BY <2>1, <2>2, StepGoesOn
  <2>4. ASSUME NEW j \in 0 .. k + 1
        PROVE  After(h, w[j], w[k + 1]) /\ w[j].node \in DOMAIN h
    <3>1. CASE j \in 0..k
      BY <1>2, <2>3, <3>1
    <3>2. CASE j = k + 1
      BY <2>3, <3>2 DEF Place
    <3> QED
      BY <1>0, <3>1, <3>2
  <2> QED
    BY <1>0, <2>3, <2>4
<1> HIDE DEF P
<1>3. \A k \in 0..Depth(h) : k \in P
  BY <1>0, <1>1, <1>2, UpTo
<1> QED
  BY <1>3 DEF P

\* The parent of a node is shorter.
LEMMA ParentIs ==
    ASSUME NEW h, Sorted(h), NEW c \in DOMAIN h \ {TreeHead}
    PROVE  /\ h[c].parent \in DOMAIN h
           /\ Plen(h[h[c].parent]) \in 0..Width /\ Plen(h[c]) \in 0..Width
           /\ Plen(h[h[c].parent]) < Plen(h[c])
           /\ IsPart(h[h[c].parent].prefix, h[c].prefix)
<1>1. h[c].parent \in DOMAIN h
  BY DEF Sorted, Linked, HangsInv
<1>2. PICK slot \in Slots : h[h[c].parent].kids[slot] = c
  BY DEF Sorted, Linked, HangsInv
<1>3. c # Nil
  BY DEF Sorted, Linked, HeapType
<1> QED
  BY <1>1, <1>2, <1>3, SortedKid, NodeType DEF Sorted, Linked

\* Every node whose prefix is a part of addr is on the way of a walk for addr.
LEMMA AllVisited ==
    ASSUME NEW h, Sorted(h), NEW addr, NEW exact, Sought(addr, exact),
           NEW w, IsWalk(w, Depth(h), h, addr, exact)
    PROVE  \A c \in DOMAIN h : IsPart(h[c].prefix, addr) =>
              \E j \in 0..Depth(h) : w[j].node = c
<1> DEFINE Met(c) == \E j \in 0..Depth(h) : w[j].node = c
           P == {n \in 0..Width : \A c \in DOMAIN h :
                    IsPart(h[c].prefix, addr) /\ Plen(h[c]) <= n => Met(c)}
<1>0. Width \in Nat /\ Depth(h) \in Nat
  BY DepthIs, LpmAssumption DEF Sorted
<1>e. AtEnd(h, addr, exact, w[Depth(h)])
  BY WalkEnds DEF Sorted
<1>1. Met(TreeHead)
  <2>1. w[0].node = TreeHead
    BY DEF IsWalk
  <2> QED
    BY <1>0, <2>1
<1>2. 0 \in P
  <2>1. ASSUME NEW c \in DOMAIN h, Plen(h[c]) <= 0
        PROVE  c = TreeHead
    BY <2>1, ParentIs
  <2> QED
    BY <1>0, <1>1, <2>1
<1>3. ASSUME NEW n \in 0 .. Width - 1, n \in P
      PROVE  n + 1 \in P
  <2>1. ASSUME NEW c \in DOMAIN h \ {TreeHead}, IsPart(h[c].prefix, addr),
               Plen(h[c]) <= n + 1
        PROVE  Met(c)
    <3> DEFINE p == h[c].parent
    <3>1. /\ p \in DOMAIN h /\ Plen(h[p]) \in 0..Width /\ Plen(h[c]) \in 0..Width
          /\ Plen(h[p]) < Plen(h[c]) /\ IsPart(h[p].prefix, h[c].prefix)
      BY ParentIs
    <3>2. IsPart(h[p].prefix, addr)
      BY <2>1, <3>1, PartOfPart, NodeType DEF Sorted, Linked, Sought
    <3>3. PICK j \in 0..Depth(h) : w[j].node = p
      BY <1>3, <2>1, <3>1, <3>2
    <3>5. GoesTo(h, addr, w[j].node, c)
      BY <2>1, <3>3 DEF GoesTo
    <3>6. PICK d : /\ GoesTo(h, addr, w[j].node, d)
                   /\ Step(h, addr, exact, w[j]) = Onto(h, d, w[j])
      <4>1. w[j].node \in DOMAIN h /\ IsPart(h[w[j].node].prefix, addr)
        BY <3>1, <3>2, <3>3
      <4> QED
        BY <3>5, <4>1, StepIs
    <3>7. d = c
      BY <3>1, <3>3, <3>5, <3>6, OneWay
    <3>n. Step(h, addr, exact, w[j]).node = c
      BY <3>6, <3>7 DEF Onto
    <3>4. j # Depth(h)
      <4>1. c # p
        BY <3>1
      <4> QED
        BY <1>e, <3>3, <3>n, <4>1 DEF AtEnd
    <3>9. j \in 0 .. Depth(h) - 1 /\ j + 1 \in 0..Depth(h)
      BY <1>0, <3>4
    <3>10. w[j + 1].node = c
      BY <3>9, <3>n DEF IsWalk
    <3> QED
      BY <3>9, <3>10
  <2>2. ASSUME NEW c \in DOMAIN h, IsPart(h[c].prefix, addr), Plen(h[c]) <= n + 1
        PROVE  Met(c)
    BY <1>1, <2>1, <2>2
  <2> HIDE DEF Met
  <2> QED
    BY <1>0, <2>2
<1> HIDE DEF P
<1>4. Width \in P
  BY <1>0, <1>2, <1>3, UpTo
<1>5. \A c \in DOMAIN h : Plen(h[c]) <= Width
  BY <1>0, NodeType DEF Sorted, Linked
<1> HIDE DEF Met
<1>6. \A c \in DOMAIN h : IsPart(h[c].prefix, addr) => Met(c)
  BY <1>4, <1>5 DEF P
<1> QED
  BY <1>6 DEF Met

\* Where a walk ends: at the longest node that is a part of addr, the only one
\* of that length, and with the longest that is not virtual.
LEMMA DescendFinds ==
    ASSUME NEW h, Sorted(h), NEW addr, NEW exact, Sought(addr, exact)
    PROVE  LET d == Descend(h, addr, exact)
           IN  /\ Place(h, addr, d)
               /\ \A c \in DOMAIN h : IsPart(h[c].prefix, addr) =>
                     /\ Plen(h[c]) <= Plen(h[d.node])
                     /\ Plen(h[c]) = Plen(h[d.node]) => c = d.node
                     /\ h[c].data # Virtual => Plen(h[c]) <= Plen(h[d.last])
<1>1. PICK w : IsWalk(w, Depth(h), h, addr, exact) /\ Descend(h, addr, exact) = w[Depth(h)]
  BY DescendIs DEF Sorted
<1>0. Depth(h) \in Nat
  BY DepthIs DEF Sorted
<1>2. /\ Place(h, addr, w[Depth(h)])
      /\ \A j \in 0..Depth(h) : After(h, w[j], w[Depth(h)])
  BY <1>0, <1>1, WalkGoesDown
<1>3. ASSUME NEW c \in DOMAIN h, IsPart(h[c].prefix, addr)
      PROVE  \E j \in 0..Depth(h) : w[j].node = c
  BY <1>1, <1>3, AllVisited
<1> QED
  BY <1>1, <1>2, <1>3 DEF After

\* No two nodes of a sorted tree have the same prefix.
LEMMA OnlyNode ==
    ASSUME NEW h, Sorted(h), NEW i \in DOMAIN h, NEW j \in DOMAIN h,
           h[i].prefix = h[j].prefix
    PROVE  i = j
<1> DEFINE addr == h[i].prefix
<1>1. addr \in AllPrefixes
  BY NodeType DEF Sorted, Linked
<1>2. IsPart(addr, addr) /\ Len(addr) \in Nat
  BY <1>1, PrefixType DEF IsPart
<1>3. Sought(addr, TRUE)
  BY <1>1 DEF Sought
<1> DEFINE d == Descend(h, addr, TRUE)
<1> HIDE DEF addr
<1>4. /\ Place(h, addr, d)
      /\ \A c \in DOMAIN h : IsPart(h[c].prefix, addr) =>
            /\ Plen(h[c]) <= Plen(h[d.node])
            /\ Plen(h[c]) = Plen(h[d.node]) => c = d.node
  BY <1>3, DescendFinds
<1> HIDE DEF d
<1>5. /\ Plen(h[d.node]) \in Nat /\ Plen(h[d.node]) <= Len(addr)
      /\ Plen(h[i]) = Len(addr) /\ Plen(h[j]) = Len(addr)
  BY <1>4, NodeType DEF Place, IsPart, Plen, Sorted, Linked, addr
<1> QED
  BY <1>2, <1>4, <1>5 DEF addr

\* The beginning of addr that a node's prefix is.
LEMMA PartIsBegin ==
    ASSUME NEW p \in AllPrefixes, NEW q \in AllPrefixes, IsPart(p, q)
    PROVE  SubSeq(q, 1, Len(p)) = p
<1>1. Len(p) \in 0..Len(q)
  BY PrefixType DEF IsPart
<1>2. /\ SubSeq(q, 1, Len(p)) \in AllPrefixes /\ Len(SubSeq(q, 1, Len(p))) = Len(p)
      /\ \A i \in 1..Len(p) : SubSeq(q, 1, Len(p))[i] = q[i]
  BY <1>1, Begin
<1> DEFINE b == SubSeq(q, 1, Len(p))
<1> HIDE DEF b
<1>3. IsPart(p, b)
  BY <1>1, <1>2 DEF b, IsPart
<1> QED
  BY <1>2, <1>3, SamePrefix DEF b

\* In a sorted tree that stores the table, lookups find what the table says.
LEMMA LookupCorrect ==
    ASSUME Sorted(heap), Stores(heap, table), NEW addr \in Addresses
    PROVE  Lookup(heap, addr) = LongestMatch(addr)
<1> DEFINE d == Descend(heap, addr, FALSE)
           last == d.last
           fits == {n \in 0..Width : SubSeq(addr, 1, n) \in DOMAIN table}
<1>0. addr \in AllPrefixes /\ Len(addr) = Width /\ Width \in Nat
  BY AddressIsPrefix, LpmAssumption
<1>1. Sought(addr, FALSE)
  BY <1>0 DEF Sought
<1>2. /\ Place(heap, addr, d)
      /\ \A c \in DOMAIN heap : IsPart(heap[c].prefix, addr) /\
            heap[c].data # Virtual => Plen(heap[c]) <= Plen(heap[last])
  BY <1>1, DescendFinds
<1>3. Lookup(heap, addr) = heap[last].data
  BY <1>2 DEF Lookup, Place
<1>4. /\ last \in DOMAIN heap /\ IsPart(heap[last].prefix, addr)
      /\ heap[last].data # Virtual
      /\ heap[last].prefix \in AllPrefixes /\ Plen(heap[last]) \in 0..Width
  BY <1>2, NodeType DEF Place, Sorted, Linked
<1> HIDE DEF d
<1>5. SubSeq(addr, 1, Plen(heap[last])) = heap[last].prefix
  BY <1>0, <1>4, PartIsBegin DEF Plen
\* Every entry that fits is at most as long.
<1>6. ASSUME NEW n \in fits
      PROVE  \E c \in DOMAIN heap : /\ Holds(heap[c]) /\ Plen(heap[c]) = n
                                    /\ n <= Plen(heap[last])
  <2>1. PICK c \in DOMAIN heap : Holds(heap[c]) /\ heap[c].prefix = SubSeq(addr, 1, n)
    BY DEF Stores
  <2>2. Len(SubSeq(addr, 1, n)) = n /\ IsPart(SubSeq(addr, 1, n), addr)
    BY <1>0, Begin
  <2>3. Plen(heap[c]) = n /\ IsPart(heap[c].prefix, addr)
    BY <2>1, <2>2 DEF Plen
  <2> QED
    BY <1>2, <2>1, <2>3 DEF Holds
<1>7. LongestMatch(addr) = IF fits = {} THEN NoData ELSE table[SubSeq(addr, 1, Max(fits))]
  BY DEF LongestMatch
<1> HIDE DEF fits, last
<1>8. CASE Holds(heap[last])
  <2>1. heap[last].prefix \in DOMAIN table /\ table[heap[last].prefix] = heap[last].data
    BY <1>4, <1>8 DEF Stores
  <2>2. Plen(heap[last]) \in fits
    BY <1>4, <1>5, <2>1 DEF fits
  <2>3. \A n \in fits : n \in Nat /\ n <= Plen(heap[last])
    BY <1>0, <1>6 DEF fits
  <2>4. Max(fits) = Plen(heap[last])
    BY <2>2, <2>3 DEF Max
  <2> QED
    BY <1>3, <1>5, <1>7, <2>1, <2>2, <2>4
<1>9. CASE ~ Holds(heap[last])
  <2>1. heap[last].data = NoData
    BY <1>4, <1>9 DEF Holds
  <2>2. last = TreeHead
    BY <1>4, <2>1 DEF Sorted, Linked, HeadInv
  <2>3. Plen(heap[last]) = 0
    BY <2>2, EmptyPrefix DEF Sorted, Linked, HeadInv, Plen
  <2>4. fits = {}
    <3> SUFFICES ASSUME NEW n \in fits PROVE FALSE
      OBVIOUS
    <3>1. PICK c \in DOMAIN heap : /\ Holds(heap[c]) /\ Plen(heap[c]) = n
                                   /\ n <= Plen(heap[last])
      BY <1>6
    <3>2. c = TreeHead
      <4> SUFFICES ASSUME c # TreeHead PROVE FALSE
        OBVIOUS
      <4>1. /\ Plen(heap[heap[c].parent]) \in 0..Width /\ Plen(heap[c]) \in 0..Width
            /\ Plen(heap[heap[c].parent]) < Plen(heap[c])
        BY ParentIs
      <4> QED
        BY <1>0, <2>3, <3>1, <4>1
    <3> QED
      BY <1>9, <2>2, <3>1, <3>2
  <2> QED
    BY <1>3, <1>7, <2>1, <2>4
<1> QED
  BY <1>8, <1>9

\* An exact walk ends at the node with the prefix, if there is one.
LEMMA ExactFinds ==
    ASSUME NEW h, Sorted(h), NEW prefix \in AllPrefixes
    PROVE  LET save == LookupExact(h, prefix)
           IN  /\ save \in DOMAIN h /\ IsPart(h[save].prefix, prefix)
               /\ Plen(h[save]) = Len(prefix) => h[save].prefix = prefix
               /\ \A c \in DOMAIN h : h[c].prefix = prefix =>
                     c = save /\ Plen(h[save]) = Len(prefix)
<1> DEFINE d == Descend(h, prefix, TRUE)
           save == d.node
<1>0. Len(prefix) \in 0..Width /\ IsPart(prefix, prefix)
  BY PrefixType DEF IsPart
<1>1. Sought(prefix, TRUE)
  BY DEF Sought
<1>2. /\ Place(h, prefix, d)
      /\ \A c \in DOMAIN h : IsPart(h[c].prefix, prefix) =>
            /\ Plen(h[c]) <= Plen(h[save])
            /\ Plen(h[c]) = Plen(h[save]) => c = save
  BY <1>1, DescendFinds
<1>3. LookupExact(h, prefix) = save
  BY DEF LookupExact
<1>4. save \in DOMAIN h /\ IsPart(h[save].prefix, prefix)
  BY <1>2 DEF Place
<1>5. h[save].prefix \in AllPrefixes /\ Plen(h[save]) \in 0..Width
  BY <1>4, NodeType DEF Sorted, Linked
<1> HIDE DEF save, d
<1>6. Plen(h[save]) = Len(prefix) => h[save].prefix = prefix
  BY <1>4, <1>5, SamePrefix DEF Plen
<1>7. Plen(h[save]) <= Len(prefix)
  BY <1>4 DEF IsPart, Plen
<1>8. \A c \in DOMAIN h : h[c].prefix = prefix =>
         c = save /\ Plen(h[save]) = Len(prefix)
  BY <1>0, <1>2, <1>5, <1>7 DEF Plen
<1> QED
  BY <1>3, <1>4, <1>6, <1>8

\* In any tree, an exact walk ends at a node; if prefixes grow from parent to child,
\* at one whose prefix is a part of the prefix sought.
LEMMA ExactStays ==
    ASSUME NEW h, Linked(h), NEW prefix \in AllPrefixes
    PROVE  LET save == LookupExact(h, prefix)
           IN  save \in DOMAIN h /\ (Nested(h) => IsPart(h[save].prefix, prefix))
<1>1. PICK w : IsWalk(w, Depth(h), h, prefix, TRUE) /\ Descend(h, prefix, TRUE) = w[Depth(h)]
  BY DescendIs
<1> DEFINE Ok(i) == i \in DOMAIN h /\ (Nested(h) => IsPart(h[i].prefix, prefix))
           P == {k \in 0..Depth(h) : Ok(w[k].node)}
<1>0. Depth(h) \in Nat
  BY DepthIs
<1>2. 0 \in P
  <2>1. w[0].node = TreeHead
    BY <1>1 DEF IsWalk
  <2> QED
    BY <1>0, <2>1, EmptyPrefix, PrefixType DEF Linked, HeapType, HeadInv, IsPart
<1>3. ASSUME NEW k \in 0 .. Depth(h) - 1, k \in P
      PROVE  k + 1 \in P
  <2> DEFINE n == h[w[k].node]
             F(slot) == Fits(h, prefix, TRUE, n, slot)
             kid == n.kids[IF F(0) THEN 0 ELSE 1]
  <2>1. Step(h, prefix, TRUE, w[k]) =
           IF IsEntry(n, prefix) \/ ~ (F(0) \/ F(1)) THEN w[k] ELSE Onto(h, kid, w[k])
    BY DEF Step, Fits, Onto
  <2>2. w[k + 1] = Step(h, prefix, TRUE, w[k])
    BY <1>1 DEF IsWalk
  <2>4. Ok(w[k].node)
    BY <1>3
  <2>3. F(0) \/ F(1) => Ok(kid)
    <3>1. n.kids \in [Slots -> DOMAIN h \cup {Nil}]
      BY <1>3, NodeType DEF Linked
    <3>2. PICK slot \in Slots : kid = n.kids[slot] /\ (F(0) \/ F(1) => F(slot))
      BY DEF Slots
    <3>3. F(slot) => kid \in DOMAIN h
      BY <3>1, <3>2 DEF Fits
    <3>4. ASSUME F(slot), Nested(h) PROVE IsPart(h[kid].prefix, prefix)
      <4>1. w[k].node \in DOMAIN h /\ IsPart(n.prefix, prefix)
        BY <2>4, <3>4
      <4>2. kid # Nil /\ Plen(h[kid]) <= Len(prefix) /\ Match(h[kid], prefix, Plen(n))
        BY <3>2, <3>4 DEF Fits
      <4> HIDE DEF F
      <4>3. kid \in DOMAIN h \ {TreeHead} /\ h[kid].parent = w[k].node
        BY <3>2, <4>1, <4>2, KidIs
      <4>4. IsPart(n.prefix, h[kid].prefix)
        BY <3>4, <4>3 DEF Nested
      <4>5. n.prefix \in AllPrefixes /\ h[kid].prefix \in AllPrefixes
        BY <4>1, <4>3, NodeType DEF Linked
      <4> HIDE DEF n, kid
      <4>6. Len(n.prefix) \in Nat /\ Len(h[kid].prefix) \in Nat
        BY <4>5, PrefixType, LpmAssumption
      <4> QED
        BY <4>1, <4>2, <4>4, <4>6 DEF Match, Plen, IsPart
    <3> HIDE DEF F
    <3> QED
      BY <3>2, <3>3, <3>4
  <2> HIDE DEF F, kid, n, P, Ok
  <2>5. Ok(w[k + 1].node)
    <3>1. CASE w[k + 1] = w[k]
      BY <2>4, <3>1
    <3>2. CASE w[k + 1] # w[k]
      <4>1. (F(0) \/ F(1)) /\ w[k + 1] = Onto(h, kid, w[k])
        BY <2>1, <2>2, <3>2
      <4>2. w[k + 1].node = kid
        BY <4>1 DEF Onto
      <4> QED
        BY <2>3, <4>1, <4>2
    <3> QED
      BY <3>1, <3>2
  <2> QED
    BY <1>0, <2>5 DEF P
<1> HIDE DEF P, Ok
<1>4. Depth(h) \in P
  BY <1>0, <1>2, <1>3, UpTo
<1> QED
  BY <1>1, <1>4 DEF P, Ok, LookupExact

-----------------------------------------------------------------------------
(***************************************************************************)
(* New nodes                                                               *)
(***************************************************************************)
\* The address of a new node is not in use: some number is free.
LEMMA FreshIs ==
    ASSUME NEW h, HeapType(h), NEW prefix
    PROVE  /\ Fresh(h, prefix) \notin DOMAIN h /\ Fresh(h, prefix) # Nil
           /\ Fresh(h, prefix)[1] = prefix
<1> DEFINE n == Cardinality(DOMAIN h)
           F == [k \in 0..n |-> <<prefix, k>>]
           k0 == CHOOSE k \in 0..n : <<prefix, k>> \notin DOMAIN h
<1>0. IsFiniteSet(DOMAIN h) /\ n \in Nat
  BY FS_CardinalityType DEF HeapType
<1>1. \E k \in 0..n : <<prefix, k>> \notin DOMAIN h
  <2> SUFFICES ASSUME \A k \in 0..n : <<prefix, k>> \in DOMAIN h PROVE FALSE
    OBVIOUS
  <2>1. F \in [0..n -> DOMAIN h]
    OBVIOUS
  <2>2. IsFiniteSet(0..n) /\ Cardinality(0..n) = n + 1
    BY <1>0, FS_Interval
  <2>3. Cardinality(DOMAIN h) < Cardinality(0..n)
    BY <1>0, <2>2
  <2> DEFINE T == DOMAIN h
             S == 0..n
  <2>4. \A i, j \in S : F[i] = F[j] => i = j
    BY <1>0
  <2> HIDE DEF F, T, S
  <2>5. \E i, j \in S : i # j /\ F[i] = F[j]
    BY <1>0, <2>1, <2>2, <2>3, FS_PigeonHole DEF S, T
  <2> QED
    BY <2>4, <2>5
<1>2. k0 \in 0..n /\ <<prefix, k0>> \notin DOMAIN h
  BY <1>1
<1>3. Fresh(h, prefix) = <<prefix, k0>>
  BY DEF Fresh
<1> HIDE DEF k0
<1>4. <<prefix, k0>> # Nil
  BY DEF Nil
<1> QED
  BY <1>2, <1>3, <1>4

\* The fields of the node i of g are those of the record n, except pointers.
LEMMA NodeIs ==
    ASSUME NEW D, NEW prefix \in AllPrefixes, NEW data \in Values \cup {NoData, Virtual}
    PROVE  /\ Node(prefix, data) \in Cells(D)
           /\ Node(prefix, data).prefix = prefix /\ Node(prefix, data).data = data
           /\ Node(prefix, data).parent = Nil
           /\ \A slot \in Slots : Node(prefix, data).kids[slot] = Nil
BY DEF Node, Cells

\* A node stays one when nodes are added.
LEMMA CellsGrow ==
    ASSUME NEW D, NEW E, D \subseteq E
    PROVE  Cells(D) \subseteq Cells(E)
BY DEF Cells

\* What Link writes: one pointer down and one up.
LEMMA LinkIs ==
    ASSUME NEW E, NEW h, h \in [DOMAIN h -> Cells(E)],
           NEW p \in DOMAIN h, p \in E, NEW c \in DOMAIN h, c \in E, NEW slot \in Slots
    PROVE  LET g == Link(h, p, slot, c)
           IN  /\ DOMAIN g = DOMAIN h /\ g \in [DOMAIN h -> Cells(E)]
               /\ \A i \in DOMAIN h :
                     /\ g[i].prefix = h[i].prefix /\ g[i].data = h[i].data
                     /\ g[i].parent = IF i = c THEN p ELSE h[i].parent
                     /\ \A s \in Slots :
                           g[i].kids[s] = IF i = p /\ s = slot THEN c ELSE h[i].kids[s]
<1> DEFINE h1 == [h EXCEPT ![p].kids[slot] = c]
           g == [h1 EXCEPT ![c].parent = p]
<1>1. Link(h, p, slot, c) = g
  BY DEF Link
<1>2. \A i \in DOMAIN h : h[i] \in Cells(E)
  OBVIOUS
<1>3. /\ DOMAIN h1 = DOMAIN h
      /\ \A i \in DOMAIN h \ {p} : h1[i] = h[i]
      /\ h1[p] = [h[p] EXCEPT !.kids[slot] = c]
  OBVIOUS
<1>4. h1[p] \in Cells(E)
      /\ h1[p].prefix = h[p].prefix /\ h1[p].data = h[p].data /\ h1[p].parent = h[p].parent
      /\ \A s \in Slots : h1[p].kids[s] = IF s = slot THEN c ELSE h[p].kids[s]
  BY <1>2, <1>3 DEF Cells
<1> HIDE DEF h1
<1>5. \A i \in DOMAIN h : h1[i] \in Cells(E)
  BY <1>2, <1>3, <1>4
<1>6. /\ DOMAIN g = DOMAIN h
      /\ \A i \in DOMAIN h \ {c} : g[i] = h1[i]
      /\ g[c] = [h1[c] EXCEPT !.parent = p]
      /\ g = [i \in DOMAIN h |-> g[i]]
  BY <1>3
<1> HIDE DEF g
<1>7. /\ g[c] \in Cells(E)
      /\ g[c].prefix = h1[c].prefix /\ g[c].data = h1[c].data /\ g[c].parent = p
      /\ g[c].kids = h1[c].kids
  BY <1>5, <1>6 DEF Cells
<1>8. g \in [DOMAIN h -> Cells(E)]
  BY <1>5, <1>6, <1>7
<1>9. ASSUME NEW i \in DOMAIN h
      PROVE  /\ g[i].prefix = h[i].prefix /\ g[i].data = h[i].data
             /\ g[i].parent = IF i = c THEN p ELSE h[i].parent
             /\ \A s \in Slots :
                   g[i].kids[s] = IF i = p /\ s = slot THEN c ELSE h[i].kids[s]
  <2>1. /\ h1[i].prefix = h[i].prefix /\ h1[i].data = h[i].data
        /\ h1[i].parent = h[i].parent
        /\ \A s \in Slots : h1[i].kids[s] = IF i = p /\ s = slot THEN c ELSE h[i].kids[s]
    BY <1>3, <1>4
  <2>2. CASE i = c
    BY <1>7, <2>1, <2>2
  <2>3. CASE i # c
    BY <1>6, <2>1, <2>3
  <2> QED
    BY <2>2, <2>3
<1> QED
  BY <1>1, <1>6, <1>8, <1>9

\* g is h with the new node n below p, in slot.
IsBelow(h, g, p, slot, n, new) ==
    /\ new \notin DOMAIN h /\ new # Nil /\ DOMAIN g = DOMAIN h \cup {new}
    /\ HeapType(g)
    /\ g[new].prefix = n.prefix /\ g[new].data = n.data
    /\ \A i \in DOMAIN h : g[i].prefix = h[i].prefix /\ g[i].data = h[i].data
    /\ \A i \in DOMAIN g : g[i].parent = IF i = new THEN p ELSE h[i].parent
    /\ \A i \in DOMAIN g, s \in Slots :
          g[i].kids[s] = IF i = p /\ s = slot THEN new
                         ELSE IF i = new THEN Nil ELSE h[i].kids[s]

\* NewBelow is what IsBelow says, whatever address was chosen.
LEMMA BelowIs ==
    ASSUME NEW h, HeapType(h), NEW p \in DOMAIN h, NEW slot \in Slots,
           NEW prefix \in AllPrefixes, NEW data \in Values \cup {NoData, Virtual}
    PROVE  IsBelow(h, NewBelow(h, p, slot, Node(prefix, data)), p, slot,
                   Node(prefix, data), Fresh(h, prefix))
<1> DEFINE n == Node(prefix, data)
           new == Fresh(h, prefix)
           E == DOMAIN h \cup {new}
           h1 == With(h, new, n)
           g == Link(h1, p, slot, new)
<1>1. new \notin DOMAIN h /\ new # Nil
  BY FreshIs
<1>2. /\ n \in Cells(E) /\ n.prefix = prefix /\ n.data = data /\ n.parent = Nil
      /\ \A s \in Slots : n.kids[s] = Nil
  BY NodeIs
<1>3. NewBelow(h, p, slot, n) = g
  BY <1>2 DEF NewBelow
<1>4. h \in [DOMAIN h -> Cells(E)]
  BY CellsGrow DEF HeapType
<1>5. IsFiniteSet(E) /\ Nil \notin E /\ TreeHead \in E
  BY <1>1, FS_AddElement DEF HeapType
<1> HIDE DEF n, new
<1>6. /\ DOMAIN h1 = E /\ h1 \in [DOMAIN h1 -> Cells(E)]
      /\ h1[new] = n /\ \A i \in DOMAIN h : h1[i] = h[i]
  <2> DEFINE E0 == E
  <2> HIDE DEF E0, h1
  <2>1. h \in [DOMAIN h -> Cells(E0)] /\ n \in Cells(E0)
    BY <1>2, <1>4 DEF E0
  <2>2. /\ DOMAIN h1 = DOMAIN h \cup {new}
        /\ h1 \in [DOMAIN h \cup {new} -> Cells(E0)]
        /\ h1[new] = n /\ \A i \in DOMAIN h : h1[i] = h[i]
    BY <1>1, <2>1 DEF h1, With
  <2> QED
    BY <2>2 DEF E0
<1>e. p \in E /\ new \in E
  OBVIOUS
<1> HIDE DEF h1, E
<1>7. /\ DOMAIN g = E /\ g \in [E -> Cells(E)]
      /\ \A i \in E :
            /\ g[i].prefix = h1[i].prefix /\ g[i].data = h1[i].data
            /\ g[i].parent = IF i = new THEN p ELSE h1[i].parent
            /\ \A s \in Slots : g[i].kids[s] = IF i = p /\ s = slot THEN new
                                               ELSE h1[i].kids[s]
  BY <1>6, <1>e, LinkIs
<1> HIDE DEF g
<1>8. HeapType(g)
  BY <1>5, <1>7 DEF HeapType
<1>9. IsBelow(h, g, p, slot, n, new)
  BY <1>1, <1>2, <1>6, <1>7, <1>8 DEF IsBelow, E
<1> QED
  BY <1>3, <1>9 DEF n, new

\* g is h with the new node n in place of p's child in slot, now in n's slot2.
IsBetween(h, g, p, slot, n, slot2, new) ==
    /\ new \notin DOMAIN h /\ new # Nil /\ DOMAIN g = DOMAIN h \cup {new}
    /\ HeapType(g)
    /\ g[new].prefix = n.prefix /\ g[new].data = n.data
    /\ \A i \in DOMAIN h : g[i].prefix = h[i].prefix /\ g[i].data = h[i].data
    /\ \A i \in DOMAIN g :
          g[i].parent = IF i = new THEN p
                        ELSE IF i = h[p].kids[slot] THEN new ELSE h[i].parent
    /\ \A i \in DOMAIN g, s \in Slots :
          g[i].kids[s] = IF i = new THEN IF s = slot2 THEN h[p].kids[slot] ELSE Nil
                         ELSE IF i = p /\ s = slot THEN new ELSE h[i].kids[s]

\* NewBetween is what IsBetween says, whatever address was chosen.
LEMMA BetweenIs ==
    ASSUME NEW h, HeapType(h), NEW p \in DOMAIN h, NEW slot \in Slots,
           h[p].kids[slot] # Nil, NEW slot2 \in Slots,
           NEW prefix \in AllPrefixes, NEW data \in Values \cup {NoData, Virtual}
    PROVE  IsBetween(h, NewBetween(h, p, slot, Node(prefix, data), slot2), p, slot,
                     Node(prefix, data), slot2, Fresh(h, prefix))
<1> DEFINE n == Node(prefix, data)
           new == Fresh(h, prefix)
           c == h[p].kids[slot]
           E == DOMAIN h \cup {new}
           h1 == With(h, new, n)
           h2 == Link(h1, new, slot2, c)
           g == Link(h2, p, slot, new)
<1>0. c \in DOMAIN h
  BY NodeType
<1>1. new \notin DOMAIN h /\ new # Nil
  BY FreshIs
<1>2. /\ n \in Cells(E) /\ n.prefix = prefix /\ n.data = data /\ n.parent = Nil
      /\ \A s \in Slots : n.kids[s] = Nil
  BY NodeIs
<1>3. NewBetween(h, p, slot, n, slot2) = g
  BY <1>2 DEF NewBetween
<1>4. h \in [DOMAIN h -> Cells(E)]
  BY CellsGrow DEF HeapType
<1>5. IsFiniteSet(E) /\ Nil \notin E /\ TreeHead \in E
  BY <1>1, FS_AddElement DEF HeapType
<1> HIDE DEF n, new, c
<1>6. /\ DOMAIN h1 = E /\ h1 \in [DOMAIN h1 -> Cells(E)]
      /\ h1[new] = n /\ \A i \in DOMAIN h : h1[i] = h[i]
  <2> DEFINE E0 == E
  <2> HIDE DEF E0, h1
  <2>1. h \in [DOMAIN h -> Cells(E0)] /\ n \in Cells(E0)
    BY <1>2, <1>4 DEF E0
  <2>2. /\ DOMAIN h1 = DOMAIN h \cup {new}
        /\ h1 \in [DOMAIN h \cup {new} -> Cells(E0)]
        /\ h1[new] = n /\ \A i \in DOMAIN h : h1[i] = h[i]
    BY <1>1, <2>1 DEF h1, With
  <2> QED
    BY <2>2 DEF E0
<1>e. p \in E /\ new \in E /\ c \in E
  BY <1>0
<1> HIDE DEF h1, E
<1>7. /\ DOMAIN h2 = E /\ h2 \in [DOMAIN h2 -> Cells(E)]
      /\ \A i \in E :
            /\ h2[i].prefix = h1[i].prefix /\ h2[i].data = h1[i].data
            /\ h2[i].parent = IF i = c THEN new ELSE h1[i].parent
            /\ \A s \in Slots : h2[i].kids[s] = IF i = new /\ s = slot2 THEN c
                                                ELSE h1[i].kids[s]
  BY <1>6, <1>e, LinkIs
<1> HIDE DEF h2
<1>8. /\ DOMAIN g = E /\ g \in [E -> Cells(E)]
      /\ \A i \in E :
            /\ g[i].prefix = h2[i].prefix /\ g[i].data = h2[i].data
            /\ g[i].parent = IF i = new THEN p ELSE h2[i].parent
            /\ \A s \in Slots : g[i].kids[s] = IF i = p /\ s = slot THEN new
                                               ELSE h2[i].kids[s]
  BY <1>7, <1>e, LinkIs
<1> HIDE DEF g
<1>9. HeapType(g)
  BY <1>5, <1>8 DEF HeapType
<1>10. IsBetween(h, g, p, slot, n, slot2, new)
  BY <1>0, <1>1, <1>2, <1>6, <1>7, <1>8, <1>9 DEF IsBetween, c, E
<1> QED
  BY <1>3, <1>10 DEF n, new

\* The two slots.
LEMMA SlotsAre == \A s, t \in Slots : 1 - s \in Slots /\ 1 - s # s /\ (t = s \/ t = 1 - s)
BY DEF Slots

\* A node hangs in one slot of its parent only.
LEMMA OneSlot ==
    ASSUME NEW h, Linked(h), NEW i \in DOMAIN h, NEW s \in Slots, NEW t \in Slots,
           h[i].kids[s] # Nil, h[i].kids[s] = h[i].kids[t]
    PROVE  s = t
<1> DEFINE c == h[i].kids[s]
<1>1. c \in DOMAIN h \ {TreeHead} /\ h[c].parent = i
  BY KidIs
<1>2. PICK u \in Slots : h[i].kids[u] = c /\ h[i].kids[1 - u] # c
  BY <1>1 DEF Linked, HangsInv
<1> QED
  BY <1>2, SlotsAre

\* A new node in an empty slot leaves the tree linked.
LEMMA BelowLinked ==
    ASSUME NEW h, Linked(h), NEW p \in DOMAIN h, NEW slot \in Slots,
           h[p].kids[slot] = Nil, NEW n, n.data # NoData, NEW g, NEW new,
           IsBelow(h, g, p, slot, n, new)
    PROVE  Linked(g)
<1>1. /\ new \notin DOMAIN h /\ new # Nil /\ DOMAIN g = DOMAIN h \cup {new}
      /\ HeapType(g)
      /\ g[new].prefix = n.prefix /\ g[new].data = n.data
      /\ \A i \in DOMAIN h : g[i].prefix = h[i].prefix /\ g[i].data = h[i].data
      /\ \A i \in DOMAIN g : g[i].parent = IF i = new THEN p ELSE h[i].parent
      /\ \A i \in DOMAIN g, s \in Slots :
            g[i].kids[s] = IF i = p /\ s = slot THEN new
                           ELSE IF i = new THEN Nil ELSE h[i].kids[s]
  BY DEF IsBelow
<1>2. TreeHead \in DOMAIN h /\ Nil \notin DOMAIN h
  BY DEF Linked, HeapType
<1>3. HeadInv(g)
  BY <1>1, <1>2 DEF Linked, HeadInv
<1>4. KidsInv(g)
  <2> SUFFICES ASSUME NEW i \in DOMAIN g, NEW s \in Slots, g[i].kids[s] # Nil
               PROVE  g[g[i].kids[s]].parent = i
    BY DEF KidsInv
  <2>1. CASE i = p /\ s = slot
    BY <1>1, <2>1
  <2>2. CASE ~ (i = p /\ s = slot)
    <3>1. g[i].kids[s] = h[i].kids[s] /\ i \in DOMAIN h
      BY <1>1, <2>2
    <3>2. h[i].kids[s] \in DOMAIN h /\ h[h[i].kids[s]].parent = i
      BY <3>1, KidIs
    <3> QED
      BY <1>1, <3>1, <3>2
  <2> QED
    BY <2>1, <2>2
<1>5. HangsInv(g)
  <2> SUFFICES ASSUME NEW i \in DOMAIN g \ {TreeHead}
               PROVE  /\ g[i].parent \in DOMAIN g
                      /\ \E s \in Slots : /\ g[g[i].parent].kids[s] = i
                                          /\ g[g[i].parent].kids[1 - s] # i
    BY DEF HangsInv
  <2>1. CASE i = new
    <3>1. g[i].parent = p /\ g[p].kids[slot] = new
      BY <1>1, <2>1
    <3>2. h[p].kids[1 - slot] # new
      BY <1>1, NodeType, SlotsAre DEF Linked
    <3>3. g[p].kids[1 - slot] = h[p].kids[1 - slot]
      BY <1>1, SlotsAre
    <3> QED
      BY <1>1, <2>1, <3>1, <3>2, <3>3
  <2>2. CASE i # new
    <3> DEFINE q == h[i].parent
    <3>1. i \in DOMAIN h \ {TreeHead} /\ g[i].parent = q
      BY <1>1, <2>2
    <3>2. q \in DOMAIN h
      BY <3>1 DEF Linked, HangsInv
    <3>3. PICK s \in Slots : h[q].kids[s] = i /\ h[q].kids[1 - s] # i
      BY <3>1 DEF Linked, HangsInv
    <3>4. g[q].kids[s] = i
      BY <1>1, <1>2, <3>1, <3>2, <3>3
    <3>5. g[q].kids[1 - s] # i
      BY <1>1, <2>2, <3>2, <3>3, SlotsAre
    <3> QED
      BY <1>1, <3>1, <3>2, <3>4, <3>5
  <2> QED
    BY <2>1, <2>2
<1>6. \E r : Ranks(g, r)
  <2>1. PICK r : Ranks(h, r)
    BY DEF Linked
  <2> DEFINE q == [i \in DOMAIN g |-> IF i = new THEN r[p] + 1 ELSE r[i]]
  <2>2. q \in [DOMAIN g -> Nat]
    BY <1>1, <2>1 DEF Ranks
  <2>3. ASSUME NEW i \in DOMAIN g \ {TreeHead}
        PROVE  q[g[i].parent] < q[i]
    <3>1. CASE i = new
      BY <1>1, <2>1, <3>1 DEF Ranks
    <3>2. CASE i # new
      <4>1. i \in DOMAIN h \ {TreeHead} /\ g[i].parent = h[i].parent
        BY <1>1, <3>2
      <4>2. h[i].parent \in DOMAIN h /\ r[h[i].parent] < r[i]
        BY <2>1, <4>1 DEF Linked, HangsInv, Ranks
      <4> QED
        BY <1>1, <4>1, <4>2
    <3> QED
      BY <3>1, <3>2
  <2>4. Ranks(g, q)
    BY <2>2, <2>3 DEF Ranks
  <2> QED
    BY <2>4
<1> QED
  BY <1>1, <1>3, <1>4, <1>5, <1>6 DEF Linked

\* A new node between a node and its child leaves the tree linked.
LEMMA BetweenLinked ==
    ASSUME NEW h, Linked(h), NEW p \in DOMAIN h, NEW slot \in Slots,
           h[p].kids[slot] # Nil, NEW slot2 \in Slots,
           NEW n, n.data # NoData, NEW g, NEW new,
           IsBetween(h, g, p, slot, n, slot2, new)
    PROVE  Linked(g)
<1> DEFINE c == h[p].kids[slot]
<1>1. /\ new \notin DOMAIN h /\ new # Nil /\ DOMAIN g = DOMAIN h \cup {new}
      /\ HeapType(g)
      /\ g[new].prefix = n.prefix /\ g[new].data = n.data
      /\ \A i \in DOMAIN h : g[i].prefix = h[i].prefix /\ g[i].data = h[i].data
      /\ \A i \in DOMAIN g :
            g[i].parent = IF i = new THEN p ELSE IF i = c THEN new ELSE h[i].parent
      /\ \A i \in DOMAIN g, s \in Slots :
            g[i].kids[s] = IF i = new THEN IF s = slot2 THEN c ELSE Nil
                           ELSE IF i = p /\ s = slot THEN new ELSE h[i].kids[s]
  BY DEF IsBetween
<1>2. TreeHead \in DOMAIN h /\ Nil \notin DOMAIN h
  BY DEF Linked, HeapType
<1>c. c \in DOMAIN h \ {TreeHead} /\ h[c].parent = p /\ c # Nil
  BY KidIs
<1>s. \A s \in Slots : h[p].kids[s] = c => s = slot
  BY <1>c, OneSlot
<1> HIDE DEF c
<1>3. HeadInv(g)
  BY <1>1, <1>2, <1>c DEF Linked, HeadInv
<1>4. KidsInv(g)
  <2> SUFFICES ASSUME NEW i \in DOMAIN g, NEW s \in Slots, g[i].kids[s] # Nil
               PROVE  g[g[i].kids[s]].parent = i
    BY DEF KidsInv
  <2>1. CASE i = new
    BY <1>1, <1>c, <2>1
  <2>2. CASE i # new /\ i = p /\ s = slot
    BY <1>1, <2>2
  <2>3. CASE i # new /\ ~ (i = p /\ s = slot)
    <3>1. g[i].kids[s] = h[i].kids[s] /\ i \in DOMAIN h
      BY <1>1, <2>3
    <3>2. h[i].kids[s] \in DOMAIN h /\ h[h[i].kids[s]].parent = i
      BY <3>1, KidIs
    <3>3. h[i].kids[s] # c
      BY <1>c, <1>s, <2>3, <3>2
    <3> QED
      BY <1>1, <3>1, <3>2, <3>3
  <2> QED
    BY <2>1, <2>2, <2>3
<1>5. HangsInv(g)
  <2> SUFFICES ASSUME NEW i \in DOMAIN g \ {TreeHead}
               PROVE  /\ g[i].parent \in DOMAIN g
                      /\ \E s \in Slots : /\ g[g[i].parent].kids[s] = i
                                          /\ g[g[i].parent].kids[1 - s] # i
    BY DEF HangsInv
  <2>1. CASE i = new
    <3>1. g[i].parent = p /\ g[p].kids[slot] = new
      BY <1>1, <2>1
    <3>2. h[p].kids[1 - slot] # new
      BY <1>1, NodeType, SlotsAre DEF Linked
    <3>3. g[p].kids[1 - slot] = h[p].kids[1 - slot]
      BY <1>1, SlotsAre
    <3> QED
      BY <1>1, <2>1, <3>1, <3>2, <3>3
  <2>2. CASE i = c
    <3>1. g[i].parent = new /\ g[new].kids[slot2] = i /\ g[new].kids[1 - slot2] = Nil
      BY <1>1, <1>c, <2>2, SlotsAre
    <3> QED
      BY <1>1, <1>c, <2>2, <3>1
  <2>3. CASE i # new /\ i # c
    <3> DEFINE q == h[i].parent
    <3>1. i \in DOMAIN h \ {TreeHead} /\ g[i].parent = q
      BY <1>1, <2>3
    <3>2. q \in DOMAIN h
      BY <3>1 DEF Linked, HangsInv
    <3>3. PICK s \in Slots : h[q].kids[s] = i /\ h[q].kids[1 - s] # i
      BY <3>1 DEF Linked, HangsInv
    <3>4. g[q].kids[s] = i
      BY <1>1, <2>3, <3>1, <3>2, <3>3 DEF c
    <3>5. g[q].kids[1 - s] # i
      BY <1>1, <2>3, <3>2, <3>3, SlotsAre
    <3> QED
      BY <1>1, <3>1, <3>2, <3>4, <3>5
  <2> QED
    BY <2>1, <2>2, <2>3
<1>6. \E r : Ranks(g, r)
  <2>1. PICK r : Ranks(h, r)
    BY DEF Linked
  <2> DEFINE q == [i \in DOMAIN g |-> IF i = new THEN 2 * r[p] + 1 ELSE 2 * r[i]]
  <2>2. q \in [DOMAIN g -> Nat]
    BY <1>1, <2>1 DEF Ranks
  <2>3. ASSUME NEW i \in DOMAIN g \ {TreeHead}
        PROVE  q[g[i].parent] < q[i]
    <3>1. CASE i = new
      BY <1>1, <2>1, <3>1 DEF Ranks
    <3>2. CASE i = c
      <4>1. r[p] < r[c] /\ r[p] \in Nat /\ r[c] \in Nat
        BY <1>c, <2>1 DEF Ranks
      <4>2. q[g[i].parent] = 2 * r[p] + 1 /\ q[i] = 2 * r[c]
        BY <1>1, <1>c, <3>2
      <4> QED
        BY <4>1, <4>2
    <3>3. CASE i # new /\ i # c
      <4>1. i \in DOMAIN h \ {TreeHead} /\ g[i].parent = h[i].parent
        BY <1>1, <3>3
      <4>2. h[i].parent \in DOMAIN h /\ r[h[i].parent] < r[i]
        BY <2>1, <4>1 DEF Linked, HangsInv, Ranks
      <4>3. r[h[i].parent] \in Nat /\ r[i] \in Nat
        BY <2>1, <4>1, <4>2 DEF Ranks
      <4>4. q[g[i].parent] = 2 * r[h[i].parent] /\ q[i] = 2 * r[i]
        BY <1>1, <4>1, <4>2
      <4> QED
        BY <4>2, <4>3, <4>4
    <3> QED
      BY <3>1, <3>2, <3>3
  <2>4. Ranks(g, q)
    BY <2>2, <2>3 DEF Ranks
  <2> QED
    BY <2>4
<1> QED
  BY <1>1, <1>3, <1>4, <1>5, <1>6 DEF Linked

-----------------------------------------------------------------------------
(***************************************************************************)
(* Insertion                                                               *)
(***************************************************************************)
\* Writing the data of a node leaves the tree linked.
LEMMA SetData ==
    ASSUME NEW h, Linked(h), NEW node \in DOMAIN h, NEW data \in Values \cup {Virtual},
           node = TreeHead => data # Virtual
    PROVE  LET g == [h EXCEPT ![node].data = data]
           IN  /\ Linked(g) /\ DOMAIN g = DOMAIN h
               /\ \A i \in DOMAIN h :
                     /\ g[i].prefix = h[i].prefix /\ g[i].parent = h[i].parent
                     /\ g[i].kids = h[i].kids
                     /\ g[i].data = IF i = node THEN data ELSE h[i].data
<1> DEFINE g == [h EXCEPT ![node].data = data]
<1>0. data # NoData
  BY LpmAssumption DEF NoData, Virtual
<1>1. /\ DOMAIN g = DOMAIN h /\ g = [i \in DOMAIN h |-> g[i]]
      /\ \A i \in DOMAIN h \ {node} : g[i] = h[i]
      /\ g[node] = [h[node] EXCEPT !.data = data]
  OBVIOUS
<1> HIDE DEF g
<1>2. \A i \in DOMAIN h : h[i] \in Cells(DOMAIN h)
  BY NodeType DEF Linked
<1>3. /\ g[node] \in Cells(DOMAIN h)
      /\ g[node].prefix = h[node].prefix /\ g[node].parent = h[node].parent
      /\ g[node].kids = h[node].kids /\ g[node].data = data
  BY <1>1, <1>2 DEF Cells
<1>4. \A i \in DOMAIN h :
         /\ g[i].prefix = h[i].prefix /\ g[i].parent = h[i].parent
         /\ g[i].kids = h[i].kids
         /\ g[i].data = IF i = node THEN data ELSE h[i].data
  BY <1>1, <1>3
<1>5. HeapType(g)
  BY <1>1, <1>2, <1>3 DEF Linked, HeapType
<1>t. TreeHead \in DOMAIN h
  BY DEF Linked, HeapType
<1>6. HeadInv(g)
  BY <1>0, <1>1, <1>4, <1>t DEF Linked, HeadInv
<1>7. KidsInv(g)
  <2> SUFFICES ASSUME NEW i \in DOMAIN g, NEW s \in Slots, g[i].kids[s] # Nil
               PROVE  g[g[i].kids[s]].parent = i
    BY DEF KidsInv
  <2>1. h[i].kids[s] \in DOMAIN h /\ h[h[i].kids[s]].parent = i
    BY <1>1, <1>4, KidIs
  <2> QED
    BY <1>1, <1>4, <2>1
<1>8. HangsInv(g)
  <2> SUFFICES ASSUME NEW i \in DOMAIN h \ {TreeHead}
               PROVE  /\ g[i].parent \in DOMAIN h
                      /\ \E s \in Slots : /\ g[g[i].parent].kids[s] = i
                                          /\ g[g[i].parent].kids[1 - s] # i
    BY <1>1 DEF HangsInv
  <2>1. /\ h[i].parent \in DOMAIN h
        /\ \E s \in Slots : /\ h[h[i].parent].kids[s] = i
                            /\ h[h[i].parent].kids[1 - s] # i
    BY DEF Linked, HangsInv
  <2> QED
    BY <1>4, <2>1
<1>9. \E r : Ranks(g, r)
  BY <1>1, <1>4 DEF Linked, Ranks
<1> QED
  BY <1>1, <1>4, <1>5, <1>6, <1>7, <1>8, <1>9 DEF Linked, g

\* An entry for a prefix that no node had.
LEMMA StoresNew ==
    ASSUME NEW h, NEW t, Stores(h, t), NEW g, DOMAIN h \subseteq DOMAIN g,
           \A i \in DOMAIN h : g[i].prefix = h[i].prefix /\ g[i].data = h[i].data,
           NEW new \in DOMAIN g, NEW prefix, NEW v \in Values,
           g[new].prefix = prefix, g[new].data = v,
           \A i \in DOMAIN g \ DOMAIN h : i = new \/ g[i].data = Virtual,
           \A i \in DOMAIN h : h[i].prefix # prefix
    PROVE  Stores(g, With(t, prefix, v))
<1> DEFINE u == With(t, prefix, v)
<1>0. v \notin {Virtual, NoData}
  BY LpmAssumption
<1>1. /\ DOMAIN u = DOMAIN t \cup {prefix} /\ u[prefix] = v
      /\ \A q \in DOMAIN t \ {prefix} : u[q] = t[q]
  BY DEF With
<1> HIDE DEF u
<1>2. ASSUME NEW i \in DOMAIN g, Holds(g[i])
      PROVE  g[i].prefix \in DOMAIN u /\ u[g[i].prefix] = g[i].data
  <2>1. CASE i \in DOMAIN h
    BY <1>1, <1>2, <2>1 DEF Stores, Holds
  <2>2. CASE i \notin DOMAIN h
    BY <1>1, <1>2, <2>2 DEF Holds
  <2> QED
    BY <2>1, <2>2
<1>3. ASSUME NEW q \in DOMAIN u
      PROVE  \E i \in DOMAIN g : Holds(g[i]) /\ g[i].prefix = q
  <2>1. CASE q = prefix
    BY <1>0, <2>1 DEF Holds
  <2>2. CASE q # prefix
    <3>1. PICK i \in DOMAIN h : Holds(h[i]) /\ h[i].prefix = q
      BY <1>1, <2>2 DEF Stores
    <3> QED
      BY <3>1 DEF Holds
  <2> QED
    BY <2>1, <2>2
<1> QED
  BY <1>2, <1>3 DEF Stores, u

\* The slot of an address.
LEMMA SlotType == \A addr, n : Slot(addr, n) \in Slots
BY DEF Slot, Slots

\* The prefix of an announcement.
LEMMA AnnouncedPrefix ==
    ASSUME NEW addr \in Addresses, NEW plen \in 0..Width
    PROVE  SubSeq(addr, 1, plen) \in AllPrefixes /\ Len(SubSeq(addr, 1, plen)) = plen
<1>1. addr \in AllPrefixes /\ Len(addr) = Width
  BY AddressIsPrefix
<1> QED
  BY <1>1, Begin

\* The new entry is where the node with its prefix is.
LEMMA UpdateKeeps ==
    ASSUME NEW h, Linked(h), BusyBut(h, {}), NEW save \in DOMAIN h, NEW v \in Values
    PROVE  LET g == [h EXCEPT ![save].data = v]
           IN  /\ Linked(g) /\ BusyBut(g, {})
               /\ \A t : Sorted(h) /\ Stores(h, t) =>
                     Nested(g) /\ Stores(g, With(t, h[save].prefix, v))
<1> DEFINE g == [h EXCEPT ![save].data = v]
           prefix == h[save].prefix
<1>0. v \notin {Virtual, NoData}
  BY LpmAssumption
<1>1. /\ Linked(g) /\ DOMAIN g = DOMAIN h
      /\ \A i \in DOMAIN h :
            /\ g[i].prefix = h[i].prefix /\ g[i].parent = h[i].parent
            /\ g[i].kids = h[i].kids
            /\ g[i].data = IF i = save THEN v ELSE h[i].data
  BY <1>0, SetData
<1> HIDE DEF g
<1>2. BusyBut(g, {})
  BY <1>0, <1>1 DEF BusyBut
<1>3. ASSUME NEW t, Sorted(h), Stores(h, t)
      PROVE  Nested(g) /\ Stores(g, With(t, prefix, v))
  <2>1. Nested(g)
    BY <1>1, <1>3 DEF Sorted, Nested, Linked, HangsInv
  <2> DEFINE u == With(t, prefix, v)
  <2>2. /\ DOMAIN u = DOMAIN t \cup {prefix} /\ u[prefix] = v
        /\ \A q \in DOMAIN t \ {prefix} : u[q] = t[q]
    BY DEF With
  <2> HIDE DEF u
  <2>3. \A i \in DOMAIN h : i # save => h[i].prefix # prefix
    BY <1>3, OnlyNode
  <2>4. ASSUME NEW i \in DOMAIN g, Holds(g[i])
        PROVE  g[i].prefix \in DOMAIN u /\ u[g[i].prefix] = g[i].data
    <3>1. CASE i = save
      BY <1>1, <2>2, <3>1
    <3>2. CASE i # save
      BY <1>1, <1>3, <2>2, <2>3, <2>4, <3>2 DEF Stores, Holds
    <3> QED
      BY <3>1, <3>2
  <2>5. ASSUME NEW q \in DOMAIN u
        PROVE  \E i \in DOMAIN g : Holds(g[i]) /\ g[i].prefix = q
    <3>1. CASE q = prefix
      BY <1>0, <1>1, <3>1 DEF Holds
    <3>2. CASE q # prefix
      <4>1. PICK i \in DOMAIN h : Holds(h[i]) /\ h[i].prefix = q
        BY <1>3, <2>2, <3>2 DEF Stores
      <4> QED
        BY <1>1, <3>2, <4>1 DEF Holds
    <3> QED
      BY <3>1, <3>2
  <2> QED
    BY <2>1, <2>4, <2>5 DEF Stores, u
<1> QED
  BY <1>1, <1>2, <1>3 DEF g

\* A new node below save.
LEMMA LeafKeeps ==
    ASSUME NEW h, Linked(h), BusyBut(h, {}), NEW p \in DOMAIN h, NEW slot \in Slots,
           h[p].kids[slot] = Nil, NEW prefix \in AllPrefixes, NEW v \in Values
    PROVE  LET g == NewBelow(h, p, slot, Node(prefix, v))
           IN  /\ Linked(g) /\ BusyBut(g, {})
               /\ \A t : /\ Sorted(h) /\ Stores(h, t) /\ IsPart(h[p].prefix, prefix)
                         /\ \A i \in DOMAIN h : h[i].prefix # prefix
                         => Nested(g) /\ Stores(g, With(t, prefix, v))
<1> DEFINE n == Node(prefix, v)
           new == Fresh(h, prefix)
           g == NewBelow(h, p, slot, n)
<1>0. v \notin {Virtual, NoData}
  BY LpmAssumption
<1>1. n.prefix = prefix /\ n.data = v
  BY DEF Node
<1>2. IsBelow(h, g, p, slot, n, new)
  BY BelowIs DEF Linked
<1> HIDE DEF n, new, g
<1>3. Linked(g)
  BY <1>0, <1>1, <1>2, BelowLinked
<1>4. /\ new \notin DOMAIN h /\ new # Nil /\ DOMAIN g = DOMAIN h \cup {new}
      /\ g[new].prefix = prefix /\ g[new].data = v
      /\ \A i \in DOMAIN h : g[i].prefix = h[i].prefix /\ g[i].data = h[i].data
      /\ \A i \in DOMAIN g : g[i].parent = IF i = new THEN p ELSE h[i].parent
      /\ \A i \in DOMAIN g, s \in Slots :
            g[i].kids[s] = IF i = p /\ s = slot THEN new
                           ELSE IF i = new THEN Nil ELSE h[i].kids[s]
  BY <1>1, <1>2 DEF IsBelow
<1>5. BusyBut(g, {})
  BY <1>0, <1>4 DEF BusyBut
<1>6. ASSUME NEW t, Sorted(h), Stores(h, t), IsPart(h[p].prefix, prefix),
             \A i \in DOMAIN h : h[i].prefix # prefix
      PROVE  Nested(g) /\ Stores(g, With(t, prefix, v))
  <2>1. Stores(g, With(t, prefix, v))
    BY <1>4, <1>6, StoresNew
  <2>2. ASSUME NEW i \in DOMAIN g \ {TreeHead}
        PROVE  IsPart(g[g[i].parent].prefix, g[i].prefix)
    <3>1. CASE i = new
      BY <1>4, <1>6, <3>1
    <3>2. CASE i # new
      BY <1>4, <1>6, <3>2 DEF Sorted, Nested, Linked, HangsInv
    <3> QED
      BY <3>1, <3>2
  <2> QED
    BY <2>1, <2>2 DEF Nested
<1> QED
  BY <1>3, <1>5, <1>6 DEF g, n

\* g is h, a tree with no idle node, with new in front of p's child c.
IsFront(h, g, p, c, prefix, data, slot2, new) ==
    /\ Linked(g) /\ BusyBut(g, {new})
    /\ new \in DOMAIN g \ DOMAIN h /\ DOMAIN g = DOMAIN h \cup {new}
    /\ g[new].prefix = prefix /\ g[new].data = data
    /\ g[new].kids[slot2] # Nil /\ g[new].kids[1 - slot2] = Nil
    /\ \A i \in DOMAIN h : g[i].prefix = h[i].prefix /\ g[i].data = h[i].data
    /\ Nested(h) /\ IsPart(h[p].prefix, prefix) /\ IsPart(prefix, h[c].prefix)
          => Nested(g)

\* NewBetween makes such a tree.
LEMMA FrontKeeps ==
    ASSUME NEW h, Linked(h), BusyBut(h, {}), NEW p \in DOMAIN h, NEW slot \in Slots,
           h[p].kids[slot] # Nil, NEW slot2 \in Slots,
           NEW prefix \in AllPrefixes, NEW data \in Values \cup {Virtual}
    PROVE  IsFront(h, NewBetween(h, p, slot, Node(prefix, data), slot2), p,
                   h[p].kids[slot], prefix, data, slot2, Fresh(h, prefix))
<1> DEFINE n == Node(prefix, data)
           new == Fresh(h, prefix)
           c == h[p].kids[slot]
           g == NewBetween(h, p, slot, n, slot2)
<1>0. data # NoData
  BY LpmAssumption DEF NoData, Virtual
<1>c. c \in DOMAIN h
  BY NodeType DEF Linked
<1>1. n.prefix = prefix /\ n.data = data
  BY DEF Node
<1>2. IsBetween(h, g, p, slot, n, slot2, new)
  BY BetweenIs DEF Linked
<1> HIDE DEF n, new, g
<1>3. Linked(g)
  BY <1>0, <1>1, <1>2, BetweenLinked
<1>4. /\ new \notin DOMAIN h /\ new # Nil /\ DOMAIN g = DOMAIN h \cup {new}
      /\ g[new].prefix = prefix /\ g[new].data = data
      /\ \A i \in DOMAIN h : g[i].prefix = h[i].prefix /\ g[i].data = h[i].data
      /\ \A i \in DOMAIN g :
            g[i].parent = IF i = new THEN p ELSE IF i = c THEN new ELSE h[i].parent
      /\ \A i \in DOMAIN g, s \in Slots :
            g[i].kids[s] = IF i = new THEN IF s = slot2 THEN c ELSE Nil
                           ELSE IF i = p /\ s = slot THEN new ELSE h[i].kids[s]
  BY <1>1, <1>2 DEF IsBetween
<1>5. BusyBut(g, {new})
  BY <1>4 DEF BusyBut
<1>6. g[new].kids[slot2] # Nil /\ g[new].kids[1 - slot2] = Nil
  BY <1>4, SlotsAre
<1>7. ASSUME Nested(h), IsPart(h[p].prefix, prefix), IsPart(prefix, h[c].prefix)
      PROVE  Nested(g)
  <2>1. ASSUME NEW i \in DOMAIN g \ {TreeHead}
        PROVE  IsPart(g[g[i].parent].prefix, g[i].prefix)
    <3>1. CASE i = new
      BY <1>4, <1>7, <3>1
    <3>2. CASE i = c
      BY <1>4, <1>7, <1>c, <3>2
    <3>3. CASE i # new /\ i # c
      <4>1. i \in DOMAIN h \ {TreeHead} /\ g[i].parent = h[i].parent
        BY <1>4, <3>3
      <4>2. h[i].parent \in DOMAIN h /\ IsPart(h[h[i].parent].prefix, h[i].prefix)
        BY <1>7, <4>1 DEF Nested, Linked, HangsInv
      <4> QED
        BY <1>4, <4>1, <4>2
    <3> QED
      BY <3>1, <3>2, <3>3
  <2> QED
    BY <2>1 DEF Nested
<1> HIDE DEF c
<1>8. IsFront(h, g, p, c, prefix, data, slot2, new)
  BY <1>3, <1>4, <1>5, <1>6, <1>7 DEF IsFront
<1> QED
  BY <1>8 DEF g, n, new, c

\* Putting an entry in the place of a child, alone or below a virtual node, keeps
\* the invariant; which slots are used does not matter to it.
LEMMA SpliceKeeps ==
    ASSUME NEW h, Linked(h), BusyBut(h, {}), NEW save \in DOMAIN h, NEW slot \in Slots,
           h[save].kids[slot] # Nil, NEW addr, NEW prefix \in AllPrefixes, NEW v \in Values
    PROVE  LET g == Splice(h, addr, prefix, v, save, slot)
           IN  /\ Linked(g) /\ BusyBut(g, {})
               /\ \A t : /\ Sorted(h) /\ Stores(h, t) /\ IsPart(h[save].prefix, prefix)
                         /\ \A i \in DOMAIN h : h[i].prefix # prefix
                         => Nested(g) /\ Stores(g, With(t, prefix, v))
<1> DEFINE c == h[save].kids[slot]
           child == h[c].prefix
           cplen == CommonLen(child, prefix, Shorter(child, prefix))
           part == SubSeq(prefix, 1, cplen)
           slot2 == Slot(addr, cplen)
           vnode == Fresh(h, part)
           new == Fresh(h, prefix)
           front == NewBetween(h, save, slot, Node(prefix, v), slot2)
           mid == NewBetween(h, save, slot, Node(part, Virtual), 1 - slot2)
           below == NewBelow(mid, vnode, slot2, Node(prefix, v))
           g == Splice(h, addr, prefix, v, save, slot)
<1>1. g = IF cplen = Len(prefix) THEN front ELSE below
  BY DEF Splice
<1>2. v \notin {Virtual, NoData} /\ v \in Values \cup {Virtual} /\ Virtual # NoData
  BY LpmAssumption DEF Virtual, NoData
<1>3. c \in DOMAIN h \ {TreeHead} /\ h[c].parent = save /\ child \in AllPrefixes
  BY KidIs, NodeType DEF Linked
<1>4. slot2 \in Slots /\ 1 - slot2 \in Slots
  BY SlotType, SlotsAre
<1> HIDE DEF c, child, slot2
<1>5. /\ cplen \in 0..Len(prefix) /\ cplen <= Len(child)
      /\ Len(child) \in Nat /\ Len(prefix) \in Nat
      /\ \A i \in 1..cplen : child[i] = prefix[i]
  BY <1>3, CommonLenIs, PrefixType
<1>6. \A s \in AllPrefixes : IsPart(s, child) /\ IsPart(s, prefix) => Len(s) <= cplen
  BY <1>3, CommonPart
<1> HIDE DEF cplen
<1>7. /\ part \in AllPrefixes /\ Len(part) = cplen
      /\ IsPart(part, prefix) /\ IsPart(part, child)
  BY <1>5, Begin DEF IsPart
<1>8. ASSUME Sorted(h), IsPart(h[save].prefix, prefix)
      PROVE  IsPart(h[save].prefix, child) /\ IsPart(h[save].prefix, part)
  <2>1. IsPart(h[save].prefix, child)
    BY <1>3, <1>8, ParentIs DEF child
  <2>2. h[save].prefix \in AllPrefixes
    BY NodeType DEF Linked
  <2>3. Len(h[save].prefix) <= cplen
    BY <1>6, <1>8, <2>1, <2>2
  <2>4. /\ Len(h[save].prefix) \in Nat
        /\ \A i \in 1..cplen : part[i] = prefix[i]
    BY <1>5, <2>2, PrefixType, Begin
  <2> QED
    BY <1>5, <1>7, <1>8, <2>1, <2>3, <2>4 DEF IsPart
<1> HIDE DEF part
<1>9. CASE cplen = Len(prefix)
  <2>1. IsPart(prefix, child)
    BY <1>5, <1>9 DEF IsPart
  <2>2. /\ Linked(front) /\ BusyBut(front, {new})
        /\ new \in DOMAIN front \ DOMAIN h /\ DOMAIN front = DOMAIN h \cup {new}
        /\ front[new].prefix = prefix /\ front[new].data = v
        /\ \A i \in DOMAIN h :
              front[i].prefix = h[i].prefix /\ front[i].data = h[i].data
        /\ Nested(h) /\ IsPart(h[save].prefix, prefix) => Nested(front)
    <3>1. IsFront(h, front, save, c, prefix, v, slot2, new)
      BY <1>2, <1>4, FrontKeeps DEF c
    <3> QED
      BY <2>1, <3>1 DEF IsFront, child
  <2> HIDE DEF front, new
  <2>3. BusyBut(front, {})
    BY <1>2, <2>2 DEF BusyBut
  <2>4. ASSUME NEW t, Sorted(h), Stores(h, t), IsPart(h[save].prefix, prefix),
               \A i \in DOMAIN h : h[i].prefix # prefix
        PROVE  Nested(front) /\ Stores(front, With(t, prefix, v))
    BY <2>2, <2>4, StoresNew DEF Sorted
  <2>5. g = front
    BY <1>1, <1>9
  <2> HIDE DEF g
  <2> QED
    BY <2>2, <2>3, <2>4, <2>5 DEF g
<1>10. CASE cplen # Len(prefix)
  <2>1. /\ Linked(mid) /\ BusyBut(mid, {vnode})
        /\ vnode \in DOMAIN mid \ DOMAIN h /\ DOMAIN mid = DOMAIN h \cup {vnode}
        /\ mid[vnode].prefix = part /\ mid[vnode].data = Virtual
        /\ mid[vnode].kids[1 - slot2] # Nil /\ mid[vnode].kids[1 - (1 - slot2)] = Nil
        /\ \A i \in DOMAIN h : mid[i].prefix = h[i].prefix /\ mid[i].data = h[i].data
        /\ Nested(h) /\ IsPart(h[save].prefix, part) => Nested(mid)
    <3>1. IsFront(h, mid, save, c, part, Virtual, 1 - slot2, vnode)
      <4> DEFINE s == 1 - slot2
      <4>1. s \in Slots /\ Virtual \in Values \cup {Virtual}
        BY <1>4
      <4> HIDE DEF s
      <4>2. IsFront(h, NewBetween(h, save, slot, Node(part, Virtual), s), save,
                    h[save].kids[slot], part, Virtual, s, Fresh(h, part))
        BY <1>7, <4>1, FrontKeeps
      <4> QED
        BY <4>2 DEF c, s
    <3> QED
      BY <1>7, <3>1 DEF IsFront, child
  <2>2. 1 - (1 - slot2) = slot2
    BY <1>4 DEF Slots
  <2>3. mid[vnode].kids[slot2] = Nil
    BY <2>1, <2>2
  <2>4. g = below
    BY <1>1, <1>10
  <2> DEFINE n == Node(prefix, v)
             leaf == Fresh(mid, prefix)
  <2>5. n.prefix = prefix /\ n.data = v
    BY DEF Node
  <2> HIDE DEF mid, vnode, g
  <2>6. IsBelow(mid, below, vnode, slot2, n, leaf)
    BY <1>2, <1>4, <2>1, BelowIs DEF Linked
  <2> HIDE DEF n, leaf, below
  <2>7. Linked(below)
    BY <1>2, <1>4, <2>1, <2>3, <2>5, <2>6, BelowLinked
  <2>8. /\ leaf \notin DOMAIN mid /\ leaf # Nil /\ DOMAIN below = DOMAIN mid \cup {leaf}
        /\ below[leaf].prefix = prefix /\ below[leaf].data = v
        /\ \A i \in DOMAIN mid :
              below[i].prefix = mid[i].prefix /\ below[i].data = mid[i].data
        /\ \A i \in DOMAIN below :
              below[i].parent = IF i = leaf THEN vnode ELSE mid[i].parent
        /\ \A i \in DOMAIN below, s \in Slots :
              below[i].kids[s] = IF i = vnode /\ s = slot2 THEN leaf
                                 ELSE IF i = leaf THEN Nil ELSE mid[i].kids[s]
    BY <2>5, <2>6 DEF IsBelow
  <2>9. BusyBut(below, {})
    <3> SUFFICES ASSUME NEW i \in DOMAIN below, below[i].data = Virtual, NEW s \in Slots
                 PROVE  below[i].kids[s] # Nil
      BY DEF BusyBut
    <3>1. i \in DOMAIN mid /\ mid[i].data = Virtual
      BY <1>2, <2>8
    <3>2. CASE i = vnode
      <4>1. s = slot2 \/ s = 1 - slot2
        BY <1>4, SlotsAre
      <4> QED
        BY <2>1, <2>8, <3>1, <3>2, <4>1
    <3>3. CASE i # vnode
      BY <2>1, <2>8, <3>1, <3>3 DEF BusyBut
    <3> QED
      BY <3>2, <3>3
  <2>10. ASSUME NEW t, Sorted(h), Stores(h, t), IsPart(h[save].prefix, prefix),
                \A i \in DOMAIN h : h[i].prefix # prefix
         PROVE  Nested(below) /\ Stores(below, With(t, prefix, v))
    <3>1. Nested(mid)
      BY <1>8, <2>1, <2>10 DEF Sorted
    <3>2. ASSUME NEW i \in DOMAIN below \ {TreeHead}
          PROVE  IsPart(below[below[i].parent].prefix, below[i].prefix)
      <4>1. CASE i = leaf
        BY <1>7, <2>1, <2>8, <4>1
      <4>2. CASE i # leaf
        <5>1. i \in DOMAIN mid \ {TreeHead} /\ below[i].parent = mid[i].parent
          BY <2>8, <4>2
        <5>2. mid[i].parent \in DOMAIN mid /\ IsPart(mid[mid[i].parent].prefix, mid[i].prefix)
          BY <2>1, <3>1, <5>1 DEF Nested, Linked, HangsInv
        <5> QED
          BY <2>8, <5>1, <5>2
      <4> QED
        BY <4>1, <4>2
    <3>3. Nested(below)
      BY <3>2 DEF Nested
    <3>4. /\ DOMAIN h \subseteq DOMAIN below
          /\ \A i \in DOMAIN h : below[i].prefix = h[i].prefix /\ below[i].data = h[i].data
          /\ leaf \in DOMAIN below
          /\ \A i \in DOMAIN below \ DOMAIN h : i = leaf \/ below[i].data = Virtual
      BY <2>1, <2>8
    <3>5. Stores(below, With(t, prefix, v))
      BY <2>8, <2>10, <3>4, StoresNew
    <3> QED
      BY <3>3, <3>5
  <2> QED
    BY <2>4, <2>7, <2>9, <2>10 DEF g
<1> QED
  BY <1>9, <1>10

\* lpm_insert keeps the tree linked and without an idle node; in a sorted tree,
\* it stores the entry and nothing else changes.
LEMMA InsertedKeeps ==
    ASSUME NEW h, Linked(h), BusyBut(h, {}), NEW addr \in Addresses, NEW plen \in 0..Width,
           NEW v \in Values
    PROVE  LET g == Inserted(h, addr, plen, v)
           IN  /\ Linked(g) /\ BusyBut(g, {})
               /\ \A t : Sorted(h) /\ Stores(h, t) =>
                     Nested(g) /\ Stores(g, With(t, SubSeq(addr, 1, plen), v))
<1> DEFINE prefix == SubSeq(addr, 1, plen)
           save == LookupExact(h, prefix)
           slot == Slot(addr, Plen(h[save]))
           g == Inserted(h, addr, plen, v)
<1>0. prefix \in AllPrefixes /\ Len(prefix) = plen
  BY AnnouncedPrefix
<1>1. g = IF Plen(h[save]) = plen THEN [h EXCEPT ![save].data = v]
          ELSE IF h[save].kids[slot] = Nil THEN NewBelow(h, save, slot, Node(prefix, v))
          ELSE Splice(h, addr, prefix, v, save, slot)
  BY DEF Inserted
<1>2. save \in DOMAIN h /\ slot \in Slots
  BY <1>0, ExactStays, SlotType
<1> HIDE DEF prefix
<1>3. Sorted(h) => /\ IsPart(h[save].prefix, prefix)
                   /\ Plen(h[save]) = plen => h[save].prefix = prefix
                   /\ \A c \in DOMAIN h : h[c].prefix = prefix => Plen(h[save]) = plen
  BY <1>0, ExactFinds
<1> HIDE DEF save, slot, g
<1>4. CASE Plen(h[save]) = plen
  <2> DEFINE e == [h EXCEPT ![save].data = v]
  <2>1. /\ Linked(e) /\ BusyBut(e, {})
        /\ \A t : Sorted(h) /\ Stores(h, t) =>
              Nested(e) /\ Stores(e, With(t, h[save].prefix, v))
    BY <1>2, UpdateKeeps
  <2>2. g = e
    BY <1>1, <1>4
  <2> HIDE DEF e
  <2> QED
    BY <1>3, <1>4, <2>1, <2>2 DEF g, prefix
<1>5. CASE Plen(h[save]) # plen /\ h[save].kids[slot] = Nil
  <2> DEFINE e == NewBelow(h, save, slot, Node(prefix, v))
  <2>1. /\ Linked(e) /\ BusyBut(e, {})
        /\ \A t : /\ Sorted(h) /\ Stores(h, t) /\ IsPart(h[save].prefix, prefix)
                  /\ \A i \in DOMAIN h : h[i].prefix # prefix
                  => Nested(e) /\ Stores(e, With(t, prefix, v))
    BY <1>0, <1>2, <1>5, LeafKeeps
  <2>2. g = e
    BY <1>1, <1>5
  <2> HIDE DEF e
  <2> QED
    BY <1>3, <1>5, <2>1, <2>2 DEF g, prefix
<1>6. CASE Plen(h[save]) # plen /\ h[save].kids[slot] # Nil
  <2> DEFINE e == Splice(h, addr, prefix, v, save, slot)
  <2>1. /\ Linked(e) /\ BusyBut(e, {})
        /\ \A t : /\ Sorted(h) /\ Stores(h, t) /\ IsPart(h[save].prefix, prefix)
                  /\ \A i \in DOMAIN h : h[i].prefix # prefix
                  => Nested(e) /\ Stores(e, With(t, prefix, v))
    BY <1>0, <1>2, <1>6, SpliceKeeps
  <2>2. g = e
    BY <1>1, <1>6
  <2> HIDE DEF e
  <2> QED
    BY <1>3, <1>6, <2>1, <2>2 DEF g, prefix
<1> QED
  BY <1>4, <1>5, <1>6

\* A new node below p, in a slot that fits if p is the head, keeps the shape.
LEMMA BelowShaped ==
    ASSUME NEW h, Linked(h), Shaped(h), NEW p \in DOMAIN h, NEW slot \in Slots,
           NEW n, NEW g, NEW new, IsBelow(h, g, p, slot, n, new),
           IsPart(h[p].prefix, n.prefix), Len(n.prefix) >= 1,
           p = TreeHead => n.prefix[1] = slot
    PROVE  Shaped(g)
<1>1. /\ new \notin DOMAIN h /\ new # Nil /\ DOMAIN g = DOMAIN h \cup {new}
      /\ g[new].prefix = n.prefix /\ \A i \in DOMAIN h : g[i].prefix = h[i].prefix
      /\ \A i \in DOMAIN g : g[i].parent = IF i = new THEN p ELSE h[i].parent
      /\ \A i \in DOMAIN g, s \in Slots :
            g[i].kids[s] = IF i = p /\ s = slot THEN new
                           ELSE IF i = new THEN Nil ELSE h[i].kids[s]
  BY DEF IsBelow
<1>2. TreeHead \in DOMAIN h
  BY DEF Linked, HeapType
<1>3. ASSUME NEW i \in DOMAIN g \ {TreeHead}
      PROVE  IsPart(g[g[i].parent].prefix, g[i].prefix) /\ Plen(g[i]) >= 1
  <2>1. CASE i = new
    BY <1>1, <2>1 DEF Plen
  <2>2. CASE i # new
    BY <1>1, <2>2 DEF Shaped, Nested, FirstBits, Linked, HangsInv, Plen
  <2> QED
    BY <2>1, <2>2
<1>4. ASSUME NEW s \in Slots, NEW c, c = g[TreeHead].kids[s], c # Nil
      PROVE  g[c].prefix[1] = s
  <2>1. CASE p = TreeHead /\ s = slot
    BY <1>1, <1>2, <1>4, <2>1
  <2>2. CASE ~ (p = TreeHead /\ s = slot)
    <3>1. c = h[TreeHead].kids[s]
      BY <1>1, <1>2, <1>4, <2>2
    <3>2. c \in DOMAIN h /\ h[c].prefix[1] = s
      BY <1>2, <1>4, <3>1, KidIs DEF Shaped, FirstBits
    <3> QED
      BY <1>1, <3>2
  <2> QED
    BY <2>1, <2>2
<1> QED
  BY <1>3, <1>4 DEF Shaped, Nested, FirstBits

\* A new node between p and its child, if its prefix is between theirs, likewise.
LEMMA BetweenShaped ==
    ASSUME NEW h, Linked(h), Shaped(h), NEW p \in DOMAIN h, NEW slot \in Slots,
           NEW c, c = h[p].kids[slot], c # Nil, NEW slot2 \in Slots,
           NEW n, NEW g, NEW new, IsBetween(h, g, p, slot, n, slot2, new),
           IsPart(h[p].prefix, n.prefix), IsPart(n.prefix, h[c].prefix),
           Len(n.prefix) >= 1, p = TreeHead => n.prefix[1] = slot
    PROVE  Shaped(g)
<1>1. /\ new \notin DOMAIN h /\ new # Nil /\ DOMAIN g = DOMAIN h \cup {new}
      /\ g[new].prefix = n.prefix /\ \A i \in DOMAIN h : g[i].prefix = h[i].prefix
      /\ \A i \in DOMAIN g :
            g[i].parent = IF i = new THEN p ELSE IF i = c THEN new ELSE h[i].parent
      /\ \A i \in DOMAIN g, s \in Slots :
            g[i].kids[s] = IF i = new THEN IF s = slot2 THEN c ELSE Nil
                           ELSE IF i = p /\ s = slot THEN new ELSE h[i].kids[s]
  BY DEF IsBetween
<1>2. TreeHead \in DOMAIN h /\ c \in DOMAIN h \ {TreeHead}
  BY KidIs DEF Linked, HeapType
<1>3. ASSUME NEW i \in DOMAIN g \ {TreeHead}
      PROVE  IsPart(g[g[i].parent].prefix, g[i].prefix) /\ Plen(g[i]) >= 1
  <2>1. CASE i = new
    BY <1>1, <2>1 DEF Plen
  <2>2. CASE i = c
    BY <1>1, <1>2, <2>2 DEF Shaped, FirstBits, Plen
  <2>3. CASE i # new /\ i # c
    BY <1>1, <2>3 DEF Shaped, Nested, FirstBits, Linked, HangsInv, Plen
  <2> QED
    BY <2>1, <2>2, <2>3
<1>4. ASSUME NEW s \in Slots, NEW d, d = g[TreeHead].kids[s], d # Nil
      PROVE  g[d].prefix[1] = s
  <2>1. CASE p = TreeHead /\ s = slot
    BY <1>1, <1>2, <1>4, <2>1
  <2>2. CASE ~ (p = TreeHead /\ s = slot)
    <3>1. d = h[TreeHead].kids[s]
      BY <1>1, <1>2, <1>4, <2>2
    <3>2. d \in DOMAIN h /\ h[d].prefix[1] = s
      BY <1>2, <1>4, <3>1, KidIs DEF Shaped, FirstBits
    <3> QED
      BY <1>1, <3>2
  <2> QED
    BY <2>1, <2>2
<1> QED
  BY <1>3, <1>4 DEF Shaped, Nested, FirstBits

\* A child in the way of a new prefix shares a bit with it, and all of its parent.
LEMMA Shares ==
    ASSUME NEW h, Linked(h), Shaped(h), NEW p \in DOMAIN h, NEW slot \in Slots,
           NEW c, c = h[p].kids[slot], c # Nil, NEW prefix \in AllPrefixes,
           IsPart(h[p].prefix, prefix), Len(prefix) >= 1,
           p = TreeHead => prefix[1] = slot
    PROVE  LET cplen == CommonLen(h[c].prefix, prefix, Shorter(h[c].prefix, prefix))
           IN  cplen >= 1 /\ cplen >= Len(h[p].prefix)
<1> DEFINE child == h[c].prefix
           cplen == CommonLen(child, prefix, Shorter(child, prefix))
<1>1. /\ c \in DOMAIN h \ {TreeHead} /\ h[c].parent = p
      /\ child \in AllPrefixes /\ h[p].prefix \in AllPrefixes
  BY KidIs, NodeType DEF Linked
<1>2. IsPart(h[p].prefix, child) /\ Len(child) >= 1
  BY <1>1 DEF Shaped, Nested, FirstBits, Plen
<1>3. p = TreeHead => child[1] = slot
  BY DEF Shaped, FirstBits
<1> HIDE DEF child
<1>4. \A s \in AllPrefixes : IsPart(s, child) /\ IsPart(s, prefix) => Len(s) <= cplen
  BY <1>1, CommonPart
<1>5. cplen \in Nat /\ Len(h[p].prefix) \in Nat /\ Len(prefix) \in Nat /\ Len(child) \in Nat
  <2>1. cplen \in 0 .. Shorter(child, prefix) /\ Shorter(child, prefix) \in 0..Width
    BY <1>1, CommonLenIs
  <2> HIDE DEF cplen
  <2>2. cplen \in Nat
    BY <2>1
  <2> QED
    BY <1>1, <2>2, PrefixType
<1> HIDE DEF cplen
<1>6. Len(h[p].prefix) <= cplen
  BY <1>1, <1>2, <1>4
<1>7. CASE p = TreeHead
  <2> DEFINE first == SubSeq(prefix, 1, 1)
  <2>1. /\ first \in AllPrefixes /\ Len(first) = 1 /\ IsPart(first, prefix)
        /\ \A i \in 1..1 : first[i] = prefix[i]
    BY <1>5, Begin
  <2> HIDE DEF first
  <2>2. IsPart(first, child)
    BY <1>2, <1>3, <1>7, <2>1 DEF IsPart
  <2>3. Len(first) <= cplen
    BY <1>4, <2>1, <2>2
  <2> QED
    BY <1>6, <2>1, <2>3 DEF cplen, child
<1>8. CASE p # TreeHead
  <2>1. Len(h[p].prefix) >= 1
    BY <1>8 DEF Shaped, FirstBits, Plen
  <2> QED
    BY <1>5, <1>6, <2>1 DEF cplen, child
<1> QED
  BY <1>7, <1>8

\* Where lpm_insert puts a prefix: below a shorter one, at the head in the slot of
\* its first bit.
LEMMA Entrance ==
    ASSUME NEW h, Linked(h), Shaped(h), NEW addr \in Addresses, NEW plen \in 0..Width
    PROVE  LET prefix == SubSeq(addr, 1, plen)
               save == LookupExact(h, prefix)
           IN  /\ save \in DOMAIN h /\ IsPart(h[save].prefix, prefix)
               /\ Plen(h[save]) = plen => h[save].prefix = prefix
               /\ Plen(h[save]) # plen => Len(prefix) >= 1
               /\ Plen(h[save]) # plen /\ save = TreeHead =>
                     prefix[1] = Slot(addr, Plen(h[save]))
<1> DEFINE prefix == SubSeq(addr, 1, plen)
           save == LookupExact(h, prefix)
<1>1. prefix \in AllPrefixes /\ Len(prefix) = plen /\ \A i \in 1..plen : prefix[i] = addr[i]
  BY AnnouncedPrefix, AddressIsPrefix, Begin
<1> HIDE DEF prefix
<1>2. save \in DOMAIN h /\ IsPart(h[save].prefix, prefix)
  BY <1>1, ExactStays DEF Shaped
<1>3. h[save].prefix \in AllPrefixes /\ Len(h[save].prefix) \in Nat
  BY <1>2, NodeType, PrefixType DEF Linked
<1>h. h[TreeHead].prefix = << >>
  BY DEF Linked, HeadInv
<1> HIDE DEF save
<1>4. Plen(h[save]) = plen => h[save].prefix = prefix
  BY <1>1, <1>2, <1>3, SamePrefix DEF Plen
<1>5. Plen(h[save]) # plen => Len(prefix) >= 1
  BY <1>1, <1>2, <1>3 DEF IsPart, Plen
<1>6. ASSUME Plen(h[save]) # plen, save = TreeHead
      PROVE  prefix[1] = Slot(addr, Plen(h[save]))
  <2>1. Plen(h[save]) = 0
    BY <1>6, <1>h DEF Plen
  <2>2. Len(prefix) >= 1
    BY <1>5, <1>6
  <2>3. 1 \in 1..plen /\ 1 \in 1..Width
    BY <1>1, <2>2, LpmAssumption
  <2>4. prefix[1] = addr[1] /\ addr[1] \in Slots
    BY <1>1, <2>3 DEF Addresses
  <2>5. 0 < Width /\ 0 + 1 = 1
    BY LpmAssumption
  <2> QED
    BY <2>1, <2>4, <2>5 DEF Slot, Slots
<1> QED
  BY <1>2, <1>4, <1>5, <1>6 DEF save, prefix

\* lpm_insert keeps the shape of the tree, also where its slots do not fit.
LEMMA InsertedShaped ==
    ASSUME NEW h, Linked(h), Shaped(h), NEW addr \in Addresses, NEW plen \in 0..Width,
           NEW v \in Values
    PROVE  Shaped(Inserted(h, addr, plen, v))
<1> DEFINE prefix == SubSeq(addr, 1, plen)
           save == LookupExact(h, prefix)
           slot == Slot(addr, Plen(h[save]))
           g == Inserted(h, addr, plen, v)
<1>0. prefix \in AllPrefixes /\ Len(prefix) = plen
  BY AnnouncedPrefix
<1>1. g = IF Plen(h[save]) = plen THEN [h EXCEPT ![save].data = v]
          ELSE IF h[save].kids[slot] = Nil THEN NewBelow(h, save, slot, Node(prefix, v))
          ELSE Splice(h, addr, prefix, v, save, slot)
  BY DEF Inserted
<1>2. /\ save \in DOMAIN h /\ IsPart(h[save].prefix, prefix)
      /\ Plen(h[save]) # plen => Len(prefix) >= 1
      /\ Plen(h[save]) # plen /\ save = TreeHead => prefix[1] = slot
  BY Entrance
<1>3. slot \in Slots
  BY SlotType
<1>v. v \notin {Virtual, NoData} /\ v \in Values \cup {NoData, Virtual}
  BY LpmAssumption
<1> HIDE DEF prefix, save, slot, g
<1>4. CASE Plen(h[save]) = plen
  <2> DEFINE e == [h EXCEPT ![save].data = v]
  <2>1. /\ Linked(e) /\ DOMAIN e = DOMAIN h
        /\ \A i \in DOMAIN h :
              /\ e[i].prefix = h[i].prefix /\ e[i].parent = h[i].parent
              /\ e[i].kids = h[i].kids
              /\ e[i].data = IF i = save THEN v ELSE h[i].data
    BY <1>2, <1>v, SetData
  <2>2. g = e
    BY <1>1, <1>4
  <2> HIDE DEF e
  <2>3. Nested(e)
    BY <2>1 DEF Shaped, Nested, Linked, HangsInv
  <2>4. \A i \in DOMAIN h : IsPart(h[i].prefix, e[i].prefix)
    BY <2>1, NodeType DEF Linked, IsPart
  <2>5. TreeHead \in DOMAIN h
    BY DEF Linked, HeapType
  <2>6. Shrunk(h, e)
    BY <2>1, <2>4, <2>5 DEF Shrunk
  <2> QED
    BY <2>1, <2>2, <2>3, <2>6, ShrunkShaped DEF g
<1>5. CASE Plen(h[save]) # plen /\ h[save].kids[slot] = Nil
  <2> DEFINE n == Node(prefix, v)
             e == NewBelow(h, save, slot, n)
             new == Fresh(h, prefix)
  <2>1. IsBelow(h, e, save, slot, n, new)
    BY <1>0, <1>2, <1>3, <1>v, BelowIs DEF Linked
  <2>2. n.prefix = prefix
    BY DEF Node
  <2>3. g = e
    BY <1>1, <1>5
  <2> HIDE DEF n, e, new
  <2>4. Shaped(e)
    BY <1>2, <1>3, <1>5, <2>1, <2>2, BelowShaped
  <2> QED
    BY <2>3, <2>4 DEF g
<1>6. CASE Plen(h[save]) # plen /\ h[save].kids[slot] # Nil
  <2> DEFINE c == h[save].kids[slot]
             child == h[c].prefix
             cplen == CommonLen(child, prefix, Shorter(child, prefix))
             part == SubSeq(prefix, 1, cplen)
             slot2 == Slot(addr, cplen)
             other == 1 - slot2
             n == Node(prefix, v)
             vn == Node(part, Virtual)
             new == Fresh(h, prefix)
             vnode == Fresh(h, part)
             front == NewBetween(h, save, slot, n, slot2)
             mid == NewBetween(h, save, slot, vn, other)
             leaf == Fresh(mid, prefix)
             below == NewBelow(mid, vnode, slot2, n)
  <2>1. g = IF cplen = Len(prefix) THEN front ELSE below
    BY <1>1, <1>6 DEF Splice
  <2>2. slot2 \in Slots /\ other \in Slots
    BY SlotType, SlotsAre
  <2>3. n.prefix = prefix /\ vn.prefix = part /\ vn.data = Virtual
    BY DEF Node
  <2>4. c \in DOMAIN h \ {TreeHead} /\ h[c].parent = save /\ child \in AllPrefixes
    BY <1>2, <1>3, <1>6, KidIs, NodeType DEF Linked
  <2>5. cplen >= 1 /\ cplen >= Len(h[save].prefix)
    BY <1>0, <1>2, <1>3, <1>6, Shares
  <2>f. c = h[save].kids[slot] /\ c # Nil
    BY <1>6
  <2>b. IsBetween(h, front, save, slot, n, slot2, new)
    <3> HIDE DEF slot2
    <3> QED
      BY <1>0, <1>2, <1>3, <1>6, <1>v, <2>2, BetweenIs DEF Linked
  <2> HIDE DEF slot2, child
  <2>6. /\ cplen \in 0..Len(prefix) /\ cplen <= Len(child)
        /\ \A i \in 1..cplen : child[i] = prefix[i]
        /\ Len(prefix) \in Nat /\ Len(child) \in Nat /\ Len(h[save].prefix) \in Nat
    <3>1. LET max == Shorter(child, prefix)
          IN  /\ max \in 0..Width /\ max <= Len(child) /\ max <= Len(prefix)
              /\ cplen \in 0..max /\ \A i \in 1..cplen : child[i] = prefix[i]
      BY <1>0, <2>4, CommonLenIs
    <3> HIDE DEF cplen
    <3>2. Len(prefix) \in Nat /\ Len(child) \in Nat /\ Len(h[save].prefix) \in Nat
      BY <1>0, <1>2, <2>4, NodeType, PrefixType DEF Linked
    <3> QED
      BY <3>1, <3>2
  <2> HIDE DEF cplen
  <2>7. /\ part \in AllPrefixes /\ Len(part) = cplen
        /\ \A i \in 1..cplen : part[i] = prefix[i]
    BY <1>0, <2>6, Begin
  <2>m. IsBetween(h, mid, save, slot, vn, other, vnode)
    <3> HIDE DEF part, other
    <3>1. Virtual \in Values \cup {NoData, Virtual}
      OBVIOUS
    <3> QED
      BY <1>2, <1>3, <1>6, <2>2, <2>7, <3>1, BetweenIs DEF Linked
  <2> HIDE DEF part, c, front, n, vn, new, vnode, mid, other
  <2>8. IsPart(part, child) /\ IsPart(part, prefix) /\ IsPart(h[save].prefix, part)
    BY <1>2, <2>5, <2>6, <2>7 DEF IsPart
  <2>9. part[1] = prefix[1]
    BY <2>5, <2>6, <2>7
  <2>10. CASE cplen = Len(prefix)
    <3>1. IsPart(prefix, child)
      BY <2>6, <2>10 DEF IsPart
    <3>2. IsPart(n.prefix, h[c].prefix)
      BY <2>3, <3>1 DEF child
    <3>3. Shaped(front)
      BY <1>2, <1>3, <1>6, <2>2, <2>3, <2>b, <2>f, <3>2, BetweenShaped
    <3> QED
      BY <2>1, <2>10, <3>3 DEF g
  <2>11. CASE cplen # Len(prefix)
    <3>1. IsPart(vn.prefix, h[c].prefix) /\ Len(vn.prefix) >= 1
      BY <2>3, <2>5, <2>7, <2>8 DEF child
    <3>2. Shaped(mid)
      BY <1>2, <1>3, <1>6, <2>2, <2>3, <2>8, <2>9, <2>f, <2>m, <3>1, BetweenShaped
    <3>3. vn.data # NoData
      BY <2>3 DEF Virtual, NoData
    <3>4. Linked(mid)
      BY <1>2, <1>3, <1>6, <2>2, <2>m, <3>3, BetweenLinked
    <3>5. /\ vnode \in DOMAIN mid /\ vnode \notin DOMAIN h
          /\ mid[vnode].prefix = part
      BY <2>3, <2>m DEF IsBetween
    <3>6. vnode # TreeHead
      BY <3>5 DEF Linked, HeapType
    <3>7. IsBelow(mid, below, vnode, slot2, n, leaf)
      BY <1>0, <1>v, <2>2, <3>4, <3>5, BelowIs DEF Linked, n
    <3> HIDE DEF below, leaf
    <3>8. Shaped(below)
      BY <1>2, <1>6, <2>2, <2>3, <2>8, <3>2, <3>4, <3>5, <3>6, <3>7, BelowShaped
    <3> QED
      BY <2>1, <2>11, <3>8 DEF g
  <2> QED
    BY <2>10, <2>11
<1> QED
  BY <1>4, <1>5, <1>6

-----------------------------------------------------------------------------
(***************************************************************************)
(* Deletion                                                                *)
(***************************************************************************)
\* A virtual node has a parent, and is not above itself.
LEMMA VirtualNode ==
    ASSUME NEW h, Linked(h), NEW node \in DOMAIN h, h[node].data = Virtual
    PROVE  /\ node # TreeHead /\ h[node].parent \in DOMAIN h \ {node}
           /\ \A s \in Slots : LET c == h[node].kids[s]
                               IN  c # Nil => /\ c # node /\ h[node].parent # c
                                              /\ \A t \in Slots : h[c].kids[t] # c
<1>1. node # TreeHead
  BY DEF Linked, HeadInv
<1>2. PICK r : Ranks(h, r)
  BY DEF Linked
<1>3. h[node].parent \in DOMAIN h /\ r[h[node].parent] < r[node]
  BY <1>1, <1>2 DEF Linked, HangsInv, Ranks
<1>4. \A i \in DOMAIN h : r[i] \in Nat
  BY <1>2 DEF Ranks
<1>5. ASSUME NEW s \in Slots, NEW c, c = h[node].kids[s], c # Nil
      PROVE  c # node /\ h[node].parent # c /\ \A t \in Slots : h[c].kids[t] # c
  <2>1. c \in DOMAIN h \ {TreeHead} /\ h[c].parent = node
    BY <1>5, KidIs
  <2>2. r[node] < r[c]
    BY <1>2, <2>1 DEF Ranks
  <2>3. c # node /\ h[node].parent # c
    BY <1>3, <1>4, <2>1, <2>2
  <2>4. ASSUME NEW t \in Slots, h[c].kids[t] = c
        PROVE  FALSE
    <3>1. h[c].parent = c
      BY <1>5, <2>1, <2>4, KidIs
    <3> QED
      BY <2>1, <2>3, <3>1
  <2> QED
    BY <2>3, <2>4
<1> QED
  BY <1>1, <1>3, <1>4, <1>5

\* What each part of optimize_virtual keeps.
Keeps(h, g) ==
    /\ Nested(h) => Nested(g) /\ Shrunk(h, g)
    /\ \A t : Stores(h, t) => Stores(g, t)

\* optimize_virtual_plen keeps the tree and its entries.
LEMMA LengthenKeeps ==
    ASSUME NEW h, Linked(h), NEW node \in DOMAIN h, h[node].data = Virtual,
           \A s \in Slots : h[node].kids[s] # Nil
    PROVE  LET g == Lengthen(h, node)
           IN  /\ Linked(g) /\ DOMAIN g = DOMAIN h
               /\ \A i \in DOMAIN h : g[i].data = h[i].data /\ g[i].kids = h[i].kids
               /\ Keeps(h, g)
<1> DEFINE a == h[h[node].kids[0]].prefix
           b == h[h[node].kids[1]].prefix
           cplen == CommonLen(a, b, Shorter(a, b))
           part == SubSeq(a, 1, cplen)
           e == [h EXCEPT ![node].prefix = part]
           g == Lengthen(h, node)
<1>0. 0 \in Slots /\ 1 \in Slots /\ \A s \in Slots : s = 0 \/ s = 1
  BY DEF Slots
<1>1. g = IF cplen = Plen(h[node]) THEN h ELSE e
  BY DEF Lengthen
<1>2. node # TreeHead
  BY VirtualNode
<1>3. /\ h[node].kids[0] \in DOMAIN h \ {TreeHead} /\ h[h[node].kids[0]].parent = node
      /\ h[node].kids[1] \in DOMAIN h \ {TreeHead} /\ h[h[node].kids[1]].parent = node
  BY <1>0, KidIs
<1>4. a \in AllPrefixes /\ b \in AllPrefixes /\ h[node].prefix \in AllPrefixes
  BY <1>3, NodeType DEF Linked
<1>5. Nested(h) => IsPart(h[node].prefix, a) /\ IsPart(h[node].prefix, b)
  BY <1>3 DEF Nested
<1>6. \A i \in DOMAIN h \ {TreeHead} : h[i].parent = node =>
         h[i].prefix = a \/ h[i].prefix = b
  <2> SUFFICES ASSUME NEW i \in DOMAIN h \ {TreeHead}, h[i].parent = node
               PROVE  h[i].prefix = a \/ h[i].prefix = b
    OBVIOUS
  <2>1. PICK s \in Slots : h[node].kids[s] = i
    BY DEF Linked, HangsInv
  <2> QED
    BY <1>0, <2>1
<1> HIDE DEF a, b
<1>7. /\ cplen \in 0..Len(a) /\ cplen <= Len(b) /\ \A i \in 1..cplen : a[i] = b[i]
      /\ Len(a) \in Nat /\ Len(b) \in Nat
  <2> DEFINE max == Shorter(a, b)
  <2>1. /\ max \in 0..Width /\ max <= Len(a) /\ max <= Len(b)
        /\ cplen \in 0..max /\ \A i \in 1..cplen : a[i] = b[i]
    BY <1>4, CommonLenIs
  <2>2. Len(a) \in Nat /\ Len(b) \in Nat
    BY <1>4, PrefixType
  <2> HIDE DEF max, cplen
  <2> QED
    BY <2>1, <2>2
<1>8. Nested(h) => Plen(h[node]) <= cplen
  BY <1>4, <1>5, CommonPart DEF Plen
<1> HIDE DEF cplen
<1>9. /\ part \in AllPrefixes /\ Len(part) = cplen /\ IsPart(part, a) /\ IsPart(part, b)
      /\ \A i \in 1..cplen : part[i] = a[i]
  BY <1>4, <1>7, Begin DEF IsPart
<1>10. Nested(h) => IsPart(h[node].prefix, part)
  <2> SUFFICES ASSUME Nested(h) PROVE IsPart(h[node].prefix, part)
    OBVIOUS
  <2>1. Len(h[node].prefix) \in Nat /\ Len(h[node].prefix) <= cplen
    BY <1>4, <1>8, PrefixType DEF Plen
  <2>2. IsPart(h[node].prefix, a)
    BY <1>5
  <2> QED
    BY <1>7, <1>9, <2>1, <2>2 DEF IsPart
<1> HIDE DEF part
<1>11. /\ DOMAIN e = DOMAIN h /\ e = [i \in DOMAIN h |-> e[i]]
       /\ \A i \in DOMAIN h \ {node} : e[i] = h[i]
       /\ e[node] = [h[node] EXCEPT !.prefix = part]
  OBVIOUS
<1> HIDE DEF e
<1>12. \A i \in DOMAIN h : h[i] \in Cells(DOMAIN h)
  BY NodeType DEF Linked
<1>13. /\ e[node] \in Cells(DOMAIN h)
       /\ e[node].data = h[node].data /\ e[node].parent = h[node].parent
       /\ e[node].kids = h[node].kids /\ e[node].prefix = part
  BY <1>9, <1>11, <1>12 DEF Cells
<1>14. \A i \in DOMAIN h :
          /\ e[i].data = h[i].data /\ e[i].parent = h[i].parent
          /\ e[i].kids = h[i].kids
          /\ e[i].prefix = IF i = node THEN part ELSE h[i].prefix
  BY <1>11, <1>13
<1>15. Linked(e)
  <2>1. HeapType(e)
    BY <1>11, <1>12, <1>13 DEF Linked, HeapType
  <2>t. TreeHead \in DOMAIN h
    BY DEF Linked, HeapType
  <2>2. HeadInv(e)
    BY <1>2, <1>11, <1>14, <2>t DEF Linked, HeadInv
  <2>3. KidsInv(e)
    <3> SUFFICES ASSUME NEW i \in DOMAIN e, NEW s \in Slots, e[i].kids[s] # Nil
                 PROVE  e[e[i].kids[s]].parent = i
      BY DEF KidsInv
    <3>1. h[i].kids[s] \in DOMAIN h /\ h[h[i].kids[s]].parent = i
      BY <1>11, <1>14, KidIs
    <3> QED
      BY <1>11, <1>14, <3>1
  <2>4. HangsInv(e)
    <3> SUFFICES ASSUME NEW i \in DOMAIN h \ {TreeHead}
                 PROVE  /\ e[i].parent \in DOMAIN h
                        /\ \E s \in Slots : /\ e[e[i].parent].kids[s] = i
                                            /\ e[e[i].parent].kids[1 - s] # i
      BY <1>11 DEF HangsInv
    <3>1. /\ h[i].parent \in DOMAIN h
          /\ \E s \in Slots : /\ h[h[i].parent].kids[s] = i
                              /\ h[h[i].parent].kids[1 - s] # i
      BY DEF Linked, HangsInv
    <3> QED
      BY <1>14, <3>1
  <2>5. \E r : Ranks(e, r)
    BY <1>11, <1>14 DEF Linked, Ranks
  <2> QED
    BY <2>1, <2>2, <2>3, <2>4, <2>5 DEF Linked
<1>16. ASSUME Nested(h)
       PROVE  Nested(e) /\ Shrunk(h, e)
  <2>1. ASSUME NEW i \in DOMAIN h \ {TreeHead}
        PROVE  IsPart(e[e[i].parent].prefix, e[i].prefix)
    <3>0. h[i].parent \in DOMAIN h /\ IsPart(h[h[i].parent].prefix, h[i].prefix)
      BY <1>16 DEF Linked, HangsInv, Nested
    <3>1. CASE i = node
      <4>1. h[node].parent \in DOMAIN h \ {node} /\ h[h[node].parent].prefix \in AllPrefixes
        BY VirtualNode, NodeType DEF Linked
      <4>2. IsPart(h[h[node].parent].prefix, part)
        BY <1>4, <1>9, <1>10, <1>16, <3>0, <3>1, <4>1, PartOfPart
      <4> QED
        BY <1>14, <3>1, <4>1, <4>2
    <3>2. CASE i # node /\ h[i].parent = node
      BY <1>6, <1>9, <1>14, <3>2
    <3>3. CASE i # node /\ h[i].parent # node
      BY <1>14, <3>0, <3>3
    <3> QED
      BY <3>1, <3>2, <3>3
  <2>2. Nested(e)
    BY <1>11, <2>1 DEF Nested
  <2>3. \A i \in DOMAIN h : IsPart(h[i].prefix, e[i].prefix)
    <3>1. \A i \in DOMAIN h : IsPart(h[i].prefix, h[i].prefix)
      BY NodeType DEF Linked, IsPart
    <3> QED
      BY <1>10, <1>14, <1>16, <3>1
  <2>4. TreeHead \in DOMAIN h
    BY DEF Linked, HeapType
  <2>5. Shrunk(h, e)
    BY <1>11, <1>14, <2>3, <2>4 DEF Shrunk
  <2> QED
    BY <2>2, <2>5
<1>20. ASSUME NEW t, Stores(h, t)
       PROVE  Stores(e, t)
  <2>3. \A i \in DOMAIN h : /\ Holds(e[i]) <=> Holds(h[i])
                            /\ Holds(h[i]) => e[i].prefix = h[i].prefix
    BY <1>14 DEF Holds
  <2> QED
    BY <1>11, <1>14, <1>20, <2>3 DEF Stores
<1>17. CASE cplen = Plen(h[node])
  <2>1. \A i \in DOMAIN h : IsPart(h[i].prefix, h[i].prefix)
    BY NodeType DEF Linked, IsPart
  <2>2. Shrunk(h, h)
    BY <2>1 DEF Shrunk
  <2>3. g = h
    BY <1>1, <1>17
  <2> HIDE DEF g
  <2> QED
    BY <2>2, <2>3 DEF Keeps, g
<1>18. CASE cplen # Plen(h[node])
  <2>1. g = e
    BY <1>1, <1>18
  <2> HIDE DEF g
  <2> QED
    BY <1>11, <1>14, <1>15, <1>16, <1>20, <2>1 DEF Keeps, g
<1> QED
  BY <1>17, <1>18

\* merge_child keeps the tree and its entries, without the child.
LEMMA MergeKeeps ==
    ASSUME NEW h, Linked(h), NEW node \in DOMAIN h, h[node].data = Virtual,
           NEW slot \in Slots, h[node].kids[slot] # Nil, h[node].kids[1 - slot] = Nil
    PROVE  LET g == MergeChild(h, node)
               c == h[node].kids[slot]
           IN  /\ Linked(g) /\ DOMAIN g = DOMAIN h \ {c} /\ c \in DOMAIN h \ {node}
               /\ g[node].data = h[c].data /\ g[node].kids = h[c].kids
               /\ \A i \in DOMAIN g \ {node} :
                     g[i].data = h[i].data /\ g[i].kids = h[i].kids
               /\ Keeps(h, g)
<1> DEFINE c == h[node].kids[slot]
           g == MergeChild(h, node)
           moved == [h EXCEPT ![node] = [h[c] EXCEPT !.parent = h[node].parent]]
           D == DOMAIN h \ {c}
<1>0. c \in DOMAIN h \ {TreeHead} /\ h[c].parent = node
  BY KidIs
<1>1. /\ node # TreeHead /\ h[node].parent \in DOMAIN h \ {node}
      /\ c # node /\ h[node].parent # c /\ \A t \in Slots : h[c].kids[t] # c
  BY VirtualNode
<1>2. c = IF h[node].kids[0] # Nil THEN h[node].kids[0] ELSE h[node].kids[1]
  BY DEF Slots
<1>3. g = [i \in D |-> IF \E s \in Slots : h[c].kids[s] = i
                       THEN [moved[i] EXCEPT !.parent = node] ELSE moved[i]]
  BY <1>2 DEF MergeChild
\* No other node points to the child, and its children are below it only.
<1>4. \A i \in DOMAIN h, s \in Slots : h[i].kids[s] = c => i = node
  BY <1>0, KidIs DEF Linked, HeapType
<1>5. \A i \in DOMAIN h : (\E s \in Slots : h[c].kids[s] = i) <=> h[i].parent = c
  <2> SUFFICES ASSUME NEW i \in DOMAIN h
               PROVE  (\E s \in Slots : h[c].kids[s] = i) <=> h[i].parent = c
    OBVIOUS
  <2>1. i # Nil
    BY DEF Linked, HeapType
  <2>2. (\E s \in Slots : h[c].kids[s] = i) => h[i].parent = c
    BY <1>0, <2>1, KidIs
  <2>3. ASSUME h[i].parent = c
        PROVE  \E s \in Slots : h[c].kids[s] = i
    <3>1. i # TreeHead
      BY <1>0, <2>3 DEF Linked, HeadInv, HeapType
    <3> QED
      BY <2>3, <3>1 DEF Linked, HangsInv
  <2> QED
    BY <2>2, <2>3
<1>n. \A i \in DOMAIN h \ {TreeHead} : h[i].parent = node => i = c
  <2> SUFFICES ASSUME NEW i \in DOMAIN h \ {TreeHead}, h[i].parent = node PROVE i = c
    OBVIOUS
  <2>1. PICK s \in Slots : h[node].kids[s] = i
    BY DEF Linked, HangsInv
  <2>2. i # Nil
    BY DEF Linked, HeapType
  <2> QED
    BY <2>1, <2>2, SlotsAre
<1> HIDE DEF c
<1>6. \A i \in DOMAIN h : h[i] \in Cells(DOMAIN h)
  BY NodeType DEF Linked
<1>7. /\ moved[node] \in Cells(DOMAIN h)
      /\ moved[node].prefix = h[c].prefix /\ moved[node].data = h[c].data
      /\ moved[node].kids = h[c].kids /\ moved[node].parent = h[node].parent
  BY <1>0, <1>1, <1>6 DEF Cells
<1>8. \A i \in DOMAIN h \ {node} : moved[i] = h[i]
  OBVIOUS
<1> HIDE DEF moved
<1>9. DOMAIN g = D /\ g = [i \in D |-> g[i]]
  BY <1>3
<1>10. \A i \in D : g[i] = IF h[i].parent = c THEN [moved[i] EXCEPT !.parent = node]
                           ELSE moved[i]
  BY <1>3, <1>5
<1> HIDE DEF g
<1>11. /\ g[node].prefix = h[c].prefix /\ g[node].data = h[c].data
       /\ g[node].kids = h[c].kids /\ g[node].parent = h[node].parent
       /\ g[node] \in Cells(DOMAIN h)
  BY <1>0, <1>1, <1>7, <1>10
<1>12. \A i \in D \ {node} :
          /\ g[i].prefix = h[i].prefix /\ g[i].data = h[i].data /\ g[i].kids = h[i].kids
          /\ g[i].parent = IF h[i].parent = c THEN node ELSE h[i].parent
          /\ g[i] \in Cells(DOMAIN h)
  <2> SUFFICES ASSUME NEW i \in D \ {node}
               PROVE  /\ g[i].prefix = h[i].prefix /\ g[i].data = h[i].data
                      /\ g[i].kids = h[i].kids
                      /\ g[i].parent = IF h[i].parent = c THEN node ELSE h[i].parent
                      /\ g[i] \in Cells(DOMAIN h)
    OBVIOUS
  <2>1. moved[i] = h[i] /\ h[i] \in Cells(DOMAIN h)
    BY <1>6, <1>8
  <2>2. CASE h[i].parent = c
    <3>1. g[i] = [h[i] EXCEPT !.parent = node]
      BY <1>10, <2>1, <2>2
    <3> QED
      BY <2>1, <2>2, <3>1 DEF Cells
  <2>3. CASE h[i].parent # c
    <3>1. g[i] = h[i]
      BY <1>10, <2>1, <2>3
    <3> QED
      BY <2>1, <2>3, <3>1
  <2> QED
    BY <2>2, <2>3
<1>13. Linked(g)
  <2>t. TreeHead \in D /\ Nil \notin DOMAIN h
    BY <1>0 DEF Linked, HeapType
  <2>1. HeapType(g)
    <3>1. ASSUME NEW i \in D
          PROVE  g[i] \in Cells(D)
      <4>1. g[i] \in Cells(DOMAIN h)
        BY <1>11, <1>12
      <4>2. g[i].parent # c
        BY <1>0, <1>1, <1>11, <1>12, <3>1
      <4>3. \A s \in Slots : g[i].kids[s] # c
        BY <1>1, <1>4, <1>11, <1>12, <3>1
      <4>4. g[i].kids \in [Slots -> DOMAIN h \cup {Nil}] /\ g[i].parent \in DOMAIN h \cup {Nil}
        BY <4>1 DEF Cells
      <4>5. g[i].kids \in [Slots -> D \cup {Nil}] /\ g[i].parent \in D \cup {Nil}
        BY <4>2, <4>3, <4>4
      <4> QED
        BY <4>1, <4>5 DEF Cells
    <3>2. IsFiniteSet(D)
      BY FS_Subset DEF Linked, HeapType
    <3> QED
      BY <1>9, <2>t, <3>1, <3>2 DEF HeapType
  <2>2. HeadInv(g)
    <3>1. /\ h[TreeHead].prefix = << >> /\ h[TreeHead].parent = Nil
          /\ h[TreeHead].data # Virtual
          /\ \A i \in DOMAIN h \ {TreeHead} : h[i].data # NoData
      BY DEF Linked, HeadInv
    <3>2. g[TreeHead].prefix = << >> /\ g[TreeHead].parent = Nil /\ g[TreeHead].data # Virtual
      BY <1>0, <1>1, <1>12, <2>t, <3>1
    <3> QED
      BY <1>0, <1>9, <1>11, <1>12, <3>1, <3>2 DEF HeadInv
  <2>3. KidsInv(g)
    <3> SUFFICES ASSUME NEW i \in D, NEW s \in Slots, g[i].kids[s] # Nil
                 PROVE  g[g[i].kids[s]].parent = i
      BY <1>9 DEF KidsInv
    <3>1. CASE i = node
      <4> DEFINE k == h[c].kids[s]
      <4>1. g[i].kids[s] = k
        BY <1>11, <3>1
      <4>2. k \in DOMAIN h /\ h[k].parent = c
        BY <1>0, <4>1, KidIs
      <4>3. k # c /\ k # node
        BY <1>1, <4>2
      <4> QED
        BY <1>12, <3>1, <4>1, <4>2, <4>3
    <3>2. CASE i # node
      <4> DEFINE k == h[i].kids[s]
      <4>1. g[i].kids[s] = k
        BY <1>12, <3>2
      <4>2. k \in DOMAIN h /\ h[k].parent = i /\ k # c
        BY <1>4, <3>2, <4>1, KidIs
      <4> QED
        BY <1>11, <1>12, <3>2, <4>1, <4>2
    <3> QED
      BY <3>1, <3>2
  <2>4. HangsInv(g)
    <3> SUFFICES ASSUME NEW i \in D \ {TreeHead}
                 PROVE  /\ g[i].parent \in D
                        /\ \E s \in Slots : /\ g[g[i].parent].kids[s] = i
                                            /\ g[g[i].parent].kids[1 - s] # i
      BY <1>9 DEF HangsInv
    <3> DEFINE q == h[i].parent
    <3>0. /\ q \in DOMAIN h
          /\ \E s \in Slots : h[q].kids[s] = i /\ h[q].kids[1 - s] # i
      BY DEF Linked, HangsInv
    <3>1. CASE q = c
      <4>1. i # node /\ g[i].parent = node
        BY <1>1, <1>12, <3>1
      <4> QED
        BY <1>0, <1>1, <1>11, <3>0, <3>1, <4>1
    <3>2. CASE q # c
      <4>1. g[i].parent = q
        BY <1>11, <1>12, <3>2
      <4>2. q # node
        BY <1>n
      <4> QED
        BY <1>12, <3>0, <3>2, <4>1, <4>2
    <3> QED
      BY <3>1, <3>2
  <2>5. \E r : Ranks(g, r)
    <3>1. PICK r : Ranks(h, r)
      BY DEF Linked
    <3> DEFINE e == [i \in D |-> r[i]]
    <3>2. e \in [DOMAIN g -> Nat]
      BY <1>9, <3>1 DEF Ranks
    <3>3. ASSUME NEW i \in D \ {TreeHead}
          PROVE  e[g[i].parent] < e[i]
      <4>0. /\ h[i].parent \in DOMAIN h /\ r[h[i].parent] < r[i] /\ r[node] < r[c]
            /\ r[h[i].parent] \in Nat /\ r[i] \in Nat /\ r[node] \in Nat /\ r[c] \in Nat
        BY <1>0, <3>1 DEF Linked, HangsInv, Ranks
      <4>1. CASE i = node
        BY <1>1, <1>11, <4>0, <4>1
      <4>2. CASE i # node /\ h[i].parent = c
        <5>1. g[i].parent = node /\ node \in D
          BY <1>1, <1>12, <4>2
        <5> QED
          BY <4>0, <4>2, <5>1
      <4>3. CASE i # node /\ h[i].parent # c
        BY <1>12, <4>0, <4>3
      <4> QED
        BY <4>1, <4>2, <4>3
    <3>4. Ranks(g, e)
      BY <1>9, <3>2, <3>3 DEF Ranks
    <3> QED
      BY <3>4
  <2> QED
    BY <2>1, <2>2, <2>3, <2>4, <2>5 DEF Linked
<1>14. ASSUME Nested(h)
       PROVE  Nested(g) /\ Shrunk(h, g)
  <2>1. ASSUME NEW i \in D \ {TreeHead}
        PROVE  IsPart(g[g[i].parent].prefix, g[i].prefix)
    <3>0. h[i].parent \in DOMAIN h /\ IsPart(h[h[i].parent].prefix, h[i].prefix)
      BY <1>14 DEF Linked, HangsInv, Nested
    <3>1. CASE i = node
      <4> DEFINE q == h[node].parent
      <4>1. q \in D \ {node}
        BY <1>1
      <4>2. IsPart(h[node].prefix, h[c].prefix)
        BY <1>0, <1>14 DEF Nested
      <4>3. /\ h[q].prefix \in AllPrefixes /\ h[node].prefix \in AllPrefixes
            /\ h[c].prefix \in AllPrefixes
        BY <1>0, <4>1, NodeType DEF Linked
      <4>4. IsPart(h[q].prefix, h[c].prefix)
        BY <3>0, <3>1, <4>2, <4>3, PartOfPart
      <4> QED
        BY <1>11, <1>12, <3>1, <4>1, <4>4
    <3>2. CASE i # node /\ h[i].parent = c
      BY <1>11, <1>12, <3>0, <3>2
    <3>3. CASE i # node /\ h[i].parent # c
      <4>1. h[i].parent # node
        BY <1>n
      <4> QED
        BY <1>12, <3>0, <3>3, <4>1
    <3> QED
      BY <3>1, <3>2, <3>3
  <2>2. Nested(g)
    BY <1>9, <2>1 DEF Nested
  <2>3. \A i \in D : IsPart(h[i].prefix, g[i].prefix)
    <3>1. \A i \in DOMAIN h : IsPart(h[i].prefix, h[i].prefix)
      BY NodeType DEF Linked, IsPart
    <3>2. IsPart(h[node].prefix, h[c].prefix)
      BY <1>0, <1>14 DEF Nested
    <3> QED
      BY <1>11, <1>12, <3>1, <3>2
  <2>4. TreeHead \in D \ {node}
    BY <1>0, <1>1 DEF Linked, HeapType
  <2>5. Shrunk(h, g)
    BY <1>9, <1>12, <2>3, <2>4 DEF Shrunk
  <2> QED
    BY <2>2, <2>5
<1>15. ASSUME NEW t, Stores(h, t)
       PROVE  Stores(g, t)
  <2>3. ASSUME NEW i \in D, Holds(g[i])
        PROVE  g[i].prefix \in DOMAIN t /\ t[g[i].prefix] = g[i].data
    <3>1. CASE i = node
      BY <1>0, <1>11, <1>15, <2>3, <3>1 DEF Stores, Holds
    <3>2. CASE i # node
      BY <1>12, <1>15, <2>3, <3>2 DEF Stores, Holds
    <3> QED
      BY <3>1, <3>2
  <2>4. ASSUME NEW q \in DOMAIN t
        PROVE  \E i \in D : Holds(g[i]) /\ g[i].prefix = q
    <3>1. PICK i \in DOMAIN h : Holds(h[i]) /\ h[i].prefix = q
      BY <1>15 DEF Stores
    <3>2. i # node
      BY <3>1 DEF Holds
    <3>3. CASE i = c
      BY <1>1, <1>11, <3>1, <3>3 DEF Holds
    <3>4. CASE i # c
      BY <1>12, <3>1, <3>2, <3>4 DEF Holds
    <3> QED
      BY <3>3, <3>4
  <2> QED
    BY <1>9, <2>3, <2>4 DEF Stores
<1> QED
  BY <1>0, <1>1, <1>9, <1>11, <1>12, <1>13, <1>14, <1>15 DEF Keeps, g, c

\* optimize_virtual_empty keeps the tree and its entries, without the node.
LEMMA RemoveKeeps ==
    ASSUME NEW h, Linked(h), NEW node \in DOMAIN h, h[node].data = Virtual,
           \A s \in Slots : h[node].kids[s] = Nil
    PROVE  LET g == Remove(h, node)
               p == h[node].parent
           IN  /\ Linked(g) /\ DOMAIN g = DOMAIN h \ {node} /\ p \in DOMAIN g
               /\ \A i \in DOMAIN g : g[i].data = h[i].data
               /\ \A i \in DOMAIN g \ {p} : g[i].kids = h[i].kids
               /\ \E s \in Slots : g[p].kids[s] = h[p].kids[s] /\ h[p].kids[1 - s] = node
               /\ Keeps(h, g)
<1> DEFINE p == h[node].parent
           pidx == IF h[p].kids[0] = node THEN 0 ELSE 1
           e == [h EXCEPT ![p].kids[pidx] = Nil]
           g == Remove(h, node)
           D == DOMAIN h \ {node}
<1>0. node # TreeHead /\ p \in D
  BY VirtualNode
<1>1. pidx \in Slots /\ h[p].kids[pidx] = node /\ h[p].kids[1 - pidx] # node
  <2>1. PICK s \in Slots : h[p].kids[s] = node /\ h[p].kids[1 - s] # node
    BY <1>0 DEF Linked, HangsInv
  <2> QED
    BY <2>1 DEF Slots
<1>2. g = [i \in D |-> e[i]]
  BY DEF Remove, Without
<1>n. node # Nil
  BY DEF Linked, HeapType
<1> HIDE DEF p, pidx
\* Nothing else points to the node.
<1>3. \A i \in DOMAIN h, s \in Slots : h[i].kids[s] = node => i = p /\ s = pidx
  <2> SUFFICES ASSUME NEW i \in DOMAIN h, NEW s \in Slots, h[i].kids[s] = node
               PROVE  i = p /\ s = pidx
    OBVIOUS
  <2>1. i = p
    BY <1>n, KidIs DEF p
  <2> QED
    BY <1>1, <2>1, SlotsAre
<1>4. \A i \in DOMAIN h : h[i].parent # node
  <2> SUFFICES ASSUME NEW i \in DOMAIN h, h[i].parent = node PROVE FALSE
    OBVIOUS
  <2>1. i # TreeHead
    BY <1>n DEF Linked, HeadInv
  <2>2. \E s \in Slots : h[node].kids[s] = i
    BY <2>1 DEF Linked, HangsInv
  <2>3. i # Nil
    BY DEF Linked, HeapType
  <2> QED
    BY <2>2, <2>3
<1>5. \A i \in DOMAIN h : h[i] \in Cells(DOMAIN h)
  BY NodeType DEF Linked
<1>6. \A i \in DOMAIN h \ {p} : e[i] = h[i]
  OBVIOUS
<1>7. /\ e[p] \in Cells(DOMAIN h)
      /\ e[p].prefix = h[p].prefix /\ e[p].data = h[p].data /\ e[p].parent = h[p].parent
      /\ \A s \in Slots : e[p].kids[s] = IF s = pidx THEN Nil ELSE h[p].kids[s]
  BY <1>0, <1>5 DEF Cells
<1> HIDE DEF e
<1>8. DOMAIN g = D /\ g = [i \in D |-> g[i]] /\ \A i \in D : g[i] = e[i]
  BY <1>2
<1> HIDE DEF g
<1>9. \A i \in D :
         /\ g[i] \in Cells(DOMAIN h)
         /\ g[i].prefix = h[i].prefix /\ g[i].data = h[i].data /\ g[i].parent = h[i].parent
         /\ \A s \in Slots : g[i].kids[s] = IF i = p /\ s = pidx THEN Nil ELSE h[i].kids[s]
  BY <1>5, <1>6, <1>7, <1>8
<1>10. Linked(g)
  <2>t. TreeHead \in D /\ Nil \notin DOMAIN h
    BY <1>0 DEF Linked, HeapType
  <2>1. HeapType(g)
    <3>1. ASSUME NEW i \in D
          PROVE  g[i] \in Cells(D)
      <4>1. g[i] \in Cells(DOMAIN h) /\ g[i].parent # node
        BY <1>4, <1>9
      <4>2. \A s \in Slots : g[i].kids[s] # node
        BY <1>3, <1>9, <1>n
      <4>3. g[i].kids \in [Slots -> DOMAIN h \cup {Nil}] /\ g[i].parent \in DOMAIN h \cup {Nil}
        BY <4>1 DEF Cells
      <4>4. g[i].kids \in [Slots -> D \cup {Nil}] /\ g[i].parent \in D \cup {Nil}
        BY <4>1, <4>2, <4>3
      <4> QED
        BY <4>1, <4>4 DEF Cells
    <3>2. IsFiniteSet(D)
      BY FS_Subset DEF Linked, HeapType
    <3> QED
      BY <1>8, <2>t, <3>1, <3>2 DEF HeapType
  <2>2. HeadInv(g)
    BY <1>8, <1>9, <2>t DEF Linked, HeadInv
  <2>3. KidsInv(g)
    <3> SUFFICES ASSUME NEW i \in D, NEW s \in Slots, g[i].kids[s] # Nil
                 PROVE  g[g[i].kids[s]].parent = i
      BY <1>8 DEF KidsInv
    <3>1. g[i].kids[s] = h[i].kids[s] /\ ~ (i = p /\ s = pidx)
      BY <1>9
    <3>2. h[i].kids[s] \in DOMAIN h /\ h[h[i].kids[s]].parent = i
      BY <3>1, KidIs
    <3>3. h[i].kids[s] # node
      BY <1>3, <3>1
    <3> QED
      BY <1>9, <3>1, <3>2, <3>3
  <2>4. HangsInv(g)
    <3> SUFFICES ASSUME NEW i \in D \ {TreeHead}
                 PROVE  /\ g[i].parent \in D
                        /\ \E s \in Slots : /\ g[g[i].parent].kids[s] = i
                                            /\ g[g[i].parent].kids[1 - s] # i
      BY <1>8 DEF HangsInv
    <3> DEFINE q == h[i].parent
    <3>1. q \in D /\ g[i].parent = q
      BY <1>4, <1>9 DEF Linked, HangsInv
    <3>2. PICK s \in Slots : h[q].kids[s] = i /\ h[q].kids[1 - s] # i
      BY DEF Linked, HangsInv
    <3>3. i # Nil /\ 1 - s \in Slots
      BY SlotsAre DEF Linked, HeapType
    <3>4. g[q].kids[s] = i
      BY <1>1, <1>9, <3>1, <3>2
    <3>5. g[q].kids[1 - s] # i
      BY <1>9, <3>1, <3>2, <3>3
    <3> QED
      BY <3>1, <3>4, <3>5
  <2>5. \E r : Ranks(g, r)
    <3>1. PICK r : Ranks(h, r)
      BY DEF Linked
    <3> DEFINE f == [i \in D |-> r[i]]
    <3>2. f \in [DOMAIN g -> Nat]
      BY <1>8, <3>1 DEF Ranks
    <3>3. ASSUME NEW i \in D \ {TreeHead}
          PROVE  f[g[i].parent] < f[i]
      <4>1. g[i].parent = h[i].parent /\ h[i].parent \in D /\ r[h[i].parent] < r[i]
        BY <1>4, <1>9, <3>1 DEF Linked, HangsInv, Ranks
      <4> QED
        BY <4>1
    <3>4. Ranks(g, f)
      BY <1>8, <3>2, <3>3 DEF Ranks
    <3> QED
      BY <3>4
  <2> QED
    BY <2>1, <2>2, <2>3, <2>4, <2>5 DEF Linked
<1>11. ASSUME Nested(h)
       PROVE  Nested(g) /\ Shrunk(h, g)
  <2>1. Nested(g)
    BY <1>4, <1>8, <1>9, <1>11 DEF Nested, Linked, HangsInv
  <2>2. \A i \in D : IsPart(h[i].prefix, g[i].prefix)
    <3>1. \A i \in DOMAIN h : IsPart(h[i].prefix, h[i].prefix)
      BY NodeType DEF Linked, IsPart
    <3> QED
      BY <1>9, <3>1
  <2>3. TreeHead \in D
    BY <1>0 DEF Linked, HeapType
  <2>4. Shrunk(h, g)
    BY <1>8, <1>9, <2>2, <2>3 DEF Shrunk
  <2> QED
    BY <2>1, <2>4
<1>14. ASSUME NEW t, Stores(h, t)
       PROVE  Stores(g, t)
  <2>2. \A i \in D : Holds(g[i]) <=> Holds(h[i])
    BY <1>9 DEF Holds
  <2>3. \A i \in DOMAIN h : Holds(h[i]) => i \in D
    BY DEF Holds
  <2> QED
    BY <1>8, <1>9, <1>14, <2>2, <2>3 DEF Stores
<1>12. \A i \in D \ {p} : g[i].kids = h[i].kids
  BY <1>6, <1>8
<1>13. \E s \in Slots : g[p].kids[s] = h[p].kids[s] /\ h[p].kids[1 - s] = node
  <2>1. 1 - pidx \in Slots /\ 1 - pidx # pidx /\ 1 - (1 - pidx) = pidx
    BY <1>1 DEF Slots
  <2> QED
    BY <1>0, <1>1, <1>9, <2>1
<1> QED
  BY <1>0, <1>8, <1>9, <1>10, <1>11, <1>12, <1>13, <1>14 DEF Keeps, g, p

\* Between two calls of optimize_virtual, the node of the next one may be idle.
Loose(s) == Linked(s.heap) /\ s.node \in DOMAIN s.heap /\ BusyBut(s.heap, {s.node})

\* It is not without a child, if virtual.
Half(s) ==
    s.heap[s.node].data = Virtual => \E slot \in Slots : s.heap[s.node].kids[slot] # Nil

\* What a call of optimize_virtual does: after it the next one is for a node that
\* is not without a child, and if this one was for such a node, none is idle.
OptimiseGoal(s, u) ==
    /\ Loose(u) /\ Half(u)
    /\ Half(s) => BusyBut(u.heap, {})
    /\ Shaped(s.heap) => Shaped(u.heap)
    /\ \A t : Stores(s.heap, t) => Stores(u.heap, t)

\* Every call does it, so that the second is the last that does anything.
LEMMA OptimiseKeeps ==
    ASSUME NEW s, Loose(s)
    PROVE  OptimiseGoal(s, Optimise(s))
<1> DEFINE h == s.heap
           node == s.node
           used == {slot \in Slots : h[node].kids[slot] # Nil}
           u == Optimise(s)
<1>0. Linked(h) /\ node \in DOMAIN h /\ BusyBut(h, {node})
  BY DEF Loose
<1>1. h[node].data # Virtual => u = s
  BY DEF Optimise
<1>2. h[node].data = Virtual /\ used = Slots => u = [heap |-> Lengthen(h, node), node |-> node]
  BY DEF Optimise
<1>3. h[node].data = Virtual /\ used # Slots /\ used # {}
         => u = [heap |-> MergeChild(h, node), node |-> node]
  BY DEF Optimise
<1>4. h[node].data = Virtual /\ used # Slots /\ used = {}
         => u = [heap |-> Remove(h, node), node |-> h[node].parent]
  BY DEF Optimise
<1>u. /\ used = Slots <=> \A slot \in Slots : h[node].kids[slot] # Nil
      /\ used = {} <=> \A slot \in Slots : h[node].kids[slot] = Nil
  OBVIOUS
<1> HIDE DEF u, used
<1>5. CASE h[node].data # Virtual
  <2>1. u = s
    BY <1>1, <1>5
  <2> QED
    BY <1>5, <2>1 DEF OptimiseGoal, Half, BusyBut, Loose, u
<1>6. CASE h[node].data = Virtual /\ used = Slots
  <2> DEFINE g == Lengthen(h, node)
  <2>1. u.heap = g /\ u.node = node
    BY <1>2, <1>6
  <2>2. \A slot \in Slots : h[node].kids[slot] # Nil
    BY <1>6, <1>u
  <2>3. /\ Linked(g) /\ DOMAIN g = DOMAIN h
        /\ \A i \in DOMAIN h : g[i].data = h[i].data /\ g[i].kids = h[i].kids
        /\ Keeps(h, g)
    BY <1>0, <1>6, <2>2, LengthenKeeps
  <2> HIDE DEF g
  <2>s. Shaped(h) => Shaped(g)
    BY <1>0, <2>3, ShrunkShaped DEF Shaped, Keeps
  <2>4. BusyBut(g, {})
    BY <1>0, <2>2, <2>3 DEF BusyBut
  <2>5. BusyBut(g, {node})
    BY <2>4 DEF BusyBut
  <2>6. 0 \in Slots
    BY DEF Slots
  <2>7. Half(u)
    BY <1>0, <2>1, <2>2, <2>3, <2>6 DEF Half
  <2>8. Loose(u)
    BY <1>0, <2>1, <2>3, <2>5 DEF Loose
  <2> HIDE DEF h
  <2> QED
    BY <2>1, <2>3, <2>4, <2>7, <2>8, <2>s DEF OptimiseGoal, Keeps, u, h
<1>7. CASE h[node].data = Virtual /\ used # Slots /\ used # {}
  <2> DEFINE g == MergeChild(h, node)
  <2>1. u.heap = g /\ u.node = node
    BY <1>3, <1>7
  <2>2. PICK slot \in Slots : h[node].kids[slot] # Nil /\ h[node].kids[1 - slot] = Nil
    <3>1. PICK a \in Slots : h[node].kids[a] # Nil
      BY <1>7, <1>u
    <3>2. PICK b \in Slots : h[node].kids[b] = Nil
      BY <1>7, <1>u
    <3> QED
      BY <3>1, <3>2, SlotsAre
  <2> DEFINE c == h[node].kids[slot]
  <2>3. /\ Linked(g) /\ DOMAIN g = DOMAIN h \ {c} /\ c \in DOMAIN h \ {node}
        /\ g[node].data = h[c].data /\ g[node].kids = h[c].kids
        /\ \A i \in DOMAIN g \ {node} : g[i].data = h[i].data /\ g[i].kids = h[i].kids
        /\ Keeps(h, g)
    <3> HIDE DEF h, node
    <3> QED
      BY <1>0, <1>7, <2>2, MergeKeeps
  <2> HIDE DEF g, c
  <2>s. Shaped(h) => Shaped(g)
    BY <1>0, <2>3, ShrunkShaped DEF Shaped, Keeps
  <2>4. BusyBut(g, {})
    BY <1>0, <2>3 DEF BusyBut
  <2>5. BusyBut(g, {node})
    BY <2>4 DEF BusyBut
  <2>6. 0 \in Slots
    BY DEF Slots
  <2>7. Half(u)
    BY <1>0, <2>1, <2>3, <2>4, <2>6 DEF Half, BusyBut
  <2>8. Loose(u)
    BY <1>0, <2>1, <2>3, <2>5 DEF Loose
  <2> HIDE DEF h
  <2> QED
    BY <2>1, <2>3, <2>4, <2>7, <2>8, <2>s DEF OptimiseGoal, Keeps, u, h
<1>8. CASE h[node].data = Virtual /\ used # Slots /\ used = {}
  <2> DEFINE g == Remove(h, node)
             p == h[node].parent
  <2>1. u.heap = g /\ u.node = p
    BY <1>4, <1>8
  <2>2. \A slot \in Slots : h[node].kids[slot] = Nil
    BY <1>8, <1>u
  <2>3. /\ Linked(g) /\ DOMAIN g = DOMAIN h \ {node} /\ p \in DOMAIN g
        /\ \A i \in DOMAIN g : g[i].data = h[i].data
        /\ \A i \in DOMAIN g \ {p} : g[i].kids = h[i].kids
        /\ \E slot \in Slots : g[p].kids[slot] = h[p].kids[slot] /\ h[p].kids[1 - slot] = node
        /\ Keeps(h, g)
    BY <1>0, <1>8, <2>2, RemoveKeeps
  <2> HIDE DEF g, p
  <2>s. Shaped(h) => Shaped(g)
    BY <1>0, <2>3, ShrunkShaped DEF Shaped, Keeps
  <2>4. BusyBut(g, {p})
    BY <1>0, <2>3 DEF BusyBut
  <2>5. Half(u)
    BY <1>0, <2>1, <2>3 DEF Half, BusyBut
  <2>6. Loose(u)
    BY <2>1, <2>3, <2>4 DEF Loose
  <2>7. ~ Half(s)
    BY <1>8, <2>2 DEF Half
  <2> HIDE DEF h
  <2> QED
    BY <2>1, <2>3, <2>5, <2>6, <2>7, <2>s DEF OptimiseGoal, Keeps, u, h
<1> HIDE DEF h
<1> QED
  BY <1>5, <1>6, <1>7, <1>8 DEF u

\* The first n + 1 states of the calls of optimize_virtual from s on.
IsRun(f, n, s) ==
    /\ f[0] = s
    /\ \A k \in 0 .. n - 1 : f[k + 1] = Optimise(f[k])

\* The calls that Deleted is defined by.
LEMMA RunExists ==
    ASSUME NEW s
    PROVE  \E f : IsRun(f, Calls, s) /\ DOMAIN f = 0..Calls
<1> DEFINE P == {n \in 0..Calls : \E f : IsRun(f, n, s) /\ DOMAIN f = 0..n}
<1>0. Calls \in Nat
  BY DEF Calls
<1>1. 0 \in P
  <2>1. IsRun([k \in 0..0 |-> s], 0, s)
    BY DEF IsRun
  <2> QED
    BY <1>0, <2>1
<1>2. ASSUME NEW n \in 0 .. Calls - 1, n \in P
      PROVE  n + 1 \in P
  <2>1. PICK f : IsRun(f, n, s) /\ DOMAIN f = 0..n
    BY <1>2
  <2> DEFINE g == [k \in 0 .. n + 1 |-> IF k <= n THEN f[k] ELSE Optimise(f[n])]
  <2>2. g[0] = s
    BY <1>0, <2>1 DEF IsRun
  <2>3. ASSUME NEW k \in 0 .. (n + 1) - 1
        PROVE  g[k + 1] = Optimise(g[k])
    <3>1. CASE k < n
      <4>1. g[k] = f[k] /\ g[k + 1] = f[k + 1] /\ k \in 0 .. n - 1
        BY <1>0, <3>1
      <4> HIDE DEF g
      <4> QED
        BY <2>1, <4>1 DEF IsRun
    <3>2. CASE k = n
      BY <1>0, <3>2
    <3> QED
      BY <1>0, <3>1, <3>2
  <2>4. DOMAIN g = 0 .. n + 1
    OBVIOUS
  <2> HIDE DEF g
  <2>5. IsRun(g, n + 1, s)
    BY <2>2, <2>3 DEF IsRun
  <2>6. n + 1 \in 0..Calls
    BY <1>0
  <2> QED
    BY <2>4, <2>5, <2>6
<1> HIDE DEF P
<1>3. Calls \in P
  BY <1>0, <1>1, <1>2, UpTo
<1> QED
  BY <1>3 DEF P

\* What the deletion of the entry at node starts from.
Emptied(h, node) == [heap |-> [h EXCEPT ![node].data = Virtual], node |-> node]

\* lpm_delete of an entry is the last state of the calls of optimize_virtual.
LEMMA DeletedIs ==
    ASSUME NEW h, NEW prefix
    PROVE  LET node == LookupExact(h, prefix)
           IN  IF IsEntry(h[node], prefix)
               THEN \E w : IsRun(w, Calls, Emptied(h, node)) /\ Deleted(h, prefix) = w[Calls].heap
               ELSE Deleted(h, prefix) = h
<1> DEFINE node == LookupExact(h, prefix)
           s == [heap |-> [h EXCEPT ![node].data = Virtual], node |-> node]
           F(f) == [k \in 0..Calls |-> IF k = 0 THEN s ELSE Optimise(f[k - 1])]
           W == CHOOSE f : f = F(f)
<1>0. Calls \in Nat
  BY DEF Calls
<1>s. Emptied(h, node) = s
  BY DEF Emptied
<1>4. Deleted(h, prefix) = IF IsEntry(h[node], prefix) THEN W[Calls].heap ELSE h
  BY DEF Deleted
<1> HIDE DEF s
<1>1. PICK w : IsRun(w, Calls, s) /\ DOMAIN w = 0..Calls
  BY RunExists
<1> DEFINE g == [k \in 0..Calls |-> w[k]]
<1>2. g = F(g)
  <2>1. ASSUME NEW k \in 0..Calls, k # 0
        PROVE  g[k] = Optimise(g[k - 1])
    <3>1. k - 1 \in 0 .. Calls - 1 /\ (k - 1) + 1 = k /\ k - 1 \in 0..Calls
      BY <1>0, <2>1
    <3>2. g[k] = w[k] /\ g[k - 1] = w[k - 1]
      BY <3>1
    <3> HIDE DEF g
    <3> QED
      BY <1>1, <3>1, <3>2 DEF IsRun
  <2>2. 0 \in 0..Calls /\ g[0] = s
    BY <1>0, <1>1 DEF IsRun
  <2>3. \A k \in 0..Calls : g[k] = IF k = 0 THEN s ELSE Optimise(g[k - 1])
    <3> HIDE DEF g
    <3> QED
      BY <2>1, <2>2
  <2>4. g = [k \in 0..Calls |-> g[k]]
    OBVIOUS
  <2> HIDE DEF g
  <2> QED
    BY <2>3, <2>4
<1>3. W = F(W)
  <2> HIDE DEF g, F
  <2> QED
    BY <1>2, Zenon
<1> HIDE DEF W
<1>5. W[0] = s
  BY <1>0, <1>3
<1>6. ASSUME NEW k \in 0 .. Calls - 1
      PROVE  W[k + 1] = Optimise(W[k])
  <2>1. k + 1 \in 0..Calls /\ k + 1 # 0 /\ (k + 1) - 1 = k
    BY <1>0
  <2>2. W[k + 1] = F(W)[k + 1]
    BY <1>3
  <2>3. F(W)[k + 1] = Optimise(W[(k + 1) - 1])
    BY <2>1
  <2> QED
    BY <2>1, <2>2, <2>3
<1>7. IsRun(W, Calls, s)
  BY <1>5, <1>6 DEF IsRun
<1> HIDE DEF node
<1> QED
  BY <1>4, <1>7, <1>s DEF node

\* The tree that a deletion starts from may have one idle node.
LEMMA EmptiedLoose ==
    ASSUME NEW h, Linked(h), BusyBut(h, {}), NEW node \in DOMAIN h \ {TreeHead}
    PROVE  Loose(Emptied(h, node))
<1> DEFINE e == [h EXCEPT ![node].data = Virtual]
<1>1. /\ Linked(e) /\ DOMAIN e = DOMAIN h
      /\ \A i \in DOMAIN h : /\ e[i].kids = h[i].kids
                             /\ e[i].data = IF i = node THEN Virtual ELSE h[i].data
  BY SetData
<1>2. Emptied(h, node).heap = e /\ Emptied(h, node).node = node
  BY DEF Emptied
<1> HIDE DEF e
<1> QED
  BY <1>1, <1>2 DEF Loose, BusyBut

\* A call for a node that is virtual and has two children leaves nothing to do.
LEMMA FullEnds ==
    ASSUME NEW s, Loose(s), BusyBut(s.heap, {})
    PROVE  Optimise(Optimise(s)) = Optimise(s)
<1> DEFINE h == s.heap
           node == s.node
           used == {slot \in Slots : h[node].kids[slot] # Nil}
<1>1. Linked(h) /\ node \in DOMAIN h
  BY DEF Loose
<1>2. CASE h[node].data # Virtual
  <2>1. Optimise(s) = s
    BY <1>2 DEF Optimise
  <2> QED
    BY <2>1
<1>3. CASE h[node].data = Virtual
  <2> DEFINE g == Lengthen(h, node)
             u == [heap |-> g, node |-> node]
             a == h[h[node].kids[0]].prefix
             b == h[h[node].kids[1]].prefix
             cplen == CommonLen(a, b, Shorter(a, b))
             part == SubSeq(a, 1, cplen)
  <2>0. 0 \in Slots /\ 1 \in Slots
    BY DEF Slots
  <2>1. \A slot \in Slots : h[node].kids[slot] # Nil
    BY <1>1, <1>3 DEF BusyBut
  <2>2. used = Slots
    BY <2>1
  <2>3. Optimise(s) = u
    BY <1>3, <2>2 DEF Optimise
  <2>4. /\ Linked(g) /\ DOMAIN g = DOMAIN h
        /\ \A i \in DOMAIN h : g[i].data = h[i].data /\ g[i].kids = h[i].kids
    BY <1>1, <1>3, <2>1, LengthenKeeps
  <2>5. /\ h[node].kids[0] \in DOMAIN h \ {TreeHead} /\ h[h[node].kids[0]].parent = node
        /\ h[node].kids[1] \in DOMAIN h \ {TreeHead} /\ h[h[node].kids[1]].parent = node
    BY <1>1, <2>0, <2>1, KidIs
  <2>6. h[node].kids[0] # node /\ h[node].kids[1] # node
    <3>1. PICK r : Ranks(h, r)
      BY <1>1 DEF Linked
    <3>2. \A i \in DOMAIN h \ {TreeHead} : r[h[i].parent] < r[i] /\ r[i] \in Nat
      BY <3>1 DEF Ranks
    <3> QED
      BY <2>5, <3>2
  <2>7. a \in AllPrefixes /\ b \in AllPrefixes
    BY <1>1, <2>5, NodeType DEF Linked
  <2>8. g = IF cplen = Plen(h[node]) THEN h ELSE [h EXCEPT ![node].prefix = part]
    BY DEF Lengthen
  <2>9. Len(part) = cplen
    <3> HIDE DEF a, b
    <3> DEFINE max == Shorter(a, b)
    <3>1. max <= Len(a) /\ max \in 0..Width /\ cplen \in 0..max
      BY <2>7, CommonLenIs
    <3>2. Len(a) \in Nat
      BY <2>7, PrefixType
    <3> HIDE DEF max, cplen
    <3>3. cplen \in 0..Len(a)
      BY <3>1, <3>2
    <3> QED
      BY <2>7, <3>3, Begin
  <2> HIDE DEF cplen, part, a, b
  <2>10. Plen(g[node]) = cplen
    BY <1>1, <2>8, <2>9 DEF Plen
  <2>11. g[h[node].kids[0]] = h[h[node].kids[0]] /\ g[h[node].kids[1]] = h[h[node].kids[1]]
    BY <1>1, <2>5, <2>6, <2>8
  <2>12. g[node].kids = h[node].kids /\ g[node].data = Virtual
    BY <1>1, <1>3, <2>4
  <2> HIDE DEF g
  <2>13. g[g[node].kids[0]].prefix = a /\ g[g[node].kids[1]].prefix = b
    BY <2>11, <2>12 DEF a, b
  <2>14. Lengthen(g, node) = g
    BY <2>10, <2>13 DEF Lengthen, cplen
  <2>15. {slot \in Slots : g[node].kids[slot] # Nil} = Slots
    BY <2>1, <2>12
  <2> HIDE DEF h, node
  <2>16. Optimise(u) = u
    BY <2>12, <2>14, <2>15 DEF Optimise
  <2> HIDE DEF u
  <2> QED
    BY <2>3, <2>16
<1> QED
  BY <1>2, <1>3

\* The third call is the last that does anything.
LEMMA RunEnds ==
    ASSUME NEW s, Loose(s), NEW w, IsRun(w, Calls, s)
    PROVE  Optimise(w[Calls]) = w[Calls]
<1>1. w[0] = s /\ w[1] = Optimise(w[0]) /\ w[2] = Optimise(w[1]) /\ w[3] = Optimise(w[2])
  <2>1. /\ 0 \in 0 .. Calls - 1 /\ 1 \in 0 .. Calls - 1 /\ 2 \in 0 .. Calls - 1
        /\ 0 + 1 = 1 /\ 1 + 1 = 2 /\ 2 + 1 = 3
    BY DEF Calls
  <2>2. \A k \in 0 .. Calls - 1 : w[k + 1] = Optimise(w[k])
    BY DEF IsRun
  <2>3. w[0 + 1] = Optimise(w[0]) /\ w[1 + 1] = Optimise(w[1]) /\ w[2 + 1] = Optimise(w[2])
    BY <2>1, <2>2
  <2> QED
    BY <2>1, <2>3 DEF IsRun
<1>2. Loose(w[1]) /\ Half(w[1])
  BY <1>1, OptimiseKeeps DEF OptimiseGoal
<1>3. Loose(w[2]) /\ BusyBut(w[2].heap, {})
  BY <1>1, <1>2, OptimiseKeeps DEF OptimiseGoal
<1>4. Optimise(w[3]) = w[3]
  BY <1>1, <1>3, FullEnds
<1> QED
  BY <1>4 DEF Calls

\* lpm_delete keeps the tree linked and without an idle node; in a sorted tree,
\* it removes the entry and nothing else changes.
LEMMA DeletedKeeps ==
    ASSUME NEW h, Linked(h), BusyBut(h, {}), NEW prefix \in AllPrefixes, prefix # << >>
    PROVE  LET g == Deleted(h, prefix)
           IN  /\ Linked(g) /\ BusyBut(g, {})
               /\ Shaped(h) => Shaped(g)
               /\ \A t : Sorted(h) /\ Stores(h, t) => Stores(g, Without(t, prefix))
<1> DEFINE node == LookupExact(h, prefix)
           g == Deleted(h, prefix)
           e == [h EXCEPT ![node].data = Virtual]
           s == Emptied(h, node)
           u(t) == Without(t, prefix)
<1>0. node \in DOMAIN h
  BY ExactStays
<1>t. \A t : /\ DOMAIN u(t) = DOMAIN t \ {prefix}
             /\ \A q \in DOMAIN t \ {prefix} : u(t)[q] = t[q]
  BY DEF Without
<1>x. Sorted(h) => /\ Plen(h[node]) = Len(prefix) => h[node].prefix = prefix
                   /\ \A c \in DOMAIN h : h[c].prefix = prefix => c = node
  BY ExactFinds
<1>d. IF IsEntry(h[node], prefix) THEN \E w : IsRun(w, Calls, s) /\ g = w[Calls].heap
      ELSE g = h
  BY DeletedIs
<1> HIDE DEF node, g, u
<1>1. CASE ~ IsEntry(h[node], prefix)
  <2>1. g = h
    BY <1>1, <1>d
  <2>2. ASSUME NEW t, Sorted(h), Stores(h, t)
        PROVE  Stores(h, u(t))
    <3>1. \A c \in DOMAIN h : Holds(h[c]) => h[c].prefix # prefix
      BY <1>1, <1>x, <2>2 DEF IsEntry, Holds
    <3> DEFINE y == u(t)
    <3>2. DOMAIN y = DOMAIN t \ {prefix} /\ \A q \in DOMAIN t \ {prefix} : y[q] = t[q]
      BY <1>t
    <3> HIDE DEF y
    <3>3. Stores(h, y)
      BY <2>2, <3>1, <3>2 DEF Stores
    <3> QED
      BY <3>3 DEF y
  <2> QED
    BY <2>1, <2>2 DEF g, u
<1>2. CASE IsEntry(h[node], prefix)
  <2>1. PICK w : IsRun(w, Calls, s) /\ g = w[Calls].heap
    BY <1>2, <1>d
  <2>2. h[node].prefix = prefix /\ node # TreeHead
    BY <1>2 DEF IsEntry, Linked, HeadInv
  <2>3. /\ Linked(e) /\ DOMAIN e = DOMAIN h
        /\ \A i \in DOMAIN h :
              /\ e[i].prefix = h[i].prefix /\ e[i].parent = h[i].parent
              /\ e[i].kids = h[i].kids
              /\ e[i].data = IF i = node THEN Virtual ELSE h[i].data
    BY <1>0, <2>2, SetData
  <2>4. s.heap = e /\ s.node = node
    BY DEF Emptied
  <2> HIDE DEF e, s
  <2>5. Loose(s)
    BY <1>0, <2>3, <2>4 DEF Loose, BusyBut
  <2>h. Shaped(h) => Shaped(s.heap)
    <3>1. Nested(h) => Nested(e)
      BY <2>3 DEF Nested, Linked, HangsInv
    <3>2. \A i \in DOMAIN h : IsPart(h[i].prefix, e[i].prefix)
      BY <2>3, NodeType DEF Linked, IsPart
    <3>3. TreeHead \in DOMAIN h
      BY DEF Linked, HeapType
    <3>4. Shrunk(h, e)
      BY <2>3, <3>2, <3>3 DEF Shrunk
    <3> QED
      BY <2>3, <2>4, <3>1, <3>4, ShrunkShaped DEF Shaped
  <2>6. ASSUME NEW t, Sorted(h), Stores(h, t)
        PROVE  Stores(s.heap, u(t))
    <3> DEFINE y == u(t)
    <3>0. DOMAIN y = DOMAIN t \ {prefix} /\ \A q \in DOMAIN t \ {prefix} : y[q] = t[q]
      BY <1>t
    <3> HIDE DEF y
    <3>2. ASSUME NEW i \in DOMAIN e, Holds(e[i])
          PROVE  e[i].prefix \in DOMAIN y /\ y[e[i].prefix] = e[i].data
      <4>1. i # node /\ Holds(h[i])
        BY <2>3, <3>2 DEF Holds
      <4>2. h[i].prefix # prefix
        BY <1>x, <2>3, <2>6, <4>1
      <4> QED
        BY <2>3, <2>6, <3>0, <4>1, <4>2 DEF Stores
    <3>3. ASSUME NEW q \in DOMAIN y
          PROVE  \E i \in DOMAIN e : Holds(e[i]) /\ e[i].prefix = q
      <4>1. q \in DOMAIN t /\ q # prefix
        BY <3>0
      <4>2. PICK i \in DOMAIN h : Holds(h[i]) /\ h[i].prefix = q
        BY <2>6, <4>1 DEF Stores
      <4> QED
        BY <2>2, <2>3, <4>1, <4>2 DEF Holds
    <3> QED
      BY <2>4, <3>2, <3>3 DEF Stores, y
  <2> DEFINE Fine(k) == /\ Loose(w[k])
                        /\ k >= 1 => Half(w[k])
                        /\ k >= 2 => BusyBut(w[k].heap, {})
                        /\ Shaped(h) => Shaped(w[k].heap)
                        /\ \A t : Sorted(h) /\ Stores(h, t) => Stores(w[k].heap, u(t))
             P == {k \in 0..Calls : Fine(k)}
  <2>7. Calls \in Nat /\ Calls >= 2
    BY DEF Calls
  <2>8. Fine(0)
    <3>1. w[0] = s
      BY <2>1 DEF IsRun
    <3> QED
      BY <2>5, <2>6, <2>h, <3>1
  <2>9. ASSUME NEW k \in 0 .. Calls - 1, Fine(k)
        PROVE  Fine(k + 1)
    <3>1. w[k + 1] = Optimise(w[k])
      BY <2>1 DEF IsRun
    <3>2. OptimiseGoal(w[k], w[k + 1])
      BY <2>9, <3>1, OptimiseKeeps
    <3>3. k + 1 >= 2 => k >= 1
      BY <2>7
    <3>4. Loose(w[k + 1]) /\ Half(w[k + 1])
      BY <3>2 DEF OptimiseGoal
    <3>5. k + 1 >= 2 => BusyBut(w[k + 1].heap, {})
      BY <2>9, <3>2, <3>3 DEF OptimiseGoal
    <3>6. /\ Shaped(h) => Shaped(w[k + 1].heap)
          /\ \A t : Sorted(h) /\ Stores(h, t) => Stores(w[k + 1].heap, u(t))
      BY <2>9, <3>2 DEF OptimiseGoal
    <3> QED
      BY <3>4, <3>5, <3>6
  <2> HIDE DEF Fine
  <2>10. 0 \in P
    BY <2>7, <2>8
  <2>11. \A k \in 0 .. Calls - 1 : k \in P => k + 1 \in P
    BY <2>7, <2>9
  <2> HIDE DEF P
  <2>12. Calls \in P
    <3>1. \A k \in 0..Calls : k \in P
      BY <2>7, <2>10, <2>11, UpTo
    <3> QED
      BY <2>7, <3>1
  <2>13. Fine(Calls)
    BY <2>12 DEF P
  <2> QED
    BY <2>1, <2>7, <2>13 DEF Fine, Loose, g, u
<1> QED
  BY <1>1, <1>2

-----------------------------------------------------------------------------
(***************************************************************************)
(* The invariant                                                           *)
(***************************************************************************)
\* The inductive invariant.  The slots matter to lookups only: the tree stays linked,
\* in shape and without idle nodes also when one has been misplaced.
LpmInv ==
    /\ Linked(heap) /\ BusyBut(heap, {}) /\ Shaped(heap)
    /\ skewed \in BOOLEAN
    /\ ~ skewed => ~ Misplaced(heap) /\ Stores(heap, table)

\* The tree of lpm_new.
LEMMA LpmInitially == LpmInit => LpmInv
<1> SUFFICES ASSUME LpmInit PROVE LpmInv
  OBVIOUS
<1> DEFINE n == Node(<< >>, NoData)
<1>0. NoData # Virtual
  BY DEF NoData, Virtual
<1>1. /\ n \in Cells({TreeHead}) /\ n.prefix = << >> /\ n.data = NoData
      /\ n.parent = Nil /\ \A s \in Slots : n.kids[s] = Nil
  BY NodeIs, EmptyPrefix
<1> HIDE DEF n
<1>2. DOMAIN heap = {TreeHead} /\ heap[TreeHead] = n /\ heap = [i \in {TreeHead} |-> heap[i]]
  <2>1. heap = With(<< >>, TreeHead, n)
    BY DEF LpmInit, n
  <2>2. DOMAIN << >> \cup {TreeHead} = {TreeHead}
    OBVIOUS
  <2> QED
    BY <2>1, <2>2 DEF With
<1>3. Nil # TreeHead
  BY DEF Nil, TreeHead
<1>4. HeapType(heap)
  BY <1>1, <1>2, <1>3, FS_Singleton DEF HeapType
<1>5. HeadInv(heap)
  BY <1>0, <1>1, <1>2 DEF HeadInv
<1>6. KidsInv(heap)
  BY <1>1, <1>2 DEF KidsInv
<1>7. HangsInv(heap)
  BY <1>2 DEF HangsInv
<1>8. \E r : Ranks(heap, r)
  <2>1. Ranks(heap, [i \in {TreeHead} |-> 0])
    BY <1>2 DEF Ranks
  <2> QED
    BY <2>1
<1>9. BusyBut(heap, {})
  BY <1>0, <1>1, <1>2 DEF BusyBut
<1>10. Shaped(heap)
  BY <1>1, <1>2 DEF Shaped, Nested, FirstBits
<1>11. ~ Misplaced(heap)
  BY <1>1, <1>2 DEF Misplaced
<1>12. Stores(heap, table)
  <2>1. DOMAIN table = {}
    BY DEF LpmInit
  <2> QED
    BY <1>1, <1>2, <2>1 DEF Stores, Holds
<1> QED
  BY <1>4, <1>5, <1>6, <1>7, <1>8, <1>9, <1>10, <1>11, <1>12 DEF LpmInv, Linked, LpmInit

\* Both operations keep the invariant.
LEMMA LpmSteps == LpmInv /\ [LpmNext]_lpmVars => LpmInv'
<1> SUFFICES ASSUME LpmInv, [LpmNext]_lpmVars PROVE LpmInv'
  OBVIOUS
<1>0. /\ Linked(heap) /\ BusyBut(heap, {}) /\ Shaped(heap)
      /\ ~ skewed => Sorted(heap) /\ Stores(heap, table)
  BY DEF LpmInv, Sorted, Shaped
<1>1. ASSUME NEW p \in Announced, NEW v \in Values, Insert(p[1], p[2], v)
      PROVE  LpmInv'
  <2> DEFINE addr == p[1]
             plen == p[2]
             g == Inserted(heap, addr, plen, v)
  <2>1. addr \in Addresses /\ plen \in 0..Width
    BY LpmAssumption
  <2>2. /\ heap' = g /\ table' = With(table, SubSeq(addr, 1, plen), v)
        /\ skewed' = (skewed \/ Misplaced(heap'))
    BY <1>1 DEF Insert
  <2> HIDE DEF addr, plen
  <2>3. /\ Linked(g) /\ BusyBut(g, {})
        /\ \A t : Sorted(heap) /\ Stores(heap, t) =>
              Nested(g) /\ Stores(g, With(t, SubSeq(addr, 1, plen), v))
    BY <1>0, <2>1, InsertedKeeps
  <2>s. Shaped(g)
    BY <1>0, <2>1, InsertedShaped
  <2> HIDE DEF g
  <2>4. ~ skewed' => ~ Misplaced(heap') /\ Stores(heap', table')
    BY <1>0, <2>2, <2>3
  <2>5. Linked(heap') /\ BusyBut(heap', {}) /\ Shaped(heap')
    BY <2>2, <2>3, <2>s
  <2>6. skewed' \in BOOLEAN
    BY <2>2
  <2> QED
    BY <2>4, <2>5, <2>6 DEF LpmInv
<1>2. ASSUME NEW prefix \in AllPrefixes, Delete(prefix)
      PROVE  LpmInv'
  <2> DEFINE g == Deleted(heap, prefix)
  <2>2. /\ heap' = g /\ table' = Without(table, prefix) /\ prefix # << >>
        /\ skewed' = (skewed \/ Misplaced(heap'))
    BY <1>2 DEF Delete
  <2>3. /\ Linked(g) /\ BusyBut(g, {})
        /\ Shaped(g)
        /\ \A t : Sorted(heap) /\ Stores(heap, t) => Stores(g, Without(t, prefix))
    BY <1>0, <2>2, DeletedKeeps
  <2> HIDE DEF g
  <2>4. ~ skewed' => ~ Misplaced(heap') /\ Stores(heap', table')
    BY <1>0, <2>2, <2>3
  <2>5. Linked(heap') /\ BusyBut(heap', {}) /\ Shaped(heap')
    BY <2>2, <2>3
  <2>6. skewed' \in BOOLEAN
    BY <2>2
  <2> QED
    BY <2>4, <2>5, <2>6 DEF LpmInv
<1>3. CASE UNCHANGED lpmVars
  BY <1>3 DEF LpmInv, lpmVars
<1> QED
  BY <1>1, <1>2, <1>3 DEF LpmNext

\* The invariant of the tree: it holds of every tree that insertions and deletions
\* of any prefixes, of any width and in any order, can make (lpm_insert, lpm_delete).
THEOREM LpmInvariant == LpmSpec => []LpmInv
BY LpmInitially, LpmSteps, PTL DEF LpmSpec

\* A node without an entry always has two children: deletions leave nothing behind
\* (lpm_delete, optimize_virtual).
THEOREM LpmNoIdleNode == LpmSpec => []NoIdleNode
<1>1. LpmInv => NoIdleNode
  BY DEF LpmInv, BusyBut, NoIdleNode
<1> QED
  BY <1>1, LpmInvariant, PTL

\* The way up is the way down, and no pointer leads to a node that was freed
\* (lpm_insert, merge_child, optimize_virtual_empty).
THEOREM LpmTreeIsLinked == LpmSpec => []TreeIsLinked
<1>1. LpmInv => TreeIsLinked
  <2> SUFFICES ASSUME LpmInv PROVE TreeIsLinked
    OBVIOUS
  <2>1. Linked(heap)
    BY DEF LpmInv
  <2>2. \A i \in DOMAIN heap, slot \in Slots : heap[i].kids[slot] # Nil =>
           heap[i].kids[slot] \in DOMAIN heap /\ heap[heap[i].kids[slot]].parent = i
    BY <2>1, KidIs
  <2> QED
    BY <2>1, <2>2 DEF TreeIsLinked, Linked, HeapType, HeadInv, HangsInv
<1> QED
  BY <1>1, LpmInvariant, PTL

\* The assertions of lpm.c hold of every such tree, for every announcement (207 and
\* 226 of lpm_insert, 270 of optimize_virtual_plen), also after a node was misplaced.
THEOREM LpmAssertionsHold == LpmSpec => []AssertionsHold
<1>1. ASSUME LpmInv, NEW p \in Announced
      PROVE  InsertAsserts(p[1], p[2])
  <2> DEFINE addr == p[1]
             plen == p[2]
             prefix == SubSeq(addr, 1, plen)
             save == LookupExact(heap, prefix)
             slot == Slot(addr, Plen(heap[save]))
             c == heap[save].kids[slot]
             cplen == CommonLen(heap[c].prefix, prefix, Shorter(heap[c].prefix, prefix))
  <2>1. addr \in Addresses /\ plen \in 0..Width
    BY LpmAssumption
  <2>2. Linked(heap) /\ Shaped(heap) /\ slot \in Slots
    BY <1>1, SlotType DEF LpmInv
  <2> HIDE DEF addr, plen
  <2>3. prefix \in AllPrefixes
    BY <2>1, AnnouncedPrefix
  <2>4. /\ save \in DOMAIN heap /\ IsPart(heap[save].prefix, prefix)
        /\ Plen(heap[save]) = plen => heap[save].prefix = prefix
        /\ Plen(heap[save]) # plen => Len(prefix) >= 1
        /\ Plen(heap[save]) # plen /\ save = TreeHead => prefix[1] = slot
    BY <2>1, <2>2, Entrance
  <2>i. InsertAsserts(addr, plen) <=>
           IF Plen(heap[save]) = plen
           THEN IsEntry(heap[save], prefix) \/ heap[save].data = Virtual
           ELSE c # Nil => cplen > 0
    BY DEF InsertAsserts
  <2> HIDE DEF prefix, save, slot
  <2>5. Plen(heap[save]) = plen => IsEntry(heap[save], prefix) \/ heap[save].data = Virtual
    BY <2>4 DEF IsEntry
  <2>6. ASSUME Plen(heap[save]) # plen, c # Nil
        PROVE  cplen > 0
    <3>1. cplen >= 1
      BY <2>2, <2>3, <2>4, <2>6, Shares
    <3>2. c \in DOMAIN heap
      BY <2>2, <2>4, <2>6, KidIs
    <3> DEFINE child == heap[c].prefix
    <3>3. child \in AllPrefixes
      BY <2>2, <3>2, NodeType DEF Linked
    <3> HIDE DEF c, child
    <3>4. CommonLen(child, prefix, Shorter(child, prefix)) \in 0 .. Shorter(child, prefix)
      BY <2>3, <3>3, CommonLenIs
    <3>5. cplen \in 0 .. Shorter(child, prefix)
      BY <3>4 DEF child
    <3> HIDE DEF cplen
    <3> QED
      BY <3>1, <3>5
  <2> HIDE DEF c, cplen
  <2> QED
    BY <2>5, <2>6, <2>i DEF addr, plen
<1>2. ASSUME LpmInv, NEW i \in DOMAIN heap
      PROVE  LengthenAsserts(i)
  <2> SUFFICES ASSUME \A slot \in Slots : heap[i].kids[slot] # Nil
               PROVE  LET a == heap[heap[i].kids[0]].prefix
                          b == heap[heap[i].kids[1]].prefix
                      IN  CommonLen(a, b, Shorter(a, b)) >= Plen(heap[i])
    BY DEF LengthenAsserts
  <2> DEFINE a == heap[heap[i].kids[0]].prefix
             b == heap[heap[i].kids[1]].prefix
  <2>1. Linked(heap) /\ Nested(heap) /\ 0 \in Slots /\ 1 \in Slots
    BY <1>2 DEF LpmInv, Shaped, Slots
  <2>2. /\ heap[i].kids[0] \in DOMAIN heap \ {TreeHead} /\ heap[heap[i].kids[0]].parent = i
        /\ heap[i].kids[1] \in DOMAIN heap \ {TreeHead} /\ heap[heap[i].kids[1]].parent = i
    BY <2>1, KidIs
  <2>3. /\ a \in AllPrefixes /\ b \in AllPrefixes /\ heap[i].prefix \in AllPrefixes
        /\ IsPart(heap[i].prefix, a) /\ IsPart(heap[i].prefix, b)
    BY <2>1, <2>2, NodeType DEF Linked, Nested
  <2> HIDE DEF a, b
  <2>4. Len(heap[i].prefix) <= CommonLen(a, b, Shorter(a, b))
    BY <2>3, CommonPart
  <2>5. CommonLen(a, b, Shorter(a, b)) \in 0 .. Shorter(a, b) /\ Len(heap[i].prefix) \in Nat
    BY <2>3, CommonLenIs, PrefixType
  <2>6. CommonLen(a, b, Shorter(a, b)) >= Plen(heap[i])
    BY <2>4, <2>5 DEF Plen
  <2> QED
    BY <2>6 DEF a, b
<1>3. LpmInv => AssertionsHold
  BY <1>1, <1>2 DEF AssertionsHold
<1> QED
  BY <1>3, LpmInvariant, PTL

\* Until an insertion has hung a node in the wrong slot, the lookup of every address
\* finds the value of the longest prefix stored (lpm_lookup, __lpm_lookup).
THEOREM LpmLongestUnlessSkewed == LpmSpec => []LongestUnlessSkewed
<1>1. LpmInv => LongestUnlessSkewed
  BY LookupCorrect DEF LpmInv, Sorted, Shaped, LongestUnlessSkewed, LookupIsLongest
<1> QED
  BY <1>1, LpmInvariant, PTL

\* Where the walks of lookups, insertions and deletions come to, and the calls of
\* optimize_virtual of a deletion.
LoopsEnd ==
    /\ \A addr, exact : AtEnd(heap, addr, exact, Descend(heap, addr, exact))
    /\ \A prefix \in AllPrefixes \ {<< >>} :
          LET node == LookupExact(heap, prefix)
          IN  IsEntry(heap[node], prefix) =>
                 \E w : /\ IsRun(w, Calls, Emptied(heap, node))
                        /\ Deleted(heap, prefix) = w[Calls].heap
                        /\ Optimise(w[Calls]) = w[Calls]

\* The loops of __lpm_lookup and __lpm_lookup_exact and the recursion of
\* optimize_virtual end, also after a node was misplaced, and after no more rounds
\* than the model gives them: what it says of them is where they end.
THEOREM LpmLoopsEnd == LpmSpec => []LoopsEnd
<1>1. ASSUME LpmInv, NEW addr, NEW exact
      PROVE  AtEnd(heap, addr, exact, Descend(heap, addr, exact))
  BY <1>1, DescendEnds DEF LpmInv
<1>2. ASSUME LpmInv, NEW prefix \in AllPrefixes \ {<< >>},
             IsEntry(heap[LookupExact(heap, prefix)], prefix)
      PROVE  \E w : /\ IsRun(w, Calls, Emptied(heap, LookupExact(heap, prefix)))
                    /\ Deleted(heap, prefix) = w[Calls].heap
                    /\ Optimise(w[Calls]) = w[Calls]
  <2> DEFINE node == LookupExact(heap, prefix)
             s == Emptied(heap, node)
  <2>1. PICK w : IsRun(w, Calls, s) /\ Deleted(heap, prefix) = w[Calls].heap
    BY <1>2, DeletedIs
  <2>2. node \in DOMAIN heap /\ heap[node].prefix = prefix
    BY <1>2, ExactStays DEF LpmInv, IsEntry
  <2> HIDE DEF node
  <2>3. node # TreeHead
    BY <1>2, <2>2 DEF LpmInv, Linked, HeadInv
  <2>4. Loose(s)
    BY <1>2, <2>2, <2>3, EmptiedLoose DEF LpmInv
  <2> HIDE DEF s
  <2>5. Optimise(w[Calls]) = w[Calls]
    BY <2>1, <2>4, RunEnds
  <2> QED
    BY <2>1, <2>5 DEF s, node
<1>3. LpmInv => LoopsEnd
  BY <1>1, <1>2 DEF LoopsEnd
<1> QED
  BY <1>3, LpmInvariant, PTL
=============================================================================
