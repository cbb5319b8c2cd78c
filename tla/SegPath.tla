------------------------------ MODULE SegPath ------------------------------
(***************************************************************************)
(* Path computation of sr-ctrl: build_segpath (graph.c) turns a request    *)
(* into a list of SRv6 segments.  It prunes a clone of the graph to the    *)
(* links with enough bandwidth, runs graph_dijkstra on the clone for each  *)
(* leg of the request (source, way points, destination), takes the first   *)
(* of the equal-cost paths, and encodes it with graph_minseg as node and   *)
(* adjacency segments, which the routers interpret on the full graph with  *)
(* the IGP's metric.                                                       *)
(*                                                                         *)
(* A graph is a set of directed edges; the position of an edge in the      *)
(* code's list is its id, as is the position of a node.  Lists of          *)
(* predecessors keep the code's order, which decides the path taken.       *)
(* Reference counts, the clone's memory and the cache of the full graph's  *)
(* shortest paths (a pure function of the graph) are left out.             *)
(***************************************************************************)
EXTENDS Integers, Sequences, FiniteSets, SequencesExt

CONSTANTS
    Nodes,      \* node ids, in the order of the graph's list
    Graphs,     \* the graphs considered: sets of edges
    Requests,   \* the requests considered
    Infinite    \* UINT32_MAX: the metric of a link that is down, and infinity

ASSUME GraphAssumption ==
    /\ Nodes \subseteq Nat /\ IsFiniteSet(Nodes)
    /\ Infinite \in Nat \ {0}
    /\ \A gr \in Graphs : \A e \in gr :
          /\ e.local \in Nodes /\ e.remote \in Nodes
          /\ e.metric \in 1..Infinite /\ e.delay \in 0..Infinite /\ e.bw \in Nat
          /\ e.id \in Nat /\ \A f \in gr : e.id = f.id => e = f

ASSUME RequestAssumption ==
    \A r \in Requests :
        /\ r.src \in Nodes /\ r.dst \in Nodes /\ r.via \in Seq(Nodes)
        /\ r.bw \in Nat /\ r.byDelay \in BOOLEAN

VARIABLES
    g,      \* the active graph, held under the read lock for the whole call
    req,    \* the request: pathspec and flow
    gc,     \* the clone searched, pruned when the flow asks for bandwidth
    phase,  \* where build_segpath is
    leg,    \* index of the target looked for, in Targets
    d,      \* the running search: Q, dist and prev of graph_dijkstra
    path,   \* rev_path: the nodes of the chosen path of this leg
    hop,    \* graph_minseg's position in path
    root,   \* graph_minseg's node_r
    segs,   \* the segments so far
    fpath   \* the nodes of all legs, in the order they are appended

vars == <<g, req, gc, phase, leg, d, path, hop, root, segs, fpath>>

-----------------------------------------------------------------------------
(* Edges and shortest paths.                                               *)

Parallel(gr, a, b) ==
    {e \in gr : e.local = a /\ e.remote = b /\ e.metric < Infinite}

Linked(gr, a, b) == Parallel(gr, a, b) # {}

MinEdge(gr, a, b) ==
    CHOOSE e \in Parallel(gr, a, b) : \A f \in Parallel(gr, a, b) :
        e.metric < f.metric \/ (e.metric = f.metric /\ e.id <= f.id)

\* delay_min_ops replaces the metric by the delay of the link.
Cost(e, byDelay) == IF byDelay THEN e.delay ELSE e.metric

\* What the routers and the requests are routed by: metric, or delay.
Measures == {FALSE} \cup {r.byDelay : r \in Requests}

\* No sum of costs of graph_dijkstra leaves its 32 bits: c is a bound on the
\* cost of a link with which no path reaches UINT32_MAX.
Bounds(c) ==
    /\ Cardinality(Nodes) * c < Infinite
    /\ \A gr \in Graphs : \A e \in gr : \A b \in Measures :
          e.metric < Infinite => Cost(e, b) <= c

\* Every link costs something.  A metric is never 0, but a delay may be.
PositiveCosts ==
    \A gr \in Graphs : \A e \in gr : \A b \in Measures : Cost(e, b) > 0

Start(src) ==
    [Q    |-> Nodes,
     dist |-> [n \in Nodes |-> IF n = src THEN 0 ELSE Infinite],
     prev |-> [n \in Nodes |-> <<>>]]

\* The nodes of Q a search can still extract.
Open(st) == {n \in st.Q : st.dist[n] < Infinite}

Nearest(st) ==
    CHOOSE n \in Open(st) : \A m \in Open(st) :
        st.dist[n] < st.dist[m] \/ (st.dist[n] = st.dist[m] /\ n <= m)

\* Mutant: a shorter path does not flush the predecessors of a longer one.
ExtractNoFlush(gr, byDelay, st) ==
    LET u == Nearest(st)
        Q == st.Q \ {u}
        Alt(v) == (st.dist[u] + Cost(MinEdge(gr, u, v), byDelay)) % (Infinite + 1)
        Reached(v) == v \in Q /\ Linked(gr, u, v) /\ Alt(v) <= st.dist[v]
    IN  [Q    |-> Q,
         dist |-> [v \in Nodes |-> IF Reached(v) THEN Alt(v) ELSE st.dist[v]],
         prev |-> [v \in Nodes |->
                     IF Reached(v) THEN Append(st.prev[v], u) ELSE st.prev[v]]]

\* One iteration of the loop: extract the nearest node u, relax its edges.
\* The sum is one of uint32.
Extract(gr, byDelay, st) ==
    LET u == Nearest(st)
        Q == st.Q \ {u}
        Alt(v) == (st.dist[u] + Cost(MinEdge(gr, u, v), byDelay)) % (Infinite + 1)
        Shorter(v) == v \in Q /\ Linked(gr, u, v) /\ Alt(v) < st.dist[v]
        Equal(v)   == v \in Q /\ Linked(gr, u, v) /\ Alt(v) = st.dist[v]
    IN  [Q    |-> Q,
         dist |-> [v \in Nodes |-> IF Shorter(v) THEN Alt(v) ELSE st.dist[v]],
         prev |-> [v \in Nodes |->
                     CASE Shorter(v) -> <<u>>
                       [] Equal(v)   -> Append(st.prev[v], u)
                       [] OTHER      -> st.prev[v]]]

\* graph_dijkstra as a function: the full graph's cached results, by metric.
Dijkstra(gr, src) ==
    LET run[k \in 0..Cardinality(Nodes)] ==
            IF k = 0 THEN Start(src)
            ELSE LET st == run[k - 1]
                 IN  IF Open(st) = {} THEN st ELSE Extract(gr, FALSE, st)
    IN  run[Cardinality(Nodes)]

\* The first path of compute_paths, from src to dst: the first predecessor
\* of each node, read backwards.
FirstPath(st, src, dst) ==
    LET N == Cardinality(Nodes)
        back[k \in 0..N] ==
            IF k = 0 THEN dst
            ELSE IF back[k - 1] = src THEN src ELSE Head(st.prev[back[k - 1]])
        n == CHOOSE k \in 0..N : back[k] = src /\ \A j \in 0..(k - 1) : back[j] # src
    IN  [i \in 1..(n + 1) |-> back[n + 1 - i]]

-----------------------------------------------------------------------------
(* Segments.                                                               *)

NodeSegment(n) == [adjacency |-> FALSE, node |-> n]
AdjSegment(e)  == [adjacency |-> TRUE, edge |-> e]

\* Mutant: a tie among the paths from r is not noticed.
MinsegHopNoTie(i, ii, r) ==
    LET fromR == Dijkstra(g, r).prev[ii]
        fromI == Dijkstra(g, i).prev[ii]
    IN  IF Contains(fromR, i) THEN [segs |-> <<>>, root |-> r]
        ELSE IF Len(fromI) = 1 THEN [segs |-> <<NodeSegment(i)>>, root |-> i]
        ELSE [segs |-> <<NodeSegment(i), AdjSegment(MinEdge(g, i, ii))>>,
              root |-> ii]

\* graph_minseg for the hop from i to ii, reached from r: the segments it
\* adds and the node the next hop is reached from.
MinsegHop(i, ii, r) ==
    LET fromR == Dijkstra(g, r).prev[ii]
        fromI == Dijkstra(g, i).prev[ii]
        None  == [segs |-> <<>>, root |-> r]
        Goto  == [segs |-> <<NodeSegment(i)>>, root |-> i]
        Break == [segs |-> <<NodeSegment(i), AdjSegment(MinEdge(g, i, ii))>>,
                  root |-> ii]
    IN  IF ~Contains(fromR, i) THEN IF Len(fromI) = 1 THEN Goto ELSE Break
        ELSE IF Len(fromR) <= 1 THEN None
        ELSE IF Len(fromI) > 1 THEN Break ELSE Goto

\* build_segpath adds the target of the leg, unless the last segment is the
\* adjacency that enters it.
AddTarget(list, n) ==
    IF /\ list # <<>>
       /\ Last(list).adjacency
       /\ Last(list).edge.remote = n
    THEN list
    ELSE Append(list, NodeSegment(n))

-----------------------------------------------------------------------------
(* build_segpath.                                                          *)

Targets == req.via \o <<req.dst>>

LegSource == IF leg = 1 THEN req.src ELSE Targets[leg - 1]

Init ==
    /\ g \in Graphs
    /\ req \in Requests
    /\ gc = {}
    /\ phase = "clone"
    /\ leg = 1
    /\ d = Start(req.src)
    /\ path = <<>> /\ hop = 1 /\ root = req.src
    /\ segs = <<>> /\ fpath = <<>>

\* Mutant: the clone is searched unpruned.
PruneNothing(gr) == gr

\* Mutant: a link with exactly the bandwidth of the flow is cut.
PruneEqual(gr) == IF req.bw = 0 THEN gr ELSE {e \in gr : e.bw > req.bw}

\* pre_prune on the clone: links with less bandwidth than the flow are cut.
Prune(gr) == IF req.bw = 0 THEN gr ELSE {e \in gr : e.bw >= req.bw}

Clone ==
    /\ phase = "clone"
    /\ gc' = Prune(g)
    /\ phase' = "search"
    /\ UNCHANGED <<g, req, leg, d, path, hop, root, segs, fpath>>

Search ==
    /\ phase = "search"
    /\ Open(d) # {}
    /\ d' = Extract(gc, req.byDelay, d)
    /\ UNCHANGED <<g, req, gc, phase, leg, path, hop, root, segs, fpath>>

\* The target was extracted: its first path is encoded next.
ChoosePath ==
    /\ phase = "search"
    /\ Open(d) = {}
    /\ Targets[leg] \notin d.Q
    /\ path' = FirstPath(d, LegSource, Targets[leg])
    /\ hop' = 1
    /\ root' = LegSource
    /\ phase' = "minseg"
    /\ UNCHANGED <<g, req, gc, leg, d, segs, fpath>>

\* out_error: no path to the target, the segments of earlier legs are freed.
NoPath ==
    /\ phase = "search"
    /\ Open(d) = {}
    /\ Targets[leg] \in d.Q
    /\ segs' = <<>> /\ fpath' = <<>>
    /\ phase' = "refused"
    /\ UNCHANGED <<g, req, gc, leg, d, path, hop, root>>

Hop ==
    /\ phase = "minseg"
    /\ hop < Len(path)
    /\ LET h == MinsegHop(path[hop], path[hop + 1], root)
       IN  segs' = segs \o h.segs /\ root' = h.root
    /\ hop' = hop + 1
    /\ UNCHANGED <<g, req, gc, phase, leg, d, path, fpath>>

LegDone ==
    /\ phase = "minseg"
    /\ hop = Len(path)
    /\ fpath' = fpath \o path
    /\ segs' = AddTarget(segs, Targets[leg])
    /\ IF leg < Len(Targets)
       THEN /\ leg' = leg + 1 /\ d' = Start(Targets[leg]) /\ phase' = "search"
       ELSE /\ phase' = "done" /\ UNCHANGED <<leg, d>>
    /\ UNCHANGED <<g, req, gc, path, hop, root>>

Next == Clone \/ Search \/ ChoosePath \/ NoPath \/ Hop \/ LegDone

Spec == Init /\ [][Next]_vars

-----------------------------------------------------------------------------
(* What the routers make of the segments, and reference definitions.       *)

\* Every shortest path of the full graph from src to dst.
ShortestPaths(gr, src, dst) ==
    LET prev == Dijkstra(gr, src).prev
        to[v \in Nodes] ==
            IF v = src THEN {<<src>>}
            ELSE UNION {{Append(p, v) : p \in to[u]} : u \in ToSet(prev[v])}
    IN  to[dst]

\* Where a packet that has walked w may go on one segment: to a node along any
\* shortest path, or over a link.
Follow(gr, w, seg) ==
    IF seg.adjacency
    THEN IF Last(w) = seg.edge.local THEN {Append(w, seg.edge.remote)} ELSE {}
    ELSE {w \o Tail(p) : p \in ShortestPaths(gr, Last(w), seg.node)}

\* The ways a packet may take, hop by hop, on the list s from src.
Walks(gr, src, s) ==
    LET walks[k \in 0..Len(s)] ==
            IF k = 0 THEN {<<src>>}
            ELSE UNION {Follow(gr, w, s[k]) : w \in walks[k - 1]}
    IN  walks[Len(s)]

Extend(w, n) == IF Last(w) = n THEN w ELSE Append(w, n)

\* The nodes of a list, from src on, each named once in a row.
Way(src, list) ==
    LET way[k \in 0..Len(list)] ==
            IF k = 0 THEN <<src>> ELSE Extend(way[k - 1], list[k])
    IN  way[Len(list)]

\* The computed path: fpath names each way point twice, as the end of a leg
\* and as the start of the next.
Computed == Way(req.src, fpath)

\* Bellman's equations, without a queue: the lengths of the shortest walks
\* with one edge more than those whose lengths are old.
Longer(gr, byDelay, old) ==
    [v \in Nodes |-> Min({old[v]} \cup
        {old[u] + Cost(MinEdge(gr, u, v), byDelay) :
            u \in {n \in Nodes : Linked(gr, n, v)}})]

\* The lengths of the shortest walks from src with at most k edges.
Lengths(gr, src, byDelay) ==
    LET walk[k \in 0..Cardinality(Nodes)] ==
            IF k = 0 THEN Start(src).dist ELSE Longer(gr, byDelay, walk[k - 1])
    IN  walk

Distance(gr, src, byDelay) == Lengths(gr, src, byDelay)[Cardinality(Nodes)]

-----------------------------------------------------------------------------
(* Properties.                                                             *)

(* A node that left the queue has its final distance and all of its         *)
(* equal-cost predecessors: graph_minseg decides on the number of           *)
(* predecessors, so one too many or too few is a wrong segment list         *)
(* (graph_dijkstra).                                                        *)
SearchIsExact ==
    phase = "search" =>
        LET ref == Distance(gc, LegSource, req.byDelay)
        IN  \A v \in Nodes \ d.Q :
              /\ d.dist[v] = ref[v]
              /\ v # LegSource =>
                   ToSet(d.prev[v]) =
                     {u \in Nodes : /\ Linked(gc, u, v)
                                    /\ ref[v] = ref[u]
                                         + Cost(MinEdge(gc, u, v), req.byDelay)}

\* A link from a to b that the IGP does not use between these two and that only
\* one other node leads to: graph_minseg counts the predecessors without
\* looking whether the one found is the start of the link.
Stray(gr, a, b) ==
    LET prev == Dijkstra(gr, a).prev[b]
    IN  Len(prev) = 1 /\ prev # <<a>>

Strays(gr, w) == \E k \in 1..(Len(w) - 1) : Stray(gr, w[k], w[k + 1])

(* The segments pin the computed path: whatever equal-cost choices the       *)
(* routers make, a packet visits exactly the nodes that were computed, even *)
(* when the path was computed on a pruned graph or by delay and the          *)
(* routers follow the metric on the full one.  The paths with a link that   *)
(* strays are excepted (graph_minseg, build_segpath).                       *)
PathIsPinned ==
    phase = "done" =>
        \/ Walks(g, req.src, segs) = {Computed}
        \/ Strays(g, Computed) /\ (req.bw > 0 \/ req.byDelay)

(* A flow that is granted a bandwidth goes over links that have it, wherever *)
(* the path is pinned and the links of a bundle do not differ: segments and *)
(* edge path are taken from the full graph, where the lowest metric decides *)
(* (pre_prune, prune_bw, insert_adj_segment).                               *)
GrantedBandwidth ==
    phase = "done" /\ ~Strays(g, Computed) =>
        \A w \in Walks(g, req.src, segs) : \A k \in 1..(Len(w) - 1) :
            \/ MinEdge(g, w[k], w[k + 1]).bw >= req.bw
            \/ \E e, f \in Parallel(g, w[k], w[k + 1]) : e.bw # f.bw

(* A request is refused only when one of its legs has no path with the       *)
(* requested bandwidth, and never granted then (out_error).                 *)
RefusedIffCut ==
    LET Cut(k) == LET from == IF k = 1 THEN req.src ELSE Targets[k - 1]
                      wide == {e \in g : e.bw >= req.bw}
                  IN  Distance(wide, from, req.byDelay)[Targets[k]] >= Infinite
    IN  /\ phase = "refused" => Cut(leg)
        /\ phase = "done" => \A k \in 1..Len(Targets) : ~Cut(k)
=============================================================================
