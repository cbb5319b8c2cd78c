---------------------------- MODULE SegPathProofs ----------------------------
(***************************************************************************)
(* Proofs about the path computation of sr-ctrl, for any graphs and any    *)
(* requests whose costs are small enough that no sum of graph_dijkstra     *)
(* leaves its 32 bits (NoWrap).                                            *)
(*                                                                         *)
(* The argument compares the running search with Bellman's equations.  A   *)
(* node that was extracted is at least as near as one that was not, and    *)
(* its links have been relaxed (OrderInv, RelaxedInv): no walk of any      *)
(* length to it is shorter (lemma NoWalkIsShorter).  After n extractions   *)
(* the distances are at least those of the walks with n edges (UpperInv),  *)
(* hence exact.  The predecessors are those extracted nodes that attain    *)
(* the distance (PrevInv).                                                 *)
(***************************************************************************)
EXTENDS SegPath, FiniteSetTheorems, SequenceTheorems, WellFoundedInduction, TLAPS

N == Cardinality(Nodes)

NoWrap == \E c \in Nat : Bounds(c)

MaxCost == CHOOSE c \in Nat : Bounds(c)

LinkCost(gr, b, u, v) == Cost(MinEdge(gr, u, v), b)

-----------------------------------------------------------------------------
\* The search st of the graph gr from src, of costs b.
Extracted(st) == Nodes \ st.Q

SearchType(st) ==
    /\ st.Q \in SUBSET Nodes
    /\ st.dist \in [Nodes -> 0..Infinite]
    /\ st.prev \in [Nodes -> Seq(Nodes)]

\* Extracted nodes are reached, and no farther than any other.
OrderInv(st) ==
    \A u \in Extracted(st) :
        /\ st.dist[u] < Infinite
        /\ \A v \in st.Q : st.dist[u] <= st.dist[v]

\* A path has at most as many links as nodes were extracted.
SmallInv(st) ==
    \A v \in Nodes : st.dist[v] < Infinite =>
        st.dist[v] <= Cardinality(Extracted(st)) * MaxCost

RelaxedInv(gr, b, st) ==
    \A u \in Extracted(st), v \in Nodes :
        Linked(gr, u, v) => st.dist[v] <= st.dist[u] + LinkCost(gr, b, u, v)

UpperInv(gr, src, b, st) ==
    \A k \in Cardinality(Extracted(st)) .. N : \A v \in Nodes :
        Lengths(gr, src, b)[k][v] <= st.dist[v]

\* The extracted nodes that attain the distance of v.
Attaining(gr, b, st, v) ==
    {u \in Extracted(st) : /\ Linked(gr, u, v)
                           /\ st.dist[v] = st.dist[u] + LinkCost(gr, b, u, v)}

PrevInv(gr, src, b, st) ==
    PositiveCosts =>
        /\ st.prev[src] = << >>
        /\ \A v \in Nodes \ {src} : st.dist[v] < Infinite =>
              st.prev[v] # << >> /\ ToSet(st.prev[v]) = Attaining(gr, b, st, v)

Searching(gr, src, b, st) ==
    /\ SearchType(st)
    /\ st.dist[src] = 0
    /\ OrderInv(st)
    /\ SmallInv(st)
    /\ RelaxedInv(gr, b, st)
    /\ UpperInv(gr, src, b, st)
    /\ PrevInv(gr, src, b, st)

-----------------------------------------------------------------------------
Phases == {"clone", "search", "minseg", "refused", "done"}

Ordinary ==
    /\ g \in Graphs /\ req \in Requests
    /\ phase \in Phases
    /\ leg \in 1..Len(Targets)

\* The k-th leg starts where the one before it ends.
Source(k) == IF k = 1 THEN req.src ELSE Targets[k - 1]

NoPathFor(k) ==
    Distance({e \in g : e.bw >= req.bw}, Source(k), req.byDelay)[Targets[k]]
        >= Infinite

CloneInv ==
    /\ phase = "clone" => leg = 1 /\ d = Start(req.src)
    /\ phase # "clone" => gc = Prune(g)

SearchInv == phase = "search" => Searching(gc, LegSource, req.byDelay, d)

\* What is known of the legs.
LegsInv ==
    /\ \A k \in 1..(leg - 1) : ~ NoPathFor(k)
    /\ phase \in {"minseg", "done"} => ~ NoPathFor(leg)
    /\ phase = "refused" => NoPathFor(leg)
    /\ phase = "done" => leg = Len(Targets)

IInv ==
    /\ Ordinary
    /\ CloneInv
    /\ SearchInv
    /\ LegsInv

-----------------------------------------------------------------------------
(***************************************************************************)
(* Numbers and sequences                                                   *)
(***************************************************************************)
\* A nonempty set of naturals has a least element.
LEMMA LeastExists ==
    ASSUME NEW S \in SUBSET Nat, S # {}
    PROVE  \E m \in S : \A y \in S : m <= y
<1> DEFINE Less == {s \in Nat \X Nat : s[1] < s[2]}
<1>1. IsWellFoundedOn(Less, Nat)
  BY NatLessThanWellFounded DEF OpToRel
<1>2. \A m, n \in Nat : m < n => <<m, n>> \in Less
  OBVIOUS
<1> HIDE DEF Less
<1>3. PICK m \in S : \A y \in S : ~ (<<y, m>> \in Less)
  BY <1>1, WFMin, Zenon
<1>4. \A y \in S : m <= y
  <2> SUFFICES ASSUME NEW y \in S, ~ (m <= y) PROVE FALSE
    OBVIOUS
  <2>1. m \in Nat /\ y \in Nat /\ y < m
    OBVIOUS
  <2>2. <<y, m>> \in Less
    BY <1>2, <2>1
  <2> QED
    BY <1>3, <2>2
<1> QED
  BY <1>4

\* What holds for 0, and for k + 1 whenever it holds for k, holds up to n; P is
\* the set of numbers it holds for.
LEMMA UpTo ==
    ASSUME NEW n \in Nat, NEW P, 0 \in P,
           \A k \in 0 .. n - 1 : k \in P => k + 1 \in P
    PROVE  \A k \in 0 .. n : k \in P
<1> DEFINE D == {k \in 0 .. n : k \notin P}
<1> SUFFICES ASSUME D # {} PROVE FALSE
  OBVIOUS
<1>0. D \in SUBSET Nat
  OBVIOUS
<1>1. PICK m \in D : \A y \in D : m <= y
  <2> HIDE DEF D
  <2> QED
    BY <1>0, LeastExists, Zenon
<1>2. m \in 1 .. n /\ m \notin P
  BY <1>1
<1>3. m - 1 \in P
  <2>1. m - 1 \in 0 .. n /\ ~ (m <= m - 1)
    BY <1>2
  <2> QED
    BY <1>1, <2>1
<1>4. m - 1 \in 0 .. n - 1 /\ (m - 1) + 1 = m
  BY <1>2
<1> QED
  BY <1>2, <1>3, <1>4

LEMMA LeastOf ==
    ASSUME NEW S \in SUBSET Nat, S # {}
    PROVE  Min(S) \in S /\ \A y \in S : Min(S) <= y
BY LeastExists DEF Min

LEMMA Elements ==
    ASSUME NEW S, NEW s \in Seq(S), NEW x \in S
    PROVE  /\ ToSet(<<x>>) = {x} /\ <<x>> \in Seq(S)
           /\ ToSet(Append(s, x)) = ToSet(s) \cup {x} /\ Append(s, x) \in Seq(S)
           /\ ToSet(<< >>) = {} /\ << >> \in Seq(S)
<1>1. ToSet(Append(s, x)) = ToSet(s) \cup {x}
  <2>1. /\ DOMAIN Append(s, x) = 1 .. Len(s) + 1 /\ DOMAIN s = 1 .. Len(s)
        /\ Len(s) \in Nat
    OBVIOUS
  <2>2. \A i \in 1 .. Len(s) : Append(s, x)[i] = s[i]
    OBVIOUS
  <2>3. Append(s, x)[Len(s) + 1] = x
    OBVIOUS
  <2>4. \A i \in 1 .. Len(s) + 1 : i \in 1 .. Len(s) \/ i = Len(s) + 1
    BY <2>1
  <2>5. \A i \in 1 .. Len(s) : i \in 1 .. Len(s) + 1
    BY <2>1
  <2>6. Len(s) + 1 \in 1 .. Len(s) + 1
    BY <2>1
  <2> QED
    BY <2>1, <2>2, <2>3, <2>4, <2>5, <2>6 DEF ToSet
<1>2. ToSet(<<x>>) = {x}
  <2>1. DOMAIN <<x>> = {1} /\ <<x>>[1] = x
    OBVIOUS
  <2> QED
    BY <2>1 DEF ToSet
<1>3. ToSet(<< >>) = {}
  BY DEF ToSet
<1> QED
  BY <1>1, <1>2, <1>3

-----------------------------------------------------------------------------
(***************************************************************************)
(* Graphs and the costs of their links                                     *)
(***************************************************************************)
\* A clone: some of the edges of a graph.
Clones == {gr \in UNION {SUBSET full : full \in Graphs} : TRUE}

LEMMA NodesAreFinite ==
    /\ Nodes \in SUBSET Nat /\ N \in Nat /\ Infinite \in Nat /\ Infinite > 0
    /\ \A S \in SUBSET Nodes :
          Cardinality(S) \in 0 .. N /\ (Cardinality(S) = N => S = Nodes)
<1>1. IsFiniteSet(Nodes)
  BY GraphAssumption
<1>2. ASSUME NEW S \in SUBSET Nodes
      PROVE  Cardinality(S) \in 0 .. N /\ (Cardinality(S) = N => S = Nodes)
  <2>1. /\ IsFiniteSet(S) /\ Cardinality(S) <= N
        /\ Cardinality(Nodes) = Cardinality(S) => Nodes = S
    BY <1>1, FS_Subset DEF N
  <2>2. Cardinality(S) \in Nat /\ N \in Nat
    BY <1>1, <2>1, FS_CardinalityType DEF N
  <2> QED
    BY <2>1, <2>2 DEF N
<1> QED
  BY <1>1, <1>2, GraphAssumption, FS_CardinalityType DEF N

LEMMA MinEdgeIsOne ==
    ASSUME NEW gr \in Clones, NEW u \in Nodes, NEW v \in Nodes, Linked(gr, u, v)
    PROVE  MinEdge(gr, u, v) \in Parallel(gr, u, v)
<1> DEFINE P == Parallel(gr, u, v)
           M == {e.metric : e \in P}
<1>1. \A e \in P : e.metric \in Nat /\ e.id \in Nat
  BY GraphAssumption DEF Clones, Parallel
<1>2. M \in SUBSET Nat /\ M # {}
  BY <1>1 DEF Linked
<1>3. PICK m \in M : \A y \in M : m <= y
  <2> HIDE DEF M
  <2> QED
    BY <1>2, LeastExists
<1> DEFINE I == {e.id : e \in {x \in P : x.metric = m}}
<1>4. I \in SUBSET Nat /\ I # {}
  BY <1>1, <1>3
<1>5. PICK i \in I : \A y \in I : i <= y
  <2> HIDE DEF I
  <2> QED
    BY <1>4, LeastExists
<1>6. PICK e \in P : e.metric = m /\ e.id = i
  BY <1>5
<1>7. \A f \in P : e.metric < f.metric \/ (e.metric = f.metric /\ e.id <= f.id)
  <2> SUFFICES ASSUME NEW f \in P
               PROVE  e.metric < f.metric \/ (e.metric = f.metric /\ e.id <= f.id)
    OBVIOUS
  <2>1. m \in Nat /\ f.metric \in Nat /\ m <= f.metric
    BY <1>1, <1>2, <1>3
  <2>2. f.metric = m => i <= f.id
    BY <1>5
  <2> QED
    BY <1>6, <2>1, <2>2
<1> QED
  BY <1>6, <1>7 DEF MinEdge

LEMMA CostsAreBounded ==
    ASSUME NoWrap, NEW gr \in Clones, NEW b \in Measures, NEW u \in Nodes,
           NEW v \in Nodes,
           Linked(gr, u, v)
    PROVE  /\ LinkCost(gr, b, u, v) \in Nat /\ LinkCost(gr, b, u, v) <= MaxCost
           /\ PositiveCosts => LinkCost(gr, b, u, v) > 0
<1> DEFINE e == MinEdge(gr, u, v)
<1>1. PICK full \in Graphs : gr \in SUBSET full
  BY DEF Clones
<1>2. e \in full /\ e.metric < Infinite
  BY <1>1, MinEdgeIsOne DEF Parallel
<1>3. MaxCost \in Nat /\ Bounds(MaxCost)
  BY DEF NoWrap, MaxCost
<1>4. Cost(e, b) \in Nat /\ Cost(e, b) <= MaxCost
  BY <1>2, <1>3, GraphAssumption DEF Bounds, Cost
<1>5. PositiveCosts => Cost(e, b) > 0
  BY <1>2 DEF PositiveCosts
<1> QED
  BY <1>4, <1>5 DEF LinkCost

\* The costs along a path of less than N links stay below Infinite.
LEMMA SumsAreSmall ==
    ASSUME NoWrap, NEW n \in 0 .. N
    PROVE  /\ MaxCost \in Nat /\ n * MaxCost \in Nat /\ n * MaxCost < Infinite
           /\ (n + 1) * MaxCost = n * MaxCost + MaxCost
<1>1. MaxCost \in Nat /\ N * MaxCost < Infinite
  BY DEF NoWrap, MaxCost, Bounds, N
<1>2. N \in Nat /\ Infinite \in Nat
  BY NodesAreFinite
<1> HIDE DEF N
<1>3. n * MaxCost \in Nat /\ n * MaxCost <= N * MaxCost
  BY <1>1, <1>2
<1>4. (n + 1) * MaxCost = n * MaxCost + MaxCost
  BY <1>1, <1>2
<1>5. N * MaxCost \in Nat
  BY <1>1, <1>2
<1> QED
  BY <1>1, <1>2, <1>3, <1>4, <1>5

-----------------------------------------------------------------------------
(***************************************************************************)
(* Bellman's equations                                                     *)
(***************************************************************************)
LEMMA LongerWalks ==
    ASSUME NoWrap, NEW gr \in Clones, NEW b \in Measures, NEW old \in [Nodes -> Nat]
    PROVE  /\ Longer(gr, b, old) \in [Nodes -> Nat]
           /\ \A v \in Nodes :
                 /\ Longer(gr, b, old)[v] <= old[v]
                 /\ \A u \in Nodes : Linked(gr, u, v) =>
                       Longer(gr, b, old)[v] <= old[u] + LinkCost(gr, b, u, v)
                 /\ \/ Longer(gr, b, old)[v] = old[v]
                    \/ \E u \in Nodes :
                          /\ Linked(gr, u, v)
                          /\ Longer(gr, b, old)[v] = old[u] + LinkCost(gr, b, u, v)
<1> DEFINE L(v) == {old[v]} \cup {old[u] + LinkCost(gr, b, u, v) :
                                     u \in {n \in Nodes : Linked(gr, n, v)}}
<1>1. Longer(gr, b, old) = [v \in Nodes |-> Min(L(v))]
  BY DEF Longer, LinkCost
<1>2. ASSUME NEW v \in Nodes
      PROVE  /\ Min(L(v)) \in Nat /\ Min(L(v)) <= old[v]
             /\ \A u \in Nodes : Linked(gr, u, v) =>
                   Min(L(v)) <= old[u] + LinkCost(gr, b, u, v)
             /\ \/ Min(L(v)) = old[v]
                \/ \E u \in Nodes : /\ Linked(gr, u, v)
                                    /\ Min(L(v)) = old[u] + LinkCost(gr, b, u, v)
  <2>1. \A u \in Nodes : Linked(gr, u, v) => LinkCost(gr, b, u, v) \in Nat
    BY CostsAreBounded
  <2>2. L(v) \in SUBSET Nat /\ L(v) # {}
    BY <2>1
  <2>3. Min(L(v)) \in L(v) /\ \A y \in L(v) : Min(L(v)) <= y
    <3> HIDE DEF L
    <3> QED
      BY <2>2, LeastOf
  <2>4. Min(L(v)) \in Nat
    BY <2>2, <2>3
  <2>5. Min(L(v)) <= old[v]
    BY <2>3
  <2>6. \A u \in Nodes : Linked(gr, u, v) => Min(L(v)) <= old[u] + LinkCost(gr, b, u, v)
    BY <2>3
  <2> QED
    BY <2>3, <2>4, <2>5, <2>6
<1> HIDE DEF L
<1> QED
  BY <1>1, <1>2

\* The first n + 1 members of the sequence of lengths.
AreLengths(f, n, gr, src, b) ==
    /\ f \in [0 .. n -> [Nodes -> Nat]]
    /\ f[0] = Start(src).dist
    /\ \A k \in 1 .. n : f[k] = Longer(gr, b, f[k - 1])

LEMMA LengthsExist ==
    ASSUME NoWrap, NEW gr \in Clones, NEW b \in Measures, NEW src \in Nodes
    PROVE  \E f : AreLengths(f, N, gr, src, b)
<1> DEFINE P == {n \in 0 .. N : \E f : AreLengths(f, n, gr, src, b)}
<1>0. N \in Nat
  BY NodesAreFinite
<1>1. 0 \in P
  <2>1. Start(src).dist \in [Nodes -> Nat]
    BY NodesAreFinite DEF Start
  <2>2. AreLengths([k \in 0 .. 0 |-> Start(src).dist], 0, gr, src, b)
    BY <2>1 DEF AreLengths
  <2> QED
    BY <1>0, <2>2
<1>2. ASSUME NEW n \in 0 .. N - 1, n \in P
      PROVE  n + 1 \in P
  <2>1. PICK f : AreLengths(f, n, gr, src, b)
    BY <1>2
  <2> DEFINE h == [k \in 0 .. n + 1 |-> IF k <= n THEN f[k] ELSE Longer(gr, b, f[n])]
  <2>2. f[n] \in [Nodes -> Nat]
    BY <1>0, <2>1 DEF AreLengths
  <2>3. Longer(gr, b, f[n]) \in [Nodes -> Nat]
    BY <2>2, LongerWalks
  <2>4. h \in [0 .. n + 1 -> [Nodes -> Nat]]
    BY <1>0, <2>1, <2>3 DEF AreLengths
  <2>5. h[0] = Start(src).dist
    BY <1>0, <2>1 DEF AreLengths
  <2>6. ASSUME NEW k \in 1 .. n + 1
        PROVE  h[k] = Longer(gr, b, h[k - 1])
    <3>1. CASE k <= n
      BY <1>0, <2>1, <3>1 DEF AreLengths
    <3>2. CASE k = n + 1
      BY <1>0, <3>2
    <3> QED
      BY <1>0, <3>1, <3>2
  <2>7. AreLengths(h, n + 1, gr, src, b)
    BY <2>4, <2>5, <2>6 DEF AreLengths
  <2> QED
    BY <1>0, <2>7
<1> HIDE DEF P
<1>3. N \in P
  BY <1>0, <1>1, <1>2, UpTo
<1> QED
  BY <1>3 DEF P

LEMMA LengthsAre ==
    ASSUME NoWrap, NEW gr \in Clones, NEW b \in Measures, NEW src \in Nodes
    PROVE  AreLengths(Lengths(gr, src, b), N, gr, src, b)
<1> DEFINE F(h) == [k \in 0 .. N |-> IF k = 0 THEN Start(src).dist
                                     ELSE Longer(gr, b, h[k - 1])]
           W == CHOOSE h : h = F(h)
<1>0. N \in Nat
  BY NodesAreFinite
<1>1. PICK f : AreLengths(f, N, gr, src, b)
  BY LengthsExist
<1>2. f = F(f)
  BY <1>1 DEF AreLengths
<1>3. W = F(W)
  BY <1>2, Zenon
<1>4. Lengths(gr, src, b) = W
  BY DEF Lengths, N
<1> HIDE DEF W
<1>5. W[0] = Start(src).dist
  BY <1>0, <1>3
<1>6. \A k \in 1 .. N : W[k] = Longer(gr, b, W[k - 1])
  BY <1>0, <1>3
<1> DEFINE P == {k \in 0 .. N : W[k] \in [Nodes -> Nat]}
<1>7. \A k \in 0 .. N : k \in P
  <2>1. 0 \in P
    BY <1>0, <1>1, <1>5 DEF AreLengths
  <2>2. ASSUME NEW k \in 0 .. N - 1, k \in P
        PROVE  k + 1 \in P
    <3>1. W[k + 1] = Longer(gr, b, W[k])
      BY <1>0, <1>6
    <3>2. W[k + 1] \in [Nodes -> Nat]
      BY <2>2, <3>1, LongerWalks
    <3> QED
      BY <1>0, <3>2
  <2> HIDE DEF P
  <2> QED
    BY <1>0, <2>1, <2>2, UpTo
<1>8. W \in [0 .. N -> [Nodes -> Nat]]
  BY <1>3, <1>7
<1> QED
  BY <1>4, <1>5, <1>6, <1>8 DEF AreLengths

\* No walk of k links is longer than the start allows.
LEMMA LengthsShrink ==
    ASSUME NoWrap, NEW gr \in Clones, NEW b \in Measures, NEW src \in Nodes,
           NEW k \in 0 .. N,
           NEW v \in Nodes
    PROVE  Lengths(gr, src, b)[k][v] <= Start(src).dist[v]
<1> DEFINE W == Lengths(gr, src, b)
           P == {i \in 0 .. N : W[i][v] <= W[0][v]}
<1>0. N \in Nat /\ AreLengths(W, N, gr, src, b)
  BY NodesAreFinite, LengthsAre
<1> HIDE DEF W
<1>1. 0 \in P
  BY <1>0 DEF AreLengths
<1>2. ASSUME NEW i \in 0 .. N - 1, i \in P
      PROVE  i + 1 \in P
  <2>0. i \in 0 .. N /\ 0 \in 0 .. N /\ i + 1 \in 1 .. N /\ (i + 1) - 1 = i
    BY <1>0
  <2>1. W[i + 1] = Longer(gr, b, W[i]) /\ W[i] \in [Nodes -> Nat]
        /\ W[0] \in [Nodes -> Nat]
    BY <1>0, <2>0 DEF AreLengths
  <2>2. W[i + 1] \in [Nodes -> Nat] /\ W[i + 1][v] <= W[i][v]
    BY <2>1, LongerWalks
  <2> QED
    BY <1>0, <1>2, <2>1, <2>2
<1> HIDE DEF P
<1>3. k \in P
  BY <1>0, <1>1, <1>2, UpTo
<1> QED
  BY <1>0, <1>3 DEF P, W, AreLengths

-----------------------------------------------------------------------------
(***************************************************************************)
(* What a search has found                                                 *)
(***************************************************************************)
\* A border between the extracted nodes and the others.
Border(st, m) ==
    /\ m \in 0 .. Infinite
    /\ \A u \in Extracted(st) : st.dist[u] <= m
    /\ \A v \in st.Q : m <= st.dist[v]

LEMMA BorderExists ==
    ASSUME NEW st, SearchType(st), OrderInv(st)
    PROVE  \E m \in Nat : Border(st, m)
<1>0. Infinite \in Nat /\ \A u \in Nodes : st.dist[u] \in 0 .. Infinite
  BY NodesAreFinite DEF SearchType
<1> DEFINE D == {Infinite} \cup {st.dist[v] : v \in st.Q}
<1>1. D \in SUBSET Nat /\ D # {}
  BY <1>0 DEF SearchType
<1>2. PICK m \in D : \A y \in D : m <= y
  <2> HIDE DEF D
  <2> QED
    BY <1>1, LeastExists
<1>3. m \in 0 .. Infinite
  BY <1>0, <1>1, <1>2
<1>4. \A u \in Extracted(st) : st.dist[u] <= m
  BY <1>0, <1>2 DEF OrderInv, Extracted
<1>5. \A v \in st.Q : m <= st.dist[v]
  BY <1>2
<1> QED
  BY <1>3, <1>4, <1>5 DEF Border

\* No walk into a node behind the border is shorter than the border, and none
\* to an extracted node is shorter than its distance.
LEMMA NoWalkIsShorter ==
    ASSUME NoWrap, NEW gr \in Clones, NEW b \in Measures, NEW src \in Nodes, NEW st,
           SearchType(st), st.dist[src] = 0, RelaxedInv(gr, b, st),
           NEW m \in Nat, Border(st, m), NEW k \in 0 .. N
    PROVE  /\ \A v \in Extracted(st) : st.dist[v] <= Lengths(gr, src, b)[k][v]
           /\ \A v \in st.Q : m <= Lengths(gr, src, b)[k][v]
<1> DEFINE W == Lengths(gr, src, b)
           Low(v) == IF v \in st.Q THEN m ELSE st.dist[v]
           P == {i \in 0 .. N : \A v \in Nodes : Low(v) <= W[i][v]}
<1>0. N \in Nat /\ Infinite \in Nat /\ AreLengths(W, N, gr, src, b)
  BY NodesAreFinite, LengthsAre
<1>1. \A v \in Nodes : /\ st.dist[v] \in 0 .. Infinite
                       /\ Low(v) \in 0 .. Infinite /\ Low(v) <= st.dist[v]
                       /\ v \notin st.Q => Low(v) <= m
                       /\ v \in st.Q => Low(v) = m
  BY NodesAreFinite DEF SearchType, Border, Extracted
<1>2. ASSUME NEW u \in Nodes, NEW v \in Nodes, Linked(gr, u, v)
      PROVE  Low(v) <= Low(u) + LinkCost(gr, b, u, v)
  <2>1. LinkCost(gr, b, u, v) \in Nat
    BY <1>2, CostsAreBounded
  <2>2. CASE u \in st.Q
    BY <1>1, <2>1, <2>2
  <2>3. CASE u \notin st.Q
    <3>1. st.dist[v] <= st.dist[u] + LinkCost(gr, b, u, v)
      BY <1>2, <2>3 DEF RelaxedInv, Extracted
    <3> QED
      BY <1>1, <2>1, <2>3, <3>1
  <2> QED
    BY <2>2, <2>3
<1> HIDE DEF W
<1>3. 0 \in P
  <2> SUFFICES ASSUME NEW v \in Nodes PROVE Low(v) <= W[0][v]
    BY <1>0
  <2>1. W[0][v] = IF v = src THEN 0 ELSE Infinite
    BY <1>0 DEF AreLengths, Start
  <2> QED
    BY <1>0, <1>1, <2>1
<1> HIDE DEF Low
<1>4. ASSUME NEW i \in 0 .. N - 1, i \in P
      PROVE  i + 1 \in P
  <2>0. i \in 0 .. N /\ i + 1 \in 1 .. N /\ (i + 1) - 1 = i
    BY <1>0
  <2>1. W[i + 1] = Longer(gr, b, W[i]) /\ W[i] \in [Nodes -> Nat]
    BY <1>0, <2>0 DEF AreLengths
  <2> SUFFICES ASSUME NEW v \in Nodes PROVE Low(v) <= W[i + 1][v]
    BY <2>0
  <2>2. \/ W[i + 1][v] = W[i][v]
        \/ \E u \in Nodes : /\ Linked(gr, u, v)
                            /\ W[i + 1][v] = W[i][u] + LinkCost(gr, b, u, v)
    BY <2>1, LongerWalks
  <2>3. CASE W[i + 1][v] = W[i][v]
    BY <1>4, <2>3
  <2>4. ASSUME NEW u \in Nodes, Linked(gr, u, v),
               W[i + 1][v] = W[i][u] + LinkCost(gr, b, u, v)
        PROVE  Low(v) <= W[i + 1][v]
    <3>1. LinkCost(gr, b, u, v) \in Nat
      BY <2>4, CostsAreBounded
    <3>2. W[i][u] \in Nat /\ Low(u) \in Nat /\ Low(v) \in Nat /\ Low(u) <= W[i][u]
      BY <1>0, <1>1, <1>4, <2>1
    <3> QED
      BY <1>2, <2>4, <3>1, <3>2
  <2> QED
    BY <2>2, <2>3, <2>4
<1> HIDE DEF P
<1>5. k \in P
  BY <1>0, <1>3, <1>4, UpTo
<1>6. \A v \in Nodes : Low(v) <= W[k][v]
  BY <1>5 DEF P
<1> QED
  BY <1>6 DEF Low, W, Extracted, SearchType

\* The distance of an extracted node is that of the shortest walk.
LEMMA ExtractedIsExact ==
    ASSUME NoWrap, NEW gr \in Clones, NEW b \in Measures, NEW src \in Nodes, NEW st,
           Searching(gr, src, b, st)
    PROVE  /\ \A v \in Extracted(st) : st.dist[v] = Distance(gr, src, b)[v]
           /\ \A u \in Extracted(st), v \in st.Q :
                 st.dist[u] <= Distance(gr, src, b)[v]
           /\ Distance(gr, src, b) \in [Nodes -> Nat]
<1>0. /\ N \in Nat /\ N \in 0 .. N /\ Infinite \in Nat
      /\ Cardinality(Extracted(st)) \in 0 .. N
  BY NodesAreFinite DEF Extracted
<1>1. Distance(gr, src, b) = Lengths(gr, src, b)[N]
  BY DEF Distance, N
<1>2. Distance(gr, src, b) \in [Nodes -> Nat]
  BY <1>0, <1>1, LengthsAre DEF AreLengths
<1>3. PICK m \in Nat : Border(st, m)
  BY BorderExists DEF Searching
<1>4. \A v \in Nodes : st.dist[v] \in Nat
  BY <1>0 DEF Searching, SearchType
<1>5. \A v \in Extracted(st) : st.dist[v] <= Distance(gr, src, b)[v]
  BY <1>0, <1>1, <1>3, NoWalkIsShorter DEF Searching
<1>6. \A v \in st.Q : m <= Distance(gr, src, b)[v]
  BY <1>0, <1>1, <1>3, NoWalkIsShorter DEF Searching
<1>7. \A v \in Nodes : Distance(gr, src, b)[v] <= st.dist[v]
  <2>1. N \in Cardinality(Extracted(st)) .. N
    BY <1>0
  <2> QED
    BY <1>1, <2>1 DEF Searching, UpperInv
<1>8. ASSUME NEW v \in Extracted(st)
      PROVE  st.dist[v] = Distance(gr, src, b)[v]
  BY <1>2, <1>4, <1>5, <1>7 DEF Extracted
<1>9. ASSUME NEW u \in Extracted(st), NEW v \in st.Q
      PROVE  st.dist[u] <= Distance(gr, src, b)[v]
  <2>1. st.dist[u] \in Nat /\ Distance(gr, src, b)[v] \in Nat
    BY <1>2, <1>4 DEF Extracted, Searching, SearchType
  <2>2. st.dist[u] <= m /\ m <= Distance(gr, src, b)[v]
    BY <1>3, <1>6 DEF Border
  <2> QED
    BY <2>1, <2>2
<1> QED
  BY <1>2, <1>8, <1>9

\* A search that can extract no more has no path to what is left.
LEMMA LeftIsCut ==
    ASSUME NoWrap, NEW gr \in Clones, NEW b \in Measures, NEW src \in Nodes, NEW st,
           Searching(gr, src, b, st), Open(st) = {}, NEW t \in Nodes
    PROVE  t \in st.Q <=> Distance(gr, src, b)[t] >= Infinite
<1>0. N \in Nat /\ N \in 0 .. N /\ Infinite \in Nat
  BY NodesAreFinite
<1>1. CASE t \in st.Q
  <2>1. \A u \in Nodes : st.dist[u] \in 0 .. Infinite
    BY DEF Searching, SearchType
  <2>2. \A v \in st.Q : Infinite <= st.dist[v]
    BY <1>0, <2>1 DEF Open, Searching, SearchType
  <2>3. \A u \in Extracted(st) : st.dist[u] <= Infinite
    BY <2>1 DEF Extracted
  <2>4. Border(st, Infinite)
    BY <1>0, <2>2, <2>3 DEF Border
  <2>5. Infinite <= Distance(gr, src, b)[t]
    BY <1>0, <1>1, <2>4, NoWalkIsShorter DEF Searching, Distance, N
  <2> QED
    BY <1>0, <1>1, <2>5, ExtractedIsExact
<1>2. CASE t \notin st.Q
  <2>1. t \in Extracted(st)
    BY <1>2 DEF Extracted
  <2>2. st.dist[t] = Distance(gr, src, b)[t]
    BY <2>1, ExtractedIsExact
  <2>3. st.dist[t] < Infinite /\ st.dist[t] \in 0 .. Infinite
    BY <2>1 DEF Searching, OrderInv, SearchType
  <2> QED
    BY <1>0, <1>2, <2>2, <2>3
<1> QED
  BY <1>1, <1>2

-----------------------------------------------------------------------------
(***************************************************************************)
(* The steps of the search                                                 *)
(***************************************************************************)
LEMMA SearchStarts ==
    ASSUME NoWrap, NEW gr \in Clones, NEW b \in Measures, NEW src \in Nodes
    PROVE  Searching(gr, src, b, Start(src))
<1> DEFINE st == Start(src)
<1>0. Infinite \in Nat /\ Infinite > 0 /\ N \in Nat
  BY NodesAreFinite
<1>1. /\ st.Q = Nodes /\ Extracted(st) = {}
      /\ \A v \in Nodes : /\ st.dist[v] = IF v = src THEN 0 ELSE Infinite
                          /\ st.prev[v] = << >>
  BY DEF Start, Extracted
<1>2. SearchType(st)
  <2>1. << >> \in Seq(Nodes)
    OBVIOUS
  <2> QED
    BY <1>0, <2>1 DEF SearchType, Start
<1>3. Cardinality(Extracted(st)) = 0
  BY <1>1, FS_EmptySet
<1>4. SmallInv(st)
  <2>1. 0 * MaxCost = 0
    BY <1>0, SumsAreSmall
  <2> QED
    BY <1>0, <1>1, <1>3, <2>1 DEF SmallInv
<1>5. UpperInv(gr, src, b, st)
  BY <1>3, LengthsShrink DEF UpperInv
<1>6. OrderInv(st) /\ RelaxedInv(gr, b, st)
  BY <1>1 DEF OrderInv, RelaxedInv
<1>7. PrevInv(gr, src, b, st)
  BY <1>0, <1>1 DEF PrevInv
<1> QED
  BY <1>1, <1>2, <1>4, <1>5, <1>6, <1>7 DEF Searching

LEMMA NearestIsOpen ==
    ASSUME NEW st, SearchType(st), Open(st) # {}
    PROVE  /\ Nearest(st) \in st.Q /\ st.dist[Nearest(st)] < Infinite
           /\ \A v \in st.Q : st.dist[Nearest(st)] <= st.dist[v]
<1> DEFINE O == Open(st)
           D == {st.dist[v] : v \in O}
<1>0. /\ Infinite \in Nat /\ \A v \in O : v \in Nat /\ st.dist[v] \in 0 .. Infinite
      /\ O # {} /\ \A v \in O : v \in st.Q /\ st.dist[v] < Infinite
  BY NodesAreFinite DEF SearchType, Open
<1>1. \A v \in st.Q : v \in O \/ st.dist[v] = Infinite
  BY <1>0 DEF SearchType, Open
<1> HIDE DEF O
<1>2. D \in SUBSET Nat /\ D # {}
  BY <1>0
<1>3. PICK m \in D : \A y \in D : m <= y
  <2> HIDE DEF D
  <2> QED
    BY <1>2, LeastExists
<1> DEFINE I == {v \in O : st.dist[v] = m}
<1>4. I \in SUBSET Nat /\ I # {}
  BY <1>0, <1>3
<1>5. PICK n \in I : \A y \in I : n <= y
  <2> HIDE DEF I
  <2> QED
    BY <1>4, LeastExists
<1>6. ASSUME NEW k \in O
      PROVE  st.dist[n] < st.dist[k] \/ (st.dist[n] = st.dist[k] /\ n <= k)
  <2>1. m \in Nat /\ st.dist[k] \in Nat /\ m <= st.dist[k] /\ st.dist[n] = m
    BY <1>0, <1>2, <1>3, <1>5
  <2>2. st.dist[k] = m => n <= k
    BY <1>5
  <2> QED
    BY <2>1, <2>2
<1>7. /\ Nearest(st) \in O
      /\ \A k \in O : \/ st.dist[Nearest(st)] < st.dist[k]
                      \/ st.dist[Nearest(st)] = st.dist[k] /\ Nearest(st) <= k
  BY <1>5, <1>6 DEF Nearest, O
<1>8. ASSUME NEW v \in st.Q
      PROVE  st.dist[Nearest(st)] <= st.dist[v]
  BY <1>0, <1>1, <1>7
<1> QED
  BY <1>0, <1>7, <1>8

\* An iteration of the loop: u is the node extracted, new the search after it.
Iteration(gr, b, st, u, new) ==
    /\ u \in st.Q /\ st.dist[u] < Infinite
    /\ \A v \in st.Q : st.dist[u] <= st.dist[v]
    /\ new.Q = st.Q \ {u}
    /\ new.dist \in [Nodes -> 0 .. Infinite]
    /\ new.prev \in [Nodes -> Seq(Nodes)]
    /\ \A v \in Nodes :
          \/ /\ v \in new.Q /\ Linked(gr, u, v)
             /\ st.dist[u] + LinkCost(gr, b, u, v) < st.dist[v]
             /\ new.dist[v] = st.dist[u] + LinkCost(gr, b, u, v)
             /\ ToSet(new.prev[v]) = {u}
          \/ /\ v \in new.Q /\ Linked(gr, u, v)
             /\ st.dist[u] + LinkCost(gr, b, u, v) = st.dist[v]
             /\ new.dist[v] = st.dist[v]
             /\ ToSet(new.prev[v]) = ToSet(st.prev[v]) \cup {u}
          \/ /\ \/ v \notin new.Q \/ ~ Linked(gr, u, v)
                \/ st.dist[u] + LinkCost(gr, b, u, v) > st.dist[v]
             /\ new.dist[v] = st.dist[v]
             /\ new.prev[v] = st.prev[v]

LEMMA ExtractIsIteration ==
    ASSUME NoWrap, NEW gr \in Clones, NEW b \in Measures, NEW src \in Nodes, NEW st,
           Searching(gr, src, b, st), Open(st) # {}
    PROVE  /\ Iteration(gr, b, st, Nearest(st), Extract(gr, b, st))
           /\ Cardinality(Extracted(st)) \in 0 .. N - 1
           /\ \A v \in Nodes : Linked(gr, Nearest(st), v) =>
                 st.dist[Nearest(st)] + LinkCost(gr, b, Nearest(st), v)
                     <= (Cardinality(Extracted(st)) + 1) * MaxCost
<1> DEFINE u == Nearest(st)
           new == Extract(gr, b, st)
           n == Cardinality(Extracted(st))
           C(v) == LinkCost(gr, b, u, v)
           Alt(v) == (st.dist[u] + C(v)) % (Infinite + 1)
           Shorter(v) == v \in st.Q \ {u} /\ Linked(gr, u, v) /\ Alt(v) < st.dist[v]
           Equal(v) == v \in st.Q \ {u} /\ Linked(gr, u, v) /\ Alt(v) = st.dist[v]
<1>0. /\ Infinite \in Nat /\ N \in Nat /\ SearchType(st)
      /\ u \in st.Q /\ u \in Nodes /\ st.dist[u] < Infinite /\ st.dist[u] \in Nat
      /\ \A v \in st.Q : st.dist[u] <= st.dist[v]
  <2>1. SearchType(st) /\ Infinite \in Nat /\ N \in Nat
    BY NodesAreFinite DEF Searching
  <2>2. /\ u \in st.Q /\ st.dist[u] < Infinite
        /\ \A v \in st.Q : st.dist[u] <= st.dist[v]
    BY <2>1, NearestIsOpen
  <2> HIDE DEF u
  <2> QED
    BY <2>1, <2>2 DEF SearchType
<1>1. /\ new.Q = st.Q \ {u}
      /\ new.dist = [v \in Nodes |-> IF Shorter(v) THEN Alt(v) ELSE st.dist[v]]
      /\ new.prev = [v \in Nodes |-> CASE Shorter(v) -> <<u>>
                                       [] Equal(v)   -> Append(st.prev[v], u)
                                       [] OTHER      -> st.prev[v]]
  BY DEF Extract, LinkCost
<1> HIDE DEF new, u
<1>2. n \in 0 .. N - 1
  <2>1. Extracted(st) # Nodes
    BY <1>0 DEF Extracted
  <2>2. Extracted(st) \in SUBSET Nodes
    BY DEF Extracted
  <2> QED
    BY <1>0, <2>1, <2>2, NodesAreFinite
<1> HIDE DEF n
<1>3. ASSUME NEW v \in Nodes, Linked(gr, u, v)
      PROVE  /\ C(v) \in Nat /\ st.dist[u] + C(v) <= (n + 1) * MaxCost
             /\ Alt(v) = st.dist[u] + C(v)
  <2>1. C(v) \in Nat /\ C(v) <= MaxCost
    BY <1>0, <1>3, CostsAreBounded
  <2>2. /\ MaxCost \in Nat /\ n * MaxCost \in Nat
        /\ (n + 1) * MaxCost = n * MaxCost + MaxCost
        /\ (n + 1) * MaxCost < Infinite
    <3>1. n \in 0 .. N /\ n + 1 \in 0 .. N
      BY <1>0, <1>2
    <3> QED
      BY <3>1, SumsAreSmall
  <2>3. st.dist[u] <= n * MaxCost
    BY <1>0 DEF Searching, SmallInv, n
  <2> HIDE DEF C
  <2>4. st.dist[u] + C(v) <= (n + 1) * MaxCost /\ st.dist[u] + C(v) \in 0 .. Infinite
    BY <1>0, <2>1, <2>2, <2>3
  <2> DEFINE a == st.dist[u] + C(v)
  <2> HIDE DEF a
  <2>5. a \in 0 .. Infinite => a % (Infinite + 1) = a
    BY <1>0
  <2> QED
    BY <2>1, <2>4, <2>5 DEF a
<1> HIDE DEF C, Alt
<1>4. ASSUME NEW v \in Nodes
      PROVE  /\ new.dist[v] \in 0 .. Infinite /\ new.prev[v] \in Seq(Nodes)
             /\ \/ /\ v \in new.Q /\ Linked(gr, u, v)
                   /\ st.dist[u] + C(v) < st.dist[v]
                   /\ new.dist[v] = st.dist[u] + C(v)
                   /\ ToSet(new.prev[v]) = {u}
                \/ /\ v \in new.Q /\ Linked(gr, u, v)
                   /\ st.dist[u] + C(v) = st.dist[v]
                   /\ new.dist[v] = st.dist[v]
                   /\ ToSet(new.prev[v]) = ToSet(st.prev[v]) \cup {u}
                \/ /\ \/ v \notin new.Q \/ ~ Linked(gr, u, v)
                      \/ st.dist[u] + C(v) > st.dist[v]
                   /\ new.dist[v] = st.dist[v]
                   /\ new.prev[v] = st.prev[v]
  <2>1. /\ st.dist[v] \in 0 .. Infinite /\ st.prev[v] \in Seq(Nodes)
        /\ <<u>> \in Seq(Nodes) /\ ToSet(<<u>>) = {u}
        /\ Append(st.prev[v], u) \in Seq(Nodes)
        /\ ToSet(Append(st.prev[v], u)) = ToSet(st.prev[v]) \cup {u}
    BY <1>0, Elements DEF SearchType
  <2>2. CASE Shorter(v)
    <3>1. /\ Linked(gr, u, v) /\ v \in new.Q /\ C(v) \in Nat
          /\ Alt(v) = st.dist[u] + C(v) /\ Alt(v) < st.dist[v]
      BY <1>1, <1>3, <2>2
    <3>2. new.dist[v] = Alt(v)
      BY <1>1, <2>2
    <3>3. ~ Equal(v)
      BY <1>0, <2>1, <3>1
    <3>4. new.prev[v] = <<u>>
      BY <1>1, <2>2, <3>3
    <3> QED
      BY <1>0, <2>1, <3>1, <3>2, <3>4
  <2>3. CASE Equal(v)
    <3>1. /\ Linked(gr, u, v) /\ v \in new.Q /\ C(v) \in Nat
          /\ Alt(v) = st.dist[u] + C(v) /\ Alt(v) = st.dist[v]
      BY <1>1, <1>3, <2>3
    <3>2. ~ Shorter(v)
      BY <2>1, <3>1
    <3>3. new.dist[v] = st.dist[v] /\ new.prev[v] = Append(st.prev[v], u)
      BY <1>1, <2>3, <3>2
    <3> QED
      BY <1>0, <2>1, <3>1, <3>3
  <2>4. CASE ~ Shorter(v) /\ ~ Equal(v)
    <3>1. new.dist[v] = st.dist[v] /\ new.prev[v] = st.prev[v]
      BY <1>1, <2>4
    <3>2. ASSUME v \in new.Q, Linked(gr, u, v)
          PROVE  st.dist[u] + C(v) > st.dist[v]
      <4>1. C(v) \in Nat /\ Alt(v) = st.dist[u] + C(v)
        BY <1>3, <3>2
      <4>2. ~ (Alt(v) < st.dist[v]) /\ Alt(v) # st.dist[v]
        BY <1>1, <2>4, <3>2
      <4> QED
        BY <1>0, <2>1, <4>1, <4>2
    <3> QED
      BY <2>1, <3>1, <3>2
  <2> QED
    BY <2>2, <2>3, <2>4
<1>5. new.dist \in [Nodes -> 0 .. Infinite] /\ new.prev \in [Nodes -> Seq(Nodes)]
  <2>1. /\ new.dist = [v \in Nodes |-> new.dist[v]]
        /\ new.prev = [v \in Nodes |-> new.prev[v]]
    BY <1>1
  <2>2. \A v \in Nodes : new.dist[v] \in 0 .. Infinite /\ new.prev[v] \in Seq(Nodes)
    BY <1>4
  <2> QED
    BY <2>1, <2>2
<1>6. Iteration(gr, b, st, u, new)
  BY <1>0, <1>1, <1>4, <1>5 DEF Iteration, C
<1> QED
  BY <1>2, <1>3, <1>6 DEF n, u, new, C

LEMMA IterationKeepsOrder ==
    ASSUME NoWrap, NEW gr \in Clones, NEW b \in Measures, NEW src \in Nodes, NEW st,
           Searching(gr, src, b, st), NEW u, NEW new, Iteration(gr, b, st, u, new)
    PROVE  /\ SearchType(new) /\ new.dist[src] = 0
           /\ OrderInv(new) /\ RelaxedInv(gr, b, new)
<1>0. /\ Infinite \in Nat /\ u \in Nodes /\ SearchType(st)
      /\ \A v \in Nodes : st.dist[v] \in 0 .. Infinite /\ new.dist[v] \in 0 .. Infinite
      /\ Extracted(new) = Extracted(st) \cup {u}
      /\ st.Q \in SUBSET Nodes /\ new.Q = st.Q \ {u}
  BY NodesAreFinite DEF Searching, SearchType, Iteration, Extracted
<1>1. \A v \in Nodes : Linked(gr, u, v) => LinkCost(gr, b, u, v) \in Nat
  BY <1>0, CostsAreBounded
<1>2. SearchType(new)
  BY <1>0 DEF SearchType, Iteration
<1>11. \A v \in Nodes :
          \/ new.dist[v] = st.dist[v]
          \/ /\ v \in new.Q /\ Linked(gr, u, v) /\ new.dist[v] < st.dist[v]
             /\ new.dist[v] = st.dist[u] + LinkCost(gr, b, u, v)
  BY DEF Iteration
<1>12. \A v \in new.Q : Linked(gr, u, v) =>
          new.dist[v] <= st.dist[u] + LinkCost(gr, b, u, v)
  <2> SUFFICES ASSUME NEW v \in new.Q, Linked(gr, u, v)
               PROVE  new.dist[v] <= st.dist[u] + LinkCost(gr, b, u, v)
    OBVIOUS
  <2>1. LinkCost(gr, b, u, v) \in Nat /\ v \in Nodes
    BY <1>0, <1>1
  <2>2. \/ new.dist[v] = st.dist[u] + LinkCost(gr, b, u, v)
        \/ /\ st.dist[u] + LinkCost(gr, b, u, v) >= st.dist[v]
           /\ new.dist[v] = st.dist[v]
    BY <1>0, <2>1 DEF Iteration
  <2> QED
    BY <1>0, <2>1, <2>2
<1>3. /\ \A v \in Nodes : new.dist[v] <= st.dist[v]
      /\ \A v \in Extracted(new) : new.dist[v] = st.dist[v]
  BY <1>0, <1>11 DEF Extracted
<1>4. new.dist[src] = 0
  BY <1>0, <1>3 DEF Searching
<1>5. \A x \in Extracted(st) : st.dist[x] <= st.dist[u]
  BY DEF Searching, OrderInv, Iteration
<1>6. ASSUME NEW v \in new.Q
      PROVE  st.dist[u] <= new.dist[v]
  <2>1. st.dist[u] <= st.dist[v]
    BY <1>6 DEF Iteration
  <2> QED
    BY <1>0, <1>1, <1>6, <1>11, <2>1
<1>7. OrderInv(new)
  <2> SUFFICES ASSUME NEW x \in Extracted(new)
               PROVE  /\ new.dist[x] < Infinite
                      /\ \A v \in new.Q : new.dist[x] <= new.dist[v]
    BY DEF OrderInv
  <2>1. new.dist[x] = st.dist[x] /\ st.dist[x] <= st.dist[u] /\ x \in Nodes
    BY <1>0, <1>3, <1>5 DEF Extracted
  <2>2. st.dist[u] < Infinite
    BY DEF Iteration
  <2> QED
    BY <1>0, <1>6, <2>1, <2>2
<1>8. RelaxedInv(gr, b, new)
  <2> SUFFICES ASSUME NEW x \in Extracted(new), NEW v \in Nodes, Linked(gr, x, v)
               PROVE  new.dist[v] <= new.dist[x] + LinkCost(gr, b, x, v)
    BY DEF RelaxedInv
  <2>1. /\ x \in Nodes /\ new.dist[x] = st.dist[x]
        /\ LinkCost(gr, b, x, v) \in Nat
    BY <1>3, CostsAreBounded DEF Extracted
  <2>2. CASE x \in Extracted(st)
    <3>1. st.dist[v] <= st.dist[x] + LinkCost(gr, b, x, v)
      BY <2>2 DEF Searching, RelaxedInv
    <3> QED
      BY <1>0, <1>3, <2>1, <3>1
  <2>3. CASE x = u /\ v \in new.Q
    BY <1>12, <2>1, <2>3
  <2>4. CASE x = u /\ v \notin new.Q
    <3>1. v \in Extracted(st) \/ v = u
      BY <1>0, <2>4 DEF Extracted
    <3>2. new.dist[v] = st.dist[v] /\ st.dist[v] <= st.dist[u]
      BY <1>0, <1>3, <1>5, <3>1
    <3> QED
      BY <1>0, <2>1, <2>4, <3>2
  <2> QED
    BY <1>0, <2>2, <2>3, <2>4
<1> QED
  BY <1>2, <1>4, <1>7, <1>8

LEMMA IterationKeepsUpper ==
    ASSUME NoWrap, NEW gr \in Clones, NEW b \in Measures, NEW src \in Nodes, NEW st,
           Searching(gr, src, b, st), NEW u, NEW new, Iteration(gr, b, st, u, new),
           Cardinality(Extracted(st)) \in 0 .. N - 1,
           \A v \in Nodes : Linked(gr, u, v) =>
              st.dist[u] + LinkCost(gr, b, u, v)
                  <= (Cardinality(Extracted(st)) + 1) * MaxCost
    PROVE  SmallInv(new) /\ UpperInv(gr, src, b, new)
<1> DEFINE n == Cardinality(Extracted(st))
           W == Lengths(gr, src, b)
<1>0. /\ Infinite \in Nat /\ N \in Nat /\ u \in Nodes
      /\ \A v \in Nodes : st.dist[v] \in 0 .. Infinite /\ new.dist[v] \in 0 .. Infinite
      /\ Extracted(new) = Extracted(st) \cup {u} /\ u \notin Extracted(st)
  BY NodesAreFinite DEF Searching, SearchType, Iteration, Extracted
<1>1. Cardinality(Extracted(new)) = n + 1
  <2>1. IsFiniteSet(Extracted(st))
    BY GraphAssumption, FS_Subset DEF Extracted
  <2> QED
    BY <1>0, <2>1, FS_AddElement
<1>2. n \in 0 .. N - 1
  OBVIOUS
<1> HIDE DEF n
<1>3. \A v \in Nodes :
         \/ new.dist[v] = st.dist[v]
         \/ /\ Linked(gr, u, v) /\ v \in new.Q
            /\ new.dist[v] = st.dist[u] + LinkCost(gr, b, u, v)
  BY DEF Iteration
<1>4. SmallInv(new)
  <2> SUFFICES ASSUME NEW v \in Nodes, new.dist[v] < Infinite
               PROVE  new.dist[v] <= (n + 1) * MaxCost
    BY <1>1 DEF SmallInv
  <2>1. CASE new.dist[v] = st.dist[v]
    <3>1. /\ MaxCost \in Nat /\ n * MaxCost \in Nat
          /\ (n + 1) * MaxCost = n * MaxCost + MaxCost
      BY <1>0, <1>2, SumsAreSmall
    <3>2. st.dist[v] <= n * MaxCost
      BY <2>1 DEF Searching, SmallInv, n
    <3> QED
      BY <1>0, <2>1, <3>1, <3>2
  <2>2. CASE Linked(gr, u, v) /\ new.dist[v] = st.dist[u] + LinkCost(gr, b, u, v)
    BY <2>2 DEF n
  <2> QED
    BY <1>3, <2>1, <2>2
<1>5. UpperInv(gr, src, b, new)
  <2> SUFFICES ASSUME NEW k \in n + 1 .. N, NEW v \in Nodes
               PROVE  W[k][v] <= new.dist[v]
    BY <1>1 DEF UpperInv
  <2>1. /\ k \in n .. N /\ k - 1 \in n .. N
        /\ k \in 0 .. N /\ k - 1 \in 0 .. N /\ k \in 1 .. N
    BY <1>0, <1>2
  <2>2. \A i \in n .. N : \A x \in Nodes : W[i][x] <= st.dist[x]
    BY DEF Searching, UpperInv, n
  <2>3. /\ W[k] = Longer(gr, b, W[k - 1])
        /\ W[k - 1] \in [Nodes -> Nat] /\ W[k] \in [Nodes -> Nat]
    <3>1. AreLengths(W, N, gr, src, b)
      BY LengthsAre
    <3> HIDE DEF W
    <3> QED
      BY <2>1, <3>1 DEF AreLengths
  <2> HIDE DEF W
  <2>4. CASE new.dist[v] = st.dist[v]
    BY <2>1, <2>2, <2>4
  <2>5. CASE Linked(gr, u, v) /\ new.dist[v] = st.dist[u] + LinkCost(gr, b, u, v)
    <3>1. W[k][v] <= W[k - 1][u] + LinkCost(gr, b, u, v)
      BY <1>0, <2>3, <2>5, LongerWalks
    <3>2. W[k - 1][u] <= st.dist[u] /\ LinkCost(gr, b, u, v) \in Nat
      BY <1>0, <2>1, <2>2, <2>5, CostsAreBounded
    <3> QED
      BY <1>0, <2>3, <2>5, <3>1, <3>2
  <2> QED
    BY <1>3, <2>4, <2>5
<1> QED
  BY <1>4, <1>5

LEMMA IterationKeepsPrev ==
    ASSUME NoWrap, NEW gr \in Clones, NEW b \in Measures, NEW src \in Nodes, NEW st,
           Searching(gr, src, b, st), NEW u, NEW new, Iteration(gr, b, st, u, new)
    PROVE  PrevInv(gr, src, b, new)
<1>a. ASSUME PositiveCosts
      PROVE  new.prev[src] = << >>
  <2>1. st.dist[src] = 0 /\ st.prev[src] = << >>
    BY <1>a DEF Searching, PrevInv
  <2>2. u \in Nodes /\ st.dist[u] \in 0 .. Infinite /\ Infinite \in Nat
    BY NodesAreFinite DEF Searching, SearchType, Iteration
  <2>3. Linked(gr, u, src) =>
           LinkCost(gr, b, u, src) \in Nat /\ LinkCost(gr, b, u, src) > 0
    BY <1>a, <2>2, CostsAreBounded
  <2>4. Linked(gr, u, src) => st.dist[u] + LinkCost(gr, b, u, src) > st.dist[src]
    BY <2>1, <2>2, <2>3
  <2>5. Linked(gr, u, src) =>
           /\ ~ (st.dist[u] + LinkCost(gr, b, u, src) < st.dist[src])
           /\ ~ (st.dist[u] + LinkCost(gr, b, u, src) = st.dist[src])
    BY <2>1, <2>2, <2>3
  <2> QED
    BY <2>1, <2>5 DEF Iteration
<1>b. ASSUME PositiveCosts, NEW v \in Nodes \ {src}, new.dist[v] < Infinite
      PROVE  new.prev[v] # << >>
  <2>1. st.dist[v] < Infinite => st.prev[v] # << >>
    BY <1>b DEF Searching, PrevInv
  <2>2. ToSet(<< >>) = {}
    BY DEF ToSet
  <2> QED
    BY <1>b, <2>1, <2>2 DEF Iteration
<1> SUFFICES ASSUME PositiveCosts, NEW v \in Nodes \ {src}, new.dist[v] < Infinite
             PROVE  ToSet(new.prev[v]) = Attaining(gr, b, new, v)
  BY <1>a, <1>b DEF PrevInv
<1> DEFINE C(x) == LinkCost(gr, b, x, v)
<1>0. /\ Infinite \in Nat /\ u \in Nodes /\ v \in Nodes
      /\ \A x \in Nodes : st.dist[x] \in 0 .. Infinite /\ new.dist[x] \in 0 .. Infinite
      /\ Extracted(new) = Extracted(st) \cup {u} /\ new.Q = st.Q \ {u}
      /\ st.Q \in SUBSET Nodes
  BY NodesAreFinite DEF Searching, SearchType, Iteration, Extracted
<1>1. \A x \in Extracted(new) : x \in Nodes /\ new.dist[x] = st.dist[x]
  BY <1>0 DEF Iteration, Extracted
<1>2. \A x \in Nodes : Linked(gr, x, v) => C(x) \in Nat /\ C(x) > 0
  BY CostsAreBounded
<1>3. st.dist[v] < Infinite => ToSet(st.prev[v]) = Attaining(gr, b, st, v)
  BY DEF Searching, PrevInv
<1>4. \A x \in Extracted(st) : Linked(gr, x, v) => st.dist[v] <= st.dist[x] + C(x)
  BY DEF Searching, RelaxedInv
<1> HIDE DEF C
<1>5. Attaining(gr, b, new, v) =
         {x \in Extracted(st) \cup {u} :
             Linked(gr, x, v) /\ new.dist[v] = st.dist[x] + C(x)}
  BY <1>0, <1>1 DEF Attaining, C
<1>6. Attaining(gr, b, st, v) =
         {x \in Extracted(st) : Linked(gr, x, v) /\ st.dist[v] = st.dist[x] + C(x)}
  BY DEF Attaining, C
<1>7. CASE /\ v \in new.Q /\ Linked(gr, u, v)
           /\ st.dist[u] + C(u) < st.dist[v]
           /\ new.dist[v] = st.dist[u] + C(u)
           /\ ToSet(new.prev[v]) = {u}
  <2>1. ASSUME NEW x \in Extracted(st), Linked(gr, x, v)
        PROVE  new.dist[v] # st.dist[x] + C(x)
    <3>1. x \in Nodes /\ st.dist[v] <= st.dist[x] + C(x)
      BY <1>4, <2>1 DEF Extracted
    <3> QED
      BY <1>0, <1>2, <1>7, <2>1, <3>1
  <2> QED
    BY <1>5, <1>7, <2>1
<1>8. CASE /\ v \in new.Q /\ Linked(gr, u, v)
           /\ st.dist[u] + C(u) = st.dist[v]
           /\ new.dist[v] = st.dist[v]
           /\ ToSet(new.prev[v]) = ToSet(st.prev[v]) \cup {u}
  BY <1>3, <1>5, <1>6, <1>8
<1>9. CASE /\ \/ v \notin new.Q \/ ~ Linked(gr, u, v)
              \/ st.dist[u] + C(u) > st.dist[v]
           /\ new.dist[v] = st.dist[v]
           /\ new.prev[v] = st.prev[v]
  <2>1. ASSUME Linked(gr, u, v)
        PROVE  new.dist[v] # st.dist[u] + C(u)
    <3>1. C(u) \in Nat /\ C(u) > 0
      BY <1>0, <1>2, <2>1
    <3>2. CASE v \notin new.Q
      <4>1. v \in Extracted(st) \/ v = u
        BY <1>0, <3>2 DEF Extracted
      <4>2. st.dist[v] <= st.dist[u]
        BY <1>0, <4>1 DEF Searching, OrderInv, Iteration
      <4> QED
        BY <1>0, <1>9, <3>1, <4>2
    <3>3. CASE st.dist[u] + C(u) > st.dist[v]
      BY <1>0, <1>9, <3>1, <3>3
    <3> QED
      BY <1>9, <2>1, <3>2, <3>3
  <2> QED
    BY <1>3, <1>5, <1>6, <1>9, <2>1
<1> QED
  BY <1>0, <1>7, <1>8, <1>9 DEF Iteration, C

LEMMA SearchGoesOn ==
    ASSUME NoWrap, NEW gr \in Clones, NEW b \in Measures, NEW src \in Nodes, NEW st,
           Searching(gr, src, b, st), Open(st) # {}
    PROVE  Searching(gr, src, b, Extract(gr, b, st))
<1>1. /\ Iteration(gr, b, st, Nearest(st), Extract(gr, b, st))
      /\ Cardinality(Extracted(st)) \in 0 .. N - 1
      /\ \A v \in Nodes : Linked(gr, Nearest(st), v) =>
            st.dist[Nearest(st)] + LinkCost(gr, b, Nearest(st), v)
                <= (Cardinality(Extracted(st)) + 1) * MaxCost
  BY ExtractIsIteration
<1>2. /\ SearchType(Extract(gr, b, st)) /\ Extract(gr, b, st).dist[src] = 0
      /\ OrderInv(Extract(gr, b, st)) /\ RelaxedInv(gr, b, Extract(gr, b, st))
  BY <1>1, IterationKeepsOrder
<1>3. SmallInv(Extract(gr, b, st)) /\ UpperInv(gr, src, b, Extract(gr, b, st))
  BY <1>1, IterationKeepsUpper
<1>4. PrevInv(gr, src, b, Extract(gr, b, st))
  BY <1>1, IterationKeepsPrev
<1> QED
  BY <1>2, <1>3, <1>4 DEF Searching

-----------------------------------------------------------------------------
(***************************************************************************)
(* The invariant                                                           *)
(***************************************************************************)
LEMMA RequestTypes ==
    ASSUME req \in Requests
    PROVE  /\ Targets \in Seq(Nodes) /\ Len(Targets) \in Nat /\ Len(Targets) >= 1
           /\ req.bw \in Nat /\ req.src \in Nodes /\ req.byDelay \in Measures
           /\ \A k \in 1 .. Len(Targets) : Targets[k] \in Nodes /\ Source(k) \in Nodes
<1>1. req.via \in Seq(Nodes) /\ req.dst \in Nodes /\ req.src \in Nodes /\ req.bw \in Nat
  BY RequestAssumption
<1>2. <<req.dst>> \in Seq(Nodes) /\ Len(<<req.dst>>) = 1
  BY <1>1
<1>3. Targets \in Seq(Nodes) /\ Len(Targets) = Len(req.via) + 1
  BY <1>1, <1>2 DEF Targets
<1>4. Len(req.via) \in Nat
  BY <1>1
<1>5. \A k \in 1 .. Len(Targets) : Targets[k] \in Nodes
  BY <1>3
<1>6. ASSUME NEW k \in 1 .. Len(Targets)
      PROVE  Source(k) \in Nodes
  <2>1. k # 1 => k - 1 \in 1 .. Len(Targets)
    BY <1>3, <1>4
  <2> QED
    BY <1>1, <1>5, <2>1 DEF Source
<1>7. req.byDelay \in Measures
  BY DEF Measures
<1> QED
  BY <1>1, <1>3, <1>4, <1>5, <1>6, <1>7

LEMMA LegSourceIsSource ==
    ASSUME Ordinary
    PROVE  /\ LegSource = Source(leg) /\ LegSource \in Nodes
           /\ Targets[leg] \in Nodes /\ req.byDelay \in Measures
BY RequestTypes DEF Ordinary, LegSource, Source

LEMMA PruneIsWide ==
    ASSUME g \in Graphs, req \in Requests
    PROVE  Prune(g) = {e \in g : e.bw >= req.bw} /\ Prune(g) \in Clones
<1>1. \A e \in g : e.bw \in Nat
  BY GraphAssumption
<1>2. req.bw = 0 => g = {e \in g : e.bw >= req.bw}
  BY <1>1
<1>3. Prune(g) = {e \in g : e.bw >= req.bw}
  BY <1>2 DEF Prune
<1>4. Prune(g) \in SUBSET g
  BY <1>3
<1> QED
  BY <1>3, <1>4 DEF Clones

\* The targets that a finished search has not reached are those that no path
\* of wide enough links leads to.
LEMMA LegIsCut ==
    ASSUME NoWrap, IInv, phase = "search", Open(d) = {}
    PROVE  Targets[leg] \in d.Q <=> NoPathFor(leg)
<1>1. gc = {e \in g : e.bw >= req.bw} /\ gc \in Clones
  BY PruneIsWide DEF IInv, CloneInv, Ordinary
<1>2. /\ LegSource = Source(leg) /\ LegSource \in Nodes
      /\ Targets[leg] \in Nodes /\ req.byDelay \in Measures
  BY LegSourceIsSource DEF IInv
<1>3. Searching(gc, LegSource, req.byDelay, d)
  BY DEF IInv, SearchInv
<1>4. Targets[leg] \in d.Q
         <=> Distance(gc, LegSource, req.byDelay)[Targets[leg]] >= Infinite
  BY <1>1, <1>2, <1>3, LeftIsCut
<1> QED
  BY <1>1, <1>2, <1>4 DEF NoPathFor

LEMMA InitInv ==
    ASSUME NoWrap, Init
    PROVE  IInv
<1>1. Ordinary
  BY RequestTypes DEF Init, Ordinary, Phases
<1>2. CloneInv /\ SearchInv
  BY DEF Init, CloneInv, SearchInv
<1>3. LegsInv
  BY DEF Init, LegsInv
<1> QED
  BY <1>1, <1>2, <1>3 DEF IInv

\* The legs and what is searched stay the same.
SameRequest == g' = g /\ req' = req

LEMMA Unmoved ==
    ASSUME SameRequest
    PROVE  /\ Targets' = Targets
           /\ \A k : Source(k)' = Source(k) /\ NoPathFor(k)' = NoPathFor(k)
           /\ Prune(g)' = Prune(g)
BY DEF SameRequest, Targets, Source, NoPathFor, Prune

LEMMA CloneStep ==
    ASSUME NoWrap, IInv, Clone
    PROVE  IInv'
<1>1. SameRequest /\ phase = "clone" /\ leg' = leg /\ d' = d
  BY DEF Clone, SameRequest
<1>2. leg = 1 /\ d = Start(req.src)
  BY <1>1 DEF IInv, CloneInv
<1>3. Ordinary'
  BY <1>1, Unmoved DEF IInv, Ordinary, Clone, Phases, SameRequest
<1>4. CloneInv'
  BY <1>1, Unmoved DEF Clone, CloneInv, SameRequest
<1>5. SearchInv'
  <2>1. gc' \in Clones /\ req.src \in Nodes /\ req.byDelay \in Measures
    BY PruneIsWide, RequestTypes DEF IInv, Ordinary, Clone
  <2>2. Searching(gc', req.src, req.byDelay, Start(req.src))
    BY <2>1, SearchStarts
  <2>3. LegSource' = req.src
    BY <1>1, <1>2 DEF LegSource, SameRequest
  <2> QED
    BY <1>1, <1>2, <2>2, <2>3 DEF SearchInv, SameRequest
<1>6. LegsInv'
  BY <1>1, <1>2 DEF LegsInv, Clone
<1> QED
  BY <1>3, <1>4, <1>5, <1>6 DEF IInv

LEMMA SearchStep ==
    ASSUME NoWrap, IInv, Search
    PROVE  IInv'
<1>1. /\ SameRequest /\ phase = "search" /\ phase' = phase /\ leg' = leg /\ gc' = gc
      /\ d' = Extract(gc, req.byDelay, d) /\ Open(d) # {}
  BY DEF Search, SameRequest
<1>2. Ordinary' /\ CloneInv'
  BY <1>1, Unmoved DEF IInv, Ordinary, CloneInv, SameRequest
<1>3. SearchInv'
  <2>1. gc \in Clones /\ LegSource \in Nodes /\ req.byDelay \in Measures
    BY <1>1, PruneIsWide, LegSourceIsSource DEF IInv, Ordinary, CloneInv
  <2>2. Searching(gc, LegSource, req.byDelay, d)
    BY <1>1 DEF IInv, SearchInv
  <2>3. Searching(gc, LegSource, req.byDelay, Extract(gc, req.byDelay, d))
    BY <1>1, <2>1, <2>2, SearchGoesOn
  <2>4. LegSource' = LegSource
    BY <1>1, Unmoved DEF LegSource, SameRequest
  <2> QED
    BY <1>1, <2>3, <2>4 DEF SearchInv, SameRequest
<1>4. LegsInv'
  BY <1>1, Unmoved DEF IInv, LegsInv
<1> QED
  BY <1>2, <1>3, <1>4 DEF IInv

LEMMA ChoosePathStep ==
    ASSUME NoWrap, IInv, ChoosePath
    PROVE  IInv'
<1>1. /\ SameRequest /\ phase = "search" /\ phase' = "minseg" /\ leg' = leg
      /\ gc' = gc /\ Open(d) = {} /\ Targets[leg] \notin d.Q
  BY DEF ChoosePath, SameRequest
<1>2. Ordinary' /\ CloneInv' /\ SearchInv'
  BY <1>1, Unmoved DEF IInv, Ordinary, CloneInv, SearchInv, SameRequest, Phases
<1>3. LegsInv'
  <2>1. ~ NoPathFor(leg)
    BY <1>1, LegIsCut
  <2> QED
    BY <1>1, <2>1, Unmoved DEF IInv, LegsInv
<1> QED
  BY <1>2, <1>3 DEF IInv

LEMMA NoPathStep ==
    ASSUME NoWrap, IInv, NoPath
    PROVE  IInv'
<1>1. /\ SameRequest /\ phase = "search" /\ phase' = "refused" /\ leg' = leg
      /\ gc' = gc /\ Open(d) = {} /\ Targets[leg] \in d.Q
  BY DEF NoPath, SameRequest
<1>2. Ordinary' /\ CloneInv' /\ SearchInv'
  BY <1>1, Unmoved DEF IInv, Ordinary, CloneInv, SearchInv, SameRequest, Phases
<1>3. LegsInv'
  <2>1. NoPathFor(leg)
    BY <1>1, LegIsCut
  <2> QED
    BY <1>1, <2>1, Unmoved DEF IInv, LegsInv
<1> QED
  BY <1>2, <1>3 DEF IInv

LEMMA HopStep ==
    ASSUME IInv, Hop
    PROVE  IInv'
<1>1. /\ SameRequest /\ phase = "minseg" /\ phase' = phase /\ leg' = leg /\ gc' = gc
  BY DEF Hop, SameRequest
<1>2. Ordinary' /\ CloneInv' /\ SearchInv'
  BY <1>1, Unmoved DEF IInv, Ordinary, CloneInv, SearchInv, SameRequest
<1>3. LegsInv'
  BY <1>1, Unmoved DEF IInv, LegsInv
<1> QED
  BY <1>2, <1>3 DEF IInv

LEMMA LegDoneStep ==
    ASSUME NoWrap, IInv, LegDone
    PROVE  IInv'
<1>1. SameRequest /\ phase = "minseg" /\ gc' = gc /\ gc = Prune(g)
  BY DEF LegDone, SameRequest, IInv, CloneInv
<1>2. /\ Len(Targets) \in Nat /\ leg \in 1 .. Len(Targets)
      /\ \A k \in 1 .. leg : ~ NoPathFor(k)
  <2>1. Len(Targets) \in Nat /\ leg \in 1 .. Len(Targets)
    BY RequestTypes DEF IInv, Ordinary
  <2>2. (\A k \in 1 .. leg - 1 : ~ NoPathFor(k)) /\ ~ NoPathFor(leg)
    BY <1>1 DEF IInv, LegsInv
  <2> QED
    BY <2>1, <2>2
<1>3. CASE leg < Len(Targets)
  <2>1. leg' = leg + 1 /\ d' = Start(Targets[leg]) /\ phase' = "search"
    BY <1>3 DEF LegDone
  <2>2. Ordinary' /\ CloneInv'
    BY <1>1, <1>2, <1>3, <2>1, Unmoved
       DEF IInv, Ordinary, CloneInv, SameRequest, Phases
  <2>3. SearchInv'
    <3>1. gc \in Clones /\ Targets[leg] \in Nodes /\ req.byDelay \in Measures
      BY <1>1, PruneIsWide, LegSourceIsSource DEF IInv, Ordinary
    <3>2. Searching(gc, Targets[leg], req.byDelay, Start(Targets[leg]))
      BY <3>1, SearchStarts
    <3>3. LegSource' = Targets[leg]
      BY <1>1, <1>2, <2>1, Unmoved DEF LegSource
    <3> QED
      BY <1>1, <2>1, <3>2, <3>3 DEF SearchInv, SameRequest
  <2>4. LegsInv'
    BY <1>1, <1>2, <2>1, Unmoved DEF LegsInv
  <2> QED
    BY <2>2, <2>3, <2>4 DEF IInv
<1>4. CASE ~ (leg < Len(Targets))
  <2>1. phase' = "done" /\ leg' = leg /\ leg = Len(Targets)
    BY <1>2, <1>4 DEF LegDone
  <2>2. Ordinary' /\ CloneInv' /\ SearchInv'
    BY <1>1, <1>2, <2>1, Unmoved
       DEF IInv, Ordinary, CloneInv, SearchInv, SameRequest, Phases
  <2>3. LegsInv'
    BY <1>1, <1>2, <2>1, Unmoved DEF LegsInv
  <2> QED
    BY <2>2, <2>3 DEF IInv
<1> QED
  BY <1>3, <1>4

LEMMA NextInv ==
    ASSUME NoWrap, IInv, [Next]_vars
    PROVE  IInv'
<1>1. ASSUME UNCHANGED vars
      PROVE  IInv'
  <2>1. SameRequest /\ phase' = phase /\ leg' = leg /\ gc' = gc /\ d' = d
    BY <1>1 DEF vars, SameRequest
  <2>2. Ordinary' /\ CloneInv' /\ LegsInv'
    BY <2>1, Unmoved DEF IInv, Ordinary, CloneInv, LegsInv, SameRequest
  <2>3. SearchInv'
    BY <2>1, Unmoved DEF IInv, SearchInv, LegSource, SameRequest
  <2> QED
    BY <2>2, <2>3 DEF IInv
<1> QED
  BY <1>1, CloneStep, SearchStep, ChoosePathStep, NoPathStep, HopStep, LegDoneStep
     DEF Next

\* IInv holds in every reachable state, as long as no sum of costs wraps.
THEOREM Invariance ==
    ASSUME NoWrap
    PROVE  Spec => []IInv
<1>1. Init => IInv
  BY InitInv
<1>2. IInv /\ [Next]_vars => IInv'
  BY NextInv
<1> QED
  BY <1>1, <1>2, PTL DEF Spec

-----------------------------------------------------------------------------
\* For any graph and any request whose costs do not wrap and are not 0,
\* graph_dijkstra has given every node that left the queue its distance by
\* Bellman's equations and exactly its equal-cost predecessors.
THEOREM DistancesAreShortest ==
    ASSUME NoWrap, PositiveCosts
    PROVE  Spec => []SearchIsExact
<1>1. ASSUME IInv, phase = "search", NEW v \in Nodes \ d.Q
      PROVE  LET ref == Distance(gc, LegSource, req.byDelay)
             IN  /\ d.dist[v] = ref[v]
                 /\ v # LegSource =>
                      ToSet(d.prev[v]) =
                        {u \in Nodes : /\ Linked(gc, u, v)
                                       /\ ref[v] = ref[u]
                                            + Cost(MinEdge(gc, u, v), req.byDelay)}
  <2> DEFINE ref == Distance(gc, LegSource, req.byDelay)
             C(u) == LinkCost(gc, req.byDelay, u, v)
  <2>1. gc \in Clones /\ LegSource \in Nodes /\ req.byDelay \in Measures
    BY <1>1, PruneIsWide, LegSourceIsSource DEF IInv, Ordinary, CloneInv
  <2>2. Searching(gc, LegSource, req.byDelay, d)
    BY <1>1 DEF IInv, SearchInv
  <2>3. /\ \A u \in Extracted(d) : d.dist[u] = ref[u]
        /\ \A u \in Extracted(d), w \in d.Q : d.dist[u] <= ref[w]
        /\ ref \in [Nodes -> Nat]
    BY <2>1, <2>2, ExtractedIsExact
  <2>4. \A u \in Nodes : Linked(gc, u, v) => C(u) \in Nat /\ C(u) > 0
    BY <2>1, CostsAreBounded
  <2>5. v \in Extracted(d) /\ v \in Nodes /\ d.dist[v] < Infinite
    BY <2>2 DEF Extracted, Searching, OrderInv
  <2>6. ASSUME v # LegSource
        PROVE  ToSet(d.prev[v]) =
                  {u \in Nodes : Linked(gc, u, v) /\ ref[v] = ref[u] + C(u)}
    <3>1. ToSet(d.prev[v]) = Attaining(gc, req.byDelay, d, v)
      BY <2>2, <2>5, <2>6 DEF Searching, PrevInv
    <3>2. Attaining(gc, req.byDelay, d, v) =
             {u \in Extracted(d) : Linked(gc, u, v) /\ d.dist[v] = d.dist[u] + C(u)}
      BY DEF Attaining
    <3> HIDE DEF ref, C
    <3>3. ASSUME NEW u \in Nodes \ Extracted(d), Linked(gc, u, v)
          PROVE  ref[v] # ref[u] + C(u)
      <4>1. u \in d.Q /\ C(u) \in Nat /\ C(u) > 0
        BY <2>4, <3>3 DEF Extracted
      <4>2. ref[v] <= ref[u] /\ ref[u] \in Nat /\ ref[v] \in Nat
        BY <2>3, <2>5, <4>1
      <4> QED
        BY <4>1, <4>2
    <3>4. \A u \in Extracted(d) : u \in Nodes /\ d.dist[u] = ref[u]
      BY <2>3 DEF Extracted
    <3> QED
      BY <2>5, <3>1, <3>2, <3>3, <3>4
  <2> QED
    BY <2>3, <2>5, <2>6 DEF LinkCost
<1>2. IInv => SearchIsExact
  BY <1>1 DEF SearchIsExact
<1> QED
  BY <1>2, Invariance, PTL

\* build_segpath refuses a request exactly when one of its legs has no path of
\* links with the bandwidth asked for, for any graph and any way points.
THEOREM RefusalsAreRight ==
    ASSUME NoWrap
    PROVE  Spec => []RefusedIffCut
<1>1. IInv => RefusedIffCut
  <2> SUFFICES ASSUME IInv PROVE RefusedIffCut
    OBVIOUS
  <2>1. phase = "refused" => NoPathFor(leg)
    BY DEF IInv, LegsInv
  <2>2. ASSUME phase = "done", NEW k \in 1 .. Len(Targets)
        PROVE  ~ NoPathFor(k)
    <3>1. Len(Targets) \in Nat /\ leg = Len(Targets)
      BY <2>2, RequestTypes DEF IInv, Ordinary, LegsInv
    <3>2. (\A i \in 1 .. leg - 1 : ~ NoPathFor(i)) /\ ~ NoPathFor(leg)
      BY <2>2 DEF IInv, LegsInv
    <3> QED
      BY <3>1, <3>2
  <2> QED
    BY <2>1, <2>2 DEF RefusedIffCut, NoPathFor, Source
<1> QED
  BY <1>1, Invariance, PTL

-----------------------------------------------------------------------------
(***************************************************************************)
(* The segments pin the path.  While graph_minseg encodes a leg, the       *)
(* segments so far lead a packet along the computed way to the root and    *)
(* nowhere else, and from the root there is one shortest path to where     *)
(* graph_minseg is, which is the rest of the way (Led).                    *)
(***************************************************************************)
\* The set of x alone.
Only(x) == {x}

Segments == [adjacency : {FALSE}, node : Nodes] \cup [adjacency : {TRUE}, edge : UNION Graphs]

\* Every hop of w is over a link that is wide enough.
Wide(w) == \A k \in 1 .. Len(w) - 1 : Linked(Prune(g), w[k], w[k + 1])

\* The path is computed on the graph, and by the measure, the routers use.
Plain == req.bw = 0 /\ ~ req.byDelay

\* The way to where the encoding is.
Reached == IF phase = "minseg" THEN Computed \o SubSeq(path, 2, hop) ELSE Computed

\* What is known of the way.
WayInv ==
    /\ fpath \in Seq(Nodes)
    /\ Computed \in Seq(Nodes) /\ Computed # << >>
    /\ phase # "done" => Last(Computed) = LegSource
    /\ Wide(Reached)
    /\ Plain => ~ Strays(g, Reached)

\* What is known of the path of this leg.
PathInv ==
    phase = "minseg" =>
        /\ path \in Seq(Nodes) /\ hop \in 1 .. Len(path)
        /\ path[1] = LegSource /\ path[Len(path)] = Targets[leg]
        /\ \A k \in 1 .. Len(path) - 1 :
              /\ path[k] # path[k + 1]
              /\ Linked(Prune(g), path[k], path[k + 1])
              /\ Plain => ~ Stray(g, path[k], path[k + 1])

\* The segments lead to the root, and from there one path leads on to the
\* node that graph_minseg is at.
Led ==
    \E r \in 1 .. hop :
        /\ root = path[r]
        /\ Walks(g, req.src, segs) = Only(Computed \o SubSeq(path, 2, r))
        /\ ShortestPaths(g, root, path[hop]) = Only(SubSeq(path, r, hop))

\* An adjacency at the end of the segments ends at n.
EndsAt(list, n) ==
    list # << >> /\ Last(list).adjacency => Last(list).edge.remote = n

PinInv ==
    /\ segs \in Seq(Segments)
    /\ \/ Strays(g, Reached)
       \/ phase = "minseg" /\ Led
       \/ phase # "minseg" /\ Walks(g, req.src, segs) = Only(Computed)
    /\ phase = "minseg" => root \in Nodes /\ EndsAt(segs, root)
    /\ phase \in {"clone", "search"} => EndsAt(segs, LegSource)

Pins == phase # "refused" => WayInv /\ PathInv /\ PinInv
-----------------------------------------------------------------------------
(***************************************************************************)
(* The searches of the full graph                                          *)
(***************************************************************************)
LEMMA GraphsAreClones ==
    ASSUME NEW gr \in Graphs
    PROVE  gr \in Clones /\ FALSE \in Measures
BY DEF Clones, Measures

\* A sequence of values, each made of the one before it.
Iterates(f, n, S, a, step) ==
    /\ f \in [0 .. n -> S] /\ f[0] = a
    /\ \A k \in 1 .. n : f[k] = step[f[k - 1]]

LEMMA Recursion ==
    ASSUME NEW n \in Nat, NEW S, NEW a \in S, NEW step \in [S -> S]
    PROVE  \E f : Iterates(f, n, S, a, step)
<1> DEFINE P == {i \in 0 .. n : \E f : Iterates(f, i, S, a, step)}
<1>1. 0 \in P
  <2>1. Iterates([k \in 0 .. 0 |-> a], 0, S, a, step)
    BY DEF Iterates
  <2> QED
    BY <2>1
<1>2. ASSUME NEW i \in 0 .. n - 1, i \in P
      PROVE  i + 1 \in P
  <2>1. PICK f : Iterates(f, i, S, a, step)
    BY <1>2
  <2> DEFINE h == [k \in 0 .. i + 1 |-> IF k <= i THEN f[k] ELSE step[f[i]]]
  <2>2. h \in [0 .. i + 1 -> S] /\ h[0] = a
    BY <2>1 DEF Iterates
  <2>3. ASSUME NEW k \in 1 .. i + 1
        PROVE  h[k] = step[h[k - 1]]
    <3>1. CASE k <= i
      BY <2>1, <3>1 DEF Iterates
    <3>2. CASE k = i + 1
      BY <3>2
    <3> QED
      BY <3>1, <3>2
  <2>4. Iterates(h, i + 1, S, a, step)
    BY <2>2, <2>3 DEF Iterates
  <2> QED
    BY <2>4
<1> HIDE DEF P
<1>3. n \in P
  BY <1>1, <1>2, UpTo
<1> QED
  BY <1>3 DEF P

LEMMA DijkstraEnds ==
    ASSUME NoWrap, NEW gr \in Clones, NEW src \in Nodes
    PROVE  /\ Searching(gr, src, FALSE, Dijkstra(gr, src))
           /\ Open(Dijkstra(gr, src)) = {}
<1> DEFINE States == [Q : SUBSET Nodes, dist : [Nodes -> 0 .. Infinite],
                      prev : [Nodes -> Seq(Nodes)]]
           S == {st \in States : Searching(gr, src, FALSE, st)}
           Step(st) == IF Open(st) = {} THEN st ELSE Extract(gr, FALSE, st)
           step == [st \in S |-> Step(st)]
           F(h) == [k \in 0 .. N |-> IF k = 0 THEN Start(src) ELSE Step(h[k - 1])]
           run == CHOOSE h : h = F(h)
<1>0. N \in Nat /\ FALSE \in Measures
  BY NodesAreFinite DEF Measures
<1>1. Start(src) \in S
  <2>1. Searching(gr, src, FALSE, Start(src))
    BY <1>0, SearchStarts
  <2>2. Start(src) \in States
    BY <2>1 DEF Searching, SearchType, Start
  <2> QED
    BY <2>1, <2>2
<1>2. ASSUME NEW st \in S
      PROVE  Step(st) \in S
  <2>1. CASE Open(st) # {}
    <3>1. Searching(gr, src, FALSE, Extract(gr, FALSE, st))
      BY <1>0, <2>1, SearchGoesOn
    <3>2. Extract(gr, FALSE, st) \in States
      BY <3>1 DEF Searching, SearchType, Extract
    <3> QED
      BY <2>1, <3>1, <3>2
  <2> QED
    BY <2>1
<1>3. step \in [S -> S]
  BY <1>2
<1> HIDE DEF S, Step
<1>4. PICK f : Iterates(f, N, S, Start(src), step)
  <2> HIDE DEF step
  <2>1. N \in Nat
    BY <1>0
  <2> QED
    BY <2>1, <1>1, <1>3, Recursion
<1>5. f = F(f)
  <2>1. ASSUME NEW k \in 1 .. N
        PROVE  f[k] = Step(f[k - 1])
    <3>1. k - 1 \in 0 .. N
      BY <1>0
    <3>2. f[k - 1] \in S
      BY <1>4, <3>1 DEF Iterates
    <3> QED
      BY <1>4, <3>2 DEF Iterates
  <2> QED
    BY <1>0, <1>4, <2>1 DEF Iterates
<1>6. run = F(run)
  BY <1>5, Zenon
<1>7. Dijkstra(gr, src) = run[N]
  BY DEF Dijkstra, N, Step
<1> HIDE DEF run
<1>8. run[0] = Start(src) /\ \A k \in 1 .. N : run[k] = Step(run[k - 1])
  BY <1>0, <1>6
<1> DEFINE P == {k \in 0 .. N :
                    /\ run[k] \in S
                    /\ Open(run[k]) = {} \/ Cardinality(Extracted(run[k])) = k}
<1>9. 0 \in P
  <2>1. Extracted(Start(src)) = {}
    BY DEF Extracted, Start
  <2> QED
    BY <1>0, <1>1, <1>8, <2>1, FS_EmptySet
<1>10. ASSUME NEW k \in 0 .. N - 1, k \in P
       PROVE  k + 1 \in P
  <2>1. run[k + 1] = Step(run[k]) /\ run[k + 1] \in S /\ k + 1 \in 0 .. N
    BY <1>0, <1>2, <1>8, <1>10
  <2>2. CASE Open(run[k]) = {}
    BY <2>1, <2>2 DEF Step
  <2>3. CASE Open(run[k]) # {}
    <3>1. Searching(gr, src, FALSE, run[k]) /\ Cardinality(Extracted(run[k])) = k
      BY <1>10, <2>3 DEF S
    <3>2. Iteration(gr, FALSE, run[k], Nearest(run[k]), run[k + 1])
      BY <1>0, <2>1, <2>3, <3>1, ExtractIsIteration DEF Step
    <3>3. /\ Extracted(run[k + 1]) = Extracted(run[k]) \cup {Nearest(run[k])}
          /\ Nearest(run[k]) \notin Extracted(run[k])
      BY <3>1, <3>2 DEF Iteration, Extracted, Searching, SearchType
    <3>4. IsFiniteSet(Extracted(run[k]))
      BY GraphAssumption, FS_Subset DEF Extracted
    <3>5. Cardinality(Extracted(run[k + 1])) = k + 1
      BY <3>1, <3>3, <3>4, FS_AddElement
    <3> QED
      BY <2>1, <3>5
  <2> QED
    BY <2>2, <2>3
<1> HIDE DEF P
<1>11. N \in P
  <2>1. N \in Nat /\ N \in 0 .. N
    BY <1>0
  <2>2. \A k \in 0 .. N : k \in P
    BY <2>1, <1>9, <1>10, UpTo, Zenon
  <2> QED
    BY <2>1, <2>2
<1>12. run[N] \in S /\ (Open(run[N]) = {} \/ Cardinality(Extracted(run[N])) = N)
  BY <1>11 DEF P
<1>13. Searching(gr, src, FALSE, run[N])
  BY <1>12 DEF S
<1>14. ASSUME Cardinality(Extracted(run[N])) = N
       PROVE  Open(run[N]) = {}
  <2>1. Extracted(run[N]) = Nodes
    BY <1>14, NodesAreFinite DEF Extracted
  <2> QED
    BY <1>13, <2>1 DEF Extracted, Open, Searching, SearchType
<1> QED
  BY <1>7, <1>12, <1>13, <1>14

\* What a router knows of its neighbour v.
LEMMA NeighbourIsFound ==
    ASSUME NoWrap, PositiveCosts, NEW gr \in Clones, NEW u \in Nodes, NEW v \in Nodes,
           Linked(gr, u, v), u # v
    PROVE  /\ Dijkstra(gr, u).prev \in [Nodes -> Seq(Nodes)]
           /\ Dijkstra(gr, u).prev[u] = << >>
           /\ Dijkstra(gr, u).prev[v] # << >>
<1> DEFINE st == Dijkstra(gr, u)
<1>0. Infinite \in Nat /\ N \in Nat /\ FALSE \in Measures /\ Infinite > 0
  BY NodesAreFinite DEF Measures
<1>1. Searching(gr, u, FALSE, st) /\ Open(st) = {}
  BY DijkstraEnds
<1> HIDE DEF st
<1>2. /\ st.prev \in [Nodes -> Seq(Nodes)] /\ st.dist[u] = 0
      /\ st.dist[v] \in 0 .. Infinite
  BY <1>1 DEF Searching, SearchType
<1>3. u \in Extracted(st)
  BY <1>0, <1>1, <1>2 DEF Extracted, Open
<1> DEFINE c == LinkCost(gr, FALSE, u, v)
<1>4. st.dist[v] <= st.dist[u] + c
  BY <1>1, <1>3 DEF Searching, RelaxedInv
<1>5. c \in Nat /\ c < Infinite
  <2>1. MinEdge(gr, u, v) \in Parallel(gr, u, v)
    BY MinEdgeIsOne
  <2>2. c \in Nat
    BY <1>0, CostsAreBounded
  <2> QED
    BY <2>1, <2>2 DEF Parallel, LinkCost, Cost
<1> HIDE DEF c
<1>6. st.dist[v] < Infinite
  BY <1>0, <1>2, <1>4, <1>5
<1> QED
  BY <1>1, <1>2, <1>6 DEF Searching, PrevInv, st

-----------------------------------------------------------------------------
(***************************************************************************)
(* Sequences                                                               *)
(***************************************************************************)
\* A sequence that is not empty, and one of one element.
LEMMA Filled ==
    ASSUME NEW S, NEW s \in Seq(S), s # << >>
    PROVE  Len(s) \in Nat /\ Len(s) >= 1
BY EmptySeq

LEMMA Single ==
    ASSUME NEW S, NEW x \in S
    PROVE  /\ <<x>> \in Seq(S) /\ Len(<<x>>) = 1 /\ <<x>>[1] = x /\ <<x>> # << >>
           /\ \A s \in Seq(S) : s # << >> /\ Len(s) <= 1 /\ s[1] = x => s = <<x>>
<1>1. <<x>> \in Seq(S) /\ Len(<<x>>) = 1 /\ <<x>>[1] = x /\ <<x>> # << >>
  OBVIOUS
<1>2. ASSUME NEW s \in Seq(S), s # << >>, Len(s) <= 1, s[1] = x
      PROVE  s = <<x>>
  <2>1. PICK n \in Nat : n = Len(s)
    OBVIOUS
  <2>2. n = 1
    BY <1>2, <2>1, Filled
  <2>3. Len(s) = Len(<<x>>)
    BY <1>1, <2>1, <2>2
  <2>4. \A i \in 1 .. Len(s) : s[i] = <<x>>[i]
    BY <1>1, <1>2, <2>1, <2>2
  <2> QED
    BY <1>1, <2>3, <2>4, SeqEqual
<1> QED
  BY <1>1, <1>2

\* A sequence whose ends differ has two elements.
LEMMA TwoEnds ==
    ASSUME NEW S, NEW s \in Seq(S), s # << >>, s[1] # s[Len(s)]
    PROVE  Len(s) \in Nat /\ Len(s) > 1
<1>1. PICK n \in Nat : n = Len(s)
  OBVIOUS
<1>2. n >= 1 /\ n # 1
  BY <1>1, Filled
<1>3. n > 1
  BY <1>2
<1> QED
  BY <1>1, <1>3

\* A sequence is its front and its last element.
LEMMA FrontAndLast ==
    ASSUME NEW S, NEW s \in Seq(S), s # << >>
    PROVE  /\ SubSeq(s, 1, Len(s) - 1) \in Seq(S)
           /\ Len(SubSeq(s, 1, Len(s) - 1)) = Len(s) - 1
           /\ \A k \in 1 .. Len(s) - 1 : SubSeq(s, 1, Len(s) - 1)[k] = s[k]
           /\ s = Append(SubSeq(s, 1, Len(s) - 1), s[Len(s)])
<1>1. PICK n \in Nat : Len(s) = n + 1
  <2>1. Len(s) \in Nat /\ Len(s) >= 1
    BY Filled
  <2>2. Len(s) - 1 \in Nat /\ Len(s) = (Len(s) - 1) + 1
    BY <2>1
  <2> QED
    BY <2>2
<1> DEFINE q == SubSeq(s, 1, n)
<1>2. Len(s) - 1 = n
  BY <1>1
<1>3. \A k \in 1 .. n + 1 : s[k] \in S
  BY <1>1
<1>4. q \in Seq(S) /\ Len(q) = n /\ \A k \in 1 .. n : q[k] = s[k]
  BY <1>3, <1>1
<1> HIDE DEF q
<1> DEFINE t == Append(q, s[n + 1])
<1>5. t \in Seq(S) /\ Len(t) = n + 1 /\ t[n + 1] = s[n + 1] /\ \A k \in 1 .. n : t[k] = q[k]
  BY <1>3, <1>4, AppendProperties
<1>6. \A k \in 1 .. Len(s) : s[k] = t[k]
  BY <1>1, <1>4, <1>5
<1>7. s = t
  BY <1>1, <1>5, <1>6, SeqEqual
<1> QED
  BY <1>1, <1>2, <1>4, <1>7 DEF q

-----------------------------------------------------------------------------
(***************************************************************************)
(* What the routers make of a list of segments                             *)
(***************************************************************************)
\* The paths from src to v along the predecessors.
Traces(prev, src, v) ==
    {p \in Seq(Nodes) :
        /\ p # << >> /\ p[1] = src /\ p[Len(p)] = v
        /\ \A k \in 1 .. Len(p) - 1 : p[k + 1] # src /\ p[k] \in ToSet(prev[p[k + 1]])}

LEMMA TracesGrow ==
    ASSUME NEW prev \in [Nodes -> Seq(Nodes)], NEW src \in Nodes, NEW v \in Nodes
    PROVE  Traces(prev, src, v) =
              IF v = src THEN {<<src>>}
              ELSE UNION {{Append(p, v) : p \in Traces(prev, src, u)} : u \in ToSet(prev[v])}
<1>0. \A w \in Nodes : ToSet(prev[w]) \subseteq Nodes
  BY DEF ToSet
<1>1. CASE v = src
  <2>1. ASSUME NEW p \in Traces(prev, src, v)
        PROVE  p = <<src>>
    <3>1. p \in Seq(Nodes) /\ p # << >> /\ p[1] = src /\ p[Len(p)] = src
      BY <1>1, <2>1 DEF Traces
    <3>2. PICK n \in Nat : n = Len(p)
      BY <3>1
    <3>3. ~ (n > 1)
      <4>1. SUFFICES ASSUME n > 1 PROVE FALSE
        OBVIOUS
      <4>2. n - 1 \in 1 .. n - 1 /\ (n - 1) + 1 = n
        BY <4>1
      <4>3. p[(n - 1) + 1] # src
        BY <2>1, <3>2, <4>2 DEF Traces
      <4> QED
        BY <3>1, <3>2, <4>2, <4>3
    <3>4. Len(p) <= 1
      BY <3>2, <3>3
    <3> QED
      BY <3>1, <3>4, Single
  <2>2. <<src>> \in Traces(prev, src, v)
    BY <1>1, Single DEF Traces
  <2> QED
    BY <1>1, <2>1, <2>2
<1>2. CASE v # src
  <2> DEFINE All == UNION {{Append(p, v) : p \in Traces(prev, src, u)} : u \in ToSet(prev[v])}
  <2>1. ASSUME NEW p \in Traces(prev, src, v)
        PROVE  p \in All
    <3>1. p \in Seq(Nodes) /\ p # << >> /\ p[1] = src /\ p[Len(p)] = v
      BY <2>1 DEF Traces
    <3>2. PICK n \in Nat : n = Len(p) - 1
      <4>1. Len(p) \in Nat /\ Len(p) >= 1
        BY <3>1, Filled
      <4>2. Len(p) - 1 \in Nat
        BY <4>1
      <4> QED
        BY <4>2
    <3>3. n >= 1 /\ Len(p) = n + 1
      BY <1>2, <3>1, <3>2, TwoEnds
    <3>4. PICK q \in Seq(Nodes) : /\ Len(q) = n /\ p = Append(q, v)
                                  /\ \A k \in 1 .. n : q[k] = p[k]
      BY <3>1, <3>2, FrontAndLast
    <3>5. \A k \in 1 .. n : p[k + 1] # src /\ p[k] \in ToSet(prev[p[k + 1]])
      BY <2>1, <3>2 DEF Traces
    <3>6. p[n] \in ToSet(prev[v])
      BY <3>1, <3>3, <3>5
    <3>7. q \in Traces(prev, src, p[n])
      <4>1. n \in 1 .. n /\ 1 \in 1 .. n
        BY <3>3
      <4>2. q # << >> /\ q[1] = src /\ q[Len(q)] = p[n]
        BY <3>1, <3>3, <3>4, <4>1
      <4>3. ASSUME NEW k \in 1 .. n - 1
            PROVE  q[k + 1] # src /\ q[k] \in ToSet(prev[q[k + 1]])
        <5>1. k \in 1 .. n /\ k + 1 \in 1 .. n
          OBVIOUS
        <5> QED
          BY <3>4, <3>5, <5>1
      <4> QED
        BY <3>4, <4>2, <4>3 DEF Traces
    <3>8. p \in {Append(r, v) : r \in Traces(prev, src, p[n])}
      BY <3>4, <3>7
    <3> QED
      BY <3>6, <3>8
  <2>2. ASSUME NEW u \in ToSet(prev[v]), NEW q \in Traces(prev, src, u)
        PROVE  Append(q, v) \in Traces(prev, src, v)
    <3> DEFINE p == Append(q, v)
    <3>1. q \in Seq(Nodes) /\ q # << >> /\ q[1] = src /\ q[Len(q)] = u
      BY <2>2 DEF Traces
    <3>2. /\ p \in Seq(Nodes) /\ Len(p) = Len(q) + 1 /\ p[Len(p)] = v
          /\ Len(q) \in Nat /\ Len(q) >= 1 /\ \A k \in 1 .. Len(q) : p[k] = q[k]
      BY <3>1, Filled
    <3> HIDE DEF p
    <3>3. ASSUME NEW k \in 1 .. Len(p) - 1
          PROVE  p[k + 1] # src /\ p[k] \in ToSet(prev[p[k + 1]])
      <4>1. CASE k = Len(q)
        BY <1>2, <3>1, <3>2, <4>1
      <4>2. CASE k # Len(q)
        <5>1. k \in 1 .. Len(q) - 1 /\ p[k] = q[k] /\ p[k + 1] = q[k + 1]
          BY <3>2, <4>2
        <5> QED
          BY <2>2, <5>1 DEF Traces
      <4> QED
        BY <4>1, <4>2
    <3>4. p \in Traces(prev, src, v)
      BY <3>1, <3>2, <3>3 DEF Traces
    <3> QED
      BY <3>4 DEF p
  <2>3. ASSUME NEW p \in All
        PROVE  p \in Traces(prev, src, v)
    <3>1. PICK u \in ToSet(prev[v]) : p \in {Append(q, v) : q \in Traces(prev, src, u)}
      BY <2>3, Zenon
    <3>2. PICK q \in Traces(prev, src, u) : p = Append(q, v)
      BY <3>1, Zenon
    <3> QED
      BY <2>2, <3>2, Zenon
  <2> HIDE DEF All
  <2>4. Traces(prev, src, v) = All
    BY <2>1, <2>3
  <2> QED
    BY <1>2, <2>4 DEF All
<1> QED
  BY <1>1, <1>2

\* The shortest paths from src to v through a predecessor of v.
Arrivals(gr, src, v) ==
    UNION {{Append(p, v) : p \in ShortestPaths(gr, src, u)} :
              u \in ToSet(Dijkstra(gr, src).prev[v])}

\* The equations of ShortestPaths.
LEMMA PathsAre ==
    ASSUME NEW gr, NEW src \in Nodes, NEW v \in Nodes,
           Dijkstra(gr, src).prev \in [Nodes -> Seq(Nodes)]
    PROVE  /\ ShortestPaths(gr, src, src) = Only(<<src>>)
           /\ v # src => ShortestPaths(gr, src, v) = Arrivals(gr, src, v)
<1> DEFINE prev == Dijkstra(gr, src).prev
           F(h) == [w \in Nodes |->
                      IF w = src THEN {<<src>>}
                      ELSE UNION {{Append(p, w) : p \in h[u]} : u \in ToSet(prev[w])}]
           to == CHOOSE h : h = F(h)
           T == [w \in Nodes |-> Traces(prev, src, w)]
<1>1. \A w : ShortestPaths(gr, src, w) = to[w]
  BY DEF ShortestPaths
<1> HIDE DEF prev
<1>2. prev \in [Nodes -> Seq(Nodes)]
  BY DEF prev
<1>3. T = F(T)
  <2>1. ASSUME NEW w \in Nodes
        PROVE  T[w] = F(T)[w]
    <3>1. \A u \in ToSet(prev[w]) : T[u] = Traces(prev, src, u)
      BY <1>2 DEF ToSet
    <3>2. CASE w = src
      BY <1>2, <3>2, TracesGrow
    <3>3. CASE w # src
      <4>1. T[w] = UNION {{Append(p, w) : p \in Traces(prev, src, u)} : u \in ToSet(prev[w])}
        <5>1. Traces(prev, src, w) =
                 IF w = src THEN {<<src>>}
                 ELSE UNION {{Append(p, w) : p \in Traces(prev, src, u)} : u \in ToSet(prev[w])}
          BY <1>2, TracesGrow, Zenon
        <5> QED
          BY <3>3, <5>1, Zenon
      <4>2. {{Append(p, w) : p \in Traces(prev, src, u)} : u \in ToSet(prev[w])}
               = {{Append(p, w) : p \in T[u]} : u \in ToSet(prev[w])}
        BY <3>1
      <4> HIDE DEF T
      <4> QED
        BY <3>3, <4>1, <4>2
    <3> QED
      BY <3>2, <3>3
  <2>2. T = [w \in Nodes |-> T[w]] /\ F(T) = [w \in Nodes |-> F(T)[w]]
    OBVIOUS
  <2> HIDE DEF T, F
  <2> QED
    BY <2>1, <2>2, Zenon
<1>4. to = F(to)
  BY <1>3, Zenon
<1> HIDE DEF to
<1>5. to[src] = {<<src>>}
  BY <1>4
<1>6. v # src => to[v] = UNION {{Append(p, v) : p \in to[u]} : u \in ToSet(prev[v])}
  BY <1>4
<1> QED
  BY <1>1, <1>5, <1>6 DEF prev, Arrivals, Only

\* a is the one predecessor of v.
Lone(gr, src, v, a) == Dijkstra(gr, src).prev[v] = <<a>>

\* One predecessor leaves no choice.
LEMMA OnePredecessor ==
    ASSUME NEW gr, NEW src \in Nodes, NEW a \in Nodes, NEW v \in Nodes, v # src,
           Dijkstra(gr, src).prev \in [Nodes -> Seq(Nodes)],
           Lone(gr, src, v, a),
           NEW w, ShortestPaths(gr, src, a) = Only(w)
    PROVE  ShortestPaths(gr, src, v) = Only(Append(w, v))
<1>1. ToSet(Dijkstra(gr, src).prev[v]) = {a}
  BY DEF ToSet, Lone
<1>2. ShortestPaths(gr, src, v) = Arrivals(gr, src, v)
  BY PathsAre
<1>3. Arrivals(gr, src, v) =
         UNION {{Append(p, v) : p \in ShortestPaths(gr, src, u)} : u \in {a}}
  BY <1>1, Zenon DEF Arrivals
<1>4. UNION {{Append(p, v) : p \in ShortestPaths(gr, src, u)} : u \in {a}}
         = {Append(p, v) : p \in ShortestPaths(gr, src, a)}
  OBVIOUS
<1>5. {Append(p, v) : p \in ShortestPaths(gr, src, a)} = {Append(w, v)}
  <2>1. ShortestPaths(gr, src, a) = {w}
    BY DEF Only
  <2> QED
    BY <2>1, Zenon
<1> QED
  BY <1>2, <1>3, <1>4, <1>5, Zenon DEF Only
-----------------------------------------------------------------------------
(***************************************************************************)
(* The chosen path                                                         *)
(***************************************************************************)
\* p goes from src to dst along the predecessors of the search st.
IsTrace(p, gr, b, st, src, dst) ==
    /\ p \in Seq(Nodes) /\ p # << >> /\ p[1] = src /\ p[Len(p)] = dst
    /\ \A k \in 1 .. Len(p) - 1 :
          p[k + 1] # src /\ p[k] \in Attaining(gr, b, st, p[k + 1])

\* The predecessor at the head of the list attains the distance.
LEMMA HeadAttains ==
    ASSUME NoWrap, PositiveCosts, NEW gr \in Clones, NEW b \in Measures, NEW src \in Nodes,
           NEW st, Searching(gr, src, b, st), NEW v \in Extracted(st), v # src
    PROVE  /\ Head(st.prev[v]) \in Attaining(gr, b, st, v)
           /\ Head(st.prev[v]) \in Extracted(st)
           /\ st.dist[Head(st.prev[v])] < st.dist[v]
<1> DEFINE l == st.prev[v]
<1>1. v \in Nodes /\ st.dist[v] < Infinite /\ \A u \in Extracted(st) : st.dist[u] \in Nat
  BY NodesAreFinite DEF Extracted, Searching, OrderInv, SearchType
<1>2. l \in Seq(Nodes) /\ l # << >> /\ ToSet(l) = Attaining(gr, b, st, v)
  BY <1>1 DEF Searching, PrevInv, SearchType
<1> HIDE DEF l
<1>3. Head(l) \in ToSet(l)
  <2>1. Len(l) \in Nat /\ Len(l) >= 1 /\ DOMAIN l = 1 .. Len(l) /\ Head(l) = l[1]
    BY <1>2, Filled
  <2>2. 1 \in DOMAIN l
    BY <2>1
  <2> QED
    BY <2>1, <2>2 DEF ToSet
<1>4. PICK u \in Extracted(st) : /\ u = Head(l) /\ Linked(gr, u, v)
                                 /\ st.dist[v] = st.dist[u] + LinkCost(gr, b, u, v)
  BY <1>2, <1>3 DEF Attaining
<1>5. u \in Nodes /\ LinkCost(gr, b, u, v) \in Nat /\ LinkCost(gr, b, u, v) > 0
  BY <1>1, <1>4, CostsAreBounded DEF Extracted
<1>6. st.dist[u] < st.dist[v]
  BY <1>1, <1>4, <1>5
<1> QED
  BY <1>2, <1>3, <1>4, <1>6 DEF l

\* Backwards from dst, as FirstPath goes.
Backs(back, st, src, dst) ==
    /\ back \in [0 .. N -> Extracted(st)]
    /\ back[0] = dst
    /\ \A k \in 1 .. N :
          back[k] = IF back[k - 1] = src THEN src ELSE Head(st.prev[back[k - 1]])

LEMMA BackReaches ==
    ASSUME NoWrap, PositiveCosts, NEW gr \in Clones, NEW b \in Measures, NEW src \in Nodes,
           NEW st, Searching(gr, src, b, st), NEW dst, NEW back, Backs(back, st, src, dst)
    PROVE  \E k \in 0 .. N : back[k] = src
<1> SUFFICES ASSUME \A k \in 0 .. N : back[k] # src PROVE FALSE
  OBVIOUS
<1>0. N \in Nat /\ Infinite \in Nat /\ IsFiniteSet(Nodes)
  BY NodesAreFinite, GraphAssumption
<1>1. \A k \in 0 .. N : back[k] \in Extracted(st) /\ st.dist[back[k]] \in Nat
  BY <1>0 DEF Backs, Extracted, Searching, SearchType
<1>2. ASSUME NEW k \in 0 .. N - 1
      PROVE  st.dist[back[k + 1]] < st.dist[back[k]]
  <2>1. k + 1 \in 1 .. N /\ (k + 1) - 1 = k /\ k \in 0 .. N
    BY <1>0
  <2>2. back[k + 1] = Head(st.prev[back[k]])
    BY <2>1 DEF Backs
  <2> QED
    BY <1>1, <2>1, <2>2, HeadAttains
<1> DEFINE P == {k \in 0 .. N : \A i \in 0 .. k - 1 : st.dist[back[k]] < st.dist[back[i]]}
<1>3. 0 \in P
  BY <1>0
<1>4. ASSUME NEW k \in 0 .. N - 1, k \in P
      PROVE  k + 1 \in P
  <2>1. k + 1 \in 0 .. N /\ k \in 0 .. N
    BY <1>0
  <2>2. ASSUME NEW i \in 0 .. (k + 1) - 1
        PROVE  st.dist[back[k + 1]] < st.dist[back[i]]
    <3>1. CASE i = k
      BY <1>2, <3>1
    <3>2. CASE i # k
      <4>1. i \in 0 .. k - 1 /\ i \in 0 .. N
        BY <1>0, <2>1, <3>2
      <4>2. st.dist[back[k]] < st.dist[back[i]]
        BY <1>4, <4>1
      <4> QED
        BY <1>1, <1>2, <2>1, <4>1, <4>2
    <3> QED
      BY <3>1, <3>2
  <2> QED
    BY <2>1, <2>2
<1> HIDE DEF P
<1>5. \A k \in 0 .. N : k \in P
  BY <1>0, <1>3, <1>4, UpTo
<1>6. IsFiniteSet(0 .. N) /\ Cardinality(0 .. N) = N + 1
  BY <1>0, FS_Interval
<1>7. IsFiniteSet(Extracted(st)) /\ Cardinality(Extracted(st)) < Cardinality(0 .. N)
  BY <1>0, <1>6, NodesAreFinite, FS_Subset DEF Extracted
<1>8. back \in [0 .. N -> Extracted(st)]
  BY DEF Backs
<1>9. PICK i, j \in 0 .. N : i # j /\ back[i] = back[j]
  BY <1>6, <1>7, <1>8, FS_PigeonHole
<1>10. i \in 0 .. j - 1 \/ j \in 0 .. i - 1
  BY <1>0, <1>9
<1> QED
  BY <1>1, <1>5, <1>9, <1>10 DEF P

\* FirstPath is well defined: its CHOOSEs have something to choose.
LEMMA FirstPathIs ==
    ASSUME NoWrap, PositiveCosts, NEW gr \in Clones, NEW b \in Measures, NEW src \in Nodes,
           NEW st, Searching(gr, src, b, st), NEW dst \in Extracted(st)
    PROVE  IsTrace(FirstPath(st, src, dst), gr, b, st, src, dst)
<1> DEFINE E == Extracted(st)
           Step(v) == IF v = src THEN src ELSE Head(st.prev[v])
           step == [v \in E |-> Step(v)]
           F(h) == [k \in 0 .. N |->
                      IF k = 0 THEN dst ELSE Step(h[k - 1])]
           back == CHOOSE h : h = F(h)
           n == CHOOSE k \in 0 .. N : back[k] = src /\ \A j \in 0 .. (k - 1) : back[j] # src
<1>1. FirstPath(st, src, dst) = [i \in 1 .. (n + 1) |-> back[n + 1 - i]]
  BY DEF FirstPath, N
<1>0. N \in Nat /\ Infinite \in Nat /\ Infinite > 0 /\ E \subseteq Nodes
  BY NodesAreFinite DEF Extracted
<1>2. ASSUME NEW v \in E
      PROVE  Step(v) \in E
  BY <1>2, HeadAttains
<1>3. step \in [E -> E]
  BY <1>2
<1> HIDE DEF E
<1>4. PICK f : Iterates(f, N, E, dst, step)
  <2> HIDE DEF step
  <2>1. dst \in E
    BY DEF E
  <2> QED
    BY <2>1, <1>0, <1>3, Recursion
<1>5. f = F(f)
  <2>1. ASSUME NEW k \in 1 .. N
        PROVE  f[k] = Step(f[k - 1])
    <3>1. k - 1 \in 0 .. N
      BY <1>0
    <3>2. f[k - 1] \in E
      BY <1>4, <3>1 DEF Iterates
    <3> QED
      BY <1>4, <3>2 DEF Iterates
  <2> QED
    BY <1>0, <1>4, <2>1 DEF Iterates
<1>6. back = F(back)
  BY <1>5, Zenon
<1> HIDE DEF back
<1>7. back[0] = dst /\ \A k \in 1 .. N : back[k] = Step(back[k - 1])
  BY <1>0, <1>6
<1>8. Backs(back, st, src, dst)
  <2> DEFINE P == {k \in 0 .. N : back[k] \in E}
  <2>1. 0 \in P
    BY <1>0, <1>7 DEF E
  <2>2. ASSUME NEW k \in 0 .. N - 1, k \in P
        PROVE  k + 1 \in P
    <3>1. k + 1 \in 1 .. N /\ (k + 1) - 1 = k
      BY <1>0
    <3>2. back[k + 1] = Step(back[k])
      BY <1>7, <3>1
    <3> HIDE DEF Step
    <3> QED
      BY <1>2, <2>2, <3>1, <3>2
  <2> HIDE DEF P
  <2>3. \A k \in 0 .. N : k \in P
    BY <1>0, <2>1, <2>2, UpTo
  <2>4. DOMAIN back = 0 .. N /\ back = [k \in 0 .. N |-> back[k]]
    BY <1>6
  <2> QED
    BY <2>3, <2>4, <1>7 DEF P, E, Backs
<1>9. n \in 0 .. N /\ back[n] = src /\ \A j \in 0 .. (n - 1) : back[j] # src
  <2> DEFINE S == {k \in 0 .. N : back[k] = src}
  <2>1. S # {} /\ S \in SUBSET Nat
    BY <1>0, <1>8, BackReaches
  <2>2. PICK m \in S : \A y \in S : m <= y
    BY <2>1, LeastExists
  <2>3. m \in 0 .. N /\ back[m] = src /\ \A j \in 0 .. (m - 1) : back[j] # src
    BY <1>0, <2>2
  <2> QED
    BY <2>3
<1> HIDE DEF n
<1> DEFINE p == [i \in 1 .. (n + 1) |-> back[n + 1 - i]]
<1>10. n \in Nat /\ \A i \in 1 .. (n + 1) : n + 1 - i \in 0 .. N /\ back[n + 1 - i] \in Nodes
  BY <1>0, <1>8, <1>9 DEF Backs, E
<1>11. p \in Seq(Nodes) /\ Len(p) = n + 1
  BY <1>10
<1>12. \A i \in 1 .. (n + 1) : p[i] = back[n + 1 - i]
  OBVIOUS
<1> HIDE DEF p
<1>13. p[1] = src /\ p[Len(p)] = dst /\ p # << >>
  <2>1. 1 \in 1 .. (n + 1) /\ n + 1 - 1 = n /\ n + 1 \in 1 .. (n + 1) /\ n + 1 - (n + 1) = 0
    BY <1>10
  <2>2. p[1] = src /\ p[n + 1] = dst
    BY <1>7, <1>9, <1>12, <2>1
  <2>3. p # << >>
    BY <1>10, <1>11, EmptySeq
  <2> QED
    BY <1>11, <2>2, <2>3
<1>14. ASSUME NEW k \in 1 .. n
       PROVE  p[k + 1] # src /\ p[k] \in Attaining(gr, b, st, p[k + 1])
  <2> DEFINE i == n - k
  <2>1. /\ i \in 0 .. (n - 1) /\ i + 1 \in 1 .. N /\ (i + 1) - 1 = i /\ i \in 0 .. N
        /\ n + 1 - k = i + 1 /\ n + 1 - (k + 1) = i
        /\ k \in 1 .. (n + 1) /\ k + 1 \in 1 .. (n + 1)
    BY <1>0, <1>9, <1>10
  <2>2. p[k] = back[i + 1] /\ p[k + 1] = back[i]
    BY <1>12, <2>1
  <2>3. back[i] # src /\ back[i] \in Extracted(st)
    BY <1>8, <1>9, <2>1 DEF Backs
  <2>4. back[i + 1] = Head(st.prev[back[i]])
    BY <1>8, <2>1, <2>3 DEF Backs
  <2> QED
    BY <2>2, <2>3, <2>4, HeadAttains
<1>15. IsTrace(p, gr, b, st, src, dst)
  <2>1. \A k \in 1 .. Len(p) - 1 : k \in 1 .. n
    BY <1>10, <1>11
  <2> QED
    BY <1>11, <1>13, <1>14, <2>1 DEF IsTrace
<1> QED
  BY <1>1, <1>15 DEF p
-----------------------------------------------------------------------------
(***************************************************************************)
(* Walks and Way, one segment or one node at a time                        *)
(***************************************************************************)
Onward(gr, W, seg) == UNION {Follow(gr, w, seg) : w \in W}

\* h is the function of Walks, up to n.
AreWalks(h, n, gr, src, s) ==
    h = [k \in 0 .. n |-> IF k = 0 THEN {<<src>>} ELSE Onward(gr, h[k - 1], s[k])]

LEMMA WalksExist ==
    ASSUME NEW gr, NEW src, NEW s, NEW n \in Nat
    PROVE  \E h : AreWalks(h, n, gr, src, s)
<1> DEFINE P == {i \in 0 .. n : \E h : AreWalks(h, i, gr, src, s)}
<1>1. 0 \in P
  <2>1. AreWalks([k \in 0 .. 0 |-> {<<src>>}], 0, gr, src, s)
    BY DEF AreWalks
  <2> QED
    BY <2>1
<1>2. ASSUME NEW i \in 0 .. n - 1, i \in P
      PROVE  i + 1 \in P
  <2>1. PICK h : AreWalks(h, i, gr, src, s)
    BY <1>2
  <2> DEFINE new == [k \in 0 .. i + 1 |-> IF k <= i THEN h[k] ELSE Onward(gr, h[i], s[k])]
  <2>2. \A k \in 0 .. i : h[k] = IF k = 0 THEN {<<src>>} ELSE Onward(gr, h[k - 1], s[k])
    BY <2>1 DEF AreWalks
  <2>3. ASSUME NEW k \in 0 .. i + 1
        PROVE  new[k] = IF k = 0 THEN {<<src>>} ELSE Onward(gr, new[k - 1], s[k])
    <3>1. CASE k = 0
      BY <2>2, <3>1
    <3>2. CASE k # 0
      <4>1. k - 1 \in 0 .. i /\ new[k - 1] = h[k - 1]
        BY <3>2
      <4>2. CASE k <= i
        BY <2>2, <3>2, <4>1, <4>2
      <4>3. CASE k = i + 1
        BY <3>2, <4>1, <4>3
      <4> QED
        BY <4>2, <4>3
    <3> QED
      BY <3>1, <3>2
  <2>4. AreWalks(new, i + 1, gr, src, s)
    BY <2>3 DEF AreWalks
  <2> QED
    BY <2>4
<1> HIDE DEF P
<1>3. n \in P
  BY <1>1, <1>2, UpTo
<1> QED
  BY <1>3 DEF P

\* Two lists that agree up to n lead to the same walks there.
LEMMA WalksAgree ==
    ASSUME NEW gr, NEW src, NEW s, NEW t, NEW n \in Nat, NEW m \in n .. n + 1,
           NEW h, AreWalks(h, n, gr, src, s), NEW f, AreWalks(f, m, gr, src, t),
           \A k \in 1 .. n : s[k] = t[k]
    PROVE  h[n] = f[n]
<1> DEFINE P == {k \in 0 .. n : h[k] = f[k]}
<1>1. 0 \in P
  BY DEF AreWalks
<1>2. ASSUME NEW k \in 0 .. n - 1, k \in P
      PROVE  k + 1 \in P
  <2>1. k + 1 \in 0 .. n /\ k + 1 \in 0 .. m /\ k + 1 \in 1 .. n /\ k + 1 # 0 /\ (k + 1) - 1 = k
    OBVIOUS
  <2>2. h[k + 1] = Onward(gr, h[k], s[k + 1]) /\ f[k + 1] = Onward(gr, f[k], t[k + 1])
    BY <2>1 DEF AreWalks
  <2> QED
    BY <1>2, <2>1, <2>2
<1> HIDE DEF P
<1>3. n \in P
  BY <1>1, <1>2, UpTo
<1> QED
  BY <1>3 DEF P

LEMMA WalksStart ==
    ASSUME NEW gr, NEW src
    PROVE  Walks(gr, src, << >>) = Only(<<src>>)
<1> DEFINE W == CHOOSE h : AreWalks(h, Len(<< >>), gr, src, << >>)
<1>1. Walks(gr, src, << >>) = W[Len(<< >>)]
  BY DEF Walks, AreWalks, Onward
<1>2. Len(<< >>) = 0
  OBVIOUS
<1>3. AreWalks(W, Len(<< >>), gr, src, << >>)
  BY <1>2, WalksExist
<1> HIDE DEF W
<1>4. W[0] = {<<src>>}
  BY <1>2, <1>3 DEF AreWalks
<1> QED
  BY <1>1, <1>2, <1>4 DEF Only

LEMMA WalksGrow ==
    ASSUME NEW gr, NEW src, NEW S, NEW s \in Seq(S), NEW seg \in S
    PROVE  Walks(gr, src, Append(s, seg)) = Onward(gr, Walks(gr, src, s), seg)
<1> DEFINE W(l) == CHOOSE h : AreWalks(h, Len(l), gr, src, l)
<1>1. \A l : Walks(gr, src, l) = W(l)[Len(l)]
  BY DEF Walks, AreWalks, Onward
<1>2. \A l : Len(l) \in Nat => AreWalks(W(l), Len(l), gr, src, l)
  BY WalksExist
<1> HIDE DEF W
<1> DEFINE t == Append(s, seg)
<1>4. PICK n \in Nat : n = Len(s)
  OBVIOUS
<1>5. Len(t) = n + 1 /\ t[n + 1] = seg /\ \A k \in 1 .. n : s[k] = t[k]
  BY <1>4
<1> HIDE DEF t
<1>6. AreWalks(W(s), n, gr, src, s) /\ AreWalks(W(t), n + 1, gr, src, t)
  BY <1>2, <1>4, <1>5
<1>7. W(s)[n] = W(t)[n]
  BY <1>5, <1>6, WalksAgree
<1>8. W(t)[n + 1] = Onward(gr, W(t)[n], t[n + 1])
  <2>1. n + 1 \in 0 .. n + 1 /\ n + 1 # 0 /\ (n + 1) - 1 = n
    OBVIOUS
  <2> QED
    BY <1>6, <2>1 DEF AreWalks
<1>9. Walks(gr, src, t) = Onward(gr, Walks(gr, src, s), seg)
  BY <1>1, <1>4, <1>5, <1>7, <1>8
<1> QED
  BY <1>9 DEF t

-----------------------------------------------------------------------------
\* h is the function of Way, up to n.
IsWay(h, n, src, list) ==
    h = [k \in 0 .. n |-> IF k = 0 THEN <<src>> ELSE Extend(h[k - 1], list[k])]

LEMMA WayExists ==
    ASSUME NEW src, NEW list, NEW n \in Nat
    PROVE  \E h : IsWay(h, n, src, list)
<1> DEFINE P == {i \in 0 .. n : \E h : IsWay(h, i, src, list)}
<1>1. 0 \in P
  <2>1. IsWay([k \in 0 .. 0 |-> <<src>>], 0, src, list)
    BY DEF IsWay
  <2> QED
    BY <2>1
<1>2. ASSUME NEW i \in 0 .. n - 1, i \in P
      PROVE  i + 1 \in P
  <2>1. PICK h : IsWay(h, i, src, list)
    BY <1>2
  <2> DEFINE new == [k \in 0 .. i + 1 |-> IF k <= i THEN h[k] ELSE Extend(h[i], list[k])]
  <2>2. \A k \in 0 .. i : h[k] = IF k = 0 THEN <<src>> ELSE Extend(h[k - 1], list[k])
    BY <2>1 DEF IsWay
  <2>3. ASSUME NEW k \in 0 .. i + 1
        PROVE  new[k] = IF k = 0 THEN <<src>> ELSE Extend(new[k - 1], list[k])
    <3>1. CASE k = 0
      BY <2>2, <3>1
    <3>2. CASE k # 0
      <4>1. k - 1 \in 0 .. i /\ new[k - 1] = h[k - 1]
        BY <3>2
      <4>2. CASE k <= i
        BY <2>2, <3>2, <4>1, <4>2
      <4>3. CASE k = i + 1
        BY <3>2, <4>1, <4>3
      <4> QED
        BY <4>2, <4>3
    <3> QED
      BY <3>1, <3>2
  <2>4. IsWay(new, i + 1, src, list)
    BY <2>3 DEF IsWay
  <2> QED
    BY <2>4
<1> HIDE DEF P
<1>3. n \in P
  BY <1>1, <1>2, UpTo
<1> QED
  BY <1>3 DEF P

\* Two lists that agree up to n are the same way there.
LEMMA WaysAgree ==
    ASSUME NEW src, NEW list, NEW more, NEW n \in Nat, NEW m \in n .. n + 1,
           NEW h, IsWay(h, n, src, list), NEW f, IsWay(f, m, src, more),
           \A k \in 1 .. n : list[k] = more[k]
    PROVE  h[n] = f[n]
<1> DEFINE P == {k \in 0 .. n : h[k] = f[k]}
<1>1. 0 \in P
  BY DEF IsWay
<1>2. ASSUME NEW k \in 0 .. n - 1, k \in P
      PROVE  k + 1 \in P
  <2>1. k + 1 \in 0 .. n /\ k + 1 \in 0 .. m /\ k + 1 \in 1 .. n /\ k + 1 # 0 /\ (k + 1) - 1 = k
    OBVIOUS
  <2>2. h[k + 1] = Extend(h[k], list[k + 1]) /\ f[k + 1] = Extend(f[k], more[k + 1])
    BY <2>1 DEF IsWay
  <2> QED
    BY <1>2, <2>1, <2>2
<1> HIDE DEF P
<1>3. n \in P
  BY <1>1, <1>2, UpTo
<1> QED
  BY <1>3 DEF P

LEMMA WayGrows ==
    ASSUME NEW src, NEW list \in Seq(Nodes), NEW n \in Nodes
    PROVE  /\ Way(src, << >>) = <<src>>
           /\ Way(src, Append(list, n)) = Extend(Way(src, list), n)
<1> DEFINE W(l) == CHOOSE h : IsWay(h, Len(l), src, l)
<1>1. \A l : Way(src, l) = W(l)[Len(l)]
  BY DEF Way, IsWay
<1>2. \A l : Len(l) \in Nat => IsWay(W(l), Len(l), src, l)
  BY WayExists
<1> HIDE DEF W
<1>3. Way(src, << >>) = <<src>>
  <2>1. Len(<< >>) = 0
    OBVIOUS
  <2>2. IsWay(W(<< >>), 0, src, << >>)
    BY <1>2, <2>1
  <2>3. W(<< >>)[0] = <<src>>
    BY <2>2 DEF IsWay
  <2> QED
    BY <1>1, <2>1, <2>3
<1> DEFINE t == Append(list, n)
<1>4. PICK i \in Nat : i = Len(list)
  OBVIOUS
<1>5. Len(t) = i + 1 /\ t[i + 1] = n /\ \A k \in 1 .. i : list[k] = t[k]
  BY <1>4
<1> HIDE DEF t
<1>6. IsWay(W(list), i, src, list) /\ IsWay(W(t), i + 1, src, t)
  BY <1>2, <1>4, <1>5
<1>7. W(list)[i] = W(t)[i]
  BY <1>5, <1>6, WaysAgree
<1>8. W(t)[i + 1] = Extend(W(t)[i], t[i + 1])
  <2>1. i + 1 \in 0 .. i + 1 /\ i + 1 # 0 /\ (i + 1) - 1 = i
    OBVIOUS
  <2> QED
    BY <1>6, <2>1 DEF IsWay
<1>9. Way(src, t) = Extend(Way(src, list), n)
  BY <1>1, <1>4, <1>5, <1>7, <1>8
<1> QED
  BY <1>3, <1>9 DEF t
\* A stretch of a sequence, one element longer.
LEMMA OneMore ==
    ASSUME NEW S, NEW s \in Seq(S), NEW t \in Seq(S), NEW a \in Nat \ {0},
           NEW i \in a - 1 .. Len(t) - 1
    PROVE  /\ s \o SubSeq(t, a, i) \in Seq(S) /\ i + 1 \in 1 .. Len(t) /\ t[i + 1] \in S
           /\ s \o SubSeq(t, a, i + 1) = Append(s \o SubSeq(t, a, i), t[i + 1])
<1>1. PICK n \in Nat, m \in Nat : n = Len(t) /\ m = Len(s)
  OBVIOUS
<1> DEFINE p == SubSeq(t, a, i)
           q == SubSeq(t, a, i + 1)
           l == i - a + 1
<1>2. i \in a - 1 .. n - 1 /\ l \in Nat /\ i + 1 \in 1 .. n
  BY <1>1
<1>3. \A k \in a .. i + 1 : k \in 1 .. n /\ t[k] \in S
  BY <1>1, <1>2
<1>4. p \in Seq(S) /\ Len(p) = l /\ \A k \in 1 .. l : p[k] = t[a + k - 1]
  <2>1. a \in Int /\ i \in Int /\ \A k \in a .. i : t[k] \in S
    BY <1>2, <1>3
  <2>2. /\ p \in Seq(S) /\ Len(p) = IF a <= i THEN i - a + 1 ELSE 0
        /\ \A k \in 1 .. i - a + 1 : p[k] = t[a + k - 1]
    BY <2>1, SubSeqProperties
  <2>3. l = IF a <= i THEN i - a + 1 ELSE 0
    BY <1>2
  <2> QED
    BY <2>2, <2>3
<1>5. q \in Seq(S) /\ Len(q) = l + 1 /\ \A k \in 1 .. l + 1 : q[k] = t[a + k - 1]
  <2>1. a \in Int /\ i + 1 \in Int /\ \A k \in a .. i + 1 : t[k] \in S
    BY <1>2, <1>3
  <2>2. /\ q \in Seq(S) /\ Len(q) = IF a <= i + 1 THEN (i + 1) - a + 1 ELSE 0
        /\ \A k \in 1 .. (i + 1) - a + 1 : q[k] = t[a + k - 1]
    BY <2>1, SubSeqProperties
  <2>3. l + 1 = (IF a <= i + 1 THEN (i + 1) - a + 1 ELSE 0) /\ (i + 1) - a + 1 = l + 1
    BY <1>2
  <2> QED
    BY <2>2, <2>3
<1> HIDE DEF p, q, l
<1>6. /\ s \o p \in Seq(S) /\ Len(s \o p) = m + l
      /\ \A k \in 1 .. m + l : (s \o p)[k] = IF k <= m THEN s[k] ELSE p[k - m]
  BY <1>1, <1>4, ConcatProperties
<1>7. /\ s \o q \in Seq(S) /\ Len(s \o q) = m + (l + 1)
      /\ \A k \in 1 .. m + (l + 1) : (s \o q)[k] = IF k <= m THEN s[k] ELSE q[k - m]
  <2>1. l \in Nat /\ m + (l + 1) = Len(s) + Len(q)
    BY <1>1, <1>2, <1>5
  <2> QED
    BY <1>1, <1>5, <2>1, ConcatProperties
<1> DEFINE r == Append(s \o p, t[i + 1])
<1>8. /\ r \in Seq(S) /\ Len(r) = m + l + 1 /\ r[m + l + 1] = t[i + 1]
      /\ \A k \in 1 .. m + l : r[k] = (s \o p)[k]
  BY <1>2, <1>3, <1>6, AppendProperties
<1> HIDE DEF r
<1>9. \A k \in 1 .. Len(s \o q) : (s \o q)[k] = r[k]
  <2> SUFFICES ASSUME NEW k \in 1 .. m + l + 1 PROVE (s \o q)[k] = r[k]
    BY <1>2, <1>7
  <2>0. l \in Nat
    BY <1>2
  <2>1. CASE k <= m
    <3>1. k \in 1 .. m + l /\ k \in 1 .. m + (l + 1)
      BY <2>0, <2>1
    <3> QED
      BY <1>6, <1>7, <1>8, <2>1, <3>1
  <2>2. CASE k > m /\ k <= m + l
    <3>1. k - m \in 1 .. l /\ k - m \in 1 .. l + 1 /\ k \in 1 .. m + l /\ ~ (k <= m)
          /\ k \in 1 .. m + (l + 1)
      BY <2>0, <2>2
    <3>2. q[k - m] = p[k - m]
      BY <1>4, <1>5, <3>1
    <3> QED
      BY <1>6, <1>7, <1>8, <3>1, <3>2
  <2>3. CASE k = m + l + 1
    <3>1. k - m = l + 1 /\ l + 1 \in 1 .. l + 1 /\ ~ (k <= m)
      BY <2>0, <2>3
    <3>2. a + (l + 1) - 1 = i + 1
      BY <1>2 DEF l
    <3>3. q[l + 1] = t[i + 1]
      BY <1>5, <3>1, <3>2
    <3> QED
      BY <2>0, <1>7, <1>8, <2>3, <3>1, <3>3
  <2>4. k <= m \/ (k > m /\ k <= m + l) \/ k = m + l + 1
    BY <2>0
  <2> QED
    BY <2>1, <2>2, <2>3, <2>4
<1>10. s \o q = r
  <2>1. Len(s \o q) = Len(r)
    BY <1>2, <1>7, <1>8
  <2> QED
    BY <1>7, <1>8, <1>9, <2>1, SeqEqual
<1>11. i + 1 \in 1 .. Len(t) /\ t[i + 1] \in S
  BY <1>1, <1>2, <1>3
<1> QED
  BY <1>6, <1>10, <1>11 DEF p, q, r

\* A path that starts where the way ends goes on from there.
LEMMA WayGoesOn ==
    ASSUME NEW src, NEW list \in Seq(Nodes), NEW p \in Seq(Nodes), p # << >>,
           Way(src, list) \in Seq(Nodes), Way(src, list) # << >>,
           Last(Way(src, list)) = p[1],
           \A k \in 1 .. Len(p) - 1 : p[k] # p[k + 1]
    PROVE  Way(src, list \o p) = Way(src, list) \o SubSeq(p, 2, Len(p))
<1> DEFINE w == Way(src, list)
           At(i) == /\ Way(src, list \o SubSeq(p, 1, i)) = w \o SubSeq(p, 2, i)
                    /\ Last(w \o SubSeq(p, 2, i)) = p[i]
<1>1. PICK n \in Nat : Len(p) = n + 1
  <2>1. Len(p) \in Nat /\ Len(p) >= 1
    BY Filled
  <2>2. Len(p) - 1 \in Nat /\ Len(p) = (Len(p) - 1) + 1
    BY <2>1
  <2> QED
    BY <2>2
<1>2. w \in Seq(Nodes) /\ w # << >> /\ Last(w) = p[1]
  OBVIOUS
<1> HIDE DEF w
<1>3. At(1)
  <2>1. /\ list \o SubSeq(p, 1, 0) \in Seq(Nodes) /\ 1 \in 1 .. Len(p) /\ p[1] \in Nodes
        /\ list \o SubSeq(p, 1, 0 + 1) = Append(list \o SubSeq(p, 1, 0), p[0 + 1])
    BY <1>1, OneMore
  <2>2. list \o SubSeq(p, 1, 0) = list
    BY SubSeqEmpty, ConcatEmptySeq
  <2>3. list \o SubSeq(p, 1, 1) = Append(list, p[1])
    BY <2>1, <2>2
  <2>4. Way(src, Append(list, p[1])) = Extend(w, p[1])
    BY <2>1, WayGrows DEF w
  <2>5. w \o SubSeq(p, 2, 1) = w
    BY <1>2, SubSeqEmpty, ConcatEmptySeq
  <2> QED
    BY <1>2, <2>3, <2>4, <2>5 DEF Extend
<1>4. ASSUME NEW i \in 1 .. n, At(i)
      PROVE  At(i + 1)
  <2>1. /\ list \o SubSeq(p, 1, i) \in Seq(Nodes) /\ p[i + 1] \in Nodes
        /\ list \o SubSeq(p, 1, i + 1) = Append(list \o SubSeq(p, 1, i), p[i + 1])
    <3>1. i \in 1 - 1 .. Len(p) - 1
      BY <1>1
    <3> QED
      BY <3>1, OneMore
  <2>2. /\ w \o SubSeq(p, 2, i) \in Seq(Nodes)
        /\ w \o SubSeq(p, 2, i + 1) = Append(w \o SubSeq(p, 2, i), p[i + 1])
    <3>1. i \in 2 - 1 .. Len(p) - 1
      BY <1>1
    <3>2. 2 \in Nat \ {0}
      OBVIOUS
    <3> QED
      BY <1>2, <3>1, <3>2, OneMore
  <2>3. p[i] # p[i + 1]
    BY <1>1
  <2>4. Way(src, list \o SubSeq(p, 1, i + 1)) = Extend(w \o SubSeq(p, 2, i), p[i + 1])
    BY <1>4, <2>1, WayGrows
  <2>5. Way(src, list \o SubSeq(p, 1, i + 1)) = w \o SubSeq(p, 2, i + 1)
    BY <1>4, <2>2, <2>3, <2>4 DEF Extend
  <2>6. Last(w \o SubSeq(p, 2, i + 1)) = p[i + 1]
    BY <2>1, <2>2, AppendProperties DEF Last
  <2> QED
    BY <2>5, <2>6
<1> DEFINE P == {i \in 0 .. n : At(i + 1)}
<1> HIDE DEF At
<1>5. 0 \in P
  BY <1>3
<1>6. \A i \in 0 .. n - 1 : i \in P => i + 1 \in P
  BY <1>4
<1> HIDE DEF P
<1>7. n \in P
  <2>1. \A i \in 0 .. n : i \in P
    BY <1>5, <1>6, UpTo, Zenon
  <2> QED
    BY <2>1
<1>8. At(n + 1)
  BY <1>7 DEF P
<1>9. SubSeq(p, 1, Len(p)) = p
  BY SubSeqFull
<1> QED
  BY <1>1, <1>8, <1>9 DEF At, w
-----------------------------------------------------------------------------
(***************************************************************************)
(* A path computed on the graph the routers use does not stray             *)
(***************************************************************************)
\* The triangle inequality of a finished search.
LEMMA Triangle ==
    ASSUME NoWrap, NEW gr \in Clones, NEW b \in Measures, NEW src \in Nodes, NEW st,
           Searching(gr, src, b, st), Open(st) = {}, NEW a \in Nodes, NEW v \in Nodes
    PROVE  st.dist[v] <= st.dist[a] + Distance(gr, a, b)[v]
<1> DEFINE W == Lengths(gr, a, b)
           P == {i \in 0 .. N : \A x \in Nodes : st.dist[x] <= st.dist[a] + W[i][x]}
<1>0. N \in Nat /\ Infinite \in Nat /\ AreLengths(W, N, gr, a, b)
  BY NodesAreFinite, LengthsAre
<1>1. \A x \in Nodes : /\ st.dist[x] \in 0 .. Infinite
                       /\ x \notin Extracted(st) => st.dist[x] = Infinite
  BY <1>0 DEF Searching, SearchType, Extracted, Open
<1> HIDE DEF W
<1>2. 0 \in P
  <2> SUFFICES ASSUME NEW x \in Nodes PROVE st.dist[x] <= st.dist[a] + W[0][x]
    BY <1>0
  <2>1. W[0][x] = IF x = a THEN 0 ELSE Infinite
    BY <1>0 DEF AreLengths, Start
  <2> QED
    BY <1>0, <1>1, <2>1
<1>3. ASSUME NEW i \in 0 .. N - 1, i \in P
      PROVE  i + 1 \in P
  <2>0. i \in 0 .. N /\ i + 1 \in 1 .. N /\ (i + 1) - 1 = i
    BY <1>0
  <2>1. W[i + 1] = Longer(gr, b, W[i]) /\ W[i] \in [Nodes -> Nat]
    BY <1>0, <2>0 DEF AreLengths
  <2> SUFFICES ASSUME NEW x \in Nodes PROVE st.dist[x] <= st.dist[a] + W[i + 1][x]
    BY <2>0
  <2>2. \/ W[i + 1][x] = W[i][x]
        \/ \E u \in Nodes : /\ Linked(gr, u, x)
                            /\ W[i + 1][x] = W[i][u] + LinkCost(gr, b, u, x)
    BY <2>1, LongerWalks
  <2>3. CASE W[i + 1][x] = W[i][x]
    BY <1>3, <2>3
  <2>4. ASSUME NEW u \in Nodes, Linked(gr, u, x),
               W[i + 1][x] = W[i][u] + LinkCost(gr, b, u, x)
        PROVE  st.dist[x] <= st.dist[a] + W[i + 1][x]
    <3> DEFINE c == LinkCost(gr, b, u, x)
    <3>1. c \in Nat
      BY <2>4, CostsAreBounded
    <3> HIDE DEF c
    <3>2. W[i][u] \in Nat /\ st.dist[u] <= st.dist[a] + W[i][u]
      BY <1>3, <2>1
    <3>3. CASE u \in Extracted(st)
      <4>1. st.dist[x] <= st.dist[u] + c
        BY <2>4, <3>3 DEF Searching, RelaxedInv, c
      <4> QED
        BY <1>0, <1>1, <2>4, <3>1, <3>2, <4>1 DEF c
    <3>4. CASE u \notin Extracted(st)
      <4>1. st.dist[u] = Infinite
        BY <1>1, <3>4
      <4> QED
        BY <1>0, <1>1, <2>4, <3>1, <3>2, <4>1 DEF c
    <3> QED
      BY <3>3, <3>4
  <2> QED
    BY <2>2, <2>3, <2>4
<1> HIDE DEF P
<1>4. N \in P
  <2>1. \A i \in 0 .. N : i \in P
    BY <1>0, <1>2, <1>3, UpTo, Zenon
  <2> QED
    BY <1>0, <2>1
<1> QED
  BY <1>4 DEF P, W, Distance, N

\* The link of a shortest path is itself the shortest path between its ends.
LEMMA NotStray ==
    ASSUME NoWrap, PositiveCosts, NEW gr \in Clones, NEW src \in Nodes, NEW st,
           Searching(gr, src, FALSE, st), Open(st) = {},
           NEW v \in Extracted(st), NEW u \in Attaining(gr, FALSE, st, v)
    PROVE  ~ Stray(gr, u, v)
<1> DEFINE near == Dijkstra(gr, u)
           c == LinkCost(gr, FALSE, u, v)
           ref == Distance(gr, u, FALSE)
<1>0. Infinite \in Nat /\ Infinite > 0 /\ FALSE \in Measures
  BY NodesAreFinite DEF Measures
<1>1. /\ u \in Nodes /\ v \in Nodes /\ Linked(gr, u, v) /\ st.dist[v] = st.dist[u] + c
      /\ st.dist[u] \in Nat /\ st.dist[v] \in Nat
  <2>1. u \in Extracted(st) /\ Linked(gr, u, v) /\ st.dist[v] = st.dist[u] + c
    BY DEF Attaining
  <2>2. v \in Nodes /\ u \in Nodes
    BY <2>1 DEF Extracted
  <2>3. st.dist[u] \in Nat /\ st.dist[v] \in Nat
    BY <1>0, <2>2 DEF Searching, SearchType
  <2> QED
    BY <2>1, <2>2, <2>3
<1>2. c \in Nat /\ c > 0 /\ c < Infinite
  <2>1. MinEdge(gr, u, v) \in Parallel(gr, u, v)
    BY <1>1, MinEdgeIsOne
  <2>2. c \in Nat /\ c > 0
    BY <1>0, <1>1, CostsAreBounded
  <2> QED
    BY <2>1, <2>2 DEF Parallel, LinkCost, Cost
<1>3. u # v
  <2> HIDE DEF c
  <2> QED
    BY <1>1, <1>2
<1>4. Searching(gr, u, FALSE, near) /\ Open(near) = {}
  BY <1>1, DijkstraEnds
<1>5. st.dist[v] <= st.dist[u] + ref[v]
  BY <1>0, <1>1, Triangle
<1> HIDE DEF near, c
<1>6. near.dist[u] = 0 /\ near.dist[v] \in 0 .. Infinite /\ near.prev \in [Nodes -> Seq(Nodes)]
  BY <1>1, <1>4 DEF Searching, SearchType
<1>7. u \in Extracted(near)
  BY <1>0, <1>1, <1>4, <1>6 DEF Extracted, Open
<1>8. near.dist[v] <= near.dist[u] + c
  BY <1>1, <1>4, <1>7 DEF Searching, RelaxedInv, c
<1>9. v \in Extracted(near) /\ near.dist[v] < Infinite
  <2>1. near.dist[v] < Infinite
    BY <1>0, <1>2, <1>6, <1>8
  <2> QED
    BY <1>1, <1>4, <2>1 DEF Extracted, Open
<1>10. near.dist[v] = ref[v]
  <2>1. \A x \in Extracted(near) : near.dist[x] = Distance(gr, u, FALSE)[x]
    <3>1. u \in Nodes /\ FALSE \in Measures /\ Searching(gr, u, FALSE, near)
      BY <1>0, <1>1, <1>4
    <3>2. ASSUME NEW b \in Measures, Searching(gr, u, b, near)
          PROVE  \A x \in Extracted(near) : near.dist[x] = Distance(gr, u, b)[x]
      BY <3>1, <3>2, ExtractedIsExact
    <3> QED
      BY <3>1, <3>2, Zenon
  <2> QED
    BY <1>9, <2>1
<1> HIDE DEF ref
<1>11. near.dist[v] = near.dist[u] + c
  BY <1>0, <1>1, <1>2, <1>5, <1>6, <1>8, <1>10
<1>12. u \in ToSet(near.prev[v])
  <2>1. u \in Attaining(gr, FALSE, near, v)
    BY <1>1, <1>7, <1>11 DEF Attaining, c
  <2> QED
    BY <1>1, <1>3, <1>4, <1>9, <2>1 DEF Searching, PrevInv
<1> DEFINE l == near.prev[v]
<1>13. l \in Seq(Nodes) /\ u \in ToSet(l)
  BY <1>1, <1>6, <1>12
<1> HIDE DEF l
<1>14. ASSUME Len(l) = 1
       PROVE  l = <<u>>
  <2>1. PICK i \in 1 .. Len(l) : l[i] = u
    BY <1>13 DEF ToSet
  <2>2. l[1] = u /\ l # << >> /\ Len(l) <= 1
    BY <1>14, <2>1
  <2> QED
    BY <1>1, <1>13, <2>2, Single
<1> QED
  BY <1>14 DEF Stray, l, near
-----------------------------------------------------------------------------
(***************************************************************************)
(* Ways and segments, one step at a time                                   *)
(***************************************************************************)
\* A hop is wide, and strays, on its own.
LEMMA OneHopMore ==
    ASSUME NEW w \in Seq(Nodes), w # << >>, NEW n \in Nodes
    PROVE  /\ Append(w, n) \in Seq(Nodes) /\ Append(w, n) # << >> /\ Last(Append(w, n)) = n
           /\ Last(w) \in Nodes
           /\ Strays(g, Append(w, n)) <=> Strays(g, w) \/ Stray(g, Last(w), n)
           /\ Wide(Append(w, n)) <=> Wide(w) /\ Linked(Prune(g), Last(w), n)
<1> DEFINE v == Append(w, n)
<1>1. PICK m \in Nat : m = Len(w) /\ m >= 1
  BY Filled
<1>2. /\ v \in Seq(Nodes) /\ v # << >> /\ Len(v) = m + 1 /\ v[m + 1] = n
      /\ \A k \in 1 .. m : v[k] = w[k]
  BY <1>1, AppendProperties
<1> HIDE DEF v
<1>3. Last(v) = n /\ Last(w) = w[m] /\ Last(w) \in Nodes
  BY <1>1, <1>2 DEF Last
<1>4. \A k \in 1 .. m - 1 : v[k] = w[k] /\ v[k + 1] = w[k + 1] /\ k \in 1 .. m
  BY <1>1, <1>2
<1>5. v[m] = Last(w) /\ v[m + 1] = n /\ m \in 1 .. m
  BY <1>1, <1>2, <1>3
<1>6. Len(v) - 1 = m /\ Len(w) - 1 = m - 1
  BY <1>1, <1>2
<1>7. \A k \in 1 .. m : k = m \/ k \in 1 .. m - 1
  BY <1>1
<1>8. Strays(g, v) <=> Strays(g, w) \/ Stray(g, Last(w), n)
  <2>1. Strays(g, v) <=> \E k \in 1 .. m : Stray(g, v[k], v[k + 1])
    BY <1>6 DEF Strays
  <2>2. Strays(g, w) <=> \E k \in 1 .. m - 1 : Stray(g, w[k], w[k + 1])
    BY <1>6 DEF Strays
  <2> QED
    BY <2>1, <2>2, <1>4, <1>5, <1>7
<1>9. Wide(v) <=> Wide(w) /\ Linked(Prune(g), Last(w), n)
  <2>1. Wide(v) <=> \A k \in 1 .. m : Linked(Prune(g), v[k], v[k + 1])
    BY <1>6 DEF Wide
  <2>2. Wide(w) <=> \A k \in 1 .. m - 1 : Linked(Prune(g), w[k], w[k + 1])
    BY <1>6 DEF Wide
  <2> QED
    BY <2>1, <2>2, <1>4, <1>5, <1>7
<1> QED
  BY <1>2, <1>3, <1>8, <1>9 DEF v

\* A way that goes on along p ends where p does.
LEMMA EndOf ==
    ASSUME NEW w \in Seq(Nodes), w # << >>, NEW p \in Seq(Nodes), Last(w) = p[1],
           NEW r \in 1 .. Len(p)
    PROVE  /\ w \o SubSeq(p, 2, r) \in Seq(Nodes) /\ w \o SubSeq(p, 2, r) # << >>
           /\ Last(w \o SubSeq(p, 2, r)) = p[r]
<1>1. CASE r = 1
  <2>1. w \o SubSeq(p, 2, r) = w
    BY <1>1, SubSeqEmpty, ConcatEmptySeq
  <2> QED
    BY <1>1, <2>1
<1>2. CASE r # 1
  <2>1. 2 \in Nat \ {0} /\ r - 1 \in 2 - 1 .. Len(p) - 1 /\ (r - 1) + 1 = r
    BY <1>2
  <2>2. /\ w \o SubSeq(p, 2, r - 1) \in Seq(Nodes) /\ p[r] \in Nodes
        /\ w \o SubSeq(p, 2, r) = Append(w \o SubSeq(p, 2, r - 1), p[r])
    <3>1. /\ w \o SubSeq(p, 2, r - 1) \in Seq(Nodes) /\ p[(r - 1) + 1] \in Nodes
          /\ w \o SubSeq(p, 2, (r - 1) + 1) = Append(w \o SubSeq(p, 2, r - 1), p[(r - 1) + 1])
      BY <2>1, OneMore
    <3> QED
      BY <2>1, <3>1
  <2> QED
    BY <2>2, AppendProperties DEF Last
<1> QED
  BY <1>1, <1>2

\* The stretch of p from r on joins the way at r.
LEMMA Joined ==
    ASSUME NEW w \in Seq(Nodes), NEW p \in Seq(Nodes),
           NEW r \in 1 .. Len(p), NEW i \in r .. Len(p)
    PROVE  /\ (w \o SubSeq(p, 2, r)) \o Tail(SubSeq(p, r, i)) = w \o SubSeq(p, 2, i)
           /\ SubSeq(p, r, i) \in Seq(Nodes) /\ Len(SubSeq(p, r, i)) = i - r + 1
<1>1. PICK n \in Nat : n = Len(p)
  OBVIOUS
<1>2. r \in 1 .. n /\ i \in r .. n /\ \A k \in 1 .. n : p[k] \in Nodes
  BY <1>1
<1>3. SubSeq(p, 2, r) \in Seq(Nodes)
  <2>1. \A k \in 2 .. r : p[k] \in Nodes
    BY <1>2
  <2> QED
    BY <1>2, <2>1, SubSeqProperties
<1>4. SubSeq(p, r + 1, i) \in Seq(Nodes)
  <2>1. r + 1 \in Int /\ i \in Int /\ \A k \in r + 1 .. i : p[k] \in Nodes
    BY <1>2
  <2> QED
    BY <2>1, SubSeqProperties
<1>5. SubSeq(p, r, i) \in Seq(Nodes) /\ Len(SubSeq(p, r, i)) = i - r + 1
  <2>1. r \in Int /\ i \in Int /\ r <= i /\ \A k \in r .. i : p[k] \in Nodes
    BY <1>2
  <2> QED
    BY <2>1, SubSeqProperties
<1>6. Tail(SubSeq(p, r, i)) = SubSeq(p, r + 1, i)
  BY HeadTailOfSubSeq
<1>7. SubSeq(p, 2, r) \o SubSeq(p, r + 1, i) = SubSeq(p, 2, i)
  <2>1. 2 \in 1 .. Len(p) + 1 /\ r \in 2 - 1 .. Len(p) /\ i \in r .. Len(p)
    BY <1>1, <1>2
  <2> QED
    BY <2>1, ConcatAdjacentSubSeq
<1>8. (w \o SubSeq(p, 2, r)) \o SubSeq(p, r + 1, i) = w \o SubSeq(p, 2, i)
  <2> DEFINE u == SubSeq(p, 2, r)
             v == SubSeq(p, r + 1, i)
  <2>0. u \in Seq(Nodes) /\ v \in Seq(Nodes)
    BY <1>3, <1>4
  <2>1. u \o v = SubSeq(p, 2, i)
    BY <1>7
  <2> HIDE DEF u, v
  <2>2. (w \o u) \o v = w \o (u \o v)
    BY <2>0
  <2>3. (w \o u) \o v = w \o SubSeq(p, 2, i)
    BY <2>1, <2>2
  <2> QED
    BY <2>3 DEF u, v
<1> QED
  BY <1>5, <1>6, <1>8

\* A node segment leads along the one path, an adjacency over its link.
LEMMA OnwardOne ==
    ASSUME NEW gr, NEW w
    PROVE  /\ \A n, p : ShortestPaths(gr, Last(w), n) = Only(p) =>
                 Onward(gr, Only(w), NodeSegment(n)) = Only(w \o Tail(p))
           /\ \A e : e.local = Last(w) =>
                 Onward(gr, Only(w), AdjSegment(e)) = Only(Append(w, e.remote))
<1>1. ASSUME NEW seg PROVE Onward(gr, Only(w), seg) = Follow(gr, w, seg)
  BY DEF Onward, Only
<1>2. ASSUME NEW n, NEW p, ShortestPaths(gr, Last(w), n) = Only(p)
      PROVE  Onward(gr, Only(w), NodeSegment(n)) = Only(w \o Tail(p))
  <2>1. Follow(gr, w, NodeSegment(n)) = {w \o Tail(q) : q \in {p}}
    BY <1>2 DEF Follow, NodeSegment, Only
  <2>2. {w \o Tail(q) : q \in {p}} = {w \o Tail(p)}
    OBVIOUS
  <2> QED
    BY <1>1, <2>1, <2>2 DEF Only
<1>3. ASSUME NEW e, e.local = Last(w)
      PROVE  Onward(gr, Only(w), AdjSegment(e)) = Only(Append(w, e.remote))
  <2>1. AdjSegment(e).adjacency /\ AdjSegment(e).edge = e
    BY DEF AdjSegment
  <2>2. Follow(gr, w, AdjSegment(e)) = {Append(w, e.remote)}
    BY <1>3, <2>1, Zenon DEF Follow
  <2> QED
    BY <1>1, <2>2 DEF Only
<1> QED
  BY <1>2, <1>3
LEMMA OneOf ==
    ASSUME NEW l \in Seq(Nodes)
    PROVE  /\ \A x \in Nodes : Contains(l, x) /\ Len(l) <= 1 => l = <<x>>
           /\ l # << >> /\ ~ (Len(l) > 1) => Len(l) = 1
<1>1. PICK n \in Nat : n = Len(l)
  OBVIOUS
<1>2. ASSUME NEW x \in Nodes, Contains(l, x), n <= 1
      PROVE  l = <<x>>
  <2>1. PICK i \in 1 .. n : l[i] = x
    BY <1>1, <1>2 DEF Contains
  <2>2. i = 1
    BY <1>2, <2>1
  <2>3. l # << >> /\ Len(l) <= 1 /\ l[1] = x
    BY <1>1, <1>2, <2>1, <2>2
  <2> QED
    BY <2>3, Single
<1>3. ASSUME l # << >>, ~ (n > 1)
      PROVE  n = 1
  BY <1>1, <1>3, Filled
<1> QED
  BY <1>1, <1>2, <1>3

\* The choices graph_minseg has for the hop from i to ii.
LEMMA HopIs ==
    ASSUME NoWrap, PositiveCosts, g \in Graphs, NEW i \in Nodes, NEW ii \in Nodes,
           NEW r \in Nodes, i # ii, Linked(g, i, ii), NEW h, h = MinsegHop(i, ii, r)
    PROVE  \/ /\ h.segs = << >> /\ h.root = r
              /\ r # ii /\ Lone(g, r, ii, i)
           \/ /\ h.segs = <<NodeSegment(i)>> /\ h.root = i
              /\ Stray(g, i, ii) \/ Lone(g, i, ii, i)
           \/ /\ h.segs = <<NodeSegment(i), AdjSegment(MinEdge(g, i, ii))>> /\ h.root = ii
<1> DEFINE fromR == Dijkstra(g, r).prev[ii]
           fromI == Dijkstra(g, i).prev[ii]
           Goto  == [segs |-> <<NodeSegment(i)>>, root |-> i]
           Break == [segs |-> <<NodeSegment(i), AdjSegment(MinEdge(g, i, ii))>>,
                     root |-> ii]
           None  == [segs |-> << >>, root |-> r]
<1>0. g \in Clones
  BY GraphsAreClones
<1>1. fromI \in Seq(Nodes) /\ fromI # << >>
  BY <1>0, NeighbourIsFound
<1>2. fromR \in Seq(Nodes) /\ (r = ii => fromR = << >>)
  <2>1. Searching(g, r, FALSE, Dijkstra(g, r))
    BY <1>0, DijkstraEnds
  <2> QED
    BY <2>1 DEF Searching, SearchType, PrevInv
<1>3. h = IF ~ Contains(fromR, i) THEN IF Len(fromI) = 1 THEN Goto ELSE Break
          ELSE IF Len(fromR) <= 1 THEN None
          ELSE IF Len(fromI) > 1 THEN Break ELSE Goto
  BY DEF MinsegHop
<1>4. Stray(g, i, ii) <=> Len(fromI) = 1 /\ fromI # <<i>>
  BY DEF Stray
<1> HIDE DEF fromR, fromI, Goto, Break, None
<1>5. \/ h = None /\ Contains(fromR, i) /\ Len(fromR) <= 1
      \/ h = Goto /\ Len(fromI) = 1
      \/ h = Break
  BY <1>1, <1>3, OneOf
<1>6. CASE h = None /\ Contains(fromR, i) /\ Len(fromR) <= 1
  <2>1. fromR = <<i>>
    BY <1>2, <1>6, OneOf
  <2>2. r # ii
    BY <1>2, <2>1
  <2> QED
    BY <1>6, <2>1, <2>2 DEF None, fromR, Lone
<1>7. CASE h = Goto /\ Len(fromI) = 1
  BY <1>4, <1>7 DEF Goto, fromI, Lone
<1>8. CASE h = Break
  BY <1>8 DEF Break
<1> QED
  BY <1>5, <1>6, <1>7, <1>8
-----------------------------------------------------------------------------
(***************************************************************************)
(* Every step keeps the path pinned                                        *)
(***************************************************************************)
LEMMA SameGraph ==
    ASSUME SameRequest
    PROVE  /\ \A w : Wide(w)' = Wide(w) /\ Strays(g, w)' = Strays(g, w)
           /\ \A a, b : Stray(g, a, b)' = Stray(g, a, b)
           /\ \A s : Walks(g, req.src, s)' = Walks(g, req.src, s)
           /\ Plain' = Plain /\ Prune(g)' = Prune(g)
           /\ fpath' = fpath => Computed' = Computed
           /\ leg' = leg => LegSource' = LegSource
<1>1. Prune(g)' = Prune(g)
  BY Unmoved
<1>2. \A w : Wide(w)' = Wide(w)
  BY <1>1 DEF Wide
<1>3. \A w : Strays(g, w)' = Strays(g, w)
  BY DEF SameRequest
<1>4. \A a, b : Stray(g, a, b)' = Stray(g, a, b)
  BY DEF SameRequest
<1>5. \A s : Walks(g, req.src, s)' = Walks(g, req.src, s)
  BY DEF SameRequest
<1>6. Plain' = Plain
  BY DEF SameRequest, Plain
<1>7. fpath' = fpath => Computed' = Computed
  BY DEF SameRequest, Computed
<1>8. leg' = leg => LegSource' = LegSource
  BY Unmoved DEF SameRequest, LegSource
<1> QED
  BY <1>1, <1>2, <1>3, <1>4, <1>5, <1>6, <1>7, <1>8

LEMMA PinsAtFirst ==
    ASSUME Init
    PROVE  Pins
<1>1. /\ phase = "clone" /\ leg = 1 /\ fpath = << >> /\ segs = << >>
      /\ g \in Graphs /\ req \in Requests
  BY DEF Init
<1>2. req.src \in Nodes
  BY <1>1, RequestAssumption
<1>3. Computed = <<req.src>> /\ Reached = <<req.src>>
  <2>1. << >> \in Seq(Nodes)
    OBVIOUS
  <2>2. Way(req.src, << >>) = <<req.src>>
    BY <1>2, <2>1, WayGrows
  <2> QED
    BY <1>1, <2>2 DEF Computed, Reached
<1>4. /\ <<req.src>> \in Seq(Nodes) /\ <<req.src>> # << >> /\ Len(<<req.src>>) = 1
      /\ Last(<<req.src>>) = req.src
  BY <1>2, Single DEF Last
<1>5. WayInv
  <2>1. Wide(<<req.src>>) /\ ~ Strays(g, <<req.src>>)
    <3>1. \A k \in 1 .. Len(<<req.src>>) - 1 : FALSE
      BY <1>4
    <3> QED
      BY <3>1 DEF Wide, Strays
  <2>2. LegSource = req.src
    BY <1>1 DEF LegSource
  <2> QED
    BY <1>1, <1>3, <1>4, <2>1, <2>2 DEF WayInv
<1>6. PathInv
  BY <1>1 DEF PathInv
<1>7. PinInv
  <2>1. Walks(g, req.src, << >>) = Only(<<req.src>>)
    BY WalksStart
  <2> QED
    BY <1>1, <1>3, <2>1 DEF PinInv, EndsAt
<1> QED
  BY <1>5, <1>6, <1>7 DEF Pins

\* Clone and Search change nothing of it.
LEMMA StillPins ==
    ASSUME Pins, SameRequest, phase \in {"clone", "search"}, phase' = "search",
           leg' = leg, UNCHANGED <<segs, fpath>>
    PROVE  Pins'
<1>1. WayInv /\ PinInv
  BY DEF Pins
<1>2. Computed' = Computed /\ LegSource' = LegSource /\ Reached = Computed /\ Reached' = Computed
  BY SameGraph DEF Reached
<1>3. WayInv'
  BY <1>1, <1>2, SameGraph DEF WayInv
<1>4. PinInv'
  BY <1>1, <1>2, SameGraph DEF PinInv, EndsAt, SameRequest
<1>5. PathInv'
  BY DEF PathInv
<1> QED
  BY <1>3, <1>4, <1>5 DEF Pins
\* A stretch of one node.
LEMMA OneNode ==
    ASSUME NEW p \in Seq(Nodes), NEW r \in 1 .. Len(p)
    PROVE  SubSeq(p, r, r) = <<p[r]>>
<1> DEFINE q == SubSeq(p, r, r)
<1>1. r \in Int /\ \A k \in r .. r : p[k] \in Nodes
  OBVIOUS
<1>2. q \in Seq(Nodes) /\ Len(q) = IF r <= r THEN r - r + 1 ELSE 0
  BY <1>1, SubSeqProperties
<1>3. \A i \in 1 .. r - r + 1 : q[i] = p[r + i - 1]
  BY <1>1, SubSeqProperties
<1> HIDE DEF q
<1>4. Len(q) <= 1 /\ Len(q) >= 1 /\ 1 \in 1 .. r - r + 1 /\ r + 1 - 1 = r
  BY <1>1, <1>2
<1>5. q[1] = p[r] /\ q # << >>
  BY <1>3, <1>4, EmptySeq
<1>6. q = <<p[r]>>
  BY <1>1, <1>2, <1>4, <1>5, Single
<1> QED
  BY <1>6 DEF q

LEMMA HopOfTrace ==
    ASSUME NoWrap, PositiveCosts, NEW gr \in Clones, NEW b \in Measures, NEW src \in Nodes,
           NEW st, Searching(gr, src, b, st), Open(st) = {}, NEW dst \in Extracted(st),
           NEW p, IsTrace(p, gr, b, st, src, dst), NEW k \in 1 .. Len(p) - 1
    PROVE  /\ p[k] # p[k + 1] /\ Linked(gr, p[k], p[k + 1])
           /\ b = FALSE => ~ Stray(gr, p[k], p[k + 1])
<1>0. Infinite \in Nat
  BY NodesAreFinite
<1>1. PICK n \in Nat : n = Len(p)
  BY DEF IsTrace
<1>2. /\ p[n] = dst
      /\ \A i \in 1 .. n - 1 : p[i + 1] # src /\ p[i] \in Attaining(gr, b, st, p[i + 1])
  BY <1>1 DEF IsTrace
<1> DEFINE u == p[k]
           v == p[k + 1]
           c == LinkCost(gr, b, u, v)
<1>3. u \in Attaining(gr, b, st, v)
  BY <1>1, <1>2
<1>4. v \in Extracted(st)
  <2>1. CASE k + 1 = n
    BY <1>2, <2>1
  <2>2. CASE k + 1 # n
    <3>1. k + 1 \in 1 .. n - 1
      BY <1>1, <2>2
    <3>2. v \in Attaining(gr, b, st, p[(k + 1) + 1])
      BY <1>2, <3>1
    <3> QED
      BY <3>2 DEF Attaining
  <2> QED
    BY <2>1, <2>2
<1> HIDE DEF u, v, c
<1>5. u \in Extracted(st) /\ Linked(gr, u, v) /\ st.dist[v] = st.dist[u] + c
  BY <1>3 DEF Attaining, c
<1>6. u \in Nodes /\ v \in Nodes
  BY <1>4, <1>5 DEF Extracted
<1>7. st.dist[u] \in Nat /\ c \in Nat /\ c > 0
  BY <1>0, <1>5, <1>6, CostsAreBounded DEF Searching, SearchType, c
<1>8. u # v
  BY <1>5, <1>7
<1>9. ASSUME b = FALSE
      PROVE  ~ Stray(gr, u, v)
  <2>1. Searching(gr, src, FALSE, st) /\ u \in Attaining(gr, FALSE, st, v)
    BY <1>3, <1>9, Zenon
  <2> QED
    BY <1>4, <2>1, NotStray
<1> QED
  BY <1>5, <1>8, <1>9 DEF u, v

LEMMA ChoosePathPins ==
    ASSUME NoWrap, PositiveCosts, IInv, Pins, ChoosePath
    PROVE  Pins'
<1>1. /\ SameRequest /\ phase = "search" /\ phase' = "minseg" /\ leg' = leg
      /\ segs' = segs /\ fpath' = fpath /\ hop' = 1 /\ root' = LegSource
      /\ path' = FirstPath(d, LegSource, Targets[leg])
      /\ Open(d) = {} /\ Targets[leg] \notin d.Q
  BY DEF ChoosePath, SameRequest
<1>2. /\ gc = Prune(g) /\ gc \in Clones /\ g \in Graphs /\ req \in Requests
      /\ LegSource \in Nodes /\ Targets[leg] \in Nodes /\ req.byDelay \in Measures
  BY <1>1, PruneIsWide, LegSourceIsSource DEF IInv, Ordinary, CloneInv
<1>3. Searching(gc, LegSource, req.byDelay, d) /\ Targets[leg] \in Extracted(d)
  BY <1>1, <1>2 DEF IInv, SearchInv, Extracted
<1>4. IsTrace(path', gc, req.byDelay, d, LegSource, Targets[leg])
  BY <1>1, <1>2, <1>3, FirstPathIs
<1>5. path' \in Seq(Nodes) /\ path' # << >> /\ path'[1] = LegSource
  BY <1>4 DEF IsTrace
<1>6. 1 \in 1 .. Len(path')
  BY <1>5, Filled
<1>7. WayInv /\ PinInv
  BY <1>1 DEF Pins
<1>8. Computed' = Computed /\ LegSource' = LegSource /\ Reached = Computed
  BY <1>1, SameGraph DEF Reached
<1>9. Computed \in Seq(Nodes) /\ Computed # << >> /\ Last(Computed) = LegSource
  BY <1>1, <1>7 DEF WayInv
<1>10. Computed \o SubSeq(path', 2, 1) = Computed
  BY <1>9, SubSeqEmpty, ConcatEmptySeq
<1>11. Reached' = Computed
  BY <1>1, <1>8, <1>10 DEF Reached
<1>12. WayInv'
  BY <1>1, <1>7, <1>8, <1>11, SameGraph DEF WayInv
<1>13. PathInv'
  <2>1. ASSUME NEW k \in 1 .. Len(path') - 1
        PROVE  /\ path'[k] # path'[k + 1]
               /\ Linked(Prune(g), path'[k], path'[k + 1])
               /\ Plain => ~ Stray(g, path'[k], path'[k + 1])
    <3>1. /\ path'[k] # path'[k + 1] /\ Linked(gc, path'[k], path'[k + 1])
          /\ req.byDelay = FALSE => ~ Stray(gc, path'[k], path'[k + 1])
      BY <1>1, <1>2, <1>3, <1>4, HopOfTrace
    <3>2. Plain => gc = g /\ req.byDelay = FALSE
      BY <1>2, RequestAssumption DEF Plain, Prune
    <3> QED
      BY <1>2, <3>1, <3>2
  <2>2. path'[Len(path')] = Targets[leg]
    BY <1>4 DEF IsTrace
  <2>3. Targets' = Targets
    BY <1>1, Unmoved
  <2> QED
    BY <1>1, <1>5, <1>6, <1>8, <2>1, <2>2, <2>3, SameGraph DEF PathInv
<1>14. PinInv'
  <2>1. CASE Strays(g, Reached)
    BY <1>1, <1>2, <1>7, <1>8, <1>11, <2>1, SameGraph DEF PinInv, EndsAt, SameRequest
  <2>2. CASE ~ Strays(g, Reached)
    <3>1. Walks(g, req.src, segs) = Only(Computed)
      BY <1>1, <1>7, <2>2 DEF PinInv
    <3>2. ShortestPaths(g, LegSource, LegSource) = Only(<<LegSource>>)
      <4>1. g \in Clones
        BY <1>2, GraphsAreClones
      <4>2. Dijkstra(g, LegSource).prev \in [Nodes -> Seq(Nodes)]
        BY <1>2, <4>1, DijkstraEnds DEF Searching, SearchType
      <4> QED
        BY <1>2, <4>2, PathsAre
    <3>3. SubSeq(path', 1, 1) = <<LegSource>>
      BY <1>5, <1>6, OneNode
    <3>4. Led'
      <4>1. 1 \in 1 .. hop'
        BY <1>1
      <4>2. /\ root' = path'[1]
            /\ Walks(g', req'.src, segs') = Only(Computed' \o SubSeq(path', 2, 1))
            /\ ShortestPaths(g', root', path'[hop']) = Only(SubSeq(path', 1, hop'))
        BY <1>1, <1>5, <1>8, <1>10, <3>1, <3>2, <3>3 DEF SameRequest
      <4> QED
        BY <4>1, <4>2, Zenon DEF Led
    <3> QED
      BY <1>1, <1>2, <1>7, <3>4, SameGraph DEF PinInv, EndsAt, SameRequest
  <2> QED
    BY <2>1, <2>2
<1> QED
  BY <1>12, <1>13, <1>14 DEF Pins
LEMMA AppendOne ==
    ASSUME NEW S, NEW s \in Seq(S), NEW x \in S
    PROVE  Append(s, x) \in Seq(S) /\ Append(s, x) # << >> /\ Last(Append(s, x)) = x
<1> DEFINE a == Append(s, x)
<1>1. a \in Seq(S) /\ a # << >> /\ Len(a) = Len(s) + 1 /\ a[Len(s) + 1] = x
  BY AppendProperties
<1> HIDE DEF a
<1>2. Last(a) = x
  BY <1>1 DEF Last
<1> QED
  BY <1>1, <1>2 DEF a

LEMMA AppendTwo ==
    ASSUME NEW S, NEW s \in Seq(S), NEW x \in S, NEW y \in S
    PROVE  /\ s \o << >> = s /\ s \o <<x>> = Append(s, x)
           /\ s \o <<x, y>> = Append(Append(s, x), y)
<1>1. PICK n \in Nat : n = Len(s)
  OBVIOUS
<1>2. s \o << >> = s /\ s \o <<x>> = Append(s, x)
  BY AppendIsConcat, ConcatEmptySeq
<1> DEFINE a == Append(s, x)
           t == Append(a, y)
           c == s \o <<x, y>>
<1>3. a \in Seq(S) /\ a # << >> /\ Len(a) = n + 1 /\ a[n + 1] = x /\ \A k \in 1 .. n : a[k] = s[k]
  BY <1>1, AppendProperties
<1> HIDE DEF a
<1>5. /\ t \in Seq(S) /\ Len(t) = n + 1 + 1 /\ t[n + 1 + 1] = y
      /\ \A k \in 1 .. n + 1 : t[k] = a[k]
  BY <1>3, AppendProperties
<1>6. <<x, y>> \in Seq(S) /\ Len(<<x, y>>) = 2 /\ <<x, y>>[1] = x /\ <<x, y>>[2] = y
  OBVIOUS
<1>7. /\ c \in Seq(S) /\ Len(c) = n + 2
      /\ \A k \in 1 .. n + 2 : c[k] = IF k <= n THEN s[k] ELSE <<x, y>>[k - n]
  BY <1>1, <1>6, ConcatProperties
<1> HIDE DEF t, c
<1>8. \A k \in 1 .. Len(c) : c[k] = t[k]
  <2> SUFFICES ASSUME NEW k \in 1 .. n + 2 PROVE c[k] = t[k]
    BY <1>7
  <2>1. CASE k <= n
    BY <1>3, <1>5, <1>7, <2>1
  <2>2. CASE k = n + 1
    <3>1. k - n = 1 /\ ~ (k <= n) /\ k \in 1 .. n + 1
      BY <2>2
    <3> QED
      BY <1>3, <1>5, <1>6, <1>7, <2>2, <3>1
  <2>3. CASE k = n + 2
    <3>1. k - n = 2 /\ ~ (k <= n) /\ k = n + 1 + 1
      BY <2>3
    <3> QED
      BY <1>5, <1>6, <1>7, <3>1
  <2> QED
    BY <2>1, <2>2, <2>3
<1>9. Len(c) = Len(t)
  BY <1>5, <1>7
<1>10. c = t
  BY <1>5, <1>7, <1>8, <1>9, SeqEqual
<1> QED
  BY <1>2, <1>10 DEF a, c, t

LEMMA SegmentsAre ==
    ASSUME g \in Graphs, NEW i \in Nodes, NEW ii \in Nodes
    PROVE  /\ NodeSegment(i) \in Segments /\ ~ NodeSegment(i).adjacency
           /\ Linked(g, i, ii) =>
                 /\ AdjSegment(MinEdge(g, i, ii)) \in Segments
                 /\ AdjSegment(MinEdge(g, i, ii)).edge.remote = ii
                 /\ MinEdge(g, i, ii).local = i /\ MinEdge(g, i, ii).remote = ii
<1>1. NodeSegment(i) \in Segments /\ ~ NodeSegment(i).adjacency
  BY DEF NodeSegment, Segments
<1>2. ASSUME Linked(g, i, ii)
      PROVE  /\ AdjSegment(MinEdge(g, i, ii)) \in Segments
             /\ AdjSegment(MinEdge(g, i, ii)).edge.remote = ii
             /\ MinEdge(g, i, ii).local = i /\ MinEdge(g, i, ii).remote = ii
  <2> DEFINE e == MinEdge(g, i, ii)
  <2>1. e \in Parallel(g, i, ii)
    BY <1>2, GraphsAreClones, MinEdgeIsOne
  <2> HIDE DEF e
  <2>2. e \in UNION Graphs /\ e.local = i /\ e.remote = ii
    BY <2>1 DEF Parallel
  <2>3. AdjSegment(e) \in Segments /\ AdjSegment(e).edge = e
    BY <2>2 DEF AdjSegment, Segments
  <2> QED
    BY <2>2, <2>3 DEF e
<1> QED
  BY <1>1, <1>2

\* The segment of the node that is reached leads there.
LEMMA LedThere ==
    ASSUME Led, segs \in Seq(Segments), path \in Seq(Nodes), hop \in 1 .. Len(path),
           Computed \in Seq(Nodes), Computed # << >>, Last(Computed) = path[1],
           NEW n \in Nodes, n = path[hop]
    PROVE  Walks(g, req.src, Append(segs, NodeSegment(n))) = Only(Computed \o SubSeq(path, 2, hop))
<1> DEFINE W(k) == Computed \o SubSeq(path, 2, k)
           x == NodeSegment(n)
<1>1. PICK r \in 1 .. hop : /\ root = path[r] /\ Walks(g, req.src, segs) = Only(W(r))
                           /\ ShortestPaths(g, root, n) = Only(SubSeq(path, r, hop))
  BY DEF Led
<1>2. r \in 1 .. Len(path) /\ hop \in r .. Len(path)
  OBVIOUS
<1>3. Last(W(r)) = root
  BY <1>1, <1>2, EndOf
<1>4. W(r) \o Tail(SubSeq(path, r, hop)) = W(hop)
  BY <1>2, Joined
<1> HIDE DEF W
<1>5. \A m, p : ShortestPaths(g, Last(W(r)), m) = Only(p) =>
         Onward(g, Only(W(r)), NodeSegment(m)) = Only(W(r) \o Tail(p))
  BY OnwardOne
<1>6. ShortestPaths(g, Last(W(r)), n) = Only(SubSeq(path, r, hop))
  BY <1>1, <1>3
<1>7. Onward(g, Only(W(r)), x) = Only(W(r) \o Tail(SubSeq(path, r, hop)))
  BY <1>5, <1>6, Zenon
<1>8. x \in Segments
  BY DEF NodeSegment, Segments
<1> HIDE DEF x
<1>9. Walks(g, req.src, Append(segs, x)) = Onward(g, Walks(g, req.src, segs), x)
  BY <1>8, WalksGrow
<1>10. Walks(g, req.src, Append(segs, x)) = Only(W(hop))
  BY <1>1, <1>4, <1>7, <1>9
<1> QED
  BY <1>10 DEF W, x

LEMMA HopPins ==
    ASSUME NoWrap, PositiveCosts, IInv, Pins, Hop
    PROVE  Pins'
<1> DEFINE i == path[hop]
           ii == path[hop + 1]
           h == MinsegHop(i, ii, root)
           W(k) == Computed \o SubSeq(path, 2, k)
<1>1. /\ SameRequest /\ phase = "minseg" /\ phase' = "minseg" /\ leg' = leg
      /\ path' = path /\ fpath' = fpath /\ hop' = hop + 1 /\ hop < Len(path)
      /\ segs' = segs \o h.segs /\ root' = h.root
  BY DEF Hop, SameRequest
<1>2. g \in Graphs /\ g \in Clones /\ req \in Requests
  BY GraphsAreClones DEF IInv, Ordinary
<1>3. WayInv /\ PathInv /\ PinInv
  BY <1>1 DEF Pins
<1>4. /\ path \in Seq(Nodes) /\ hop \in 1 .. Len(path) - 1 /\ hop \in 1 .. Len(path)
      /\ hop + 1 \in 1 .. Len(path) /\ i \in Nodes /\ ii \in Nodes
  BY <1>1, <1>3 DEF PathInv
<1>5. i # ii /\ Linked(Prune(g), i, ii) /\ (Plain => ~ Stray(g, i, ii))
  BY <1>1, <1>3, <1>4 DEF PathInv
<1>6. Linked(g, i, ii)
  BY <1>2, <1>5, PruneIsWide DEF Linked, Parallel
<1>7. Computed \in Seq(Nodes) /\ Computed # << >> /\ Last(Computed) = path[1]
  BY <1>1, <1>3 DEF WayInv, PathInv
<1>8. \A k \in 1 .. Len(path) : W(k) \in Seq(Nodes) /\ W(k) # << >> /\ Last(W(k)) = path[k]
  BY <1>4, <1>7, EndOf
<1>9. W(hop + 1) = Append(W(hop), ii)
  <2>1. 2 \in Nat \ {0} /\ hop \in 2 - 1 .. Len(path) - 1
    BY <1>4
  <2> QED
    BY <1>4, <1>7, <2>1, OneMore
<1>10. Reached = W(hop) /\ Reached' = W(hop + 1) /\ Computed' = Computed /\ LegSource' = LegSource
  BY <1>1, SameGraph DEF Reached
<1> HIDE DEF W, h, i, ii
<1>11. /\ Strays(g, W(hop + 1)) <=> Strays(g, W(hop)) \/ Stray(g, i, ii)
       /\ Wide(W(hop + 1)) <=> Wide(W(hop)) /\ Linked(Prune(g), i, ii)
  <2>1. W(hop) \in Seq(Nodes) /\ W(hop) # << >> /\ Last(W(hop)) = i
    BY <1>4, <1>8 DEF i
  <2>2. i \in Nodes /\ ii \in Nodes
    BY <1>4
  <2>3. \A w \in Seq(Nodes) : w # << >> =>
           /\ Strays(g, Append(w, ii)) <=> Strays(g, w) \/ Stray(g, Last(w), ii)
           /\ Wide(Append(w, ii)) <=> Wide(w) /\ Linked(Prune(g), Last(w), ii)
    BY <2>2, OneHopMore
  <2> QED
    BY <1>9, <2>1, <2>3
<1>12. WayInv'
  BY <1>1, <1>3, <1>5, <1>10, <1>11, SameGraph DEF WayInv
<1>13. PathInv'
  <2>1. Targets' = Targets
    BY <1>1, Unmoved
  <2> QED
    BY <1>1, <1>3, <1>4, <1>10, <2>1, SameGraph DEF PathInv
<1>14. segs \in Seq(Segments) /\ root \in Nodes /\ EndsAt(segs, root)
  BY <1>1, <1>3 DEF PinInv
<1> DEFINE none  == h.segs = << >> /\ h.root = root /\ root # ii
                       /\ Lone(g, root, ii, i)
           goto  == h.segs = <<NodeSegment(i)>> /\ h.root = i
                       /\ (Stray(g, i, ii) \/ Lone(g, i, ii, i))
           break == h.segs = <<NodeSegment(i), AdjSegment(MinEdge(g, i, ii))>> /\ h.root = ii
           x == NodeSegment(i)
           y == AdjSegment(MinEdge(g, i, ii))
<1>15. none \/ goto \/ break
  BY <1>2, <1>4, <1>5, <1>6, <1>14, HopIs DEF h
<1>16. /\ x \in Segments /\ ~ x.adjacency /\ y \in Segments /\ y.edge.remote = ii
       /\ MinEdge(g, i, ii).local = i /\ MinEdge(g, i, ii).remote = ii
  BY <1>2, <1>4, <1>6, SegmentsAre
<1>17. /\ none => segs' = segs /\ root' = root
       /\ goto => segs' = Append(segs, x) /\ root' = i
       /\ break => segs' = Append(Append(segs, x), y) /\ root' = ii
  <2>1. /\ segs \o << >> = segs /\ segs \o <<x>> = Append(segs, x)
        /\ segs \o <<x, y>> = Append(Append(segs, x), y)
    BY <1>14, <1>16, AppendTwo
  <2> QED
    BY <1>1, <2>1
<1>18. Append(segs, x) \in Seq(Segments) /\ Append(segs, x) # << >> /\ Last(Append(segs, x)) = x
  <2> HIDE DEF x
  <2> QED
    BY <1>14, <1>16, AppendOne
<1>19. /\ Append(Append(segs, x), y) \in Seq(Segments) /\ Append(Append(segs, x), y) # << >>
       /\ Last(Append(Append(segs, x), y)) = y
  <2> HIDE DEF x, y
  <2> QED
    BY <1>16, <1>18, AppendOne
<1>20. segs' \in Seq(Segments) /\ root' \in Nodes /\ EndsAt(segs', root')
  <2> HIDE DEF x, y
  <2>1. CASE none
    BY <1>14, <1>17, <2>1
  <2>2. CASE goto
    BY <1>4, <1>16, <1>17, <1>18, <2>2 DEF EndsAt
  <2>3. CASE break
    BY <1>4, <1>16, <1>17, <1>19, <2>3 DEF EndsAt
  <2> HIDE DEF none, goto, break
  <2> QED
    BY <1>15, <2>1, <2>2, <2>3
<1> HIDE DEF x, y
<1>21. ASSUME ~ Strays(g, W(hop + 1))
       PROVE  Led'
  <2>1. ~ Strays(g, W(hop)) /\ ~ Stray(g, i, ii)
    BY <1>11, <1>21
  <2>2. PICK r \in 1 .. hop : /\ root = path[r] /\ Walks(g, req.src, segs) = Only(W(r))
                             /\ ShortestPaths(g, root, i) = Only(SubSeq(path, r, hop))
    BY <1>1, <1>3, <1>10, <2>1 DEF PinInv, Led, W, i
  <2>3. r \in 1 .. Len(path) /\ hop \in r .. Len(path) /\ r \in 1 .. hop + 1
    BY <1>4
  <2>4. \A v \in Nodes : /\ Dijkstra(g, v).prev \in [Nodes -> Seq(Nodes)]
                         /\ ShortestPaths(g, v, v) = Only(<<v>>)
    <3>1. ASSUME NEW v \in Nodes
          PROVE  Dijkstra(g, v).prev \in [Nodes -> Seq(Nodes)]
      BY <1>2, DijkstraEnds DEF Searching, SearchType
    <3> QED
      BY <3>1, PathsAre
  <2>5. \A k \in 1 .. hop : SubSeq(path, k, hop + 1) = Append(SubSeq(path, k, hop), ii)
    <3> SUFFICES ASSUME NEW k \in 1 .. hop
                 PROVE  SubSeq(path, k, hop + 1) = Append(SubSeq(path, k, hop), ii)
      OBVIOUS
    <3>1. << >> \in Seq(Nodes) /\ k \in Nat \ {0} /\ hop \in k - 1 .. Len(path) - 1
      BY <1>4
    <3>2. << >> \o SubSeq(path, k, hop + 1) = Append(<< >> \o SubSeq(path, k, hop), ii)
      BY <1>4, <3>1, OneMore DEF ii
    <3>3. /\ SubSeq(path, k, hop) \in Seq(Nodes)
          /\ SubSeq(path, k, hop + 1) \in Seq(Nodes)
      BY <1>4, <1>7, <3>1, Joined
    <3> QED
      BY <3>2, <3>3, ConcatEmptySeq
  <2>6. SubSeq(path, hop, hop) = <<i>> /\ SubSeq(path, hop + 1, hop + 1) = <<ii>>
    BY <1>4, OneNode DEF i, ii
  <2>7. Walks(g, req.src, Append(segs, x)) = Only(W(hop))
    <3>1. Led
      BY <1>1, <1>3, <1>10, <2>1 DEF PinInv
    <3>2. Walks(g, req.src, Append(segs, NodeSegment(i))) = Only(Computed \o SubSeq(path, 2, hop))
      <4>1. i \in Nodes /\ i = path[hop]
        BY <1>4 DEF i
      <4> QED
        BY <1>4, <1>7, <1>14, <3>1, <4>1, LedThere
    <3> QED
      BY <3>2 DEF W, x
  <2>8. CASE none
    <3>1. ShortestPaths(g, root, ii) = Only(Append(SubSeq(path, r, hop), ii))
      <4>1. /\ root \in Nodes /\ i \in Nodes /\ ii \in Nodes /\ ii # root
            /\ Lone(g, root, ii, i)
        BY <1>4, <1>14, <2>8
      <4>2. Dijkstra(g, root).prev \in [Nodes -> Seq(Nodes)]
        BY <2>4, <4>1
      <4> QED
        BY <2>2, <4>1, <4>2, OnePredecessor
    <3>2. /\ root' = path[r] /\ Walks(g, req.src, segs') = Only(W(r))
          /\ ShortestPaths(g, root', ii) = Only(SubSeq(path, r, hop + 1))
      BY <1>17, <2>2, <2>5, <2>8, <3>1
    <3> QED
      BY <1>1, <1>10, <2>3, <3>2 DEF Led, W, ii, SameRequest
  <2>9. CASE goto
    <3>1. ShortestPaths(g, i, ii) = Only(Append(<<i>>, ii))
      <4>1. i \in Nodes /\ ii \in Nodes /\ ii # i /\ Lone(g, i, ii, i)
        BY <1>4, <1>5, <2>1, <2>9
      <4>2. Dijkstra(g, i).prev \in [Nodes -> Seq(Nodes)]
        BY <2>4, <4>1
      <4> DEFINE one == <<i>>
      <4>3. ShortestPaths(g, i, i) = Only(one)
        BY <2>4, <4>1
      <4> HIDE DEF one
      <4>4. ShortestPaths(g, i, ii) = Only(Append(one, ii))
        BY <4>1, <4>2, <4>3, OnePredecessor
      <4> QED
        BY <4>4 DEF one
    <3>2. /\ root' = i /\ Walks(g, req.src, segs') = Only(W(hop))
          /\ ShortestPaths(g, root', ii) = Only(SubSeq(path, hop, hop + 1))
      <4>1. SubSeq(path, hop, hop + 1) = Append(<<i>>, ii)
        <5>1. hop \in 1 .. hop
          BY <1>4
        <5> QED
          BY <2>5, <2>6, <5>1
      <4>2. segs' = Append(segs, x) /\ root' = i
        BY <1>17, <2>9
      <4> QED
        BY <2>7, <3>1, <4>1, <4>2
    <3>3. hop \in 1 .. hop + 1
      BY <1>4
    <3> QED
      BY <1>1, <1>10, <3>2, <3>3 DEF Led, W, i, ii, SameRequest
  <2>10. CASE break
    <3>1. Last(W(hop)) = i
      BY <1>4, <1>8 DEF i
    <3>2. Onward(g, Only(W(hop)), y) = Only(Append(W(hop), ii))
      <4>1. \A e : e.local = Last(W(hop)) =>
               Onward(g, Only(W(hop)), AdjSegment(e)) = Only(Append(W(hop), e.remote))
        BY OnwardOne
      <4>2. MinEdge(g, i, ii).local = Last(W(hop)) /\ MinEdge(g, i, ii).remote = ii
        BY <1>16, <3>1
      <4>3. Onward(g, Only(W(hop)), AdjSegment(MinEdge(g, i, ii)))
               = Only(Append(W(hop), MinEdge(g, i, ii).remote))
        BY <4>1, <4>2, Zenon
      <4> QED
        BY <4>2, <4>3 DEF y
    <3>3. Walks(g, req.src, Append(Append(segs, x), y)) = Only(W(hop + 1))
      <4>1. Walks(g, req.src, Append(Append(segs, x), y))
               = Onward(g, Walks(g, req.src, Append(segs, x)), y)
        <5> DEFINE s == Append(segs, x)
        <5>1. s \in Seq(Segments) /\ y \in Segments
          BY <1>16, <1>18
        <5> HIDE DEF s
        <5>2. Walks(g, req.src, Append(s, y)) = Onward(g, Walks(g, req.src, s), y)
          BY <5>1, WalksGrow
        <5> QED
          BY <5>2 DEF s
      <4> QED
        BY <1>9, <2>7, <3>2, <4>1
    <3>4. /\ root' = ii /\ Walks(g, req.src, segs') = Only(W(hop + 1))
          /\ ShortestPaths(g, root', ii) = Only(SubSeq(path, hop + 1, hop + 1))
      BY <1>4, <1>17, <2>4, <2>6, <2>10, <3>3
    <3>5. hop + 1 \in 1 .. hop + 1
      BY <1>4
    <3> QED
      BY <1>1, <1>10, <3>4, <3>5 DEF Led, W, ii, SameRequest
  <2> HIDE DEF none, goto, break
  <2> QED
    BY <1>15, <2>8, <2>9, <2>10
<1>22. PinInv'
  <2> HIDE DEF none, goto, break
  <2> QED
    BY <1>1, <1>10, <1>20, <1>21, SameGraph DEF PinInv, EndsAt, SameRequest
<1> QED
  BY <1>12, <1>13, <1>22 DEF Pins

LEMMA LegDonePins ==
    ASSUME NoWrap, PositiveCosts, IInv, Pins, LegDone
    PROVE  Pins'
<1> DEFINE t == Targets[leg]
           e == Len(path)
<1>1. /\ SameRequest /\ phase = "minseg" /\ hop = e
      /\ fpath' = fpath \o path /\ segs' = AddTarget(segs, t)
      /\ phase' \in {"search", "done"}
      /\ phase' = "search" => leg' = leg + 1
  BY DEF LegDone, SameRequest
<1>2. g \in Graphs /\ req \in Requests /\ t \in Nodes /\ leg \in Nat \ {0}
  BY LegSourceIsSource DEF IInv, Ordinary
<1>3. WayInv /\ PathInv /\ PinInv
  BY <1>1 DEF Pins
<1>4. /\ path \in Seq(Nodes) /\ hop \in 1 .. e /\ hop = e /\ path # << >> /\ path[e] = t
      /\ \A k \in 1 .. e - 1 : path[k] # path[k + 1]
  <2>1. path \in Seq(Nodes) /\ hop \in 1 .. e
    BY <1>1, <1>3 DEF PathInv
  <2> QED
    BY <1>1, <1>3, <2>1 DEF PathInv
<1>5. /\ Computed \in Seq(Nodes) /\ Computed # << >> /\ Last(Computed) = path[1]
      /\ fpath \in Seq(Nodes)
  BY <1>1, <1>3 DEF WayInv, PathInv
<1>6. /\ Reached = Computed \o SubSeq(path, 2, e) /\ Reached \in Seq(Nodes)
      /\ Reached # << >> /\ Last(Reached) = t
  <2>1. e \in 1 .. Len(path)
    BY <1>4
  <2>2. Reached = Computed \o SubSeq(path, 2, e)
    BY <1>1 DEF Reached
  <2> QED
    BY <1>4, <1>5, <2>1, <2>2, EndOf
<1>7. Computed' = Reached /\ Reached' = Reached
  <2>1. Way(req.src, fpath \o path) = Way(req.src, fpath) \o SubSeq(path, 2, Len(path))
    BY <1>4, <1>5, WayGoesOn DEF Computed
  <2>2. Computed' = Reached
    BY <1>1, <1>6, <2>1 DEF Computed, SameRequest
  <2> QED
    BY <1>1, <2>2 DEF Reached
<1>8. phase' = "search" => LegSource' = t
  BY <1>1, <1>2, Unmoved DEF LegSource
<1>9. WayInv'
  <2>1. fpath' \in Seq(Nodes)
    BY <1>1, <1>4, <1>5
  <2>2. phase' # "done" => Last(Computed') = LegSource'
    BY <1>1, <1>6, <1>7, <1>8
  <2> QED
    BY <1>1, <1>3, <1>6, <1>7, <2>1, <2>2, SameGraph DEF WayInv
<1>10. PathInv'
  BY <1>1 DEF PathInv
<1> HIDE DEF t, e
<1>11. segs \in Seq(Segments) /\ EndsAt(segs, root)
  BY <1>1, <1>3 DEF PinInv
<1> DEFINE x == NodeSegment(t)
           entered == segs # << >> /\ Last(segs).adjacency /\ Last(segs).edge.remote = t
<1>12. x \in Segments /\ ~ x.adjacency
  BY <1>2 DEF NodeSegment, Segments
<1>13. /\ Append(segs, x) \in Seq(Segments) /\ Append(segs, x) # << >>
       /\ Last(Append(segs, x)) = x
  <2> HIDE DEF x
  <2> QED
    BY <1>11, <1>12, AppendOne
<1>14. (entered => segs' = segs) /\ (~ entered => segs' = Append(segs, x))
  BY <1>1 DEF AddTarget
<1>15. segs' \in Seq(Segments) /\ EndsAt(segs', t)
  <2> HIDE DEF x
  <2>1. CASE entered
    BY <1>11, <1>14, <2>1 DEF EndsAt
  <2>2. CASE ~ entered
    BY <1>12, <1>13, <1>14, <2>2 DEF EndsAt
  <2> QED
    BY <2>1, <2>2
<1>16. ASSUME ~ Strays(g, Reached)
       PROVE  Walks(g, req.src, segs') = Only(Reached)
  <2>1. Led
    BY <1>1, <1>3, <1>16 DEF PinInv
  <2>2. CASE ~ entered
    <3>1. Walks(g, req.src, Append(segs, NodeSegment(t)))
             = Only(Computed \o SubSeq(path, 2, hop))
      <4>1. hop \in 1 .. Len(path) /\ t = path[hop]
        BY <1>4 DEF e
      <4> QED
        BY <1>2, <1>4, <1>5, <1>11, <2>1, <4>1, LedThere
    <3> QED
      BY <1>4, <1>6, <1>14, <2>2, <3>1
  <2>3. CASE entered
    <3>1. root = t
      BY <1>11, <2>3 DEF EndsAt
    <3>2. PICK r \in 1 .. hop :
             /\ Walks(g, req.src, segs) = Only(Computed \o SubSeq(path, 2, r))
             /\ ShortestPaths(g, root, path[hop]) = Only(SubSeq(path, r, hop))
      BY <2>1 DEF Led
    <3>3. ShortestPaths(g, t, t) = Only(SubSeq(path, r, hop))
      BY <1>4, <3>1, <3>2
    <3>4. ShortestPaths(g, t, t) = Only(<<t>>)
      <4>1. Dijkstra(g, t).prev \in [Nodes -> Seq(Nodes)]
        BY <1>2, GraphsAreClones, DijkstraEnds DEF Searching, SearchType
      <4> QED
        BY <1>2, <4>1, PathsAre
    <3>5. Len(SubSeq(path, r, hop)) = Len(<<t>>)
      <4> DEFINE p == SubSeq(path, r, hop)
                 q == <<t>>
      <4>1. Only(p) = Only(q)
        BY <3>3, <3>4
      <4> HIDE DEF p, q
      <4>2. p = q
        BY <4>1 DEF Only
      <4> QED
        BY <4>2 DEF p, q
    <3>6. r = hop
      <4>1. Len(SubSeq(path, r, hop)) = hop - r + 1
        BY <1>4, <1>5, Joined DEF e
      <4>2. hop - r + 1 = 1
        BY <3>5, <4>1
      <4> QED
        BY <1>4, <4>2 DEF e
    <3> QED
      BY <1>4, <1>6, <1>14, <2>3, <3>2, <3>6
  <2> QED
    BY <2>2, <2>3
<1>17. PinInv'
  <2>1. Strays(g, Reached)' \/ Walks(g, req.src, segs)' = Only(Computed)'
    BY <1>1, <1>7, <1>16 DEF SameRequest
  <2>2. phase' \in {"clone", "search"} => EndsAt(segs', LegSource')
    BY <1>1, <1>8, <1>15
  <2> QED
    BY <1>1, <1>15, <2>1, <2>2 DEF PinInv, EndsAt
<1> QED
  BY <1>9, <1>10, <1>17 DEF Pins

LEMMA NextPins ==
    ASSUME NoWrap, PositiveCosts, IInv, Pins, [Next]_vars
    PROVE  Pins'
<1>1. CASE Clone
  BY <1>1, StillPins DEF Clone, SameRequest
<1>2. CASE Search
  BY <1>2, StillPins DEF Search, SameRequest
<1>3. CASE ChoosePath
  BY <1>3, ChoosePathPins
<1>4. CASE NoPath
  BY <1>4 DEF NoPath, Pins
<1>5. CASE Hop
  BY <1>5, HopPins
<1>6. CASE LegDone
  BY <1>6, LegDonePins
<1>7. CASE UNCHANGED vars
  <2>1. SameRequest /\ UNCHANGED <<phase, leg, path, hop, root, segs, fpath>>
    BY <1>7 DEF vars, SameRequest
  <2>2. Computed' = Computed /\ LegSource' = LegSource /\ Reached' = Reached /\ Targets' = Targets
    BY <2>1, SameGraph, Unmoved DEF Reached
  <2>3. WayInv' = WayInv
    BY <2>1, <2>2, SameGraph DEF WayInv
  <2>4. PathInv' = PathInv
    BY <2>1, <2>2, SameGraph DEF PathInv
  <2>5. PinInv' = PinInv
    BY <2>1, <2>2, SameGraph DEF PinInv, Led, EndsAt, SameRequest
  <2> QED
    BY <2>1, <2>3, <2>4, <2>5 DEF Pins
<1> QED
  BY <1>1, <1>2, <1>3, <1>4, <1>5, <1>6, <1>7 DEF Next

\* The strengthening of the two properties below.
THEOREM PathStaysPinned ==
    ASSUME NoWrap, PositiveCosts
    PROVE  Spec => []Pins
<1>1. Init => Pins
  BY PinsAtFirst
<1>2. IInv /\ Pins /\ [Next]_vars => Pins'
  BY NextPins
<1>3. Spec => []IInv
  BY Invariance
<1> QED
  BY <1>1, <1>2, <1>3, PTL DEF Spec

\* For any graph and any request, through any way points, the segments leave
\* the routers no choice: a packet visits exactly the nodes build_segpath
\* computed, unless a link strays on a path that was computed on the pruned
\* graph or by delay.
THEOREM PathsArePinned ==
    ASSUME NoWrap, PositiveCosts
    PROVE  Spec => []PathIsPinned
<1>1. IInv /\ Pins => PathIsPinned
  <2> SUFFICES ASSUME IInv, Pins, phase = "done",
                      ~ (Walks(g, req.src, segs) = {Computed})
               PROVE  Strays(g, Computed) /\ (req.bw > 0 \/ req.byDelay)
    BY DEF PathIsPinned
  <2>1. WayInv /\ PinInv /\ Reached = Computed
    BY DEF Pins, Reached
  <2>2. Strays(g, Computed)
    BY <2>1 DEF PinInv, Only
  <2>3. ~ Plain
    BY <2>1, <2>2 DEF WayInv
  <2>4. req.bw \in Nat /\ req.byDelay \in BOOLEAN
    BY RequestAssumption DEF IInv, Ordinary
  <2> QED
    BY <2>2, <2>3, <2>4 DEF Plain
<1> QED
  BY <1>1, Invariance, PathStaysPinned, PTL

\* For any graph and any request, a flow granted a bandwidth goes over links
\* that have it, wherever no link strays and no bundle mixes bandwidths.
THEOREM BandwidthIsGranted ==
    ASSUME NoWrap, PositiveCosts
    PROVE  Spec => []GrantedBandwidth
<1>1. IInv /\ Pins => GrantedBandwidth
  <2> SUFFICES ASSUME IInv, Pins, phase = "done", ~ Strays(g, Computed),
                      NEW w \in Walks(g, req.src, segs), NEW k \in 1 .. Len(w) - 1,
                      ~ \E e, f \in Parallel(g, w[k], w[k + 1]) : e.bw # f.bw
               PROVE  MinEdge(g, w[k], w[k + 1]).bw >= req.bw
    BY DEF GrantedBandwidth
  <2>1. WayInv /\ PinInv /\ Reached = Computed
    BY DEF Pins, Reached
  <2>2. w = Computed
    <3>1. Walks(g, req.src, segs) = Only(Computed)
      BY <2>1 DEF PinInv
    <3> QED
      BY <3>1 DEF Only
  <2>3. Wide(w) /\ w \in Seq(Nodes)
    BY <2>1, <2>2 DEF WayInv
  <2> DEFINE a == w[k]
             b == w[k + 1]
  <2>4. Linked(Prune(g), a, b) /\ a \in Nodes /\ b \in Nodes
    BY <2>3 DEF Wide
  <2> HIDE DEF a, b
  <2>5. g \in Clones /\ Prune(g) = {e \in g : e.bw >= req.bw}
    BY GraphsAreClones, PruneIsWide DEF IInv, Ordinary
  <2>6. PICK e \in Parallel(g, a, b) : e.bw >= req.bw
    BY <2>4, <2>5 DEF Linked, Parallel
  <2>7. MinEdge(g, a, b) \in Parallel(g, a, b)
    BY <2>4, <2>5, <2>6, MinEdgeIsOne DEF Linked
  <2>8. \A f, h \in Parallel(g, a, b) : f.bw = h.bw
    BY DEF a, b
  <2>9. MinEdge(g, a, b).bw = e.bw
    BY <2>6, <2>7, <2>8
  <2> QED
    BY <2>6, <2>9 DEF a, b
<1> QED
  BY <1>1, Invariance, PathStaysPinned, PTL
=============================================================================
