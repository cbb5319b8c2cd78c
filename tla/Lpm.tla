-------------------------------- MODULE Lpm --------------------------------
(***************************************************************************)
(* The longest-prefix-match tree of lpm.c, in which sr-ctrl looks up the   *)
(* router that announces a destination address (ns->prefixes).             *)
(*                                                                         *)
(* The heap holds the nodes of the tree at their addresses.  An address is *)
(* named after the prefix its node was allocated for and a number, which   *)
(* is a choice of the allocator that no operation depends on.  The bits of *)
(* a prefix behind its length are never compared and are not kept.  What   *)
(* the caller stores for each prefix is in table, which no operation of    *)
(* the tree reads.                                                         *)
(***************************************************************************)
EXTENDS Integers, FiniteSetsExt, Sequences

CONSTANTS
    Width,      \* bits of an address: 128
    Announced,  \* the prefixes inserted: pairs of an address and a length
    Values,     \* what is stored: the routers
    MaxEntries  \* bound: prefixes stored at a time

NoData == "null"        \* no entry: the data the head starts with
Virtual == "virtual"    \* (void *)-1: the data of a node without an entry

Slots == {0, 1}

Addresses == [1..Width -> Slots]

AllPrefixes == UNION {[1..n -> Slots] : n \in 0..Width}

ASSUME LpmAssumption ==
    /\ Width \in Nat \ {0} /\ MaxEntries \in Nat
    /\ Announced \subseteq Addresses \X (0..Width)
    /\ Values \cap {NoData, Virtual} = {}

VARIABLES
    heap,   \* address -> node, for the nodes that are allocated
    table,  \* prefix -> value, what was inserted and not deleted since
    skewed  \* history: a node was misplaced at some time

lpmVars == <<heap, table, skewed>>

\* No walk down the tree is longer: it passes no node twice.
Depth(h) == Cardinality(DOMAIN h)

With(f, x, y) == [i \in DOMAIN f \cup {x} |-> IF i = x THEN y ELSE f[i]]
Without(f, x) == [i \in DOMAIN f \ {x} |-> f[i]]

-----------------------------------------------------------------------------
(* Nodes.                                                                  *)

Nil == <<>>             \* the null pointer
TreeHead == << <<>>, 0>>

Node(prefix, data) ==
    [prefix |-> prefix, data |-> data, parent |-> Nil, kids |-> [slot \in Slots |-> Nil]]

Plen(n) == Len(n.prefix)

\* malloc: an address that is not in use.
Fresh(h, prefix) ==
    LET k == CHOOSE k \in 0..Cardinality(DOMAIN h) : <<prefix, k>> \notin DOMAIN h
    IN  <<prefix, k>>

\* c becomes the child of p in slot.
Link(h, p, slot, c) == [h EXCEPT ![p].kids[slot] = c, ![c].parent = p]

\* Mutant: the bit after the one that tells the two sides apart.
SlotLate(addr, n) == IF n + 1 < Width /\ addr[n + 2] = 0 THEN 0 ELSE 1

\* The slot for addr below a node of length n: bit n of its string of bits, 1
\* for the character that ends it.
Slot(addr, n) == IF n < Width /\ addr[n + 1] = 0 THEN 0 ELSE 1

\* match_node: the bits of n behind the first cur are those of addr.
Match(n, addr, cur) ==
    Plen(n) = 0 \/ \A i \in (cur + 1)..Plen(n) : n.prefix[i] = addr[i]

\* The bits, of the first max, up to which p and q agree.
CommonLen(p, q, max) ==
    CHOOSE k \in 0..max : /\ \A i \in 1..k : p[i] = q[i]
                          /\ k = max \/ p[k + 1] # q[k + 1]

-----------------------------------------------------------------------------
(* Lookups.  Both follow slot 0 if its node matches, else slot 1.          *)

IsEntry(n, prefix) == n.prefix = prefix /\ n.data # Virtual

\* One step of a walk for addr.  A walk for an exact match stops at an entry
\* for addr and does not go past its length.
Step(h, addr, exact, w) ==
    LET n == h[w.node]
        Fits(slot) ==
            /\ n.kids[slot] # Nil
            /\ exact => Plen(h[n.kids[slot]]) <= Len(addr)
            /\ Match(h[n.kids[slot]], addr, Plen(n))
        kid == n.kids[IF Fits(0) THEN 0 ELSE 1]
    IN  IF (exact /\ IsEntry(n, addr)) \/ ~(Fits(0) \/ Fits(1)) THEN w
        ELSE [node |-> kid, last |-> IF h[kid].data = Virtual THEN w.last ELSE kid]

\* Where a walk ends, and the last node that is not virtual.
Descend(h, addr, exact) ==
    LET walk[k \in 0..Depth(h)] ==
            IF k = 0 THEN [node |-> TreeHead, last |-> TreeHead]
            ELSE Step(h, addr, exact, walk[k - 1])
    IN  walk[Depth(h)]

\* Mutant: the data of the last node of the walk, virtual or not.
LookupOfLast(h, addr) ==
    LET data == h[Descend(h, addr, FALSE).node].data
    IN  IF data = Virtual THEN NoData ELSE data

Lookup(h, addr) ==
    LET data == h[Descend(h, addr, FALSE).last].data
    IN  IF data = Virtual THEN NoData ELSE data

LookupExact(h, prefix) == Descend(h, prefix, TRUE).node

-----------------------------------------------------------------------------
(* Insertion.                                                              *)

Shorter(p, q) == IF Len(p) < Len(q) THEN Len(p) ELSE Len(q)

\* A new node n below p, in slot.
NewBelow(h, p, slot, n) ==
    LET new == Fresh(h, n.prefix)
    IN  Link(With(h, new, n), p, slot, new)

\* A new node n in place of the child of p in slot, which goes to its slot2.
NewBetween(h, p, slot, n, slot2) ==
    LET new == Fresh(h, n.prefix)
    IN  Link(Link(With(h, new, n), new, slot2, h[p].kids[slot]), p, slot, new)

\* A new node takes the place of a child of save: in front of it when the new
\* prefix is a part of the child's, else below a virtual node, as the child is.
\* In both cases the slot is the bit of the address announced, host bits
\* included, that follows the common part.
Splice(h, addr, prefix, v, save, slot) ==
    LET child == h[h[save].kids[slot]]
        cplen == CommonLen(child.prefix, prefix, Shorter(child.prefix, prefix))
        part == SubSeq(prefix, 1, cplen)
        slot2 == Slot(addr, cplen)
    IN  IF cplen = Len(prefix)
        THEN NewBetween(h, save, slot, Node(prefix, v), slot2)
        ELSE NewBelow(NewBetween(h, save, slot, Node(part, Virtual), 1 - slot2),
                      Fresh(h, part), slot2, Node(prefix, v))

\* lpm_insert.
Inserted(h, addr, plen, v) ==
    LET prefix == SubSeq(addr, 1, plen)
        save == LookupExact(h, prefix)
        slot == Slot(addr, Plen(h[save]))
    IN  IF Plen(h[save]) = plen THEN [h EXCEPT ![save].data = v]
        ELSE IF h[save].kids[slot] = Nil THEN NewBelow(h, save, slot, Node(prefix, v))
        ELSE Splice(h, addr, prefix, v, save, slot)

-----------------------------------------------------------------------------
(* Deletion.                                                               *)

\* optimize_virtual_plen: a virtual node with two children grows to the part
\* they have in common.
Lengthen(h, node) ==
    LET a == h[h[node].kids[0]].prefix
        b == h[h[node].kids[1]].prefix
        cplen == CommonLen(a, b, Shorter(a, b))
    IN  IF cplen = Plen(h[node]) THEN h
        ELSE [h EXCEPT ![node].prefix = SubSeq(a, 1, cplen)]

\* Mutant: the children of the child still point to it.
MergeOrphans(h, node) ==
    LET kids == h[node].kids
        child == IF kids[0] # Nil THEN kids[0] ELSE kids[1]
    IN  Without([h EXCEPT ![node] = [h[child] EXCEPT !.parent = h[node].parent]], child)

\* merge_child: a virtual node becomes its only child, which is freed.
MergeChild(h, node) ==
    LET kids == h[node].kids
        child == IF kids[0] # Nil THEN kids[0] ELSE kids[1]
        moved == [h EXCEPT ![node] = [h[child] EXCEPT !.parent = h[node].parent]]
    IN  [i \in DOMAIN h \ {child} |->
            IF \E slot \in Slots : h[child].kids[slot] = i
            THEN [moved[i] EXCEPT !.parent = node] ELSE moved[i]]

\* optimize_virtual_empty: a virtual node without children is freed.
Remove(h, node) ==
    LET parent == h[node].parent
        pidx == IF h[parent].kids[0] = node THEN 0 ELSE 1
    IN  Without([h EXCEPT ![parent].kids[pidx] = Nil], node)

\* Mutant: the parent of a removed node is not looked at.
OptimiseOnce(s) ==
    LET n == s.heap[s.node]
        used == {slot \in Slots : n.kids[slot] # Nil}
    IN  IF n.data # Virtual THEN s
        ELSE IF used = Slots THEN [heap |-> Lengthen(s.heap, s.node), node |-> s.node]
        ELSE IF used # {} THEN [heap |-> MergeChild(s.heap, s.node), node |-> s.node]
        ELSE [heap |-> Remove(s.heap, s.node), node |-> TreeHead]

\* One call of optimize_virtual on s.node, and where the next call goes.
Optimise(s) ==
    LET n == s.heap[s.node]
        used == {slot \in Slots : n.kids[slot] # Nil}
    IN  IF n.data # Virtual THEN s
        ELSE IF used = Slots THEN [heap |-> Lengthen(s.heap, s.node), node |-> s.node]
        ELSE IF used # {} THEN [heap |-> MergeChild(s.heap, s.node), node |-> s.node]
        ELSE [heap |-> Remove(s.heap, s.node), node |-> n.parent]

\* No deletion makes more calls of optimize_virtual that do anything: one removes
\* a node, one merges its parent with what is left below it, one lengthens that.
Calls == 3

\* lpm_delete of an entry: its node becomes virtual and is optimised away.
Deleted(h, prefix) ==
    LET node == LookupExact(h, prefix)
        run[k \in 0..Calls] ==
            IF k = 0 THEN [heap |-> [h EXCEPT ![node].data = Virtual], node |-> node]
            ELSE Optimise(run[k - 1])
    IN  IF IsEntry(h[node], prefix) THEN run[Calls].heap ELSE h

-----------------------------------------------------------------------------
\* A node hangs in the slot of the other bit, or is no longer than its parent.
Misplaced(h) ==
    \E i \in DOMAIN h, slot \in Slots :
        LET n == h[i]
            kid == h[n.kids[slot]]
        IN  /\ n.kids[slot] # Nil
            /\ Plen(kid) <= Plen(n) \/ kid.prefix[Plen(n) + 1] # slot

LpmInit ==
    /\ heap = With(<<>>, TreeHead, Node(<<>>, NoData))
    /\ table = <<>>
    /\ skewed = FALSE

Insert(addr, plen, v) ==
    LET prefix == SubSeq(addr, 1, plen)
    IN  /\ Cardinality(DOMAIN table \cup {prefix}) <= MaxEntries
        /\ heap' = Inserted(heap, addr, plen, v)
        /\ table' = With(table, prefix, v)
        /\ skewed' = (skewed \/ Misplaced(heap'))

\* The head has no parent, and is never optimised: the empty prefix, which
\* always is an entry of the head, is not deleted.
Delete(prefix) ==
    /\ prefix # <<>>
    /\ heap' = Deleted(heap, prefix)
    /\ table' = Without(table, prefix)
    /\ skewed' = (skewed \/ Misplaced(heap'))

LpmNext ==
    \/ \E p \in Announced, v \in Values : Insert(p[1], p[2], v)
    \/ \E prefix \in AllPrefixes : Delete(prefix)

LpmSpec == LpmInit /\ [][LpmNext]_lpmVars

-----------------------------------------------------------------------------
(* Properties.                                                             *)

\* What the table says of addr: the value of its longest prefix.
LongestMatch(addr) ==
    LET fits == {n \in 0..Width : SubSeq(addr, 1, n) \in DOMAIN table}
    IN  IF fits = {} THEN NoData ELSE table[SubSeq(addr, 1, Max(fits))]

(* What the title of lpm.c says: a lookup finds the value of the longest     *)
(* prefix stored, whatever the order in which prefixes came and went         *)
(* (lpm_lookup, lpm_insert, lpm_delete).                                    *)
LookupIsLongest == \A addr \in Addresses : Lookup(heap, addr) = LongestMatch(addr)

(* The only thing that makes a lookup wrong is a node in the wrong slot,     *)
(* which an insertion in front of a longer prefix leaves behind: virtual     *)
(* nodes, insertions in any other order, replacements and deletions with    *)
(* the merges they cause are right, also long after (lpm_insert,             *)
(* optimize_virtual).                                                       *)
LongestUnlessSkewed == skewed \/ LookupIsLongest

(* A node without an entry is kept only while it has two children: the tree *)
(* never holds more than one such node per entry, however many deletions    *)
(* there were (optimize_virtual).                                           *)
NoIdleNode ==
    \A i \in DOMAIN heap : heap[i].data = Virtual =>
        \A slot \in Slots : heap[i].kids[slot] # Nil

(* No pointer leads to a node that was freed, none is leaked, and the way up *)
(* is the way down: every child's parent is the node it hangs below, and     *)
(* every node but the head hangs below its parent, once (lpm_insert,         *)
(* merge_child, optimize_virtual_empty).                                    *)
TreeIsLinked ==
    /\ TreeHead \in DOMAIN heap /\ heap[TreeHead].parent = Nil
    /\ \A i \in DOMAIN heap, slot \in Slots :
          LET kid == heap[i].kids[slot]
          IN  kid # Nil => kid \in DOMAIN heap /\ heap[kid].parent = i
    /\ \A i \in DOMAIN heap \ {TreeHead} :
          /\ heap[i].parent \in DOMAIN heap
          /\ \E slot \in Slots : /\ heap[heap[i].parent].kids[slot] = i
                                 /\ heap[heap[i].parent].kids[1 - slot] # i

\* What lpm_insert asserts of the node at which an exact walk for the prefix ends,
\* and of the child in its way (207, 226).
InsertAsserts(addr, plen) ==
    LET prefix == SubSeq(addr, 1, plen)
        save == LookupExact(heap, prefix)
        n == heap[save]
        child == heap[n.kids[Slot(addr, Plen(n))]].prefix
    IN  IF Plen(n) = plen THEN IsEntry(n, prefix) \/ n.data = Virtual
        ELSE n.kids[Slot(addr, Plen(n))] # Nil =>
                 CommonLen(child, prefix, Shorter(child, prefix)) > 0

\* What optimize_virtual_plen asserts of a node with two children (270).  A deletion
\* only asks it of two children that one node had before: those of the node that
\* becomes virtual, or those of the child that is merged into it.
LengthenAsserts(i) ==
    LET kids == heap[i].kids
        a == heap[kids[0]].prefix
        b == heap[kids[1]].prefix
    IN  (\A slot \in Slots : kids[slot] # Nil) =>
            CommonLen(a, b, Shorter(a, b)) >= Plen(heap[i])

(* No assertion of lpm.c can fail, also after a node was misplaced: sr-ctrl  *)
(* is not stopped by an order of announcements that leads to wrong answers  *)
(* (lpm_insert, optimize_virtual_plen).                                     *)
AssertionsHold ==
    /\ \A p \in Announced : InsertAsserts(p[1], p[2])
    /\ \A i \in DOMAIN heap : LengthenAsserts(i)
=============================================================================
