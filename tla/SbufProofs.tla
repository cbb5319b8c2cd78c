----------------------------- MODULE SbufProofs -----------------------------
(***************************************************************************)
(* Proofs about lib/sbuf.c for any number of threads, any capacity whose   *)
(* mask is a ring (MaskAssumption) and any width of the counters.          *)
(*                                                                         *)
(* The argument is a conservation law: every slot is counted exactly once  *)
(* by the semaphore empty, a pusher on its way to the store, the counters  *)
(* read and write, or a popper on its way to sem_post (EmptyAccounting),   *)
(* and every stored element once by full or by a thread on its way         *)
(* (FullAccounting).  The bounds on the ring follow, and with them that a  *)
(* store never hits a slot that is still to be read.                       *)
(***************************************************************************)
EXTENDS Sbuf, FiniteSetTheorems, SequenceTheorems, TLAPS

\* TypeOK without the upper bounds of the semaphores, which only follow from
\* the accounting.
TypeInv ==
    /\ pc \in [Threads -> Labels]
    /\ \A t \in Pushers : pc[t] \in {"idle"} \cup PushLabels
    /\ \A t \in Poppers : pc[t] \in {"idle"} \cup PopLabels
    /\ elem \in [Threads -> Elem \cup {Garbage}]
    /\ empty \in Nat
    /\ full \in Nat
    /\ lock \in SUBSET Threads
    /\ data \in [Slots -> Elem \cup {Garbage}]
    /\ read \in Word
    /\ write \in Word

\* What a pusher is about to store is an element.
ArgumentInv ==
    \A t \in Pushers :
        pc[t] \in {"push_wait", "push_lock", "push_store"} => elem[t] \in Elem

IInv ==
    /\ TypeInv
    /\ MutexInv
    /\ EmptyAccounting
    /\ FullAccounting
    /\ ArgumentInv
    /\ RingHoldsElements
    /\ NoGarbagePopped

Num(f, L) == Cardinality({t \in Threads : f[t] \in L})

-----------------------------------------------------------------------------
\* Moving one thread from one label to another changes the number of threads
\* in a set of labels by one or not at all.
LEMMA MoveCounts ==
    ASSUME NEW f \in [Threads -> Labels], NEW t \in Threads,
           NEW to \in Labels, NEW g, g = [f EXCEPT ![t] = to], NEW L
    PROVE  /\ Num(f, L) \in Nat
           /\ f[t] \in L => Num(f, L) >= 1
           /\ Num(g, L) =
                  IF f[t] \in L
                  THEN IF to \in L THEN Num(f, L) ELSE Num(f, L) - 1
                  ELSE IF to \in L THEN Num(f, L) + 1 ELSE Num(f, L)
<1> DEFINE A == {u \in Threads : f[u] \in L}
           B == {u \in Threads : g[u] \in L}
<1>1. IsFiniteSet(Threads)
  BY ThreadsAssumption, FS_Union DEF Threads
<1>2. IsFiniteSet(A) /\ IsFiniteSet(B)
  BY <1>1, FS_Subset
<1>3. Cardinality(A) \in Nat /\ Cardinality(B) \in Nat
  BY <1>2, FS_CardinalityType
<1>4. g[t] = to /\ \A u \in Threads : u # t => g[u] = f[u]
  OBVIOUS
<1>5. f[t] \in L => Cardinality(A) >= 1
  <2>1. f[t] \in L => A # {}
    OBVIOUS
  <2> QED BY <2>1, <1>2, <1>3, FS_EmptySet
<1>6. CASE f[t] \in L /\ to \notin L
  <2>1. B = A \ {t} /\ t \in A
    BY <1>4, <1>6
  <2> QED BY <2>1, <1>2, <1>3, <1>5, <1>6, FS_RemoveElement DEF Num
<1>7. CASE f[t] \notin L /\ to \in L
  <2>1. B = A \cup {t} /\ t \notin A
    BY <1>4, <1>7
  <2> QED BY <2>1, <1>2, <1>3, <1>5, <1>7, FS_AddElement DEF Num
<1>8. CASE f[t] \in L <=> to \in L
  <2>1. B = A
    BY <1>4, <1>8
  <2> QED BY <2>1, <1>3, <1>5, <1>8 DEF Num
<1> QED BY <1>6, <1>7, <1>8

\* Facts about the counters: a step of one of them moves their difference by
\* one, and the words of the ring are counted from the one that was read.
LEMMA WordFacts ==
    ASSUME NEW a \in Word, NEW b \in Word
    PROVE  /\ Diff(a, b) \in Nat
           /\ Incr(a) \in Word
           /\ Diff(a, b) < Capacity => Diff(Incr(a), b) = Diff(a, b) + 1
           /\ Diff(a, b) > 0 => Diff(a, Incr(b)) = Diff(a, b) - 1
           /\ Plus(b, Diff(a, b)) = a
           /\ \A i \in 0 .. Capacity - 1 : Plus(b, i) \in Word
           /\ \A i \in 0 .. Capacity - 2 : Plus(Incr(b), i) = Plus(b, i + 1)
           /\ Plus(b, 0) = b
  BY CapacityAssumption DEF Word, Diff, Incr, Plus

\* The slot of the next store is none of the slots that are still to be read.
LEMMA StoreSlotIsFree ==
    ASSUME NEW w \in Word, NEW r \in Word, Diff(w, r) < Capacity,
           NEW i \in 0 .. Diff(w, r) - 1
    PROVE  Mask(w) # Mask(Plus(r, i))
<1> DEFINE v == Plus(r, i)
           d == Diff(w, r) - i
<1>1. v \in Word /\ d \in 1 .. Capacity - 1
  BY WordFacts, CapacityAssumption DEF Word, Plus, Diff
<1>2. Plus(v, d) = w
  BY CapacityAssumption DEF Word, Plus, Diff
<1> QED BY <1>1, <1>2, MaskAssumption

\* The same for the program counters and a step of the specification.
LEMMA GotoCounts ==
    ASSUME TypeInv, NEW t \in Threads, NEW from, NEW to \in Labels,
           Goto(t, from, to), NEW L
    PROVE  /\ Cardinality(At(L)) \in Nat
           /\ from \in L => Cardinality(At(L)) >= 1
           /\ Cardinality(At(L))' =
                  IF from \in L
                  THEN IF to \in L THEN Cardinality(At(L))
                                   ELSE Cardinality(At(L)) - 1
                  ELSE IF to \in L THEN Cardinality(At(L)) + 1
                                   ELSE Cardinality(At(L))
<1>1. pc \in [Threads -> Labels] /\ pc[t] = from /\ pc' = [pc EXCEPT ![t] = to]
  BY DEF TypeInv, Goto
<1>2. Cardinality(At(L)) = Num(pc, L) /\ Cardinality(At(L))' = Num(pc', L)
  BY DEF At, Num
<1>3. /\ Num(pc, L) \in Nat
      /\ pc[t] \in L => Num(pc, L) >= 1
      /\ Num(pc', L) =
            IF pc[t] \in L
            THEN IF to \in L THEN Num(pc, L) ELSE Num(pc, L) - 1
            ELSE IF to \in L THEN Num(pc, L) + 1 ELSE Num(pc, L)
  BY <1>1, MoveCounts DEF Num
<1> QED BY <1>1, <1>2, <1>3

\* The bounds the accounting gives.
LEMMA AccountingBounds ==
    ASSUME IInv
    PROVE  /\ Size \in 0 .. Capacity
           /\ empty \in 0 .. Capacity
           /\ full \in 0 .. Capacity
           /\ \A t \in Threads : pc[t] = "push_store" => Size < Capacity
           /\ \A t \in Threads : pc[t] = "pop_load" => Size > 0
<1> DEFINE C(L) == Cardinality(At(L))
<1>1. \A L : C(L) \in Nat /\ \A t \in Threads : pc[t] \in L => C(L) >= 1
  <2> SUFFICES ASSUME NEW L
               PROVE  C(L) \in Nat /\ \A t \in Threads : pc[t] \in L => C(L) >= 1
    OBVIOUS
  <2>1. IsFiniteSet(At(L))
    BY ThreadsAssumption, FS_Union, FS_Subset DEF Threads, At
  <2>2. C(L) \in Nat /\ (C(L) = 0 <=> At(L) = {})
    BY <2>1, FS_CardinalityType, FS_EmptySet
  <2>3. \A t \in Threads : pc[t] \in L => At(L) # {}
    BY DEF At
  <2> QED BY <2>2, <2>3
<1>2. Size \in Nat /\ empty \in Nat /\ full \in Nat /\ Capacity \in Nat
  BY WordFacts, CapacityAssumption DEF IInv, TypeInv, Size
<1>3. /\ C({"push_lock", "push_store"}) \in Nat
      /\ C({"pop_unlock", "pop_post"}) \in Nat
      /\ C({"push_unlock", "push_post"}) \in Nat
      /\ C({"pop_lock", "pop_load"}) \in Nat
      /\ \A t \in Threads :
            pc[t] = "push_store" => C({"push_lock", "push_store"}) >= 1
      /\ \A t \in Threads :
            pc[t] = "pop_load" => C({"pop_lock", "pop_load"}) >= 1
  BY <1>1
<1>4. /\ empty + C({"push_lock", "push_store"}) + Size
            + C({"pop_unlock", "pop_post"}) = Capacity
      /\ full + C({"push_unlock", "push_post"})
            + C({"pop_lock", "pop_load"}) = Size
  BY DEF IInv, EmptyAccounting, FullAccounting
<1> HIDE DEF C
<1> QED BY <1>2, <1>3, <1>4

-----------------------------------------------------------------------------
\* The buffer that sbuf_new returns satisfies the inductive invariant.
LEMMA InitInv == Init => IInv
<1> SUFFICES ASSUME Init PROVE IInv
  OBVIOUS
<1>1. TypeInv
  BY CapacityAssumption DEF Init, TypeInv, Labels, Threads, Word
<1>2. Size = 0
  BY DEF Init, Size, Diff
<1>3. \A L : "idle" \notin L => Cardinality(At(L)) = 0
  BY FS_EmptySet DEF Init, At
<1>4. EmptyAccounting /\ FullAccounting
  <2>1. /\ Cardinality(At({"push_lock", "push_store"})) = 0
        /\ Cardinality(At({"pop_unlock", "pop_post"})) = 0
        /\ Cardinality(At({"push_unlock", "push_post"})) = 0
        /\ Cardinality(At({"pop_lock", "pop_load"})) = 0
    BY <1>3
  <2> QED BY <1>2, <2>1, CapacityAssumption
          DEF Init, EmptyAccounting, FullAccounting
<1>5. MutexInv /\ ArgumentInv /\ NoGarbagePopped
  BY DEF Init, MutexInv, ArgumentInv, NoGarbagePopped, Threads
<1>6. RingHoldsElements
  BY <1>2 DEF RingHoldsElements
<1> QED BY <1>1, <1>4, <1>5, <1>6 DEF IInv

\* Every step keeps the two conservation laws.
LEMMA NextAccounting ==
    ASSUME IInv, Next
    PROVE  EmptyAccounting' /\ FullAccounting'
<1> DEFINE PL == Cardinality(At({"push_lock", "push_store"}))
           PO == Cardinality(At({"pop_unlock", "pop_post"}))
           PU == Cardinality(At({"push_unlock", "push_post"}))
           OL == Cardinality(At({"pop_lock", "pop_load"}))
<1> USE DEF Labels, PushLabels, PopLabels
<1>1. /\ TypeInv
      /\ Size \in 0 .. Capacity /\ Capacity \in Nat
      /\ empty \in Nat /\ full \in Nat
      /\ empty + PL + Size + PO = Capacity
      /\ full + PU + OL = Size
      /\ \A t \in Threads : pc[t] = "push_store" => Size < Capacity
      /\ \A t \in Threads : pc[t] = "pop_load" => Size > 0
  BY AccountingBounds, CapacityAssumption
     DEF IInv, TypeInv, EmptyAccounting, FullAccounting
<1>2. SUFFICES empty' + PL' + Size' + PO' = Capacity /\ full' + PU' + OL' = Size'
  BY DEF EmptyAccounting, FullAccounting
<1>3. ASSUME NEW t \in Threads, NEW from, NEW to \in Labels, Goto(t, from, to)
      PROVE  /\ PL \in Nat /\ PO \in Nat /\ PU \in Nat /\ OL \in Nat
             /\ PL' = PL + (IF to \in {"push_lock", "push_store"} THEN 1 ELSE 0)
                        - (IF from \in {"push_lock", "push_store"} THEN 1 ELSE 0)
             /\ PO' = PO + (IF to \in {"pop_unlock", "pop_post"} THEN 1 ELSE 0)
                        - (IF from \in {"pop_unlock", "pop_post"} THEN 1 ELSE 0)
             /\ PU' = PU + (IF to \in {"push_unlock", "push_post"} THEN 1 ELSE 0)
                        - (IF from \in {"push_unlock", "push_post"} THEN 1 ELSE 0)
             /\ OL' = OL + (IF to \in {"pop_lock", "pop_load"} THEN 1 ELSE 0)
                        - (IF from \in {"pop_lock", "pop_load"} THEN 1 ELSE 0)
  <2>1. ASSUME NEW L
        PROVE  /\ Cardinality(At(L)) \in Nat
               /\ Cardinality(At(L))' = Cardinality(At(L))
                      + (IF to \in L THEN 1 ELSE 0)
                      - (IF from \in L THEN 1 ELSE 0)
    BY <1>1, <1>3, GotoCounts
  <2> QED BY <2>1
<1> HIDE DEF PL, PO, PU, OL
<1>4. ASSUME UNCHANGED <<read, write>>
      PROVE  Size' = Size
  BY <1>4 DEF Size
<1>5. ASSUME NEW t \in Pushers, NEW v \in Elem, PushCall(t, v)
      PROVE  empty' + PL' + Size' + PO' = Capacity /\ full' + PU' + OL' = Size'
  <2>1. t \in Threads /\ Goto(t, "idle", "push_wait")
    BY <1>5 DEF PushCall, Threads
  <2> QED BY <2>1, <1>1, <1>3, <1>4, <1>5 DEF PushCall
<1>6. ASSUME NEW t \in Pushers, NEW v \in Elem, TryPush(t, v)
      PROVE  empty' + PL' + Size' + PO' = Capacity /\ full' + PU' + OL' = Size'
  <2>1. t \in Threads /\ Goto(t, "idle", "push_lock")
    BY <1>6 DEF TryPush, Threads
  <2> QED BY <2>1, <1>1, <1>3, <1>4, <1>6 DEF TryPush
<1>7. ASSUME NEW t \in Pushers, PushStep(t)
      PROVE  empty' + PL' + Size' + PO' = Capacity /\ full' + PU' + OL' = Size'
  <2>1. t \in Threads
    BY DEF Threads
  <2>2. CASE PushWait(t)
    <3>1. Goto(t, "push_wait", "push_lock")
      BY <2>2 DEF PushWait
    <3> QED BY <2>1, <3>1, <1>1, <1>3, <1>4, <2>2 DEF PushWait
  <2>3. CASE PushLock(t)
    <3>1. Goto(t, "push_lock", "push_store")
      BY <2>3 DEF PushLock
    <3> QED BY <2>1, <3>1, <1>1, <1>3, <1>4, <2>3 DEF PushLock
  <2>4. CASE PushStore(t)
    <3>1. Goto(t, "push_store", "push_unlock")
      BY <2>4 DEF PushStore
    <3>2. Size' = Size + 1
      <4>1. Size < Capacity
        BY <2>1, <3>1, <1>1 DEF Goto
      <4> QED BY <4>1, <1>1, <2>4, WordFacts DEF PushStore, Size, TypeInv
    <3> QED BY <2>1, <3>1, <3>2, <1>1, <1>3, <2>4 DEF PushStore
  <2>5. CASE PushUnlock(t)
    <3>1. Goto(t, "push_unlock", "push_post")
      BY <2>5 DEF PushUnlock
    <3> QED BY <2>1, <3>1, <1>1, <1>3, <1>4, <2>5 DEF PushUnlock
  <2>6. CASE PushPost(t)
    <3>1. Goto(t, "push_post", "idle")
      BY <2>6 DEF PushPost
    <3> QED BY <2>1, <3>1, <1>1, <1>3, <1>4, <2>6 DEF PushPost
  <2> QED BY <1>7, <2>2, <2>3, <2>4, <2>5, <2>6 DEF PushStep
<1>8. ASSUME NEW t \in Poppers, PopCall(t)
      PROVE  empty' + PL' + Size' + PO' = Capacity /\ full' + PU' + OL' = Size'
  <2>1. t \in Threads /\ Goto(t, "idle", "pop_wait")
    BY <1>8 DEF PopCall, Threads
  <2> QED BY <2>1, <1>1, <1>3, <1>4, <1>8 DEF PopCall
<1>9. ASSUME NEW t \in Poppers, TryPop(t)
      PROVE  empty' + PL' + Size' + PO' = Capacity /\ full' + PU' + OL' = Size'
  <2>1. t \in Threads /\ Goto(t, "idle", "pop_lock")
    BY <1>9 DEF TryPop, Threads
  <2> QED BY <2>1, <1>1, <1>3, <1>4, <1>9 DEF TryPop
<1>10. ASSUME NEW t \in Poppers, PopStep(t)
       PROVE  empty' + PL' + Size' + PO' = Capacity /\ full' + PU' + OL' = Size'
  <2>1. t \in Threads
    BY DEF Threads
  <2>2. CASE PopWait(t)
    <3>1. Goto(t, "pop_wait", "pop_lock")
      BY <2>2 DEF PopWait
    <3> QED BY <2>1, <3>1, <1>1, <1>3, <1>4, <2>2 DEF PopWait
  <2>3. CASE PopLock(t)
    <3>1. Goto(t, "pop_lock", "pop_load")
      BY <2>3 DEF PopLock
    <3> QED BY <2>1, <3>1, <1>1, <1>3, <1>4, <2>3 DEF PopLock
  <2>4. CASE PopLoad(t)
    <3>1. Goto(t, "pop_load", "pop_unlock")
      BY <2>4 DEF PopLoad
    <3>2. Size' = Size - 1
      <4>1. Size > 0
        BY <2>1, <3>1, <1>1 DEF Goto
      <4> QED BY <4>1, <1>1, <2>4, WordFacts DEF PopLoad, Size, TypeInv
    <3> QED BY <2>1, <3>1, <3>2, <1>1, <1>3, <2>4 DEF PopLoad
  <2>5. CASE PopUnlock(t)
    <3>1. Goto(t, "pop_unlock", "pop_post")
      BY <2>5 DEF PopUnlock
    <3> QED BY <2>1, <3>1, <1>1, <1>3, <1>4, <2>5 DEF PopUnlock
  <2>6. CASE PopPost(t)
    <3>1. Goto(t, "pop_post", "idle")
      BY <2>6 DEF PopPost
    <3> QED BY <2>1, <3>1, <1>1, <1>3, <1>4, <2>6 DEF PopPost
  <2> QED BY <1>10, <2>2, <2>3, <2>4, <2>5, <2>6 DEF PopStep
<1> QED BY <1>5, <1>6, <1>7, <1>8, <1>9, <1>10 DEF Next

\* Every step keeps the types, the mutex and the arguments of the calls.
LEMMA NextTypes ==
    ASSUME IInv, Next
    PROVE  TypeInv' /\ MutexInv' /\ ArgumentInv'
<1> USE DEF Labels, PushLabels, PopLabels, Threads, Goto, IInv
<1>1. ASSUME NEW t \in Pushers, NEW v \in Elem, PushCall(t, v) \/ TryPush(t, v)
      PROVE  TypeInv' /\ MutexInv' /\ ArgumentInv'
  <2>1. TypeInv'
    BY <1>1, ThreadsAssumption DEF PushCall, TryPush, TypeInv
  <2>2. MutexInv' /\ ArgumentInv'
    BY <1>1, ThreadsAssumption
       DEF PushCall, TryPush, TypeInv, MutexInv, ArgumentInv
  <2> QED BY <2>1, <2>2
<1>2. ASSUME NEW t \in Pushers, PushStep(t)
      PROVE  TypeInv' /\ MutexInv' /\ ArgumentInv'
  <2>1. CASE PushWait(t)
    BY <2>1, ThreadsAssumption DEF PushWait, TypeInv, MutexInv, ArgumentInv
  <2>2. CASE PushLock(t)
    BY <2>2, ThreadsAssumption DEF PushLock, TypeInv, MutexInv, ArgumentInv
  <2>3. CASE PushStore(t)
    <3>1. TypeInv'
      BY <2>3, ThreadsAssumption, MaskAssumption, WordFacts
         DEF PushStore, TypeInv
    <3>2. MutexInv' /\ ArgumentInv'
      BY <2>3, ThreadsAssumption
         DEF PushStore, TypeInv, MutexInv, ArgumentInv
    <3> QED BY <3>1, <3>2
  <2>4. CASE PushUnlock(t)
    BY <2>4, ThreadsAssumption DEF PushUnlock, TypeInv, MutexInv, ArgumentInv
  <2>5. CASE PushPost(t)
    BY <2>5, ThreadsAssumption DEF PushPost, TypeInv, MutexInv, ArgumentInv
  <2> QED BY <1>2, <2>1, <2>2, <2>3, <2>4, <2>5 DEF PushStep
<1>3. ASSUME NEW t \in Poppers, PopCall(t) \/ TryPop(t)
      PROVE  TypeInv' /\ MutexInv' /\ ArgumentInv'
  BY <1>3, ThreadsAssumption
     DEF PopCall, TryPop, TypeInv, MutexInv, ArgumentInv
<1>4. ASSUME NEW t \in Poppers, PopStep(t)
      PROVE  TypeInv' /\ MutexInv' /\ ArgumentInv'
  <2>1. CASE PopWait(t)
    BY <2>1, ThreadsAssumption DEF PopWait, TypeInv, MutexInv, ArgumentInv
  <2>2. CASE PopLock(t)
    BY <2>2, ThreadsAssumption DEF PopLock, TypeInv, MutexInv, ArgumentInv
  <2>3. CASE PopLoad(t)
    <3>1. TypeInv'
      BY <2>3, ThreadsAssumption, MaskAssumption, WordFacts
         DEF PopLoad, TypeInv
    <3>2. MutexInv' /\ ArgumentInv'
      BY <2>3, ThreadsAssumption DEF PopLoad, TypeInv, MutexInv, ArgumentInv
    <3> QED BY <3>1, <3>2
  <2>4. CASE PopUnlock(t)
    BY <2>4, ThreadsAssumption DEF PopUnlock, TypeInv, MutexInv, ArgumentInv
  <2>5. CASE PopPost(t)
    BY <2>5, ThreadsAssumption DEF PopPost, TypeInv, MutexInv, ArgumentInv
  <2> QED BY <1>4, <2>1, <2>2, <2>3, <2>4, <2>5 DEF PopStep
<1> QED BY <1>1, <1>2, <1>3, <1>4 DEF Next

\* Every step keeps the ring filled with elements between the two counters,
\* and a popper takes one of those.
LEMMA NextRing ==
    ASSUME IInv, Next
    PROVE  RingHoldsElements' /\ NoGarbagePopped'
<1> USE DEF Goto
<1>1. TypeInv /\ RingHoldsElements /\ NoGarbagePopped /\ ArgumentInv
  BY DEF IInv
<1>2. /\ Size \in 0 .. Capacity /\ Capacity \in Nat
      /\ \A t \in Threads : pc[t] = "push_store" => Size < Capacity
      /\ \A t \in Threads : pc[t] = "pop_load" => Size > 0
  BY AccountingBounds, CapacityAssumption
<1>3. ASSUME UNCHANGED <<data, read, write>>
      PROVE  RingHoldsElements'
  BY <1>1, <1>3 DEF RingHoldsElements, Size
<1>4. ASSUME NEW t \in Pushers, PushStore(t)
      PROVE  RingHoldsElements' /\ NoGarbagePopped'
  <2>1. t \in Threads /\ t \notin Poppers
    BY ThreadsAssumption DEF Threads
  <2>2. NoGarbagePopped'
    BY <1>1, <1>4, <2>1 DEF PushStore, NoGarbagePopped, TypeInv, Threads
  <2>3. Size < Capacity /\ Size' = Size + 1 /\ Size \in Nat
    BY <1>1, <1>2, <1>4, <2>1, WordFacts DEF PushStore, Size, TypeInv
  <2>4. elem[t] \in Elem
    BY <1>1, <1>4 DEF PushStore, ArgumentInv
  <2>5. Mask(write) \in Slots
    BY <1>1, MaskAssumption DEF TypeInv
  <2>6. ASSUME NEW i \in 0 .. Size' - 1
        PROVE  data'[Mask(Plus(read, i))] \in Elem
    <3>1. CASE i = Size
      <4>1. Plus(read, i) = write
        BY <1>1, <3>1, WordFacts DEF TypeInv, Size
      <4> QED BY <4>1, <2>4, <2>5, <1>1, <1>4 DEF PushStore, TypeInv
    <3>2. CASE i \in 0 .. Size - 1
      <4>1. Mask(Plus(read, i)) # Mask(write)
        BY <1>1, <2>3, <3>2, StoreSlotIsFree DEF TypeInv, Size
      <4>2. Plus(read, i) \in Word
        BY <1>1, <2>3, <3>2, WordFacts, CapacityAssumption DEF TypeInv
      <4>3. data'[Mask(Plus(read, i))] = data[Mask(Plus(read, i))]
        BY <4>1, <4>2, <1>1, <1>4, MaskAssumption DEF PushStore, TypeInv
      <4> QED BY <4>3, <1>1, <3>2 DEF RingHoldsElements
    <3> QED BY <2>3, <2>6, <3>1, <3>2
  <2>7. read' = read
    BY <1>4 DEF PushStore
  <2> QED BY <2>2, <2>6, <2>7 DEF RingHoldsElements
<1>5. ASSUME NEW t \in Poppers, PopLoad(t)
      PROVE  RingHoldsElements' /\ NoGarbagePopped'
  <2>1. t \in Threads
    BY DEF Threads
  <2>2. Size > 0 /\ Size' = Size - 1
    BY <1>1, <1>2, <1>5, <2>1, WordFacts DEF PopLoad, Size, TypeInv
  <2>3. data[Mask(read)] \in Elem
    <3>1. Plus(read, 0) = read
      BY <1>1, WordFacts DEF TypeInv
    <3>2. 0 \in 0 .. Size - 1
      BY <1>2, <2>2
    <3> QED BY <1>1, <3>1, <3>2 DEF RingHoldsElements
  <2>4. NoGarbagePopped'
    BY <1>1, <1>5, <2>1, <2>3 DEF PopLoad, NoGarbagePopped, TypeInv, Threads
  <2>5. ASSUME NEW i \in 0 .. Size' - 1
        PROVE  data'[Mask(Plus(read', i))] \in Elem
    <3>1. Plus(read', i) = Plus(read, i + 1)
      BY <1>1, <1>2, <1>5, <2>2, WordFacts DEF PopLoad, TypeInv
    <3>2. i + 1 \in 0 .. Size - 1
      BY <1>2, <2>2
    <3> QED BY <1>1, <1>5, <3>1, <3>2 DEF PopLoad, RingHoldsElements
  <2> QED BY <2>4, <2>5 DEF RingHoldsElements
<1>6. ASSUME NEW t \in Pushers, NEW v \in Elem, PushCall(t, v) \/ TryPush(t, v)
      PROVE  RingHoldsElements' /\ NoGarbagePopped'
  <2>1. t \notin Poppers
    BY ThreadsAssumption
  <2> QED BY <1>1, <1>3, <1>6, <2>1
          DEF PushCall, TryPush, NoGarbagePopped, TypeInv, Threads
<1>7. ASSUME NEW t \in Pushers,
             PushWait(t) \/ PushLock(t) \/ PushUnlock(t) \/ PushPost(t)
      PROVE  RingHoldsElements' /\ NoGarbagePopped'
  <2>1. t \notin Poppers
    BY ThreadsAssumption
  <2> QED BY <1>1, <1>3, <1>7, <2>1
          DEF PushWait, PushLock, PushUnlock, PushPost, NoGarbagePopped,
              TypeInv, Threads
<1>8. ASSUME NEW t \in Poppers,
             \/ PopCall(t) \/ TryPop(t) \/ PopWait(t) \/ PopLock(t)
             \/ PopUnlock(t) \/ PopPost(t)
      PROVE  RingHoldsElements' /\ NoGarbagePopped'
  BY <1>1, <1>3, <1>8
     DEF PopCall, TryPop, PopWait, PopLock, PopUnlock, PopPost,
         NoGarbagePopped, TypeInv, Threads
<1> QED BY <1>4, <1>5, <1>6, <1>7, <1>8 DEF Next, PushStep, PopStep

\* Every step of a caller of sbuf.c keeps the inductive invariant.
LEMMA NextInv == IInv /\ [Next]_vars => IInv'
<1> SUFFICES ASSUME IInv, [Next]_vars PROVE IInv'
  OBVIOUS
<1>1. CASE Next
  BY <1>1, NextAccounting, NextTypes, NextRing DEF IInv
<1>2. CASE UNCHANGED vars
  BY <1>2 DEF vars, IInv, TypeInv, MutexInv, EmptyAccounting, FullAccounting,
              ArgumentInv, RingHoldsElements, NoGarbagePopped, At, Size
<1> QED BY <1>1, <1>2

\* sbuf.c: the inductive invariant holds throughout every execution.
THEOREM SbufInvariant == Spec => []IInv
BY InitInv, NextInv, PTL DEF Spec

\* sbuf.c keeps its types; in particular neither semaphore ever exceeds the
\* capacity given to sbuf_new.
THEOREM SbufTypes == Spec => []TypeOK
<1>1. IInv => TypeOK
  BY AccountingBounds DEF IInv, TypeInv, TypeOK
<1> QED BY <1>1, SbufInvariant, PTL

\* sbuf_push and sbuf_trypush never overrun the ring and sbuf_pop and
\* sbuf_trypop never run past what was pushed, for any number of threads.
THEOREM SbufNoOverrun == Spec => []NoOverrun
<1>1. IInv => NoOverrun
  BY AccountingBounds, CapacityAssumption DEF NoOverrun
<1> QED BY <1>1, SbufInvariant, PTL

\* No call of sbuf_pop or sbuf_trypop returns a word nobody pushed.
THEOREM SbufNoGarbage == Spec => []NoGarbagePopped
<1>1. IInv => NoGarbagePopped
  BY DEF IInv
<1> QED BY <1>1, SbufInvariant, PTL
-----------------------------------------------------------------------------
\* The abstract queue of the refinement.
Queue == [i \in 1 .. Size |-> data[Mask(Plus(read, i - 1))]]

\* A store under the mutex appends to the queue.
LEMMA StoreAppends ==
    ASSUME IInv, NEW t \in Pushers, PushStore(t)
    PROVE  Fifo!Put(t)
<1> USE DEF Goto
<1>1. TypeInv /\ t \in Threads
  BY DEF IInv, Threads
<1>2. Size < Capacity /\ Size' = Size + 1 /\ Size \in Nat
  BY <1>1, AccountingBounds, WordFacts DEF PushStore, Size, TypeInv
<1>3. Queue \in Seq(Elem \cup {Garbage}) /\ Len(Queue) = Size
  <2>1. \A i \in 1 .. Size : data[Mask(Plus(read, i - 1))] \in Elem \cup {Garbage}
    <3> SUFFICES ASSUME NEW i \in 1 .. Size
                 PROVE  data[Mask(Plus(read, i - 1))] \in Elem \cup {Garbage}
      OBVIOUS
    <3>1. i - 1 \in 0 .. Size - 1
      BY <1>2
    <3> QED BY <3>1 DEF IInv, RingHoldsElements
  <2> QED BY <1>2, <2>1 DEF Queue
<1>4. Queue' = Append(Queue, elem[t])
  <2>1. ASSUME NEW i \in 1 .. Size
        PROVE  data'[Mask(Plus(read', i - 1))] = data[Mask(Plus(read, i - 1))]
    <3>1. i - 1 \in 0 .. Size - 1 /\ i - 1 \in 0 .. Capacity - 1
      BY <1>2, CapacityAssumption
    <3>2. Plus(read, i - 1) \in Word
      BY <1>1, <3>1, WordFacts DEF TypeInv
    <3>3. Mask(Plus(read, i - 1)) # Mask(write)
      BY <1>1, <1>2, <3>1, StoreSlotIsFree DEF TypeInv, Size
    <3> QED BY <1>1, <3>2, <3>3, MaskAssumption DEF PushStore, TypeInv
  <2>2. data'[Mask(Plus(read', Size))] = elem[t]
    <3>1. Plus(read, Size) = write
      BY <1>1, WordFacts DEF TypeInv, Size
    <3>2. Mask(write) \in Slots
      BY <1>1, MaskAssumption DEF TypeInv
    <3> QED BY <1>1, <3>1, <3>2 DEF PushStore, TypeInv
  <2>3. Queue' = [i \in 1 .. Size + 1 |->
                     IF i \in 1 .. Size THEN Queue[i] ELSE elem[t]]
    <3>1. Queue' = [i \in 1 .. Size + 1 |-> data'[Mask(Plus(read', i - 1))]]
      BY <1>2 DEF Queue
    <3>2. ASSUME NEW i \in 1 .. Size + 1
          PROVE  data'[Mask(Plus(read', i - 1))]
                    = IF i \in 1 .. Size THEN Queue[i] ELSE elem[t]
      <4>1. CASE i \in 1 .. Size
        BY <2>1, <4>1 DEF Queue
      <4>2. CASE i \notin 1 .. Size
        <5>1. i - 1 = Size
          BY <1>2, <4>2
        <5> QED BY <5>1, <2>2, <4>2
      <4> QED BY <4>1, <4>2
    <3> QED BY <3>1, <3>2
  <2>4. Append(Queue, elem[t]) = [i \in 1 .. Size + 1 |->
                     IF i \in 1 .. Size THEN Queue[i] ELSE elem[t]]
    BY <1>2, <1>3
  <2> QED BY <2>3, <2>4
<1>5. elem' = elem
  BY DEF PushStore
<1> QED BY <1>2, <1>3, <1>4, <1>5 DEF Fifo!Put, Queue

\* A load under the mutex takes the head of the queue.
LEMMA LoadTakes ==
    ASSUME IInv, NEW t \in Poppers, PopLoad(t)
    PROVE  Fifo!Take(t)
<1> USE DEF Goto
<1>1. TypeInv /\ t \in Threads
  BY DEF IInv, Threads
<1>2. Size > 0 /\ Size' = Size - 1 /\ Size \in 0 .. Capacity /\ Capacity \in Nat
  BY <1>1, AccountingBounds, WordFacts, CapacityAssumption
     DEF PopLoad, Size, TypeInv
<1>3. Queue \in Seq(Elem \cup {Garbage}) /\ Len(Queue) = Size
  <2>1. \A i \in 1 .. Size : data[Mask(Plus(read, i - 1))] \in Elem \cup {Garbage}
    <3> SUFFICES ASSUME NEW i \in 1 .. Size
                 PROVE  data[Mask(Plus(read, i - 1))] \in Elem \cup {Garbage}
      OBVIOUS
    <3>1. i - 1 \in 0 .. Size - 1
      BY <1>2
    <3> QED BY <3>1 DEF IInv, RingHoldsElements
  <2> QED BY <1>2, <2>1 DEF Queue
<1>4. Queue # << >> /\ Head(Queue) = data[Mask(read)]
  <2>1. Plus(read, 0) = read
    BY <1>1, WordFacts DEF TypeInv
  <2>2. Queue[1] = data[Mask(Plus(read, 0))]
    BY <1>2 DEF Queue
  <2> QED BY <1>2, <1>3, <2>1, <2>2
<1>5. Queue' = Tail(Queue)
  <2>1. Queue' = [i \in 1 .. Size - 1 |-> data'[Mask(Plus(read', i - 1))]]
    BY <1>2 DEF Queue
  <2>2. ASSUME NEW i \in 1 .. Size - 1
        PROVE  data'[Mask(Plus(read', i - 1))] = Queue[i + 1]
    <3>1. i - 1 \in 0 .. Capacity - 2 /\ i + 1 \in 1 .. Size
      BY <1>2
    <3>2. Plus(Incr(read), i - 1) = Plus(read, (i - 1) + 1)
      BY <1>1, <3>1, WordFacts DEF TypeInv
    <3>3. (i - 1) + 1 = (i + 1) - 1
      OBVIOUS
    <3>4. Plus(read', i - 1) = Plus(read, (i + 1) - 1) /\ data' = data
      BY <3>2, <3>3 DEF PopLoad
    <3> QED BY <3>1, <3>4 DEF Queue
  <2>3. Tail(Queue) = [i \in 1 .. Size - 1 |-> Queue[i + 1]]
    <3>1. /\ Tail(Queue) \in Seq(Elem \cup {Garbage})
          /\ Len(Tail(Queue)) = Size - 1
          /\ \A i \in 1 .. Size - 1 : Tail(Queue)[i] = Queue[i + 1]
      BY <1>2, <1>3, <1>4, HeadTailProperties
    <3>2. Tail(Queue) \in [1 .. Size - 1 -> Elem \cup {Garbage}]
      BY <3>1, LenProperties
    <3>3. Tail(Queue) = [i \in 1 .. Size - 1 |-> Tail(Queue)[i]]
      BY <3>2, Zenon
    <3> QED BY <3>1, <3>3
  <2> QED BY <2>1, <2>2, <2>3
<1>6. elem' = [elem EXCEPT ![t] = data[Mask(read)]]
  BY DEF PopLoad
<1> QED BY <1>4, <1>5, <1>6 DEF Fifo!Take, Queue

\* sbuf.c implements the bounded FIFO: nothing pushed is lost, duplicated,
\* overwritten or handed out in another order than that of the stores.
THEOREM SbufRefinesFifo == Spec => FifoRefinement
<1>1. Init => Fifo!FifoInit
  <2> SUFFICES ASSUME Init PROVE Fifo!FifoInit
    OBVIOUS
  <2>1. Size = 0
    BY DEF Init, Size, Diff
  <2>2. Queue = << >>
    BY <2>1 DEF Queue
  <2> QED BY <2>2 DEF Init, Fifo!FifoInit, Queue, Threads
<1>2. IInv /\ [Next]_vars => [Fifo!FifoNext]_(Fifo!fifoVars)
  <2> SUFFICES ASSUME IInv, [Next]_vars
               PROVE  Fifo!FifoNext \/ UNCHANGED Fifo!fifoVars
    BY DEF Fifo!fifoVars
  <2>1. ASSUME UNCHANGED <<data, read, write>>
        PROVE  Queue' = Queue
    BY <2>1 DEF Queue, Size
  <2>2. ASSUME NEW t \in Pushers, NEW v \in Elem, PushCall(t, v) \/ TryPush(t, v)
        PROVE  Fifo!Load(t, v)
    BY <2>1, <2>2 DEF PushCall, TryPush, Fifo!Load, Queue
  <2>3. ASSUME NEW t \in Threads,
               \/ PushWait(t) \/ PushLock(t) \/ PushUnlock(t) \/ PushPost(t)
               \/ PopCall(t) \/ TryPop(t) \/ PopWait(t) \/ PopLock(t)
               \/ PopUnlock(t) \/ PopPost(t)
        PROVE  UNCHANGED Fifo!fifoVars
    BY <2>1, <2>3
       DEF PushWait, PushLock, PushUnlock, PushPost, PopCall, TryPop, PopWait,
           PopLock, PopUnlock, PopPost, Fifo!fifoVars, Queue
  <2>4. CASE UNCHANGED vars
    BY <2>1, <2>4 DEF vars, Fifo!fifoVars, Queue
  <2> QED BY <2>2, <2>3, <2>4, StoreAppends, LoadTakes
          DEF Next, PushStep, PopStep, Fifo!FifoNext, Threads
<1> QED BY <1>1, <1>2, SbufInvariant, PTL
        DEF Spec, FifoRefinement, Fifo!FifoSpec
=============================================================================
