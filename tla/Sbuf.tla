-------------------------------- MODULE Sbuf --------------------------------
(***************************************************************************)
(* lib/sbuf.c and lib/sbuf.h: the bounded buffer between the FlowReq       *)
(* monitor and the workers of sr-ctrl (req_buffer), and between the        *)
(* threads that issue SRDB transactions and the transaction workers.       *)
(*                                                                         *)
(* Two counting semaphores count the free and the filled slots, a mutex    *)
(* protects the two counters and the array.  Every call is broken at each  *)
(* operation on a semaphore or on the mutex, the points at which the       *)
(* scheduler can interleave other callers:                                 *)
(*                                                                         *)
(*   sem_wait(empty); lock; data[mask(write++)] = v; unlock; sem_post(full)*)
(*   sem_wait(full); lock; v = data[mask(read++)]; unlock; sem_post(empty) *)
(*                                                                         *)
(* read and write are unsigned long and only ever incremented: they wrap   *)
(* at 2^Width (Width is 64 in the code).                                   *)
(***************************************************************************)
EXTENDS Integers, FiniteSets, Sequences

CONSTANTS Pushers, Poppers, Elem, Garbage,
          Capacity,   \* bufsize
          Width       \* number of bits of an unsigned long

Threads == Pushers \cup Poppers
ULong == 2 ^ Width
Word == 0 .. ULong - 1
Slots == 0 .. Capacity - 1

\* a + 1 and a - b of unsigned longs.
Incr(a) == IF a = ULong - 1 THEN 0 ELSE a + 1
Diff(a, b) == IF a >= b THEN a - b ELSE a - b + ULong

\* Bit b of v, and v & (capacity - 1).
Bit(v, b) == (v \div 2 ^ b) % 2

Mask(v) ==
    CHOOSE m \in Slots :
        \A b \in 0 .. Width - 1 :
            Bit(m, b) = 1 <=> Bit(v, b) = 1 /\ Bit(Capacity - 1, b) = 1

\* The d-th word after v.
Plus(v, d) == IF v + d < ULong THEN v + d ELSE v + d - ULong

ASSUME ThreadsAssumption ==
    /\ IsFiniteSet(Pushers)
    /\ IsFiniteSet(Poppers)
    /\ Pushers \cap Poppers = {}
    /\ Garbage \notin Elem

ASSUME CapacityAssumption ==
    /\ Capacity \in Nat \ {0}
    /\ ULong \in Nat
    /\ Capacity < ULong

\* What the mask has to guarantee for the array to be a ring: any Capacity
\* consecutive counters fall into different slots.  It holds when Capacity is
\* a power of two, and for no other capacity; sbuf_new does not check it, and
\* neither do its two callers that take the size from the configuration.
ASSUME MaskAssumption ==
    \A v \in Word :
        /\ Mask(v) \in Slots
        /\ \A d \in 1 .. Capacity - 1 : Mask(Plus(v, d)) # Mask(v)

VARIABLES pc,         \* pc[t]: where thread t is in the call it makes
          elem,       \* elem[t]: the argument or the result of that call
          empty,      \* value of the semaphore sbuf->empty
          full,       \* value of the semaphore sbuf->full
          lock,       \* the set of threads that hold sbuf->lock
          data, read, write

vars == <<pc, elem, empty, full, lock, data, read, write>>

PushLabels == {"push_wait", "push_lock", "push_store", "push_unlock",
               "push_post"}
PopLabels  == {"pop_wait", "pop_lock", "pop_load", "pop_unlock", "pop_post"}
Labels == {"idle"} \cup PushLabels \cup PopLabels

\* __sbuf_size
Size == Diff(write, read)

(***************************************************************************)
(* sbuf_new                                                                *)
(***************************************************************************)
Init ==
    /\ pc = [t \in Threads |-> "idle"]
    /\ elem = [t \in Threads |-> Garbage]
    /\ empty = Capacity
    /\ full = 0
    /\ lock = {}
    /\ data = [s \in Slots |-> Garbage]
    /\ read = 0
    /\ write = 0

Goto(t, from, to) ==
    /\ pc[t] = from
    /\ pc' = [pc EXCEPT ![t] = to]

(***************************************************************************)
(* sbuf_push and sbuf_trypush                                              *)
(***************************************************************************)
\* sbuf_push is called with v and reaches sem_wait(&sbuf->empty).
PushCall(t, v) ==
    /\ Goto(t, "idle", "push_wait")
    /\ elem' = [elem EXCEPT ![t] = v]
    /\ UNCHANGED <<empty, full, lock, data, read, write>>

\* Mutant: an interrupted sem_wait is taken for a successful one.
PushWaitInterrupted(t) ==
    /\ Goto(t, "push_wait", "push_lock")
    /\ empty' = IF empty > 0 THEN empty - 1 ELSE empty
    /\ UNCHANGED <<elem, full, lock, data, read, write>>

PushWait(t) ==
    /\ Goto(t, "push_wait", "push_lock")
    /\ empty > 0
    /\ empty' = empty - 1
    /\ UNCHANGED <<elem, full, lock, data, read, write>>

\* sbuf_trypush with a free slot; without one it returns -1 and changes
\* nothing, a stuttering step.
TryPush(t, v) ==
    /\ Goto(t, "idle", "push_lock")
    /\ empty > 0
    /\ empty' = empty - 1
    /\ elem' = [elem EXCEPT ![t] = v]
    /\ UNCHANGED <<full, lock, data, read, write>>

PushLock(t) ==
    /\ Goto(t, "push_lock", "push_store")
    /\ lock = {}
    /\ lock' = {t}
    /\ UNCHANGED <<elem, empty, full, data, read, write>>

\* Mutant: ++write in place of write++.
PushStorePreIncrement(t) ==
    /\ Goto(t, "push_store", "push_unlock")
    /\ data' = [data EXCEPT ![Mask(Incr(write))] = elem[t]]
    /\ write' = Incr(write)
    /\ UNCHANGED <<elem, empty, full, lock, read>>

\* __sbuf_push
PushStore(t) ==
    /\ Goto(t, "push_store", "push_unlock")
    /\ data' = [data EXCEPT ![Mask(write)] = elem[t]]
    /\ write' = Incr(write)
    /\ UNCHANGED <<elem, empty, full, lock, read>>

PushUnlock(t) ==
    /\ Goto(t, "push_unlock", "push_post")
    /\ lock' = lock \ {t}
    /\ UNCHANGED <<elem, empty, full, data, read, write>>

\* Mutant: the poppers are not told.
PushPostForgotten(t) ==
    /\ Goto(t, "push_post", "idle")
    /\ UNCHANGED <<elem, empty, full, lock, data, read, write>>

PushPost(t) ==
    /\ Goto(t, "push_post", "idle")
    /\ full' = full + 1
    /\ UNCHANGED <<elem, empty, lock, data, read, write>>

(***************************************************************************)
(* sbuf_pop and sbuf_trypop                                                *)
(***************************************************************************)
PopCall(t) ==
    /\ Goto(t, "idle", "pop_wait")
    /\ UNCHANGED <<elem, empty, full, lock, data, read, write>>

PopWait(t) ==
    /\ Goto(t, "pop_wait", "pop_lock")
    /\ full > 0
    /\ full' = full - 1
    /\ UNCHANGED <<elem, empty, lock, data, read, write>>

\* sbuf_trypop with an element to take; without one it returns -1 and changes
\* nothing, a stuttering step.
TryPop(t) ==
    /\ Goto(t, "idle", "pop_lock")
    /\ full > 0
    /\ full' = full - 1
    /\ UNCHANGED <<elem, empty, lock, data, read, write>>

PopLock(t) ==
    /\ Goto(t, "pop_lock", "pop_load")
    /\ lock = {}
    /\ lock' = {t}
    /\ UNCHANGED <<elem, empty, full, data, read, write>>

\* Mutant: the counter moves and the element is not read.
PopLoadSkipsElement(t) ==
    /\ Goto(t, "pop_load", "pop_unlock")
    /\ read' = Incr(read)
    /\ UNCHANGED <<elem, empty, full, lock, data, write>>

\* __sbuf_pop
PopLoad(t) ==
    /\ Goto(t, "pop_load", "pop_unlock")
    /\ elem' = [elem EXCEPT ![t] = data[Mask(read)]]
    /\ read' = Incr(read)
    /\ UNCHANGED <<empty, full, lock, data, write>>

PopUnlock(t) ==
    /\ Goto(t, "pop_unlock", "pop_post")
    /\ lock' = lock \ {t}
    /\ UNCHANGED <<elem, empty, full, data, read, write>>

PopPost(t) ==
    /\ Goto(t, "pop_post", "idle")
    /\ empty' = empty + 1
    /\ UNCHANGED <<elem, full, lock, data, read, write>>

\* The steps of a call already made, which the thread takes without waiting
\* for anybody's decision.
PushStep(t) ==
    \/ PushWait(t) \/ PushLock(t) \/ PushStore(t)
    \/ PushUnlock(t) \/ PushPost(t)

PopStep(t) ==
    \/ PopWait(t) \/ PopLock(t) \/ PopLoad(t)
    \/ PopUnlock(t) \/ PopPost(t)

Next ==
    \/ \E t \in Pushers : \E v \in Elem : PushCall(t, v) \/ TryPush(t, v)
    \/ \E t \in Pushers : PushStep(t)
    \/ \E t \in Poppers : PopCall(t) \/ TryPop(t)
    \/ \E t \in Poppers : PopStep(t)

Spec == Init /\ [][Next]_vars

\* A thread inside a call is scheduled.  The poppers of both buffers loop on
\* the buffer (thread_worker, transaction_worker): they always call again.
Fairness ==
    /\ \A t \in Pushers : WF_vars(PushStep(t))
    /\ \A t \in Poppers : WF_vars(PopStep(t)) /\ WF_vars(PopCall(t))

FairSpec == Spec /\ Fairness

-----------------------------------------------------------------------------
TypeOK ==
    /\ pc \in [Threads -> Labels]
    /\ \A t \in Pushers : pc[t] \in {"idle"} \cup PushLabels
    /\ \A t \in Poppers : pc[t] \in {"idle"} \cup PopLabels
    /\ elem \in [Threads -> Elem \cup {Garbage}]
    /\ empty \in 0 .. Capacity
    /\ full \in 0 .. Capacity
    /\ lock \in SUBSET Threads
    /\ data \in [Slots -> Elem \cup {Garbage}]
    /\ read \in Word
    /\ write \in Word

At(labels) == {t \in Threads : pc[t] \in labels}

\* Nobody sits in the critical section without the mutex, and only one does.
MutexInv ==
    \A t \in Threads :
        pc[t] \in {"push_store", "push_unlock", "pop_load", "pop_unlock"}
            <=> lock = {t}

\* A slot is free, promised to a pusher, filled, or not yet given back by a
\* popper: the semaphores never promise more slots than the array has.
EmptyAccounting ==
    empty + Cardinality(At({"push_lock", "push_store"})) + Size
          + Cardinality(At({"pop_unlock", "pop_post"})) = Capacity

\* A stored element is counted by full, about to be counted, or promised to
\* a popper: sem_wait(full) never lets a popper through to an empty ring.
FullAccounting ==
    full + Cardinality(At({"push_unlock", "push_post"}))
         + Cardinality(At({"pop_lock", "pop_load"})) = Size

\* The slots between read and write are the ones that hold elements.
RingHoldsElements ==
    \A i \in 0 .. Size - 1 : data[Mask(Plus(read, i))] \in Elem

\* The ring never overflows under concurrent sbuf_push / sbuf_trypush, and a
\* thread that reaches the store (load) finds a free (filled) slot there,
\* although its check on the semaphore was made before the mutex was taken.
NoOverrun ==
    /\ Size <= Capacity
    /\ \A t \in Threads : pc[t] = "push_store" => Size < Capacity
    /\ \A t \in Threads : pc[t] = "pop_load" => Size > 0

\* No sbuf_pop or sbuf_trypop returns a word of the array that nobody stored.
NoGarbagePopped ==
    \A t \in Poppers : pc[t] \in {"pop_unlock", "pop_post"} => elem[t] \in Elem

\* sbuf implements the bounded FIFO: the elements between read and write, in
\* the order of the counters (modulo their wrap), change only by an append of
\* a pusher's element and the removal of the oldest one.
Fifo == INSTANCE BoundedFifo
            WITH q <- [i \in 1 .. Size |-> data[Mask(Plus(read, i - 1))]]
FifoRefinement == Fifo!FifoSpec

\* An element at the head of the buffer is taken eventually, whatever the
\* pushers do: the poppers cannot block each other, or the pushers them.
HeadIsTaken ==
    \A r \in Word : (read = r /\ write # r) ~> (read # r)
=============================================================================
