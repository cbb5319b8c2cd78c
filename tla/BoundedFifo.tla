---------------------------- MODULE BoundedFifo ----------------------------
(***************************************************************************)
(* What lib/sbuf.c promises its callers: a FIFO of at most Capacity        *)
(* elements shared by threads.  A thread loads its register with the       *)
(* element it wants to push, pushes it in one step when there is room, or  *)
(* pops the oldest element into its register in one step when there is     *)
(* one.  Nothing is lost, duplicated or reordered.                         *)
(***************************************************************************)
EXTENDS Naturals, Sequences

CONSTANTS Pushers,    \* threads that call sbuf_push / sbuf_trypush
          Poppers,    \* threads that call sbuf_pop / sbuf_trypop
          Elem,       \* the pointers that are passed through the buffer
          Garbage,    \* what an uninitialised word holds
          Capacity    \* bufsize given to sbuf_new

VARIABLES q,          \* the elements in the buffer, oldest first
          elem        \* elem[t]: the register of thread t

fifoVars == <<q, elem>>

FifoInit ==
    /\ q = << >>
    /\ elem = [t \in Pushers \cup Poppers |-> Garbage]

\* A pusher picks the element it is going to push.
Load(t, v) ==
    /\ elem' = [elem EXCEPT ![t] = v]
    /\ q' = q

Put(t) ==
    /\ Len(q) < Capacity
    /\ q' = Append(q, elem[t])
    /\ elem' = elem

Take(t) ==
    /\ q # << >>
    /\ elem' = [elem EXCEPT ![t] = Head(q)]
    /\ q' = Tail(q)

FifoNext ==
    \/ \E t \in Pushers : \E v \in Elem : Load(t, v)
    \/ \E t \in Pushers : Put(t)
    \/ \E t \in Poppers : Take(t)

FifoSpec == FifoInit /\ [][FifoNext]_fifoVars
=============================================================================
