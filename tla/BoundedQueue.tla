---------------------------- MODULE BoundedQueue ----------------------------
(***************************************************************************)
(* What Exercise-2/producer-consumer promises its callers: a bounded FIFO  *)
(* queue shared by producers and consumers, in which an enqueue and a      *)
(* dequeue each take effect at one instant between call and return.        *)
(* pcq_enqueue waits while the queue is full and pcq_dequeue while it is   *)
(* empty (producer-consumer.h:42-50).  Nothing is said here of locks.      *)
(***************************************************************************)
EXTENDS Naturals, Sequences

CONSTANTS Producers,  \* threads that call pcq_enqueue
          Consumers,  \* threads that call pcq_dequeue
          Elems,      \* what a caller may enqueue
          Capacity,   \* the capacity given to pcq_create
          None        \* no element

VARIABLES queue,    \* the elements, oldest first
          offered,  \* offered[p]: the argument of p's enqueue, not yet inserted
          taken     \* taken[c]: what c's dequeue removed, not yet returned

bqVars == <<queue, offered, taken>>

BQInit == /\ queue = <<>>
          /\ offered = [p \in Producers |-> None]
          /\ taken = [c \in Consumers |-> None]

\* p calls pcq_enqueue(queue, e).
Offer(p, e) == /\ offered[p] = None
               /\ offered' = [offered EXCEPT ![p] = e]
               /\ UNCHANGED <<queue, taken>>

\* p's element goes in, at the back of the FIFO order.
Enq(p) == /\ offered[p] # None
          /\ Len(queue) < Capacity
          /\ queue' = Append(queue, offered[p])
          /\ offered' = [offered EXCEPT ![p] = None]
          /\ UNCHANGED taken

\* c's dequeue takes the oldest element out.
Deq(c) == /\ taken[c] = None
          /\ queue # <<>>
          /\ taken' = [taken EXCEPT ![c] = Head(queue)]
          /\ queue' = Tail(queue)
          /\ UNCHANGED offered

\* c's pcq_dequeue returns the element to its caller.
Deliver(c) == /\ taken[c] # None
              /\ taken' = [taken EXCEPT ![c] = None]
              /\ UNCHANGED <<queue, offered>>

BQNext == \/ \E p \in Producers : (\E e \in Elems : Offer(p, e)) \/ Enq(p)
          \/ \E c \in Consumers : Deq(c) \/ Deliver(c)

BQSpec == BQInit /\ [][BQNext]_bqVars
=============================================================================
