--------------------------- MODULE PCQueueProofs ---------------------------
(***************************************************************************)
(* PCQueue is correct for every set of producers and consumers and every   *)
(* capacity: its safety invariants, and that it implements BoundedQueue.   *)
(***************************************************************************)
EXTENDS PCQueue, Sequences, SequenceTheorems, TLAPS

\* The labels at which an enqueue, or a dequeue, holds its side's mutex.
Gated == {"check", "sleep", "lockHead", "lockTail", "lockSize", "insert",
          "remove", "unlockSize", "unlockHead", "unlockTail",
          "unlockPusher", "unlockPopper"}

\* The labels at which a call has not yet touched the buffer.
Before == {"lock", "check", "sleep", "wait", "lockHead", "lockTail",
           "lockSize", "insert", "remove"}

\* Each side is a critical section of its own: this is what keeps another
\* enqueue from using the slot that a checked enqueue has been promised.
GatesHeld == /\ \A p \in Producers : pc[p] \in Gated => lock["pusher"] = p
             /\ \A c \in Consumers : pc[c] \in Gated => lock["popper"] = c

\* An enqueue carries its argument until it is inserted, a dequeue carries
\* nothing before it has removed.
ElemInFlight == /\ \A p \in Producers : elem[p] # None <=> pc[p] \in Before
                /\ \A c \in Consumers : pc[c] \in Before \cup {"idle"} => elem[c] = None

IInv == TypeOK /\ GatesHeld /\ CheckStaysValid /\ TailIsOldest /\ ElemInFlight

\* The inductive invariant holds in the state pcq_create leaves.
LEMMA IInvInit == Init => IInv
  BY PCQAssumption DEF Init, IInv, TypeOK, GatesHeld, CheckStaysValid, TailIsOldest,
     ElemInFlight, Slots, Mutexes, Labels, Inside, Gated, Before, Threads

\* Every step of every thread preserves the inductive invariant.
LEMMA IInvStep == IInv /\ [Next]_vars => IInv'
<1> SUFFICES ASSUME IInv, [Next]_vars PROVE IInv'
  OBVIOUS
<1> USE PCQAssumption DEF IInv, TypeOK, GatesHeld, CheckStaysValid, TailIsOldest,
     ElemInFlight, Slots, Mutexes, Labels, Inside, Gated, Before, Threads, Goto
<1>1. ASSUME NEW p \in Producers, NEW e \in Elems, Enqueue(p, e) PROVE IInv'
  BY <1>1 DEF Enqueue
<1>2. ASSUME NEW p \in Producers, EnqLock(p) PROVE IInv'
  BY <1>2 DEF EnqLock, Acquire
<1>3. ASSUME NEW p \in Producers, EnqWait(p) PROVE IInv'
  <2>1. CASE Goto(p, "check", IF size = Capacity THEN "sleep" ELSE "lockHead")
                /\ UNCHANGED <<buffer, size, tail, lock, asleep, elem>>
    BY <2>1
  <2>2. CASE /\ Goto(p, "sleep", "wait")
             /\ lock' = [lock EXCEPT !["pusher"] = None]
             /\ asleep' = asleep \cup {p}
             /\ UNCHANGED <<buffer, size, tail, elem>>
    BY <2>2
  <2>3. CASE p \notin asleep /\ Acquire(p, "pusher", "wait", "check")
    BY <2>3 DEF Acquire
  <2> QED
    BY <1>3, <2>1, <2>2, <2>3 DEF EnqWait, WaitWhile
<1>4. ASSUME NEW p \in Producers, EnqLockBuffer(p) PROVE IInv'
  BY <1>4 DEF EnqLockBuffer, Acquire
<1>5. ASSUME NEW p \in Producers, EnqInsert(p) PROVE IInv'
  BY <1>5 DEF EnqInsert
<1>6. ASSUME NEW p \in Producers, EnqUnlock(p) PROVE IInv'
  BY <1>6 DEF EnqUnlock, Release
<1>7. ASSUME NEW p \in Producers, EnqSignal(p) PROVE IInv'
  BY <1>7 DEF EnqSignal, Signal
<1>8. ASSUME NEW c \in Consumers, Dequeue(c) PROVE IInv'
  BY <1>8 DEF Dequeue
<1>9. ASSUME NEW c \in Consumers, DeqLock(c) PROVE IInv'
  BY <1>9 DEF DeqLock, Acquire
<1>10. ASSUME NEW c \in Consumers, DeqWait(c) PROVE IInv'
  <2>1. CASE Goto(c, "check", IF size = 0 THEN "sleep" ELSE "lockTail")
                /\ UNCHANGED <<buffer, size, tail, lock, asleep, elem>>
    BY <2>1
  <2>2. CASE /\ Goto(c, "sleep", "wait")
             /\ lock' = [lock EXCEPT !["popper"] = None]
             /\ asleep' = asleep \cup {c}
             /\ UNCHANGED <<buffer, size, tail, elem>>
    BY <2>2
  <2>3. CASE c \notin asleep /\ Acquire(c, "popper", "wait", "check")
    BY <2>3 DEF Acquire
  <2> QED
    BY <1>10, <2>1, <2>2, <2>3 DEF DeqWait, WaitWhile
<1>11. ASSUME NEW c \in Consumers, DeqLockBuffer(c) PROVE IInv'
  BY SMTT(30), <1>11 DEF DeqLockBuffer, Acquire
<1>12. ASSUME NEW c \in Consumers, DeqRemove(c) PROVE IInv'
  BY <1>12 DEF DeqRemove
<1>13. ASSUME NEW c \in Consumers, DeqUnlock(c) PROVE IInv'
  BY <1>13 DEF DeqUnlock, Release
<1>14. ASSUME NEW c \in Consumers, DeqSignal(c) PROVE IInv'
  BY <1>14 DEF DeqSignal, Signal
<1>15. ASSUME NEW t \in Threads, SpuriousWakeup(t) PROVE IInv'
  BY <1>15 DEF SpuriousWakeup
<1>16. ASSUME UNCHANGED vars PROVE IInv'
  BY <1>16 DEF vars
<1> QED
  BY <1>1, <1>2, <1>3, <1>4, <1>5, <1>6, <1>7, <1>8, <1>9, <1>10, <1>11, <1>12,
     <1>13, <1>14, <1>15, <1>16 DEF Next, EnqStep, DeqStep

\* Every reachable state satisfies the inductive invariant.
THEOREM InductiveInvariant == Spec => []IInv
  BY IInvInit, IInvStep, PTL DEF Spec

\* The queue's variables keep their types: pcq_tail indexes the buffer and
\* pcq_current_size stays between 0 and pcq_capacity.
THEOREM TypeCorrect == Spec => []TypeOK
<1>1. IInv => TypeOK
  BY DEF IInv
<1> QED
  BY InductiveInvariant, <1>1, PTL

\* What a thread learned from its unprotected look at pcq_current_size still
\* holds when it uses it, whatever the other threads did in between.
THEOREM CheckValid == Spec => []CheckStaysValid
<1>1. IInv => CheckStaysValid
  BY DEF IInv
<1> QED
  BY InductiveInvariant, <1>1, PTL

\* pcq_tail is the index of the oldest element although enqueues and dequeues
\* move it under different outer mutexes, and live slots hold elements.
THEOREM TailCorrect == Spec => []TailIsOldest
<1>1. IInv => TailIsOldest
  BY DEF IInv
<1> QED
  BY InductiveInvariant, <1>1, PTL

-----------------------------------------------------------------------------
(* Refinement *)

\* The mapping of PCQueue's variables to those of BoundedQueue.
contents == [i \in 1 .. size |-> buffer[tail + 1 - i]]
offers == [p \in Producers |-> elem[p]]
takes == [c \in Consumers |-> elem[c]]

\* Under the inductive invariant the contents are a sequence of elements.
LEMMA ContentsType == IInv => contents \in Seq(Elems) /\ Len(contents) = size
<1> SUFFICES ASSUME IInv PROVE contents \in Seq(Elems) /\ Len(contents) = size
  OBVIOUS
<1>1. size \in Nat /\ Capacity \in Nat
  BY PCQAssumption DEF IInv, TypeOK
<1>2. \A i \in 1 .. size : contents[i] \in Elems
  <2> TAKE i \in 1 .. size
  <2>1. contents[i] = buffer[size - i] /\ size - i \in Slots /\ size - i < size
    BY <1>1 DEF contents, IInv, TypeOK, TailIsOldest, Slots
  <2> QED
    BY <2>1 DEF IInv, TypeOK, TailIsOldest
<1>3. contents \in [1 .. size -> Elems]
  BY <1>2 DEF contents
<1> QED
  BY <1>1, <1>3

\* Shifting the buffer right and writing slot 0 appends to the contents.
LEMMA InsertAppends ==
  ASSUME IInv, NEW p \in Producers, EnqInsert(p)
  PROVE  contents' = Append(contents, elem[p])
<1>1. size \in Nat /\ size < Capacity /\ Capacity \in Nat /\ size' = size + 1
  BY PCQAssumption DEF IInv, TypeOK, CheckStaysValid, EnqInsert, Goto
<1>2. tail' = size /\ tail' \in Slots
  BY <1>1 DEF IInv, TypeOK, TailIsOldest, EnqInsert, Slots
<1>3. \A i \in 1 .. size : buffer'[size + 1 - i] = buffer[tail + 1 - i]
  BY <1>1 DEF IInv, TypeOK, TailIsOldest, EnqInsert, Slots
<1>4. buffer'[0] = elem[p]
  BY <1>1 DEF EnqInsert, Slots
<1>5. contents' = [i \in 1 .. size + 1 |-> IF i = size + 1 THEN elem[p] ELSE contents[i]]
  BY <1>1, <1>2, <1>3, <1>4 DEF contents
<1>6. contents \in Seq(Elems) /\ Len(contents) = size
  BY ContentsType
<1> QED
  BY <1>1, <1>5, <1>6

\* Taking the slot at pcq_tail takes the head of the contents.
LEMMA RemoveTakesHead ==
  ASSUME IInv, NEW c \in Consumers, DeqRemove(c)
  PROVE  /\ contents # <<>>
         /\ buffer[tail] = Head(contents)
         /\ contents' = Tail(contents)
<1>1. size \in Nat /\ size > 0 /\ Capacity \in Nat /\ size' = size - 1
      /\ tail = size - 1 /\ buffer' = buffer
  BY PCQAssumption DEF IInv, TypeOK, CheckStaysValid, TailIsOldest, DeqRemove, Goto
<1>2. contents \in Seq(Elems) /\ Len(contents) = size
  BY ContentsType
<1>3. contents # <<>> /\ buffer[tail] = Head(contents)
  BY <1>1, <1>2 DEF contents
<1>4. size' = 0 \/ tail' = size - 2
  BY <1>1 DEF DeqRemove
<1>5. contents' = [i \in 1 .. size - 1 |-> contents[i + 1]]
  <2>1. \A i \in 1 .. size - 1 : buffer'[tail' + 1 - i] = contents[i + 1]
    BY <1>1, <1>4 DEF contents
  <2> QED
    BY <1>1, <2>1 DEF contents
<1>6. Tail(contents) = [i \in 1 .. size - 1 |-> contents[i + 1]]
  BY <1>1, <1>2, <1>3, HeadTailProperties, LenProperties
<1> QED
  BY <1>3, <1>5, <1>6

\* The state pcq_create leaves maps to the empty queue.
LEMMA RefinementInit == Init => BQ!BQInit
<1> SUFFICES ASSUME Init PROVE BQ!BQInit
  OBVIOUS
<1>1. contents = <<>>
  BY DEF contents, Init
<1> QED
  BY <1>1 DEF Init, BQ!BQInit, contents, Threads

\* Every step maps to one abstract step or to none: a call to Offer, the
\* insertion to Enq, the removal to Deq, the return of a dequeue to Deliver.
LEMMA RefinementStep == IInv /\ [Next]_vars => [BQ!BQNext]_BQ!bqVars
<1> SUFFICES ASSUME IInv, [Next]_vars PROVE [BQ!BQNext]_BQ!bqVars
  OBVIOUS
<1>a. elem \in [Threads -> Elems \cup {None}]
  BY DEF IInv, TypeOK
<1>1. ASSUME NEW p \in Producers, NEW e \in Elems, Enqueue(p, e)
      PROVE  BQ!Offer(p, e)
  <2>1. offers[p] = None
    BY <1>1 DEF Enqueue, Goto, IInv, ElemInFlight, Before, offers
  <2>2. offers' = [offers EXCEPT ![p] = e] /\ takes' = takes /\ contents' = contents
    BY <1>a, <1>1, PCQAssumption DEF Enqueue, offers, takes, contents, Threads
  <2> QED
    BY <2>1, <2>2 DEF BQ!Offer, offers, takes, contents
<1>2. ASSUME NEW p \in Producers, EnqInsert(p)
      PROVE  BQ!Enq(p)
  <2>1. offers[p] # None
    BY <1>2 DEF EnqInsert, Goto, IInv, ElemInFlight, Before, offers
  <2>2. Len(contents) < Capacity
    BY <1>2, ContentsType DEF EnqInsert, Goto, IInv, CheckStaysValid
  <2>3. contents' = Append(contents, offers[p])
    BY <1>2, InsertAppends DEF offers
  <2>4. offers' = [offers EXCEPT ![p] = None] /\ takes' = takes
    BY <1>a, <1>2, PCQAssumption DEF EnqInsert, offers, takes, Threads
  <2> QED
    BY <2>1, <2>2, <2>3, <2>4 DEF BQ!Enq, offers, takes, contents
<1>3. ASSUME NEW c \in Consumers, DeqRemove(c)
      PROVE  BQ!Deq(c)
  <2>1. takes[c] = None
    BY <1>3 DEF DeqRemove, Goto, IInv, ElemInFlight, Before, takes
  <2>2. /\ contents # <<>>
        /\ buffer[tail] = Head(contents)
        /\ contents' = Tail(contents)
    BY <1>3, RemoveTakesHead
  <2>3. takes' = [takes EXCEPT ![c] = buffer[tail]] /\ offers' = offers
    BY <1>a, <1>3, PCQAssumption DEF DeqRemove, offers, takes, Threads
  <2> QED
    BY <2>1, <2>2, <2>3 DEF BQ!Deq, offers, takes, contents
<1>4. ASSUME NEW c \in Consumers, DeqSignal(c)
      PROVE  BQ!Deliver(c) \/ UNCHANGED <<contents, offers, takes>>
  <2>1. takes' = [takes EXCEPT ![c] = None] /\ offers' = offers /\ contents' = contents
    BY <1>a, <1>4, PCQAssumption DEF DeqSignal, offers, takes, contents, Threads
  <2>2. CASE takes[c] = None
    BY <2>1, <2>2 DEF takes
  <2>3. CASE takes[c] # None
    BY <2>1, <2>3 DEF BQ!Deliver, offers, takes, contents
  <2> QED
    BY <2>2, <2>3
<1>5. ASSUME UNCHANGED <<buffer, size, tail, elem>>
      PROVE  UNCHANGED <<contents, offers, takes>>
  BY <1>5 DEF contents, offers, takes
<1>6. ASSUME NEW p \in Producers, EnqStep(p), ~ EnqInsert(p)
      PROVE  UNCHANGED <<buffer, size, tail, elem>>
  BY <1>6 DEF EnqStep, EnqLock, EnqWait, EnqLockBuffer, EnqUnlock, EnqSignal,
     WaitWhile, Acquire, Release
<1>7. ASSUME NEW c \in Consumers, DeqStep(c), ~ DeqRemove(c), ~ DeqSignal(c)
      PROVE  UNCHANGED <<buffer, size, tail, elem>>
  BY <1>7 DEF DeqStep, DeqLock, DeqWait, DeqLockBuffer, DeqUnlock,
     WaitWhile, Acquire, Release
<1>8. ASSUME NEW c \in Consumers, Dequeue(c)
      PROVE  UNCHANGED <<buffer, size, tail, elem>>
  BY <1>8 DEF Dequeue
<1>9. ASSUME NEW t \in Threads, SpuriousWakeup(t)
      PROVE  UNCHANGED <<buffer, size, tail, elem>>
  BY <1>9 DEF SpuriousWakeup
<1>10. UNCHANGED vars => UNCHANGED <<buffer, size, tail, elem>>
  BY DEF vars
<1>11. UNCHANGED <<contents, offers, takes>> => UNCHANGED BQ!bqVars
  BY DEF BQ!bqVars, contents, offers, takes
<1> QED
  BY <1>1, <1>2, <1>3, <1>4, <1>5, <1>6, <1>7, <1>8, <1>9, <1>10, <1>11
     DEF Next, BQ!BQNext

\* The lock-based queue implements the atomic FIFO queue: every enqueue and
\* dequeue takes effect at one instant, in FIFO order.
THEOREM Refinement == Spec => ImplementsBoundedQueue
  BY InductiveInvariant, RefinementInit, RefinementStep, PTL
     DEF Spec, ImplementsBoundedQueue, BQ!BQSpec
=============================================================================
