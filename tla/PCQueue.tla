------------------------------ MODULE PCQueue ------------------------------
(***************************************************************************)
(* Exercise-2/producer-consumer/producer-consumer.c: the queue through     *)
(* which the mbroker's main thread hands registration requests to its      *)
(* worker threads.  One action per mutex operation, unprotected read or    *)
(* critical-section body, so that every interleaving of the five mutexes   *)
(* and the two condition variables is a behaviour.                         *)
(*                                                                         *)
(* Both functions read pcq_current_size for their wait condition without   *)
(* holding pcq_current_size_lock, and signal the other side's condition    *)
(* variable without holding that side's mutex.                             *)
(*                                                                         *)
(* pthread calls on initialised objects do not fail, so their error        *)
(* returns are left out.                                                   *)
(***************************************************************************)
EXTENDS Integers, FiniteSets

CONSTANTS Producers,  \* threads that call pcq_enqueue
          Consumers,  \* threads that call pcq_dequeue
          Elems,      \* what a caller may enqueue
          Capacity,   \* pcq_capacity
          None        \* no element, no thread

ASSUME PCQAssumption ==
    /\ Capacity \in Nat \ {0}
    /\ Producers \cap Consumers = {}
    /\ None \notin Elems
    /\ None \notin Producers \cup Consumers

Threads == Producers \cup Consumers
Mutexes == {"size", "head", "tail", "pusher", "popper"}

VARIABLES buffer,   \* pcq_buffer, indices 0..Capacity-1
          size,     \* pcq_current_size
          tail,     \* pcq_tail; pcq_head never leaves 0
          lock,     \* lock[m]: the thread that holds mutex m, or None
          asleep,   \* threads inside pthread_cond_wait, not yet signalled
          pc,       \* pc[t]: what t does next
          elem      \* elem[t]: the element t's call still carries

vars == <<buffer, size, tail, lock, asleep, pc, elem>>

Slots == 0 .. Capacity - 1

\* pcq_create
Init == /\ buffer = [i \in Slots |-> None]
        /\ size = 0
        /\ tail = 0
        /\ lock = [m \in Mutexes |-> None]
        /\ asleep = {}
        /\ pc = [t \in Threads |-> "idle"]
        /\ elem = [t \in Threads |-> None]

-----------------------------------------------------------------------------
Goto(t, from, to) == pc[t] = from /\ pc' = [pc EXCEPT ![t] = to]

\* pthread_mutex_lock / pthread_mutex_unlock by t on m.
Acquire(t, m, from, to) == /\ Goto(t, from, to)
                           /\ lock[m] = None
                           /\ lock' = [lock EXCEPT ![m] = t]
                           /\ UNCHANGED <<buffer, size, tail, asleep, elem>>

Release(t, m, from, to) == /\ Goto(t, from, to)
                           /\ lock' = [lock EXCEPT ![m] = None]
                           /\ UNCHANGED <<buffer, size, tail, asleep, elem>>

\* while (mustWait) pthread_cond_wait(.., m): the condition is read with the
\* side's own mutex m only, and going to sleep is a later step, which releases
\* m; a thread that wakes takes m again and reads the condition again.
WaitWhile(t, m, mustWait, next) ==
    \/ /\ Goto(t, "check", IF mustWait THEN "sleep" ELSE next)
       /\ UNCHANGED <<buffer, size, tail, lock, asleep, elem>>
    \/ /\ Goto(t, "sleep", "wait")
       /\ lock' = [lock EXCEPT ![m] = None]
       /\ asleep' = asleep \cup {t}
       /\ UNCHANGED <<buffer, size, tail, elem>>
    \/ /\ t \notin asleep
       /\ Acquire(t, m, "wait", "check")

\* pthread_cond_signal on the condition variable of the threads in side:
\* one of its sleepers, if there is any, wakes up.
Signal(side) == IF asleep \cap side = {}
                  THEN UNCHANGED asleep
                  ELSE \E t \in asleep \cap side : asleep' = asleep \ {t}

\* pthread_cond_wait may return without a signal, and a signal may wake more
\* than one sleeper.
SpuriousWakeup(t) == /\ t \in asleep
                     /\ asleep' = asleep \ {t}
                     /\ UNCHANGED <<buffer, size, tail, lock, pc, elem>>

-----------------------------------------------------------------------------
(* pcq_enqueue *)

Enqueue(p, e) == /\ Goto(p, "idle", "lock")
                 /\ elem' = [elem EXCEPT ![p] = e]
                 /\ UNCHANGED <<buffer, size, tail, lock, asleep>>

EnqLock(p) == Acquire(p, "pusher", "lock", "check")

\* Mutant: an if in place of the while, no second look at the size.
EnqWaitIf(p) == \/ WaitWhile(p, "pusher", size = Capacity, "lockHead") /\ pc[p] # "wait"
                \/ p \notin asleep /\ Acquire(p, "pusher", "wait", "lockHead")

EnqWait(p) == WaitWhile(p, "pusher", size = Capacity, "lockHead")

EnqLockBuffer(p) == \/ Acquire(p, "head", "lockHead", "lockSize")
                    \/ Acquire(p, "size", "lockSize", "insert")

\* Mutant: the shift stops one slot early.
EnqInsertShortShift(p) ==
    /\ Goto(p, "insert", "unlockSize")
    /\ tail' = IF size # 0 THEN tail + 1 ELSE tail
    /\ buffer' = [i \in Slots |-> IF i = 0 THEN elem[p]
                                  ELSE IF size # 0 /\ i <= tail
                                         THEN buffer[i - 1]
                                         ELSE buffer[i]]
    /\ size' = size + 1
    /\ elem' = [elem EXCEPT ![p] = None]
    /\ UNCHANGED <<lock, asleep>>

\* Everything moves one slot to the right and the element goes to slot 0.
EnqInsert(p) ==
    /\ Goto(p, "insert", "unlockSize")
    /\ tail' = IF size # 0 THEN tail + 1 ELSE tail
    /\ buffer' = [i \in Slots |-> IF i = 0 THEN elem[p]
                                  ELSE IF size # 0 /\ i <= tail + 1
                                         THEN buffer[i - 1]
                                         ELSE buffer[i]]
    /\ size' = size + 1
    /\ elem' = [elem EXCEPT ![p] = None]
    /\ UNCHANGED <<lock, asleep>>

\* Mutant: pcq_head_lock is never released.
EnqUnlockButHead(p) == \/ Release(p, "size", "unlockSize", "unlockPusher")
                       \/ Release(p, "pusher", "unlockPusher", "signal")

EnqUnlock(p) == \/ Release(p, "size", "unlockSize", "unlockHead")
                \/ Release(p, "head", "unlockHead", "unlockPusher")
                \/ Release(p, "pusher", "unlockPusher", "signal")

EnqSignal(p) == /\ Goto(p, "signal", "idle")
                /\ Signal(Consumers)
                /\ UNCHANGED <<buffer, size, tail, lock, elem>>

-----------------------------------------------------------------------------
(* pcq_dequeue *)

Dequeue(c) == /\ Goto(c, "idle", "lock")
              /\ UNCHANGED <<buffer, size, tail, lock, asleep, elem>>

DeqLock(c) == Acquire(c, "popper", "lock", "check")

DeqWait(c) == WaitWhile(c, "popper", size = 0, "lockTail")

DeqLockBuffer(c) == \/ Acquire(c, "tail", "lockTail", "lockSize")
                    \/ Acquire(c, "size", "lockSize", "remove")

\* Mutant: pcq_tail moves although the queue becomes empty.
DeqRemoveMovesTail(c) == /\ Goto(c, "remove", "unlockSize")
                         /\ elem' = [elem EXCEPT ![c] = buffer[tail]]
                         /\ size' = size - 1
                         /\ tail' = IF tail # 0 THEN tail - 1 ELSE Capacity - 1
                         /\ UNCHANGED <<buffer, lock, asleep>>

DeqRemove(c) == /\ Goto(c, "remove", "unlockSize")
                /\ elem' = [elem EXCEPT ![c] = buffer[tail]]
                /\ size' = size - 1
                /\ tail' = IF size - 1 # 0 THEN tail - 1 ELSE tail
                /\ UNCHANGED <<buffer, lock, asleep>>

DeqUnlock(c) == \/ Release(c, "size", "unlockSize", "unlockTail")
                \/ Release(c, "tail", "unlockTail", "unlockPopper")
                \/ Release(c, "popper", "unlockPopper", "signal")

\* The element is returned to the caller.
DeqSignal(c) == /\ Goto(c, "signal", "idle")
                /\ Signal(Producers)
                /\ elem' = [elem EXCEPT ![c] = None]
                /\ UNCHANGED <<buffer, size, tail, lock>>

-----------------------------------------------------------------------------
\* A step of a call in progress; calling again is the caller's choice.
EnqStep(p) == \/ EnqLock(p) \/ EnqWait(p) \/ EnqLockBuffer(p)
              \/ EnqInsert(p) \/ EnqUnlock(p) \/ EnqSignal(p)

DeqStep(c) == \/ DeqLock(c) \/ DeqWait(c) \/ DeqLockBuffer(c)
              \/ DeqRemove(c) \/ DeqUnlock(c) \/ DeqSignal(c)

Next == \/ \E p \in Producers : EnqStep(p) \/ \E e \in Elems : Enqueue(p, e)
        \/ \E c \in Consumers : DeqStep(c) \/ Dequeue(c)
        \/ \E t \in Threads : SpuriousWakeup(t)

Spec == Init /\ [][Next]_vars

\* The scheduler runs every thread that can run; no fairness on spurious
\* wakeups, and none on the callers: a caller may stop calling.
Fairness == /\ \A p \in Producers : WF_vars(EnqStep(p))
            /\ \A c \in Consumers : WF_vars(DeqStep(c))

LiveSpec == Spec /\ Fairness

-----------------------------------------------------------------------------
(* Properties *)

Inside == {"lockHead", "lockTail", "lockSize", "insert", "remove",
           "unlockSize", "unlockHead", "unlockTail",
           "unlockPusher", "unlockPopper"}

Labels == Inside \cup {"idle", "lock", "check", "sleep", "wait", "signal"}

TypeOK == /\ buffer \in [Slots -> Elems \cup {None}]
          /\ size \in 0 .. Capacity
          /\ tail \in Slots
          /\ lock \in [Mutexes -> Threads \cup {None}]
          /\ asleep \subseteq Threads
          /\ pc \in [Threads -> Labels]
          /\ elem \in [Threads -> Elems \cup {None}]

\* A thread's stale view stays good: between the unprotected check of
\* pcq_current_size (producer-consumer.c:51, 104) and the critical section
\* that relies on it, however the other side runs, an enqueue that passed the
\* check finds a free slot and a dequeue finds an element.
CheckStaysValid ==
    /\ \A p \in Producers : pc[p] \in {"lockHead", "lockSize", "insert"}
                               => size < Capacity
    /\ \A c \in Consumers : pc[c] \in {"lockTail", "lockSize", "remove"}
                               => size > 0

\* pcq_tail, moved by both sides under different outer mutexes, always is the
\* index of the oldest element, and the live slots hold elements.
TailIsOldest == /\ tail = (IF size = 0 THEN 0 ELSE size - 1)
                /\ \A i \in Slots : i < size => buffer[i] # None

\* The queue implements the abstract one: enqueues and dequeues take effect
\* atomically, in FIFO order, nothing lost, duplicated or invented.
BQ == INSTANCE BoundedQueue WITH
        queue <- [i \in 1 .. size |-> buffer[tail + 1 - i]],
        offered <- [p \in Producers |-> elem[p]],
        taken <- [c \in Consumers |-> elem[c]]

ImplementsBoundedQueue == BQ!BQSpec

\* A call that got past its wait returns: no order of the five mutexes, and no
\* traffic of the other side, keeps it inside forever.
PastWaitReturns == \A t \in Threads : pc[t] \in Inside ~> pc[t] = "idle"

\* producer-consumer.h:49: "If the queue is empty, sleep until the queue has
\* an element".  A dequeue does not stay asleep beside an element forever.
DequeueSleepsUntilElement ==
    \A c \in Consumers : (c \in asleep /\ size > 0) ~> (c \notin asleep \/ size = 0)
=============================================================================
