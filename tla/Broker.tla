------------------------------- MODULE Broker -------------------------------
(***************************************************************************)
(* Exercise-2/mbroker and utils: the message broker.  The main thread puts *)
(* the requests it reads from the register pipe into the request queue;    *)
(* each worker takes one at a time and handles it, for a publisher or a    *)
(* subscriber until the session is over.                                   *)
(*                                                                         *)
(* The table of boxes is shared and no lock guards it.  A box's mutex is   *)
(* held while a publisher appends to the box and while a subscriber reads  *)
(* it; the box's condition variable tells subscribers of something new.    *)
(* A step reads or writes shared state once, as far as another worker can  *)
(* race with it.  Clients and their pipes are the environment here (module  *)
(* Clients has them): a pipe opens or not, a client goes on or is gone.    *)
(***************************************************************************)
EXTENDS BoxFs, SequencesExt

CONSTANTS Workers,   \* the worker threads; there are max_sessions of them
          Main,      \* the main thread
          Requests,  \* Requests[k]: what the k-th buffer read may be
          Spaced,    \* TRUE: no request comes while another is being handled
          NSlots,    \* MAX_NUM_BOXES
          MaxPipeName, MaxBoxName,  \* widths of the names in a request
          Messages   \* what publishers send, from first to last

Slots == 1 .. NSlots

INSTANCE Protocol WITH MaxMessage <- BlockSize

ASSUME BrokerAssumption ==
    /\ IsFiniteSet(Workers)
    /\ Spaced \in BOOLEAN
    /\ {NSlots, MaxPipeName, MaxBoxName} \subseteq Nat \ {0}
    /\ Messages \in Seq(Seq(Chars))
    /\ None \notin Workers
    /\ Requests \in Seq({Requests[k] : k \in DOMAIN Requests})
    /\ \A k \in DOMAIN Requests : \A r \in Requests[k] :
         r # None /\ (r[1] \in RegisterRequests => r[BoxAt] \in Boxes)

VARIABLES queue,    \* request_queue, as BoundedQueue has it
          offered,  \* the request that the main thread is enqueuing
          taken,    \* taken[w]: the request that w is dequeuing
          table,    \* box_struct_array
          mutex,    \* mutex[i]: the worker that holds the mutex of slot i
          asleep,   \* workers in pthread_cond_wait that nothing has woken yet
          pc,       \* pc[w]: what w does next
          work,     \* work[w]: w's worker_struct and locals
          coming,   \* the requests still to come
          posts,    \* how many messages publishers have sent
          got,      \* got[w]: what the subscriber that w serves has received from w
          crashed   \* TRUE: the process died

RequestQueue == INSTANCE BoundedQueue WITH
                  Producers <- {Main}, Consumers <- Workers,
                  Elems <- UNION {Requests[k] : k \in DOMAIN Requests},
                  Capacity <- 2 * Cardinality(Workers)

bqVars == <<queue, offered, taken>>
boxVars == <<table, mutex, asleep>>
envVars == <<coming, posts>>
vars == <<fsVars, bqVars, boxVars, pc, work, envVars, got, crashed>>

NoWork == [code |-> 0, client |-> None, box |-> None, slot |-> None, fd |-> None,
           tmp |-> None, msg |-> <<>>, read |-> "none", pipe |-> "none", last |-> FALSE]

FreeBox == [free |-> TRUE, name |-> None, size |-> 0, pubs |-> 0, nsubs |-> 0,
            subs |-> [w \in Workers |-> "none"]]

Init == /\ FsInit /\ RequestQueue!BQInit
        /\ table = [i \in Slots |-> FreeBox]
        /\ mutex = [i \in Slots |-> None]
        /\ asleep = {}
        /\ pc = [w \in Workers |-> "idle"]
        /\ work = [w \in Workers |-> NoWork]
        /\ coming = Requests /\ posts = 0
        /\ got = [w \in Workers |-> <<>>]
        /\ crashed = FALSE

-----------------------------------------------------------------------------
Box(w) == work[w].box
Slot(w) == work[w].slot

At(w, l) == pc[w] = l /\ ~crashed

Goto(w, l, rec) == /\ pc' = [pc EXCEPT ![w] = l]
                   /\ work' = [work EXCEPT ![w] = rec]
                   /\ UNCHANGED <<bqVars, envVars, got, crashed>>

Jump(w, l) == Goto(w, l, work[w])

\* endloop.
Done(w) == /\ pc' = [pc EXCEPT ![w] = "idle"]
           /\ work' = [work EXCEPT ![w] = NoWork]
           /\ got' = [got EXCEPT ![w] = <<>>]
           /\ UNCHANGED <<bqVars, envVars, crashed>>


\* create_box or remove_box is over; the manager is to be told how.
Answer(w, r) == Goto(w, "reply", [NoWork EXCEPT !.code = work[w].code,
                                               !.client = work[w].client, !.tmp = r])

\* endloop with nothing else changed.
GiveUp(w) == Done(w) /\ UNCHANGED <<fsVars, boxVars>>

Update(i, rec) == table' = [table EXCEPT ![i] = rec]

Lock(w) == mutex[Slot(w)] = None /\ mutex' = [mutex EXCEPT ![Slot(w)] = w]
Unlock(w) == mutex' = [mutex EXCEPT ![Slot(w)] = None]

\* Mutant: pthread_cond_broadcast wakes nobody.
BroadcastLost(i) == UNCHANGED asleep

\* pthread_cond_broadcast on the condition variable of slot i.
Broadcast(i) == asleep' = {v \in asleep : Slot(v) # i}

GetBox(n) == LET S == {i \in Slots : ~table[i].free /\ table[i].name = n}
             IN IF S = {} THEN None ELSE First(S)

-----------------------------------------------------------------------------
(* The main thread, and the top of worker_thread_loop *)

Handling == {"lookup", "slot", "create", "closeNew", "name", "reset", "busy",
             "unlink", "clear", "hangup", "wake", "check", "count", "read", "enter",
             "reply", "deny", "listCount", "listNext", "listLast", "listCopy", "listSend"}

Quiet == /\ queue = <<>> /\ offered[Main] = None
         /\ \A w \in Workers : taken[w] = None /\ pc[w] \notin Handling

\* read() on the register pipe returns this buffer.
Arrive(request) ==
    /\ ~crashed /\ RequestQueue!Offer(Main, request)
    /\ UNCHANGED <<fsVars, boxVars, pc, work, posts, got, crashed>>

ReadRequest ==
    /\ coming # <<>>
    /\ Spaced => Quiet
    /\ \E r \in Head(coming) : Arrive(r)
    /\ coming' = Tail(coming)

EnqueueRequest ==
    /\ ~crashed /\ RequestQueue!Enq(Main)
    /\ UNCHANGED <<fsVars, boxVars, pc, work, envVars, got, crashed>>

Dequeue(w) ==
    /\ At(w, "idle") /\ RequestQueue!Deq(w)
    /\ UNCHANGED <<fsVars, boxVars, pc, work, envVars, got, crashed>>

\* pcq_dequeue returns; a buffer that cannot be decoded is dropped.
Decode(w) ==
    /\ At(w, "idle") /\ RequestQueue!Deliver(w)
    /\ LET req == decode(taken[w])
       IN \/ /\ Decodes(taken[w])
             /\ pc' = [pc EXCEPT ![w] = IF req.code = REQUEST_LIST_BOX THEN "listCount" ELSE "lookup"]
             /\ work' = [work EXCEPT ![w] =
                           [NoWork EXCEPT !.code = req.code, !.client = req.client, !.box = req.box]]
          \/ ~Decodes(taken[w]) /\ UNCHANGED <<pc, work>>
    /\ UNCHANGED <<fsVars, boxVars, envVars, got, crashed>>

\* get_box, the first thing that the other handlers do.  A manager is told of
\* a failure; a publisher or subscriber is denied.
LookupBox(w) ==
    /\ At(w, "lookup")
    /\ LET i == GetBox(Box(w))
           found == [work[w] EXCEPT !.slot = i]
       IN CASE work[w].code = REQUEST_CREATE_BOX ->
                 IF i = None THEN Jump(w, "slot") ELSE Answer(w, -1)
            [] work[w].code = REQUEST_REMOVE_BOX ->
                 IF i = None THEN Answer(w, -1) ELSE Goto(w, "busy", found)
            [] work[w].code = REQUEST_REGISTER_PUBLISHER ->
                 IF i = None THEN Jump(w, "deny") ELSE Goto(w, "check", found)
            [] work[w].code = REQUEST_REGISTER_SUBSCRIBER ->
                 IF i = None THEN Jump(w, "deny") ELSE Goto(w, "read", found)
    /\ UNCHANGED <<fsVars, boxVars>>

-----------------------------------------------------------------------------
(* create_box *)

CreateSlot(w) ==
    /\ At(w, "slot")
    /\ LET S == {i \in Slots : table[i].free}
       IN IF S = {} THEN Answer(w, -1)
          ELSE Goto(w, "create", [work[w] EXCEPT !.tmp = First(S)])
    /\ UNCHANGED <<fsVars, boxVars>>

CreateFile(w) ==
    /\ At(w, "create")
    /\ TfsOpen(Box(w), "CREAT")
    /\ LET d == OpenResult(Box(w), "CREAT")
       IN IF d = None THEN Answer(w, -1)
          ELSE Goto(w, "closeNew", [work[w] EXCEPT !.fd = d])
    /\ UNCHANGED boxVars

CreateClose(w) ==
    /\ At(w, "closeNew")
    /\ TfsClose(work[w].fd)
    /\ Goto(w, "name", [work[w] EXCEPT !.slot = work[w].tmp])
    /\ UNCHANGED boxVars

CreateName(w) ==
    /\ At(w, "name")
    /\ Update(Slot(w), [table[Slot(w)] EXCEPT !.free = FALSE, !.name = Box(w)])
    /\ Jump(w, "reset")
    /\ UNCHANGED <<fsVars, mutex, asleep>>

\* Mutant: the reset frees the box again.
CreateResetFrees(w) ==
    /\ At(w, "reset")
    /\ Update(Slot(w), [FreeBox EXCEPT !.name = table[Slot(w)].name])
    /\ Answer(w, 0)
    /\ UNCHANGED <<fsVars, mutex, asleep>>

CreateReset(w) ==
    /\ At(w, "reset")
    /\ Update(Slot(w), [FreeBox EXCEPT !.free = table[Slot(w)].free, !.name = table[Slot(w)].name])
    /\ Answer(w, 0)
    /\ UNCHANGED <<fsVars, mutex, asleep>>

-----------------------------------------------------------------------------
(* remove_box *)

\* Mutant: a box with a publisher is removed too.
RemoveBusyUnchecked(w) == At(w, "busy") /\ Jump(w, "unlink") /\ UNCHANGED <<fsVars, boxVars>>

RemoveBusy(w) ==
    /\ At(w, "busy")
    /\ IF table[Slot(w)].pubs > 0 THEN Answer(w, -1) ELSE Jump(w, "unlink")
    /\ UNCHANGED <<fsVars, boxVars>>

\* The file named in the table goes; another removal may have been faster.
RemoveFile(w) ==
    /\ At(w, "unlink")
    /\ LET n == table[Slot(w)].name
       IN IF n # None /\ Exists(n)
            THEN TfsUnlink(n) /\ Jump(w, "clear")
            ELSE UNCHANGED fsVars /\ Answer(w, -1)
    /\ UNCHANGED boxVars

RemoveClear(w) ==
    /\ At(w, "clear")
    /\ Update(Slot(w), [FreeBox EXCEPT !.subs = table[Slot(w)].subs])
    /\ Jump(w, "hangup")
    /\ UNCHANGED <<fsVars, mutex, asleep>>

\* The workers whose entry in subscribers is of one of these kinds.
Entries(w, kinds) == {v \in Workers : table[Slot(w)].subs[v] \in kinds}

\* close() of the pipes in the entries of S; sessions may still be using them.
ClosePipes(w, S) ==
    Update(Slot(w), [table[Slot(w)] EXCEPT !.subs =
                       [v \in Workers |-> IF v \in S THEN "dead" ELSE @[v]]])
Cut(w, S) == [v \in Workers |-> IF v \in S \cap Entries(w, {"open"})
                                   THEN [work[v] EXCEPT !.pipe = "dead"] ELSE work[v]]

\* An entry still holding a worker index is some descriptor of the process, or
\* none; with that, or a pipe closed before, close() fails and the rest of the
\* handler is skipped.
Hangup(w, S, next, r) ==
    /\ ClosePipes(w, S)
    /\ work' = [Cut(w, S) EXCEPT ![w].tmp = r]
    /\ pc' = [pc EXCEPT ![w] = next]
    /\ UNCHANGED <<fsVars, mutex, asleep, bqVars, envVars, got, crashed>>

RemoveHangup(w) ==
    /\ At(w, "hangup") /\ Entries(w, {"dead"}) = {}
    /\ Hangup(w, Entries(w, {"open", "left"}), "wake", None)

RemoveHangupFails(w) ==
    /\ At(w, "hangup") /\ Entries(w, {"index", "dead"}) # {}
    /\ \E S \in SUBSET Entries(w, {"open", "left"}) : Hangup(w, S, "reply", -1)

\* Mutant: the mutex is taken for the broadcast, whoever has it.
RemoveWakeLocks(w) ==
    /\ At(w, "wake") /\ mutex[Slot(w)] = None
    /\ Broadcast(Slot(w))
    /\ Answer(w, 0)
    /\ UNCHANGED <<fsVars, table, mutex>>

\* No mutex is held: a subscriber may be just about to wait.
RemoveWake(w) ==
    /\ At(w, "wake")
    /\ Broadcast(Slot(w))
    /\ Answer(w, 0)
    /\ UNCHANGED <<fsVars, table, mutex>>

-----------------------------------------------------------------------------
(* Replies *)

\* The manager's pipe is opened and the response written; whether or not that
\* works, the worker goes on to the next request.
Reply(w) == At(w, "reply") /\ GiveUp(w)

\* close(open(pipe_name)) tells a publisher or subscriber that it was denied.
Deny(w) == At(w, "deny") /\ GiveUp(w)

-----------------------------------------------------------------------------
(* list_box *)

\* get_num_of_boxes.
ListCount(w) ==
    /\ At(w, "listCount")
    /\ IF \A i \in Slots : table[i].free
         THEN Goto(w, "listSend", [work[w] EXCEPT !.tmp = 0, !.msg = create_zero_response(RESPONSE_LIST_BOX)])
         ELSE Goto(w, "listNext", [work[w] EXCEPT !.tmp = 0])
    /\ UNCHANGED <<fsVars, boxVars>>

\* The next box that is not free, as far as there is one.
ListNext(w) ==
    /\ At(w, "listNext")
    /\ LET S == {i \in Slots : i > work[w].tmp /\ ~table[i].free}
       IN IF S = {} THEN Done(w) ELSE Goto(w, "listLast", [work[w] EXCEPT !.tmp = First(S)])
    /\ UNCHANGED <<fsVars, boxVars>>

\* Mutant: the loop stops at the first box.
get_last_first == First({i \in Slots : ~table[i].free} \cup {NSlots})

\* The last box that is not free; the first of all when there is none.
get_last == Max({1} \cup {i \in Slots : ~table[i].free})

\* last is never reset.
ListLast(w) ==
    /\ At(w, "listLast")
    /\ Goto(w, "listCopy", [work[w] EXCEPT !.last = @ \/ work[w].tmp = get_last])
    /\ UNCHANGED <<fsVars, boxVars>>

ListCopy(w) ==
    /\ At(w, "listCopy")
    /\ Goto(w, "listSend", [work[w] EXCEPT !.msg =
            create_list_response(RESPONSE_LIST_BOX, table[work[w].tmp], work[w].last)])
    /\ UNCHANGED <<fsVars, boxVars>>

\* send_request; when it fails, list_box returns.
ListSend(w) ==
    /\ At(w, "listSend")
    /\ \/ Goto(w, "listNext", [work[w] EXCEPT !.msg = <<>>])
       \/ Done(w)
    /\ UNCHANGED <<fsVars, boxVars>>

-----------------------------------------------------------------------------
(* register_publisher and do_publisher_work *)

PubCheck(w) ==
    /\ At(w, "check")
    /\ Jump(w, IF table[Slot(w)].pubs # 0 THEN "deny" ELSE "count")
    /\ UNCHANGED <<fsVars, boxVars>>

\* n_publisher++: the value read may be the 0 that was checked.
PubCount(w) ==
    /\ At(w, "count")
    /\ \E n \in {0, table[Slot(w)].pubs} :
         Update(Slot(w), [table[Slot(w)] EXCEPT !.pubs = n + 1])
    /\ Jump(w, "pubPipe")
    /\ UNCHANGED <<fsVars, mutex, asleep>>

\* On failure n_publisher is left as it is.
PubPipe(w) ==
    /\ At(w, "pubPipe")
    /\ \/ Jump(w, "receive") /\ UNCHANGED <<fsVars, boxVars>>
       \/ GiveUp(w)

\* read() from the pipe returns a message, its end, or -1.
Receive(w, result, message) ==
    /\ At(w, "receive")
    /\ pc' = [pc EXCEPT ![w] = "pubLock"]
    /\ work' = [work EXCEPT ![w].msg = message, ![w].read = result]
    /\ UNCHANGED <<fsVars, bqVars, boxVars, coming, got, crashed>>

PubReceive(w) ==
    \/ /\ posts < Len(Messages) /\ posts' = posts + 1
       /\ Receive(w, "message", Messages[posts'])
    \/ UNCHANGED posts /\ \E end \in {"closed", "error"} : Receive(w, end, <<>>)

\* Mutant: the end of the pipe does not end the session.
PubLockGoesOn(w) ==
    /\ At(w, "pubLock") /\ mutex[Slot(w)] = None
    /\ \/ work[w].read = "message" /\ Lock(w) /\ Jump(w, "append") /\ UNCHANGED <<fsVars, table, asleep>>
       \/ work[w].read = "closed" /\ Jump(w, "receive") /\ UNCHANGED <<fsVars, boxVars>>
       \/ work[w].read = "error" /\ GiveUp(w)

PubLock(w) ==
    /\ At(w, "pubLock") /\ mutex[Slot(w)] = None
    /\ \/ work[w].read = "message" /\ Lock(w) /\ Jump(w, "append") /\ UNCHANGED <<fsVars, table, asleep>>
       \/ work[w].read = "closed" /\ Jump(w, "release") /\ UNCHANGED <<fsVars, boxVars>>
       \/ work[w].read = "error" /\ GiveUp(w)

\* Mutant: the file is not opened to append.
PubOpenRewinds(w) ==
    /\ At(w, "append")
    /\ TfsOpen(Box(w), "CREAT")
    /\ LET d == OpenResult(Box(w), "CREAT")
       IN IF d = None THEN Unlock(w) /\ Done(w)
          ELSE Goto(w, "write", [work[w] EXCEPT !.fd = d]) /\ UNCHANGED mutex
    /\ UNCHANGED <<table, asleep>>

PubOpen(w) ==
    /\ At(w, "append")
    /\ TfsOpen(Box(w), "APPEND")
    /\ LET d == OpenResult(Box(w), "APPEND")
       IN IF d = None THEN Unlock(w) /\ Done(w)
          ELSE Goto(w, "write", [work[w] EXCEPT !.fd = d]) /\ UNCHANGED mutex
    /\ UNCHANGED <<table, asleep>>

\* strlen(message) + 1 characters.  On failure the handle stays open.
PubWrite(w) ==
    /\ At(w, "write")
    /\ LET cells == Append(work[w].msg, Nul)
           r == WriteResult(work[w].fd, cells)
       IN /\ TfsWrite(work[w].fd, cells)
          /\ IF r = -1 THEN Unlock(w) /\ Done(w)
             ELSE Goto(w, "size", [work[w] EXCEPT !.tmp = r]) /\ UNCHANGED mutex
    /\ UNCHANGED <<table, asleep>>

\* Mutant: the size is set to what was written last.
GrownBy(old, r) == r

Grown(old, r) == old + r

\* box_struct_array[get_box(name)]: index -1 when the box is gone.
PubSize(w) ==
    /\ At(w, "size")
    /\ LET i == GetBox(Box(w))
       IN /\ crashed' = (i = None)
          /\ table' = IF i = None THEN table
                      ELSE [table EXCEPT ![i].size = Grown(@, work[w].tmp)]
    /\ pc' = [pc EXCEPT ![w] = "pubClose"]
    /\ UNCHANGED <<fsVars, bqVars, mutex, asleep, work, envVars, got>>

PubClose(w) ==
    /\ At(w, "pubClose")
    /\ TfsClose(work[w].fd)
    /\ Unlock(w)
    /\ Goto(w, "announce", [work[w] EXCEPT !.fd = None, !.tmp = None, !.msg = <<>>, !.read = "none"])
    /\ UNCHANGED <<table, asleep>>

PubAnnounce(w) ==
    /\ At(w, "announce")
    /\ Broadcast(Slot(w))
    /\ Jump(w, "receive")
    /\ UNCHANGED <<fsVars, table, mutex>>

\* The end of a session that the publisher closed.
PubRelease(w) ==
    /\ At(w, "release")
    /\ Update(Slot(w), [table[Slot(w)] EXCEPT !.pubs = 0])
    /\ Done(w)
    /\ UNCHANGED <<fsVars, mutex, asleep>>

-----------------------------------------------------------------------------
(* register_subscriber and do_subscriber_work *)

\* n_subscriber++ is a read and a write.
SubRead(w) ==
    /\ At(w, "read")
    /\ Goto(w, "enter", [work[w] EXCEPT !.tmp = table[Slot(w)].nsubs])
    /\ UNCHANGED <<fsVars, boxVars>>

SubEnter(w) ==
    /\ At(w, "enter")
    /\ Update(Slot(w), [table[Slot(w)] EXCEPT !.nsubs = (work[w].tmp + 1) % Word,
                                               !.subs[w] = "index"])
    /\ Jump(w, "subPipe")
    /\ UNCHANGED <<fsVars, mutex, asleep>>

SubPipe(w) ==
    /\ At(w, "subPipe")
    /\ \/ /\ Update(Slot(w), [table[Slot(w)] EXCEPT !.subs[w] = "open"])
          /\ Goto(w, "open", [work[w] EXCEPT !.pipe = "open", !.tmp = None])
          /\ UNCHANGED <<fsVars, mutex, asleep>>
       \/ GiveUp(w)

\* The handle is never closed.  A failure leaves the subscriber's entry.
SubOpen(w) ==
    /\ At(w, "open")
    /\ TfsOpen(Box(w), "READ")
    /\ LET d == OpenResult(Box(w), "READ")
       IN IF d = None
            THEN /\ Done(w)
                 /\ Update(Slot(w), [table[Slot(w)] EXCEPT !.subs[w] =
                                       IF @ = "open" THEN "left" ELSE @])
            ELSE /\ Goto(w, "subLock", [work[w] EXCEPT !.fd = d])
                 /\ UNCHANGED table
    /\ UNCHANGED <<mutex, asleep>>

SubLock(w) ==
    /\ At(w, "subLock")
    /\ Lock(w)
    /\ Jump(w, "subRead")
    /\ UNCHANGED <<fsVars, table, asleep>>

SubTake(w) ==
    /\ At(w, "subRead")
    /\ IF ReadDies(work[w].fd)
         THEN crashed' = TRUE /\ UNCHANGED <<fsVars, pc, work>>
         ELSE /\ TfsRead(work[w].fd)
              /\ work' = [work EXCEPT ![w].msg = ReadResult(work[w].fd)]
              /\ pc' = [pc EXCEPT ![w] = IF ReadResult(work[w].fd) = <<>> THEN "subFree" ELSE "deliver"]
              /\ UNCHANGED crashed
    /\ UNCHANGED <<boxVars, bqVars, envVars, got>>

\* The mutex does not keep remove_box from freeing the box after this test.
SubFree(w) ==
    /\ At(w, "subFree")
    /\ IF table[Slot(w)].free
         THEN Unlock(w) /\ Jump(w, "leave")
         ELSE Jump(w, "sleep") /\ UNCHANGED mutex
    /\ UNCHANGED <<fsVars, table, asleep>>

SubSleep(w) ==
    /\ At(w, "sleep")
    /\ asleep' = asleep \cup {w}
    /\ Unlock(w)
    /\ Jump(w, "woken")
    /\ UNCHANGED <<fsVars, table>>

SubWake(w) ==
    /\ At(w, "woken") /\ w \notin asleep
    /\ Lock(w)
    /\ Jump(w, "subRead")
    /\ UNCHANGED <<fsVars, table, asleep>>

\* write() to the pipe: the subscriber gets the message, unless its end or
\* this end of the pipe is closed.  A descriptor that was closed may stand for
\* a pipe opened since, which then gets the message.
SubDeliver(w) ==
    /\ At(w, "deliver")
    /\ \/ /\ work[w].pipe = "open"
          /\ got' = [got EXCEPT ![w] = Append(@, work[w].msg)]
          /\ pc' = [pc EXCEPT ![w] = "subLock"]
       \/ /\ work[w].pipe = "dead"
          /\ pc' = [pc EXCEPT ![w] = "subLock"]
          /\ UNCHANGED got
       \/ /\ pc' = [pc EXCEPT ![w] = "leave"]
          /\ UNCHANGED got
    /\ Unlock(w)
    /\ work' = [work EXCEPT ![w].msg = <<>>]
    /\ UNCHANGED <<fsVars, bqVars, table, asleep, envVars, crashed>>

\* n_subscriber-- is a read and a write too.
SubLeave(w) ==
    /\ At(w, "leave")
    /\ Update(Slot(w), [table[Slot(w)] EXCEPT !.subs[w] = "none"])
    /\ Goto(w, "uncount", [work[w] EXCEPT !.tmp = table[Slot(w)].nsubs])
    /\ UNCHANGED <<fsVars, mutex, asleep>>

SubUncount(w) ==
    /\ At(w, "uncount")
    /\ Update(Slot(w), [table[Slot(w)] EXCEPT !.nsubs = (work[w].tmp - 1) % Word])
    /\ Done(w)
    /\ UNCHANGED <<fsVars, mutex, asleep>>

\* pthread_cond_wait may return without a broadcast.
SpuriousWakeup(w) ==
    /\ w \in asleep /\ ~crashed
    /\ asleep' = asleep \ {w}
    /\ UNCHANGED <<fsVars, bqVars, table, mutex, pc, work, envVars, got, crashed>>

-----------------------------------------------------------------------------
CreateBox(w) == CreateSlot(w) \/ CreateFile(w) \/ CreateClose(w) \/ CreateName(w) \/ CreateReset(w)
RemoveBox(w) == \/ RemoveBusy(w) \/ RemoveFile(w) \/ RemoveClear(w)
                \/ RemoveHangup(w) \/ RemoveHangupFails(w) \/ RemoveWake(w)
ListBox(w) == ListCount(w) \/ ListNext(w) \/ ListLast(w) \/ ListCopy(w) \/ ListSend(w)
PubStart(w) == PubCheck(w) \/ PubCount(w) \/ PubPipe(w)
PubPost(w) == \/ PubLock(w) \/ PubOpen(w) \/ PubWrite(w) \/ PubSize(w) \/ PubClose(w)
              \/ PubAnnounce(w) \/ PubRelease(w)
SubStart(w) == SubRead(w) \/ SubEnter(w) \/ SubPipe(w) \/ SubOpen(w)
SubLoop(w) == \/ SubLock(w) \/ SubTake(w) \/ SubFree(w) \/ SubSleep(w) \/ SubWake(w)
              \/ SubDeliver(w) \/ SubLeave(w) \/ SubUncount(w)

\* What w does without waiting for a client to send something.
Step(w) == \/ Dequeue(w) \/ Decode(w) \/ LookupBox(w) \/ CreateBox(w) \/ RemoveBox(w)
           \/ ListBox(w) \/ Reply(w) \/ Deny(w) \/ PubStart(w) \/ PubPost(w) \/ SubStart(w) \/ SubLoop(w)

\* No request comes and no worker has one, or the process is dead.
Over == /\ \/ crashed
           \/ /\ coming = <<>> /\ queue = <<>> /\ offered[Main] = None
              /\ \A w \in Workers : taken[w] = None /\ (pc[w] = "idle" \/ w \in asleep)
        /\ UNCHANGED vars

Next == \/ ReadRequest \/ EnqueueRequest
        \/ \E w \in Workers : Step(w) \/ PubReceive(w) \/ SpuriousWakeup(w)
        \/ Over

Spec == Init /\ [][Next]_vars

\* A worker that has a request goes on while it can, and a mutex is not taken
\* past a waiting thread for ever.  The main thread need not get a request into
\* the queue, nor a worker one out of it (PCQueueLostWakeup), and publishers
\* need not send anything.
Fairness == \A w \in Workers : /\ WF_vars(Step(w) /\ queue' = queue)
                               /\ SF_vars(PubLock(w) \/ SubLock(w) \/ SubWake(w))
LiveSpec == Spec /\ Fairness

-----------------------------------------------------------------------------
(* Properties *)

Fd(w) == work[w].fd
Inum(w) == oft[Fd(w)].inum
Publishing(w) == pc[w] \in {"pubPipe", "receive", "pubLock", "append", "write",
                            "size", "pubClose", "announce", "release"}
Subscribed(w) == pc[w] \in {"subLock", "subRead", "subFree", "sleep", "woken", "deliver"}

TypeOK ==
    /\ entry \in [Boxes -> Inodes \cup {None}]
    /\ takenI \subseteq Inodes /\ takenB \subseteq Blocks
    /\ node \in [Inodes -> [size : 0 .. BlockSize, block : Blocks \cup {None}]]
    /\ oft \in [Handles -> [inum : Inodes, off : 0 .. DataEnd] \cup {None}]
    /\ data \in [0 .. DataEnd - 1 -> Chars \cup {Nul}]
    /\ table \in [Slots -> [free : BOOLEAN, name : Boxes \cup {None}, size : Nat, pubs : Nat,
                            nsubs : 0 .. Word - 1,
                            subs : [Workers -> {"none", "index", "open", "left", "dead"}]]]
    /\ mutex \in [Slots -> Workers \cup {None}]
    /\ \A w \in asleep : pc[w] = "woken"
    /\ got \in [Workers -> Seq(Seq(Chars))]
    /\ crashed \in BOOLEAN

\* A publisher's session keeps its box (register_publisher, remove_box): until
\* it is over the box has no other publisher, is not removed and is known by
\* its name.
PublisherKeepsBox ==
    \A w \in Workers : Publishing(w) =>
        /\ table[Slot(w)].pubs = 1
        /\ GetBox(Box(w)) = Slot(w)
        /\ \A v \in Workers : Publishing(v) /\ Box(v) = Box(w) => v = w

\* A box that is not being created or removed has a file of its own, and the
\* size that it is listed with (utils.c:288) is the size of that file.
SizeIsFileSize ==
    \A i \in Slots :
        (/\ ~table[i].free
         /\ \A w \in Workers : Slot(w) = i => pc[w] \notin {"reset", "clear", "size"}) =>
        /\ \A j \in Slots : ~table[j].free /\ table[j].name = table[i].name => j = i
        /\ Exists(table[i].name)
        /\ table[i].size = node[entry[table[i].name]].size

\* inode_delete and tfs_write account for the blocks: those in use are the
\* blocks of files that exist, each of one file.
BlocksOwned ==
    LET used == {i \in takenI : node[i].size > 0}
    IN /\ takenB = {node[i].block : i \in used}
       /\ \A i, j \in used : node[i].block = node[j].block => i = j

\* What is in a box stays there, in its place, until the box is removed: a
\* message is appended behind the others (mbroker.c:103, open_box with
\* TFS_O_APPEND) and the blocks of other boxes are not written to.
MessagesStay ==
    [][<<node, data>>' # <<node, data>> =>
         \A n \in Boxes : Exists(n) /\ Exists(n)' =>
            IsPrefix(Content(entry[n]), Content(entry[n])')]_vars

\* What a subscriber has received is the beginning of what is in the box, in
\* the order in which it was published: "Reads all available data from box"
\* (mbroker.c:139).
Wire(msgs) == FoldLeft(LAMBDA s, m : s \o m \o <<Nul>>, <<>>, msgs)

ReceivedIsInBox ==
    \A w \in Workers : Subscribed(w) =>
        IsPrefix(Wire(got[w]), Append(Content(Inum(w)), Nul))

\* The box that is made first, as the log of its messages.  The last message
\* may have lost its separator, and its end, to the end of the block.
Split(cells) ==
    LET Eat(s, ch) == IF ch = Nul THEN [done |-> Append(s.done, s.rest), rest |-> <<>>]
                                   ELSE [s EXCEPT !.rest = Append(@, ch)]
        end == FoldLeft(Eat, [done |-> <<>>, rest |-> <<>>], cells)
    IN IF end.rest = <<>> THEN end.done ELSE Append(end.done, end.rest)

Log == INSTANCE PubSub WITH
         Subscribers <- Workers, Sendable <- Range(Messages), log <- Split(Content(First(Inodes)))

\* mbroker keeps the promise, whoever interferes with whom.
ImplementsPubSub == Log!PSSpec

\* No subscriber sleeps beside a message that it has not received, unless a
\* publisher is about to wake it (mbroker.c:128, "Broadcast write to all
\* Subscribers of that box").
Unread(w) == \E k \in oft[Fd(w)].off .. node[Inum(w)].size - 1 :
                 Cell(node[Inum(w)].block, k) # Nul

NoSleepOverUnread ==
    \A w \in asleep : Unread(w) =>
        \E p \in Workers : pc[p] \in {"size", "pubClose", "announce"} /\ Slot(p) = Slot(w)

\* A subscriber whose session and pipe stay open receives what is published in
\* its box.
Behind(w) == work[w].pipe = "open" /\ Len(Wire(got[w])) < node[Inum(w)].size

MessagesArrive ==
    \A w \in Workers : (Subscribed(w) /\ Behind(w)) ~> (~Subscribed(w) \/ ~Behind(w) \/ crashed)

\* utils.c:229: "Signal all subscribers that the box was removed, so they can
\* end session".  The session of a subscriber does not outlive its box.
RemovalEndsSessions ==
    \A w \in Workers : (Subscribed(w) /\ table[Slot(w)].free) ~> ~Subscribed(w)
=============================================================================
