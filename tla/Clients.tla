------------------------------ MODULE Clients ------------------------------
(***************************************************************************)
(* The broker together with its clients: manager/manager.c, publisher/     *)
(* pub.c and subscriber/sub.c.  Every client makes a pipe, writes a        *)
(* request to the register pipe and opens its own pipe, where a worker     *)
(* meets it.  The register pipe is a stream of cells; what is written to a *)
(* client's pipe is read back in one piece.                                *)
(*                                                                         *)
(* A scene says which clients and worker threads there are.  The clients   *)
(* of a round start when the earlier rounds have settled; those of one     *)
(* round run at the same time.                                             *)
(***************************************************************************)
EXTENDS Broker

CONSTANTS Processes,     \* the client processes
          Scenes,        \* the scenes: [cmd, threads, fragile, deaf, interrupted]
          PipeCapacity   \* how many messages a client's pipe holds

ASSUME ClientsAssumption ==
    /\ Requests = <<>>
    /\ PipeCapacity \in Nat \ {0}
    /\ \A s \in Scenes : /\ {DOMAIN s.cmd, s.fragile, s.deaf} \subseteq SUBSET Processes
                         /\ s.threads \subseteq Workers /\ s.interrupted \in BOOLEAN

VARIABLES scene,    \* the scene that is played
          reg,      \* the register pipe
          client,   \* client[c]: how far c is
          linked,   \* the clients whose pipe still has its name
          pipe,     \* pipe[c]: what is in c's pipe
          fds,      \* fds[k]: the client whose pipe mbroker's k-th descriptor is, or None
          pipe_fd,  \* pipe_fd[w]: the descriptor that w's session uses
          entryFd,  \* entryFd[i][w]: the one that subscribers[w] of slot i names
          writing,  \* writing[w]: the client whose full pipe w waits in write() for, or None
          stuck,    \* workers in open() on a pipe that has lost its name and client
          said      \* said[c]: how c's command ended and what it has printed

fdVars == <<fds, pipe_fd, entryFd>>
pipeVars == <<pipe, fdVars, writing, stuck>>
clientVars == <<reg, client, linked, pipeVars, said>>
brokerVars == <<fsVars, bqVars, boxVars, pc, work, envVars, got, crashed>>
allVars == <<brokerVars, scene, clientVars>>

\* Descriptors of pipes, as many as are ever needed.
Fds == 1 .. Cardinality(Processes)

ClientsInit ==
    /\ Init
    /\ scene \in Scenes
    /\ reg = <<>>
    /\ client = [c \in Processes |-> "start"]
    /\ linked = {} /\ stuck = {}
    /\ pipe = [c \in Processes |-> <<>>]
    /\ fds = [k \in Fds |-> None]
    /\ pipe_fd = [w \in Workers |-> None]
    /\ writing = [w \in Workers |-> None]
    /\ entryFd = [i \in Slots |-> [w \in Workers |-> None]]
    /\ said = [c \in Processes |-> [answer |-> "none", rows |-> <<>>]]

Cast == DOMAIN scene.cmd
Code(c) == scene.cmd[c].code
BoxOf(c) == scene.cmd[c].box
Round(c) == scene.cmd[c].round

Publisher(c) == Code(c) = REQUEST_REGISTER_PUBLISHER
Subscriber(c) == Code(c) = REQUEST_REGISTER_SUBSCRIBER
Manager(c) == ~Publisher(c) /\ ~Subscriber(c)

Served(w) == work[w].client

-----------------------------------------------------------------------------
(* Starting: mkfifo, then send_request to the register pipe *)

Request(c) == IF Code(c) = REQUEST_LIST_BOX
                THEN create_list_request(Code(c), c)
                ELSE create_register_request(Code(c), c, BoxOf(c))

Settled(c) == client[c] = "over" \/ (client[c] = "opened" /\ ~Manager(c))

\* Mutant: the pipe is left to the broker to make.
SendNoPipe(c) ==
    /\ client[c] = "start" /\ ~crashed
    /\ \A d \in Cast : Round(d) < Round(c) => Settled(d)
    /\ client' = [client EXCEPT ![c] = "sent"]
    /\ reg' = reg \o Request(c)
    /\ UNCHANGED <<brokerVars, scene, linked, pipeVars, said>>

Send(c) ==
    /\ client[c] = "start" /\ ~crashed
    /\ \A d \in Cast : Round(d) < Round(c) => Settled(d)
    /\ client' = [client EXCEPT ![c] = "sent"]
    /\ linked' = linked \cup {c}
    /\ reg' = reg \o Request(c)
    /\ UNCHANGED <<brokerVars, scene, pipeVars, said>>

\* The main thread reads as much as the longest request takes.
MainRead ==
    /\ reg # <<>>
    /\ LET n == Min({MaxRegisterRequest, Len(reg)})
       IN Arrive(SubSeq(reg, 1, n)) /\ reg' = SubSeq(reg, n + 1, Len(reg))
    /\ UNCHANGED <<coming, scene, client, linked, pipeVars, said>>

MainEnqueue == EnqueueRequest /\ UNCHANGED <<scene, clientVars>>

-----------------------------------------------------------------------------
(* Workers *)

Opening(w) == pc[w] \in {"reply", "deny", "listSend", "pubPipe", "subPipe"}

Write(c, buffer) == pipe' = [pipe EXCEPT ![c] = Append(@, buffer)]

ResponseCode(code) == IF code = REQUEST_CREATE_BOX THEN RESPONSE_CREATE_BOX ELSE RESPONSE_REMOVE_BOX

\* open() returns the lowest descriptor that is free.
Keep(w) == LET k == Min({j \in Fds : fds[j] = None})
           IN fds' = [fds EXCEPT ![k] = Served(w)] /\ pipe_fd' = [pipe_fd EXCEPT ![w] = k]

\* open() returns when the client has the other end open, or as soon as it has.
\* A worker that keeps the descriptor never closes it, whatever happens.
Meet(w) ==
    LET c == Served(w)
    IN /\ Opening(w) /\ w \notin stuck /\ client[c] \in {"sent", "opened"}
       /\ client' = [client EXCEPT ![c] = "opened"]
       /\ \/ /\ Reply(w) /\ Write(c, create_response_request(ResponseCode(work[w].code), work[w].tmp))
             /\ UNCHANGED fdVars
          \/ Deny(w) /\ UNCHANGED <<pipe, fdVars>>
          \/ ListSend(w) /\ pc'[w] = "listNext" /\ Write(c, work[w].msg) /\ UNCHANGED fdVars
          \/ PubPipe(w) /\ pc'[w] = "receive" /\ Keep(w) /\ UNCHANGED <<pipe, entryFd>>
          \/ /\ SubPipe(w) /\ pc'[w] = "open" /\ Keep(w)
             /\ entryFd' = [entryFd EXCEPT ![Slot(w)][w] = pipe_fd'[w]]
             /\ UNCHANGED pipe
       /\ UNCHANGED <<scene, reg, linked, writing, stuck, said>>

\* The pipe has no name any more.
Miss(w) ==
    /\ Opening(w) /\ w \notin stuck /\ Served(w) \notin linked
    /\ Reply(w) \/ Deny(w) \/ ListSend(w) \/ PubPipe(w) \/ SubPipe(w)
    /\ pc'[w] = "idle"
    /\ UNCHANGED <<scene, clientVars>>

\* read() waits for a message, or for the publisher to be gone.
WorkerRead(w) ==
    LET c == Served(w)
    IN /\ At(w, "receive")
       /\ \/ /\ pipe[c] # <<>>
             /\ Receive(w, "message", decode_message(Head(pipe[c])))
             /\ pipe' = [pipe EXCEPT ![c] = Tail(@)]
          \/ /\ pipe[c] = <<>> /\ client[c] = "over"
             /\ Receive(w, "closed", <<>>)
             /\ UNCHANGED pipe
       /\ UNCHANGED <<posts, scene, reg, client, linked, fdVars, writing, stuck, said>>

\* The pipe that w's write() goes to: it may have been closed, or be another
\* client's, by the time of the call, but not once the call waits.
Target(w) == IF writing[w] # None THEN writing[w] ELSE fds[pipe_fd[w]]

HasReader(d) == d # None /\ Subscriber(d) /\ client[d] = "opened"

\* write() waits while the pipe is full, with the box's mutex held.
WorkerWait(w) ==
    /\ At(w, "deliver") /\ writing[w] = None
    /\ HasReader(Target(w)) /\ Len(pipe[Target(w)]) = PipeCapacity
    /\ writing' = [writing EXCEPT ![w] = Target(w)]
    /\ UNCHANGED <<brokerVars, scene, reg, client, linked, pipe, fdVars, stuck, said>>

\* It fails when nobody reads the pipe.
WorkerWrite(w) ==
    /\ SubDeliver(w)
    /\ LET d == Target(w)
       IN IF HasReader(d)
            THEN /\ Len(pipe[d]) < PipeCapacity
                 /\ pc'[w] = "subLock"
                 /\ Write(d, create_message(MESSAGE_SUBSCRIBER, work[w].msg))
            ELSE pc'[w] = "leave" /\ UNCHANGED pipe
    /\ writing' = [writing EXCEPT ![w] = None]
    /\ UNCHANGED <<scene, reg, client, linked, fdVars, stuck, said>>

\* Mutant: remove_box closes no pipe.
WorkerHangupNone(w) == (RemoveHangup(w) \/ RemoveHangupFails(w)) /\ UNCHANGED <<scene, clientVars>>

WorkerHangup(w) ==
    LET i == Slot(w)
        closed == {entryFd[i][v] : v \in {u \in Entries(w, {"open", "left"}) : table'[i].subs[u] = "dead"}}
    IN /\ RemoveHangup(w) \/ RemoveHangupFails(w)
       /\ fds' = [k \in Fds |-> IF k \in closed THEN None ELSE fds[k]]
       /\ UNCHANGED <<scene, reg, client, linked, pipe, pipe_fd, entryFd, writing, stuck, said>>

\* pcq_dequeue takes a request; nothing says that it will (PCQueueLostWakeup).
Take(w) == Dequeue(w) /\ UNCHANGED <<scene, clientVars>>

Inside(w) ==
    /\ \/ Decode(w) \/ LookupBox(w) \/ CreateBox(w)
       \/ RemoveBusy(w) \/ RemoveFile(w) \/ RemoveClear(w) \/ RemoveWake(w)
       \/ ListCount(w) \/ ListNext(w) \/ ListLast(w) \/ ListCopy(w)
       \/ PubCheck(w) \/ PubCount(w) \/ PubPost(w)
       \/ SubRead(w) \/ SubEnter(w) \/ SubOpen(w)
       \/ SubLock(w) \/ SubTake(w) \/ SubFree(w) \/ SubSleep(w) \/ SubWake(w)
       \/ SubLeave(w) \/ SubUncount(w)
    /\ UNCHANGED <<scene, clientVars>>

Wakeup(w) == SpuriousWakeup(w) /\ UNCHANGED <<scene, clientVars>>

-----------------------------------------------------------------------------
(* Clients *)

\* unlink(pipe_name) and exit.
Ends(c) == client' = [client EXCEPT ![c] = "over"] /\ linked' = linked \ {c}

Says(c, answer, rows) == said' = [said EXCEPT ![c] = [answer |-> answer, rows |-> @.rows \o rows]]

\* mbroker has c's pipe open; a write() that waits keeps it so.
Held(c) == ~crashed /\ (c \in Range(fds) \/ c \in Range(writing))
AtEof(c) == pipe[c] = <<>> /\ ~Held(c)

\* get_response.
GetResponse(c) ==
    /\ Code(c) \in {REQUEST_CREATE_BOX, REQUEST_REMOVE_BOX}
    /\ client[c] = "opened" /\ pipe[c] # <<>>
    /\ Says(c, IF ErrorResponse(Head(pipe[c])) THEN "ERROR" ELSE "OK", <<>>)
    /\ pipe' = [pipe EXCEPT ![c] = Tail(@)]
    /\ Ends(c)
    /\ UNCHANGED <<brokerVars, scene, reg, fdVars, writing, stuck>>

\* get_list_response: a round of its loop.  Between two boxes nobody may have
\* the pipe open, and then the manager takes the listing for broken.
GetListResponse(c) ==
    /\ Code(c) = REQUEST_LIST_BOX /\ client[c] = "opened"
    /\ \/ /\ pipe[c] # <<>>
          /\ LET box == decode_list_response(Head(pipe[c]))
                 row == IF box.last /\ box.name = Nul THEN <<>> ELSE <<box>>
             IN IF box.last THEN Says(c, "OK", row) /\ Ends(c)
                            ELSE Says(c, "none", row) /\ UNCHANGED <<client, linked>>
          /\ pipe' = [pipe EXCEPT ![c] = Tail(@)]
       \/ AtEof(c) /\ Says(c, "broken", <<>>) /\ Ends(c) /\ UNCHANGED pipe
    /\ UNCHANGED <<brokerVars, scene, reg, fdVars, writing, stuck>>

\* A round of reading_loop; a deaf subscriber does not get to it.
ReadMessage(c) ==
    /\ Subscriber(c) /\ client[c] = "opened" /\ c \notin scene.deaf
    /\ \/ /\ pipe[c] # <<>>
          /\ Says(c, "none", <<decode_message(Head(pipe[c]))>>)
          /\ pipe' = [pipe EXCEPT ![c] = Tail(@)]
          /\ UNCHANGED <<client, linked>>
       \/ AtEof(c) /\ Ends(c) /\ UNCHANGED <<pipe, said>>
    /\ UNCHANGED <<brokerVars, scene, reg, fdVars, writing, stuck>>

\* SIGPIPE: the pipe has no reader, which is how a publisher learns that it was
\* denied.
sigpipe_handler(c) == ~Held(c) /\ Ends(c)

\* A round of writing_loop.
Publish(c) ==
    /\ Publisher(c) /\ client[c] = "opened" /\ posts < Len(Messages)
    /\ \/ /\ Held(c) /\ Len(pipe[c]) < PipeCapacity
          /\ posts' = posts + 1
          /\ Write(c, create_message(PUBLISHER_MESSAGE, Messages[posts']))
          /\ UNCHANGED <<client, linked>>
       \/ sigpipe_handler(c) /\ UNCHANGED <<posts, pipe>>
    /\ UNCHANGED <<fsVars, bqVars, boxVars, pc, work, coming, got, crashed>>
    /\ UNCHANGED <<scene, reg, fdVars, writing, stuck, said>>

\* The end of a publisher's input.
Quit(c) ==
    /\ Publisher(c) /\ client[c] = "opened"
    /\ Ends(c)
    /\ UNCHANGED <<brokerVars, scene, reg, pipeVars, said>>

\* SIGINT.  Only a subscriber catches it, and removes its pipe; a worker may be
\* in open() already.
Kill(c) ==
    /\ c \in scene.fragile /\ client[c] \in {"sent", "opened"}
    /\ client' = [client EXCEPT ![c] = "over"]
    /\ IF Subscriber(c)
         THEN /\ linked' = linked \ {c}
              /\ \E S \in SUBSET {w \in Workers : Opening(w) /\ Served(w) = c} : stuck' = stuck \cup S
         ELSE UNCHANGED <<linked, stuck>>
    /\ UNCHANGED <<brokerVars, scene, reg, pipe, fdVars, writing, said>>

\* The pipe lost its name before the client opened it.
OpenFails(c) ==
    /\ client[c] = "sent" /\ c \notin linked
    /\ client' = [client EXCEPT ![c] = "over"]
    /\ UNCHANGED <<brokerVars, scene, reg, linked, pipeVars, said>>

\* sig_handler of mbroker: the pipes that workers serve lose their names, and
\* the process ends.
Interrupt ==
    /\ scene.interrupted /\ ~crashed
    /\ linked' = linked \ {Served(w) : w \in Workers}
    /\ crashed' = TRUE
    /\ UNCHANGED <<fsVars, bqVars, boxVars, pc, work, envVars, got>>
    /\ UNCHANGED <<scene, reg, client, pipeVars, said>>

-----------------------------------------------------------------------------
WorkerStep(w) == \/ Inside(w) \/ Meet(w) \/ Miss(w) \/ WorkerRead(w) \/ WorkerWait(w) \/ WorkerWrite(w) \/ WorkerHangup(w)
ClientReads(c) == GetResponse(c) \/ GetListResponse(c) \/ ReadMessage(c)

ClientsNext ==
    \/ MainRead \/ MainEnqueue \/ Interrupt
    \/ \E w \in scene.threads : Take(w) \/ WorkerStep(w) \/ Wakeup(w)
    \/ \E c \in Cast : Send(c) \/ ClientReads(c) \/ Publish(c) \/ Quit(c) \/ Kill(c) \/ OpenFails(c)

\* A worker that has a request goes on while it can, and a mutex is not taken
\* past a waiting thread for ever; clients read what there is to read.  Nothing
\* is assumed of the request queue: the main thread need not get a request into
\* it, nor a worker one out of it.  Clients need not start, publish or end, and
\* nothing need be interrupted.
ClientsSpec ==
    /\ ClientsInit /\ [][ClientsNext]_allVars
    /\ \A w \in Workers : /\ WF_allVars(w \in scene.threads /\ WorkerStep(w))
                          /\ SF_allVars(w \in scene.threads /\ Inside(w) /\ (PubLock(w) \/ SubLock(w) \/ SubWake(w)))
    /\ WF_allVars(\E c \in Cast : ClientReads(c))

-----------------------------------------------------------------------------
(* Properties *)

ClientsTypeOK ==
    /\ scene \in Scenes
    /\ client \in [Processes -> {"start", "sent", "opened", "over"}]
    /\ linked \subseteq Cast /\ Range(fds) \subseteq Cast \cup {None} /\ stuck \subseteq Workers
    /\ \A w \in Workers : writing[w] # None => pc[w] = "deliver" /\ writing[w] \in Cast
    /\ \A w \in Workers : work[w].pipe = "open" => fds[pipe_fd[w]] = Served(w)
    /\ \A c \in Cast : /\ Manager(c) \/ Len(pipe[c]) <= PipeCapacity
                       /\ client[c] = "opened" => c \in linked \/ crashed
    /\ \A w \in Workers : Served(w) \in Cast \cup {None}

\* Who else is in the scene.
Removed(n) == \E c \in Cast : Code(c) = REQUEST_REMOVE_BOX /\ BoxOf(c) = n
Alone(c) == \A d \in Cast \ {c} : Round(d) = Round(c) => Code(d) # REQUEST_CREATE_BOX

\* Somebody has asked for a listing.
Listed == \E c \in Cast : Code(c) = REQUEST_LIST_BOX /\ client[c] # "start"

\* "OK" (manager.c:71) means that there is a box, with its file, as long as
\* nobody removes it and no other creation (utils.c:137) overlaps with this one.
OkMeansBox ==
    \A c \in Cast :
        (Code(c) = REQUEST_CREATE_BOX /\ said[c].answer = "OK" /\ Alone(c) /\ ~Removed(BoxOf(c))) =>
            GetBox(BoxOf(c)) # None /\ Exists(BoxOf(c))

\* From the publisher's terminal to the subscriber's (sub.c:26, "Repeatedly
\* reads data from pipe, and prints it"): what is printed is the beginning of
\* what was published, in order and complete, as long as no box is removed.
\* (Once remove_box has closed a pipe that a session still writes to, the
\* message may go to the pipe that gets the descriptor next.)
PrintedWasPublished ==
    \A c \in Cast : (Subscriber(c) /\ \A d \in Cast : ~Removed(BoxOf(d))) =>
        IsPrefix(said[c].rows, SubSeq(Messages, 1, posts))

\* A listing that the manager takes for complete (manager.c:97-127) has each
\* box that was created before, and that nobody removes, once.
ListingComplete ==
    \A c, d \in Cast :
        (/\ Code(c) = REQUEST_LIST_BOX /\ said[c].answer = "OK"
         /\ Code(d) = REQUEST_CREATE_BOX /\ said[d].answer = "OK" /\ Round(d) < Round(c)
         /\ Alone(d) /\ ~Removed(BoxOf(d))) =>
            Cardinality({k \in DOMAIN said[c].rows : said[c].rows[k].name = BoxOf(d)}) = 1

\* mbroker.c:400, "Read Request from the register pipe": what is enqueued is a
\* request, as it was sent, until somebody sends a shorter one, for a listing.
RequestsWhole ==
    \A b \in Range(queue) \cup {offered[Main]} \cup Range(taken) :
        b = None \/ Listed \/ \E c \in Cast : b = Request(c)


\* c's request has left the queue and a worker has it.
Taken(c) == \E w \in Workers : taken[w] = Request(c) \/ Served(w) = c

\* The worker that has taken a request meets its client, and a manager that has
\* been met gets its response or the end of it, in the middle of whatever the
\* others do, and though a subscriber may not read and keep a mutex locked.
RequestsAnswered ==
    <>[](\/ crashed
         \/ \A c \in Cast : /\ Taken(c) => client[c] # "sent"
                            /\ Manager(c) => client[c] # "opened")

\* manager.c:146: "Removing a box with connected subscribers automatically
\* closes said subscribers sessions": remove_box closes their pipes, unless the
\* worker has seen that the box is gone, and left its pipe open, before.
RemovalEndsSubscribers ==
    <>[] ~ \E c, d \in Cast :
             /\ Subscriber(c) /\ c \notin scene.deaf
             /\ client[c] = "opened" /\ \E w \in Workers : Served(w) = c
             /\ Code(d) = REQUEST_REMOVE_BOX /\ said[d].answer = "OK"
             /\ BoxOf(d) = BoxOf(c) /\ Round(c) < Round(d)

\* When a publisher that was accepted is gone, its worker ends the session
\* (mbroker.c:65): the box can have another publisher, or be removed.  A
\* subscriber that does not read can keep it waiting for the box's mutex.
PublishersFreed ==
    <>[](\/ crashed \/ scene.deaf # {}
         \/ \A w \in Workers : Publishing(w) /\ pc[w] # "pubPipe" => client[Served(w)] # "over")
=============================================================================
