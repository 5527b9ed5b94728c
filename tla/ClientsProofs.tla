--------------------------- MODULE ClientsProofs ---------------------------
(***************************************************************************)
(* What mbroker's main thread takes from the register pipe (Clients) until *)
(* a client asks for a listing: the requests as they were sent, for any    *)
(* scene, with any number of clients that write to the pipe at any time.   *)
(***************************************************************************)
EXTENDS Clients, SequenceTheorems, TLAPS

\* Buffers of the one length that the main thread reads, and what is in them.
Sent == {Request(c) : c \in {d \in Cast : Code(d) # REQUEST_LIST_BOX}}
Cells == UNION {{b[k] : k \in 1 .. MaxRegisterRequest} : b \in Sent}

\* The request at p of the stream r ends at the next one, or at the end.
RequestAt(r, P, p) ==
    p # Len(r) => /\ p + MaxRegisterRequest \in P
                  /\ SubSeq(r, p + 1, p + MaxRegisterRequest) \in Sent

\* P has the places of r at which requests begin, and its end.
Cuts(r, P) ==
    /\ P \in SUBSET (0 .. Len(r)) /\ 0 \in P /\ Len(r) \in P
    /\ \A p \in P : RequestAt(r, P, p)

\* The register pipe has one request behind the other.
PipeWhole == reg \in Seq(Cells) /\ \E P : Cuts(reg, P)

IsSent(b) == b = None \/ b \in Sent

\* The pipe, the queue and what goes in and out of it are whole requests.
StreamWhole ==
    /\ PipeWhole
    /\ queue \in Seq(Sent)
    /\ DOMAIN offered = {Main} /\ IsSent(offered[Main])
    /\ DOMAIN taken = Workers /\ \A w \in Workers : IsSent(taken[w])

-----------------------------------------------------------------------------
(* The stream *)

\* read() asks for something.
LEMMA Lengths == MaxRegisterRequest \in Nat \ {0}
  BY BrokerAssumption DEF MaxRegisterRequest

\* All requests but listings have that length.
LEMMA SentLength ==
  ASSUME NEW b \in Sent
  PROVE  b \in Seq(Cells) /\ Len(b) = MaxRegisterRequest
<1>1. PICK c \in Cast : b = Request(c) /\ Code(c) # REQUEST_LIST_BOX
  BY DEF Sent
<1>2. b = create_register_request(Code(c), c, BoxOf(c))
  BY <1>1 DEF Request
<1>3. b = [i \in 1 .. MaxRegisterRequest |-> b[i]]
  BY <1>2 DEF create_register_request, Zeroed
<1>4. \A i \in 1 .. MaxRegisterRequest : b[i] \in Cells
  BY DEF Cells
<1> QED
  BY <1>3, <1>4, Lengths

\* A client's request goes to the end of the stream.
LEMMA Extended ==
  ASSUME NEW r \in Seq(Cells), NEW P, Cuts(r, P), NEW b \in Sent
  PROVE  r \o b \in Seq(Cells) /\ Cuts(r \o b, P \cup {Len(r) + MaxRegisterRequest})
<1> DEFINE L == MaxRegisterRequest
           s == r \o b
           Q == P \cup {Len(r) + L}
<1>1. /\ s \in Seq(Cells) /\ Len(s) = Len(r) + L /\ L \in Nat \ {0} /\ Len(r) \in Nat
      /\ b \in Seq(Cells) /\ Len(b) = L
  BY SentLength, Lengths
<1>2. P \in SUBSET (0 .. Len(r)) /\ 0 \in P /\ Len(r) \in P
  BY DEF Cuts
<1>3. ASSUME NEW p \in Q PROVE RequestAt(s, Q, p)
  <2>1. CASE p \in P /\ p # Len(r)
    <3>1. p + L \in P /\ SubSeq(r, p + 1, p + L) \in Sent
      BY <2>1 DEF Cuts, RequestAt
    <3>2. p \in Nat /\ p + L <= Len(r)
      BY <1>1, <1>2, <2>1, <3>1
    <3>3. SubSeq(s, p + 1, p + L) = SubSeq(r, p + 1, p + L)
      BY <1>1, <3>2, SubSeqOfConcat1
    <3> QED
      BY <3>1, <3>3 DEF RequestAt
  <2>2. CASE p = Len(r)
    <3>1. SubSeq(s, p + 1, p + L) = b
      BY <1>1, <2>2
    <3> QED
      BY <2>2, <3>1 DEF RequestAt
  <2>3. CASE p = Len(r) + L
    BY <1>1, <2>3 DEF RequestAt
  <2> QED
    BY <2>1, <2>2, <2>3
<1>4. Q \in SUBSET (0 .. Len(s)) /\ 0 \in Q /\ Len(s) \in Q
  <2>1. ASSUME NEW p \in P PROVE p \in 0 .. Len(s)
    <3>1. p \in 0 .. Len(r)
      BY <1>2
    <3> QED
      BY <1>1, <3>1
  <2>2. Len(r) + L \in 0 .. Len(s)
    BY <1>1
  <2> QED
    BY <1>1, <1>2, <2>1, <2>2
<1> QED
  BY <1>1, <1>3, <1>4 DEF Cuts

\* What read() takes from it is the first of its requests, and the rest of it
\* is a stream as before.
LEMMA Shortened ==
  ASSUME NEW r \in Seq(Cells), NEW P, Cuts(r, P), r # <<>>
  PROVE  /\ Min({MaxRegisterRequest, Len(r)}) = MaxRegisterRequest
         /\ SubSeq(r, 1, MaxRegisterRequest) \in Sent
         /\ SubSeq(r, MaxRegisterRequest + 1, Len(r)) \in Seq(Cells)
         /\ Cuts(SubSeq(r, MaxRegisterRequest + 1, Len(r)), {p \in Nat : p + MaxRegisterRequest \in P})
<1> DEFINE L == MaxRegisterRequest
           s == SubSeq(r, L + 1, Len(r))
           Q == {p \in Nat : p + L \in P}
<1>1. L \in Nat \ {0} /\ Len(r) \in Nat \ {0}
  BY Lengths, EmptySeq
<1>2. P \in SUBSET (0 .. Len(r)) /\ 0 \in P /\ Len(r) \in P
  BY DEF Cuts
<1>3. L \in P /\ SubSeq(r, 1, L) \in Sent
  BY <1>1, <1>2 DEF Cuts, RequestAt
<1>4. L <= Len(r)
  BY <1>2, <1>3
<1>5. Min({L, Len(r)}) = L
  BY <1>1, <1>4 DEF Min
<1>6. s \in Seq(Cells) /\ Len(s) = Len(r) - L
  BY <1>1, <1>4
<1>7. ASSUME NEW p \in Q PROVE RequestAt(s, Q, p)
  <2>1. p \in Nat /\ p + L \in P /\ p + L <= Len(r)
    BY <1>1, <1>2
  <2>2. CASE p # Len(s)
    <3>1. p + L # Len(r)
      BY <1>1, <1>6, <2>1, <2>2
    <3>2. (p + L) + L \in P /\ SubSeq(r, (p + L) + 1, (p + L) + L) \in Sent
      BY <2>1, <3>1 DEF Cuts, RequestAt
    <3>3. p + L \in Nat /\ (p + L) + L <= Len(r)
      BY <1>1, <1>2, <2>1, <3>2
    <3>4. SubSeq(s, p + 1, p + L) = SubSeq(r, (p + L) + 1, (p + L) + L)
      BY <1>1, <1>4, <2>1, <3>3
    <3> QED
      BY <3>2, <3>3, <3>4 DEF RequestAt
  <2>3. CASE p = Len(s)
    BY <2>3 DEF RequestAt
  <2> QED
    BY <2>2, <2>3
<1>8. Q \in SUBSET (0 .. Len(s)) /\ 0 \in Q /\ Len(s) \in Q
  BY <1>1, <1>2, <1>3, <1>4, <1>6
<1> QED
  BY <1>3, <1>5, <1>6, <1>7, <1>8 DEF Cuts

-----------------------------------------------------------------------------
(* The workers *)

\* What a worker that is to look its box up has been told to do.
Told(r) == "code" \in DOMAIN r /\ r.code \in RegisterRequests

WorkersSound ==
    /\ pc = [w \in Workers |-> pc[w]] /\ work = [w \in Workers |-> work[w]]
    /\ \A w \in Workers : pc[w] = "lookup" => Told(work[w])

\* A step of w, after it has decoded its request.
Aside(w) ==
    /\ UNCHANGED bqVars
    /\ pc' = [v \in Workers |-> pc'[v]] /\ work' = [v \in Workers |-> work'[v]]
    /\ \A v \in Workers \ {w} : pc'[v] = pc[v] /\ (Told(work[v]) => Told(work'[v]))
    /\ pc'[w] = "lookup" => pc[w] = "lookup" /\ work'[w] = work[w]

\* It leaves the others as they are.
LEMMA AsideSound == ASSUME WorkersSound, NEW w \in Workers, Aside(w) PROVE WorkersSound'
<1>1. \A v \in Workers : pc'[v] = "lookup" => Told(work'[v])
  BY DEF WorkersSound, Aside
<1> QED
  BY <1>1 DEF WorkersSound, Aside

\* Such a step: to another label with other locals.
LEMMA MovedAside ==
  ASSUME WorkersSound, NEW w \in Workers, NEW l, l # "lookup", NEW rec,
         pc' = [pc EXCEPT ![w] = l], work' = [work EXCEPT ![w] = rec] \/ work' = work, UNCHANGED bqVars
  PROVE  Aside(w)
<1>1. pc' = [v \in Workers |-> IF v = w THEN l ELSE pc[v]]
  BY DEF WorkersSound
<1>2. work' = [v \in Workers |-> work'[v]] /\ \A v \in Workers \ {w} : work'[v] = work[v]
  BY DEF WorkersSound
<1> QED
  BY <1>1, <1>2 DEF Aside

\* Goto is such a step.
LEMMA GoAside ==
  ASSUME WorkersSound, NEW w \in Workers, NEW l, l # "lookup", NEW rec, Goto(w, l, rec)
  PROVE  Aside(w)
  BY MovedAside DEF Goto

\* So is Jump,
LEMMA JumpAside ==
  ASSUME WorkersSound, NEW w \in Workers, NEW l, l # "lookup", Jump(w, l)
  PROVE  Aside(w)
  BY GoAside DEF Jump

\* the end of a request,
LEMMA DoneAside ==
  ASSUME WorkersSound, NEW w \in Workers, Done(w) \/ GiveUp(w)
  PROVE  Aside(w)
  BY MovedAside DEF Done, GiveUp

\* an answer,
LEMMA AnswerAside == ASSUME WorkersSound, NEW w \in Workers, NEW r, Answer(w, r) PROVE Aside(w)
  BY GoAside DEF Answer

\* and no step at all.
LEMMA StayAside == ASSUME WorkersSound, NEW w \in Workers, UNCHANGED <<bqVars, pc, work>> PROVE Aside(w)
  BY DEF WorkersSound, Aside

\* The handlers of a manager's requests, and the replies.
LEMMA ManagersAside ==
  ASSUME WorkersSound, NEW w \in Workers,
         LookupBox(w) \/ CreateBox(w) \/ ListBox(w) \/ Reply(w) \/ Deny(w)
  PROVE  Aside(w)
<1>1. CASE LookupBox(w)
  <2>1. pc[w] = "lookup" /\ work[w].code \in RegisterRequests
    BY <1>1 DEF LookupBox, At, WorkersSound, Told
  <2>2. \/ \E l \in {"slot", "deny"} : Jump(w, l)
        \/ \E l \in {"busy", "check", "read"} : \E rec : Goto(w, l, rec)
        \/ Answer(w, -1)
    BY <1>1, <2>1, Zenon DEF LookupBox, RegisterRequests
  <2> QED
    BY <2>2, GoAside, JumpAside, AnswerAside
<1>2. CASE CreateBox(w)
  BY <1>2, GoAside, JumpAside, AnswerAside
     DEF CreateBox, CreateSlot, CreateFile, CreateClose, CreateName, CreateReset
<1>3. CASE ListBox(w)
  BY <1>3, GoAside, DoneAside DEF ListBox, ListCount, ListNext, ListLast, ListCopy, ListSend
<1>4. CASE Reply(w) \/ Deny(w)
  BY <1>4, DoneAside DEF Reply, Deny
<1> QED
  BY <1>1, <1>2, <1>3, <1>4

\* remove_box, which marks other workers' pipes as closed.
LEMMA RemovalsAside == ASSUME WorkersSound, NEW w \in Workers, RemoveBox(w) PROVE Aside(w)
<1>1. CASE RemoveBusy(w) \/ RemoveFile(w) \/ RemoveClear(w) \/ RemoveWake(w)
  BY <1>1, JumpAside, AnswerAside DEF RemoveBusy, RemoveFile, RemoveClear, RemoveWake
<1>2. ASSUME NEW S, NEW next, NEW r, next # "lookup", Hangup(w, S, next, r) PROVE Aside(w)
  <2>1. pc' = [pc EXCEPT ![w] = next] /\ work' = [Cut(w, S) EXCEPT ![w].tmp = r] /\ UNCHANGED bqVars
    BY <1>2 DEF Hangup
  <2>2. work' = [v \in Workers |-> work'[v]] /\ \A v \in Workers \ {w} : work'[v] = Cut(w, S)[v]
    BY <2>1 DEF Cut
  <2>3. \A v \in Workers \ {w} : Told(work[v]) => Told(Cut(w, S)[v])
    <3>1. \A v \in Workers : Cut(w, S)[v] \in {work[v], [work[v] EXCEPT !.pipe = "dead"]}
      BY DEF Cut
    <3>2. ASSUME NEW f, Told(f) PROVE Told([f EXCEPT !.pipe = "dead"])
      BY <3>2 DEF Told
    <3> QED
      BY <3>1, <3>2
  <2>4. pc' = [v \in Workers |-> IF v = w THEN next ELSE pc[v]]
    BY <2>1 DEF WorkersSound
  <2> QED
    BY <1>2, <2>1, <2>2, <2>3, <2>4 DEF Aside
<1>3. CASE RemoveHangup(w) \/ RemoveHangupFails(w)
  BY <1>2, <1>3 DEF RemoveHangup, RemoveHangupFails
<1> QED
  BY <1>1, <1>3 DEF RemoveBox

\* Publishers' sessions.
LEMMA PublishersAside ==
  ASSUME WorkersSound, NEW w \in Workers, PubStart(w) \/ PubPost(w) \/ (\E r, m : Receive(w, r, m))
  PROVE  Aside(w)
<1>1. CASE PubStart(w)
  BY <1>1, JumpAside, DoneAside DEF PubStart, PubCheck, PubCount, PubPipe
<1>2. CASE PubPost(w)
  <2>1. CASE PubSize(w)
    BY <2>1, MovedAside DEF PubSize
  <2>2. CASE ~PubSize(w)
    BY <1>2, <2>2, GoAside, JumpAside, DoneAside
       DEF PubPost, PubLock, PubOpen, PubWrite, PubClose, PubAnnounce, PubRelease
  <2> QED
    BY <2>1, <2>2
<1>3. ASSUME NEW r, NEW m, Receive(w, r, m) PROVE Aside(w)
  <2>1. pc' = [v \in Workers |-> IF v = w THEN "pubLock" ELSE pc[v]] /\ UNCHANGED bqVars
    BY <1>3 DEF Receive, WorkersSound
  <2>2. work' = [v \in Workers |-> work'[v]]
    BY <1>3 DEF Receive, WorkersSound
  <2>3. \A v \in Workers \ {w} : work'[v] = work[v]
    BY <1>3 DEF Receive, WorkersSound
  <2> QED
    BY <2>1, <2>2, <2>3 DEF Aside
<1> QED
  BY <1>1, <1>2, <1>3

\* Subscribers' sessions.
LEMMA SubscribersAside == ASSUME WorkersSound, NEW w \in Workers, SubStart(w) \/ SubLoop(w) PROVE Aside(w)
<1>1. CASE SubStart(w)
  BY <1>1, GoAside, JumpAside, DoneAside DEF SubStart, SubRead, SubEnter, SubPipe, SubOpen
<1>2. CASE SubTake(w)
  <2>1. \/ UNCHANGED <<bqVars, pc, work>>
        \/ /\ UNCHANGED bqVars
           /\ \E l \in {"subFree", "deliver"} : pc' = [pc EXCEPT ![w] = l]
           /\ \E rec : work' = [work EXCEPT ![w] = rec]
    BY <1>2 DEF SubTake
  <2> QED
    BY <2>1, MovedAside, StayAside
<1>3. CASE SubDeliver(w)
  <2>1. /\ UNCHANGED bqVars
        /\ \E l \in {"subLock", "leave"} : pc' = [pc EXCEPT ![w] = l]
        /\ \E rec : work' = [work EXCEPT ![w] = rec]
    BY <1>3 DEF SubDeliver
  <2> QED
    BY <2>1, MovedAside
<1>4. CASE SubLock(w) \/ SubFree(w) \/ SubSleep(w) \/ SubWake(w) \/ SubLeave(w) \/ SubUncount(w)
  BY <1>4, GoAside, JumpAside, DoneAside DEF SubLock, SubFree, SubSleep, SubWake, SubLeave, SubUncount
<1> QED
  BY <1>1, <1>2, <1>3, <1>4 DEF SubLoop

-----------------------------------------------------------------------------
(* The broker with its clients *)

\* What holds of the register pipe, the queue and the workers at every step.
IInv ==
    /\ scene \in Scenes /\ client = [c \in Processes |-> client[c]]
    /\ WorkersSound
    /\ Listed \/ StreamWhole

\* No client is before its request again once it has sent it.
Onward ==
    /\ scene' = scene /\ client' = [c \in Processes |-> client'[c]]
    /\ \A c \in Processes : client'[c] = "start" => client[c] = "start"

\* At the start the pipe and the queue are empty.
LEMMA InitIInv == ClientsInit => IInv
<1> SUFFICES ASSUME ClientsInit PROVE IInv
  OBVIOUS
<1>1. WorkersSound
  BY DEF ClientsInit, Init, WorkersSound
<1>2. Cuts(reg, {0})
  BY DEF ClientsInit, Cuts, RequestAt
<1>3. StreamWhole
  BY <1>2 DEF ClientsInit, Init, RequestQueue!BQInit, StreamWhole, PipeWhole, IsSent
<1> QED
  BY <1>1, <1>3 DEF IInv, ClientsInit

\* What is sent in a scene is the same at every step of it.
LEMMA SameSent ==
  ASSUME scene' = scene
  PROVE  Sent' = Sent /\ Cells' = Cells /\ Cast' = Cast /\ \A c : Code(c)' = Code(c)
  BY DEF Sent, Cells, Cast, Request, Code, BoxOf

\* A client that has gone one step further is not before its request.
LEMMA StepOnward ==
  ASSUME client = [c \in Processes |-> client[c]], scene' = scene,
         client' = client \/ \E d : \E l \in {"sent", "opened", "over"} : client' = [client EXCEPT ![d] = l]
  PROVE  Onward
<1>1. CASE client' = client
  BY <1>1 DEF Onward
<1>2. ASSUME NEW d, NEW l \in {"sent", "opened", "over"}, client' = [client EXCEPT ![d] = l] PROVE Onward
  <2>1. client' = [c \in Processes |-> IF c = d THEN l ELSE client[c]]
    BY <1>2
  <2> QED
    BY <2>1 DEF Onward
<1> QED
  BY <1>1, <1>2

\* Neither a worker's step nor a client's takes a client back.
LEMMA NextOnward ==
  ASSUME client = [c \in Processes |-> client[c]], [ClientsNext]_allVars
  PROVE  Onward
<1>1. CASE UNCHANGED allVars \/ MainRead \/ MainEnqueue \/ Interrupt
  <2>1. scene' = scene /\ client' = client
    BY <1>1 DEF allVars, brokerVars, clientVars, MainRead, MainEnqueue, Interrupt
  <2> QED
    BY <2>1, StepOnward
<1>2. ASSUME NEW w, Take(w) \/ WorkerStep(w) \/ Wakeup(w) PROVE Onward
  <2>1. CASE Meet(w)
    <3>1. scene' = scene /\ client' = [client EXCEPT ![Served(w)] = "opened"]
      BY <2>1 DEF Meet
    <3> QED
      BY <3>1, StepOnward
  <2>2. CASE ~Meet(w)
    <3>1. scene' = scene /\ client' = client
      BY <1>2, <2>2
         DEF Take, WorkerStep, Wakeup, Inside, Miss, WorkerRead, WorkerWait, WorkerWrite, WorkerHangup, clientVars
    <3> QED
      BY <3>1, StepOnward
  <2> QED
    BY <2>1, <2>2
<1>3. ASSUME NEW c, Send(c) \/ ClientReads(c) \/ Publish(c) \/ Quit(c) \/ Kill(c) \/ OpenFails(c) PROVE Onward
  <2>1. scene' = scene /\ (client' = client \/ \E l \in {"sent", "opened", "over"} : client' = [client EXCEPT ![c] = l])
    BY <1>3
       DEF Send, ClientReads, GetResponse, GetListResponse, ReadMessage, Publish, sigpipe_handler, Quit, Kill,
           OpenFails, Ends
  <2> QED
    BY <2>1, StepOnward
<1> QED
  BY <1>1, <1>2, <1>3 DEF ClientsNext

\* Once a listing has been asked for it stays so.
LEMMA ListedStays ==
  ASSUME IInv, Onward
  PROVE  /\ scene' \in Scenes /\ client' = [c \in Processes |-> client'[c]]
         /\ Listed => Listed'
<1>1. Cast \subseteq Processes
  BY ClientsAssumption DEF IInv, Cast
<1> QED
  BY <1>1, SameSent DEF IInv, Onward, Listed

\* A stream stays whole when nothing goes in or out.
LEMMA StreamStays ==
  ASSUME scene' = scene, StreamWhole, UNCHANGED <<reg, bqVars>>
  PROVE  StreamWhole'
<1>1. PipeWhole'
  BY SameSent DEF StreamWhole, PipeWhole, Cuts, RequestAt
<1> QED
  BY <1>1, SameSent DEF StreamWhole, IsSent, bqVars

\* The register pipe is as it was.
LEMMA PipeStays == ASSUME scene' = scene, PipeWhole, UNCHANGED reg PROVE PipeWhole'
  BY SameSent DEF PipeWhole, Cuts, RequestAt

\* A client sends its request (send_request).
LEMMA SendWhole ==
  ASSUME IInv, StreamWhole, NEW c \in Cast, Send(c), ~Listed'
  PROVE  StreamWhole'
<1>0. /\ scene' = scene /\ UNCHANGED bqVars /\ reg' = reg \o Request(c)
      /\ client' = [client EXCEPT ![c] = "sent"]
  BY DEF Send, brokerVars
<1>1. scene' = scene /\ UNCHANGED bqVars /\ reg' = reg \o Request(c) /\ Request(c) \in Sent
  <2>1. client'[c] = "sent"
    BY <1>0, ClientsAssumption DEF IInv, Cast
  <2>2. Code(c) # REQUEST_LIST_BOX
    BY <1>0, <2>1, SameSent DEF Listed
  <2> QED
    BY <1>0, <2>2 DEF Sent
<1>2. PICK P : Cuts(reg, P)
  BY DEF StreamWhole, PipeWhole
<1>3. reg' \in Seq(Cells) /\ \E Q : Cuts(reg', Q)
  BY <1>1, <1>2, Extended DEF StreamWhole, PipeWhole
<1>4. PipeWhole'
  BY <1>1, <1>3, SameSent DEF PipeWhole, Cuts, RequestAt
<1> QED
  BY <1>1, <1>4, SameSent DEF StreamWhole, IsSent, bqVars

\* The main thread reads one (mbroker.c:406).
LEMMA MainReadWhole ==
  ASSUME StreamWhole, MainRead
  PROVE  StreamWhole'
<1> DEFINE n == Min({MaxRegisterRequest, Len(reg)})
<1>1. /\ scene' = scene /\ reg # <<>> /\ reg' = SubSeq(reg, n + 1, Len(reg))
      /\ offered' = [offered EXCEPT ![Main] = SubSeq(reg, 1, n)] /\ UNCHANGED <<queue, taken>>
  BY DEF MainRead, Arrive, RequestQueue!Offer
<1>2. PICK P : Cuts(reg, P)
  BY DEF StreamWhole, PipeWhole
<1>3. reg \in Seq(Cells) /\ n = MaxRegisterRequest /\ SubSeq(reg, 1, n) \in Sent
  BY <1>1, <1>2, Shortened DEF StreamWhole, PipeWhole
<1>4. reg' \in Seq(Cells) /\ \E Q : Cuts(reg', Q)
  BY <1>1, <1>2, <1>3, Shortened
<1>5. PipeWhole'
  BY <1>1, <1>4, SameSent DEF PipeWhole, Cuts, RequestAt
<1>6. DOMAIN offered' = {Main} /\ IsSent(offered'[Main])
  BY <1>1, <1>3 DEF StreamWhole, IsSent
<1> QED
  BY <1>1, <1>5, <1>6, SameSent DEF StreamWhole, IsSent

\* pcq_enqueue and pcq_dequeue hand it on.
LEMMA QueueWhole ==
  ASSUME StreamWhole, scene' = scene, reg' = reg,
         \/ RequestQueue!Enq(Main)
         \/ \E w \in Workers : RequestQueue!Deq(w) \/ RequestQueue!Deliver(w)
  PROVE  StreamWhole'
<1>1. PipeWhole'
  BY PipeStays DEF StreamWhole
<1>2. CASE RequestQueue!Enq(Main)
  <2>1. offered[Main] \in Sent
    BY <1>2 DEF StreamWhole, IsSent, RequestQueue!Enq
  <2>2. queue' \in Seq(Sent) /\ DOMAIN offered' = {Main} /\ offered'[Main] = None /\ taken' = taken
    BY <1>2, <2>1 DEF StreamWhole, RequestQueue!Enq
  <2> QED
    BY <1>1, <2>2, SameSent DEF StreamWhole, IsSent
<1>3. ASSUME NEW w \in Workers, RequestQueue!Deq(w) PROVE StreamWhole'
  <2>1. Head(queue) \in Sent /\ Tail(queue) \in Seq(Sent)
    BY <1>3 DEF StreamWhole, RequestQueue!Deq
  <2>2. queue' \in Seq(Sent) /\ offered' = offered /\ DOMAIN taken' = Workers
        /\ \A v \in Workers : taken'[v] \in {taken[v], Head(queue)}
    BY <1>3, <2>1 DEF StreamWhole, RequestQueue!Deq
  <2> QED
    BY <1>1, <2>1, <2>2, SameSent DEF StreamWhole, IsSent
<1>4. ASSUME NEW w \in Workers, RequestQueue!Deliver(w) PROVE StreamWhole'
  <2>1. queue' = queue /\ offered' = offered /\ DOMAIN taken' = Workers
        /\ \A v \in Workers : taken'[v] \in {taken[v], None}
    BY <1>4 DEF StreamWhole, RequestQueue!Deliver
  <2> QED
    BY <1>1, <2>1, SameSent DEF StreamWhole, IsSent
<1> QED
  BY <1>2, <1>3, <1>4

\* A worker decodes what was sent: it looks a box up for one of the requests
\* that name one.
LEMMA DecodeSound == ASSUME WorkersSound, NEW w \in Workers, Decode(w) PROVE WorkersSound'
<1> DEFINE req == decode(taken[w])
           rec == [NoWork EXCEPT !.code = req.code, !.client = req.client, !.box = req.box]
           l == IF req.code = REQUEST_LIST_BOX THEN "listCount" ELSE "lookup"
<1>1. CASE UNCHANGED <<pc, work>>
  BY <1>1 DEF WorkersSound
<1>2. CASE Decodes(taken[w]) /\ pc' = [pc EXCEPT ![w] = l] /\ work' = [work EXCEPT ![w] = rec]
  <2>1. req.code \in RegisterRequests \cup {REQUEST_LIST_BOX}
    BY <1>2 DEF decode, Decodes
  <2> HIDE DEF req
  <2>2. ASSUME NEW r, "code" \in DOMAIN r, NEW x
        PROVE  /\ "code" \in DOMAIN [r EXCEPT !.client = x] /\ [r EXCEPT !.client = x].code = r.code
               /\ "code" \in DOMAIN [r EXCEPT !.box = x] /\ [r EXCEPT !.box = x].code = r.code
    BY <2>2
  <2>3. rec.code = req.code /\ "code" \in DOMAIN rec
    <3>1. "code" \in DOMAIN [NoWork EXCEPT !.code = req.code]
          /\ [NoWork EXCEPT !.code = req.code].code = req.code
      BY DEF NoWork
    <3> QED
      BY <2>2, <3>1
  <2> HIDE DEF rec
  <2>4. pc' = [v \in Workers |-> IF v = w THEN l ELSE pc[v]]
        /\ work' = [v \in Workers |-> IF v = w THEN rec ELSE work[v]]
    BY <1>2 DEF WorkersSound
  <2> QED
    BY <2>1, <2>3, <2>4 DEF WorkersSound, Told
<1> QED
  BY <1>1, <1>2 DEF Decode

\* Every step of the broker or of a client keeps the stream whole.
LEMMA NextIInv == IInv /\ [ClientsNext]_allVars => IInv'
<1> SUFFICES ASSUME IInv, [ClientsNext]_allVars PROVE IInv'
  OBVIOUS
<1>0. WorkersSound /\ scene.threads \subseteq Workers
  BY ClientsAssumption DEF IInv
<1>a. /\ scene' \in Scenes /\ client' = [c \in Processes |-> client'[c]] /\ (Listed => Listed')
  BY NextOnward, ListedStays DEF IInv
<1>1. ASSUME scene' = scene, UNCHANGED <<reg, bqVars>>, WorkersSound' PROVE IInv'
  BY <1>a, <1>1, StreamStays DEF IInv
<1>2. ASSUME scene' = scene, UNCHANGED <<reg, bqVars, pc, work>> PROVE IInv'
  <2>1. WorkersSound'
    BY <1>2 DEF IInv, WorkersSound
  <2> QED
    BY <1>1, <1>2, <2>1
<1>3. ASSUME NEW w \in Workers, Aside(w), scene' = scene, reg' = reg PROVE IInv'
  <2>1. UNCHANGED bqVars /\ WorkersSound'
    BY <1>0, <1>3, AsideSound DEF Aside
  <2> QED
    BY <1>1, <1>3, <2>1
<1>4. CASE UNCHANGED allVars
  BY <1>2, <1>4 DEF allVars, brokerVars, clientVars
<1>5. CASE MainRead
  <2>1. scene' = scene /\ UNCHANGED <<pc, work>>
    BY <1>5 DEF MainRead, Arrive
  <2>2. WorkersSound'
    BY <1>0, <2>1 DEF WorkersSound
  <2> QED
    BY <1>5, <1>a, <2>2, MainReadWhole DEF IInv
<1>6. CASE MainEnqueue
  <2>1. /\ RequestQueue!Enq(Main) /\ scene' = scene /\ reg' = reg /\ UNCHANGED <<pc, work>>
    BY <1>6 DEF MainEnqueue, EnqueueRequest, clientVars
  <2>2. WorkersSound'
    BY <1>0, <2>1 DEF WorkersSound
  <2> QED
    BY <1>a, <2>1, <2>2, QueueWhole DEF IInv
<1>7. CASE Interrupt
  BY <1>2, <1>7 DEF Interrupt
<1>8. ASSUME NEW w \in scene.threads, Take(w) \/ WorkerStep(w) \/ Wakeup(w) PROVE IInv'
  <2>1. w \in Workers
    BY <1>0
  <2>2. scene' = scene /\ reg' = reg
    BY <1>8 DEF Take, WorkerStep, Inside, Meet, Miss, WorkerRead, WorkerWait, WorkerWrite, WorkerHangup, Wakeup, clientVars
  <2>3. CASE Dequeue(w)
    <3>1. RequestQueue!Deq(w) /\ UNCHANGED <<pc, work>>
      BY <2>3 DEF Dequeue
    <3>2. WorkersSound'
      BY <1>0, <3>1 DEF WorkersSound
    <3> QED
      BY <1>a, <2>1, <2>2, <3>1, <3>2, QueueWhole DEF IInv
  <2>4. CASE Decode(w)
    <3>1. RequestQueue!Deliver(w)
      BY <2>4 DEF Decode
    <3>2. WorkersSound'
      BY <1>0, <2>1, <2>4, DecodeSound
    <3> QED
      BY <1>a, <2>1, <2>2, <3>1, <3>2, QueueWhole DEF IInv
  <2>5. CASE LookupBox(w) \/ CreateBox(w) \/ ListBox(w) \/ Reply(w) \/ Deny(w)
    BY <1>0, <1>3, <2>1, <2>2, <2>5, ManagersAside
  <2>6. CASE RemoveBox(w)
    BY <1>0, <1>3, <2>1, <2>2, <2>6, RemovalsAside
  <2>7. CASE PubStart(w) \/ PubPost(w) \/ (\E r, m : Receive(w, r, m))
    BY <1>0, <1>3, <2>1, <2>2, <2>7, PublishersAside
  <2>8. CASE SubStart(w) \/ SubLoop(w)
    BY <1>0, <1>3, <2>1, <2>2, <2>8, SubscribersAside
  <2>9. CASE SpuriousWakeup(w)
    BY <1>2, <2>2, <2>9 DEF SpuriousWakeup
  <2>10. CASE Inside(w)
    BY <2>4, <2>5, <2>6, <2>7, <2>8, <2>10 DEF Inside, RemoveBox, ListBox, PubStart, SubStart, SubLoop
  <2>11. CASE Meet(w) \/ Miss(w)
    BY <2>5, <2>7, <2>8, <2>11 DEF Meet, Miss, ListBox, PubStart, SubStart
  <2>12. CASE WorkerRead(w) \/ WorkerWrite(w) \/ WorkerHangup(w)
    BY <2>6, <2>7, <2>8, <2>12 DEF WorkerRead, WorkerWrite, WorkerHangup, RemoveBox, SubLoop
  <2>13. CASE WorkerWait(w)
    BY <1>2, <2>2, <2>13 DEF WorkerWait, brokerVars
  <2> QED
    BY <1>8, <2>3, <2>9, <2>10, <2>11, <2>12, <2>13 DEF Take, WorkerStep, Wakeup
<1>9. ASSUME NEW c \in Cast, Send(c) PROVE IInv'
  <2>1. scene' = scene /\ UNCHANGED <<pc, work>>
    BY <1>9 DEF Send, brokerVars
  <2>2. WorkersSound'
    BY <1>0, <2>1 DEF WorkersSound
  <2> QED
    BY <1>9, <1>a, <2>2, SendWhole DEF IInv
<1>10. ASSUME NEW c \in Cast, ClientReads(c) \/ Publish(c) \/ Quit(c) \/ Kill(c) \/ OpenFails(c) PROVE IInv'
  <2>1. scene' = scene /\ UNCHANGED <<reg, bqVars, pc, work>>
    BY <1>10
       DEF ClientReads, GetResponse, GetListResponse, ReadMessage, Publish, Quit, Kill, OpenFails, brokerVars
  <2> QED
    BY <1>2, <2>1
<1> QED
  BY <1>4, <1>5, <1>6, <1>7, <1>8, <1>9, <1>10 DEF ClientsNext

\* mbroker.c:400, "Read Request from the register pipe": what the main thread
\* puts into the queue, and a worker takes out, is a request as a client sent
\* it, until a client asks for a listing.
THEOREM WholeRequests == ClientsSpec => []RequestsWhole
<1>1. IInv => RequestsWhole
  <2> SUFFICES ASSUME IInv, ~Listed PROVE RequestsWhole
    BY DEF RequestsWhole
  <2>1. StreamWhole
    BY DEF IInv
  <2>2. \A b \in Range(queue) : b \in Sent
    BY <2>1 DEF StreamWhole, Range
  <2>3. \A b \in Range(taken) : IsSent(b)
    BY <2>1 DEF StreamWhole, Range
  <2> QED
    BY <2>1, <2>2, <2>3 DEF RequestsWhole, StreamWhole, IsSent, Sent
<1> QED
  BY <1>1, InitIInv, NextIInv, PTL DEF ClientsSpec
=============================================================================
