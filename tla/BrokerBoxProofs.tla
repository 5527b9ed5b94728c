-------------------------- MODULE BrokerBoxProofs --------------------------
(***************************************************************************)
(* What mbroker keeps of its boxes and their files when requests are       *)
(* handled one at a time (Spaced), while any number of sessions go on:     *)
(* names are unique, a publisher has its box for itself, a box has a file  *)
(* of the size that it is listed with, no block is lost or shared, no      *)
(* message is overwritten or moved, and no subscriber sleeps over one that *)
(* nobody is going to wake it for.                                         *)
(***************************************************************************)
EXTENDS BrokerProofs

-----------------------------------------------------------------------------
(* The inductive invariant *)

\* w handles a request, or is about to.
Busy(w) == taken[w] # None \/ pc[w] \in Handling

\* One request at most is in the queue or handled.
OneRequest ==
    /\ Len(queue) <= 1
    /\ offered[Main] # None => queue = <<>>
    /\ queue # <<>> \/ offered[Main] # None => \A w \in Workers : ~Busy(w)
    /\ \A v, w \in Workers : Busy(v) /\ Busy(w) => v = w
    /\ \A w \in Workers : taken[w] # None => pc[w] = "idle"

\* No box of table t has name n.
NoBox(t, n) == \A i \in Slots : ~t[i].free => t[i].name # n

\* Labels of create_box before its box has a name; labels at which the slot has
\* the worker's box, and those of them at which it has no publisher.
NewLabels == {"slot", "create", "closeNew", "name"}
NamedLabels == {"reset", "busy", "unlink", "clear", "check", "count"} \cup PubLabels
NoPubLabels == {"reset", "unlink", "clear", "count"}
KeptLabels == NewLabels \cup NamedLabels

\* A free slot has no publisher, names are unique, and so is a box's publisher.
BoxesKept ==
    /\ \A i \in Slots : IF table[i].free THEN table[i].pubs = 0 ELSE table[i].name \in Boxes
    /\ \A i, j \in Slots : ~table[i].free /\ ~table[j].free /\ table[i].name = table[j].name => i = j
    /\ \A v, w \in Workers : pc[v] \in PubLabels /\ pc[w] \in PubLabels /\ Slot(v) = Slot(w) => v = w

\* What a worker at p with locals r knows of table t.
Kept(t, p, r) ==
    /\ p \in NewLabels => NoBox(t, r.box)
    /\ p \in {"create", "closeNew"} => t[r.tmp].free
    /\ p = "name" => t[r.slot].free
    /\ p \in NamedLabels => ~t[r.slot].free /\ t[r.slot].name = r.box
    /\ p \in NoPubLabels => t[r.slot].pubs = 0
    /\ p \in PubLabels => t[r.slot].pubs = 1

\* Nobody is at a label of L for slot i.
Nobody(L, i) == \A w \in Workers : pc[w] \in L => Slot(w) # i

\* A box has a file, and one of its size, but for the moments in which a handler
\* or a publisher's session is between the two; other files are empty.
FilesKept ==
    /\ \A i \in Slots : ~table[i].free /\ Nobody({"clear"}, i) => Exists(table[i].name)
    /\ \A i \in Slots : ~table[i].free /\ Nobody({"reset", "clear", "size"}, i) =>
         table[i].size = FileSize(table[i].name)
    /\ \A n \in Boxes : Exists(n) /\ NoBox(table, n) => FileSize(n) = 0

\* Labels at which a worker knows something of the file of its box.
FileLabels == {"clear", "closeNew", "name", "reset", "size", "write"}

\* What a worker at p with locals r knows of table t, names e, inodes m and handles o.
FileKept(t, e, m, o, p, r) ==
    /\ p = "clear" => e[r.box] = None
    /\ p \in {"closeNew", "name", "reset"} => e[r.box] # None /\ m[e[r.box]].size = 0
    /\ p = "size" => m[e[r.box]].size = t[r.slot].size + r.tmp
    /\ p = "write" => o[r.fd] = OpenFile(e[r.box], m[e[r.box]].size)

WorkersKept == \A w \in Workers : Kept(table, pc[w], work[w])
WorkersFiles == \A w \in Workers : FileKept(table, entry, node, oft, pc[w], work[w])

TidyBoxes == BoxesKept /\ WorkersKept
TidyFiles == FilesKept /\ WorkersFiles /\ BlocksOwned
Tidy == OneRequest /\ TidyBoxes /\ TidyFiles

-----------------------------------------------------------------------------
(* Steps that leave boxes or files as they are *)

SameBoxes == \A i \in Slots : /\ table'[i].free = table[i].free /\ table'[i].name = table[i].name
                              /\ table'[i].pubs = table[i].pubs
SameNames == \A i \in Slots : table'[i].free = table[i].free /\ table'[i].name = table[i].name
SameSizes == \A i \in Slots : table'[i].size = table[i].size
SameFiles == UNCHANGED <<entry, node, takenI, takenB>>
SameWriters(w) == \A v \in Workers \ {w} : pc[v] = "write" => oft'[Fd(v)] = oft[Fd(v)]

\* The slots and handles that the predicates above speak of are there.
LEMMA KeptTyped ==
  ASSUME Typed, NEW w \in Workers
  PROVE  /\ pc[w] \in KeptLabels => Box(w) \in Boxes
         /\ pc[w] \in NamedLabels \cup {"name"} => Slot(w) \in Slots
         /\ pc[w] \in {"create", "closeNew"} => work[w].tmp \in Slots
         /\ pc[w] \in {"size", "write"} => Fd(w) \in Handles
         /\ pc[w] = "size" => work[w].tmp \in Nat
<1>1. LocalsTyped(pc[w], work[w])
  BY WorkerTyped DEF Typed
<1> QED
  BY <1>1 DEF LocalsTyped, BoxLabels, SlotLabels, HandleLabels, PubLabels, SubLabels,
              KeptLabels, NewLabels, NamedLabels, Box, Slot, Fd

\* A handler goes on, or is over.
LEMMA OneRequestMoves ==
  ASSUME Typed, OneRequest, NEW w \in Workers, NEW q, NEW r, Moves(w, q, r), UNCHANGED bqVars,
         pc[w] # "idle", q \in Handling => pc[w] \in Handling
  PROVE  OneRequest'
<1>1. pc'[w] = q /\ \A v \in Workers \ {w} : pc'[v] = pc[v]
  BY MovesPc DEF Typed
<1>2. queue' = queue /\ offered' = offered /\ taken' = taken
  BY DEF bqVars
<1>3. \A v \in Workers : Busy(v)' => Busy(v)
  BY <1>1, <1>2 DEF Busy
<1>4. \A v \in Workers : taken[v] # None => pc[v] = "idle"
  BY DEF OneRequest
<1>5. \A v \in Workers : taken'[v] # None => pc'[v] = "idle"
  BY <1>1, <1>2, <1>4
<1> QED
  BY <1>2, <1>3, <1>5 DEF OneRequest

\* A step that changes neither name, state nor publishers of any box keeps the
\* table in order, if its worker knows what its next label asks for.
LEMMA BoxesMove ==
  ASSUME Typed, TidyBoxes, NEW w \in Workers, NEW q, NEW r, Moves(w, q, r), SameBoxes,
         q \in PubLabels => pc[w] \in PubLabels /\ r.slot = Slot(w),
         Kept(table', q, r)
  PROVE  TidyBoxes'
<1>1. pc'[w] = q /\ Same(work'[w], r) /\ \A v \in Workers \ {w} : pc'[v] = pc[v] /\ Same(work'[v], work[v])
  BY MovesPc DEF Typed
<1>2. BoxesKept'
  <2>1. \A i \in Slots : IF table'[i].free THEN table'[i].pubs = 0 ELSE table'[i].name \in Boxes
    BY DEF TidyBoxes, BoxesKept, SameBoxes
  <2>2. \A i, j \in Slots : ~table'[i].free /\ ~table'[j].free /\ table'[i].name = table'[j].name => i = j
    BY DEF TidyBoxes, BoxesKept, SameBoxes
  <2>3. \A v \in Workers : pc'[v] \in PubLabels => pc[v] \in PubLabels /\ work'[v].slot = work[v].slot
    BY <1>1 DEF Same, Slot
  <2>4. \A u, v \in Workers : pc'[u] \in PubLabels /\ pc'[v] \in PubLabels /\ work'[u].slot = work'[v].slot => u = v
    BY <2>3 DEF TidyBoxes, BoxesKept, Slot
  <2> QED
    BY <2>1, <2>2, <2>4 DEF BoxesKept, Slot
<1>3. ASSUME NEW v \in Workers PROVE Kept(table', pc'[v], work'[v])
  <2>1. CASE v = w
    BY <1>1, <2>1 DEF Kept, Same
  <2>2. CASE v # w
    <3>1. Kept(table, pc[v], work[v]) /\ pc'[v] = pc[v] /\ Same(work'[v], work[v])
      BY <1>1, <2>2 DEF TidyBoxes, WorkersKept
    <3>2. Kept(table', pc[v], work[v])
      <4>1. \A n : NoBox(table, n) => NoBox(table', n)
        BY DEF NoBox, SameBoxes
      <4>2. pc[v] \in NewLabels => NoBox(table', work[v].box)
        BY <3>1, <4>1 DEF Kept
      <4>3. pc[v] \in {"create", "closeNew"} => table'[work[v].tmp].free
        BY <3>1, KeptTyped DEF Kept, SameBoxes
      <4>4. pc[v] \in NamedLabels \cup {"name"} =>
              /\ table'[Slot(v)].free = table[Slot(v)].free /\ table'[Slot(v)].name = table[Slot(v)].name
              /\ table'[Slot(v)].pubs = table[Slot(v)].pubs
        BY KeptTyped DEF SameBoxes
      <4>5. NoPubLabels \subseteq NamedLabels /\ PubLabels \subseteq NamedLabels
        BY DEF NoPubLabels, NamedLabels
      <4> QED
        BY <3>1, <4>2, <4>3, <4>4, <4>5 DEF Kept, Slot
    <3> QED
      BY <3>1, <3>2 DEF Kept, Same
  <2> QED
    BY <2>1, <2>2
<1> QED
  BY <1>2, <1>3 DEF TidyBoxes, WorkersKept

\* A step that changes neither files nor the names and sizes of boxes keeps
\* files and boxes together, if its worker knows what its next label asks for.
LEMMA FilesMove ==
  ASSUME Typed, TidyFiles, NEW w \in Workers, NEW q, NEW r, Moves(w, q, r),
         SameNames, SameSizes, SameFiles, SameWriters(w),
         pc[w] \notin {"clear", "reset", "size"},
         FileKept(table', entry', node', oft', q, r)
  PROVE  TidyFiles'
<1>1. pc'[w] = q /\ Same(work'[w], r) /\ \A v \in Workers \ {w} : pc'[v] = pc[v] /\ Same(work'[v], work[v])
  BY MovesPc DEF Typed
<1>2. FilesKept'
  <2>1. ASSUME NEW i \in Slots, NEW L \in {{"clear"}, {"reset", "clear", "size"}}, Nobody(L, i)' PROVE Nobody(L, i)
    <3>1. ASSUME NEW v \in Workers, pc[v] \in L PROVE work[v].slot # i
      BY <1>1, <2>1, <3>1 DEF Nobody, Slot, Same
    <3> QED
      BY <3>1 DEF Nobody, Slot
  <2>2. \A n : NoBox(table', n) => NoBox(table, n)
    BY DEF NoBox, SameNames
  <2>3. \A n : Exists(n)' = Exists(n) /\ FileSize(n)' = FileSize(n)
    BY DEF Exists, FileSize, SameFiles
  <2>4. \A i \in Slots : ~table'[i].free /\ Nobody({"clear"}, i)' => Exists(table[i].name)
    BY <2>1 DEF TidyFiles, FilesKept, SameNames
  <2>5. \A i \in Slots : ~table'[i].free /\ Nobody({"reset", "clear", "size"}, i)' =>
          table[i].size = FileSize(table[i].name)
    BY <2>1 DEF TidyFiles, FilesKept, SameNames
  <2>6. \A n \in Boxes : entry'[n] # None /\ NoBox(table', n) => node'[entry'[n]].size = 0
    BY <2>2 DEF TidyFiles, FilesKept, Exists, FileSize, SameFiles
  <2>7. \A i \in Slots : ~table'[i].free /\ Nobody({"clear"}, i)' => entry'[table'[i].name] # None
    BY <2>4 DEF Exists, SameNames, SameFiles
  <2>8. \A i \in Slots : ~table'[i].free /\ Nobody({"reset", "clear", "size"}, i)' =>
          table'[i].size = node'[entry'[table'[i].name]].size
    BY <2>5 DEF FileSize, SameNames, SameSizes, SameFiles
  <2> QED
    BY <2>6, <2>7, <2>8 DEF FilesKept, Exists, FileSize
<1>3. WorkersFiles'
  <2>1. ASSUME NEW v \in Workers PROVE FileKept(table', entry', node', oft', pc'[v], work'[v])
    <3>1. CASE v = w
      BY <1>1, <3>1 DEF FileKept, Same
    <3>2. CASE v # w
      <4>1. FileKept(table, entry, node, oft, pc[v], work[v]) /\ pc'[v] = pc[v] /\ Same(work'[v], work[v])
        BY <1>1, <3>2 DEF TidyFiles, WorkersFiles
      <4>2. pc[v] = "size" => table'[work[v].slot].size = table[work[v].slot].size
        BY KeptTyped DEF SameSizes, NamedLabels, PubLabels, Slot
      <4>3. pc[v] = "write" => oft'[work[v].fd] = oft[work[v].fd]
        BY <3>2 DEF SameWriters, Fd
      <4> QED
        BY <4>1, <4>2, <4>3 DEF FileKept, Same, SameFiles
    <3> QED
      BY <3>1, <3>2
  <2> QED
    BY <2>1 DEF WorkersFiles
<1>4. BlocksOwned'
  BY DEF TidyFiles, BlocksOwned, SameFiles
<1> QED
  BY <1>2, <1>3, <1>4 DEF TidyFiles

-----------------------------------------------------------------------------
(* Steps that boxes and files do not notice *)

Unharmed(w) == SameBoxes /\ SameSizes /\ SameFiles /\ SameWriters(w)

\* These labels claim nothing of boxes and files.
Careless == Labels \ (KeptLabels \cup FileLabels)

\* The labels at which nothing is known of boxes and files.
LEMMA CarelessLabels ==
  /\ {"idle", "lookup", "deny", "hangup", "wake", "read", "enter", "reply", "listCount", "listNext", "listLast",
      "listCopy", "listSend", "subPipe", "open", "leave", "uncount"} \cup SubLabels \subseteq Careless
  /\ Careless \cap KeptLabels = {} /\ Careless \cap FileLabels = {} /\ Careless \cap PubLabels = {}
  BY DEF Careless, Labels, Handling, KeptLabels, NewLabels, NamedLabels, FileLabels, PubLabels, SubLabels

\* A step that leaves files and box table alone harms nobody.
LEMMA UnharmedStill == ASSUME UNCHANGED <<fsVars, table>>, NEW w PROVE Unharmed(w)
  BY DEF Unharmed, SameBoxes, SameSizes, SameFiles, SameWriters, fsVars

\* A step that only counts subscribers harms nobody.
LEMMA UnharmedCount == ASSUME UNCHANGED fsVars, NEW w, NEW i, table' = table \/ Recounts(i) PROVE Unharmed(w)
<1>1. SameFiles /\ SameWriters(w)
  BY DEF SameFiles, SameWriters, fsVars
<1>2. SameBoxes /\ SameSizes
  BY DEF SameBoxes, SameSizes, Recounts, Becomes
<1> QED
  BY <1>1, <1>2 DEF Unharmed

\* A step that harms nobody keeps everything, if its worker knows what its next
\* label asks for.
LEMMA LocalTidy ==
  ASSUME Typed, Tidy, NEW w \in Workers, NEW q, NEW r, Moves(w, q, r), UNCHANGED bqVars, Unharmed(w),
         pc[w] \notin {"idle", "clear", "reset", "size"},
         q \in Handling => pc[w] \in Handling,
         q \in PubLabels => pc[w] \in PubLabels /\ r.slot = Slot(w),
         Kept(table', q, r), FileKept(table', entry', node', oft', q, r)
  PROVE  Tidy'
<1>1. OneRequest'
  BY OneRequestMoves DEF Tidy
<1>2. TidyBoxes'
  BY BoxesMove DEF Tidy, Unharmed
<1>3. TidyFiles'
  <2>1. SameNames
    BY DEF Unharmed, SameBoxes, SameNames
  <2> QED
    BY <2>1, FilesMove DEF Tidy, Unharmed
<1> QED
  BY <1>1, <1>2, <1>3 DEF Tidy

\* A step that harms nobody, to a label that asks for nothing, keeps
\* everything.
LEMMA CarelessTidy ==
  ASSUME Typed, Tidy, NEW w \in Workers, NEW q \in Careless, NEW r, Moves(w, q, r), UNCHANGED bqVars, Unharmed(w),
         pc[w] \notin {"idle", "clear", "reset", "size"}, q \in Handling => pc[w] \in Handling
  PROVE  Tidy'
<1>1. q \notin KeptLabels /\ q \notin FileLabels /\ q \notin PubLabels
  BY CarelessLabels
<1>2. Kept(table', q, r)
  BY <1>1 DEF Kept, KeptLabels, NewLabels, NamedLabels, NoPubLabels
<1>3. FileKept(table', entry', node', oft', q, r)
  BY <1>1 DEF FileKept, FileLabels
<1> QED
  BY <1>1, <1>2, <1>3, LocalTidy

\* The same for Goto.
LEMMA GotoTidy ==
  ASSUME Typed, Tidy, NEW w \in Workers, NEW q \in Careless, NEW rec, IsWork(rec), Goto(w, q, rec), Unharmed(w),
         pc[w] \notin {"idle", "clear", "reset", "size"}, q \in Handling => pc[w] \in Handling
  PROVE  Tidy'
  BY GotoMoves, CarelessTidy DEF Typed

\* The same for a worker that is done with its request.
LEMMA DoneTidy ==
  ASSUME Typed, Tidy, NEW w \in Workers, Done(w), Unharmed(w), pc[w] \notin {"idle", "clear", "reset", "size"}
  PROVE  Tidy'
<1>1. "idle" \notin Handling
  BY DEF Handling
<1> QED
  BY <1>1, DoneMoves, CarelessTidy, CarelessLabels DEF Typed

\* The same for a worker that answers.
LEMMA AnswerTidy ==
  ASSUME Typed, Tidy, NEW w \in Workers, NEW x, Answer(w, x), Unharmed(w), pc[w] \in Handling,
         pc[w] \notin {"clear", "reset"}
  PROVE  Tidy'
<1>1. PICK rec : Moves(w, "reply", rec)
  BY AnswerMoves DEF Typed
<1>2. UNCHANGED <<bqVars, envVars, got, crashed>>
  BY AnswerMoves DEF Typed
<1>3. "idle" \notin Handling /\ "size" \notin Handling
  BY DEF Handling
<1> QED
  BY <1>1, <1>2, <1>3, CarelessTidy, CarelessLabels

\* The same for a session that could not open its client's pipe.
LEMMA GiveUpTidy ==
  ASSUME Typed, Tidy, NEW w \in Workers, GiveUp(w), pc[w] \notin {"idle", "clear", "reset", "size"}
  PROVE  Tidy'
<1>1. Unharmed(w)
  BY UnharmedStill DEF GiveUp, boxVars
<1> QED
  BY <1>1, DoneTidy DEF GiveUp

\* Who keeps the handles of others keeps those of the publishers.
LEMMA WritersStay ==
  ASSUME NEW w \in Workers, \A v \in Workers \ {w} : pc[v] \in HandleLabels => oft'[Fd(v)] = oft[Fd(v)]
  PROVE  SameWriters(w)
  BY DEF SameWriters, HandleLabels

-----------------------------------------------------------------------------
(* Subscribers *)

\* A subscriber registers and its session opens the pipe: boxes and files stay
\* together.
LEMMA SubStartTidy == ASSUME Typed, Tidy, NEW w \in Workers, SubRead(w) \/ SubEnter(w) \/ SubPipe(w) PROVE Tidy'
<1>1. IsWork(work[w])
  BY WorkerTyped DEF Typed
<1>2. CASE SubRead(w)
  <2> DEFINE rec == [work[w] EXCEPT !.tmp = table[Slot(w)].nsubs]
  <2>1. IsWork(rec)
    BY <1>1, SetTmp
  <2>2. Goto(w, "enter", rec) /\ UNCHANGED <<fsVars, table>> /\ pc[w] = "read"
    BY <1>2 DEF SubRead, At, boxVars
  <2> HIDE DEF rec
  <2> QED
    BY <2>1, <2>2, GotoTidy, UnharmedStill, CarelessLabels DEF Handling
<1>3. CASE SubEnter(w)
  <2>1. Goto(w, "subPipe", work[w]) /\ UNCHANGED fsVars /\ pc[w] = "enter"
    BY <1>3 DEF SubEnter, At, Jump
  <2>2. Unharmed(w)
    BY <1>3, <2>1, SubEnterTable, UnharmedCount
  <2> QED
    BY <1>1, <2>1, <2>2, GotoTidy, CarelessLabels DEF Handling
<1>4. CASE SubPipe(w)
  <2> DEFINE rec == [work[w] EXCEPT !.pipe = "open", !.tmp = None]
  <2>1. IsWork(rec)
    <3>1. ASSUME NEW x PROVE IsWork([work[w] EXCEPT !.pipe = x, !.tmp = None])
      <4>1. [work[w] EXCEPT !.pipe = x, !.tmp = None] =
              Changed(work[w], work[w].fd, None, work[w].msg, work[w].read, x)
        BY <1>1, SetPipeTmp
      <4> QED
        BY <4>1, ChangedIs
    <3> QED
      BY <3>1, Zenon
  <2>2. pc[w] = "subPipe" /\ (GiveUp(w) \/ (Goto(w, "open", rec) /\ UNCHANGED fsVars))
    BY <1>4 DEF SubPipe, At
  <2> HIDE DEF rec
  <2>3. UNCHANGED fsVars
    BY <2>2 DEF GiveUp
  <2>4. Unharmed(w)
    BY <1>4, <2>3, SubTables, UnharmedCount
  <2> QED
    BY <2>1, <2>2, <2>4, GotoTidy, GiveUpTidy, CarelessLabels DEF Handling
<1> QED
  BY <1>2, <1>3, <1>4

\* A subscriber's session opens the file of its box to read: boxes and files
\* stay together.
LEMMA SubOpenTidy == ASSUME Typed, Tidy, NEW w \in Workers, SubOpen(w) PROVE Tidy'
<1> DEFINE d == OpenResult(Box(w), "READ")
           rec == [work[w] EXCEPT !.fd = d]
<1>1. IsWork(work[w]) /\ LocalsTyped("open", work[w]) /\ pc[w] = "open"
  BY AtTyped DEF SubOpen
<1>2. Box(w) \in Boxes
  BY <1>1 DEF LocalsTyped, BoxLabels, SlotLabels, Box
<1>3. TfsOpen(Box(w), "READ") /\ (Done(w) \/ Goto(w, "subLock", rec))
  BY DEF SubOpen
<1>4. SameFiles
  BY <1>3 DEF TfsOpen, SameFiles
<1>5. SameWriters(w)
  <2>1. CASE d = None
    <3>1. oft' = oft
      BY <1>2, <1>3, <2>1, OpenFs DEF Typed
    <3> QED
      BY <3>1 DEF SameWriters
  <2>2. CASE d # None
    <3>1. d \in Handles /\ oft[d] = None /\ \A e \in Handles \ {d} : oft'[e] = oft[e]
      BY <1>2, <1>3, <2>2, OpenedFs DEF Typed
    <3> HIDE DEF d
    <3> QED
      BY <3>1, OthersHandles, WritersStay
  <2> QED
    BY <2>1, <2>2
<1>6. table' = table \/ Recounts(Slot(w))
  BY SubTables
<1>7. Unharmed(w)
  BY <1>4, <1>5, <1>6 DEF Unharmed, SameBoxes, SameSizes, Recounts, Becomes
<1>8. IsWork(rec)
  BY <1>1, SetFd
<1> HIDE DEF rec
<1> QED
  BY <1>1, <1>3, <1>7, <1>8, DoneTidy, GotoTidy, CarelessLabels DEF Handling, SubLabels

\* A subscriber's session locks, looks at its box, sleeps or wakes up: boxes
\* and files stay together.
LEMMA SubJumpTidy ==
  ASSUME Typed, Tidy, NEW w \in Workers, SubLock(w) \/ SubFree(w) \/ SubSleep(w) \/ SubWake(w)
  PROVE  Tidy'
<1>1. UNCHANGED <<fsVars, table>> /\ pc[w] \in SubLabels
  BY DEF SubLock, SubFree, SubSleep, SubWake, At, SubLabels
<1>2. PICK q \in {"subRead", "leave", "sleep", "woken"} : Goto(w, q, work[w])
  BY DEF SubLock, SubFree, SubSleep, SubWake, Jump
<1>3. IsWork(work[w])
  BY WorkerTyped DEF Typed
<1>4. q \in Careless /\ q \notin Handling
  BY CarelessLabels DEF SubLabels, Handling
<1>5. pc[w] \notin {"idle", "clear", "reset", "size"}
  BY <1>1 DEF SubLabels
<1> QED
  BY <1>1, <1>2, <1>3, <1>4, <1>5, GotoTidy, UnharmedStill

\* A subscriber's session takes its entry out of subscribers, or counts itself
\* out: boxes and files stay together.
LEMMA SubLeaveTidy == ASSUME Typed, Tidy, NEW w \in Workers, SubLeave(w) \/ SubUncount(w) PROVE Tidy'
<1> DEFINE rec == [work[w] EXCEPT !.tmp = table[Slot(w)].nsubs]
<1>1. IsWork(rec)
  BY WorkerTyped, SetTmp DEF Typed
<1>2. \/ pc[w] = "leave" /\ Goto(w, "uncount", rec)
      \/ pc[w] = "uncount" /\ Done(w)
  BY DEF SubLeave, SubUncount, At
<1> HIDE DEF rec
<1>3. UNCHANGED fsVars
  BY DEF SubLeave, SubUncount
<1>4. Unharmed(w)
  BY <1>3, SubTables, UnharmedCount
<1> QED
  BY <1>1, <1>2, <1>4, GotoTidy, DoneTidy, CarelessLabels DEF Handling

\* Nothing that the predicates speak of changes.
LEMMA StillBoxes ==
  ASSUME Tidy, UNCHANGED <<fsVars, table, pc, work>>
  PROVE  TidyBoxes' /\ TidyFiles'
<1>1. UNCHANGED fsVars /\ UNCHANGED <<table, pc, work>>
  OBVIOUS
<1>2. TidyBoxes'
  BY <1>1 DEF Tidy, TidyBoxes, BoxesKept, WorkersKept, Slot
<1>3. FilesKept' /\ WorkersFiles' /\ BlocksOwned'
  BY <1>1 DEF Tidy, TidyFiles, FilesKept, WorkersFiles, BlocksOwned, Nobody, Exists, FileSize, Slot, fsVars
<1> QED
  BY <1>2, <1>3 DEF TidyFiles

\* A step that changes neither files, boxes, requests nor labels keeps
\* everything.
LEMMA StillTidy ==
  ASSUME Tidy, UNCHANGED <<fsVars, bqVars, table, pc, work>>
  PROVE  Tidy'
<1>1. UNCHANGED <<fsVars, table, pc, work>> /\ UNCHANGED bqVars
  OBVIOUS
<1>2. OneRequest'
  BY <1>1 DEF Tidy, OneRequest, Busy, bqVars
<1> QED
  BY <1>1, <1>2, StillBoxes DEF Tidy

\* A subscriber's session reads the next message: boxes and files stay
\* together.
LEMMA SubTakeTidy == ASSUME Typed, Tidy, NEW w \in Workers, SubTake(w) PROVE Tidy'
<1> DEFINE d == Fd(w)
           rec == [work[w] EXCEPT !.msg = ReadResult(d)]
<1>1. IsWork(work[w]) /\ pc[w] = "subRead" /\ UNCHANGED boxVars /\ UNCHANGED bqVars
  BY AtTyped DEF SubTake
<1>2. CASE ReadDies(d)
  <2>1. UNCHANGED <<fsVars, pc, work>>
    BY <1>2 DEF SubTake, Fd
  <2> QED
    BY <1>1, <2>1, StillTidy DEF boxVars
<1>3. CASE ~ReadDies(d)
  <2>1. TfsRead(d) /\ work' = [work EXCEPT ![w].msg = ReadResult(d)]
    BY <1>3 DEF SubTake, Fd
  <2>2. PICK q \in {"subFree", "deliver"} : pc' = [pc EXCEPT ![w] = q]
    BY <1>3 DEF SubTake, Fd
  <2>3. d \in Handles /\ oft[d] # None
    BY <1>1, HandleHeld DEF SubLabels, HandleLabels
  <2>4. SameFiles /\ \A e \in Handles \ {d} : oft'[e] = oft[e]
    BY <2>1, <2>3, ReadFs DEF Typed, SameFiles
  <2>5. SameWriters(w)
    BY <1>1, <2>3, <2>4, OthersHandles, WritersStay DEF SubLabels, HandleLabels
  <2>6. IsWork(rec)
    BY <1>1, SetMsg
  <2>7. \A v \in Workers : IsWork(work[v]) /\ work = [u \in Workers |-> work[u]]
    BY DEF Typed, WorkersTyped
  <2>8. work' = [v \in Workers |-> IF v = w THEN rec ELSE work[v]]
    BY <2>1, <2>7
  <2> HIDE DEF rec
  <2>9. Moves(w, q, rec)
    BY <2>2, <2>6, <2>7, <2>8 DEF Moves, Same
  <2>10. Unharmed(w)
    BY <1>1, <2>4, <2>5 DEF Unharmed, SameBoxes, SameSizes, boxVars
  <2> QED
    BY <1>1, <2>2, <2>9, <2>10, CarelessTidy, CarelessLabels DEF SubLabels, Handling
<1> QED
  BY <1>2, <1>3

\* A subscriber's session writes the message to its client: boxes and files
\* stay together.
LEMMA SubDeliverTidy == ASSUME Typed, Tidy, NEW w \in Workers, SubDeliver(w) PROVE Tidy'
<1> DEFINE rec == [work[w] EXCEPT !.msg = <<>>]
<1>1. IsWork(work[w]) /\ pc[w] = "deliver" /\ UNCHANGED <<fsVars, table>> /\ UNCHANGED bqVars
  BY AtTyped DEF SubDeliver
<1>2. IsWork(rec)
  BY <1>1, SetMsg
<1>3. \A v \in Workers : IsWork(work[v]) /\ work = [u \in Workers |-> work[u]]
  BY DEF Typed, WorkersTyped
<1>4. work' = [v \in Workers |-> IF v = w THEN rec ELSE work[v]]
  BY <1>3 DEF SubDeliver
<1> HIDE DEF rec
<1>5. PICK q \in {"subLock", "leave"} : pc' = [pc EXCEPT ![w] = q]
  BY DEF SubDeliver
<1>6. Moves(w, q, rec)
  BY <1>2, <1>3, <1>4, <1>5 DEF Moves, Same
<1> QED
  BY <1>1, <1>5, <1>6, CarelessTidy, UnharmedStill, CarelessLabels DEF SubLabels, Handling

-----------------------------------------------------------------------------
(* Handlers, as long as they leave boxes and files alone *)

\* list_box counts the boxes and sends them one by one: boxes and files stay
\* together.
LEMMA ListTidy == ASSUME Typed, Tidy, NEW w \in Workers, ListBox(w) PROVE Tidy'
<1>1. /\ IsWork(work[w]) /\ pc[w] \in {"listCount", "listNext", "listLast", "listCopy", "listSend"}
      /\ UNCHANGED <<fsVars, boxVars>>
  BY WorkerTyped DEF ListBox, ListCount, ListNext, ListLast, ListCopy, ListSend, At, Typed
<1>2. Unharmed(w) /\ pc[w] \in Handling /\ pc[w] \notin {"idle", "clear", "reset", "size"}
  BY <1>1, UnharmedStill DEF Handling, boxVars
<1>3. ASSUME NEW l \in {"listSend", "listNext", "listLast", "listCopy"}, NEW rec, IsWork(rec), Goto(w, l, rec)
      PROVE  Tidy'
  BY <1>2, <1>3, GotoTidy, CarelessLabels
<1>4. CASE Done(w)
  BY <1>2, <1>4, DoneTidy
<1>5. CASE ListCount(w)
  <2> DEFINE zero == [work[w] EXCEPT !.tmp = 0, !.msg = create_zero_response(RESPONSE_LIST_BOX)]
             rec == [work[w] EXCEPT !.tmp = 0]
  <2>1. Goto(w, "listSend", zero) \/ Goto(w, "listNext", rec)
    BY <1>5, Zenon DEF ListCount
  <2>2. IsWork(zero) /\ IsWork(rec)
    BY <1>1, SetTmp, SetTmpMsg
  <2> HIDE DEF zero, rec
  <2> QED
    BY <1>3, <2>1, <2>2
<1>6. CASE ListNext(w)
  BY <1>1, <1>3, <1>4, <1>6, SetTmp DEF ListNext
<1>7. CASE ListLast(w)
  BY <1>1, <1>3, <1>7, SetLast DEF ListLast
<1>8. CASE ListCopy(w)
  BY <1>1, <1>3, <1>8, SetMsg DEF ListCopy
<1>9. CASE ListSend(w)
  BY <1>1, <1>3, <1>4, <1>9, SetMsg DEF ListSend
<1> QED
  BY <1>5, <1>6, <1>7, <1>8, <1>9 DEF ListBox

\* get_box finds a box of the name, and None only when there is none.
LEMMA GetBoxIs ==
  ASSUME NEW n
  PROVE  \/ GetBox(n) = None /\ NoBox(table, n)
         \/ GetBox(n) # None /\ GetBox(n) \in Slots /\ ~table[GetBox(n)].free /\ table[GetBox(n)].name = n
<1> DEFINE S == {i \in Slots : ~table[i].free /\ table[i].name = n}
<1>1. S \in SUBSET Nat
  BY DEF Slots
<1>2. GetBox(n) = IF S = {} THEN None ELSE First(S)
  BY DEF GetBox
<1>3. CASE S = {}
  BY <1>2, <1>3 DEF NoBox
<1>4. CASE S # {}
  <2>1. GetBox(n) \in S
    BY <1>1, <1>2, <1>4, FirstInSet
  <2> QED
    BY <2>1, BrokerSizes
<1> QED
  BY <1>3, <1>4

\* A handler looks its box up by name (get_box): boxes and files stay together.
LEMMA LookupTidy == ASSUME Typed, Tidy, NEW w \in Workers, LookupBox(w) PROVE Tidy'
<1> DEFINE i == GetBox(Box(w))
           rec == [work[w] EXCEPT !.slot = i]
<1>1. IsWork(work[w]) /\ LocalsTyped("lookup", work[w]) /\ pc[w] = "lookup"
  BY AtTyped DEF LookupBox
<1>2. UNCHANGED <<fsVars, boxVars>> /\ pc[w] \in Handling
  BY <1>1 DEF LookupBox, Handling
<1>3. Unharmed(w) /\ table' = table
  BY <1>2, UnharmedStill DEF boxVars
<1>4. \/ Answer(w, -1)
      \/ i = None /\ Goto(w, "slot", work[w])
      \/ Goto(w, "deny", work[w])
      \/ i # None /\ \E l \in {"busy", "check", "read"} : Goto(w, l, rec)
  BY <1>1 DEF LookupBox, LocalsTyped, RegisterRequests, Jump
<1>5. IsWork(rec) /\ rec.slot = i /\ rec.box = Box(w)
  BY <1>1, SetSlot DEF Box
<1>6. CASE Answer(w, -1)
  BY <1>1, <1>2, <1>3, <1>6, AnswerTidy
<1>7. CASE Goto(w, "deny", work[w])
  BY <1>1, <1>2, <1>3, <1>7, GotoTidy, CarelessLabels
<1>8. CASE i = None /\ Goto(w, "slot", work[w])
  <2>1. NoBox(table, Box(w))
    BY <1>8, GetBoxIs
  <2>2. Kept(table', "slot", work[w])
    BY <1>3, <2>1 DEF Kept, NamedLabels, NoPubLabels, PubLabels, Box
  <2>3. FileKept(table', entry', node', oft', "slot", work[w]) /\ "slot" \notin PubLabels
    BY DEF FileKept, PubLabels
  <2>4. Moves(w, "slot", work[w]) /\ UNCHANGED bqVars
    BY <1>1, <1>8, GotoMoves DEF Typed
  <2> QED
    BY <1>1, <1>2, <1>3, <2>2, <2>3, <2>4, LocalTidy
<1>9. CASE i # None /\ \E l \in {"busy", "check", "read"} : Goto(w, l, rec)
  <2>1. ~table[i].free /\ table[i].name = Box(w)
    BY <1>9, GetBoxIs
  <2> HIDE DEF rec, i
  <2>2. PICK l \in {"busy", "check", "read"} : Goto(w, l, rec)
    BY <1>9
  <2>3. Kept(table', l, rec)
    BY <1>3, <1>5, <2>1, <2>2 DEF Kept, NewLabels, NamedLabels, NoPubLabels, PubLabels
  <2>4. FileKept(table', entry', node', oft', l, rec) /\ l \notin PubLabels
    BY <2>2 DEF FileKept, PubLabels
  <2>5. Moves(w, l, rec) /\ UNCHANGED bqVars
    BY <1>5, <2>2, GotoMoves DEF Typed
  <2> QED
    BY <1>1, <1>2, <1>3, <2>2, <2>3, <2>4, <2>5, LocalTidy
<1> QED
  BY <1>4, <1>6, <1>7, <1>8, <1>9

\* What w knows.
LEMMA KnowsTidy ==
  ASSUME Tidy, NEW w \in Workers
  PROVE  /\ Kept(table, pc[w], work[w])
         /\ FileKept(table, entry, node, oft, pc[w], work[w])
  BY DEF Tidy, TidyBoxes, TidyFiles, WorkersKept, WorkersFiles

\* create_box looks for a free slot: boxes and files stay together.
LEMMA CreateSlotTidy == ASSUME Typed, Tidy, NEW w \in Workers, CreateSlot(w) PROVE Tidy'
<1> DEFINE S == {i \in Slots : table[i].free}
           rec == [work[w] EXCEPT !.tmp = First(S)]
<1>1. IsWork(work[w]) /\ LocalsTyped("slot", work[w]) /\ pc[w] = "slot"
  BY AtTyped DEF CreateSlot
<1>2. UNCHANGED <<fsVars, boxVars>> /\ pc[w] \in Handling
  BY <1>1 DEF CreateSlot, Handling
<1>3. Unharmed(w) /\ table' = table
  BY <1>2, UnharmedStill DEF boxVars
<1>4. Answer(w, -1) \/ (S # {} /\ Goto(w, "create", rec))
  BY DEF CreateSlot
<1>5. CASE Answer(w, -1)
  BY <1>1, <1>2, <1>3, <1>5, AnswerTidy
<1>6. CASE S # {} /\ Goto(w, "create", rec)
  <2>1. S \in SUBSET Nat
    BY DEF Slots
  <2>2. First(S) \in S
    BY <1>6, <2>1, FirstInSet
  <2>3. IsWork(rec) /\ rec.tmp = First(S) /\ rec.box = work[w].box
    BY <1>1, SetTmp
  <2>4. NoBox(table, work[w].box)
    BY <1>1, KnowsTidy DEF Kept, NewLabels
  <2> HIDE DEF rec
  <2>5. Kept(table', "create", rec)
    BY <1>3, <2>2, <2>3, <2>4 DEF Kept, NamedLabels, NoPubLabels, PubLabels
  <2>6. FileKept(table', entry', node', oft', "create", rec) /\ "create" \notin PubLabels
    BY DEF FileKept, PubLabels
  <2>7. Moves(w, "create", rec) /\ UNCHANGED bqVars
    BY <1>6, <2>3, GotoMoves DEF Typed
  <2> QED
    BY <1>1, <1>2, <1>3, <2>5, <2>6, <2>7, LocalTidy
<1> QED
  BY <1>4, <1>5, <1>6

\* create_box closes the new file: boxes and files stay together.
LEMMA CreateCloseTidy == ASSUME Typed, Tidy, NEW w \in Workers, CreateClose(w) PROVE Tidy'
<1> DEFINE rec == [work[w] EXCEPT !.slot = work[w].tmp]
<1>1. IsWork(work[w]) /\ pc[w] = "closeNew" /\ pc[w] \in HandleLabels /\ pc[w] \in Handling
  BY AtTyped DEF CreateClose, HandleLabels, Handling
<1>2. IsWork(rec) /\ rec.slot = work[w].tmp /\ rec.box = work[w].box
  BY <1>1, SetSlot
<1>3. Goto(w, "name", rec) /\ TfsClose(Fd(w)) /\ table' = table
  BY DEF CreateClose, Fd, boxVars
<1> HIDE DEF rec
<1>4. SameFiles /\ SameWriters(w)
  BY <1>1, <1>3, ClosedFs, WritersStay DEF TfsClose, SameFiles
<1>5. Unharmed(w)
  BY <1>3, <1>4 DEF Unharmed, SameBoxes, SameSizes
<1>6. Kept(table', "name", rec)
  BY <1>1, <1>2, <1>3, KnowsTidy DEF Kept, NewLabels, NamedLabels, NoPubLabels, PubLabels
<1>7. FileKept(table', entry', node', oft', "name", rec) /\ "name" \notin PubLabels
  BY <1>1, <1>2, <1>4, KnowsTidy DEF FileKept, SameFiles, PubLabels
<1>8. Moves(w, "name", rec) /\ UNCHANGED bqVars
  BY <1>2, <1>3, GotoMoves DEF Typed
<1> QED
  BY <1>1, <1>5, <1>6, <1>7, <1>8, LocalTidy

\* remove_box refuses a box with a publisher: boxes and files stay together.
LEMMA RemoveBusyTidy == ASSUME Typed, Tidy, NEW w \in Workers, RemoveBusy(w) PROVE Tidy'
<1>1. IsWork(work[w]) /\ pc[w] = "busy" /\ pc[w] \in Handling
  BY AtTyped DEF RemoveBusy, Handling
<1>2. UNCHANGED <<fsVars, boxVars>> /\ table' = table
  BY DEF RemoveBusy, boxVars
<1>3. Unharmed(w)
  BY <1>2, UnharmedStill
<1>4. \/ Answer(w, -1)
      \/ ~(table[Slot(w)].pubs > 0) /\ Goto(w, "unlink", work[w])
  BY DEF RemoveBusy, Jump
<1>5. CASE Answer(w, -1)
  BY <1>1, <1>3, <1>5, AnswerTidy
<1>6. CASE ~(table[Slot(w)].pubs > 0) /\ Goto(w, "unlink", work[w])
  <2>1. table[Slot(w)].pubs = 0
    <3>1. table[Slot(w)].pubs \in Nat
      BY SlotTyped, SlotLabelsAre DEF RemoveBusy
    <3> QED
      BY <1>6, <3>1
  <2>2. Kept(table', "unlink", work[w])
    BY <1>1, <1>2, <2>1, KnowsTidy DEF Kept, NewLabels, NamedLabels, NoPubLabels, PubLabels, Slot
  <2>3. FileKept(table', entry', node', oft', "unlink", work[w]) /\ "unlink" \notin PubLabels
    BY DEF FileKept, PubLabels
  <2>4. Moves(w, "unlink", work[w]) /\ UNCHANGED bqVars
    BY <1>1, <1>6, GotoMoves DEF Typed
  <2> QED
    BY <1>1, <1>3, <2>2, <2>3, <2>4, LocalTidy
<1> QED
  BY <1>4, <1>5, <1>6

\* remove_box closes the pipes of the subscribers and wakes them: boxes and
\* files stay together.
LEMMA RemoveEndTidy ==
  ASSUME Typed, Tidy, NEW w \in Workers, RemoveHangup(w) \/ RemoveHangupFails(w) \/ RemoveWake(w)
  PROVE  Tidy'
<1>1. CASE RemoveHangup(w) \/ RemoveHangupFails(w)
  <2>1. pc[w] = "hangup" /\ At(w, "hangup")
    BY <1>1 DEF RemoveHangup, RemoveHangupFails, At
  <2>2. PICK S, q, r : q \in {"wake", "reply"} /\ Hangup(w, S, q, r)
    BY <1>1 DEF RemoveHangup, RemoveHangupFails
  <2>3. UNCHANGED fsVars /\ UNCHANGED bqVars
    BY <2>2 DEF Hangup
  <2>4. Unharmed(w)
    BY <2>1, <2>2, <2>3, HangupTable, UnharmedCount
  <2>5. \E rec : Moves(w, q, rec)
    <3>1. At(w, "hangup") /\ Hangup(w, S, q, r)
      BY <2>1, <2>2
    <3> QED
      BY <3>1, HangupMoves, Zenon
  <2> QED
    BY <2>1, <2>2, <2>3, <2>4, <2>5, CarelessTidy, CarelessLabels DEF Handling
<1>2. CASE RemoveWake(w)
  <2>1. pc[w] = "wake" /\ Answer(w, 0) /\ UNCHANGED <<fsVars, table>>
    BY <1>2 DEF RemoveWake, At
  <2> QED
    BY <2>1, AnswerTidy, UnharmedStill DEF Handling
<1> QED
  BY <1>1, <1>2

\* A manager is answered, a client is denied: boxes and files stay together.
LEMMA ReplyTidy == ASSUME Typed, Tidy, NEW w \in Workers, Reply(w) \/ Deny(w) PROVE Tidy'
  BY GiveUpTidy DEF Reply, Deny, At

-----------------------------------------------------------------------------
(* Publishers, as long as they leave boxes and files alone *)

\* register_publisher looks at n_publisher: boxes and files stay together.
LEMMA PubCheckTidy == ASSUME Typed, Tidy, NEW w \in Workers, PubCheck(w) PROVE Tidy'
<1>1. IsWork(work[w]) /\ pc[w] = "check" /\ pc[w] \in Handling
  BY AtTyped DEF PubCheck, Handling
<1>2. UNCHANGED <<fsVars, boxVars>> /\ table' = table
  BY DEF PubCheck, boxVars
<1>3. Unharmed(w)
  BY <1>2, UnharmedStill
<1>4. \/ Goto(w, "deny", work[w])
      \/ table[Slot(w)].pubs = 0 /\ Goto(w, "count", work[w])
  BY DEF PubCheck, Jump
<1>5. CASE Goto(w, "deny", work[w])
  BY <1>1, <1>3, <1>5, GotoTidy, CarelessLabels
<1>6. CASE table[Slot(w)].pubs = 0 /\ Goto(w, "count", work[w])
  <2>1. Kept(table', "count", work[w])
    BY <1>1, <1>2, <1>6, KnowsTidy DEF Kept, NewLabels, NamedLabels, NoPubLabels, PubLabels, Slot
  <2>2. FileKept(table', entry', node', oft', "count", work[w]) /\ "count" \notin PubLabels
    BY DEF FileKept, PubLabels
  <2>3. Moves(w, "count", work[w]) /\ UNCHANGED bqVars
    BY <1>1, <1>6, GotoMoves DEF Typed
  <2> QED
    BY <1>1, <1>3, <2>1, <2>2, <2>3, LocalTidy
<1> QED
  BY <1>4, <1>5, <1>6

\* A session goes on, and has no file open that it may append to.
LEMMA PubTidy ==
  ASSUME Typed, Tidy, NEW w \in Workers, NEW q \in PubLabels \ {"write", "size"}, NEW r, Moves(w, q, r),
         r.box = Box(w), r.slot = Slot(w), UNCHANGED <<bqVars, table>>, SameFiles, SameWriters(w),
         pc[w] \in PubLabels \ {"size"}
  PROVE  Tidy'
<1>1. Kept(table', q, r)
  BY KnowsTidy DEF Kept, NewLabels, NamedLabels, NoPubLabels, PubLabels, Box, Slot
<1>2. FileKept(table', entry', node', oft', q, r)
  BY DEF FileKept, PubLabels
<1>3. Unharmed(w) /\ UNCHANGED bqVars
  BY DEF Unharmed, SameBoxes, SameSizes
<1>4. q \notin Handling /\ pc[w] \notin {"idle", "clear", "reset", "size"}
  BY DEF Handling, PubLabels
<1> QED
  BY <1>1, <1>2, <1>3, <1>4, LocalTidy

\* A publisher's session goes on within its labels and leaves files and boxes
\* alone.
LEMMA PubJumpTidy ==
  ASSUME Typed, Tidy, NEW w \in Workers, NEW q \in PubLabels \ {"write", "size"}, Jump(w, q),
         UNCHANGED <<fsVars, table>>, pc[w] \in PubLabels \ {"size"}
  PROVE  Tidy'
<1>1. Moves(w, q, work[w]) /\ UNCHANGED bqVars
  BY WorkerTyped, GotoMoves DEF Typed, Jump
<1>2. SameFiles /\ SameWriters(w) /\ table' = table
  BY DEF SameFiles, SameWriters, fsVars
<1> QED
  BY <1>1, <1>2, PubTidy DEF Box, Slot

\* A publisher's session opens its client's pipe, takes the mutex or wakes the
\* subscribers.
LEMMA PubPipeTidy ==
  ASSUME Typed, Tidy, NEW w \in Workers, PubPipe(w) \/ PubLock(w) \/ PubAnnounce(w)
  PROVE  Tidy'
<1>1. pc[w] \in {"pubPipe", "pubLock", "announce"}
  BY DEF PubPipe, PubLock, PubAnnounce, At
<1>2. \/ GiveUp(w)
      \/ /\ UNCHANGED <<fsVars, table>>
         /\ \E q \in {"receive", "append", "release"} : Jump(w, q)
  BY DEF PubPipe, PubLock, PubAnnounce, boxVars
<1> QED
  BY <1>1, <1>2, GiveUpTidy, PubJumpTidy DEF PubLabels

-----------------------------------------------------------------------------
(* Handlers that change boxes *)

\* While w handles a request no other worker does.
LEMMA OthersQuiet ==
  ASSUME Tidy, NEW w \in Workers, pc[w] \in Handling, NEW v \in Workers \ {w}
  PROVE  /\ pc[v] \notin Handling
         /\ pc[v] \in KeptLabels => pc[v] \in PubLabels
         /\ pc[v] \in FileLabels => pc[v] \in {"size", "write"}
<1>1. pc[v] \notin Handling
  BY DEF Tidy, OneRequest, Busy
<1>2. KeptLabels \ PubLabels \subseteq Handling /\ FileLabels \ {"size", "write"} \subseteq Handling
  BY DEF KeptLabels, NewLabels, NamedLabels, FileLabels, Handling
<1> QED
  BY <1>1, <1>2

\* A slot without publishers has no session in progress.
LEMMA NoSession ==
  ASSUME Typed, Tidy, NEW i \in Slots, table[i].pubs = 0, NEW v \in Workers, pc[v] \in PubLabels
  PROVE  Slot(v) # i /\ Slot(v) \in Slots /\ ~table[Slot(v)].free /\ table[Slot(v)].name = Box(v)
<1>1. Slot(v) \in Slots
  BY KeptTyped DEF NamedLabels
<1> QED
  BY <1>1, KnowsTidy DEF Kept, NamedLabels, Slot, Box

\* A handler gives a slot without publishers another name, or counts one.
LEMMA BoxesChange ==
  ASSUME Typed, Tidy, NEW w \in Workers, NEW q, NEW r, Moves(w, q, r), pc[w] \in Handling,
         NEW i \in Slots, NEW f, NEW n, NEW z, NEW p, Becomes(i, f, n, z, p), table[i].pubs = 0,
         IF f THEN p = 0 ELSE n \in Boxes,
         ~f => \A j \in Slots \ {i} : ~table[j].free => table[j].name # n,
         q \in PubLabels => r.slot = i,
         Kept(table', q, r)
  PROVE  TidyBoxes'
<1>1. pc'[w] = q /\ Same(work'[w], r) /\ \A v \in Workers \ {w} : pc'[v] = pc[v] /\ Same(work'[v], work[v])
  BY MovesPc DEF Typed
<1>2. /\ table'[i].free = f /\ table'[i].name = n /\ table'[i].pubs = p
      /\ \A j \in Slots \ {i} : table'[j] = table[j]
  BY DEF Becomes
<1>3. BoxesKept
  BY DEF Tidy, TidyBoxes
<1>4. BoxesKept'
  <2>1. \A j \in Slots : IF table'[j].free THEN table'[j].pubs = 0 ELSE table'[j].name \in Boxes
    BY <1>2, <1>3 DEF BoxesKept
  <2>2. \A j, k \in Slots : ~table'[j].free /\ ~table'[k].free /\ table'[j].name = table'[k].name => j = k
    BY <1>2, <1>3 DEF BoxesKept
  <2>3. \A v \in Workers \ {w} : pc'[v] \in PubLabels =>
          pc[v] \in PubLabels /\ work'[v].slot = Slot(v) /\ work'[v].slot # i
    BY <1>1, NoSession DEF Same, Slot
  <2>4. q \in PubLabels => work'[w].slot = i
    BY <1>1 DEF Same
  <2>5. ASSUME NEW u \in Workers, NEW v \in Workers, pc'[u] \in PubLabels, pc'[v] \in PubLabels,
               work'[u].slot = work'[v].slot
        PROVE  u = v
    BY <1>1, <1>3, <2>3, <2>4, <2>5 DEF BoxesKept
  <2> QED
    BY <2>1, <2>2, <2>5 DEF BoxesKept, Slot
<1>5. ASSUME NEW v \in Workers PROVE Kept(table', pc'[v], work'[v])
  <2>1. CASE v = w
    BY <1>1, <2>1 DEF Kept, Same
  <2>2. CASE v # w
    <3>1. Kept(table, pc[v], work[v]) /\ pc'[v] = pc[v] /\ Same(work'[v], work[v])
      BY <1>1, <2>2, KnowsTidy
    <3>2. pc[v] \in KeptLabels => pc[v] \in PubLabels
      BY <2>2, OthersQuiet
    <3>3. CASE pc[v] \in PubLabels
      <4>1. table'[work[v].slot] = table[work[v].slot]
        BY <1>2, <3>3, NoSession DEF Slot
      <4>2. pc[v] \notin NewLabels /\ pc[v] # "name"
        BY <3>3 DEF PubLabels, NewLabels
      <4>3. pc[v] \notin {"create", "closeNew"}
        BY <3>3 DEF PubLabels
      <4> QED
        BY <3>1, <4>1, <4>2, <4>3 DEF Kept, Same
    <3>4. CASE pc[v] \notin KeptLabels
      BY <3>1, <3>4 DEF Kept, KeptLabels, NewLabels, NamedLabels, NoPubLabels
    <3> QED
      BY <3>2, <3>3, <3>4
  <2> QED
    BY <2>1, <2>2
<1> QED
  BY <1>4, <1>5 DEF TidyBoxes, WorkersKept

\* What the others know of files is left as it is.
LEMMA FilesBecome ==
  ASSUME Typed, Tidy, NEW w \in Workers, NEW q, NEW r, Moves(w, q, r), pc[w] \in Handling, UNCHANGED fsVars,
         NEW i \in Slots, NEW f, NEW n, NEW z, NEW p, Becomes(i, f, n, z, p), table[i].pubs = 0,
         FileKept(table', entry, node, oft, q, r)
  PROVE  WorkersFiles' /\ BlocksOwned'
<1>1. pc'[w] = q /\ Same(work'[w], r) /\ \A v \in Workers \ {w} : pc'[v] = pc[v] /\ Same(work'[v], work[v])
  BY MovesPc DEF Typed
<1>2. entry' = entry /\ node' = node /\ oft' = oft /\ takenI' = takenI /\ takenB' = takenB
  BY DEF fsVars
<1>3. ASSUME NEW v \in Workers PROVE FileKept(table', entry, node, oft, pc'[v], work'[v])
  <2>1. CASE v = w
    BY <1>1, <2>1 DEF FileKept, Same
  <2>2. CASE v # w
    <3>1. FileKept(table, entry, node, oft, pc[v], work[v]) /\ pc'[v] = pc[v] /\ Same(work'[v], work[v])
      BY <1>1, <2>2, KnowsTidy
    <3>2. pc[v] \in FileLabels => pc[v] \in {"size", "write"}
      BY <2>2, OthersQuiet
    <3>3. pc[v] = "size" => table'[work[v].slot] = table[work[v].slot]
      BY NoSession DEF Becomes, PubLabels, Slot
    <3> QED
      BY <3>1, <3>2, <3>3 DEF FileKept, FileLabels, Same
  <2> QED
    BY <2>1, <2>2
<1> QED
  BY <1>2, <1>3 DEF WorkersFiles, BlocksOwned, Tidy, TidyFiles

\* Who is at a label of L, other than w, was there before.
LEMMA NobodyElse ==
  ASSUME Typed, NEW w \in Workers, NEW q, NEW r, Moves(w, q, r), NEW L, NEW i, Nobody(L, i)',
         pc[w] \in L => Slot(w) # i
  PROVE  Nobody(L, i)
<1>1. \A v \in Workers \ {w} : pc'[v] = pc[v] /\ Same(work'[v], work[v])
  BY MovesPc DEF Typed
<1>2. ASSUME NEW v \in Workers, pc[v] \in L PROVE work[v].slot # i
  BY <1>1, <1>2 DEF Nobody, Slot, Same
<1> QED
  BY <1>2 DEF Nobody, Slot

\* create_box takes the slot it found free for a name that no box has, and the
\* file of the name is empty.
LEMMA CreateNameTidy == ASSUME Typed, Tidy, NEW w \in Workers, CreateName(w) PROVE Tidy'
<1> DEFINE i == Slot(w)
           n == Box(w)
           z == table[i].size
           p == table[i].pubs
<1>1. IsWork(work[w]) /\ LocalsTyped("name", work[w]) /\ pc[w] = "name" /\ pc[w] \in Handling
  BY AtTyped DEF CreateName, Handling
<1>2. i \in Slots /\ n \in Boxes
  BY <1>1, KeptTyped DEF KeptLabels, NewLabels
<1>3. table[i].free /\ p = 0 /\ NoBox(table, n) /\ entry[n] # None /\ node[entry[n]].size = 0
  <2>1. table[i].free /\ NoBox(table, n) /\ entry[n] # None /\ node[entry[n]].size = 0
    BY <1>1, KnowsTidy DEF Kept, FileKept, NewLabels, Slot, Box
  <2> QED
    BY <1>2, <2>1 DEF Tidy, TidyBoxes, BoxesKept
<1>4. Becomes(i, FALSE, n, z, p)
  BY CreateNameTable
<1>5. /\ table'[i].free = FALSE /\ table'[i].name = n /\ table'[i].pubs = p
      /\ \A j \in Slots \ {i} : table'[j] = table[j]
  BY <1>4 DEF Becomes
<1>6. Moves(w, "reset", work[w]) /\ UNCHANGED bqVars /\ UNCHANGED fsVars
  BY <1>1, GotoMoves DEF CreateName, Jump, Typed
<1>7. Kept(table', "reset", work[w])
  BY <1>2, <1>3, <1>5 DEF Kept, NewLabels, NamedLabels, NoPubLabels, PubLabels, Slot, Box
<1>8. FileKept(table', entry, node, oft, "reset", work[w])
  BY <1>3 DEF FileKept, Box
<1>9. OneRequest'
  BY <1>1, <1>6, OneRequestMoves DEF Tidy
<1> HIDE DEF i, n, z, p
<1>10. TidyBoxes'
  <2>1. ASSUME NEW f, f = FALSE, Becomes(i, f, n, z, p) PROVE TidyBoxes'
    <3>1. \A j \in Slots \ {i} : ~table[j].free => table[j].name # n
      BY <1>3 DEF NoBox
    <3>2. "reset" \notin PubLabels
      BY DEF PubLabels
    <3>3. table[i].pubs = 0
      BY <1>3 DEF p
    <3> QED
      BY <1>1, <1>2, <1>6, <1>7, <2>1, <3>1, <3>2, <3>3, BoxesChange
  <2> QED
    BY <1>4, <2>1, Zenon
<1>11. WorkersFiles' /\ BlocksOwned'
  <2>1. ASSUME NEW f, Becomes(i, f, n, z, p) PROVE WorkersFiles' /\ BlocksOwned'
    BY <1>1, <1>2, <1>3, <1>6, <1>8, <2>1, FilesBecome DEF p
  <2> QED
    BY <1>4, <2>1, Zenon
<1>12. FilesKept'
  <2>1. pc'[w] = "reset" /\ work'[w].slot = i
    BY <1>6, MovesPc DEF Typed, Same, i, Slot
  <2>2. \A m : NoBox(table', m) => NoBox(table, m)
    BY <1>2, <1>3, <1>5 DEF NoBox
  <2>3. entry' = entry /\ node' = node
    BY <1>6 DEF fsVars
  <2>4. ASSUME NEW j \in Slots, ~table'[j].free, Nobody({"clear"}, j)' PROVE entry'[table'[j].name] # None
    <3>1. CASE j = i
      BY <1>3, <1>5, <2>3, <3>1 DEF Exists
    <3>2. CASE j # i
      <4>1. Nobody({"clear"}, j)
        BY <1>1, <1>6, <2>4, NobodyElse
      <4> QED
        BY <1>5, <2>3, <2>4, <3>2, <4>1 DEF Tidy, TidyFiles, FilesKept, Exists
    <3> QED
      BY <3>1, <3>2
  <2>5. ASSUME NEW j \in Slots, ~table'[j].free, Nobody({"reset", "clear", "size"}, j)'
        PROVE  table'[j].size = node'[entry'[table'[j].name]].size
    <3>1. j # i
      BY <2>1, <2>5 DEF Nobody, Slot
    <3>2. Nobody({"reset", "clear", "size"}, j)
      BY <1>1, <1>6, <2>5, NobodyElse
    <3> QED
      BY <1>5, <2>3, <2>5, <3>1, <3>2 DEF Tidy, TidyFiles, FilesKept, FileSize
  <2>6. ASSUME NEW m \in Boxes, entry'[m] # None, NoBox(table', m) PROVE node'[entry'[m]].size = 0
    BY <2>2, <2>3, <2>6 DEF Tidy, TidyFiles, FilesKept, Exists, FileSize
  <2> QED
    BY <2>4, <2>5, <2>6 DEF FilesKept, Exists, FileSize
<1> QED
  BY <1>9, <1>10, <1>11, <1>12 DEF Tidy, TidyFiles

\* create_box sets the size of its box to 0, the size of its file.
LEMMA CreateResetTidy == ASSUME Typed, Tidy, NEW w \in Workers, CreateReset(w) PROVE Tidy'
<1> DEFINE i == Slot(w)
           f == table[i].free
           n == table[i].name
<1>1. pc[w] = "reset" /\ pc[w] \in Handling
  BY DEF CreateReset, At, Handling
<1>2. i \in Slots
  BY <1>1, KeptTyped DEF NamedLabels
<1>3. ~f /\ n = Box(w) /\ table[i].pubs = 0 /\ entry[n] # None /\ node[entry[n]].size = 0
  BY <1>1, KnowsTidy DEF Kept, FileKept, NamedLabels, NoPubLabels, Slot, Box
<1>4. Becomes(i, f, n, 0, 0)
  BY CreateResetTable
<1>5. /\ table'[i].free = f /\ table'[i].name = n /\ table'[i].pubs = 0 /\ table'[i].size = 0
      /\ \A j \in Slots \ {i} : table'[j] = table[j]
  BY <1>4 DEF Becomes
<1>6. Answer(w, 0) /\ UNCHANGED fsVars
  BY DEF CreateReset
<1>7. PICK r : Moves(w, "reply", r)
  BY <1>6, AnswerMoves DEF Typed
<1>8. UNCHANGED bqVars
  BY <1>6, AnswerMoves DEF Typed
<1>9. Kept(table', "reply", r) /\ FileKept(table', entry, node, oft, "reply", r) /\ "reply" \notin PubLabels
  BY DEF Kept, FileKept, NewLabels, NamedLabels, NoPubLabels, PubLabels
<1>10. OneRequest'
  BY <1>1, <1>7, <1>8, OneRequestMoves DEF Tidy
<1>11. TidyBoxes'
  <2>1. SameBoxes
    BY <1>2, <1>3, <1>5 DEF SameBoxes
  <2> QED
    BY <1>7, <1>9, <2>1, BoxesMove DEF Tidy
<1> HIDE DEF i, f, n
<1>12. WorkersFiles' /\ BlocksOwned'
  BY <1>1, <1>2, <1>3, <1>4, <1>6, <1>7, <1>9, FilesBecome
<1>13. FilesKept'
  <2>1. /\ \A j \in Slots : table'[j].free = table[j].free /\ table'[j].name = table[j].name
        /\ \A m : NoBox(table', m) => NoBox(table, m)
    BY <1>2, <1>5 DEF NoBox, f, n
  <2>2. entry' = entry /\ node' = node
    BY <1>6 DEF fsVars
  <2>3. ASSUME NEW j \in Slots, ~table'[j].free, Nobody({"clear"}, j)' PROVE entry'[table'[j].name] # None
    <3>1. Nobody({"clear"}, j)
      BY <1>1, <1>7, <2>3, NobodyElse
    <3> QED
      BY <2>1, <2>2, <2>3, <3>1 DEF Tidy, TidyFiles, FilesKept, Exists
  <2>4. ASSUME NEW j \in Slots, ~table'[j].free, Nobody({"reset", "clear", "size"}, j)'
        PROVE  table'[j].size = node'[entry'[table'[j].name]].size
    <3>1. CASE j = i
      BY <1>3, <1>5, <2>2, <3>1 DEF FileSize
    <3>2. CASE j # i
      <4>1. Nobody({"reset", "clear", "size"}, j)
        BY <1>1, <1>7, <2>4, <3>2, NobodyElse DEF i
      <4> QED
        BY <1>5, <2>2, <2>4, <3>2, <4>1 DEF Tidy, TidyFiles, FilesKept, FileSize
    <3> QED
      BY <3>1, <3>2
  <2>5. ASSUME NEW m \in Boxes, entry'[m] # None, NoBox(table', m) PROVE node'[entry'[m]].size = 0
    BY <2>1, <2>2, <2>5 DEF Tidy, TidyFiles, FilesKept, Exists, FileSize
  <2> QED
    BY <2>3, <2>4, <2>5 DEF FilesKept, Exists, FileSize
<1> QED
  BY <1>10, <1>11, <1>12, <1>13 DEF Tidy, TidyFiles

\* remove_box frees the slot whose file is gone.
LEMMA RemoveClearTidy == ASSUME Typed, Tidy, NEW w \in Workers, RemoveClear(w) PROVE Tidy'
<1> DEFINE i == Slot(w)
<1>1. IsWork(work[w]) /\ pc[w] = "clear" /\ pc[w] \in Handling
  BY AtTyped DEF RemoveClear, Handling
<1>2. i \in Slots
  BY <1>1, KeptTyped DEF NamedLabels
<1>3. ~table[i].free /\ table[i].name = Box(w) /\ table[i].pubs = 0 /\ entry[Box(w)] = None
  BY <1>1, KnowsTidy DEF Kept, FileKept, NamedLabels, NoPubLabels, Slot, Box
<1>4. Becomes(i, TRUE, None, 0, 0)
  BY RemoveClearTable
<1>5. table'[i].free = TRUE /\ \A j \in Slots \ {i} : table'[j] = table[j]
  BY <1>4 DEF Becomes
<1>6. Moves(w, "hangup", work[w]) /\ UNCHANGED bqVars /\ UNCHANGED fsVars
  BY <1>1, GotoMoves DEF RemoveClear, Jump, Typed
<1>7. Kept(table', "hangup", work[w]) /\ FileKept(table', entry, node, oft, "hangup", work[w]) /\ "hangup" \notin PubLabels
  BY DEF Kept, FileKept, NewLabels, NamedLabels, NoPubLabels, PubLabels
<1>8. OneRequest'
  BY <1>1, <1>6, OneRequestMoves DEF Tidy
<1> HIDE DEF i
<1>9. TidyBoxes'
  <2>1. ASSUME NEW f, f = TRUE, Becomes(i, f, None, 0, 0) PROVE TidyBoxes'
    <3>1. /\ IF f THEN 0 = 0 ELSE None \in Boxes
          /\ ~f => \A j \in Slots \ {i} : ~table[j].free => table[j].name # None
      BY <2>1
    <3> QED
      BY <1>1, <1>2, <1>3, <1>6, <1>7, <2>1, <3>1, BoxesChange
  <2> QED
    BY <1>4, <2>1, Zenon
<1>10. WorkersFiles' /\ BlocksOwned'
  <2>1. ASSUME NEW f, Becomes(i, f, None, 0, 0) PROVE WorkersFiles' /\ BlocksOwned'
    BY <1>1, <1>2, <1>3, <1>6, <1>7, <2>1, FilesBecome
  <2> QED
    BY <1>4, <2>1, Zenon
<1>11. FilesKept'
  <2>1. entry' = entry /\ node' = node
    BY <1>6 DEF fsVars
  <2>2. ASSUME NEW j \in Slots, ~table'[j].free, NEW L, Nobody(L, j)' PROVE j # i /\ Nobody(L, j)
    <3>1. j # i
      BY <1>5, <2>2
    <3> QED
      BY <1>6, <2>2, <3>1, NobodyElse DEF i
  <2>3. ASSUME NEW j \in Slots, ~table'[j].free, Nobody({"clear"}, j)' PROVE entry'[table'[j].name] # None
    <3>1. j # i /\ Nobody({"clear"}, j)
      BY <2>2, <2>3
    <3> QED
      BY <1>5, <2>1, <2>3, <3>1 DEF Tidy, TidyFiles, FilesKept, Exists
  <2>4. ASSUME NEW j \in Slots, ~table'[j].free, Nobody({"reset", "clear", "size"}, j)'
        PROVE  table'[j].size = node'[entry'[table'[j].name]].size
    <3>1. j # i /\ Nobody({"reset", "clear", "size"}, j)
      BY <2>2, <2>4
    <3> QED
      BY <1>5, <2>1, <2>4, <3>1 DEF Tidy, TidyFiles, FilesKept, FileSize
  <2>5. ASSUME NEW m \in Boxes, entry'[m] # None, NoBox(table', m) PROVE node'[entry'[m]].size = 0
    <3>1. m # Box(w)
      BY <1>3, <2>1, <2>5 DEF Exists
    <3>2. NoBox(table, m)
      BY <1>3, <1>5, <2>5, <3>1 DEF NoBox
    <3> QED
      BY <2>1, <2>5, <3>2 DEF Tidy, TidyFiles, FilesKept, Exists, FileSize
  <2> QED
    BY <2>3, <2>4, <2>5 DEF FilesKept, Exists, FileSize
<1> QED
  BY <1>8, <1>9, <1>10, <1>11 DEF Tidy, TidyFiles

\* register_publisher counts the only publisher of the box.
LEMMA PubCountTidy == ASSUME Typed, Tidy, NEW w \in Workers, PubCount(w) PROVE Tidy'
<1> DEFINE i == Slot(w)
           f == table[i].free
           n == table[i].name
           z == table[i].size
<1>1. IsWork(work[w]) /\ LocalsTyped("count", work[w]) /\ pc[w] = "count" /\ pc[w] \in Handling
  BY AtTyped DEF PubCount, Handling
<1>2. i \in Slots /\ Box(w) \in Boxes
  BY <1>1, KeptTyped DEF NamedLabels, KeptLabels
<1>3. ~f /\ n = Box(w) /\ table[i].pubs = 0
  BY <1>1, KnowsTidy DEF Kept, NamedLabels, NoPubLabels, Slot, Box
<1>4. PICK p : p = 1 /\ Becomes(i, f, n, z, p)
  <2>1. PICK c \in {0, table[i].pubs} : Becomes(i, f, n, z, c + 1)
    BY PubCountTable
  <2>2. c + 1 = 1
    BY <1>3
  <2> QED
    BY <2>1, <2>2
<1>5. /\ table'[i].free = f /\ table'[i].name = n /\ table'[i].pubs = 1 /\ table'[i].size = z
      /\ \A j \in Slots \ {i} : table'[j] = table[j]
  BY <1>4 DEF Becomes
<1>6. Moves(w, "pubPipe", work[w]) /\ UNCHANGED bqVars /\ UNCHANGED fsVars
  BY <1>1, GotoMoves DEF PubCount, Jump, Typed
<1>7. Kept(table', "pubPipe", work[w])
  BY <1>3, <1>5 DEF Kept, NewLabels, NamedLabels, NoPubLabels, PubLabels, Slot, Box
<1>8. FileKept(table', entry', node', oft', "pubPipe", work[w]) /\ "pubPipe" \notin Handling
  BY DEF FileKept, Handling
<1>9. OneRequest'
  BY <1>1, <1>6, <1>8, OneRequestMoves DEF Tidy
<1>10. TidyFiles'
  <2>1. SameNames /\ SameSizes
    BY <1>2, <1>5 DEF SameNames, SameSizes
  <2>2. SameFiles /\ SameWriters(w)
    BY <1>6 DEF SameFiles, SameWriters, fsVars
  <2> QED
    BY <1>1, <1>6, <1>8, <2>1, <2>2, FilesMove DEF Tidy
<1>11. TidyBoxes'
  <2>1. work[w].slot = i
    BY DEF Slot
  <2>2. \A j \in Slots \ {i} : ~table[j].free => table[j].name # n
    BY <1>2, <1>3 DEF Tidy, TidyBoxes, BoxesKept
  <2> HIDE DEF i, f, n, z
  <2> QED
    BY <1>1, <1>2, <1>3, <1>4, <1>6, <1>7, <2>1, <2>2, BoxesChange
<1> QED
  BY <1>9, <1>10, <1>11 DEF Tidy

\* The session that gives its box back was the only one of that box.
LEMMA PubReleaseTidy == ASSUME Typed, Tidy, NEW w \in Workers, PubRelease(w) PROVE Tidy'
<1> DEFINE i == Slot(w)
<1>1. pc[w] = "release" /\ pc[w] \in PubLabels
  BY DEF PubRelease, At, PubLabels
<1>2. i \in Slots
  BY <1>1, KeptTyped DEF NamedLabels
<1>3. ~table[i].free /\ table[i].name = Box(w) /\ table[i].pubs = 1
  BY <1>1, KnowsTidy DEF Kept, NamedLabels, Slot, Box
<1>4. /\ table'[i].free = table[i].free /\ table'[i].name = table[i].name
      /\ table'[i].pubs = 0 /\ table'[i].size = table[i].size
      /\ \A j \in Slots \ {i} : table'[j] = table[j]
  BY PubReleaseTable DEF Becomes
<1>5. Moves(w, "idle", NoWork) /\ UNCHANGED bqVars /\ UNCHANGED fsVars
  BY DoneMoves DEF PubRelease, Typed
<1>6. Kept(table', "idle", NoWork) /\ FileKept(table', entry', node', oft', "idle", NoWork)
  BY DEF Kept, FileKept, NewLabels, NamedLabels, NoPubLabels, PubLabels
<1>7. OneRequest'
  BY <1>1, <1>5, OneRequestMoves DEF Tidy, Handling
<1>8. TidyFiles'
  <2>1. SameNames /\ SameSizes
    BY <1>2, <1>4 DEF SameNames, SameSizes
  <2>2. SameFiles /\ SameWriters(w)
    BY <1>5 DEF SameFiles, SameWriters, fsVars
  <2> QED
    BY <1>1, <1>5, <1>6, <2>1, <2>2, FilesMove DEF Tidy
<1>9. pc'[w] = "idle" /\ Same(work'[w], NoWork)
      /\ \A v \in Workers \ {w} : pc'[v] = pc[v] /\ Same(work'[v], work[v])
  BY <1>5, MovesPc DEF Typed
<1>10. BoxesKept
  BY DEF Tidy, TidyBoxes
<1>11. BoxesKept'
  <2>1. \A j \in Slots : IF table'[j].free THEN table'[j].pubs = 0 ELSE table'[j].name \in Boxes
    BY <1>4, <1>10 DEF BoxesKept
  <2>2. \A j, k \in Slots : ~table'[j].free /\ ~table'[k].free /\ table'[j].name = table'[k].name => j = k
    BY <1>4, <1>10 DEF BoxesKept
  <2>3. \A v \in Workers : pc'[v] \in PubLabels => pc[v] \in PubLabels /\ work'[v].slot = Slot(v)
    BY <1>9 DEF PubLabels, Same, Slot
  <2>4. \A u, v \in Workers : pc'[u] \in PubLabels /\ pc'[v] \in PubLabels /\ work'[u].slot = work'[v].slot => u = v
    BY <2>3, <1>10 DEF BoxesKept
  <2> QED
    BY <2>1, <2>2, <2>4 DEF BoxesKept, Slot
<1>12. ASSUME NEW v \in Workers PROVE Kept(table', pc'[v], work'[v])
  <2>1. CASE v = w
    BY <1>6, <1>9, <2>1 DEF Kept, Same
  <2>2. CASE v # w
    <3>1. Kept(table, pc[v], work[v]) /\ pc'[v] = pc[v] /\ Same(work'[v], work[v])
      BY <1>9, <2>2, KnowsTidy
    <3>2. pc[v] \in PubLabels => Slot(v) # i
      BY <1>1, <1>10, <2>2 DEF BoxesKept
    <3> HIDE DEF i
    <3>3. \A n : NoBox(table, n) => NoBox(table', n)
      BY <1>2, <1>4 DEF NoBox
    <3>4. pc[v] \in NewLabels => NoBox(table', work[v].box)
      BY <3>1, <3>3 DEF Kept
    <3>5. pc[v] \in {"create", "closeNew"} => table'[work[v].tmp].free
      BY <1>4, <3>1, KeptTyped DEF Kept
    <3>6. pc[v] \in NamedLabels \cup {"name"} =>
            /\ table'[Slot(v)].free = table[Slot(v)].free /\ table'[Slot(v)].name = table[Slot(v)].name
            /\ table'[Slot(v)].pubs = 0 \/ table'[Slot(v)].pubs = table[Slot(v)].pubs
            /\ pc[v] \in PubLabels => table'[Slot(v)].pubs = table[Slot(v)].pubs
      BY <1>4, <3>2, KeptTyped
    <3>7. NoPubLabels \subseteq NamedLabels /\ PubLabels \subseteq NamedLabels
      BY DEF NoPubLabels, NamedLabels
    <3>8. Kept(table', pc[v], work[v])
      BY <3>1, <3>4, <3>5, <3>6, <3>7 DEF Kept, Slot
    <3> QED
      BY <3>1, <3>8 DEF Kept, Same
  <2> QED
    BY <2>1, <2>2
<1> QED
  BY <1>7, <1>8, <1>11, <1>12 DEF Tidy, TidyBoxes, WorkersKept

-----------------------------------------------------------------------------
(* What publishers do to files *)

\* The box of a session is there, with its file.
LEMMA PublisherFile ==
  ASSUME Typed, Tidy, NEW w \in Workers, pc[w] \in PubLabels
  PROVE  /\ Slot(w) \in Slots /\ Box(w) \in Boxes
         /\ ~table[Slot(w)].free /\ table[Slot(w)].name = Box(w) /\ table[Slot(w)].pubs = 1
         /\ Exists(Box(w))
         /\ pc[w] # "size" => table[Slot(w)].size = FileSize(Box(w))
<1>1. Slot(w) \in Slots /\ Box(w) \in Boxes
  BY KeptTyped DEF NamedLabels, KeptLabels
<1>2. ~table[Slot(w)].free /\ table[Slot(w)].name = Box(w) /\ table[Slot(w)].pubs = 1
  BY KnowsTidy DEF Kept, NamedLabels, Slot, Box
<1>3. ASSUME NEW v \in Workers, pc[v] \in {"reset", "clear"} PROVE Slot(v) # Slot(w)
  <2>1. table[Slot(v)].pubs = 0
    BY <1>3, KnowsTidy DEF Kept, NoPubLabels, Slot
  <2> QED
    BY <1>2, <2>1
<1>4. Nobody({"clear"}, Slot(w))
  BY <1>3 DEF Nobody
<1>5. ASSUME pc[w] # "size" PROVE Nobody({"reset", "clear", "size"}, Slot(w))
  <2>1. ASSUME NEW v \in Workers, pc[v] = "size" PROVE Slot(v) # Slot(w)
    BY <1>5, <2>1 DEF Tidy, TidyBoxes, BoxesKept, PubLabels
  <2> QED
    BY <1>3, <2>1 DEF Nobody
<1> QED
  BY <1>1, <1>2, <1>4, <1>5 DEF Tidy, TidyFiles, FilesKept

\* get_box finds the box of a session.
LEMMA BoxFound ==
  ASSUME Typed, Tidy, NEW w \in Workers, pc[w] \in PubLabels
  PROVE  GetBox(Box(w)) = Slot(w)
<1>1. Slot(w) \in Slots /\ ~table[Slot(w)].free /\ table[Slot(w)].name = Box(w)
  BY PublisherFile
<1>2. GetBox(Box(w)) \in Slots /\ ~table[GetBox(Box(w))].free /\ table[GetBox(Box(w))].name = Box(w)
  BY <1>1, GetBoxIs DEF NoBox
<1> QED
  BY <1>1, <1>2 DEF Tidy, TidyBoxes, BoxesKept

\* A publisher's session reads a message, the end of its pipe, or an error:
\* boxes and files stay together.
LEMMA PubReceiveTidy == ASSUME Typed, Tidy, NEW w \in Workers, PubReceive(w) PROVE Tidy'
<1>1. PICK result, message : Receive(w, result, message)
  BY DEF PubReceive
<1> DEFINE rec == Changed(work[w], work[w].fd, work[w].tmp, message, result, work[w].pipe)
<1>2. rec.box = work[w].box /\ rec.slot = work[w].slot /\ Moves(w, "pubLock", rec)
  BY <1>1, ReceiveMoves DEF Typed
<1> HIDE DEF rec
<1>3. pc[w] = "receive" /\ UNCHANGED <<bqVars, table>> /\ SameFiles /\ SameWriters(w)
  BY <1>1 DEF Receive, At, boxVars, fsVars, SameFiles, SameWriters
<1> QED
  BY <1>2, <1>3, PubTidy DEF PubLabels, Box, Slot

\* A publisher's session closes the file and gives the mutex back: boxes and
\* files stay together.
LEMMA PubCloseTidy == ASSUME Typed, Tidy, NEW w \in Workers, PubClose(w) PROVE Tidy'
<1> DEFINE rec == [work[w] EXCEPT !.fd = None, !.tmp = None, !.msg = <<>>, !.read = "none"]
<1>1. IsWork(work[w]) /\ pc[w] = "pubClose" /\ pc[w] \in HandleLabels
  BY AtTyped DEF PubClose, HandleLabels
<1>2. IsWork(rec) /\ rec.box = work[w].box /\ rec.slot = work[w].slot
  BY <1>1, PubClosedIs
<1>3. TfsClose(Fd(w)) /\ Goto(w, "announce", rec) /\ table' = table
  BY DEF PubClose, Fd
<1> HIDE DEF rec
<1>4. Moves(w, "announce", rec) /\ UNCHANGED bqVars
  BY <1>2, <1>3, GotoMoves DEF Typed
<1>5. SameFiles /\ SameWriters(w)
  BY <1>1, <1>3, ClosedFs, WritersStay DEF TfsClose, SameFiles
<1> QED
  BY <1>1, <1>2, <1>3, <1>4, <1>5, PubTidy DEF PubLabels, Box, Slot

\* A publisher's session opens the file of its box to append: boxes and files
\* stay together.
LEMMA PubOpenTidy == ASSUME Typed, Tidy, NEW w \in Workers, PubOpen(w) PROVE Tidy'
<1> DEFINE d == OpenResult(Box(w), "APPEND")
           rec == [work[w] EXCEPT !.fd = d]
<1>1. IsWork(work[w]) /\ pc[w] = "append" /\ pc[w] \in PubLabels
  BY AtTyped DEF PubOpen, PubLabels
<1>2. /\ Box(w) \in Boxes /\ Exists(Box(w))
      /\ ~table[Slot(w)].free /\ table[Slot(w)].name = Box(w) /\ table[Slot(w)].pubs = 1
  BY <1>1, PublisherFile
<1>3. TfsOpen(Box(w), "APPEND") /\ table' = table
  BY DEF PubOpen
<1>4. SameFiles
  BY <1>3 DEF TfsOpen, SameFiles
<1>5. CASE d = None
  <2>1. Done(w) /\ oft' = oft
    BY <1>2, <1>3, <1>5, OpenFs DEF PubOpen, Typed
  <2>2. Unharmed(w)
    BY <1>3, <1>4, <2>1 DEF Unharmed, SameBoxes, SameSizes, SameWriters
  <2> QED
    BY <1>1, <2>1, <2>2, DoneTidy
<1>6. CASE d # None
  <2>1. Goto(w, "write", rec)
    BY <1>6 DEF PubOpen
  <2>2. IsWork(rec) /\ rec.fd = d /\ rec.box = Box(w) /\ rec.slot = Slot(w)
    BY <1>1, SetFd DEF Box, Slot
  <2>3. /\ d \in Handles /\ oft[d] = None /\ \A e \in Handles \ {d} : oft'[e] = oft[e]
        /\ oft'[d] = OpenFile(entry[Box(w)], FileSize(Box(w)))
    <3>1. entry'[Box(w)] = entry[Box(w)]
      BY <1>4 DEF SameFiles
    <3> QED
      BY <1>2, <1>3, <1>6, <3>1, OpenedFs DEF Typed
  <2> HIDE DEF d, rec
  <2>4. Unharmed(w)
    BY <1>3, <1>4, <2>3, OthersHandles, WritersStay DEF Unharmed, SameBoxes, SameSizes
  <2>5. Kept(table', "write", rec)
    BY <1>2, <1>3, <2>2 DEF Kept, NewLabels, NamedLabels, NoPubLabels, PubLabels
  <2>6. FileKept(table', entry', node', oft', "write", rec)
    BY <1>4, <2>2, <2>3 DEF FileKept, SameFiles, FileSize
  <2>7. Moves(w, "write", rec) /\ UNCHANGED bqVars
    BY <2>1, <2>2, GotoMoves DEF Typed
  <2> QED
    BY <1>1, <2>2, <2>4, <2>5, <2>6, <2>7, LocalTidy DEF Handling
<1> QED
  BY <1>5, <1>6

\* A publisher's session finds its own box again by the name it registered for
\* and adds what it wrote: box_size is the size of the file again, and the
\* table is never indexed with -1 (mbroker.c:116).
LEMMA PubSizeTidy ==
  ASSUME Typed, Tidy, NEW w \in Workers, PubSize(w)
  PROVE  Tidy' /\ crashed' = FALSE
<1> DEFINE i == Slot(w)
           z == table[i].size + work[w].tmp
<1>1. IsWork(work[w]) /\ pc[w] = "size" /\ pc[w] \in PubLabels
  BY AtTyped DEF PubSize, PubLabels
<1>2. /\ i \in Slots /\ Box(w) \in Boxes /\ Exists(Box(w)) /\ GetBox(Box(w)) = i
      /\ ~table[i].free /\ table[i].name = Box(w) /\ table[i].pubs = 1
  BY <1>1, PublisherFile, BoxFound
<1>3. node[entry[Box(w)]].size = z
  BY <1>1, KnowsTidy DEF FileKept, Slot, Box
<1>4. crashed' = FALSE /\ Becomes(i, table[i].free, table[i].name, z, table[i].pubs)
  <2>1. i # None
    BY <1>2, BrokerSizes
  <2> QED
    BY <1>2, <2>1, PubSizeTable
<1>5. /\ table'[i].free = table[i].free /\ table'[i].name = table[i].name
      /\ table'[i].pubs = table[i].pubs /\ table'[i].size = z
      /\ \A j \in Slots \ {i} : table'[j] = table[j]
  BY <1>4 DEF Becomes
<1>6. UNCHANGED fsVars /\ UNCHANGED bqVars /\ pc' = [pc EXCEPT ![w] = "pubClose"] /\ work' = work
  BY DEF PubSize
<1>7. Moves(w, "pubClose", work[w])
  <2>1. work = [v \in Workers |-> work[v]] /\ \A v \in Workers : IsWork(work[v])
    BY DEF Typed, WorkersTyped
  <2> QED
    BY <1>6, <2>1 DEF Moves, Same
<1>8. Kept(table', "pubClose", work[w])
  BY <1>2, <1>5 DEF Kept, NewLabels, NamedLabels, NoPubLabels, PubLabels, Slot, Box
<1>9. OneRequest'
  BY <1>1, <1>6, <1>7, OneRequestMoves DEF Tidy, Handling
<1>10. TidyBoxes'
  <2>1. SameBoxes
    BY <1>2, <1>5 DEF SameBoxes
  <2> QED
    BY <1>1, <1>7, <1>8, <2>1, BoxesMove DEF Tidy, Slot
<1>11. \A v \in Workers \ {w} : pc'[v] = pc[v] /\ work'[v] = work[v]
  BY <1>6 DEF Typed, WorkersTyped
<1>12. entry' = entry /\ node' = node /\ oft' = oft /\ takenI' = takenI /\ takenB' = takenB
  BY <1>6 DEF fsVars
<1> HIDE DEF i, z
<1>13. WorkersFiles'
  <2>1. ASSUME NEW v \in Workers PROVE FileKept(table', entry, node, oft, pc'[v], work[v])
    <3>1. CASE v = w
      <4>1. pc'[v] = "pubClose"
        BY <1>6, <3>1 DEF Typed, WorkersTyped
      <4> QED
        BY <4>1 DEF FileKept
    <3>2. CASE v # w
      <4>1. FileKept(table, entry, node, oft, pc[v], work[v]) /\ pc'[v] = pc[v]
        BY <1>11, <3>2, KnowsTidy
      <4>2. ASSUME pc[v] = "size" PROVE table'[work[v].slot] = table[work[v].slot]
        <5>1. Slot(v) # i
          BY <1>1, <3>2, <4>2 DEF Tidy, TidyBoxes, BoxesKept, PubLabels, i
        <5>2. Slot(v) \in Slots
          BY <4>2, KeptTyped DEF NamedLabels, PubLabels
        <5> QED
          BY <1>5, <5>1, <5>2 DEF Slot
      <4> QED
        BY <4>1, <4>2 DEF FileKept
    <3> QED
      BY <3>1, <3>2
  <2> QED
    BY <1>6, <1>12, <2>1 DEF WorkersFiles
<1>14. FilesKept'
  <2>1. ASSUME NEW L, "size" \in L, NEW j \in Slots, j # i, Nobody(L, j)' PROVE Nobody(L, j)
    BY <1>7, <2>1, NobodyElse DEF i
  <2>2. ASSUME NEW j \in Slots, ~table'[j].free, Nobody({"clear"}, j)' PROVE entry'[table'[j].name] # None
    <3>1. table'[j].free = table[j].free /\ table'[j].name = table[j].name
      BY <1>5
    <3>2. Nobody({"clear"}, j)
      BY <1>1, <1>7, <2>2, NobodyElse
    <3> QED
      BY <1>12, <2>2, <3>1, <3>2 DEF Tidy, TidyFiles, FilesKept, Exists
  <2>3. ASSUME NEW j \in Slots, ~table'[j].free, Nobody({"reset", "clear", "size"}, j)'
        PROVE  table'[j].size = node'[entry'[table'[j].name]].size
    <3>1. CASE j = i
      BY <1>2, <1>3, <1>5, <1>12, <3>1
    <3>2. CASE j # i
      BY <1>5, <1>12, <2>1, <2>3, <3>2 DEF Tidy, TidyFiles, FilesKept, FileSize
    <3> QED
      BY <3>1, <3>2
  <2>4. \A m : NoBox(table', m) => NoBox(table, m)
    BY <1>2, <1>5 DEF NoBox
  <2>5. ASSUME NEW m \in Boxes, entry'[m] # None, NoBox(table', m) PROVE node'[entry'[m]].size = 0
    BY <1>12, <2>4, <2>5 DEF Tidy, TidyFiles, FilesKept, Exists, FileSize
  <2> QED
    BY <2>2, <2>3, <2>5 DEF FilesKept, Exists, FileSize
<1>15. BlocksOwned'
  BY <1>12 DEF BlocksOwned, Tidy, TidyFiles
<1> QED
  BY <1>4, <1>9, <1>10, <1>13, <1>14, <1>15 DEF Tidy, TidyFiles

\* No two names are of the same file.
LEMMA OwnFile ==
  ASSUME Typed, NEW m \in Boxes, NEW n \in Boxes, Exists(m), Exists(n), entry[m] = entry[n]
  PROVE  m = n
  BY DEF Typed, InodesCounted, NamesWithFiles

\* What another worker knows is not about the file of w's session.
LEMMA OtherFile ==
  ASSUME Typed, Tidy, NEW w \in Workers, pc[w] \in PubLabels, NEW v \in Workers \ {w},
         pc[v] \in {"closeNew", "name", "reset", "size", "write"}
  PROVE  Box(v) \in Boxes /\ Exists(Box(v)) /\ entry[Box(v)] # entry[Box(w)]
<1>1. /\ Slot(w) \in Slots /\ Box(w) \in Boxes /\ Exists(Box(w))
      /\ ~table[Slot(w)].free /\ table[Slot(w)].name = Box(w) /\ table[Slot(w)].pubs = 1
  BY PublisherFile
<1>2. Box(v) \in Boxes
  BY KeptTyped DEF KeptLabels, NewLabels, NamedLabels, PubLabels
<1>3. Kept(table, pc[v], work[v]) /\ FileKept(table, entry, node, oft, pc[v], work[v])
  BY KnowsTidy
<1>4. CASE pc[v] \in {"closeNew", "name"}
  <2>1. NoBox(table, Box(v)) /\ Exists(Box(v))
    BY <1>3, <1>4 DEF Kept, FileKept, NewLabels, Box, Exists
  <2>2. Box(v) # Box(w)
    BY <1>1, <2>1 DEF NoBox
  <2> QED
    BY <1>1, <1>2, <2>1, <2>2, OwnFile
<1>5. CASE pc[v] = "reset"
  <2>1. /\ Slot(v) \in Slots /\ ~table[Slot(v)].free /\ table[Slot(v)].name = Box(v)
        /\ table[Slot(v)].pubs = 0 /\ Exists(Box(v))
    BY <1>3, <1>5, KeptTyped DEF Kept, FileKept, NamedLabels, NoPubLabels, Box, Slot, Exists
  <2>2. Box(v) # Box(w)
    BY <1>1, <2>1 DEF Tidy, TidyBoxes, BoxesKept
  <2> QED
    BY <1>1, <1>2, <2>1, <2>2, OwnFile
<1>6. CASE pc[v] \in {"size", "write"}
  <2>1. pc[v] \in PubLabels
    BY <1>6 DEF PubLabels
  <2>2. Slot(v) # Slot(w)
    BY <2>1 DEF Tidy, TidyBoxes, BoxesKept
  <2>3. Slot(v) \in Slots /\ ~table[Slot(v)].free /\ table[Slot(v)].name = Box(v) /\ Exists(Box(v))
    BY <2>1, PublisherFile
  <2>4. Box(v) # Box(w)
    BY <1>1, <2>2, <2>3 DEF Tidy, TidyBoxes, BoxesKept
  <2> QED
    BY <1>1, <1>2, <2>3, <2>4, OwnFile
<1> QED
  BY <1>4, <1>5, <1>6

\* tfs_write gives an empty file a block of its own.
LEMMA WriteOwned ==
  ASSUME Typed, Tidy, NEW i \in takenI, takenI' = takenI, \A j \in Inodes \ {i} : node'[j] = node[j],
         node'[i].size > 0, NEW block, node'[i].block = block,
         \/ node[i].size = 0 /\ block \in FreeBlocks /\ takenB' = takenB \cup {block}
         \/ node[i].size > 0 /\ block = node[i].block /\ takenB' = takenB
  PROVE  BlocksOwned'
<1> DEFINE used == {j \in takenI : node[j].size > 0}
           now == {j \in takenI : node'[j].size > 0}
<1>1. takenI \subseteq Inodes
  BY DEF Typed, FsTyped
<1>2. takenB = {node[j].block : j \in used} /\ \A j, k \in used : node[j].block = node[k].block => j = k
  BY DEF Tidy, TidyFiles, BlocksOwned
<1>3. now = used \cup {i} /\ \A j \in used \ {i} : node'[j] = node[j]
  BY <1>1
<1>4. CASE node[i].size = 0 /\ block \in FreeBlocks /\ takenB' = takenB \cup {block}
  <2>1. i \notin used /\ block \notin takenB
    BY <1>4 DEF FreeBlocks
  <2>2. takenB' = {node'[j].block : j \in now}
    BY <1>2, <1>3, <1>4, <2>1
  <2>3. \A j, k \in now : node'[j].block = node'[k].block => j = k
    BY <1>2, <1>3, <1>4, <2>1
  <2> QED
    BY <2>2, <2>3 DEF BlocksOwned
<1>5. CASE node[i].size > 0 /\ block = node[i].block /\ takenB' = takenB
  <2>1. i \in used /\ now = used /\ \A j \in used : node'[j].block = node[j].block
    BY <1>3, <1>5
  <2>2. takenB' = {node'[j].block : j \in now}
    BY <1>2, <1>5, <2>1
  <2>3. \A j, k \in now : node'[j].block = node'[k].block => j = k
    BY <1>2, <2>1
  <2> QED
    BY <2>2, <2>3 DEF BlocksOwned
<1> QED
  BY <1>4, <1>5

\* A publisher's session appends its message to the file of its own box: the
\* file grows by what PubSize will add, and the block it may need was nobody's.
LEMMA PubWriteTidy == ASSUME Typed, Tidy, NEW w \in Workers, PubWrite(w) PROVE Tidy'
<1> DEFINE d == Fd(w)
           cells == Append(work[w].msg, Nul)
           k == WriteResult(d, cells)
           rec == [work[w] EXCEPT !.tmp = k]
           s == Slot(w)
           n == Box(w)
           i == entry[n]
<1>1. /\ IsWork(work[w]) /\ LocalsTyped("write", work[w])
      /\ pc[w] = "write" /\ pc[w] \in HandleLabels /\ pc[w] \in PubLabels
  BY AtTyped DEF PubWrite, HandleLabels, PubLabels
<1>2. d \in Handles /\ oft[d] # None /\ oft[d].off <= BlockSize
  BY <1>1, HandleHeld DEF Typed, HandlesOwned
<1>3. cells \in Seq(Chars \cup {Nul})
  <2>1. work[w].msg \in Seq(Chars \cup {Nul})
    BY <1>1 DEF LocalsTyped
  <2> QED
    BY <2>1
<1>4. /\ TfsWrite(d, cells) /\ table' = table
      /\ \/ k = -1 /\ Done(w)
         \/ k # -1 /\ Goto(w, "size", rec)
  BY DEF PubWrite, Fd
<1>5. /\ s \in Slots /\ n \in Boxes /\ Exists(n)
      /\ ~table[s].free /\ table[s].name = n /\ table[s].pubs = 1 /\ table[s].size = node[i].size
  BY <1>1, PublisherFile DEF FileSize
<1>6. i \in Inodes /\ i \in takenI /\ node[i].size \in Nat
  <2>1. i \in Inodes
    BY <1>5, EntryTyped DEF Typed
  <2>2. node[i].size \in 0 .. BlockSize
    BY <2>1, NodeTyped DEF Typed
  <2> QED
    BY <1>5, <2>1, <2>2 DEF Typed, InodesCounted, NamesWithFiles
<1>7. oft[d].inum = i /\ oft[d].off = node[i].size
  <2>1. oft[d] = OpenFile(i, node[i].size)
    BY <1>1, KnowsTidy DEF FileKept, Fd, Box
  <2> QED
    BY <2>1 DEF OpenFile
<1>8. SameBoxes /\ SameSizes
  BY <1>4 DEF SameBoxes, SameSizes
<1> HIDE DEF cells
<1>9. CASE ~(k > 0)
  <2>1. UNCHANGED fsVars /\ k \in Nat \cup {-1}
    BY <1>2, <1>3, <1>4, <1>9, WriteFs DEF Typed
  <2>2. Unharmed(w)
    BY <1>4, <2>1, UnharmedStill
  <2>3. CASE k = -1 /\ Done(w)
    BY <1>1, <2>2, <2>3, DoneTidy
  <2>4. CASE k # -1 /\ Goto(w, "size", rec)
    <3>1. IsWork(rec) /\ rec.tmp = k /\ rec.box = n /\ rec.slot = s
      BY <1>1, SetTmp DEF Slot, Box
    <3> HIDE DEF rec, k, s, n
    <3>2. k = 0
      BY <1>9, <2>1, <2>4
    <3>3. Moves(w, "size", rec) /\ UNCHANGED bqVars
      BY <2>4, <3>1, GotoMoves DEF Typed
    <3>4. Kept(table', "size", rec)
      BY <1>4, <1>5, <3>1 DEF Kept, NewLabels, NamedLabels, NoPubLabels, PubLabels
    <3>5. FileKept(table', entry', node', oft', "size", rec)
      BY <1>4, <1>5, <1>6, <2>1, <3>1, <3>2 DEF FileKept, fsVars
    <3> QED
      BY <1>1, <2>2, <3>1, <3>3, <3>4, <3>5, LocalTidy DEF Handling, s
  <2> QED
    BY <1>4, <2>3, <2>4
<1>10. CASE k > 0
  <2> DEFINE block == IF NeedsBlock(d) THEN First(FreeBlocks) ELSE node[i].block
  <2>1. /\ entry' = entry /\ takenI' = takenI /\ k \in Nat
        /\ \A e \in Handles \ {d} : oft'[e] = oft[e]
        /\ \A j \in Inodes \ {i} : node'[j] = node[j]
        /\ node'[i].size = IF node[i].size + k > node[i].size THEN node[i].size + k ELSE node[i].size
        /\ node'[i].block = block
        /\ NeedsBlock(d) => block \in FreeBlocks
        /\ takenB' = IF NeedsBlock(d) THEN takenB \cup {block} ELSE takenB
    <3>1. FsTyped /\ InodesCounted
      BY DEF Typed
    <3> QED
      BY <1>2, <1>3, <1>4, <1>7, <1>10, <3>1, WriteFs
  <2>2. NeedsBlock(d) <=> node[i].size = 0
    BY <1>7 DEF NeedsBlock
  <2>3. k # -1 /\ Goto(w, "size", rec)
    BY <1>4, <1>10
  <2>4. IsWork(rec) /\ rec.tmp = k /\ rec.box = n /\ rec.slot = s
    BY <1>1, SetTmp DEF Slot, Box
  <2> HIDE DEF rec, k, block
  <2>5. node'[i].size = node[i].size + k /\ node'[i].size > 0
    BY <1>6, <1>10, <2>1
  <2>6. BlocksOwned'
    <3>1. NeedsBlock(d) \/ (~NeedsBlock(d) /\ node[i].size > 0 /\ block = node[i].block)
      BY <1>6, <2>2 DEF block
    <3> HIDE DEF i
    <3> QED
      BY <1>6, <2>1, <2>2, <2>5, <3>1, WriteOwned
  <2>7. Moves(w, "size", rec) /\ UNCHANGED bqVars
    BY <2>3, <2>4, GotoMoves DEF Typed
  <2>8. Kept(table', "size", rec)
    BY <1>4, <1>5, <2>4 DEF Kept, NewLabels, NamedLabels, NoPubLabels, PubLabels
  <2>9. FileKept(table', entry', node', oft', "size", rec)
    BY <1>4, <1>5, <2>1, <2>4, <2>5 DEF FileKept
  <2>10. OneRequest'
    BY <1>1, <2>7, OneRequestMoves DEF Tidy, Handling
  <2>11. TidyBoxes'
    BY <1>1, <1>8, <2>4, <2>7, <2>8, BoxesMove DEF Tidy
  <2>12. pc'[w] = "size" /\ Same(work'[w], rec)
         /\ \A v \in Workers \ {w} : pc'[v] = pc[v] /\ Same(work'[v], work[v])
    BY <2>7, MovesPc DEF Typed
  <2>13. \A v \in Workers \ {w} : pc[v] \in HandleLabels => oft'[Fd(v)] = oft[Fd(v)]
    BY <1>1, <1>2, <2>1, OthersHandles
  <2>14. ASSUME NEW m \in Boxes, Exists(m), m # n PROVE node'[entry[m]] = node[entry[m]]
    BY <1>5, <2>1, <2>14, OwnFile, EntryTyped DEF Typed
  <2>15. WorkersFiles'
    <3>1. ASSUME NEW v \in Workers PROVE FileKept(table', entry', node', oft', pc'[v], work'[v])
      <4>1. CASE v = w
        BY <2>9, <2>12, <4>1 DEF FileKept, Same
      <4>2. CASE v # w
        <5>1. FileKept(table, entry, node, oft, pc[v], work[v]) /\ pc'[v] = pc[v] /\ Same(work'[v], work[v])
          BY <2>12, <4>2, KnowsTidy
        <5>2. pc[v] \in {"closeNew", "name", "reset", "size", "write"} => node'[entry[work[v].box]] = node[entry[work[v].box]]
          <6>1. pc[v] \in {"closeNew", "name", "reset", "size", "write"} =>
                  Box(v) \in Boxes /\ Exists(Box(v)) /\ entry[Box(v)] # i
            BY <1>1, <4>2, OtherFile
          <6> HIDE DEF i
          <6>2. pc[v] \in {"closeNew", "name", "reset", "size", "write"} => entry[Box(v)] \in Inodes \ {i}
            BY <6>1, EntryTyped DEF Typed
          <6> QED
            BY <2>1, <6>2 DEF Box
        <5>3. pc[v] = "write" => oft'[work[v].fd] = oft[work[v].fd]
          BY <2>13, <4>2 DEF HandleLabels, Fd
        <5> QED
          BY <1>4, <2>1, <5>1, <5>2, <5>3 DEF FileKept, Same
      <4> QED
        BY <4>1, <4>2
    <3> QED
      BY <3>1 DEF WorkersFiles
  <2>16. FilesKept'
    <3>1. ASSUME NEW L, NEW j \in Slots, Nobody(L, j)', "write" \notin L PROVE Nobody(L, j)
      BY <1>1, <2>7, <3>1, NobodyElse
    <3>2. ASSUME NEW j \in Slots, ~table[j].free, Nobody({"clear"}, j)' PROVE Exists(table[j].name)
      BY <3>1, <3>2 DEF Tidy, TidyFiles, FilesKept
    <3>3. ASSUME NEW j \in Slots, ~table[j].free, Nobody({"reset", "clear", "size"}, j)'
          PROVE  table[j].size = node'[entry[table[j].name]].size
      <4>1. j # s
        BY <2>4, <2>12, <3>3 DEF Nobody, Slot, Same
      <4>2. Nobody({"reset", "clear", "size"}, j)
        BY <3>1, <3>3
      <4>3. table[j].size = node[entry[table[j].name]].size
        BY <3>3, <4>2 DEF Tidy, TidyFiles, FilesKept, FileSize
      <4>4. Exists(table[j].name)
        <5>1. Nobody({"clear"}, j)
          BY <4>2 DEF Nobody
        <5> QED
          BY <3>3, <5>1 DEF Tidy, TidyFiles, FilesKept
      <4>5. table[j].name \in Boxes /\ table[j].name # n
        BY <1>5, <3>3, <4>1 DEF Tidy, TidyBoxes, BoxesKept
      <4> QED
        BY <2>14, <4>3, <4>4, <4>5
    <3>4. ASSUME NEW m \in Boxes, Exists(m), NoBox(table, m) PROVE node'[entry[m]].size = 0
      <4>1. m # n
        BY <1>5, <3>4 DEF NoBox
      <4> QED
        BY <2>14, <3>4, <4>1 DEF Tidy, TidyFiles, FilesKept, FileSize
    <3> QED
      BY <1>4, <2>1, <3>2, <3>3, <3>4 DEF FilesKept, Exists, FileSize
  <2> QED
    BY <2>6, <2>10, <2>11, <2>15, <2>16 DEF Tidy, TidyFiles
<1> QED
  BY <1>9, <1>10

-----------------------------------------------------------------------------
(* Files are made and removed *)

\* What another session knows is about a box with another name.
LEMMA OtherName ==
  ASSUME Typed, Tidy, NEW n \in Boxes, NEW v \in Workers, pc[v] \in PubLabels,
         \A i \in Slots : ~table[i].free /\ table[i].pubs = 1 => table[i].name # n
  PROVE  Box(v) \in Boxes \ {n} /\ Exists(Box(v)) /\ entry[Box(v)] \in Inodes
<1>1. /\ Slot(v) \in Slots /\ Box(v) \in Boxes /\ Exists(Box(v))
      /\ ~table[Slot(v)].free /\ table[Slot(v)].name = Box(v) /\ table[Slot(v)].pubs = 1
  BY PublisherFile
<1> QED
  BY <1>1, EntryTyped DEF Typed

\* Handlers that make or remove file n: what other workers know is kept.
LEMMA FilesChange ==
  ASSUME Typed, Tidy, NEW w \in Workers, NEW q, NEW r, Moves(w, q, r), pc[w] \in Handling, table' = table,
         NEW n \in Boxes,
         \A i \in Slots : ~table[i].free /\ table[i].pubs = 1 => table[i].name # n,
         \A m \in Boxes \ {n} : entry'[m] = entry[m] /\ (Exists(m) => node'[entry[m]] = node[entry[m]]),
         SameWriters(w),
         FileKept(table', entry', node', oft', q, r)
  PROVE  WorkersFiles'
<1>1. pc'[w] = q /\ Same(work'[w], r) /\ \A v \in Workers \ {w} : pc'[v] = pc[v] /\ Same(work'[v], work[v])
  BY MovesPc DEF Typed
<1>2. ASSUME NEW v \in Workers PROVE FileKept(table', entry', node', oft', pc'[v], work'[v])
  <2>1. CASE v = w
    BY <1>1, <2>1 DEF FileKept, Same
  <2>2. CASE v # w
    <3>1. FileKept(table, entry, node, oft, pc[v], work[v]) /\ pc'[v] = pc[v] /\ Same(work'[v], work[v])
      BY <1>1, <2>2, KnowsTidy
    <3>2. pc[v] \in FileLabels => pc[v] \in {"size", "write"}
      BY <2>2, OthersQuiet
    <3>3. pc[v] \in {"size", "write"} =>
            /\ entry'[work[v].box] = entry[work[v].box]
            /\ node'[entry[work[v].box]] = node[entry[work[v].box]]
      BY OtherName DEF PubLabels, Box
    <3>4. pc[v] = "write" => oft'[work[v].fd] = oft[work[v].fd]
      BY <2>2 DEF SameWriters, Fd
    <3> QED
      BY <3>1, <3>2, <3>3, <3>4 DEF FileKept, FileLabels, Same
  <2> QED
    BY <2>1, <2>2
<1> QED
  BY <1>2 DEF WorkersFiles

\* tfs_unlink frees the block of the file, and no other file has it.
LEMMA UnlinkOwned ==
  ASSUME Typed, Tidy, NEW n \in Boxes, Exists(n), TfsUnlink(n)
  PROVE  BlocksOwned'
<1> DEFINE i == entry[n]
           used == {j \in takenI : node[j].size > 0}
           now == {j \in takenI' : node[j].size > 0}
<1>1. node' = node /\ takenI' = takenI \ {i} /\ takenB' = takenB \ DeletedBlock(i)
  BY DEF TfsUnlink
<1>2. i \in takenI
  BY DEF Typed, InodesCounted, NamesWithFiles
<1>3. takenB = {node[j].block : j \in used} /\ \A j, k \in used : node[j].block = node[k].block => j = k
  BY DEF Tidy, TidyFiles, BlocksOwned
<1>4. now = used \ {i}
  BY <1>1
<1>5. DeletedBlock(i) = IF i \in used THEN {node[i].block} ELSE {}
  BY <1>2 DEF DeletedBlock
<1> HIDE DEF i
<1>6. takenB' = {node[j].block : j \in now}
  <2>1. takenB' = takenB \ (IF i \in used THEN {node[i].block} ELSE {})
    BY <1>1, <1>5
  <2>2. CASE i \in used
    BY <1>3, <1>4, <2>1, <2>2
  <2>3. CASE i \notin used
    BY <1>3, <1>4, <2>1, <2>3
  <2> QED
    BY <2>2, <2>3
<1>7. \A j, k \in now : node[j].block = node[k].block => j = k
  BY <1>3, <1>4
<1> QED
  BY <1>1, <1>6, <1>7 DEF BlocksOwned

\* remove_box deletes the file of the box that it found: it has no publisher,
\* and its block becomes free.
LEMMA RemoveFileTidy == ASSUME Typed, Tidy, NEW w \in Workers, RemoveFile(w) PROVE Tidy'
<1> DEFINE i == Slot(w)
           n == Box(w)
<1>1. IsWork(work[w]) /\ pc[w] = "unlink" /\ pc[w] \in Handling
  BY AtTyped DEF RemoveFile, Handling
<1>2. i \in Slots /\ n \in Boxes
  BY <1>1, KeptTyped DEF NamedLabels, KeptLabels
<1>3. ~table[i].free /\ table[i].name = n /\ table[i].pubs = 0
  BY <1>1, KnowsTidy DEF Kept, NamedLabels, NoPubLabels, Slot, Box
<1>4. table' = table
  BY DEF RemoveFile, boxVars
<1>5. \/ UNCHANGED fsVars /\ Answer(w, -1)
      \/ Exists(n) /\ TfsUnlink(n) /\ Goto(w, "clear", work[w])
  BY <1>3 DEF RemoveFile, Jump
<1>6. CASE UNCHANGED fsVars /\ Answer(w, -1)
  BY <1>1, <1>4, <1>6, AnswerTidy, UnharmedStill
<1>7. CASE Exists(n) /\ TfsUnlink(n) /\ Goto(w, "clear", work[w])
  <2>1. /\ entry'[n] = None /\ \A m \in Boxes \ {n} : entry'[m] = entry[m]
        /\ node' = node /\ oft' = oft
    BY <1>2, <1>7 DEF TfsUnlink, Typed, FsTyped
  <2>2. Moves(w, "clear", work[w]) /\ UNCHANGED bqVars
    BY <1>1, <1>7, GotoMoves DEF Typed
  <2>3. Kept(table', "clear", work[w])
    BY <1>3, <1>4 DEF Kept, NewLabels, NamedLabels, NoPubLabels, PubLabels, Slot, Box
  <2>4. FileKept(table', entry', node', oft', "clear", work[w])
    BY <2>1 DEF FileKept, Box
  <2>5. BlocksOwned'
    BY <1>2, <1>7, UnlinkOwned
  <2>6. OneRequest'
    BY <1>1, <2>2, OneRequestMoves DEF Tidy
  <2>7. TidyBoxes'
    <3>1. SameBoxes /\ "clear" \notin PubLabels
      BY <1>4 DEF SameBoxes, PubLabels
    <3> QED
      BY <2>2, <2>3, <3>1, BoxesMove DEF Tidy
  <2>8. \A j \in Slots \ {i} : ~table[j].free => table[j].name # n
    BY <1>2, <1>3 DEF Tidy, TidyBoxes, BoxesKept
  <2>9. pc'[w] = "clear" /\ work'[w].slot = i
    BY <2>2, MovesPc DEF Typed, Same, Slot
  <2> HIDE DEF i, n
  <2>10. WorkersFiles'
    <3>1. \A j \in Slots : ~table[j].free /\ table[j].pubs = 1 => table[j].name # n
      BY <1>2, <1>3, <2>8
    <3>2. SameWriters(w)
      BY <2>1 DEF SameWriters
    <3>3. \A m \in Boxes \ {n} : entry'[m] = entry[m] /\ (Exists(m) => node'[entry[m]] = node[entry[m]])
      BY <2>1
    <3> QED
      BY <1>1, <1>2, <1>4, <2>2, <2>4, <3>1, <3>2, <3>3, FilesChange
  <2>11. FilesKept'
    <3>1. ASSUME NEW L, "clear" \in L, NEW j \in Slots, ~table[j].free, Nobody(L, j)'
          PROVE  Nobody(L, j) /\ table[j].name \in Boxes \ {n}
      <4>1. j # i
        BY <2>9, <3>1 DEF Nobody, Slot
      <4>2. Nobody(L, j)
        BY <2>2, <3>1, <4>1, NobodyElse DEF i
      <4>3. table[j].name \in Boxes \ {n}
        BY <2>8, <3>1, <4>1 DEF Tidy, TidyBoxes, BoxesKept
      <4> QED
        BY <4>2, <4>3
    <3>2. ASSUME NEW j \in Slots, ~table[j].free, Nobody({"clear"}, j)' PROVE entry'[table[j].name] # None
      BY <2>1, <3>1, <3>2 DEF Tidy, TidyFiles, FilesKept, Exists
    <3>3. ASSUME NEW j \in Slots, ~table[j].free, Nobody({"reset", "clear", "size"}, j)'
          PROVE  table[j].size = node'[entry'[table[j].name]].size
      BY <2>1, <3>1, <3>3 DEF Tidy, TidyFiles, FilesKept, FileSize
    <3>4. ASSUME NEW m \in Boxes, entry'[m] # None, NoBox(table, m) PROVE node'[entry'[m]].size = 0
      BY <2>1, <3>4 DEF Tidy, TidyFiles, FilesKept, Exists, FileSize
    <3> QED
      BY <1>4, <3>2, <3>3, <3>4 DEF FilesKept, Exists, FileSize
  <2> QED
    BY <2>5, <2>6, <2>7, <2>10, <2>11 DEF Tidy, TidyFiles
<1> QED
  BY <1>5, <1>6, <1>7

\* tfs_open makes a file that is empty, from an inode that no other file has.
LEMMA FileCreated ==
  ASSUME Typed, Tidy, NEW n \in Boxes, TfsOpen(n, "CREAT")
  PROVE  /\ \A m \in Boxes \ {n} : entry'[m] = entry[m]
         /\ \A m \in Boxes : Exists(m) => entry'[m] = entry[m] /\ node'[entry[m]] = node[entry[m]]
         /\ ~Exists(n) /\ entry'[n] # None => node'[entry'[n]].size = 0
         /\ BlocksOwned'
         /\ OpenResult(n, "CREAT") # None => entry'[n] # None
<1>1. CASE Exists(n)
  <2>1. SameFiles
    BY <1>1 DEF TfsOpen, SameFiles
  <2> QED
    BY <1>1, <2>1 DEF SameFiles, BlocksOwned, Tidy, TidyFiles, Exists
<1>2. CASE ~Exists(n)
  <2> DEFINE i == NewInode
  <2>1. i \in Inodes /\ i \notin takenI
    BY NewInodeFree DEF Typed
  <2>2. takenB' = takenB /\ node' = [node EXCEPT ![i] = EmptyFile]
    BY <1>2 DEF TfsOpen
  <2>3. \/ ~FullDirectory /\ entry' = [entry EXCEPT ![n] = i] /\ takenI' = takenI \cup {i}
        \/ FullDirectory /\ entry' = entry /\ takenI' = takenI
    BY <1>2 DEF TfsOpen
  <2>4. EmptyFile.size = 0
    BY DEF EmptyFile
  <2> HIDE DEF i
  <2>5. node'[i].size = 0 /\ \A j \in Inodes \ {i} : node'[j] = node[j]
    BY <2>1, <2>2, <2>4 DEF Typed, FsTyped
  <2>6. \A m \in Boxes : Exists(m) => entry[m] \in takenI
    BY DEF Typed, InodesCounted, NamesWithFiles
  <2>7. takenI \subseteq Inodes
    BY DEF Typed, FsTyped
  <2>8. \A m \in Boxes : Exists(m) => node'[entry[m]] = node[entry[m]]
    BY <2>1, <2>5, <2>6, <2>7
  <2>9. /\ \A m \in Boxes \ {n} : entry'[m] = entry[m]
        /\ entry'[n] = i \/ (FullDirectory /\ entry'[n] = entry[n])
    BY <2>3 DEF Typed, FsTyped
  <2>10. BlocksOwned'
    <3>1. {j \in takenI' : node'[j].size > 0} = {j \in takenI : node[j].size > 0}
      BY <2>1, <2>3, <2>5, <2>7
    <3>2. \A j \in takenI : node'[j] = node[j]
      BY <2>1, <2>5, <2>7
    <3> DEFINE used == {j \in takenI : node[j].size > 0}
    <3>3. takenB = {node[j].block : j \in used} /\ \A j, k \in used : node[j].block = node[k].block => j = k
      BY DEF Tidy, TidyFiles, BlocksOwned
    <3>4. takenB' = {node'[j].block : j \in used} /\ \A j, k \in used : node'[j].block = node'[k].block => j = k
      BY <2>2, <3>2, <3>3
    <3> QED
      BY <3>1, <3>4 DEF BlocksOwned
  <2>11. OpenResult(n, "CREAT") # None => entry'[n] # None
    <3>1. i # None
      BY <2>1, FsIndices
    <3> QED
      BY <1>2, <2>9, <3>1 DEF OpenResult
  <2> QED
    BY <1>2, <2>5, <2>8, <2>9, <2>10, <2>11 DEF Exists
<1> QED
  BY <1>1, <1>2

\* create_box makes a file for a name that no box has: the file is empty.
LEMMA CreateFileTidy == ASSUME Typed, Tidy, NEW w \in Workers, CreateFile(w) PROVE Tidy'
<1> DEFINE n == Box(w)
           d == OpenResult(n, "CREAT")
           rec == [work[w] EXCEPT !.fd = d]
<1>1. IsWork(work[w]) /\ pc[w] = "create" /\ pc[w] \in Handling
  BY AtTyped DEF CreateFile, Handling
<1>2. n \in Boxes
  BY <1>1, KeptTyped DEF NewLabels, KeptLabels
<1>3. NoBox(table, n) /\ table[work[w].tmp].free
  BY <1>1, KnowsTidy DEF Kept, NewLabels, Box
<1>4. table' = table /\ TfsOpen(n, "CREAT")
  BY DEF CreateFile, boxVars
<1>5. /\ \A m \in Boxes \ {n} : entry'[m] = entry[m]
      /\ \A m \in Boxes : Exists(m) => entry'[m] = entry[m] /\ node'[entry[m]] = node[entry[m]]
      /\ ~Exists(n) /\ entry'[n] # None => node'[entry'[n]].size = 0
      /\ BlocksOwned'
      /\ d # None => entry'[n] # None
  BY <1>2, <1>4, FileCreated
<1>6. entry'[n] # None => node'[entry'[n]].size = 0
  BY <1>2, <1>3, <1>5 DEF Tidy, TidyFiles, FilesKept, FileSize
<1>7. SameWriters(w)
  <2>1. CASE d = None
    <3>1. oft' = oft
      BY <1>2, <1>4, <2>1, OpenFs DEF Typed
    <3> QED
      BY <3>1 DEF SameWriters
  <2>2. CASE d # None
    <3>1. d \in Handles /\ oft[d] = None /\ \A e \in Handles \ {d} : oft'[e] = oft[e]
      BY <1>2, <1>4, <2>2, OpenedFs DEF Typed
    <3> HIDE DEF d
    <3> QED
      BY <3>1, OthersHandles, WritersStay
  <2> QED
    BY <2>1, <2>2
<1>8. UNCHANGED bqVars
  BY AnswerMoves DEF CreateFile, Goto, Typed
<1>9. PICK q, r : /\ Moves(w, q, r) /\ q \in {"reply", "closeNew"}
                  /\ Kept(table', q, r) /\ FileKept(table', entry', node', oft', q, r)
  <2>1. CASE d = None
    <3>1. PICK r : Moves(w, "reply", r)
      BY <2>1, AnswerMoves DEF CreateFile, Typed
    <3>2. Kept(table', "reply", r) /\ FileKept(table', entry', node', oft', "reply", r)
      BY DEF Kept, FileKept, NewLabels, NamedLabels, NoPubLabels, PubLabels
    <3> QED
      BY <3>1, <3>2
  <2>2. CASE d # None
    <3>1. Goto(w, "closeNew", rec)
      BY <2>2 DEF CreateFile
    <3>2. IsWork(rec) /\ rec.box = n /\ rec.tmp = work[w].tmp
      BY <1>1, SetFd DEF Box
    <3> HIDE DEF rec, d, n
    <3>3. Moves(w, "closeNew", rec)
      BY <3>1, <3>2, GotoMoves DEF Typed
    <3>4. Kept(table', "closeNew", rec)
      BY <1>3, <1>4, <3>2 DEF Kept, NewLabels, NamedLabels, NoPubLabels, PubLabels
    <3>5. FileKept(table', entry', node', oft', "closeNew", rec)
      BY <1>5, <1>6, <2>2, <3>2 DEF FileKept
    <3> QED
      BY <3>3, <3>4, <3>5
  <2> QED
    BY <2>1, <2>2
<1>10. OneRequest'
  BY <1>1, <1>8, <1>9, OneRequestMoves DEF Tidy
<1>11. TidyBoxes'
  <2>1. SameBoxes /\ q \notin PubLabels
    BY <1>4, <1>9 DEF SameBoxes, PubLabels
  <2> QED
    BY <1>9, <2>1, BoxesMove DEF Tidy
<1> HIDE DEF n, d, rec
<1>12. WorkersFiles'
  <2>1. \A i \in Slots : ~table[i].free /\ table[i].pubs = 1 => table[i].name # n
    BY <1>3 DEF NoBox
  <2> QED
    BY <1>1, <1>2, <1>4, <1>5, <1>7, <1>9, <2>1, FilesChange
<1>13. FilesKept'
  <2>1. ASSUME NEW L, NEW j \in Slots, Nobody(L, j)', "create" \notin L PROVE Nobody(L, j)
    BY <1>1, <1>9, <2>1, NobodyElse
  <2>2. ASSUME NEW j \in Slots, ~table[j].free
        PROVE  table[j].name \in Boxes \ {n}
    BY <1>3, <2>2 DEF NoBox, Tidy, TidyBoxes, BoxesKept
  <2>3. ASSUME NEW j \in Slots, ~table[j].free, Nobody({"clear"}, j)' PROVE entry'[table[j].name] # None
    BY <1>5, <2>1, <2>2, <2>3 DEF Tidy, TidyFiles, FilesKept, Exists
  <2>4. ASSUME NEW j \in Slots, ~table[j].free, Nobody({"reset", "clear", "size"}, j)'
        PROVE  table[j].size = node'[entry'[table[j].name]].size
    <3>1. Nobody({"reset", "clear", "size"}, j)
      BY <2>1, <2>4
    <3>2. Nobody({"clear"}, j)
      BY <3>1 DEF Nobody
    <3>3. Exists(table[j].name) /\ table[j].size = node[entry[table[j].name]].size
      BY <2>4, <3>1, <3>2 DEF Tidy, TidyFiles, FilesKept, FileSize
    <3> QED
      BY <1>5, <2>2, <2>4, <3>3
  <2>5. ASSUME NEW m \in Boxes, entry'[m] # None, NoBox(table, m) PROVE node'[entry'[m]].size = 0
    <3>1. CASE m = n
      BY <1>6, <2>5, <3>1
    <3>2. CASE m # n
      <4>1. Exists(m)
        BY <1>5, <2>5, <3>2 DEF Exists
      <4> QED
        BY <1>5, <2>5, <4>1 DEF Tidy, TidyFiles, FilesKept, FileSize
    <3> QED
      BY <3>1, <3>2
  <2> QED
    BY <1>4, <2>3, <2>4, <2>5 DEF FilesKept, Exists, FileSize
<1> QED
  BY <1>5, <1>10, <1>11, <1>12, <1>13 DEF Tidy, TidyFiles

-----------------------------------------------------------------------------
(* The request queue, when requests are spaced *)

\* The main thread reads the next request; under Spaced none is in the queue or
\* handled: boxes and files stay together.
LEMMA ReadTidy == ASSUME Spaced, Typed, Tidy, ReadRequest PROVE Tidy'
<1>1. Quiet
  BY DEF ReadRequest
<1>2. PICK r : Arrive(r)
  BY DEF ReadRequest
<1>3. /\ offered' = [offered EXCEPT ![Main] = r] /\ queue' = queue /\ taken' = taken
      /\ UNCHANGED <<fsVars, table, pc, work>>
  BY <1>2 DEF Arrive, RequestQueue!Offer, boxVars
<1>4. queue = <<>> /\ \A w \in Workers : taken[w] = None /\ ~Busy(w)
  BY <1>1 DEF Quiet, Busy
<1>5. OneRequest'
  BY <1>3, <1>4 DEF OneRequest, Busy
<1> QED
  BY <1>3, <1>5, StillBoxes DEF Tidy

\* The main thread puts the request in the queue: boxes and files stay
\* together.
LEMMA EnqueueTidy == ASSUME Typed, Tidy, EnqueueRequest PROVE Tidy'
<1>1. /\ offered[Main] # None /\ queue' = Append(queue, offered[Main])
      /\ offered' = [offered EXCEPT ![Main] = None] /\ taken' = taken
      /\ UNCHANGED <<fsVars, table, pc, work>>
  BY DEF EnqueueRequest, RequestQueue!Enq, boxVars
<1>2. queue = <<>> /\ \A w \in Workers : ~Busy(w)
  BY <1>1 DEF Tidy, OneRequest
<1>3. offered'[Main] = None
  BY <1>1 DEF Typed, QueueTyped
<1>4. queue' = <<offered[Main]>> /\ Len(queue') = 1
  BY <1>1, <1>2
<1>5. \A w \in Workers : ~Busy(w)' /\ taken'[w] = None
  BY <1>1, <1>2 DEF Busy
<1>6. OneRequest'
  BY <1>3, <1>4, <1>5 DEF OneRequest
<1> QED
  BY <1>1, <1>6, StillBoxes DEF Tidy

\* A worker takes the request off the queue: boxes and files stay together.
LEMMA DequeueTidy == ASSUME Typed, Tidy, NEW w \in Workers, Dequeue(w) PROVE Tidy'
<1>1. /\ pc[w] = "idle" /\ queue # <<>> /\ taken' = [taken EXCEPT ![w] = Head(queue)]
      /\ queue' = Tail(queue) /\ offered' = offered
      /\ UNCHANGED <<fsVars, table, pc, work>>
  BY DEF Dequeue, At, RequestQueue!Deq, boxVars
<1>2. offered[Main] = None /\ Len(queue) <= 1 /\ \A v \in Workers : ~Busy(v)
  BY <1>1 DEF Tidy, OneRequest
<1>3. queue' = <<>>
  <2>1. queue \in Seq(Buffers)
    BY DEF Typed, QueueTyped
  <2>2. Len(queue) \in Nat \ {0}
    BY <1>1, <2>1, EmptySeq
  <2>3. queue # <<>>
    BY <1>1
  <2>4. Tail(queue) \in Seq(Buffers) /\ Len(Tail(queue)) = Len(queue) - 1
    BY <2>1, <2>3, HeadTailProperties
  <2>5. Len(queue) <= 1
    BY <1>2
  <2>6. Len(queue) - 1 = 0
    BY <2>2, <2>5
  <2>7. Tail(queue) = <<>>
    BY <2>4, <2>6, EmptySeq
  <2> QED
    BY <1>1, <2>7
<1>4. \A v \in Workers \ {w} : taken'[v] = taken[v] /\ ~Busy(v)'
  BY <1>1, <1>2 DEF Busy, Typed, QueueTyped
<1>5. Len(queue') <= 1 /\ offered'[Main] = None
  BY <1>1, <1>2, <1>3
<1>6. \A v \in Workers : taken'[v] # None => pc'[v] = "idle"
  BY <1>1, <1>4 DEF Busy
<1>7. OneRequest'
  BY <1>3, <1>4, <1>5, <1>6 DEF OneRequest
<1> QED
  BY <1>1, <1>7, StillBoxes DEF Tidy

\* A worker decodes its request and starts to handle it: boxes and files stay
\* together.
LEMMA DecodeTidy == ASSUME Typed, Tidy, NEW w \in Workers, Decode(w) PROVE Tidy'
<1>1. /\ pc[w] = "idle" /\ taken[w] # None /\ taken' = [taken EXCEPT ![w] = None]
      /\ UNCHANGED <<queue, offered>> /\ UNCHANGED <<fsVars, table>>
  BY DEF Decode, At, RequestQueue!Deliver, boxVars
<1>2. queue = <<>> /\ offered[Main] = None /\ \A v \in Workers \ {w} : ~Busy(v)
  BY <1>1 DEF Tidy, OneRequest, Busy
<1>3. Len(queue') <= 1 /\ queue' = <<>> /\ offered'[Main] = None
  BY <1>1, <1>2
<1>4. taken'[w] = None /\ \A v \in Workers \ {w} : taken'[v] = taken[v] /\ taken[v] = None
  BY <1>1, <1>2 DEF Busy, Typed, QueueTyped
<1>5. ASSUME \A v \in Workers \ {w} : pc'[v] = pc[v] PROVE OneRequest'
  <2>1. \A v \in Workers \ {w} : ~Busy(v)'
    BY <1>2, <1>4, <1>5 DEF Busy
  <2> QED
    BY <1>3, <1>4, <2>1 DEF OneRequest
<1>6. CASE UNCHANGED <<pc, work>>
  BY <1>1, <1>5, <1>6, StillBoxes DEF Tidy
<1>7. CASE \E p, r : p \in {"listCount", "lookup"} /\ Moves(w, p, r) /\ LocalsTyped(p, r)
  <2>1. PICK p, r : p \in {"listCount", "lookup"} /\ Moves(w, p, r)
    BY <1>7
  <2>2. OneRequest'
    BY <1>5, <2>1, MovesPc DEF Typed
  <2>3. p \notin KeptLabels /\ p \notin FileLabels /\ p \notin PubLabels
    BY <2>1, CarelessLabels
  <2>4. Kept(table', p, r) /\ FileKept(table', entry', node', oft', p, r)
    BY <2>3 DEF Kept, KeptLabels, NewLabels, NamedLabels, NoPubLabels, FileKept, FileLabels
  <2>5. SameBoxes /\ SameNames /\ SameSizes /\ SameFiles /\ SameWriters(w)
    BY <1>1 DEF SameBoxes, SameNames, SameSizes, SameFiles, SameWriters, fsVars
  <2>6. TidyBoxes'
    BY <2>1, <2>3, <2>4, <2>5, BoxesMove DEF Tidy
  <2>7. TidyFiles'
    BY <1>1, <2>1, <2>4, <2>5, FilesMove DEF Tidy
  <2> QED
    BY <2>2, <2>6, <2>7 DEF Tidy
<1> QED
  BY <1>6, <1>7, DecodeMoves

-----------------------------------------------------------------------------
(* Boxes and files: the invariant *)

\* When mbroker starts there are no boxes and no files.
LEMMA InitTidy == Init => Tidy
<1> SUFFICES ASSUME Init PROVE Tidy
  OBVIOUS
<1>1. queue = <<>> /\ offered = [p \in {Main} |-> None] /\ taken = [w \in Workers |-> None]
  BY DEF Init, RequestQueue!BQInit
<1>2. /\ table = [i \in Slots |-> FreeBox] /\ pc = [w \in Workers |-> "idle"]
      /\ entry = [n \in Boxes |-> None] /\ takenI = {} /\ takenB = {}
  BY DEF Init, FsInit
<1>3. OneRequest
  BY <1>1, <1>2 DEF OneRequest, Busy, Handling
<1>4. \A i \in Slots : table[i].free /\ table[i].pubs = 0
  BY <1>2 DEF FreeBox
<1>5. TidyBoxes
  BY <1>2, <1>4 DEF TidyBoxes, BoxesKept, WorkersKept, Kept, NewLabels, NamedLabels, NoPubLabels, PubLabels
<1>6. TidyFiles
  BY <1>2, <1>4 DEF TidyFiles, FilesKept, WorkersFiles, FileKept, BlocksOwned, Exists
<1> QED
  BY <1>3, <1>5, <1>6 DEF Tidy

\* Every step of a worker keeps boxes and files together.
LEMMA StepTidy == ASSUME Typed, Tidy, NEW w \in Workers, Step(w) PROVE Tidy'
<1>1. CASE Dequeue(w) \/ Decode(w) \/ LookupBox(w)
  BY <1>1, DequeueTidy, DecodeTidy, LookupTidy
<1>2. CASE CreateBox(w)
  BY <1>2, CreateSlotTidy, CreateFileTidy, CreateCloseTidy, CreateNameTidy, CreateResetTidy DEF CreateBox
<1>3. CASE RemoveBox(w)
  BY <1>3, RemoveBusyTidy, RemoveFileTidy, RemoveClearTidy, RemoveEndTidy DEF RemoveBox
<1>4. CASE ListBox(w) \/ Reply(w) \/ Deny(w)
  BY <1>4, ListTidy, ReplyTidy
<1>5. CASE PubStart(w)
  BY <1>5, PubCheckTidy, PubCountTidy, PubPipeTidy DEF PubStart
<1>6. CASE PubPost(w)
  BY <1>6, PubPipeTidy, PubOpenTidy, PubWriteTidy, PubSizeTidy, PubCloseTidy, PubReleaseTidy DEF PubPost
<1>7. CASE SubStart(w)
  BY <1>7, SubStartTidy, SubOpenTidy DEF SubStart
<1>8. CASE SubLoop(w)
  BY <1>8, SubJumpTidy, SubTakeTidy, SubDeliverTidy, SubLeaveTidy DEF SubLoop
<1> QED
  BY <1>1, <1>2, <1>3, <1>4, <1>5, <1>6, <1>7, <1>8 DEF Step

\* So does every step of mbroker, when requests are handled one at a time.
LEMMA NextTidy == Spaced /\ Typed /\ Tidy /\ [Next]_vars => Tidy'
<1> SUFFICES ASSUME Spaced, Typed, Tidy, [Next]_vars PROVE Tidy'
  OBVIOUS
<1>1. CASE ReadRequest \/ EnqueueRequest
  BY <1>1, ReadTidy, EnqueueTidy
<1>2. CASE \E w \in Workers : Step(w) \/ PubReceive(w) \/ SpuriousWakeup(w)
  <2>1. PICK w \in Workers : Step(w) \/ PubReceive(w) \/ SpuriousWakeup(w)
    BY <1>2
  <2>2. CASE SpuriousWakeup(w)
    <3>1. UNCHANGED <<fsVars, bqVars, table, pc, work>>
      BY <2>2 DEF SpuriousWakeup
    <3> QED
      BY <3>1, StillTidy
  <2> QED
    BY <2>1, <2>2, StepTidy, PubReceiveTidy
<1>3. CASE UNCHANGED vars
  <2>1. UNCHANGED <<fsVars, bqVars, table, pc, work>>
    BY <1>3 DEF vars, boxVars
  <2> QED
    BY <2>1, StillTidy
<1> QED
  BY <1>1, <1>2, <1>3 DEF Next, Over

\* When requests are handled one at a time, while sessions go on: one request
\* is on its way or handled, names of boxes are unique, a box has at most one
\* session that publishes, and each box has a file of its size, except while it
\* is created, removed or written to.
THEOREM BoxesTidy == Spaced => (Spec => [](Typed /\ Tidy))
<1> SUFFICES ASSUME Spaced PROVE Spec => [](Typed /\ Tidy)
  OBVIOUS
<1>1. Typed /\ Tidy /\ [Next]_vars => (Typed /\ Tidy)'
  BY NextTyped, NextTidy
<1> QED
  BY <1>1, InitTyped, InitTidy, PTL DEF Spec

\* A publisher's session keeps its box: as long as the session goes on, its box
\* has no other publisher, is still in the table, and is the box found by its
\* name (register_publisher, remove_box).
THEOREM PublisherHasBox == Spaced => (Spec => []PublisherKeepsBox)
<1>1. Typed /\ Tidy => PublisherKeepsBox
  <2> SUFFICES ASSUME Typed, Tidy, NEW w \in Workers, Publishing(w)
               PROVE  /\ table[Slot(w)].pubs = 1
                      /\ GetBox(Box(w)) = Slot(w)
                      /\ \A v \in Workers : Publishing(v) /\ Box(v) = Box(w) => v = w
    BY DEF PublisherKeepsBox
  <2>1. \A v \in Workers : Publishing(v) => pc[v] \in PubLabels
    BY DEF Publishing, PubLabels
  <2>2. GetBox(Box(w)) = Slot(w)
    BY <2>1, BoxFound
  <2>3. Kept(table, pc[w], work[w])
    BY DEF Tidy, TidyBoxes, WorkersKept
  <2>4. table[Slot(w)].pubs = 1
    BY <2>1, <2>3 DEF Kept, Slot
  <2>5. ASSUME NEW v \in Workers, Publishing(v), Box(v) = Box(w) PROVE v = w
    <3>1. GetBox(Box(v)) = Slot(v)
      BY <2>1, <2>5, BoxFound
    <3>2. Slot(v) = Slot(w)
      BY <2>2, <2>5, <3>1
    <3> QED
      BY <2>1, <2>5, <3>2 DEF Tidy, TidyBoxes, BoxesKept
  <2> QED
    BY <2>2, <2>4, <2>5
<1> QED
  BY <1>1, BoxesTidy, PTL

\* The size a box is listed with (utils.c:288) is the size of its file, and each
\* box has a file of its own, except while it is created, removed or written to.
THEOREM ListedSizes == Spaced => (Spec => []SizeIsFileSize)
<1>1. Typed /\ Tidy => SizeIsFileSize
  <2> SUFFICES ASSUME Typed, Tidy, NEW i \in Slots, ~table[i].free,
                      \A w \in Workers : Slot(w) = i => pc[w] \notin {"reset", "clear", "size"}
               PROVE  /\ \A j \in Slots : ~table[j].free /\ table[j].name = table[i].name => j = i
                      /\ Exists(table[i].name)
                      /\ table[i].size = node[entry[table[i].name]].size
    BY DEF SizeIsFileSize
  <2>1. Nobody({"clear"}, i) /\ Nobody({"reset", "clear", "size"}, i)
    BY DEF Nobody
  <2>2. Exists(table[i].name) /\ table[i].size = FileSize(table[i].name)
    BY <2>1 DEF Tidy, TidyFiles, FilesKept
  <2>3. \A j \in Slots : ~table[j].free /\ table[j].name = table[i].name => j = i
    BY DEF Tidy, TidyBoxes, BoxesKept
  <2> QED
    BY <2>2, <2>3 DEF FileSize
<1> QED
  BY <1>1, BoxesTidy, PTL

\* The blocks in use are the blocks of the files that exist, each of one file:
\* tfs_write and inode_delete lose none and give none out twice.
THEOREM BlocksBelong == Spaced => (Spec => []BlocksOwned)
<1>1. Typed /\ Tidy => BlocksOwned
  BY DEF Tidy, TidyFiles
<1> QED
  BY <1>1, BoxesTidy, PTL


\* A publisher's session looks its box up again after each message and uses the
\* result as an index (mbroker.c:116): when requests are handled one at a time
\* it always finds the box, and it is the one whose file it has written to.
THEOREM BoxFoundAgain ==
  Spaced => (Spec => [][\A w \in Workers : PubSize(w) => crashed' = FALSE /\ GetBox(Box(w)) = Slot(w)]_vars)
<1>1. ASSUME Typed, Tidy, NEW w \in Workers, PubSize(w)
      PROVE  crashed' = FALSE /\ GetBox(Box(w)) = Slot(w)
  <2>1. pc[w] \in PubLabels
    BY <1>1 DEF PubSize, At, PubLabels
  <2> QED
    BY <1>1, <2>1, PubSizeTidy, BoxFound
<1>2. Typed /\ Tidy /\ [Next]_vars =>
        [\A w \in Workers : PubSize(w) => crashed' = FALSE /\ GetBox(Box(w)) = Slot(w)]_vars
  BY <1>1
<1> QED
  BY <1>2, BoxesTidy, PTL DEF Spec


-----------------------------------------------------------------------------
(* Messages: what is in a box stays there while the box exists *)

\* The cells of file i when the blocks hold dt and the inodes are m.
DataCell(dt, b, k) == IF Address(b, k) \in DOMAIN dt THEN dt[Address(b, k)] ELSE Nul
Held(dt, m, i) == [k \in 1 .. m[i].size |-> DataCell(dt, m[i].block, k - 1)]

\* A block ends before the next one begins.
LEMMA BlocksApart ==
  ASSUME NEW b \in Nat, NEW c \in Nat, b < c, NEW n \in Nat
  PROVE  b * n + n <= c * n
<1>1. PICK d \in Nat : c = b + 1 + d
  <2>1. c - b - 1 \in Nat /\ c = b + 1 + (c - b - 1)
    OBVIOUS
  <2> QED
    BY <2>1
<1>2. d * n \in Nat
  OBVIOUS
<1>3. (b + 1 + d) * n = b * n + n + d * n
  OBVIOUS
<1>4. b * n \in Nat
  OBVIOUS
<1> QED
  BY <1>1, <1>2, <1>3, <1>4

\* Two places in the blocks have the same address only when they are the same.
LEMMA CellsApart ==
  ASSUME NEW b \in Blocks, NEW c \in Blocks,
         NEW j \in 0 .. BlockSize - 1, NEW k \in 0 .. BlockSize - 1, Address(b, j) = Address(c, k)
  PROVE  b = c /\ j = k
<1>1. BlockSize \in Nat /\ b \in Nat \ {0} /\ c \in Nat \ {0}
  BY BrokerSizes DEF Blocks
<1>2. b - 1 \in Nat /\ c - 1 \in Nat
  BY <1>1
<1>3. (b - 1) * BlockSize \in Nat /\ (c - 1) * BlockSize \in Nat
  BY <1>1, <1>2
<1>4. (b - 1) * BlockSize + j = (c - 1) * BlockSize + k
  BY DEF Address
<1>5. ASSUME b < c PROVE FALSE
  <2>1. (b - 1) * BlockSize + BlockSize <= (c - 1) * BlockSize
    BY <1>1, <1>2, <1>5, BlocksApart
  <2> QED
    BY <1>1, <1>3, <1>4, <2>1
<1>6. ASSUME c < b PROVE FALSE
  <2>1. (c - 1) * BlockSize + BlockSize <= (b - 1) * BlockSize
    BY <1>1, <1>2, <1>6, BlocksApart
  <2> QED
    BY <1>1, <1>3, <1>4, <2>1
<1>7. b = c
  BY <1>1, <1>5, <1>6
<1> QED
  BY <1>3, <1>4, <1>7

\* tfs_write changes the cells of its block from the offset on, and no others.
LEMMA CellsKept ==
  ASSUME NEW block \in Blocks, NEW off \in Nat, NEW n \in Nat, off + n <= BlockSize,
         NEW dt, NEW du, DOMAIN du = DOMAIN dt,
         \A a \in DOMAIN dt : a - Address(block, off) \notin 0 .. n - 1 => du[a] = dt[a],
         NEW b \in Blocks, NEW k \in 0 .. BlockSize - 1, b # block \/ k < off
  PROVE  DataCell(du, b, k) = DataCell(dt, b, k)
<1> DEFINE a == Address(b, k)
           j == a - Address(block, off)
<1>1. BlockSize \in Nat /\ a \in Int /\ Address(block, off) \in Int
  BY BrokerSizes DEF Blocks, Address
<1>2. ASSUME j \in 0 .. n - 1 PROVE FALSE
  <2>1. off + j \in 0 .. BlockSize - 1
    BY <1>1, <1>2
  <2>2. Address(block, off + j) = Address(block, off) + j
    <3>1. (block - 1) * BlockSize \in Int
      BY <1>1 DEF Blocks
    <3> HIDE DEF j
    <3> QED
      BY <1>2, <3>1 DEF Address
  <2>3. Address(block, off + j) = Address(b, k)
    BY <1>1, <2>2
  <2> HIDE DEF j
  <2> QED
    BY <1>2, <2>1, <2>3, CellsApart
<1> QED
  BY <1>2 DEF DataCell

\* A sequence is a prefix of another that begins with the same elements.
LEMMA PrefixWhen ==
  ASSUME NEW m \in Nat, NEW n \in Nat, m <= n, NEW S, NEW s \in [1 .. m -> S], NEW t \in [1 .. n -> S],
         \A i \in 1 .. m : s[i] = t[i]
  PROVE  IsPrefix(s, t)
<1>1. s \in Seq(S) /\ t \in Seq(S)
  OBVIOUS
<1>2. Len(s) = m /\ Len(t) = n
  BY <1>1
<1>3. SubSeq(s, 1, m) = SubSeq(t, 1, m)
  BY <1>1, <1>2
<1> QED
  BY <1>2, <1>3 DEF IsPrefix


\* A file whose cells stay, up to its size, has its old contents at the beginning.
LEMMA HeldKept ==
  ASSUME NEW i, node[i].size \in Nat, node'[i].size \in Nat, node[i].size <= node'[i].size,
         \A k \in 0 .. node[i].size - 1 :
            DataCell(data', node'[i].block, k) = DataCell(data, node[i].block, k)
  PROVE  IsPrefix(Held(data, node, i), Held(data', node', i))
<1> DEFINE s == Held(data, node, i)
           t == Held(data', node', i)
           m == node[i].size
           n == node'[i].size
<1>1. s = [k \in 1 .. m |-> s[k]] /\ t = [k \in 1 .. n |-> t[k]]
  BY DEF Held
<1>2. ASSUME NEW k \in 1 .. m PROVE s[k] = t[k]
  <2>1. k - 1 \in 0 .. m - 1 /\ k \in 1 .. n
    OBVIOUS
  <2>2. DataCell(data', node'[i].block, k - 1) = DataCell(data, node[i].block, k - 1)
    BY <2>1
  <2> QED
    BY <2>1, <2>2 DEF Held
<1>3. m \in Nat /\ n \in Nat /\ m <= n
  OBVIOUS
<1> DEFINE S == {s[k] : k \in 1 .. m} \cup {t[k] : k \in 1 .. n}
<1> HIDE DEF s, t, m, n
<1>4. s \in [1 .. m -> S] /\ t \in [1 .. n -> S]
  BY <1>1
<1> HIDE DEF S
<1>5. \A T : \A f \in [1 .. m -> T], g \in [1 .. n -> T] : (\A k \in 1 .. m : f[k] = g[k]) => IsPrefix(f, g)
  BY <1>3, PrefixWhen
<1>6. IsPrefix(s, t)
  BY <1>2, <1>4, <1>5
<1> QED
  BY <1>6 DEF s, t

\* What MessagesStay says of a step.
FilesStay == \A n \in Boxes : Exists(n) /\ Exists(n)' => IsPrefix(Content(entry[n]), Content(entry[n])')

\* Contents, with the variables that they are of.
LEMMA ContentIs ==
  ASSUME \A n \in Boxes : Exists(n) /\ Exists(n)' =>
           entry'[n] = entry[n] /\ IsPrefix(Held(data, node, entry[n]), Held(data', node', entry[n]))
  PROVE  FilesStay
<1>1. ASSUME NEW n \in Boxes, Exists(n), Exists(n)' PROVE IsPrefix(Content(entry[n]), Content(entry[n])')
  <2>1. Content(entry[n]) = Held(data, node, entry[n])
    BY DEF Content, Held, Cell, DataCell
  <2>2. Content(entry[n])' = Held(data', node', entry'[n])
    BY DEF Content, Held, Cell, DataCell
  <2> QED
    BY <1>1, <2>1, <2>2
<1> QED
  BY <1>1 DEF FilesStay

\* A step that leaves the files that there are as they are.
LEMMA FilesSame ==
  ASSUME FsTyped, data' = data,
         \A n \in Boxes : Exists(n) /\ Exists(n)' => entry'[n] = entry[n] /\ node'[entry[n]] = node[entry[n]]
  PROVE  FilesStay
<1>1. ASSUME NEW n \in Boxes, Exists(n), Exists(n)'
      PROVE  entry'[n] = entry[n] /\ IsPrefix(Held(data, node, entry[n]), Held(data', node', entry[n]))
  <2>1. entry'[n] = entry[n] /\ node'[entry[n]] = node[entry[n]]
    BY <1>1
  <2>2. node[entry[n]].size \in Nat
    <3>1. entry[n] \in Inodes
      BY <1>1, EntryTyped
    <3>2. node[entry[n]].size \in 0 .. BlockSize
      BY <3>1, NodeTyped
    <3> QED
      BY <3>2
  <2>3. IsPrefix(Held(data, node, entry[n]), Held(data', node', entry[n]))
    BY <2>1, <2>2, HeldKept
  <2> QED
    BY <2>1, <2>3
<1> QED
  BY <1>1, ContentIs

\* tfs_open changes no file that there is.
LEMMA OpenStays ==
  ASSUME FsTyped, InodesCounted, NEW n \in Boxes, NEW mode, TfsOpen(n, mode)
  PROVE  FilesStay
<1>1. NewInode \in Inodes \ takenI
  BY NewInodeFree
<1>2. data' = data
  BY DEF TfsOpen
<1>3. node' = node \/ node' = [node EXCEPT ![NewInode] = EmptyFile]
  BY DEF TfsOpen
<1>4. entry' = entry \/ (~Exists(n) /\ entry' = [entry EXCEPT ![n] = NewInode])
  BY DEF TfsOpen
<1>5. ASSUME NEW m \in Boxes, Exists(m), Exists(m)'
      PROVE  entry'[m] = entry[m] /\ node'[entry[m]] = node[entry[m]]
  <2>1. entry[m] \in takenI /\ entry[m] \in Inodes
    BY <1>5, EntryTyped DEF InodesCounted, NamesWithFiles
  <2>2. entry[m] # NewInode
    BY <1>1, <2>1
  <2>3. node'[entry[m]] = node[entry[m]]
    BY <1>3, <2>1, <2>2 DEF FsTyped
  <2>4. entry'[m] = entry[m]
    BY <1>4, <1>5 DEF FsTyped
  <2> QED
    BY <2>3, <2>4
<1> QED
  BY <1>2, <1>5, FilesSame

\* tfs_unlink changes no other file.
LEMMA UnlinkStays ==
  ASSUME FsTyped, NEW n \in Boxes, TfsUnlink(n)
  PROVE  FilesStay
<1>1. data' = data /\ node' = node /\ entry' = [entry EXCEPT ![n] = None]
  BY DEF TfsUnlink
<1>2. ASSUME NEW m \in Boxes, Exists(m), Exists(m)' PROVE entry'[m] = entry[m]
  BY <1>1, <1>2 DEF Exists, FsTyped
<1> QED
  BY <1>1, <1>2, FilesSame

\* A publisher's session appends to the file of its box, behind what is there.
LEMMA PubWriteStays ==
  ASSUME Typed, Tidy, NEW w \in Workers, PubWrite(w)
  PROVE  FilesStay
<1> DEFINE d == Fd(w)
           cells == Append(work[w].msg, Nul)
           k == WriteResult(d, cells)
           i == entry[Box(w)]
           block == IF NeedsBlock(d) THEN First(FreeBlocks) ELSE node[i].block
<1>1. /\ IsWork(work[w]) /\ LocalsTyped("write", work[w])
      /\ pc[w] = "write" /\ pc[w] \in HandleLabels /\ pc[w] \in PubLabels
  BY AtTyped DEF PubWrite, HandleLabels, PubLabels
<1>2. d \in Handles /\ oft[d] # None /\ oft[d].off <= BlockSize
  BY <1>1, HandleHeld DEF Typed, HandlesOwned
<1>3. cells \in Seq(Chars \cup {Nul})
  <2>1. work[w].msg \in Seq(Chars \cup {Nul})
    BY <1>1 DEF LocalsTyped
  <2> QED
    BY <2>1
<1>4. TfsWrite(d, cells)
  BY DEF PubWrite, Fd
<1>5. Box(w) \in Boxes /\ Exists(Box(w))
  BY <1>1, PublisherFile
<1>6. i \in Inodes /\ i \in takenI
  BY <1>5, EntryTyped DEF Typed, InodesCounted, NamesWithFiles
<1>7. oft[d].inum = i /\ oft[d].off = node[i].size
  <2>1. oft[d] = OpenFile(i, node[i].size)
    BY <1>1, KnowsTidy DEF FileKept, Fd, Box
  <2> QED
    BY <2>1 DEF OpenFile
<1>8. node[i].size \in Nat /\ node[i].size <= BlockSize /\ BlockSize \in Nat
  <2>1. node[i].size \in 0 .. BlockSize
    BY <1>6, NodeTyped DEF Typed
  <2> QED
    BY <2>1, BrokerSizes
<1> HIDE DEF cells, d
<1>9. CASE ~(k > 0)
  <2>1. UNCHANGED fsVars
    BY <1>2, <1>3, <1>4, <1>9, WriteFs DEF Typed
  <2> QED
    BY <2>1, FilesSame DEF fsVars, Typed
<1>10. CASE k > 0
  <2>1. /\ entry' = entry /\ k \in Nat /\ node[i].size + k \in 0 .. BlockSize
        /\ \A j \in Inodes \ {i} : node'[j] = node[j]
        /\ node'[i].size = IF node[i].size + k > node[i].size THEN node[i].size + k ELSE node[i].size
        /\ node'[i].block = block
        /\ NeedsBlock(d) => block \in FreeBlocks
    <3>1. FsTyped /\ InodesCounted
      BY DEF Typed
    <3> QED
      BY SMTT(30), <1>2, <1>3, <1>4, <1>7, <1>10, <3>1, WriteFs
  <2>2. /\ DOMAIN data' = DOMAIN data
        /\ \A a \in DOMAIN data : a - Address(block, oft[d].off) \notin 0 .. k - 1 => data'[a] = data[a]
    BY <1>4, <1>7, <1>10, <2>1 DEF TfsWrite
  <2>3. NeedsBlock(d) <=> node[i].size = 0
    BY <1>7 DEF NeedsBlock
  <2>4. /\ takenB = {node[j].block : j \in {j \in takenI : node[j].size > 0}}
        /\ \A j, l \in takenI : node[j].size > 0 /\ node[l].size > 0 /\ node[j].block = node[l].block => j = l
        /\ takenB \subseteq Blocks
    BY DEF Typed, FsTyped, Tidy, TidyFiles, BlocksOwned
  <2>5. node[i].size > 0 => block = node[i].block
    BY <2>3, <1>8
  <2> HIDE DEF block, k
  <2>6. block \in Blocks
    BY <1>6, <1>8, <2>1, <2>3, <2>4, <2>5 DEF FreeBlocks
  <2>7. ASSUME NEW n \in Boxes, Exists(n), Exists(n)'
        PROVE  entry'[n] = entry[n] /\ IsPrefix(Held(data, node, entry[n]), Held(data', node', entry[n]))
    <3> DEFINE e == entry[n]
    <3>1. e \in Inodes /\ e \in takenI
      BY <2>7, EntryTyped DEF Typed, InodesCounted, NamesWithFiles
    <3>2. node[e].size \in 0 .. BlockSize
      BY <3>1, NodeTyped DEF Typed
    <3> HIDE DEF e, i
    <3>3. /\ node'[e].size \in Nat /\ node[e].size \in Nat /\ node[e].size <= node'[e].size
          /\ node[e].size > 0 => node'[e].block = node[e].block
      <4>1. CASE e = i
        BY <1>8, <2>1, <2>5, <4>1
      <4>2. CASE e # i
        BY <2>1, <3>1, <3>2, <4>2
      <4> QED
        BY <4>1, <4>2
    <3>4. ASSUME NEW l \in 0 .. node[e].size - 1
          PROVE  DataCell(data', node'[e].block, l) = DataCell(data, node[e].block, l)
      <4>1. node[e].size > 0 /\ l \in 0 .. BlockSize - 1 /\ node[e].block \in Blocks
        BY <1>8, <2>4, <3>1, <3>2
      <4>2. node[e].block # block \/ l < node[i].size
        <5>1. CASE e = i
          BY <3>2, <5>1
        <5>2. CASE e # i /\ node[i].size > 0
          BY <1>6, <2>4, <2>5, <3>1, <4>1, <5>2
        <5>3. CASE ~(node[i].size > 0)
          <6>1. block \notin takenB
            BY <1>8, <2>1, <2>3, <5>3 DEF FreeBlocks
          <6>2. node[e].block \in takenB
            BY <2>4, <3>1, <4>1
          <6> QED
            BY <6>1, <6>2
        <5> QED
          BY <5>1, <5>2, <5>3
      <4>3. DataCell(data', node[e].block, l) = DataCell(data, node[e].block, l)
        <5>1. oft[d].off + k <= BlockSize /\ oft[d].off \in Nat /\ k \in Nat
          BY <1>7, <1>8, <2>1 DEF i
        <5>2. node[e].block # block \/ l < oft[d].off
          BY <1>7, <4>2 DEF i
        <5> QED
          BY <2>2, <2>6, <4>1, <5>1, <5>2, CellsKept
      <4> QED
        BY <3>3, <4>1, <4>3
    <3>5. IsPrefix(Held(data, node, e), Held(data', node', e))
      BY <3>3, <3>4, HeldKept
    <3> QED
      BY <2>1, <3>5 DEF e
  <2> QED
    BY <2>7, ContentIs
<1> QED
  BY <1>9, <1>10


-----------------------------------------------------------------------------
(* Every other step *)

\* A step that changes no file, no contents and no name.
LEMMA QuietStays == ASSUME FsTyped, UNCHANGED <<entry, node, data>> PROVE FilesStay
  BY FilesSame

\* A worker that handles a request of a manager writes to no file.
LEMMA HandlersStay ==
  ASSUME Typed, Tidy, NEW w \in Workers,
         Dequeue(w) \/ Decode(w) \/ LookupBox(w) \/ CreateBox(w) \/ RemoveBox(w) \/ ListBox(w) \/ Reply(w) \/ Deny(w)
  PROVE  FilesStay
<1>0. FsTyped /\ InodesCounted
  BY DEF Typed
<1>1. CASE CreateFile(w)
  <2>1. Box(w) \in Boxes
    BY <1>1, KeptTyped DEF CreateFile, At, KeptLabels, NewLabels
  <2> QED
    BY <1>0, <1>1, <2>1, OpenStays DEF CreateFile
<1>2. CASE RemoveFile(w)
  <2>1. CASE UNCHANGED fsVars
    BY <1>0, <2>1, QuietStays DEF fsVars
  <2>2. CASE ~UNCHANGED fsVars
    <3>1. table[Slot(w)].name \in Boxes /\ TfsUnlink(table[Slot(w)].name)
      <4>1. pc[w] = "unlink"
        BY <1>2 DEF RemoveFile, At
      <4>2. Slot(w) \in Slots /\ ~table[Slot(w)].free
        BY <4>1, KeptTyped, KnowsTidy DEF NamedLabels, Kept, Slot
      <4>3. table[Slot(w)].name \in Boxes
        BY <4>2 DEF Tidy, TidyBoxes, BoxesKept
      <4> QED
        BY <1>2, <2>2, <4>3 DEF RemoveFile
    <3> QED
      BY <1>0, <3>1, UnlinkStays
  <2> QED
    BY <2>1, <2>2
<1>3. CASE ~CreateFile(w) /\ ~RemoveFile(w)
  <2>1. CASE CreateClose(w)
    BY <1>0, <2>1, QuietStays DEF CreateClose, TfsClose
  <2>2. CASE Dequeue(w) \/ Decode(w) \/ LookupBox(w)
    <3>1. UNCHANGED fsVars
      BY <2>2 DEF Dequeue, Decode, LookupBox
    <3> QED
      BY <1>0, <3>1, QuietStays DEF fsVars
  <2>3. CASE CreateSlot(w) \/ CreateName(w) \/ CreateReset(w)
    <3>1. UNCHANGED fsVars
      BY <2>3 DEF CreateSlot, CreateName, CreateReset
    <3> QED
      BY <1>0, <3>1, QuietStays DEF fsVars
  <2>4. CASE RemoveBusy(w) \/ RemoveClear(w) \/ RemoveHangup(w) \/ RemoveHangupFails(w) \/ RemoveWake(w)
    <3>1. UNCHANGED fsVars
      BY <2>4 DEF RemoveBusy, RemoveClear, RemoveHangup, RemoveHangupFails, Hangup, RemoveWake
    <3> QED
      BY <1>0, <3>1, QuietStays DEF fsVars
  <2>5. CASE ListBox(w) \/ Reply(w) \/ Deny(w)
    <3>1. UNCHANGED fsVars
      BY <2>5 DEF ListBox, ListCount, ListNext, ListLast, ListCopy, ListSend, Reply, Deny, GiveUp
    <3> QED
      BY <1>0, <3>1, QuietStays DEF fsVars
  <2> QED
    BY <1>3, <2>1, <2>2, <2>3, <2>4, <2>5 DEF CreateBox, RemoveBox
<1> QED
  BY <1>1, <1>2, <1>3

\* Of the steps of sessions only PubWrite writes to a file.
LEMMA SessionsStay ==
  ASSUME Typed, Tidy, NEW w \in Workers,
         PubStart(w) \/ PubPost(w) \/ PubReceive(w) \/ SubStart(w) \/ SubLoop(w) \/ SpuriousWakeup(w)
  PROVE  FilesStay
<1>0. FsTyped /\ InodesCounted
  BY DEF Typed
<1>1. CASE PubOpen(w)
  <2>1. Box(w) \in Boxes
    BY <1>1, PublisherFile DEF PubOpen, At, PubLabels
  <2> QED
    BY <1>0, <1>1, <2>1, OpenStays DEF PubOpen
<1>2. CASE SubOpen(w)
  <2>1. Box(w) \in Boxes
    BY <1>2, SlotTyped DEF SubOpen, At, SlotLabels, BoxLabels
  <2> QED
    BY <1>0, <1>2, <2>1, OpenStays, QuietStays DEF SubOpen, fsVars
<1>3. CASE PubWrite(w)
  BY <1>3, PubWriteStays
<1>4. CASE ~PubOpen(w) /\ ~SubOpen(w) /\ ~PubWrite(w)
  <2>1. CASE PubStart(w) \/ PubReceive(w) \/ SpuriousWakeup(w)
    <3>1. UNCHANGED fsVars
      BY <2>1 DEF PubStart, PubCheck, PubCount, PubPipe, GiveUp, PubReceive, Receive, SpuriousWakeup
    <3> QED
      BY <1>0, <3>1, QuietStays DEF fsVars
  <2>2. CASE PubLock(w) \/ PubSize(w) \/ PubAnnounce(w) \/ PubRelease(w)
    <3>1. UNCHANGED fsVars
      BY <2>2 DEF PubLock, GiveUp, PubSize, PubAnnounce, PubRelease
    <3> QED
      BY <1>0, <3>1, QuietStays DEF fsVars
  <2>3. CASE PubClose(w)
    BY <1>0, <2>3, QuietStays DEF PubClose, TfsClose
  <2>4. CASE SubRead(w) \/ SubEnter(w) \/ SubPipe(w)
    <3>1. UNCHANGED fsVars
      BY <2>4 DEF SubRead, SubEnter, SubPipe, GiveUp
    <3> QED
      BY <1>0, <3>1, QuietStays DEF fsVars
  <2>5. CASE SubTake(w)
    <3>1. UNCHANGED <<entry, node, data>>
      BY <2>5 DEF SubTake, TfsRead, fsVars
    <3> QED
      BY <1>0, <3>1, QuietStays
  <2>6. CASE SubLock(w) \/ SubFree(w) \/ SubSleep(w) \/ SubWake(w) \/ SubDeliver(w) \/ SubLeave(w) \/ SubUncount(w)
    <3>1. UNCHANGED <<entry, node, data>>
      BY <2>6 DEF SubLock, SubFree, SubSleep, SubWake, SubDeliver, SubLeave, SubUncount, TfsClose, fsVars
    <3> QED
      BY <1>0, <3>1, QuietStays
  <2> QED
    BY <1>4, <2>1, <2>2, <2>3, <2>4, <2>5, <2>6 DEF PubPost, SubStart, SubLoop
<1> QED
  BY <1>1, <1>2, <1>3, <1>4

-----------------------------------------------------------------------------
(* Theorem *)

\* When requests are handled one at a time, what a publisher has written to a
\* box stays in its place until the box is removed: every step of mbroker leaves
\* the contents of each file or appends to them (mbroker.c:103).
THEOREM NothingOverwritten == Spaced => (Spec => MessagesStay)
<1>1. Typed /\ Tidy /\ [Next]_vars =>
        [<<node, data>>' # <<node, data>> =>
           \A n \in Boxes : Exists(n) /\ Exists(n)' => IsPrefix(Content(entry[n]), Content(entry[n])')]_vars
  <2> SUFFICES ASSUME Typed, Tidy, Next, vars' # vars, <<node, data>>' # <<node, data>> PROVE FilesStay
    BY DEF FilesStay
  <2>1. CASE ReadRequest \/ EnqueueRequest
    <3>1. UNCHANGED fsVars
      BY <2>1 DEF ReadRequest, Arrive, EnqueueRequest
    <3> QED
      BY <3>1 DEF fsVars
  <2>2. CASE \E w \in Workers : Step(w) \/ PubReceive(w) \/ SpuriousWakeup(w)
    <3>1. PICK w \in Workers : Step(w) \/ PubReceive(w) \/ SpuriousWakeup(w)
      BY <2>2
    <3> QED
      BY <3>1, HandlersStay, SessionsStay DEF Step
  <2> QED
    BY <2>1, <2>2 DEF Next, Over
<1> QED
  BY <1>1, BoxesTidy, PTL DEF Spec, MessagesStay

-----------------------------------------------------------------------------
(* Subscribers that sleep *)

\* The cells of an inode m, when the blocks hold dt.
FileCell(dt, m, k) == DataCell(dt, m.block, k)

\* The box of w's session is in w's slot, and its file is the one w reads.
InBox(t, e, o, r) ==
    ~t[r.slot].free /\ t[r.slot].name = r.box /\ e[r.box] = o[r.fd].inum

\* w's session has a box, and there is more in it than w has read.
Missed(w) == InBox(table, entry, oft, work[w]) /\ Unread(w)

\* A publisher has written to the box in slot i and is to wake its subscribers.
Announcing(i) == \E p \in Workers : pc[p] \in {"size", "pubClose", "announce"} /\ Slot(p) = i

\* A publisher sends something.
HasMessage(p, r) ==
    p \in {"append", "write"} \/ (p = "pubLock" /\ r.read = "message") => r.msg # <<>>
MessagesWhole == \A w \in Workers : HasMessage(pc[w], work[w])

\* No message in a file is empty.
Spelt(dt, m) == \A k \in 0 .. m.size - 2 : FileCell(dt, m, k) = Nul => FileCell(dt, m, k + 1) # Nul
FilesSpelt == \A n \in Boxes : Exists(n) => Spelt(data, node[entry[n]])

\* A session that is about to sleep has read everything, and one that sleeps has
\* too, or will be woken.
ReadAll == \A w \in Workers : pc[w] \in {"subFree", "sleep"} => ~Missed(w)
SleepersKnown == \A w \in asleep : Missed(w) => Announcing(Slot(w))

ReadersKept == MessagesWhole /\ FilesSpelt /\ ReadAll /\ SleepersKnown

\* No publisher sends an empty message: pub.c skips empty lines, and sends one only
\* for a last line of one character that has no newline.
MessagesNotEmpty == \A k \in DOMAIN Messages : Messages[k] # <<>>

\* What one worker does.
Moved(w) == Step(w) \/ PubReceive(w) \/ SpuriousWakeup(w)

\* Unread, with the variables that it is of.
LEMMA UnreadIs ==
  ASSUME NEW w
  PROVE  LET r == work[w]
             m == node[oft[r.fd].inum]
         IN Unread(w) <=> \E k \in oft[r.fd].off .. m.size - 1 : FileCell(data, m, k) # Nul
  BY DEF Unread, Fd, Inum, Cell, DataCell, FileCell

\* The same in the next state.
LEMMA UnreadNext ==
  ASSUME NEW w
  PROVE  LET r == work'[w]
             m == node'[oft'[r.fd].inum]
         IN Unread(w)' <=> \E k \in oft'[r.fd].off .. m.size - 1 : FileCell(data', m, k) # Nul
  BY DEF Unread, Fd, Inum, Cell, DataCell, FileCell

\* What a subscriber's session has.
LEMMA ReaderTyped ==
  ASSUME Typed, NEW w \in Workers, pc[w] \in SubLabels
  PROVE  /\ Box(w) \in Boxes /\ Slot(w) \in Slots /\ Fd(w) \in Handles
         /\ oft[Fd(w)].inum \in Inodes /\ oft[Fd(w)].off \in Nat
         /\ node[oft[Fd(w)].inum].size \in Nat
<1>1. LocalsTyped(pc[w], work[w])
  BY WorkerTyped DEF Typed
<1>2. Box(w) \in Boxes /\ Slot(w) \in Slots
  BY <1>1 DEF LocalsTyped, BoxLabels, SlotLabels, SubLabels, Box, Slot
<1>3. Fd(w) \in Handles /\ oft[Fd(w)] # None
  BY HandleHeld DEF HandleLabels
<1>4. oft[Fd(w)].inum \in Inodes /\ oft[Fd(w)].off \in 0 .. DataEnd
  BY <1>3, HandleTyped DEF Typed
<1>5. node[oft[Fd(w)].inum].size \in 0 .. BlockSize
  BY <1>4, NodeTyped DEF Typed
<1> QED
  BY <1>2, <1>3, <1>4, <1>5

\* The cells of a file that a step leaves alone.
SameFile(i) ==
    /\ node'[i] = node[i]
    /\ \A k \in 0 .. node[i].size - 1 : FileCell(data', node[i], k) = FileCell(data, node[i], k)

\* A session whose file is left alone, or empty, has missed no more than before.
LEMMA MissedBefore ==
  ASSUME Typed, NEW w \in Workers, pc[w] \in SubLabels,
         Same(work'[w], work[w]), oft'[Fd(w)] = oft[Fd(w)],
         InBox(table', entry', oft', work'[w]) =>
             \/ node'[oft[Fd(w)].inum].size = 0
             \/ InBox(table, entry, oft, work[w]) /\ SameFile(oft[Fd(w)].inum),
         Missed(w)'
  PROVE  Missed(w)
<1> DEFINE i == oft[Fd(w)].inum
           off == oft[Fd(w)].off
<1>1. off \in Nat /\ node[i].size \in Nat
  BY ReaderTyped
<1>2. work'[w].fd = Fd(w)
  BY DEF Same, Fd
<1>3. PICK k \in off .. node'[i].size - 1 : FileCell(data', node'[i], k) # Nul
  BY <1>2, UnreadNext DEF Missed
<1>4. node'[i].size # 0
  BY <1>1, <1>3
<1>5. InBox(table, entry, oft, work[w]) /\ SameFile(i)
  BY <1>4 DEF Missed
<1>6. k \in off .. node[i].size - 1 /\ FileCell(data, node[i], k) # Nul
  BY <1>1, <1>3, <1>5 DEF SameFile
<1>7. Unread(w)
  BY <1>6, UnreadIs DEF Fd
<1> QED
  BY <1>5, <1>7 DEF Missed

\* v stays where it is, with what it has to send.
Rests(v) == /\ pc'[v] = pc[v] /\ Same(work'[v], work[v])
            /\ work'[v].msg = work[v].msg /\ work'[v].read = work[v].read

\* A worker's step leaves the other workers where they are.
LEMMA OthersRest ==
  ASSUME Typed, NEW w \in Workers, Moved(w), NEW v \in Workers \ {w}
  PROVE  Rests(v)
<1>0. work = [u \in Workers |-> work[u]] /\ pc \in [Workers -> Labels] /\ IsWork(work[v])
  BY DEF Typed, WorkersTyped
<1>1. ASSUME pc'[v] = pc[v], work'[v] = work[v] PROVE Rests(v)
  BY <1>1 DEF Rests, Same
<1>2. ASSUME NEW l, NEW r, Goto(w, l, r) PROVE Rests(v)
  BY <1>0, <1>1, <1>2 DEF Goto
<1>3. ASSUME NEW l, Jump(w, l) PROVE Rests(v)
  BY <1>2, <1>3 DEF Jump
<1>4. ASSUME Done(w) PROVE Rests(v)
  BY <1>0, <1>1, <1>4 DEF Done
<1>5. ASSUME GiveUp(w) PROVE Rests(v)
  BY <1>4, <1>5 DEF GiveUp
<1>6. ASSUME NEW r, Answer(w, r) PROVE Rests(v)
  BY <1>2, <1>6 DEF Answer
<1>7. ASSUME NEW S, NEW next, NEW r, Hangup(w, S, next, r) PROVE Rests(v)
  <2>1. pc'[v] = pc[v]
    BY <1>0, <1>7 DEF Hangup
  <2>2. work'[v] = Cut(w, S)[v]
    BY <1>0, <1>7 DEF Hangup, Cut
  <2>3. work'[v] = work[v] \/ work'[v] = [work[v] EXCEPT !.pipe = "dead"]
    BY <2>2 DEF Cut
  <2>4. \A r1 : r1 = work[v] => /\ Same([r1 EXCEPT !.pipe = "dead"], r1)
                                /\ [r1 EXCEPT !.pipe = "dead"].msg = r1.msg
                                /\ [r1 EXCEPT !.pipe = "dead"].read = r1.read
    BY <1>0 DEF IsWork, Same
  <2> QED
    BY <2>1, <2>3, <2>4, <1>1 DEF Rests
<1>8. CASE Dequeue(w) \/ Decode(w) \/ LookupBox(w)
  <2>1. CASE Dequeue(w)
    BY <1>1, <2>1 DEF Dequeue
  <2>2. CASE Decode(w)
    <3>1. \A p, r : pc' = [pc EXCEPT ![w] = p] /\ work' = [work EXCEPT ![w] = r]
                     => pc'[v] = pc[v] /\ work'[v] = work[v]
      BY <1>0
    <3> DEFINE req == decode(taken[w])
               p0 == IF req.code = REQUEST_LIST_BOX THEN "listCount" ELSE "lookup"
               r0 == [NoWork EXCEPT !.code = req.code, !.client = req.client, !.box = req.box]
    <3>2. \/ pc' = [pc EXCEPT ![w] = p0] /\ work' = [work EXCEPT ![w] = r0]
          \/ UNCHANGED <<pc, work>>
      BY <2>2 DEF Decode
    <3> HIDE DEF p0, r0
    <3> QED
      BY <1>1, <3>1, <3>2
  <2>3. CASE LookupBox(w)
    <3>1. work[w].code \in RegisterRequests
      BY <2>3, AtTyped DEF LookupBox, LocalsTyped
    <3> QED
      BY <1>2, <1>3, <1>6, <2>3, <3>1 DEF LookupBox, RegisterRequests
  <2> QED
    BY <1>8, <2>1, <2>2, <2>3
<1>9. CASE CreateBox(w)
  BY <1>2, <1>3, <1>6, <1>9 DEF CreateBox, CreateSlot, CreateFile, CreateClose, CreateName, CreateReset
<1>10. CASE RemoveBox(w)
  BY <1>2, <1>3, <1>6, <1>7, <1>10
  DEF RemoveBox, RemoveBusy, RemoveFile, RemoveClear, RemoveHangup, RemoveHangupFails, RemoveWake
<1>11. CASE ListBox(w) \/ Reply(w) \/ Deny(w)
  BY <1>2, <1>4, <1>5, <1>11 DEF ListBox, ListCount, ListNext, ListLast, ListCopy, ListSend, Reply, Deny
<1>12. CASE PubStart(w) \/ PubReceive(w)
  <2>1. CASE PubStart(w)
    BY <1>3, <1>5, <2>1 DEF PubStart, PubCheck, PubCount, PubPipe
  <2>2. CASE PubReceive(w)
    BY <1>0, <1>1, <2>2 DEF PubReceive, Receive
  <2> QED
    BY <1>12, <2>1, <2>2
<1>13. CASE PubPost(w)
  <2>1. CASE PubSize(w)
    BY <1>0, <1>1, <2>1 DEF PubSize
  <2>2. CASE ~PubSize(w)
    BY <1>2, <1>3, <1>4, <1>5, <1>13, <2>2 DEF PubPost, PubLock, PubOpen, PubWrite, PubClose, PubAnnounce, PubRelease
  <2> QED
    BY <2>1, <2>2
<1>14. CASE SubStart(w)
  BY <1>2, <1>3, <1>4, <1>5, <1>14 DEF SubStart, SubRead, SubEnter, SubPipe, SubOpen
<1>15. CASE SubLoop(w) \/ SpuriousWakeup(w)
  <2>1. CASE SubTake(w)
    BY <1>0, <1>1, <2>1 DEF SubTake
  <2>2. CASE SubDeliver(w)
    BY <1>0, <1>1, <2>2 DEF SubDeliver
  <2>3. CASE SpuriousWakeup(w)
    BY <1>1, <2>3 DEF SpuriousWakeup
  <2>4. CASE ~SubTake(w) /\ ~SubDeliver(w) /\ ~SpuriousWakeup(w)
    BY <1>2, <1>3, <1>4, <1>15, <2>4
    DEF SubLoop, SubLock, SubFree, SubSleep, SubWake, SubLeave, SubUncount
  <2> QED
    BY <2>1, <2>2, <2>3, <2>4
<1> QED
  BY <1>8, <1>9, <1>10, <1>11, <1>12, <1>13, <1>14, <1>15 DEF Moved, Step

\* The other workers' handles stay.
SameHandles(w) == \A v \in Workers \ {w} : pc[v] \in HandleLabels => oft'[Fd(v)] = oft[Fd(v)]

\* A step of w that leaves names, files and the other workers' handles alone.
Untouching(w) == SameNames /\ UNCHANGED <<entry, node, data>> /\ SameHandles(w)

\* A slot that keeps its name.
LEMMA NamesKept ==
  ASSUME NEW i, NEW s, NEW p, Becomes(i, table[i].free, table[i].name, s, p)
  PROVE  SameNames
  BY DEF Becomes, SameNames

\* A step that does not call TecnicoFS.
LEMMA UntouchedFs ==
  ASSUME UNCHANGED fsVars, NEW w, table' = table \/ SameNames
  PROVE  Untouching(w)
  BY DEF fsVars, Untouching, SameHandles, SameNames

\* tfs_open takes a handle that no worker has.
LEMMA OpenHandles ==
  ASSUME Typed, NEW w \in Workers, NEW n \in Boxes, NEW mode, TfsOpen(n, mode)
  PROVE  data' = data /\ SameHandles(w)
<1> DEFINE d == OpenResult(n, mode)
<1>1. data' = data
  BY DEF TfsOpen
<1>2. CASE d = None
  <2>1. oft' = oft
    BY <1>2, OpenFs DEF Typed
  <2> QED
    BY <1>1, <2>1 DEF SameHandles
<1>3. CASE d # None
  <2>1. d \in Handles /\ oft[d] = None /\ \A e \in Handles \ {d} : oft'[e] = oft[e]
    BY <1>3, OpenedFs DEF Typed
  <2> HIDE DEF d
  <2> QED
    BY <1>1, <2>1, OthersHandles DEF SameHandles
<1> QED
  BY <1>2, <1>3

\* tfs_open to read or to append changes no file.
LEMMA OpenUntouched ==
  ASSUME Typed, NEW w \in Workers, NEW n \in Boxes, NEW mode, mode # "CREAT", TfsOpen(n, mode)
  PROVE  UNCHANGED <<entry, node, data>> /\ SameHandles(w)
  BY OpenHandles DEF TfsOpen

\* Requests of managers leave names and files alone, but for four steps.
LEMMA HandlersUntouching ==
  ASSUME Typed, Tidy, NEW w \in Workers,
         Dequeue(w) \/ Decode(w) \/ LookupBox(w) \/ CreateBox(w) \/ RemoveBox(w) \/ ListBox(w) \/ Reply(w) \/ Deny(w),
         ~CreateFile(w), ~CreateName(w), ~RemoveFile(w), ~RemoveClear(w)
  PROVE  Untouching(w)
<1>1. CASE Dequeue(w) \/ Decode(w) \/ LookupBox(w) \/ CreateSlot(w)
  <2>1. UNCHANGED fsVars /\ table' = table
    BY <1>1 DEF Dequeue, Decode, LookupBox, CreateSlot, boxVars
  <2> QED
    BY <2>1, UntouchedFs
<1>2. CASE CreateClose(w)
  <2>1. TfsClose(Fd(w)) /\ table' = table /\ pc[w] \in HandleLabels
    BY <1>2 DEF CreateClose, At, HandleLabels, boxVars, Fd
  <2>2. UNCHANGED <<entry, node, data>>
    BY <2>1 DEF TfsClose
  <2>3. SameHandles(w)
    BY <2>1, ClosedFs DEF SameHandles
  <2> QED
    BY <2>1, <2>2, <2>3 DEF Untouching, SameNames
<1>3. CASE CreateReset(w)
  <2>1. UNCHANGED fsVars
    BY <1>3 DEF CreateReset
  <2>2. SameNames
    BY <1>3, CreateResetTable, NamesKept
  <2> QED
    BY <2>1, <2>2, UntouchedFs
<1>4. CASE RemoveBusy(w) \/ RemoveWake(w)
  <2>1. UNCHANGED fsVars /\ table' = table
    BY <1>4 DEF RemoveBusy, RemoveWake, boxVars
  <2> QED
    BY <2>1, UntouchedFs
<1>5. CASE RemoveHangup(w) \/ RemoveHangupFails(w)
  <2>1. PICK S, next, r : At(w, "hangup") /\ Hangup(w, S, next, r)
    BY <1>5 DEF RemoveHangup, RemoveHangupFails
  <2>2. UNCHANGED fsVars
    BY <2>1 DEF Hangup
  <2>3. Recounts(Slot(w))
    BY <2>1, HangupTable
  <2>4. SameNames
    BY <2>3, NamesKept DEF Recounts
  <2> QED
    BY <2>2, <2>4, UntouchedFs
<1>6. CASE ListBox(w) \/ Reply(w) \/ Deny(w)
  <2>1. UNCHANGED fsVars /\ table' = table
    BY <1>6 DEF ListBox, ListCount, ListNext, ListLast, ListCopy, ListSend, Reply, Deny, GiveUp, boxVars
  <2> QED
    BY <2>1, UntouchedFs
<1> QED
  BY <1>1, <1>2, <1>3, <1>4, <1>5, <1>6 DEF CreateBox, RemoveBox

\* Sessions leave names and files alone, but for a publisher's writes.
LEMMA SessionsUntouching ==
  ASSUME Typed, Tidy, NEW w \in Workers,
         PubStart(w) \/ PubPost(w) \/ PubReceive(w) \/ SubStart(w) \/ SubLoop(w) \/ SpuriousWakeup(w),
         ~PubWrite(w)
  PROVE  Untouching(w)
<1>1. CASE PubCheck(w) \/ PubPipe(w) \/ PubReceive(w) \/ SpuriousWakeup(w) \/ PubLock(w) \/ PubAnnounce(w)
  <2>1. UNCHANGED fsVars /\ table' = table
    BY <1>1 DEF PubCheck, PubPipe, PubReceive, Receive, SpuriousWakeup, PubLock, PubAnnounce, GiveUp, boxVars
  <2> QED
    BY <2>1, UntouchedFs
<1>2. CASE PubCount(w) \/ PubRelease(w) \/ PubSize(w)
  <2>1. UNCHANGED fsVars
    BY <1>2 DEF PubCount, PubRelease, PubSize
  <2>2. CASE PubCount(w)
    BY <2>1, <2>2, PubCountTable, NamesKept, UntouchedFs
  <2>3. CASE PubRelease(w)
    BY <2>1, <2>3, PubReleaseTable, NamesKept, UntouchedFs
  <2>4. CASE PubSize(w)
    BY <2>1, <2>4, PubSizeTable, NamesKept, UntouchedFs
  <2> QED
    BY <1>2, <2>2, <2>3, <2>4
<1>3. CASE PubOpen(w)
  <2>1. Box(w) \in Boxes
    BY <1>3, PublisherFile DEF PubOpen, At, PubLabels
  <2>2. TfsOpen(Box(w), "APPEND") /\ table' = table
    BY <1>3 DEF PubOpen
  <2> QED
    BY <2>1, <2>2, OpenUntouched DEF Untouching, SameNames
<1>4. CASE PubClose(w)
  <2>1. TfsClose(Fd(w)) /\ table' = table /\ pc[w] \in HandleLabels
    BY <1>4 DEF PubClose, At, HandleLabels, Fd
  <2>2. UNCHANGED <<entry, node, data>>
    BY <2>1 DEF TfsClose
  <2>3. SameHandles(w)
    BY <2>1, ClosedFs DEF SameHandles
  <2> QED
    BY <2>1, <2>2, <2>3 DEF Untouching, SameNames
<1>5. CASE SubRead(w) \/ SubEnter(w) \/ SubPipe(w)
  <2>1. UNCHANGED fsVars
    BY <1>5 DEF SubRead, SubEnter, SubPipe, GiveUp
  <2>2. table' = table \/ Recounts(Slot(w))
    BY <1>5, SubEnterTable, SubTables DEF SubRead, boxVars
  <2> QED
    BY <2>1, <2>2, NamesKept, UntouchedFs DEF Recounts
<1>6. CASE SubOpen(w)
  <2>1. Box(w) \in Boxes
    BY <1>6, SlotTyped DEF SubOpen, At, SlotLabels, BoxLabels
  <2>2. TfsOpen(Box(w), "READ")
    BY <1>6 DEF SubOpen
  <2>3. SameNames
    <3>1. table' = table \/ Recounts(Slot(w))
      BY <1>6, SubTables
    <3> QED
      BY <3>1, NamesKept DEF Recounts, SameNames
  <2> QED
    BY <2>1, <2>2, <2>3, OpenUntouched DEF Untouching
<1>7. CASE SubTake(w)
  <2>1. table' = table
    BY <1>7 DEF SubTake, boxVars
  <2>2. CASE UNCHANGED fsVars
    BY <2>1, <2>2, UntouchedFs
  <2>3. CASE TfsRead(Fd(w))
    <3>1. pc[w] \in HandleLabels
      BY <1>7 DEF SubTake, At, HandleLabels, SubLabels
    <3>2. Fd(w) \in Handles /\ oft[Fd(w)] # None
      BY <3>1, HandleHeld
    <3>3. \A e \in Handles \ {Fd(w)} : oft'[e] = oft[e]
      BY <2>3, <3>2, ReadFs DEF Typed
    <3>4. SameHandles(w)
      BY <3>1, <3>2, <3>3, OthersHandles DEF SameHandles
    <3> QED
      BY <2>1, <2>3, <3>4 DEF TfsRead, Untouching, SameNames
  <2> QED
    BY <1>7, <2>2, <2>3 DEF SubTake, Fd
<1>8. CASE SubLock(w) \/ SubFree(w) \/ SubSleep(w) \/ SubWake(w) \/ SubDeliver(w)
  <2>1. UNCHANGED fsVars /\ table' = table
    BY <1>8 DEF SubLock, SubFree, SubSleep, SubWake, SubDeliver
  <2> QED
    BY <2>1, UntouchedFs
<1>9. CASE SubLeave(w) \/ SubUncount(w)
  <2>1. UNCHANGED fsVars
    BY <1>9 DEF SubLeave, SubUncount
  <2> QED
    BY <1>9, <2>1, SubTables, NamesKept, UntouchedFs DEF Recounts
<1> QED
  BY <1>1, <1>2, <1>3, <1>4, <1>5, <1>6, <1>7, <1>8, <1>9 DEF PubStart, PubPost, SubStart, SubLoop

\* Such a step makes no session miss anything.
LEMMA UntouchedMissed ==
  ASSUME Typed, NEW w \in Workers, Untouching(w), NEW v \in Workers \ {w}, Rests(v), pc[v] \in SubLabels, Missed(v)'
  PROVE  Missed(v)
<1>1. Box(v) \in Boxes /\ Slot(v) \in Slots
  BY ReaderTyped
<1>2. oft'[Fd(v)] = oft[Fd(v)]
  BY DEF Untouching, SameHandles, HandleLabels
<1>3. UNCHANGED <<entry, node, data>> /\ table'[Slot(v)].free = table[Slot(v)].free
      /\ table'[Slot(v)].name = table[Slot(v)].name
  BY <1>1 DEF Untouching, SameNames
<1>4. Same(work'[v], work[v])
  BY DEF Rests
<1>5. InBox(table', entry', oft', work'[v]) => InBox(table, entry, oft, work[v])
  BY <1>2, <1>3, <1>4 DEF InBox, Same, Fd, Slot
<1>6. SameFile(oft[Fd(v)].inum)
  BY <1>3 DEF SameFile
<1> QED
  BY <1>2, <1>4, <1>5, <1>6, MissedBefore

\* A step that leaves v where it is makes its session miss no more than before,
\* if the session's file stays in the box with what is in it, or is empty.
LEMMA RestingMissed ==
  ASSUME Typed, NEW w \in Workers, SameHandles(w), NEW v \in Workers \ {w}, Rests(v), pc[v] \in SubLabels,
         LET r == work[v]
         IN InBox(table', entry', oft, r) =>
              \/ node'[oft[r.fd].inum].size = 0
              \/ InBox(table, entry, oft, r) /\ SameFile(oft[r.fd].inum),
         Missed(v)'
  PROVE  Missed(v)
<1>1. oft'[Fd(v)] = oft[Fd(v)]
  BY DEF SameHandles, HandleLabels
<1>2. Same(work'[v], work[v])
  BY DEF Rests
<1>3. InBox(table', entry', oft', work'[v]) => InBox(table', entry', oft, work[v])
  BY <1>1, <1>2 DEF InBox, Same, Fd
<1> QED
  BY <1>1, <1>2, <1>3, MissedBefore DEF Fd

\* A file that is made is of another box.
LEMMA CreateFileMissed ==
  ASSUME Typed, Tidy, NEW w \in Workers, CreateFile(w),
         NEW v \in Workers \ {w}, Rests(v), pc[v] \in SubLabels, Missed(v)'
  PROVE  Missed(v)
<1>1. pc[w] = "create" /\ Box(w) \in Boxes /\ NoBox(table, Box(w))
  BY KeptTyped, KnowsTidy DEF CreateFile, At, KeptLabels, NewLabels, Kept, Box
<1>2. TfsOpen(Box(w), "CREAT") /\ table' = table
  BY DEF CreateFile, boxVars
<1>3. data' = data /\ SameHandles(w)
  BY <1>1, <1>2, OpenHandles
<1>4. ASSUME InBox(table', entry', oft, work[v])
      PROVE  InBox(table, entry, oft, work[v]) /\ SameFile(oft[work[v].fd].inum)
  <2>1. Slot(v) \in Slots /\ Box(v) \in Boxes /\ oft[Fd(v)].inum \in Inodes
    BY ReaderTyped
  <2>2. Box(v) # Box(w)
    BY <1>1, <1>2, <1>4, <2>1 DEF NoBox, InBox, Box, Slot
  <2>3. entry[Box(v)] = oft[Fd(v)].inum
    BY <1>1, <1>2, <1>4, <2>1, <2>2, FileCreated DEF InBox, Box, Fd
  <2>4. Exists(Box(v))
    BY <2>1, <2>3, FsIndices DEF Exists
  <2>5. node'[entry[Box(v)]] = node[entry[Box(v)]]
    BY <1>1, <1>2, <2>1, <2>4, FileCreated
  <2> QED
    BY <1>2, <1>3, <1>4, <2>3, <2>5 DEF InBox, SameFile, Box, Fd
<1> QED
  BY <1>3, <1>4, RestingMissed

\* A box that gets its name has an empty file.
LEMMA CreateNameMissed ==
  ASSUME Typed, Tidy, NEW w \in Workers, CreateName(w),
         NEW v \in Workers \ {w}, Rests(v), pc[v] \in SubLabels, Missed(v)'
  PROVE  Missed(v)
<1>1. pc[w] = "name" /\ node[entry[Box(w)]].size = 0
  BY KnowsTidy DEF CreateName, At, FileKept, Box
<1>2. UNCHANGED fsVars
  BY DEF CreateName
<1>3. Becomes(Slot(w), FALSE, Box(w), table[Slot(w)].size, table[Slot(w)].pubs)
  BY CreateNameTable
<1>4. SameHandles(w) /\ node' = node /\ data' = data /\ entry' = entry
  BY <1>2 DEF SameHandles, fsVars
<1>5. Slot(v) \in Slots
  BY ReaderTyped
<1>6. CASE Slot(v) = Slot(w)
  <2>1. table'[Slot(v)].name = Box(w)
    BY <1>3, <1>6 DEF Becomes
  <2>2. InBox(table', entry', oft, work[v]) => node'[oft[work[v].fd].inum].size = 0
    BY <1>1, <1>4, <2>1 DEF InBox, Slot, Box
  <2> QED
    BY <1>4, <2>2, RestingMissed
<1>7. CASE Slot(v) # Slot(w)
  <2>1. table'[Slot(v)].free = table[Slot(v)].free /\ table'[Slot(v)].name = table[Slot(v)].name
    BY <1>3, <1>5, <1>7 DEF Becomes
  <2>2. InBox(table', entry', oft, work[v]) => InBox(table, entry, oft, work[v])
    BY <1>4, <2>1 DEF InBox, Slot
  <2>3. SameFile(oft[work[v].fd].inum)
    BY <1>4 DEF SameFile
  <2> QED
    BY <1>4, <2>2, <2>3, RestingMissed
<1> QED
  BY <1>6, <1>7

\* The file of a box that goes is nobody's to read.
LEMMA RemoveMissed ==
  ASSUME Typed, Tidy, NEW w \in Workers, RemoveFile(w) \/ RemoveClear(w),
         NEW v \in Workers \ {w}, Rests(v), pc[v] \in SubLabels, Missed(v)'
  PROVE  Missed(v)
<1>1. Slot(v) \in Slots /\ Box(v) \in Boxes /\ oft[Fd(v)].inum \in Inodes
  BY ReaderTyped
<1>2. UNCHANGED <<node, data, oft>>
  BY DEF RemoveFile, RemoveClear, TfsUnlink, fsVars
<1>3. SameHandles(w)
  BY <1>2 DEF SameHandles
<1>4. SameFile(oft[work[v].fd].inum)
  BY <1>2 DEF SameFile
<1>5. CASE RemoveFile(w)
  <2>1. table' = table
    BY <1>5 DEF RemoveFile, boxVars
  <2>2. entry' = entry \/ \E n : entry' = [entry EXCEPT ![n] = None]
    BY <1>5 DEF RemoveFile, TfsUnlink, fsVars
  <2>3. entry'[Box(v)] # None => entry'[Box(v)] = entry[Box(v)]
    BY <1>1, <2>2 DEF Typed, FsTyped
  <2>4. InBox(table', entry', oft, work[v]) => InBox(table, entry, oft, work[v])
    BY <1>1, <2>1, <2>3, FsIndices DEF InBox, Box, Fd
  <2> QED
    BY <1>3, <1>4, <2>4, RestingMissed
<1>6. CASE RemoveClear(w)
  <2>1. entry' = entry
    BY <1>6 DEF RemoveClear, fsVars
  <2>2. Becomes(Slot(w), TRUE, None, 0, 0)
    BY <1>6, RemoveClearTable
  <2>3. ~table'[Slot(v)].free => /\ table'[Slot(v)].free = table[Slot(v)].free
                                 /\ table'[Slot(v)].name = table[Slot(v)].name
    BY <1>1, <2>2 DEF Becomes
  <2>4. InBox(table', entry', oft, work[v]) => InBox(table, entry, oft, work[v])
    BY <2>1, <2>3 DEF InBox, Slot
  <2> QED
    BY <1>3, <1>4, <2>4, RestingMissed
<1> QED
  BY <1>5, <1>6

\* tfs_write, cell by cell.
LEMMA WrittenIs ==
  ASSUME NEW d, NEW cells, TfsWrite(d, cells), WriteResult(d, cells) \in Nat \ {0}
  PROVE  LET i == oft[d].inum
             n == WriteResult(d, cells)
             base == Address(IF NeedsBlock(d) THEN First(FreeBlocks) ELSE node[i].block, oft[d].off)
         IN /\ DOMAIN data' = DOMAIN data
            /\ \A a \in DOMAIN data :
                 data'[a] = IF a - base \in 0 .. n - 1 THEN cells[a - base + 1] ELSE data[a]
<1> DEFINE i == oft[d].inum
           n == WriteResult(d, cells)
           base == Address(IF NeedsBlock(d) THEN First(FreeBlocks) ELSE node[i].block, oft[d].off)
<1>1. data' = [a \in DOMAIN data |-> IF a - base \in 0 .. n - 1 THEN cells[a - base + 1] ELSE data[a]]
  <2>1. n > 0 /\ ~(n <= 0)
    OBVIOUS
  <2> QED
    BY <2>1 DEF TfsWrite
<1> HIDE DEF n, base
<1> QED
  BY <1>1 DEF n, base

\* The first n of cells are in du from address base on.
Stored(du, cells, base, n) ==
    /\ DOMAIN du = 0 .. DataEnd - 1
    /\ \A a \in DOMAIN du : a - base \in 0 .. n - 1 => du[a] = cells[a - base + 1]

\* What is written is found where it was written to.
LEMMA CellWritten ==
  ASSUME NEW block \in Blocks, NEW off \in Nat, NEW n \in Nat, off + n <= BlockSize,
         NEW cells, NEW du, Stored(du, cells, Address(block, off), n),
         NEW j \in 0 .. n - 1
  PROVE  DataCell(du, block, off + j) = cells[j + 1]
<1>1. BlockSize \in Nat /\ NBlocks \in Nat /\ block - 1 \in Nat /\ block - 1 < NBlocks
  BY BrokerSizes DEF Blocks
<1>2. (block - 1) * BlockSize + BlockSize <= NBlocks * BlockSize
  BY <1>1, BlocksApart
<1>3. (block - 1) * BlockSize \in Nat /\ NBlocks * BlockSize \in Nat
  BY <1>1
<1>4. Address(block, off + j) = (block - 1) * BlockSize + off + j
  BY <1>1, <1>3 DEF Address
<1>5. Address(block, off + j) \in 0 .. DataEnd - 1
  BY <1>1, <1>2, <1>3, <1>4 DEF DataEnd
<1>6. Address(block, off + j) - Address(block, off) = j
  BY <1>3, <1>4 DEF Address
<1> QED
  BY <1>5, <1>6 DEF DataCell, Stored

\* File n, when the blocks hold dt, is file m with cells appended, or the first of them.
Appended(m, dt, n, cells) ==
    \E k \in 1 .. Len(cells) :
       /\ n.size = m.size + k
       /\ \A l \in 0 .. m.size - 1 : FileCell(dt, n, l) = FileCell(data, m, l)
       /\ \A l \in 0 .. k - 1 : FileCell(dt, n, m.size + l) = cells[l + 1]

\* A publisher's write either changes nothing or appends to the file of its box
\* what it sends, or the beginning of that, and leaves the other files alone.
LEMMA PubWriteMakes ==
  ASSUME Typed, Tidy, NEW w \in Workers, PubWrite(w)
  PROVE  LET i == entry[Box(w)]
             cells == Append(work[w].msg, Nul)
         IN /\ i \in takenI /\ i \in Inodes /\ entry' = entry
            /\ \/ UNCHANGED fsVars
               \/ /\ \A e \in takenI \ {i} : SameFile(e)
                  /\ Appended(node[i], data', node'[i], cells)
<1> DEFINE d == Fd(w)
           cells == Append(work[w].msg, Nul)
           k == WriteResult(d, cells)
           i == entry[Box(w)]
           block == IF NeedsBlock(d) THEN First(FreeBlocks) ELSE node[i].block
<1>1. /\ IsWork(work[w]) /\ LocalsTyped("write", work[w])
      /\ pc[w] = "write" /\ pc[w] \in HandleLabels /\ pc[w] \in PubLabels
  BY AtTyped DEF PubWrite, HandleLabels, PubLabels
<1>2. d \in Handles /\ oft[d] # None /\ oft[d].off <= BlockSize
  BY <1>1, HandleHeld DEF Typed, HandlesOwned
<1>3. cells \in Seq(Chars \cup {Nul})
  <2>1. work[w].msg \in Seq(Chars \cup {Nul})
    BY <1>1 DEF LocalsTyped
  <2> QED
    BY <2>1
<1>4. TfsWrite(d, cells)
  BY DEF PubWrite, Fd
<1>5. Box(w) \in Boxes /\ Exists(Box(w))
  BY <1>1, PublisherFile
<1>6. i \in Inodes /\ i \in takenI
  BY <1>5, EntryTyped DEF Typed, InodesCounted, NamesWithFiles
<1>7. oft[d].inum = i /\ oft[d].off = node[i].size
  <2>1. oft[d] = OpenFile(i, node[i].size)
    BY <1>1, KnowsTidy DEF FileKept, Fd, Box
  <2> QED
    BY <2>1 DEF OpenFile
<1>8. node[i].size \in Nat /\ node[i].size <= BlockSize /\ BlockSize \in Nat
  <2>1. node[i].size \in 0 .. BlockSize
    BY <1>6, NodeTyped DEF Typed
  <2> QED
    BY <2>1, BrokerSizes
<1>9. entry' = entry
  BY <1>4 DEF TfsWrite
<1>10. k <= Len(cells)
  <2> HIDE DEF cells
  <2>1. Len(cells) \in Nat /\ oft[d].off \in Nat
    BY <1>3, <1>7, <1>8
  <2> DEFINE n == Len(cells)
             off == oft[d].off
  <2> HIDE DEF n, off
  <2>2. n \in Nat /\ off \in Nat /\ BlockSize \in Nat
    BY <2>1, <1>8 DEF n, off
  <2>3. WriteCount(n, off) <= n /\ -1 <= n
    BY <2>2 DEF WriteCount, Min2
  <2>4. k = -1 \/ k = WriteCount(n, off)
    BY DEF WriteResult, n, off
  <2> QED
    BY <2>3, <2>4 DEF n
<1> HIDE DEF cells, d
<1>11. CASE ~(k > 0)
  <2>1. UNCHANGED fsVars
    BY <1>2, <1>3, <1>4, <1>11, WriteFs DEF Typed
  <2> QED
    BY <1>6, <1>9, <2>1
<1>12. CASE k > 0
  <2>1. /\ k \in Nat /\ node[i].size + k \in 0 .. BlockSize
        /\ \A j \in Inodes \ {i} : node'[j] = node[j]
        /\ node'[i].size = IF node[i].size + k > node[i].size THEN node[i].size + k ELSE node[i].size
        /\ node'[i].block = block
        /\ NeedsBlock(d) => block \in FreeBlocks
    <3>1. FsTyped /\ InodesCounted
      BY DEF Typed
    <3> QED
      BY SMTT(30), <1>2, <1>3, <1>4, <1>7, <1>12, <3>1, WriteFs
  <2>2. /\ DOMAIN data' = DOMAIN data
        /\ \A a \in DOMAIN data :
             data'[a] = IF a - Address(block, node[i].size) \in 0 .. k - 1
                          THEN cells[a - Address(block, node[i].size) + 1] ELSE data[a]
    BY <1>4, <1>7, <1>12, <2>1, WrittenIs
  <2>3. NeedsBlock(d) <=> node[i].size = 0
    BY <1>7 DEF NeedsBlock
  <2>4. /\ takenB = {node[j].block : j \in {j \in takenI : node[j].size > 0}}
        /\ \A j, l \in takenI : node[j].size > 0 /\ node[l].size > 0 /\ node[j].block = node[l].block => j = l
        /\ takenB \subseteq Blocks
        /\ DOMAIN data = 0 .. DataEnd - 1
        /\ takenI \subseteq Inodes
    BY DEF Typed, FsTyped, Tidy, TidyFiles, BlocksOwned
  <2>5. node[i].size > 0 => block = node[i].block
    BY <2>3, <1>8
  <2> HIDE DEF block, k, i
  <2>6. block \in Blocks
    BY <1>6, <1>8, <2>1, <2>3, <2>4, <2>5 DEF FreeBlocks
  <2> DEFINE base == Address(block, node[i].size)
  <2>7. /\ DOMAIN data' = DOMAIN data
        /\ \A a \in DOMAIN data : a - base \notin 0 .. k - 1 => data'[a] = data[a]
    BY <2>2
  <2>14. Stored(data', cells, base, k)
    BY <2>2, <2>4 DEF Stored
  <2>8. node[i].size \in Nat /\ k \in Nat /\ node[i].size + k <= BlockSize
    BY <2>1, <1>8
  <2>9. ASSUME NEW e \in takenI, NEW l \in 0 .. node[e].size - 1
        PROVE  DataCell(data', node[e].block, l) = DataCell(data, node[e].block, l)
    <3>1. node[e].size \in 0 .. BlockSize
      BY <2>4, NodeTyped DEF Typed
    <3>2. node[e].size > 0 /\ l \in 0 .. BlockSize - 1 /\ node[e].block \in Blocks
      BY <1>8, <2>4, <3>1
    <3>3. node[e].block # block \/ l < node[i].size
      <4>1. CASE e = i
        BY <3>1, <4>1
      <4>2. CASE e # i /\ node[i].size > 0
        BY <1>6, <2>4, <2>5, <3>2, <4>2
      <4>3. CASE ~(node[i].size > 0)
        <5>1. block \notin takenB
          BY <1>8, <2>1, <2>3, <4>3 DEF FreeBlocks
        <5>2. node[e].block \in takenB
          BY <2>4, <3>2
        <5> QED
          BY <5>1, <5>2
      <4> QED
        BY <4>1, <4>2, <4>3
    <3> QED
      BY <2>6, <2>7, <2>8, <3>2, <3>3, CellsKept
  <2>10. ASSUME NEW e \in takenI \ {i} PROVE SameFile(e)
    BY <2>1, <2>4, <2>9 DEF SameFile, FileCell
  <2>11. node'[i].size = node[i].size + k /\ k \in 1 .. Len(cells)
    <3>1. Len(cells) \in Nat
      BY <1>3
    <3> QED
      BY <1>8, <1>10, <1>12, <2>1, <3>1
  <2>12. ASSUME NEW l \in 0 .. node[i].size - 1 PROVE FileCell(data', node'[i], l) = FileCell(data, node[i], l)
    <3>1. node'[i].block = node[i].block
      BY <1>8, <2>1, <2>5
    <3> QED
      BY <1>6, <2>9, <3>1 DEF FileCell
  <2>13. ASSUME NEW l \in 0 .. k - 1 PROVE FileCell(data', node'[i], node[i].size + l) = cells[l + 1]
    <3>1. DataCell(data', block, node[i].size + l) = cells[l + 1]
      BY <2>6, <2>8, <2>14, CellWritten
    <3> QED
      BY <2>1, <3>1 DEF FileCell
  <2>15. Appended(node[i], data', node'[i], cells)
    BY <2>11, <2>12, <2>13 DEF Appended
  <2> QED
    BY <1>6, <1>9, <2>10, <2>15 DEF i, cells
<1> QED
  BY <1>11, <1>12

\* What is published is behind what a session has read, but for the sessions of
\* the same box.
LEMMA PubWriteMissed ==
  ASSUME Typed, Tidy, NEW w \in Workers, PubWrite(w),
         NEW v \in Workers \ {w}, Rests(v), pc[v] \in SubLabels, Missed(v)'
  PROVE  Missed(v) \/ (pc'[w] = "size" /\ Slot(v) = Slot(w))
<1> DEFINE i == entry[Box(w)]
           e == oft[Fd(v)].inum
<1>1. Slot(v) \in Slots /\ Box(v) \in Boxes /\ e \in Inodes
  BY ReaderTyped
<1>2. pc[w] = "write" /\ table' = table
  BY DEF PubWrite, At
<1>3. pc[w] \in PubLabels /\ pc[w] \in HandleLabels
  BY <1>2 DEF PubLabels, HandleLabels
<1>4. Fd(w) \in Handles /\ oft[Fd(w)] # None
  BY <1>3, HandleHeld
<1>5. \A d \in Handles \ {Fd(w)} : oft'[d] = oft[d]
  BY <1>4 DEF PubWrite, TfsWrite, Fd, Typed, FsTyped
<1>6. SameHandles(w)
  BY <1>3, <1>4, <1>5, OthersHandles DEF SameHandles
<1>7. entry' = entry /\ i \in takenI
  BY PubWriteMakes
<1>8. CASE UNCHANGED fsVars
  <2>1. Untouching(w)
    BY <1>2, <1>8, UntouchedFs
  <2> QED
    BY <2>1, UntouchedMissed
<1>9. CASE ~UNCHANGED fsVars /\ Box(v) = Box(w) /\ InBox(table', entry', oft', work'[v])
  <2>1. pc'[w] = "size"
    <3>1. WriteResult(Fd(w), Append(work[w].msg, Nul)) # -1
      <4> DEFINE r == WriteResult(Fd(w), Append(work[w].msg, Nul))
      <4>1. TfsWrite(Fd(w), Append(work[w].msg, Nul))
        BY DEF PubWrite, Fd
      <4>2. ~(r > 0) => UNCHANGED fsVars
        BY <4>1 DEF TfsWrite, fsVars
      <4> HIDE DEF r
      <4>3. r = -1 => ~(r > 0)
        OBVIOUS
      <4> QED
        BY <1>9, <4>2, <4>3 DEF r
    <3>2. Goto(w, "size", [work[w] EXCEPT !.tmp = WriteResult(Fd(w), Append(work[w].msg, Nul))])
      BY <3>1 DEF PubWrite, Fd
    <3> QED
      BY <3>2 DEF Goto, Typed, WorkersTyped
  <2>2. Same(work'[v], work[v])
    BY DEF Rests
  <2>3. ~table[Slot(v)].free /\ table[Slot(v)].name = Box(v)
    BY <1>2, <1>9, <2>2 DEF InBox, Same, Slot, Box
  <2>4. Slot(w) \in Slots /\ ~table[Slot(w)].free /\ table[Slot(w)].name = Box(w)
    BY <1>3, PublisherFile
  <2>5. Slot(v) = Slot(w)
    BY <1>1, <1>9, <2>3, <2>4 DEF Tidy, TidyBoxes, BoxesKept
  <2> QED
    BY <2>1, <2>5
<1>10. CASE ~UNCHANGED fsVars /\ Box(v) # Box(w)
  <2>1. ASSUME InBox(table', entry', oft, work[v]) PROVE InBox(table, entry, oft, work[v]) /\ SameFile(e)
    <3>1. InBox(table, entry, oft, work[v])
      BY <1>2, <1>7, <2>1 DEF InBox
    <3>2. entry[Box(v)] = e
      BY <3>1 DEF InBox, Box, Fd
    <3>3. Exists(Box(v)) /\ Exists(Box(w)) /\ Box(w) \in Boxes
      BY <1>1, <1>3, <3>2, FsIndices, PublisherFile DEF Exists
    <3>4. e \in takenI /\ e # i
      BY <1>1, <1>10, <3>2, <3>3 DEF Typed, InodesCounted, NamesWithFiles
    <3> QED
      BY <1>10, <3>1, <3>4, PubWriteMakes
  <2> QED
    BY <1>6, <2>1, RestingMissed DEF Fd
<1> QED
  BY <1>8, <1>9, <1>10 DEF Missed

\* The steps from, to or between the labels at which a worker has a message to
\* send, has something to announce, or has read everything.
Speaking(w) == PubReceive(w) \/ PubLock(w) \/ PubOpen(w) \/ PubWrite(w) \/ PubSize(w) \/ PubClose(w) \/ PubAnnounce(w)
Resting(w) == SubTake(w) \/ SubFree(w) \/ SubSleep(w)

\* Where the other steps lead.
LEMMA OtherSteps ==
  ASSUME Typed, NEW w \in Workers, Moved(w), ~Speaking(w), ~Resting(w)
  PROVE  /\ pc'[w] \notin {"append", "write", "pubLock", "subFree", "sleep"}
         /\ pc[w] \notin {"size", "pubClose", "announce"}
         /\ asleep' \subseteq asleep /\ w \notin asleep'
<1>0. pc \in [Workers -> Labels] /\ \A v \in asleep : pc[v] = "woken"
  BY DEF Typed, WorkersTyped, MutexesOwned
<1>1. ASSUME NEW l, At(w, l), l \notin {"woken", "size", "pubClose", "announce"}, asleep' \subseteq asleep,
             pc'[w] \notin {"append", "write", "pubLock", "subFree", "sleep"}
      PROVE  /\ pc'[w] \notin {"append", "write", "pubLock", "subFree", "sleep"}
             /\ pc[w] \notin {"size", "pubClose", "announce"}
             /\ asleep' \subseteq asleep /\ w \notin asleep'
  BY <1>0, <1>1 DEF At
<1>3. \A i : Broadcast(i) => asleep' \subseteq asleep
  BY DEF Broadcast
<1>4. CASE Dequeue(w) \/ Decode(w)
  <2>1. At(w, "idle") /\ asleep' = asleep
    BY <1>4 DEF Dequeue, Decode, boxVars
  <2>2. pc'[w] \in {"idle", "listCount", "lookup"}
    BY <1>0, <1>4 DEF Dequeue, Decode, At
  <2> QED
    BY <1>1, <2>1, <2>2
<1>5. CASE LookupBox(w)
  <2>1. At(w, "lookup") /\ asleep' = asleep /\ work[w].code \in RegisterRequests
    BY <1>5, AtTyped DEF LookupBox, LocalsTyped, boxVars
  <2>2. pc'[w] \in {"slot", "reply", "busy", "deny", "check", "read"}
    BY <1>0, <1>5, <2>1 DEF LookupBox, RegisterRequests, Goto, Jump, Answer
  <2> QED
    BY <1>1, <2>1, <2>2
<1>6. CASE CreateBox(w)
  <2>1. asleep' = asleep
    BY <1>6 DEF CreateBox, CreateSlot, CreateFile, CreateClose, CreateName, CreateReset, boxVars
  <2>2. \E l \in {"slot", "create", "closeNew", "name", "reset"} : At(w, l)
    BY <1>6 DEF CreateBox, CreateSlot, CreateFile, CreateClose, CreateName, CreateReset
  <2>3. pc'[w] \in {"reply", "create", "closeNew", "name", "reset"}
    BY <1>0, <1>6 DEF CreateBox, CreateSlot, CreateFile, CreateClose, CreateName, CreateReset, Goto, Jump, Answer
  <2> QED
    BY <1>1, <2>1, <2>2, <2>3
<1>7. CASE RemoveBox(w)
  <2>1. asleep' \subseteq asleep
    BY <1>3, <1>7 DEF RemoveBox, RemoveBusy, RemoveFile, RemoveClear, RemoveHangup, RemoveHangupFails,
       RemoveWake, Hangup, boxVars
  <2>2. \E l \in {"busy", "unlink", "clear", "hangup", "wake"} : At(w, l)
    BY <1>7 DEF RemoveBox, RemoveBusy, RemoveFile, RemoveClear, RemoveHangup, RemoveHangupFails, RemoveWake
  <2>3. pc'[w] \in {"reply", "unlink", "clear", "hangup", "wake"}
    BY <1>0, <1>7 DEF RemoveBox, RemoveBusy, RemoveFile, RemoveClear, RemoveHangup, RemoveHangupFails,
       RemoveWake, Hangup, Goto, Jump, Answer
  <2> QED
    BY <1>1, <2>1, <2>2, <2>3
<1>8. CASE ListBox(w) \/ Reply(w) \/ Deny(w)
  <2>1. asleep' = asleep
    BY <1>8 DEF ListBox, ListCount, ListNext, ListLast, ListCopy, ListSend, Reply, Deny, GiveUp, boxVars
  <2>2. \E l \in {"listCount", "listNext", "listLast", "listCopy", "listSend", "reply", "deny"} : At(w, l)
    BY <1>8 DEF ListBox, ListCount, ListNext, ListLast, ListCopy, ListSend, Reply, Deny
  <2>3. pc'[w] \in {"idle", "listNext", "listLast", "listCopy", "listSend"}
    BY <1>0, <1>8 DEF ListBox, ListCount, ListNext, ListLast, ListCopy, ListSend, Reply, Deny, GiveUp, Goto, Jump, Done
  <2> QED
    BY <1>1, <2>1, <2>2, <2>3
<1>9. CASE PubStart(w) \/ PubRelease(w)
  <2>1. asleep' = asleep
    BY <1>9 DEF PubStart, PubCheck, PubCount, PubPipe, PubRelease, GiveUp, boxVars
  <2>2. \E l \in {"check", "count", "pubPipe", "release"} : At(w, l)
    BY <1>9 DEF PubStart, PubCheck, PubCount, PubPipe, PubRelease
  <2>3. pc'[w] \in {"idle", "deny", "count", "pubPipe", "receive"}
    BY <1>0, <1>9 DEF PubStart, PubCheck, PubCount, PubPipe, PubRelease, GiveUp, Goto, Jump, Done
  <2> QED
    BY <1>1, <2>1, <2>2, <2>3
<1>10. CASE SubStart(w)
  <2>1. asleep' = asleep
    BY <1>10 DEF SubStart, SubRead, SubEnter, SubPipe, SubOpen, GiveUp, boxVars
  <2>2. \E l \in {"read", "enter", "subPipe", "open"} : At(w, l)
    BY <1>10 DEF SubStart, SubRead, SubEnter, SubPipe, SubOpen
  <2>3. pc'[w] \in {"idle", "enter", "subPipe", "open", "subLock"}
    BY <1>0, <1>10 DEF SubStart, SubRead, SubEnter, SubPipe, SubOpen, GiveUp, Goto, Jump, Done
  <2> QED
    BY <1>1, <2>1, <2>2, <2>3
<1>11. CASE SubLock(w) \/ SubDeliver(w) \/ SubLeave(w) \/ SubUncount(w)
  <2>1. asleep' = asleep
    BY <1>11 DEF SubLock, SubDeliver, SubLeave, SubUncount
  <2>2. \E l \in {"subLock", "deliver", "leave", "uncount"} : At(w, l)
    BY <1>11 DEF SubLock, SubDeliver, SubLeave, SubUncount
  <2>3. pc'[w] \in {"idle", "subRead", "subLock", "leave", "uncount"}
    BY <1>0, <1>11 DEF SubLock, SubDeliver, SubLeave, SubUncount, Goto, Jump, Done
  <2> QED
    BY <1>1, <2>1, <2>2, <2>3
<1>12. CASE SubWake(w)
  <2>1. pc'[w] = "subRead" /\ pc[w] = "woken" /\ asleep' = asleep /\ w \notin asleep
    BY <1>0, <1>12 DEF SubWake, Jump, Goto, At
  <2> QED
    BY <2>1
<1>13. CASE SpuriousWakeup(w)
  <2>1. pc'[w] = "woken" /\ pc[w] = "woken" /\ asleep' = asleep \ {w}
    BY <1>0, <1>13 DEF SpuriousWakeup
  <2> QED
    BY <2>1
<1> QED
  BY <1>4, <1>5, <1>6, <1>7, <1>8, <1>9, <1>10, <1>11, <1>12, <1>13
  DEF Moved, Step, Speaking, Resting, PubPost, SubLoop

\* A publisher's session goes on with the message that it has.
LEMMA MessagesStayWhole ==
  ASSUME Typed, MessagesNotEmpty, MessagesWhole, NEW w \in Workers, Moved(w)
  PROVE  MessagesWhole'
<1>0. pc \in [Workers -> Labels] /\ work = [u \in Workers |-> work[u]] /\ HasMessage(pc[w], work[w]) /\ IsWork(work[w])
  BY DEF Typed, WorkersTyped, MessagesWhole
<1>1. ASSUME NEW v \in Workers \ {w} PROVE HasMessage(pc'[v], work'[v])
  <2>1. Rests(v) /\ HasMessage(pc[v], work[v])
    BY <1>1, OthersRest DEF MessagesWhole
  <2> QED
    BY <2>1 DEF Rests, HasMessage
<1>2. HasMessage(pc'[w], work'[w])
  <2>1. CASE pc'[w] \notin {"append", "write", "pubLock"}
    BY <2>1 DEF HasMessage
  <2>2. CASE PubReceive(w)
    <3>1. PICK result, message :
            /\ Receive(w, result, message)
            /\ \/ posts < Len(Messages) /\ posts' = posts + 1 /\ message = Messages[posts']
               \/ result # "message"
      BY <2>2 DEF PubReceive
    <3>2. posts < Len(Messages) /\ posts' = posts + 1 => Messages[posts'] # <<>>
      <4>1. posts \in Nat /\ Len(Messages) \in Nat /\ DOMAIN Messages = 1 .. Len(Messages)
        BY BrokerSizes DEF Typed, QueueTyped
      <4>2. posts < Len(Messages) => posts + 1 \in DOMAIN Messages
        BY <4>1
      <4> QED
        BY <4>2 DEF MessagesNotEmpty
    <3>3. Moves(w, "pubLock", Changed(work[w], work[w].fd, work[w].tmp, message, result, work[w].pipe))
      BY <3>1, ReceiveMoves DEF Typed
    <3>4. pc'[w] = "pubLock" /\ work'[w].msg = message /\ work'[w].read = result
      BY <3>3, MovesPc, ChangedIs DEF Same, Typed
    <3> QED
      BY <3>1, <3>2, <3>4 DEF HasMessage
  <2>3. CASE PubLock(w)
    <3>1. pc[w] = "pubLock"
      BY <2>3 DEF PubLock, At
    <3>2. \/ work[w].read = "message" /\ pc'[w] = "append" /\ work'[w] = work[w]
          \/ pc'[w] \in {"release", "idle"}
      BY <1>0, <2>3 DEF PubLock, Jump, Goto, GiveUp, Done
    <3> QED
      BY <1>0, <3>1, <3>2 DEF HasMessage
  <2>4. CASE PubOpen(w)
    <3>1. pc[w] = "append"
      BY <2>4 DEF PubOpen, At
    <3>2. \/ pc'[w] = "write" /\ \E d : work'[w] = [work[w] EXCEPT !.fd = d]
          \/ pc'[w] = "idle"
      BY <1>0, <2>4 DEF PubOpen, Goto, Done
    <3>3. \A d : [work[w] EXCEPT !.fd = d].msg = work[w].msg
      BY <1>0, SetFd
    <3> QED
      BY <1>0, <3>1, <3>2, <3>3 DEF HasMessage
  <2>5. CASE Speaking(w) \/ Resting(w)
    <3>1. CASE PubWrite(w) \/ PubSize(w) \/ PubClose(w) \/ PubAnnounce(w)
      <4>1. pc'[w] \in {"size", "idle", "pubClose", "announce", "receive"}
        BY <1>0, <3>1 DEF PubWrite, PubSize, PubClose, PubAnnounce, Goto, Jump, Done
      <4> QED
        BY <2>1, <4>1
    <3>2. CASE Resting(w)
      <4>1. pc'[w] \in {"subRead", "subFree", "deliver", "leave", "sleep", "woken"}
        BY <1>0, <3>2 DEF Resting, SubTake, SubFree, SubSleep, Goto, Jump, At
      <4> QED
        BY <2>1, <4>1
    <3> QED
      BY <2>2, <2>3, <2>4, <2>5, <3>1, <3>2 DEF Speaking
  <2> QED
    BY <2>1, <2>5, OtherSteps
<1> QED
  BY <1>1, <1>2 DEF MessagesWhole

\* A file that is left alone is as well spelt as before.
LEMMA SameSpelt ==
  ASSUME Typed, NEW i \in Inodes, SameFile(i), Spelt(data, node[i])
  PROVE  Spelt(data', node'[i])
<1>1. node[i].size \in Nat
  <2>1. node[i].size \in 0 .. BlockSize
    BY NodeTyped DEF Typed
  <2> QED
    BY <2>1
<1>2. ASSUME NEW k \in 0 .. node[i].size - 2, FileCell(data', node[i], k) = Nul
      PROVE  FileCell(data', node[i], k + 1) # Nul
  <2>1. k \in 0 .. node[i].size - 1 /\ k + 1 \in 0 .. node[i].size - 1
    BY <1>1
  <2> QED
    BY <1>2, <2>1 DEF SameFile, Spelt
<1> QED
  BY <1>2 DEF SameFile, Spelt

\* Appending a message that is not empty, or the beginning of it, keeps a file
\* well spelt.
LEMMA AppendSpelt ==
  ASSUME NEW msg \in Seq(Chars), msg # <<>>, NEW m, NEW n, NEW du, Spelt(data, m), m.size \in Nat,
         Appended(m, du, n, Append(msg, Nul))
  PROVE  Spelt(du, n)
<1> DEFINE size == m.size
<1>0. PICK k \in 1 .. Len(msg) + 1 :
        /\ n.size = size + k
        /\ \A l \in 0 .. size - 1 : FileCell(du, n, l) = FileCell(data, m, l)
        /\ \A l \in 0 .. k - 1 : FileCell(du, n, size + l) = Append(msg, Nul)[l + 1]
  <2>1. Len(Append(msg, Nul)) = Len(msg) + 1
    OBVIOUS
  <2> QED
    BY <2>1 DEF Appended
<1>1. Len(msg) \in Nat \ {0} /\ Nul \notin Chars
  BY BrokerSizes
<1>2. ASSUME NEW j \in 1 .. Len(msg) PROVE Append(msg, Nul)[j] # Nul
  <2>1. Append(msg, Nul)[j] = msg[j]
    OBVIOUS
  <2>2. msg[j] \in Chars
    OBVIOUS
  <2> QED
    BY <1>1, <2>1, <2>2
<1>3. ASSUME NEW l \in 0 .. n.size - 2, FileCell(du, n, l) = Nul PROVE FileCell(du, n, l + 1) # Nul
  <2>1. size \in Nat /\ l \in 0 .. size + k - 2
    BY <1>0
  <2>2. CASE l <= size - 2
    <3>1. l \in 0 .. size - 2 /\ l \in 0 .. size - 1 /\ l + 1 \in 0 .. size - 1
      BY <2>1, <2>2
    <3> QED
      BY <1>0, <1>3, <3>1 DEF Spelt
  <2>3. CASE l = size - 1
    <3>1. 0 \in 0 .. k - 1 /\ l + 1 = size + 0 /\ 0 + 1 \in 1 .. Len(msg)
      BY <1>1, <2>1, <2>3
    <3>2. FileCell(du, n, size + 0) = Append(msg, Nul)[0 + 1]
      BY <1>0, <3>1
    <3>3. Append(msg, Nul)[0 + 1] # Nul
      BY <1>2, <3>1
    <3> QED
      BY <3>1, <3>2, <3>3
  <2>4. CASE l >= size
    <3>1. PICK h \in 0 .. k - 2 : l = size + h
      <4>1. l - size \in 0 .. k - 2 /\ l = size + (l - size)
        BY <2>1, <2>4
      <4> QED
        BY <4>1
    <3>2. h \in 0 .. k - 1 /\ h + 1 \in 1 .. Len(msg)
      BY <1>1, <3>1
    <3>3. FileCell(du, n, size + h) = Append(msg, Nul)[h + 1]
      BY <1>0, <3>2
    <3>4. Append(msg, Nul)[h + 1] # Nul
      BY <1>2, <3>2
    <3> QED
      BY <1>3, <3>1, <3>3, <3>4
  <2> QED
    BY <2>1, <2>2, <2>3, <2>4
<1> QED
  BY <1>3 DEF Spelt

\* A publisher's write keeps the files well spelt.
LEMMA PubWriteSpelt ==
  ASSUME Typed, Tidy, MessagesWhole, FilesSpelt, NEW w \in Workers, PubWrite(w)
  PROVE  FilesSpelt'
<1> DEFINE i == entry[Box(w)]
           cells == Append(work[w].msg, Nul)
<1>1. pc[w] = "write" /\ pc[w] \in PubLabels
  BY DEF PubWrite, At, PubLabels
<1>2. work[w].msg \in Seq(Chars) /\ work[w].msg # <<>>
  <2>1. LocalsTyped("write", work[w])
    BY AtTyped DEF PubWrite
  <2>2. HasMessage("write", work[w])
    BY <1>1 DEF MessagesWhole
  <2> QED
    BY <2>1, <2>2 DEF LocalsTyped, HasMessage
<1>3. Box(w) \in Boxes /\ Exists(Box(w))
  BY <1>1, PublisherFile
<1>4. i \in takenI /\ i \in Inodes /\ entry' = entry
  BY PubWriteMakes
<1>5. node[i].size \in Nat
  <2>1. node[i].size \in 0 .. BlockSize
    BY <1>4, NodeTyped DEF Typed
  <2> QED
    BY <2>1
<1>6. ASSUME NEW n \in Boxes, entry'[n] # None PROVE Spelt(data', node'[entry'[n]])
  <2>1. Exists(n) /\ entry'[n] = entry[n]
    BY <1>4, <1>6 DEF Exists
  <2>2. entry[n] \in Inodes /\ entry[n] \in takenI /\ Spelt(data, node[entry[n]])
    BY <2>1, EntryTyped DEF Typed, InodesCounted, NamesWithFiles, FilesSpelt
  <2>3. CASE UNCHANGED fsVars
    BY <2>1, <2>2, <2>3 DEF fsVars
  <2>4. CASE ~UNCHANGED fsVars /\ entry[n] # i
    <3>1. SameFile(entry[n])
      BY <2>2, <2>4, PubWriteMakes
    <3> QED
      BY <2>1, <2>2, <3>1, SameSpelt
  <2>5. CASE ~UNCHANGED fsVars /\ entry[n] = i
    <3>1. Appended(node[i], data', node'[i], cells)
      BY <2>5, PubWriteMakes
    <3>3. Spelt(data, node[i])
      BY <2>2, <2>5
    <3> HIDE DEF i
    <3>4. Spelt(data', node'[i])
      BY <1>2, <1>5, <3>1, <3>3, AppendSpelt
    <3> QED
      BY <2>1, <2>5, <3>4
  <2> QED
    BY <2>3, <2>4, <2>5
<1> QED
  BY <1>6 DEF FilesSpelt, Exists

\* So does every other step.
LEMMA FilesStaySpelt ==
  ASSUME Typed, Tidy, MessagesWhole, FilesSpelt, NEW w \in Workers, Moved(w)
  PROVE  FilesSpelt'
<1>1. CASE PubWrite(w)
  BY <1>1, PubWriteSpelt
<1>2. CASE CreateFile(w)
  <2>1. Box(w) \in Boxes /\ TfsOpen(Box(w), "CREAT")
    BY <1>2, KeptTyped DEF CreateFile, At, KeptLabels, NewLabels
  <2>2. data' = data
    BY <2>1 DEF TfsOpen
  <2>3. ASSUME NEW n \in Boxes, entry'[n] # None PROVE Spelt(data', node'[entry'[n]])
    <3>1. CASE Exists(n)
      <4>1. entry'[n] = entry[n] /\ node'[entry[n]] = node[entry[n]]
        BY <2>1, <3>1, FileCreated
      <4> QED
        BY <2>2, <3>1, <4>1 DEF FilesSpelt
    <3>2. CASE ~Exists(n)
      <4>1. n = Box(w)
        BY <2>1, <2>3, <3>2, FileCreated DEF Exists
      <4>2. node'[entry'[n]].size = 0
        BY <2>1, <2>3, <3>2, <4>1, FileCreated
      <4> QED
        BY <4>2 DEF Spelt
    <3> QED
      BY <3>1, <3>2
  <2> QED
    BY <2>3 DEF FilesSpelt, Exists
<1>3. CASE RemoveFile(w)
  <2>1. node' = node /\ data' = data
    BY <1>3 DEF RemoveFile, TfsUnlink, fsVars
  <2>2. entry' = entry \/ \E n : entry' = [entry EXCEPT ![n] = None]
    BY <1>3 DEF RemoveFile, TfsUnlink, fsVars
  <2>3. \A n \in Boxes : entry'[n] # None => entry'[n] = entry[n]
    BY <2>2 DEF Typed, FsTyped
  <2> QED
    BY <2>1, <2>3 DEF FilesSpelt, Exists
<1>4. CASE ~PubWrite(w) /\ ~CreateFile(w) /\ ~RemoveFile(w)
  <2>1. UNCHANGED <<entry, node, data>>
    <3>1. CASE CreateName(w) \/ RemoveClear(w)
      BY <3>1 DEF CreateName, RemoveClear, fsVars
    <3>2. CASE ~CreateName(w) /\ ~RemoveClear(w)
      BY <1>4, <3>2, HandlersUntouching, SessionsUntouching DEF Moved, Step, Untouching
    <3> QED
      BY <3>1, <3>2
  <2> QED
    BY <2>1 DEF FilesSpelt, Exists
<1> QED
  BY <1>1, <1>2, <1>3, <1>4

\* A session that goes on to sleep after it has read has missed nothing: there
\* is nothing behind its offset, or a separator that nothing comes after.
LEMMA TakenAll ==
  ASSUME Typed, Tidy, FilesSpelt, NEW w \in Workers, SubTake(w), pc'[w] = "subFree"
  PROVE  ~Missed(w)'
<1> DEFINE d == Fd(w)
           i == oft[d].inum
           off == oft[d].off
           m == node[i]
           T == ToRead(d)
<1>1. pc[w] = "subRead" /\ pc[w] \in SubLabels /\ pc[w] \in HandleLabels
  BY DEF SubTake, At, SubLabels, HandleLabels
<1>2. d \in Handles /\ oft[d] # None
  BY <1>1, HandleHeld
<1>3. off \in Nat /\ i \in Inodes /\ m.size \in Nat /\ Box(w) \in Boxes
  BY <1>1, ReaderTyped
<1>4. m.size <= BlockSize /\ BlockSize \in Nat \ {0} /\ BlockSize <= DataEnd /\ DataEnd \in Nat
      /\ BlockSize < Word /\ Word \in Nat \ {0}
  <2>1. m.size \in 0 .. BlockSize
    BY <1>3, NodeTyped DEF Typed
  <2>2. BlockSize < Word
    <3>1. (NBlocks + 1) * BlockSize = NBlocks * BlockSize + BlockSize
      BY BrokerSizes
    <3>2. NBlocks * BlockSize \in Nat /\ BlockSize \in Nat /\ Word \in Nat /\ Word > (NBlocks + 1) * BlockSize
      BY BrokerSizes, BoxFsAssumption
    <3>3. BlockSize <= NBlocks * BlockSize /\ BlockSize \in Nat \ {0}
      BY BrokerSizes
    <3> QED
      BY <3>1, <3>2, <3>3
  <2> QED
    BY <2>1, <2>2, BrokerSizes, FsIndices
<1>5. ~ReadDies(d)
  BY <1>1 DEF SubTake, Fd
<1>6. TfsRead(d) /\ ReadResult(d) = <<>> /\ table' = table
  BY <1>5 DEF SubTake, Fd, boxVars, Typed, WorkersTyped
<1>7. UNCHANGED <<entry, node, data>> /\ oft'[d].inum = i
  BY <1>2, <1>6, ReadFs DEF Typed
<1>8. work'[w].fd = d /\ work'[w].slot = Slot(w) /\ work'[w].box = Box(w)
  <2>1. IsWork(work[w]) /\ work' = [work EXCEPT ![w].msg = <<>>] /\ work = [u \in Workers |-> work[u]]
    BY <1>5, <1>6 DEF SubTake, Fd, Typed, WorkersTyped
  <2>2. work'[w] = [work[w] EXCEPT !.msg = <<>>]
    BY <2>1
  <2>3. /\ [work[w] EXCEPT !.msg = <<>>].fd = work[w].fd
        /\ [work[w] EXCEPT !.msg = <<>>].slot = work[w].slot
        /\ [work[w] EXCEPT !.msg = <<>>].box = work[w].box
    BY <2>1, SetMsg
  <2> QED
    BY <2>2, <2>3 DEF Fd, Slot, Box
<1>9. SUFFICES ASSUME Missed(w)' PROVE FALSE
  OBVIOUS
<1>10. entry[Box(w)] = i /\ Exists(Box(w))
  <2>1. InBox(table', entry', oft', work'[w])
    BY <1>9 DEF Missed
  <2>2. entry[Box(w)] = i
    BY <1>7, <1>8, <2>1 DEF InBox
  <2> QED
    BY <1>3, <2>2, FsIndices DEF Exists
<1>11. Spelt(data, m)
  BY <1>3, <1>10 DEF FilesSpelt
<1>12. PICK k \in oft'[d].off .. m.size - 1 : FileCell(data, m, k) # Nul
  BY <1>7, <1>8, <1>9, UnreadNext DEF Missed
<1>13. oft'[d].off = IF T = 0 THEN off ELSE Min2(ReadEnd(d), DataEnd)
  BY <1>2, <1>6 DEF TfsRead, Typed, FsTyped
<1>14. CASE T = 0
  <2>1. k \in off .. m.size - 1
    BY <1>12, <1>13, <1>14
  <2> DEFINE x == m.size - off
  <2>2. x \in 1 .. BlockSize /\ x \in 0 .. Word - 1
    BY <1>3, <1>4, <2>1
  <2>3. T = Min2(x % Word, BlockSize)
    BY DEF ToRead
  <2> HIDE DEF x, T
  <2>4. x % Word = x
    BY <1>4, <2>2
  <2> QED
    BY <1>4, <1>14, <2>2, <2>3, <2>4 DEF Min2
<1>15. CASE T # 0
  <2> DEFINE start == ReadStart(m.block, off)
             ends == {j \in 0 .. T - 1 : Cell(m.block, start + j) = Nul}
             n == IF ends = {} THEN T ELSE First(ends)
  <2>1. T \in Nat \ {0}
    <3>1. (m.size - off) % Word \in 0 .. Word - 1
      BY <1>3, Modular
    <3> DEFINE y == (m.size - off) % Word
    <3>2. T = Min2(y, BlockSize)
      BY DEF ToRead
    <3> HIDE DEF y, T
    <3>3. y \in 0 .. Word - 1
      BY <3>1 DEF y
    <3> QED
      BY <1>4, <1>15, <3>2, <3>3 DEF Min2
  <2>2. n = 0
    <3>1. n \in Nat
      <4>1. ends \in SUBSET Nat
        BY <2>1
      <4>2. ends # {} => First(ends) \in Nat
        <5> HIDE DEF ends
        <5> QED
          BY <4>1, FirstInSet
      <4> HIDE DEF ends
      <4> QED
        BY <2>1, <4>2
    <3>2. [j \in 1 .. n |-> Cell(m.block, start + j - 1)] = <<>>
      BY <1>6 DEF ReadResult
    <3> HIDE DEF n
    <3>3. \A y \in Nat : \A f : f = [j \in 1 .. y |-> f[j]] /\ f = <<>> => y = 0
      OBVIOUS
    <3> QED
      BY <3>1, <3>2, <3>3
  <2>3. 0 \in ends
    <3>1. ends # {} /\ ends \in SUBSET Nat
      BY <2>1, <2>2
    <3>2. First(ends) = 0
      BY <2>2, <3>1
    <3> HIDE DEF ends
    <3> QED
      BY <3>1, <3>2, FirstInSet
  <2>4. start = off + 1 /\ Cell(m.block, off) = Nul /\ Cell(m.block, off + 1) = Nul
    BY <1>3, <2>3 DEF ReadStart
  <2>5. ReadEnd(d) = off + 1
    <3>1. Len(ReadResult(d)) = 0
      BY <1>6
    <3> QED
      BY <1>3, <2>4, <3>1 DEF ReadEnd
  <2>6. k \in Min2(off + 1, DataEnd) .. m.size - 1
    BY <1>12, <1>13, <1>15, <2>5
  <2>7. off \in 0 .. m.size - 2
    BY <1>3, <1>4, <2>6 DEF Min2
  <2>8. FileCell(data, m, off) = Nul /\ FileCell(data, m, off + 1) = Nul
    BY <2>4 DEF FileCell, DataCell, Cell
  <2> QED
    BY <1>11, <2>7, <2>8 DEF Spelt
<1> QED
  BY <1>14, <1>15

\* Of what w does only a message makes another session miss something.
LEMMA OthersMissed ==
  ASSUME Typed, Tidy, NEW w \in Workers, Moved(w), NEW v \in Workers \ {w}, Rests(v), pc[v] \in SubLabels, Missed(v)'
  PROVE  Missed(v) \/ (PubWrite(w) /\ pc'[w] = "size" /\ Slot(v) = Slot(w))
<1>1. CASE PubWrite(w)
  BY <1>1, PubWriteMissed
<1>2. CASE CreateFile(w)
  BY <1>2, CreateFileMissed
<1>3. CASE CreateName(w)
  BY <1>3, CreateNameMissed
<1>4. CASE RemoveFile(w) \/ RemoveClear(w)
  BY <1>4, RemoveMissed
<1>5. CASE ~PubWrite(w) /\ ~CreateFile(w) /\ ~CreateName(w) /\ ~RemoveFile(w) /\ ~RemoveClear(w)
  <2>1. Untouching(w)
    BY <1>5, HandlersUntouching, SessionsUntouching DEF Moved, Step
  <2> QED
    BY <2>1, UntouchedMissed
<1> QED
  BY <1>1, <1>2, <1>3, <1>4, <1>5

\* What w has missed it has missed before, when it only goes from label to label.
LEMMA JumpMissed ==
  ASSUME Typed, NEW w \in Workers, pc[w] \in SubLabels, NEW l, Jump(w, l), UNCHANGED <<fsVars, table>>, Missed(w)'
  PROVE  Missed(w)
<1>1. work'[w] = work[w]
  BY DEF Jump, Goto, Typed, WorkersTyped
<1>2. Same(work'[w], work[w])
  BY <1>1 DEF Same
<1>3. UNCHANGED <<entry, node, data, oft, table>>
  BY DEF fsVars
<1>4. InBox(table', entry', oft', work'[w]) => InBox(table, entry, oft, work[w]) /\ SameFile(oft[Fd(w)].inum)
  BY <1>1, <1>3 DEF InBox, SameFile
<1> QED
  BY <1>2, <1>3, <1>4, MissedBefore

\* A session holds the mutex of its box from the read that finds nothing to the
\* wait: no publisher writes to the box in between.
LEMMA ReadAllStays ==
  ASSUME Typed, Tidy, FilesSpelt, ReadAll, NEW w \in Workers, Moved(w)
  PROVE  ReadAll'
<1>0. pc \in [Workers -> Labels]
  BY DEF Typed, WorkersTyped
<1>1. ASSUME NEW v \in Workers \ {w}, pc'[v] \in {"subFree", "sleep"} PROVE ~Missed(v)'
  <2>1. Rests(v)
    BY <1>1, OthersRest
  <2>2. pc[v] \in {"subFree", "sleep"} /\ pc[v] \in SubLabels /\ ~Missed(v)
    BY <1>1, <2>1 DEF Rests, ReadAll, SubLabels
  <2>3. ~(PubWrite(w) /\ Slot(v) = Slot(w))
    <3>1. SUFFICES ASSUME PubWrite(w), Slot(v) = Slot(w) PROVE FALSE
      OBVIOUS
    <3>2. pc[w] \in LockLabels /\ pc[v] \in LockLabels /\ pc[w] \in PubLabels
      BY <2>2, <3>1 DEF PubWrite, At, LockLabels, PubLabels
    <3>3. Slot(w) \in Slots
      BY <3>2, PublisherFile
    <3>4. mutex[Slot(w)] = w /\ mutex[Slot(w)] = v
      BY <3>1, <3>2, <3>3 DEF Typed, MutexesOwned
    <3> QED
      BY <1>1, <3>4
  <2> QED
    BY <1>1, <2>1, <2>2, <2>3, OthersMissed
<1>2. ASSUME pc'[w] \in {"subFree", "sleep"} PROVE ~Missed(w)'
  <2>1. CASE SubTake(w)
    <3>1. pc'[w] \in {"subRead", "subFree", "deliver"}
      BY <1>0, <2>1 DEF SubTake, At
    <3> QED
      BY <1>2, <2>1, <3>1, TakenAll
  <2>2. CASE SubFree(w)
    <3>1. pc[w] = "subFree" /\ pc[w] \in SubLabels /\ ~Missed(w)
      BY <2>2 DEF SubFree, At, SubLabels, ReadAll
    <3>2. PICK l : Jump(w, l) /\ UNCHANGED <<fsVars, table>>
      BY <2>2 DEF SubFree
    <3> QED
      BY <3>1, <3>2, JumpMissed
  <2>3. CASE ~SubTake(w) /\ ~SubFree(w)
    <3>1. pc'[w] \notin {"subFree", "sleep"}
      <4>1. CASE SubSleep(w)
        BY <1>0, <4>1 DEF SubSleep, Jump, Goto
      <4>2. CASE PubReceive(w) \/ PubLock(w) \/ PubOpen(w)
        BY <1>0, <4>2 DEF PubReceive, Receive, PubLock, PubOpen, Jump, Goto, GiveUp, Done
      <4>3. CASE PubWrite(w) \/ PubSize(w) \/ PubClose(w) \/ PubAnnounce(w)
        BY <1>0, <4>3 DEF PubWrite, PubSize, PubClose, PubAnnounce, Goto, Jump, Done
      <4> QED
        BY <2>3, <4>1, <4>2, <4>3, OtherSteps DEF Speaking, Resting
    <3> QED
      BY <1>2, <3>1
  <2> QED
    BY <2>1, <2>2, <2>3
<1> QED
  BY <1>1, <1>2 DEF ReadAll

\* A publisher's session that has written goes on to wake the box's subscribers.
LEMMA AnnouncingStays ==
  ASSUME Typed, NEW w \in Workers, Moved(w), NEW i, Announcing(i)
  PROVE  Announcing(i)' \/ asleep' = {v \in asleep : Slot(v) # i}
<1>0. pc \in [Workers -> Labels] /\ work = [u \in Workers |-> work[u]] /\ IsWork(work[w])
  BY DEF Typed, WorkersTyped
<1>1. PICK p \in Workers : pc[p] \in {"size", "pubClose", "announce"} /\ Slot(p) = i
  BY DEF Announcing
<1>2. CASE p # w
  <2>1. Rests(p)
    BY <1>2, OthersRest
  <2> QED
    BY <1>1, <2>1 DEF Rests, Announcing, Same, Slot
<1>3. CASE p = w
  <2>1. pc[w] \in {"size", "pubClose", "announce"} /\ work[w].slot = i
    BY <1>1, <1>3 DEF Slot
  <2>2. PubSize(w) \/ PubClose(w) \/ PubAnnounce(w)
    <3>1. Speaking(w) \/ Resting(w)
      BY <2>1, OtherSteps
    <3> QED
      BY <2>1, <3>1 DEF Speaking, Resting, PubReceive, Receive, PubLock, PubOpen, PubWrite, SubTake,
         SubFree, SubSleep, At
  <2>3. CASE PubSize(w)
    <3>1. pc'[w] = "pubClose" /\ work' = work
      BY <1>0, <2>3 DEF PubSize
    <3> QED
      BY <2>1, <3>1 DEF Announcing, Slot
  <2>4. CASE PubClose(w)
    <3> DEFINE rec == [work[w] EXCEPT !.fd = None, !.tmp = None, !.msg = <<>>, !.read = "none"]
    <3>1. pc'[w] = "announce" /\ work'[w] = rec
      BY <1>0, <2>4 DEF PubClose, Goto
    <3>2. rec.slot = work[w].slot
      BY <1>0, PubClosedIs
    <3> QED
      BY <2>1, <3>1, <3>2 DEF Announcing, Slot
  <2>5. CASE PubAnnounce(w)
    BY <2>1, <2>5 DEF PubAnnounce, Broadcast, Slot
  <2> QED
    BY <2>2, <2>3, <2>4, <2>5
<1> QED
  BY <1>2, <1>3

\* Who sleeps over a message will be woken.
LEMMA SleepersStayKnown ==
  ASSUME Typed, Tidy, ReadAll, SleepersKnown, NEW w \in Workers, Moved(w)
  PROVE  SleepersKnown'
<1>0. /\ pc \in [Workers -> Labels] /\ \A v \in asleep : pc[v] = "woken"
      /\ asleep \subseteq Workers /\ work = [u \in Workers |-> work[u]]
  BY DEF Typed, WorkersTyped, MutexesOwned
<1>1. CASE SubSleep(w)
  <2>1. pc[w] = "sleep" /\ pc[w] \in SubLabels /\ ~Missed(w) /\ asleep' = asleep \cup {w}
    BY <1>1 DEF SubSleep, At, SubLabels, ReadAll
  <2>2. Jump(w, "woken") /\ UNCHANGED <<fsVars, table>>
    BY <1>1 DEF SubSleep
  <2>3. ~Missed(w)'
    BY <2>1, <2>2, JumpMissed
  <2>4. ~PubWrite(w)
    BY <2>1 DEF PubWrite, At
  <2>5. ASSUME NEW v \in asleep \ {w}, Missed(v)' PROVE Announcing(Slot(v))'
    <3>1. v \in Workers /\ pc[v] \in SubLabels
      BY <1>0 DEF SubLabels
    <3>2. Rests(v)
      BY <3>1, OthersRest
    <3>3. Missed(v)
      BY <2>4, <2>5, <3>1, <3>2, OthersMissed
    <3>4. PICK p \in Workers : pc[p] \in {"size", "pubClose", "announce"} /\ Slot(p) = Slot(v)
      BY <3>3 DEF SleepersKnown, Announcing
    <3>5. p # w
      BY <2>1, <3>4
    <3>6. Rests(p)
      BY <3>5, OthersRest
    <3> QED
      BY <3>2, <3>4, <3>6 DEF Announcing, Rests, Same, Slot
  <2> QED
    BY <2>1, <2>3, <2>5 DEF SleepersKnown
<1>2. CASE ~SubSleep(w)
  <2>1. asleep' \subseteq asleep /\ w \notin asleep'
    <3>1. CASE ~Speaking(w) /\ ~Resting(w)
      BY <3>1, OtherSteps
    <3>2. CASE Speaking(w) \/ Resting(w)
      <4>1. asleep' \subseteq asleep
        BY <1>2, <3>2 DEF Speaking, Resting, PubReceive, Receive, PubLock, PubOpen, PubWrite, PubSize, PubClose,
                          PubAnnounce, SubTake, SubFree, GiveUp, boxVars, Broadcast
      <4>2. pc[w] # "woken"
        BY <1>2, <3>2 DEF Speaking, Resting, PubReceive, Receive, PubLock, PubOpen, PubWrite, PubSize, PubClose,
                          PubAnnounce, SubTake, SubFree, At
      <4> QED
        BY <1>0, <4>1, <4>2
    <3> QED
      BY <3>1, <3>2
  <2>2. ASSUME NEW v \in asleep', Missed(v)' PROVE Announcing(Slot(v))'
    <3>1. v \in asleep /\ v \in Workers \ {w} /\ pc[v] \in SubLabels
      BY <1>0, <2>1 DEF SubLabels
    <3>2. Rests(v)
      BY <3>1, OthersRest
    <3>3. Slot(v)' = Slot(v)
      BY <3>2 DEF Rests, Same, Slot
    <3>4. CASE PubWrite(w) /\ pc'[w] = "size" /\ Slot(v) = Slot(w)
      <4>1. \E r : work'[w] = [work[w] EXCEPT !.tmp = r]
        BY <1>0, <3>4 DEF PubWrite, Goto, Done
      <4>2. Slot(w)' = Slot(w)
        <5>1. IsWork(work[w])
          BY DEF Typed, WorkersTyped
        <5>2. \A r : [work[w] EXCEPT !.tmp = r].slot = work[w].slot
          BY <5>1, SetTmp
        <5> QED
          BY <4>1, <5>2 DEF Slot
      <4> QED
        BY <3>3, <3>4, <4>2 DEF Announcing
    <3>5. CASE Missed(v)
      <4>1. Announcing(Slot(v))
        BY <3>1, <3>5 DEF SleepersKnown
      <4>2. Announcing(Slot(v))' \/ asleep' = {u \in asleep : Slot(u) # Slot(v)}
        <5>1. \A i : i = Slot(v) => Announcing(i)' \/ asleep' = {u \in asleep : Slot(u) # i}
          BY <4>1, AnnouncingStays
        <5>2. PICK i : i = Slot(v)
          OBVIOUS
        <5>3. Announcing(i)' => Announcing(Slot(v))'
          BY <3>3, <5>2 DEF Announcing
        <5> QED
          BY <5>1, <5>2, <5>3
      <4> QED
        BY <2>2, <4>2
    <3> QED
      BY <2>2, <3>1, <3>2, <3>4, <3>5, OthersMissed
  <2> QED
    BY <2>2 DEF SleepersKnown
<1> QED
  BY <1>1, <1>2

\* At the start nobody reads and nobody has a message.
LEMMA InitReaders == Init => ReadersKept
  BY DEF Init, FsInit, ReadersKept, MessagesWhole, HasMessage, FilesSpelt, Exists, ReadAll, SleepersKnown

\* Every step keeps readers from missing anything unawares.
LEMMA NextReaders ==
  ASSUME MessagesNotEmpty, Typed, Tidy, ReadersKept, [Next]_vars
  PROVE  ReadersKept'
<1>1. CASE ReadRequest \/ EnqueueRequest \/ UNCHANGED vars
  <2>1. UNCHANGED <<fsVars, boxVars, pc, work>>
    BY <1>1 DEF ReadRequest, Arrive, EnqueueRequest, vars
  <2>2. UNCHANGED <<entry, node, data, oft, table, asleep, pc, work>>
    BY <2>1 DEF fsVars, boxVars
  <2>3. MessagesWhole' /\ FilesSpelt'
    BY <2>2 DEF ReadersKept, MessagesWhole, FilesSpelt, Spelt, Exists
  <2>4. \A w : Missed(w)' = Missed(w)
    BY <2>2 DEF Missed, Unread, Fd, Inum, Cell
  <2>5. \A i : Announcing(i)' = Announcing(i)
    BY <2>2 DEF Announcing, Slot
  <2>6. ReadAll'
    BY <2>2, <2>4 DEF ReadersKept, ReadAll
  <2>7. SleepersKnown'
    BY <2>2, <2>4, <2>5 DEF ReadersKept, SleepersKnown, Slot, Announcing
  <2> QED
    BY <2>3, <2>6, <2>7 DEF ReadersKept
<1>2. CASE \E w \in Workers : Step(w) \/ PubReceive(w) \/ SpuriousWakeup(w)
  <2>1. PICK w \in Workers : Moved(w)
    BY <1>2 DEF Moved
  <2> QED
    BY <2>1, MessagesStayWhole, FilesStaySpelt, ReadAllStays, SleepersStayKnown DEF ReadersKept
<1> QED
  BY <1>1, <1>2 DEF Next, Over

\* When requests are handled one at a time and no message is empty: a session
\* that sleeps while its box has something that it has not read is about to be
\* woken, by the publisher's session that wrote it (mbroker.c:128, "Broadcast
\* write to all Subscribers of that box").
THEOREM NoneSleepsUnaware ==
  Spaced /\ MessagesNotEmpty => (Spec => [](\A w \in asleep : Missed(w) => Announcing(Slot(w))))
<1> SUFFICES ASSUME Spaced, MessagesNotEmpty
             PROVE  Spec => [](\A w \in asleep : Missed(w) => Announcing(Slot(w)))
  OBVIOUS
<1>1. Typed /\ Tidy /\ ReadersKept /\ [Next]_vars => ReadersKept'
  BY NextReaders
<1>2. ReadersKept => \A w \in asleep : Missed(w) => Announcing(Slot(w))
  BY DEF ReadersKept, SleepersKnown
<1> QED
  BY <1>1, <1>2, InitReaders, BoxesTidy, PTL DEF Spec

-----------------------------------------------------------------------------
(* While no box is removed *)

\* No manager asks for a box to be removed.
NothingRemoved == \A r \in Buffers : r[1] # REQUEST_REMOVE_BOX

RemoveLabels == {"busy", "unlink", "clear", "hangup", "wake"}
ReaderLabels == {"read", "enter", "subPipe", "open"} \cup SubLabels

\* A session that reads has its box in its slot and reads from the box's file.
AtHome(t, e, o, p, r) ==
    /\ p \notin RemoveLabels /\ (p = "lookup" => r.code # REQUEST_REMOVE_BOX)
    /\ p \in ReaderLabels => ~t[r.slot].free /\ t[r.slot].name = r.box
    /\ p \in SubLabels => e[r.box] = o[r.fd].inum
AllAtHome == \A w \in Workers : AtHome(table, entry, oft, pc[w], work[w])

\* A session stays at home when another worker makes a step.
LEMMA OthersHome ==
  ASSUME Typed, Tidy, AllAtHome, NEW w \in Workers, Moved(w), NEW v \in Workers \ {w}
  PROVE  AtHome(table', entry', oft', pc'[v], work'[v])
<1>1. Rests(v)
  BY OthersRest
<1>2. pc[w] \notin RemoveLabels /\ AtHome(table, entry, oft, pc[v], work[v])
  BY DEF AllAtHome, AtHome
<1>3. pc[v] \in ReaderLabels => Slot(v) \in Slots /\ Box(v) \in Boxes
  <2>1. LocalsTyped(pc[v], work[v])
    BY WorkerTyped DEF Typed
  <2> QED
    BY <2>1 DEF LocalsTyped, BoxLabels, SlotLabels, SubLabels, ReaderLabels, Box, Slot
<1>4. pc[v] \in SubLabels => pc[v] \in HandleLabels /\ Exists(Box(v))
  <2>1. SUFFICES ASSUME pc[v] \in SubLabels PROVE Exists(Box(v))
    BY DEF HandleLabels
  <2>2. oft[Fd(v)].inum \in Inodes /\ entry[Box(v)] = oft[Fd(v)].inum
    BY <1>2, <2>1, ReaderTyped DEF AtHome, Box, Fd
  <2> QED
    BY <2>2, FsIndices DEF Exists
<1>5. ASSUME pc[v] \in ReaderLabels =>
               table'[Slot(v)].free = table[Slot(v)].free /\ table'[Slot(v)].name = table[Slot(v)].name,
             pc[v] \in SubLabels => entry'[Box(v)] = entry[Box(v)] /\ oft'[Fd(v)] = oft[Fd(v)]
      PROVE  AtHome(table', entry', oft', pc'[v], work'[v])
  <2>2. pc'[v] = pc[v] /\ work'[v].slot = Slot(v) /\ work'[v].box = Box(v) /\ work'[v].fd = Fd(v)
        /\ work'[v].code = work[v].code
    BY <1>1 DEF Rests, Same, Slot, Box, Fd
  <2>3. pc'[v] \notin RemoveLabels /\ (pc'[v] = "lookup" => work'[v].code # REQUEST_REMOVE_BOX)
    BY <1>2, <2>2 DEF AtHome
  <2>4. pc'[v] \in ReaderLabels => ~table'[work'[v].slot].free /\ table'[work'[v].slot].name = work'[v].box
    BY <1>2, <1>5, <2>2 DEF AtHome, Slot, Box
  <2>5. pc'[v] \in SubLabels => entry'[work'[v].box] = oft'[work'[v].fd].inum
    BY <1>2, <1>5, <2>2 DEF AtHome, Box, Fd
  <2> QED
    BY <2>3, <2>4, <2>5 DEF AtHome
<1>6. CASE PubWrite(w)
  <2>1. entry' = entry /\ table' = table /\ pc[w] \in HandleLabels
    BY <1>6, PubWriteMakes DEF PubWrite, At, HandleLabels
  <2>2. Fd(w) \in Handles /\ oft[Fd(w)] # None
    BY <2>1, HandleHeld
  <2>3. \A d \in Handles \ {Fd(w)} : oft'[d] = oft[d]
    BY <1>6, <2>2 DEF PubWrite, TfsWrite, Fd, Typed, FsTyped
  <2>4. pc[v] \in HandleLabels => oft'[Fd(v)] = oft[Fd(v)]
    BY <2>1, <2>2, <2>3, OthersHandles
  <2> QED
    BY <1>4, <1>5, <2>1, <2>4
<1>7. CASE CreateFile(w)
  <2>1. Box(w) \in Boxes /\ TfsOpen(Box(w), "CREAT") /\ table' = table
    BY <1>7, KeptTyped DEF CreateFile, At, KeptLabels, NewLabels, boxVars
  <2>2. SameHandles(w) /\ \A m \in Boxes : Exists(m) => entry'[m] = entry[m]
    BY <2>1, OpenHandles, FileCreated
  <2>3. SubLabels \subseteq ReaderLabels
    BY DEF ReaderLabels
  <2> QED
    BY <1>3, <1>4, <1>5, <2>1, <2>2, <2>3 DEF SameHandles
<1>8. CASE CreateName(w)
  <2>1. pc[w] = "name" /\ table[Slot(w)].free
    BY <1>8, KnowsTidy DEF CreateName, At, Kept, Slot
  <2>2. UNCHANGED <<entry, oft>>
    BY <1>8 DEF CreateName, fsVars
  <2>3. Becomes(Slot(w), FALSE, Box(w), table[Slot(w)].size, table[Slot(w)].pubs)
    BY <1>8, CreateNameTable
  <2>4. pc[v] \in ReaderLabels => Slot(v) # Slot(w)
    BY <1>2, <2>1 DEF AtHome, Slot
  <2> QED
    BY <1>3, <1>5, <2>2, <2>3, <2>4 DEF Becomes
<1>9. CASE ~PubWrite(w) /\ ~CreateFile(w) /\ ~CreateName(w)
  <2>1. ~RemoveFile(w) /\ ~RemoveClear(w)
    BY <1>2 DEF RemoveFile, RemoveClear, At, RemoveLabels
  <2>2. Untouching(w)
    BY <1>9, <2>1, HandlersUntouching, SessionsUntouching DEF Moved, Step
  <2> QED
    BY <1>3, <1>4, <1>5, <2>2 DEF Untouching, SameNames, SameHandles
<1> QED
  BY <1>6, <1>7, <1>8, <1>9

\* A session is at home from where it finds its box to its end.
LEMMA OwnHome ==
  ASSUME NothingRemoved, Typed, Tidy, AllAtHome, NEW w \in Workers, Moved(w)
  PROVE  AtHome(table', entry', oft', pc'[w], work'[w])
<1>0. /\ pc \in [Workers -> Labels] /\ work = [u \in Workers |-> work[u]] /\ IsWork(work[w])
      /\ AtHome(table, entry, oft, pc[w], work[w])
  BY DEF Typed, WorkersTyped, AllAtHome
<1>1. ASSUME pc'[w] \notin RemoveLabels \cup ReaderLabels \cup {"lookup"}
      PROVE  AtHome(table', entry', oft', pc'[w], work'[w])
  BY <1>1 DEF AtHome, ReaderLabels
<1>3. CASE RemoveBox(w)
  BY <1>0, <1>3 DEF RemoveBox, RemoveBusy, RemoveFile, RemoveClear, RemoveHangup, RemoveHangupFails, RemoveWake, At,
                    AtHome, RemoveLabels
<1>4. CASE CreateBox(w) \/ ListBox(w) \/ Reply(w) \/ Deny(w) \/ PubStart(w) \/ PubPost(w) \/ PubReceive(w)
  <2>1. CASE CreateBox(w)
    <3>1. pc'[w] \in {"reply", "create", "closeNew", "name", "reset"}
      BY <1>0, <2>1 DEF CreateBox, CreateSlot, CreateFile, CreateClose, CreateName, CreateReset, Goto, Jump, Answer
    <3> QED
      BY <1>1, <3>1 DEF RemoveLabels, ReaderLabels, SubLabels
  <2>2. CASE ListBox(w) \/ Reply(w) \/ Deny(w)
    <3>1. pc'[w] \in {"idle", "listNext", "listLast", "listCopy", "listSend"}
      BY <1>0, <2>2 DEF ListBox, ListCount, ListNext, ListLast, ListCopy, ListSend,
         Reply, Deny, GiveUp, Goto, Jump, Done
    <3> QED
      BY <1>1, <3>1 DEF RemoveLabels, ReaderLabels, SubLabels
  <2>3. CASE PubStart(w) \/ PubReceive(w)
    <3>1. pc'[w] \in {"idle", "deny", "count", "pubPipe", "receive", "pubLock"}
      BY <1>0, <2>3 DEF PubStart, PubCheck, PubCount, PubPipe, PubReceive, Receive, GiveUp, Goto, Jump, Done
    <3> QED
      BY <1>1, <3>1 DEF RemoveLabels, ReaderLabels, SubLabels
  <2>4. CASE PubPost(w)
    <3>1. pc'[w] \in {"idle", "append", "release", "write", "size", "pubClose", "announce", "receive"}
      BY <1>0, <2>4 DEF PubPost, PubLock, PubOpen, PubWrite, PubSize, PubClose, PubAnnounce, PubRelease, GiveUp,
                        Goto, Jump, Done
    <3> QED
      BY <1>1, <3>1 DEF RemoveLabels, ReaderLabels, SubLabels
  <2> QED
    BY <1>4, <2>1, <2>2, <2>3, <2>4
<1>5. ASSUME pc'[w] = pc[w], work'[w] = work[w], UNCHANGED <<fsVars, table>>
      PROVE  AtHome(table', entry', oft', pc'[w], work'[w])
  <2>1. UNCHANGED <<entry, oft, table>>
    BY <1>5 DEF fsVars
  <2> QED
    BY <1>0, <1>5, <2>1
<1>6. CASE Dequeue(w) \/ SpuriousWakeup(w)
  BY <1>5, <1>6 DEF Dequeue, SpuriousWakeup, boxVars
<1>7. CASE Decode(w)
  <2> DEFINE req == decode(taken[w])
             rec == [NoWork EXCEPT !.code = req.code, !.client = req.client, !.box = req.box]
  <2>1. QueueTyped /\ taken[w] # None /\ UNCHANGED <<fsVars, table>>
    BY <1>7 DEF Decode, RequestQueue!Deliver, Typed, boxVars
  <2>2. req.code # REQUEST_REMOVE_BOX
    <3>1. taken[w] \in Buffers
      BY <2>1 DEF QueueTyped
    <3> QED
      BY <3>1 DEF NothingRemoved, decode
  <2>3. rec.code = req.code
    <3>1. rec = Begun(NoWork, req.code, req.client, req.box, NoWork.tmp)
      BY NoWorkIs, SetBegun
    <3> HIDE DEF rec, req
    <3> QED
      BY <3>1, BegunIs
  <2>4. \/ pc'[w] \in {"listCount", "lookup"} /\ work'[w] = rec
        \/ UNCHANGED <<pc, work>>
    BY <1>0, <1>7 DEF Decode
  <2> HIDE DEF rec, req
  <2>5. CASE pc'[w] \in {"listCount", "lookup"} /\ work'[w] = rec
    BY <2>2, <2>3, <2>5 DEF AtHome, RemoveLabels, ReaderLabels, SubLabels
  <2>6. CASE UNCHANGED <<pc, work>>
    BY <1>5, <2>1, <2>6
  <2> QED
    BY <2>4, <2>5, <2>6
<1>8. CASE LookupBox(w)
  <2> DEFINE i == GetBox(Box(w))
             rec == [work[w] EXCEPT !.slot = i]
  <2>1. pc[w] = "lookup" /\ work[w].code \in RegisterRequests /\ work[w].code # REQUEST_REMOVE_BOX /\ table' = table
    BY <1>0, <1>8, AtTyped DEF LookupBox, At, AtHome, LocalsTyped, boxVars
  <2>2. \/ pc'[w] \in {"slot", "reply", "deny", "check"}
        \/ i # None /\ pc'[w] = "read" /\ work'[w] = rec
    BY <1>0, <1>8, <2>1 DEF LookupBox, RegisterRequests, Jump, Goto, Answer
  <2>3. CASE pc'[w] \in {"slot", "reply", "deny", "check"}
    BY <1>1, <2>3 DEF RemoveLabels, ReaderLabels, SubLabels
  <2>4. CASE i # None /\ pc'[w] = "read" /\ work'[w] = rec
    <3>1. ~table[i].free /\ table[i].name = Box(w)
      BY <2>4, GetBoxIs
    <3>2. rec.slot = i /\ rec.box = work[w].box
      BY <1>0, SetSlot
    <3> HIDE DEF i, rec
    <3> QED
      BY <2>1, <2>4, <3>1, <3>2 DEF AtHome, RemoveLabels, SubLabels, Box
  <2> QED
    BY <2>2, <2>3, <2>4
<1>9. CASE SubStart(w) \/ SubLoop(w)
  <2>1. PICK l \in ReaderLabels \cup {"leave", "uncount"} : At(w, l)
    BY <1>9 DEF SubStart, SubRead, SubEnter, SubPipe, SubOpen, SubLoop, SubLock, SubTake, SubFree, SubSleep, SubWake,
                SubDeliver, SubLeave, SubUncount, ReaderLabels, SubLabels
  <2>2. Slot(w) \in Slots /\ Box(w) \in Boxes
    <3>1. LocalsTyped(l, work[w])
      BY <2>1, AtTyped
    <3> QED
      BY <2>1, <3>1 DEF LocalsTyped, BoxLabels, SlotLabels, SubLabels, ReaderLabels, Box, Slot
  <2>3. SameNames /\ entry' = entry
    BY <1>9, SessionsUntouching DEF Untouching, SubStart, SubRead, SubEnter, SubPipe, SubOpen, SubLoop,
       SubLock, SubTake,
       SubFree, SubSleep, SubWake, SubDeliver, SubLeave, SubUncount, PubWrite, At
  <2>4. pc[w] \in ReaderLabels => ~table'[Slot(w)].free /\ table'[Slot(w)].name = Box(w)
    BY <1>0, <2>2, <2>3 DEF AtHome, SameNames, Slot, Box
  <2>5. ASSUME work'[w].slot = Slot(w), work'[w].box = Box(w), pc[w] \in ReaderLabels,
               pc'[w] \in ReaderLabels \cup {"idle", "leave"},
               pc'[w] \in SubLabels => entry[Box(w)] = oft'[work'[w].fd].inum
        PROVE  AtHome(table', entry', oft', pc'[w], work'[w])
    <3>1. pc'[w] \notin RemoveLabels \cup {"lookup"}
      BY <2>5 DEF RemoveLabels, ReaderLabels, SubLabels
    <3>2. pc'[w] \in SubLabels => entry'[work'[w].box] = oft'[work'[w].fd].inum
      BY <2>3, <2>5
    <3> QED
      BY <2>4, <2>5, <3>1, <3>2 DEF AtHome
  <2>6. pc[w] \in SubLabels => entry[Box(w)] = oft[Fd(w)].inum
    BY <1>0 DEF AtHome, Box, Fd
  <2>7. CASE SubRead(w) \/ SubEnter(w) \/ SubPipe(w)
    <3>1. pc[w] \in {"read", "enter", "subPipe"} /\ pc'[w] \in {"enter", "subPipe", "open", "idle"}
      BY <1>0, <2>7 DEF SubRead, SubEnter, SubPipe, At, Jump, Goto, GiveUp, Done
    <3>2. CASE pc'[w] = "idle"
      BY <1>1, <3>2 DEF RemoveLabels, ReaderLabels, SubLabels
    <3>3. CASE pc'[w] # "idle"
      <4>1. work'[w].slot = Slot(w) /\ work'[w].box = Box(w)
        <5>1. CASE SubRead(w)
          <6>1. PICK x : work'[w] = [work[w] EXCEPT !.tmp = x]
            BY <1>0, <5>1 DEF SubRead, Goto
          <6>2. [work[w] EXCEPT !.tmp = x].slot = work[w].slot /\ [work[w] EXCEPT !.tmp = x].box = work[w].box
            <7>1. IsWork(work[w])
              BY <1>0
            <7> QED
              BY <7>1, SetTmp
          <6> QED
            BY <6>1, <6>2 DEF Slot, Box
        <5>2. CASE SubEnter(w)
          <6>1. work'[w] = work[w]
            BY <1>0, <5>2 DEF SubEnter, Jump, Goto
          <6> QED
            BY <6>1 DEF Slot, Box
        <5>3. CASE SubPipe(w)
          <6>1. work'[w] = [work[w] EXCEPT !.pipe = "open", !.tmp = None]
            BY <1>0, <3>3, <5>3 DEF SubPipe, GiveUp, Goto, Done
          <6>2. work'[w] = Changed(work[w], work[w].fd, None, work[w].msg, work[w].read, "open")
            BY <1>0, <6>1, SetPipeTmp
          <6> QED
            BY <6>2, ChangedIs DEF Slot, Box
        <5> QED
          BY <2>7, <5>1, <5>2, <5>3
      <4>2. pc[w] \in ReaderLabels /\ pc'[w] \in ReaderLabels \ SubLabels
        BY <3>1, <3>3 DEF ReaderLabels, SubLabels
      <4> QED
        BY <2>5, <4>1, <4>2
    <3> QED
      BY <3>2, <3>3
  <2>8. CASE SubOpen(w)
    <3> DEFINE d == OpenResult(Box(w), "READ")
    <3>1. pc[w] = "open" /\ TfsOpen(Box(w), "READ")
      BY <2>8 DEF SubOpen, At
    <3>2. CASE d = None
      <4>1. pc'[w] = "idle"
        BY <1>0, <2>8, <3>2 DEF SubOpen, Done
      <4> QED
        BY <1>1, <4>1 DEF RemoveLabels, ReaderLabels, SubLabels
    <3>3. CASE d # None
      <4>1. pc'[w] = "subLock" /\ work'[w] = [work[w] EXCEPT !.fd = d]
        BY <1>0, <2>8, <3>3 DEF SubOpen, Goto
      <4>2. oft'[d].inum = entry'[Box(w)]
        <5>1. \E off : oft'[d] = OpenFile(entry'[Box(w)], off)
          BY <2>2, <3>1, <3>3, OpenedFs DEF Typed
        <5> HIDE DEF d
        <5> QED
          BY <5>1 DEF OpenFile
      <4> HIDE DEF d
      <4>3. work'[w].slot = Slot(w) /\ work'[w].box = Box(w) /\ work'[w].fd = d
        BY <1>0, <4>1, SetFd DEF Slot, Box
      <4>4. entry[Box(w)] = oft'[work'[w].fd].inum
        BY <2>3, <4>2, <4>3
      <4>5. pc[w] \in ReaderLabels /\ pc'[w] \in ReaderLabels
        BY <3>1, <4>1 DEF ReaderLabels, SubLabels
      <4> QED
        BY <2>5, <4>3, <4>4, <4>5
    <3> QED
      BY <3>2, <3>3
  <2>9. CASE SubLock(w) \/ SubFree(w) \/ SubSleep(w) \/ SubWake(w)
    <3>1. /\ pc[w] \in SubLabels /\ pc'[w] \in SubLabels \cup {"leave"}
          /\ work'[w] = work[w] /\ oft' = oft
      BY <1>0, <2>9 DEF SubLock, SubFree, SubSleep, SubWake, At, Jump, Goto, SubLabels, fsVars
    <3> QED
      BY <2>5, <2>6, <3>1 DEF Slot, Box, Fd, ReaderLabels
  <2>10. CASE SubTake(w)
    <3>1. CASE ReadDies(work[w].fd)
      <4>1. UNCHANGED <<fsVars, table, pc, work>>
        BY <2>10, <3>1 DEF SubTake, boxVars
      <4> QED
        BY <1>5, <4>1
    <3>2. CASE ~ReadDies(work[w].fd)
      <4>1. /\ pc[w] = "subRead" /\ pc'[w] \in {"subFree", "deliver"} /\ TfsRead(Fd(w))
            /\ \E x : work'[w] = [work[w] EXCEPT !.msg = x]
        BY <1>0, <2>10, <3>2 DEF SubTake, At, Fd
      <4>2. pc[w] \in SubLabels /\ pc[w] \in HandleLabels
        BY <4>1 DEF SubLabels, HandleLabels
      <4>3. Fd(w) \in Handles /\ oft[Fd(w)] # None
        BY <4>2, HandleHeld
      <4>4. oft'[Fd(w)].inum = oft[Fd(w)].inum
        BY <4>1, <4>3, ReadFs DEF Typed
      <4>5. work'[w].slot = Slot(w) /\ work'[w].box = Box(w) /\ work'[w].fd = Fd(w)
        BY <1>0, <4>1, SetMsg DEF Slot, Box, Fd
      <4> QED
        BY <2>5, <2>6, <4>1, <4>2, <4>4, <4>5 DEF ReaderLabels, SubLabels
    <3> QED
      BY <3>1, <3>2
  <2>11. CASE SubDeliver(w)
    <3>1. /\ pc[w] = "deliver" /\ pc'[w] \in {"subLock", "leave"} /\ oft' = oft
          /\ work'[w] = [work[w] EXCEPT !.msg = <<>>]
      BY <1>0, <2>11 DEF SubDeliver, At, fsVars
    <3>2. work'[w].slot = Slot(w) /\ work'[w].box = Box(w) /\ work'[w].fd = Fd(w)
      BY <1>0, <3>1, SetMsg DEF Slot, Box, Fd
    <3> QED
      BY <2>5, <2>6, <3>1, <3>2 DEF ReaderLabels, SubLabels
  <2>12. CASE SubLeave(w) \/ SubUncount(w)
    <3>1. pc'[w] \in {"uncount", "idle"}
      BY <1>0, <2>12 DEF SubLeave, SubUncount, Goto, Done
    <3> QED
      BY <1>1, <3>1 DEF RemoveLabels, ReaderLabels, SubLabels
  <2> QED
    BY <1>9, <2>7, <2>8, <2>9, <2>10, <2>11, <2>12 DEF SubStart, SubLoop
<1> QED
  BY <1>3, <1>4, <1>6, <1>7, <1>8, <1>9 DEF Moved, Step

\* When requests are handled one at a time, none of them is for the removal of a
\* box and no message is empty: no subscriber sleeps beside a message that it has
\* not received, unless a publisher's session is about to wake it.
THEOREM NoneSleeps ==
  Spaced /\ MessagesNotEmpty /\ NothingRemoved => (Spec => []NoSleepOverUnread)
<1> SUFFICES ASSUME Spaced, MessagesNotEmpty, NothingRemoved PROVE Spec => []NoSleepOverUnread
  OBVIOUS
<1>1. Init => AllAtHome
  BY DEF Init, AllAtHome, AtHome, RemoveLabels, ReaderLabels, SubLabels
<1>2. Typed /\ Tidy /\ AllAtHome /\ [Next]_vars => AllAtHome'
  <2> SUFFICES ASSUME Typed, Tidy, AllAtHome, [Next]_vars PROVE AllAtHome'
    OBVIOUS
  <2>1. CASE ReadRequest \/ EnqueueRequest \/ UNCHANGED vars
    <3>1. UNCHANGED <<fsVars, boxVars, pc, work>>
      BY <2>1 DEF ReadRequest, Arrive, EnqueueRequest, vars
    <3>2. UNCHANGED <<entry, oft, table, pc, work>>
      BY <3>1 DEF fsVars, boxVars
    <3> QED
      BY <3>2 DEF AllAtHome
  <2>2. CASE \E w \in Workers : Step(w) \/ PubReceive(w) \/ SpuriousWakeup(w)
    <3>1. PICK w \in Workers : Moved(w)
      BY <2>2 DEF Moved
    <3> QED
      BY <3>1, OwnHome, OthersHome DEF AllAtHome
  <2> QED
    BY <2>1, <2>2 DEF Next, Over
<1>3. Typed /\ ReadersKept /\ AllAtHome => NoSleepOverUnread
  <2> SUFFICES ASSUME Typed, ReadersKept, AllAtHome, NEW w \in asleep, Unread(w) PROVE Announcing(Slot(w))
    BY DEF NoSleepOverUnread, Announcing
  <2>1. w \in Workers /\ pc[w] \in SubLabels
    BY DEF Typed, MutexesOwned, SubLabels
  <2>2. InBox(table, entry, oft, work[w])
    BY <2>1 DEF AllAtHome, AtHome, ReaderLabels, InBox
  <2> QED
    BY <2>2 DEF ReadersKept, SleepersKnown, Missed
<1>4. Typed /\ Tidy /\ ReadersKept /\ [Next]_vars => ReadersKept'
  BY NextReaders
<1> QED
  BY <1>1, <1>2, <1>3, <1>4, InitReaders, BoxesTidy, PTL DEF Spec

=============================================================================
