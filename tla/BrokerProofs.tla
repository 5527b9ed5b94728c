---------------------------- MODULE BrokerProofs ----------------------------
(***************************************************************************)
(* What mbroker (Broker) keeps to for every number of workers and boxes,   *)
(* every size of its tables and every sequence of requests, handled one at *)
(* a time or all at once: the types, the inodes and handles of TecnicoFS 2 *)
(* that files and sessions own, and the mutexes of the boxes.              *)
(***************************************************************************)
EXTENDS Broker, NaturalsLemmas, FunctionTheorems, SequenceTheorems, TLAPS

-----------------------------------------------------------------------------
(* The inductive invariant *)

\* The requests that may come.
Buffers == UNION {Requests[k] : k \in DOMAIN Requests}

\* Labels of the sessions, and those at which a worker has a box, a slot of the
\* table, an open handle and the mutex of its slot.
PubLabels == {"pubPipe", "receive", "pubLock", "append", "write", "size", "pubClose", "announce", "release"}
SubLabels == {"subLock", "subRead", "subFree", "sleep", "woken", "deliver"}
Labels == {"idle", "subPipe", "open", "leave", "uncount"} \cup Handling \cup PubLabels \cup SubLabels

BoxLabels == {"lookup", "slot", "create", "closeNew", "name", "reset", "busy", "unlink", "clear", "hangup", "wake",
              "check", "count", "read", "enter", "deny", "subPipe", "open", "leave", "uncount"}
             \cup PubLabels \cup SubLabels
SlotLabels == BoxLabels \ {"lookup", "slot", "create", "closeNew", "deny"}
HandleLabels == {"closeNew", "write", "size", "pubClose"} \cup SubLabels
LockLabels == {"append", "write", "size", "pubClose", "subRead", "subFree", "sleep", "deliver"}

\* r is the locals of a worker.
IsWork(r) ==
    r = [code |-> r.code, client |-> r.client, box |-> r.box, slot |-> r.slot, fd |-> r.fd,
         tmp |-> r.tmp, msg |-> r.msg, read |-> r.read, pipe |-> r.pipe, last |-> r.last]

\* What a worker's locals r hold at label p.
LocalsTyped(p, r) ==
    /\ p = "lookup" => r.code \in RegisterRequests
    /\ p \in BoxLabels => r.box \in Boxes
    /\ p \in SlotLabels => r.slot \in Slots
    /\ p \in {"create", "closeNew"} => r.tmp \in Slots
    /\ p \in {"size", "enter", "uncount"} => r.tmp \in Nat
    /\ p \in HandleLabels => r.fd \in Handles
    /\ p \in {"append", "write", "deliver"} \/ (p = "pubLock" /\ r.read = "message") => r.msg \in Seq(Chars)

\* The tables of TecnicoFS 2.
FsTyped ==
    /\ entry \in [Boxes -> Inodes \cup {None}]
    /\ takenI \subseteq Inodes /\ takenB \subseteq Blocks
    /\ node \in [Inodes -> [size : 0 .. BlockSize, block : Blocks \cup {None}]]
    /\ oft \in [Handles -> [inum : Inodes, off : 0 .. DataEnd] \cup {None}]
    /\ data \in [0 .. DataEnd - 1 -> Chars \cup {Nul}]

\* The requests, from the register pipe to the worker.
QueueTyped ==
    /\ queue \in Seq(Buffers)
    /\ offered \in [{Main} -> Buffers \cup {None}]
    /\ taken \in [Workers -> Buffers \cup {None}]
    /\ coming \in Seq(SUBSET Buffers)
    /\ posts \in Nat

\* The box table.
TableTyped ==
    table \in [Slots -> [free : BOOLEAN, name : Boxes \cup {None}, size : Nat, pubs : Nat,
                         nsubs : 0 .. Word - 1,
                         subs : [Workers -> {"none", "index", "open", "left", "dead"}]]]

\* The workers and what subscribers have received.
WorkersTyped ==
    /\ pc \in [Workers -> Labels]
    /\ work = [w \in Workers |-> work[w]]
    /\ \A w \in Workers : IsWork(work[w]) /\ LocalsTyped(pc[w], work[w])
    /\ got \in [Workers -> Seq(Seq(Chars))]
    /\ crashed \in BOOLEAN

NamesWithFiles == {n \in Boxes : Exists(n)}

\* Each file has an inode of its own, and the inodes in use are those of files.
\* There is one more than there are directory entries: inode_create finds one.
InodesCounted ==
    /\ takenI = {entry[n] : n \in NamesWithFiles}
    /\ \A m, n \in NamesWithFiles : entry[m] = entry[n] => m = n
    /\ IsFiniteSet(NamesWithFiles) /\ Cardinality(NamesWithFiles) <= NEntries

\* Each session has a handle of its own, and it is open; a publisher's handle is
\* not beyond the end of the block.
HandlesOwned ==
    /\ \A w \in Workers : pc[w] \in HandleLabels => oft[Fd(w)] # None
    /\ \A v, w \in Workers : pc[v] \in HandleLabels /\ pc[w] \in HandleLabels /\ Fd(v) = Fd(w) => v = w
    /\ \A w \in Workers : pc[w] = "write" => oft[Fd(w)].off <= BlockSize

\* The mutex of a box is held by the worker that is in its critical section.
MutexesOwned ==
    /\ mutex \in [Slots -> Workers \cup {None}]
    /\ \A w \in Workers, i \in Slots : mutex[i] = w <=> pc[w] \in LockLabels /\ Slot(w) = i
    /\ asleep \subseteq Workers
    /\ \A w \in asleep : pc[w] = "woken"

Typed == FsTyped /\ QueueTyped /\ TableTyped /\ WorkersTyped /\ InodesCounted /\ HandlesOwned /\ MutexesOwned

\* The size of the file with name n.
FileSize(n) == node[entry[n]].size

-----------------------------------------------------------------------------
(* Numbers and buffers *)

\* The sizes of the tables are positive, None is nothing else.
LEMMA BrokerSizes ==
  /\ NEntries \in Nat \ {0} /\ NBlocks \in Nat \ {0} /\ NHandles \in Nat \ {0}
  /\ BlockSize \in Nat \ {0} /\ NSlots \in Nat \ {0} /\ Word \in Nat \ {0}
  /\ NBlocks * BlockSize \in Nat /\ BlockSize <= NBlocks * BlockSize
  /\ None \notin Nat /\ None \notin Boxes /\ None \notin Workers /\ None \notin Slots
  /\ Nul \notin Chars /\ Messages \in Seq(Seq(Chars))
<1>1. /\ NEntries \in Nat \ {0} /\ NBlocks \in Nat \ {0} /\ NHandles \in Nat \ {0}
      /\ BlockSize \in Nat \ {0} /\ NSlots \in Nat \ {0} /\ Word \in Nat
      /\ None \notin Nat /\ None \notin Boxes /\ None \notin Workers
      /\ Nul \notin Chars /\ Messages \in Seq(Seq(Chars))
      /\ Word > (NBlocks + 1) * BlockSize
  BY BoxFsAssumption, BrokerAssumption
<1>2. ASSUME NEW m \in Nat \ {0}, NEW n \in Nat \ {0}
      PROVE  /\ m * n \in Nat /\ n <= m * n /\ (m + 1) * n \in Nat
  OBVIOUS
<1>3. NBlocks * BlockSize \in Nat /\ BlockSize <= NBlocks * BlockSize /\ (NBlocks + 1) * BlockSize \in Nat
  BY <1>1, <1>2
<1>4. ASSUME NEW m \in Nat, Word > m PROVE Word # 0
  BY <1>4, <1>1
<1>5. None \notin Slots
  BY <1>1 DEF Slots
<1> QED
  BY <1>1, <1>3, <1>4, <1>5

\* First picks an element of a set of numbers.
LEMMA FirstInSet == ASSUME NEW S \in SUBSET Nat, S # {} PROVE First(S) \in S
  BY LeastNumber DEF First

\* A request that may come is a buffer, and a register request names a box.
LEMMA RequestsTyped ==
  /\ Requests \in Seq(SUBSET Buffers)
  /\ None \notin Buffers
  /\ \A r \in Buffers : r[1] \in RegisterRequests => r[BoxAt] \in Boxes
<1>1. Requests \in Seq({Requests[k] : k \in DOMAIN Requests})
  BY BrokerAssumption
<1>2. {Requests[k] : k \in DOMAIN Requests} \subseteq SUBSET Buffers
  BY DEF Buffers
<1>3. Requests \in Seq(SUBSET Buffers)
  BY <1>1, <1>2
<1>4. ASSUME NEW r \in Buffers PROVE r # None /\ (r[1] \in RegisterRequests => r[BoxAt] \in Boxes)
  <2>1. PICK k \in DOMAIN Requests : r \in Requests[k]
    BY DEF Buffers
  <2> QED
    BY <2>1, BrokerAssumption
<1> QED
  BY <1>3, <1>4

-----------------------------------------------------------------------------
(* The locals of a worker *)

Same(s, r) == /\ s.code = r.code /\ s.box = r.box /\ s.slot = r.slot /\ s.fd = r.fd
              /\ s.tmp = r.tmp /\ s.msg = r.msg /\ s.read = r.read

Changed(r, f, t, m, d, p) ==
    [code |-> r.code, client |-> r.client, box |-> r.box, slot |-> r.slot, fd |-> f,
     tmp |-> t, msg |-> m, read |-> d, pipe |-> p, last |-> r.last]

\* The fields of a worker's locals after several of them were set.
LEMMA ChangedIs ==
  ASSUME NEW r, NEW f, NEW t, NEW m, NEW d, NEW p
  PROVE  LET s == Changed(r, f, t, m, d, p)
         IN /\ IsWork(s) /\ s.fd = f /\ s.tmp = t /\ s.msg = m /\ s.read = d
            /\ s.code = r.code /\ s.box = r.box /\ s.slot = r.slot
  BY DEF IsWork, Changed

\* Setting slot changes nothing else.
LEMMA SetSlot ==
  ASSUME NEW r, IsWork(r), NEW x
  PROVE  LET s == [r EXCEPT !.slot = x]
         IN /\ IsWork(s) /\ s.slot = x
            /\ s.code = r.code /\ s.box = r.box /\ s.fd = r.fd
            /\ s.tmp = r.tmp /\ s.msg = r.msg /\ s.read = r.read
  BY DEF IsWork

\* Setting fd changes nothing else.
LEMMA SetFd ==
  ASSUME NEW r, IsWork(r), NEW x
  PROVE  LET s == [r EXCEPT !.fd = x]
         IN /\ IsWork(s) /\ s.fd = x
            /\ s.code = r.code /\ s.box = r.box /\ s.slot = r.slot
            /\ s.tmp = r.tmp /\ s.msg = r.msg /\ s.read = r.read
  BY DEF IsWork

\* Setting tmp changes nothing else.
LEMMA SetTmp ==
  ASSUME NEW r, IsWork(r), NEW x
  PROVE  LET s == [r EXCEPT !.tmp = x]
         IN /\ IsWork(s) /\ s.tmp = x
            /\ s.code = r.code /\ s.box = r.box /\ s.slot = r.slot
            /\ s.fd = r.fd /\ s.msg = r.msg /\ s.read = r.read
  BY DEF IsWork

\* Setting msg changes nothing else.
LEMMA SetMsg ==
  ASSUME NEW r, IsWork(r), NEW x
  PROVE  LET s == [r EXCEPT !.msg = x]
         IN /\ IsWork(s) /\ s.msg = x
            /\ s.code = r.code /\ s.box = r.box /\ s.slot = r.slot
            /\ s.fd = r.fd /\ s.tmp = r.tmp /\ s.read = r.read
  BY DEF IsWork

\* Setting pipe changes none of the fields that have a type.
LEMMA SetPipe ==
  ASSUME NEW r, IsWork(r), NEW x
  PROVE  IsWork([r EXCEPT !.pipe = x]) /\ Same([r EXCEPT !.pipe = x], r)
  BY DEF IsWork, Same

\* Setting last leaves a worker's locals complete.
LEMMA SetLast == ASSUME NEW r, IsWork(r), NEW x PROVE IsWork([r EXCEPT !.last = x])
  BY DEF IsWork

\* Setting tmp and msg, as a publisher's session does before tfs_write, leaves
\* the locals complete.
LEMMA SetTmpMsg ==
  ASSUME NEW r, IsWork(r), NEW x, NEW y
  PROVE  IsWork([r EXCEPT !.tmp = x, !.msg = y])
<1>1. [r EXCEPT !.tmp = x] = Changed(r, r.fd, x, r.msg, r.read, r.pipe)
  BY DEF IsWork, Changed
<1>2. ASSUME NEW g, g = Changed(r, r.fd, x, r.msg, r.read, r.pipe)
      PROVE  [g EXCEPT !.msg = y] = Changed(r, r.fd, x, y, r.read, r.pipe)
  BY <1>2 DEF Changed
<1>3. [r EXCEPT !.tmp = x, !.msg = y] = Changed(r, r.fd, x, y, r.read, r.pipe)
  BY <1>1, <1>2
<1> QED
  BY <1>3 DEF IsWork, Changed

\* Setting pipe and tmp at once is setting them one after the other.
LEMMA SetPipeTmp ==
  ASSUME NEW r, IsWork(r), NEW x, NEW y
  PROVE  [r EXCEPT !.pipe = x, !.tmp = y] = Changed(r, r.fd, y, r.msg, r.read, x)
<1>1. [r EXCEPT !.pipe = x] = Changed(r, r.fd, r.tmp, r.msg, r.read, x)
  BY DEF IsWork, Changed
<1>2. ASSUME NEW g, g = Changed(r, r.fd, r.tmp, r.msg, r.read, x)
      PROVE  [g EXCEPT !.tmp = y] = Changed(r, r.fd, y, r.msg, r.read, x)
  BY <1>2 DEF Changed
<1> QED
  BY <1>1, <1>2

Begun(r, c, cl, b, t) ==
    [code |-> c, client |-> cl, box |-> b, slot |-> r.slot, fd |-> r.fd,
     tmp |-> t, msg |-> r.msg, read |-> r.read, pipe |-> r.pipe, last |-> r.last]

\* The fields of a worker's locals after a request was decoded.
LEMMA BegunIs ==
  ASSUME NEW r, NEW c, NEW cl, NEW b, NEW t
  PROVE  LET s == Begun(r, c, cl, b, t) IN IsWork(s) /\ s.code = c /\ s.box = b
  BY DEF IsWork, Begun

\* Decoding a request sets its code, its client and its box.
LEMMA SetBegun ==
  ASSUME NEW r, IsWork(r), NEW x, NEW y, NEW z
  PROVE  [r EXCEPT !.code = x, !.client = y, !.box = z] = Begun(r, x, y, z, r.tmp)
<1>1. [r EXCEPT !.code = x] = Begun(r, x, r.client, r.box, r.tmp)
  BY DEF IsWork, Begun
<1>2. ASSUME NEW g, g = Begun(r, x, r.client, r.box, r.tmp)
      PROVE  [g EXCEPT !.client = y] = Begun(r, x, y, r.box, r.tmp)
  BY <1>2 DEF Begun
<1>3. ASSUME NEW g, g = Begun(r, x, y, r.box, r.tmp)
      PROVE  [g EXCEPT !.box = z] = Begun(r, x, y, z, r.tmp)
  BY <1>3 DEF Begun
<1> QED
  BY <1>1, <1>2, <1>3

\* A worker without a request has all its locals.
LEMMA NoWorkIs == IsWork(NoWork)
  BY DEF IsWork, NoWork

\* What a worker answers with.
LEMMA AnswerIs ==
  ASSUME NEW x, NEW y, NEW z
  PROVE  IsWork([NoWork EXCEPT !.code = x, !.client = y, !.tmp = z])
<1> DEFINE r == NoWork
<1>0. IsWork(r)
  BY NoWorkIs
<1> HIDE DEF r
<1>1. [r EXCEPT !.code = x] = Begun(r, x, r.client, r.box, r.tmp)
  BY <1>0 DEF IsWork, Begun
<1>2. ASSUME NEW g, g = Begun(r, x, r.client, r.box, r.tmp)
      PROVE  [g EXCEPT !.client = y] = Begun(r, x, y, r.box, r.tmp)
  BY <1>2 DEF Begun
<1>3. ASSUME NEW g, g = Begun(r, x, y, r.box, r.tmp)
      PROVE  [g EXCEPT !.tmp = z] = Begun(r, x, y, r.box, z)
  BY <1>3 DEF Begun
<1>4. [r EXCEPT !.code = x, !.client = y, !.tmp = z] = Begun(r, x, y, r.box, z)
  BY <1>1, <1>2, <1>3
<1>5. IsWork([r EXCEPT !.code = x, !.client = y, !.tmp = z])
  BY <1>4, BegunIs
<1> QED
  BY <1>5 DEF r

-----------------------------------------------------------------------------
(* How a worker moves *)

\* w goes to p with the locals r; the locals of others stay, but for pipes.
Moves(w, p, r) ==
    /\ pc' = [pc EXCEPT ![w] = p]
    /\ work' = [v \in Workers |-> work'[v]]
    /\ \A v \in Workers : IsWork(work'[v]) /\ Same(work'[v], IF v = w THEN r ELSE work[v])

\* Goto moves its worker and nothing else.
LEMMA GotoMoves ==
  ASSUME WorkersTyped, NEW w \in Workers, NEW l, NEW rec, IsWork(rec), Goto(w, l, rec)
  PROVE  Moves(w, l, rec) /\ UNCHANGED <<bqVars, envVars, got, crashed>>
<1>1. work' = [work EXCEPT ![w] = rec]
  BY DEF Goto
<1>2. work' = [v \in Workers |-> IF v = w THEN rec ELSE work[v]]
  BY <1>1 DEF WorkersTyped
<1>3. \A v \in Workers : work'[v] = IF v = w THEN rec ELSE work[v]
  BY <1>2
<1>4. work' = [v \in Workers |-> work'[v]]
  BY <1>2
<1>5. \A v \in Workers : IsWork(work'[v]) /\ Same(work'[v], IF v = w THEN rec ELSE work[v])
  BY <1>3 DEF WorkersTyped, Same
<1> QED
  BY <1>4, <1>5 DEF Goto, Moves

\* A worker that is done with a request is idle again (worker_thread_loop).
LEMMA DoneMoves ==
  ASSUME WorkersTyped, NEW w \in Workers, Done(w)
  PROVE  /\ Moves(w, "idle", NoWork) /\ UNCHANGED <<bqVars, envVars, crashed>>
         /\ got' \in [Workers -> Seq(Seq(Chars))]
<1>1. work' = [work EXCEPT ![w] = NoWork]
  BY DEF Done
<1>2. work' = [v \in Workers |-> IF v = w THEN NoWork ELSE work[v]]
  BY <1>1 DEF WorkersTyped
<1>3. \A v \in Workers : work'[v] = IF v = w THEN NoWork ELSE work[v]
  BY <1>2
<1>4. work' = [v \in Workers |-> work'[v]]
  BY <1>2
<1>5. \A v \in Workers : IsWork(work'[v]) /\ Same(work'[v], IF v = w THEN NoWork ELSE work[v])
  BY <1>3, NoWorkIs DEF WorkersTyped, Same
<1>6. got' \in [Workers -> Seq(Seq(Chars))]
  BY DEF Done, WorkersTyped
<1> QED
  BY <1>4, <1>5, <1>6 DEF Done, Moves

\* A worker that answers goes on to open the client's pipe.
LEMMA AnswerMoves ==
  ASSUME WorkersTyped, NEW w \in Workers, NEW r, Answer(w, r)
  PROVE  (\E rec : Moves(w, "reply", rec)) /\ UNCHANGED <<bqVars, envVars, got, crashed>>
<1> DEFINE rec == [NoWork EXCEPT !.code = work[w].code, !.client = work[w].client, !.tmp = r]
<1>1. IsWork(rec)
  BY AnswerIs, Zenon
<1>2. Goto(w, "reply", rec)
  BY DEF Answer
<1> HIDE DEF rec
<1> QED
  BY <1>1, <1>2, GotoMoves

\* A step of a worker leaves the other workers where they are.
LEMMA MovesPc ==
  ASSUME WorkersTyped, NEW w \in Workers, NEW p, NEW r, Moves(w, p, r)
  PROVE  /\ pc'[w] = p /\ Same(work'[w], r)
         /\ \A v \in Workers \ {w} : pc'[v] = pc[v] /\ Same(work'[v], work[v])
  BY DEF Moves, WorkersTyped

\* Only the fields compared by Same have types that depend on the label.
LEMMA LocalsTypedSame ==
  ASSUME NEW p, NEW r, NEW s, Same(s, r), LocalsTyped(p, r)
  PROVE  LocalsTyped(p, s)
  BY DEF Same, LocalsTyped

\* A worker whose locals have the types of the next label keeps the workers
\* well-typed.
LEMMA MovesTyped ==
  ASSUME WorkersTyped, NEW w \in Workers, NEW p, NEW r, Moves(w, p, r),
         p \in Labels, LocalsTyped(p, r), got' \in [Workers -> Seq(Seq(Chars))], crashed' \in BOOLEAN
  PROVE  WorkersTyped'
<1>1. pc' \in [Workers -> Labels]
  BY DEF Moves, WorkersTyped
<1>2. ASSUME NEW v \in Workers PROVE LocalsTyped(pc'[v], work'[v])
  <2>1. LocalsTyped(pc[v], work[v])
    BY DEF WorkersTyped
  <2>2. CASE v = w
    BY <2>2, MovesPc, LocalsTypedSame
  <2>3. CASE v # w
    BY <2>1, <2>3, MovesPc, LocalsTypedSame
  <2> QED
    BY <2>2, <2>3
<1>3. \A v \in Workers : IsWork(work'[v])
  BY DEF Moves
<1>4. (\A v \in Workers : IsWork(work[v]) /\ LocalsTyped(pc[v], work[v]))'
  BY <1>2, <1>3
<1> QED
  BY <1>1, <1>4 DEF WorkersTyped, Moves

-----------------------------------------------------------------------------
(* Handles and mutexes *)

\* A worker keeps its handle, gives it up or takes a free one; no other
\* worker's handle changes.
LEMMA HandlesMove ==
  ASSUME WorkersTyped, HandlesOwned, NEW w \in Workers, NEW p, NEW r, Moves(w, p, r),
         p \in HandleLabels => (pc[w] \in HandleLabels /\ r.fd = Fd(w)) \/ oft[r.fd] = None,
         \A v \in Workers \ {w} : pc[v] \in HandleLabels => oft'[Fd(v)] = oft[Fd(v)],
         p \in HandleLabels => oft'[r.fd] # None,
         p = "write" => oft'[r.fd].off <= BlockSize
  PROVE  HandlesOwned'
<1>1. pc'[w] = p /\ work'[w].fd = r.fd
  BY MovesPc DEF Same
<1>2. \A v \in Workers \ {w} : pc'[v] = pc[v] /\ work'[v].fd = work[v].fd
  BY MovesPc DEF Same
<1>3. "write" \in HandleLabels
  BY DEF HandleLabels
<1>4. ASSUME NEW v \in Workers, pc'[v] \in HandleLabels PROVE oft'[work'[v].fd] # None
  BY <1>1, <1>2, <1>4 DEF HandlesOwned, Fd
<1>5. ASSUME NEW v \in Workers, pc'[v] = "write" PROVE oft'[work'[v].fd].off <= BlockSize
  BY <1>1, <1>2, <1>3, <1>5 DEF HandlesOwned, Fd
<1>6. ASSUME NEW u \in Workers, NEW v \in Workers, pc'[u] \in HandleLabels, pc'[v] \in HandleLabels,
             work'[u].fd = work'[v].fd
      PROVE  u = v
  BY <1>1, <1>2, <1>6 DEF HandlesOwned, Fd
<1> QED
  BY <1>4, <1>5, <1>6 DEF HandlesOwned, Fd

\* A worker goes on with all handles as they are.
LEMMA HandlesStay ==
  ASSUME WorkersTyped, HandlesOwned, NEW w \in Workers, NEW p, NEW r, Moves(w, p, r), oft' = oft,
         p \in HandleLabels => pc[w] \in HandleLabels /\ r.fd = Fd(w),
         p # "write"
  PROVE  HandlesOwned'
<1>1. p \in HandleLabels => oft'[r.fd] # None
  BY DEF HandlesOwned
<1> QED
  BY <1>1, HandlesMove

\* Who sleeps after a step.
Sleepers(w, p) ==
    \A v \in asleep' : v \in Workers /\ (v = w => p = "woken") /\ (v # w => v \in asleep)

\* pthread_mutex_lock and pthread_mutex_unlock keep the mutex of a box with the
\* worker whose label says so; whoever sleeps has let go of it.
LEMMA MutexesMove ==
  ASSUME WorkersTyped, MutexesOwned, NEW w \in Workers, NEW p, NEW r, Moves(w, p, r), Sleepers(w, p),
         \/ /\ mutex' = mutex
            /\ p \in LockLabels <=> pc[w] \in LockLabels
            /\ p \in LockLabels => r.slot = Slot(w)
         \/ Lock(w) /\ p \in LockLabels /\ pc[w] \notin LockLabels /\ r.slot = Slot(w) /\ Slot(w) \in Slots
         \/ Unlock(w) /\ p \notin LockLabels /\ pc[w] \in LockLabels
  PROVE  MutexesOwned'
<1>1. pc'[w] = p /\ work'[w].slot = r.slot
  BY MovesPc DEF Same
<1>2. \A v \in Workers \ {w} : pc'[v] = pc[v] /\ work'[v].slot = work[v].slot
  BY MovesPc DEF Same
<1>3. mutex' \in [Slots -> Workers \cup {None}]
  BY DEF MutexesOwned, Lock, Unlock
<1>4. asleep' \subseteq Workers /\ \A v \in asleep' : pc'[v] = "woken"
  BY <1>1, <1>2 DEF Sleepers, MutexesOwned
<1>5. ASSUME NEW v \in Workers, NEW i \in Slots
      PROVE  mutex'[i] = v <=> pc'[v] \in LockLabels /\ work'[v].slot = i
  <2>1. mutex[i] = v <=> pc[v] \in LockLabels /\ Slot(v) = i
    BY DEF MutexesOwned
  <2>2. mutex[i] = w <=> pc[w] \in LockLabels /\ Slot(w) = i
    BY DEF MutexesOwned
  <2>3. mutex \in [Slots -> Workers \cup {None}] /\ v # None /\ w # None
    BY BrokerSizes DEF MutexesOwned
  <2>4. CASE /\ mutex' = mutex
             /\ p \in LockLabels <=> pc[w] \in LockLabels
             /\ p \in LockLabels => r.slot = Slot(w)
    BY <1>1, <1>2, <2>1, <2>2, <2>4 DEF Slot
  <2>5. CASE Lock(w) /\ p \in LockLabels /\ pc[w] \notin LockLabels /\ r.slot = Slot(w) /\ Slot(w) \in Slots
    BY <1>1, <1>2, <2>1, <2>2, <2>3, <2>5 DEF Slot, Lock
  <2>6. CASE Unlock(w) /\ p \notin LockLabels /\ pc[w] \in LockLabels
    BY <1>1, <1>2, <2>1, <2>2, <2>3, <2>6 DEF Slot, Unlock
  <2> QED
    BY <2>4, <2>5, <2>6
<1> QED
  BY <1>3, <1>4, <1>5 DEF MutexesOwned, Slot

\* A step that stays inside, or outside, of its critical section leaves the
\* mutexes alone.
LEMMA MutexesStay ==
  ASSUME WorkersTyped, MutexesOwned, NEW w \in Workers, NEW p, NEW r, Moves(w, p, r), mutex' = mutex,
         asleep' \subseteq asleep, pc[w] # "woken",
         p \in LockLabels <=> pc[w] \in LockLabels,
         p \in LockLabels => r.slot = Slot(w)
  PROVE  MutexesOwned'
<1>1. Sleepers(w, p)
  BY DEF Sleepers, MutexesOwned
<1> QED
  BY <1>1, MutexesMove

-----------------------------------------------------------------------------
(* The file system *)

\* The indices of TecnicoFS 2's tables; there is one inode more than directory
\* entries.
LEMMA FsIndices ==
  /\ Inodes \subseteq Nat /\ Blocks \subseteq Nat /\ Handles \subseteq Nat
  /\ IsFiniteSet(Inodes) /\ Cardinality(Inodes) = NEntries + 1
  /\ None \notin Inodes /\ None \notin Blocks /\ None \notin Handles
  /\ DataEnd \in Nat /\ BlockSize <= DataEnd
<1>1. IsFiniteSet(Inodes) /\ Cardinality(Inodes) = NEntries + 1
  BY BrokerSizes, FS_Interval DEF Inodes
<1> QED
  BY <1>1, BrokerSizes DEF Inodes, Blocks, Handles, DataEnd

\* add_to_open_file_table finds an entry that is free, or none.
LEMMA NewHandleFree ==
  ASSUME FsTyped
  PROVE  \/ NewHandle = None
         \/ NewHandle \in Handles /\ oft[NewHandle] = None
<1>1. FreeHandles \subseteq Nat
  BY FsIndices DEF FreeHandles
<1>2. CASE FreeHandles # {}
  BY <1>1, <1>2, FirstInSet DEF NewHandle, FreeHandles
<1> QED
  BY <1>2 DEF NewHandle

\* There are more inodes than names in the directory.
LEMMA NewInodeFree == ASSUME FsTyped, InodesCounted PROVE NewInode \in Inodes \ takenI
<1> DEFINE f == [n \in NamesWithFiles |-> entry[n]]
<1>1. f \in Surjection(NamesWithFiles, takenI)
  BY Fun_IsSurj DEF InodesCounted
<1>2. IsFiniteSet(takenI) /\ Cardinality(takenI) <= Cardinality(NamesWithFiles)
  <2> HIDE DEF f
  <2> QED BY <1>1, FS_Surjection DEF InodesCounted
<1>3. Cardinality(takenI) <= NEntries
  BY <1>2, FS_CardinalityType, BrokerSizes DEF InodesCounted
<1>4. Inodes \ takenI # {}
  <2> SUFFICES ASSUME Inodes \subseteq takenI PROVE FALSE
    OBVIOUS
  <2>1. Cardinality(Inodes) <= Cardinality(takenI)
    BY <1>2, FS_Subset
  <2> QED
    BY <2>1, <1>2, <1>3, FsIndices, FS_CardinalityType, BrokerSizes
<1> QED
  BY <1>4, FsIndices, FirstInSet DEF NewInode

OpenFile(i, off) == [inum |-> i, off |-> off]

\* A name in the directory has an inode.
LEMMA EntryTyped == ASSUME FsTyped, NEW n \in Boxes, Exists(n) PROVE entry[n] \in Inodes
  BY DEF FsTyped, Exists

\* What an inode says of its file.
LEMMA NodeTyped ==
  ASSUME FsTyped, NEW i \in Inodes
  PROVE  node[i].size \in 0 .. BlockSize /\ node[i].block \in Blocks \cup {None}
  BY DEF FsTyped

\* What an open handle says of its file.
LEMMA HandleTyped ==
  ASSUME FsTyped, NEW d \in Handles, oft[d] # None
  PROVE  /\ oft[d] = OpenFile(oft[d].inum, oft[d].off)
         /\ oft[d].inum \in Inodes /\ oft[d].off \in 0 .. DataEnd
<1>1. oft[d] \in [inum : Inodes, off : 0 .. DataEnd]
  BY DEF FsTyped
<1> QED
  BY <1>1 DEF OpenFile

\* None is not an entry of the table of open files.
LEMMA OpenFileIs ==
  ASSUME NEW i \in Inodes, NEW off \in 0 .. DataEnd
  PROVE  /\ OpenFile(i, off) \in [inum : Inodes, off : 0 .. DataEnd]
         /\ OpenFile(i, off) # None
         /\ OpenFile(i, off).inum = i /\ OpenFile(i, off).off = off
<1>1. OpenFile(i, off) \in [inum : Nat, off : Nat]
  BY FsIndices DEF OpenFile
<1> QED
  BY <1>1, BoxFsAssumption DEF OpenFile

\* add_to_open_file_table puts the inode and the offset in a free entry and
\* changes no other.
LEMMA AddHandleTyped ==
  ASSUME FsTyped, NEW i \in Inodes, NEW off \in 0 .. DataEnd, AddHandle(i, off)
  PROVE  /\ oft' \in [Handles -> [inum : Inodes, off : 0 .. DataEnd] \cup {None}]
         /\ NewHandle = None => oft' = oft
         /\ NewHandle # None => oft' = [oft EXCEPT ![NewHandle] = OpenFile(i, off)]
<1>1. OpenFile(i, off) \in [inum : Inodes, off : 0 .. DataEnd]
  BY OpenFileIs
<1>2. oft' = IF NewHandle = None THEN oft ELSE [oft EXCEPT ![NewHandle] = OpenFile(i, off)]
  BY DEF AddHandle, OpenFile
<1>3. oft \in [Handles -> [inum : Inodes, off : 0 .. DataEnd] \cup {None}]
  BY DEF FsTyped
<1> QED
  BY <1>1, <1>2, <1>3

\* A file that tfs_open makes has an inode that no other file has.
LEMMA CreatedCounted ==
  ASSUME FsTyped, InodesCounted, NEW n \in Boxes, ~Exists(n), ~FullDirectory,
         NEW i \in Inodes \ takenI, entry' = [entry EXCEPT ![n] = i], takenI' = takenI \cup {i}
  PROVE  InodesCounted'
<1>1. NamesWithFiles' = NamesWithFiles \cup {n}
  BY FsIndices DEF NamesWithFiles, Exists, FsTyped
<1>2. \A m \in NamesWithFiles : entry'[m] = entry[m] /\ entry[m] \in takenI
  BY DEF NamesWithFiles, Exists, FsTyped, InodesCounted
<1>3. entry'[n] = i
  BY DEF FsTyped
<1>4. takenI' = {entry'[m] : m \in NamesWithFiles'}
  BY <1>1, <1>2, <1>3 DEF InodesCounted
<1>5. \A l, m \in NamesWithFiles' : entry'[l] = entry'[m] => l = m
  BY <1>1, <1>2, <1>3 DEF InodesCounted
<1>6. n \notin NamesWithFiles /\ Cardinality(NamesWithFiles) # NEntries
  BY DEF NamesWithFiles, FullDirectory
<1>7. IsFiniteSet(NamesWithFiles \cup {n}) /\ Cardinality(NamesWithFiles \cup {n}) <= NEntries
  <2>1. IsFiniteSet(NamesWithFiles) /\ Cardinality(NamesWithFiles) <= NEntries
    BY DEF InodesCounted
  <2>2. Cardinality(NamesWithFiles) \in Nat
    BY <2>1, FS_CardinalityType
  <2>3. /\ IsFiniteSet(NamesWithFiles \cup {n})
        /\ Cardinality(NamesWithFiles \cup {n}) = Cardinality(NamesWithFiles) + 1
    BY <1>6, <2>1, FS_AddElement
  <2> QED
    BY <1>6, <2>1, <2>2, <2>3, BrokerSizes
<1> QED
  BY <1>1, <1>4, <1>5, <1>7 DEF InodesCounted

\* tfs_open keeps the tables consistent; it gives out a handle that was free,
\* with the offset its mode asks for, or none.
LEMMA OpenFs ==
  ASSUME FsTyped, InodesCounted, NEW n \in Boxes, NEW mode, TfsOpen(n, mode)
  PROVE  /\ FsTyped' /\ InodesCounted'
         /\ OpenResult(n, mode) = None => oft' = oft
         /\ OpenResult(n, mode) # None =>
              /\ OpenResult(n, mode) \in Handles /\ oft[OpenResult(n, mode)] = None
              /\ entry'[n] \in Inodes
              /\ oft' = [oft EXCEPT ![OpenResult(n, mode)] =
                           OpenFile(entry'[n], IF Exists(n) /\ mode = "APPEND" THEN FileSize(n) ELSE 0)]
<1> DEFINE d == OpenResult(n, mode)
<1>1. d = None \/ (d \in Handles /\ oft[d] = None)
  BY NewHandleFree DEF OpenResult
<1>2. CASE Exists(n)
  <2> DEFINE off == IF mode = "APPEND" THEN FileSize(n) ELSE 0
  <2>1. entry[n] \in Inodes
    BY <1>2, EntryTyped
  <2>2. off \in 0 .. DataEnd
    <3>1. FileSize(n) \in 0 .. BlockSize
      BY <2>1, NodeTyped DEF FileSize
    <3>2. FileSize(n) \in 0 .. DataEnd /\ 0 \in 0 .. DataEnd
      BY <3>1, FsIndices, BrokerSizes
    <3> QED
      BY <3>2
  <2>3. AddHandle(entry[n], off) /\ UNCHANGED <<entry, takenI, takenB, node, data>>
    BY <1>2 DEF TfsOpen, FileSize
  <2>4. d = NewHandle
    BY <1>2 DEF OpenResult
  <2> HIDE DEF d, off
  <2>5. /\ oft' \in [Handles -> [inum : Inodes, off : 0 .. DataEnd] \cup {None}]
        /\ d = None => oft' = oft
        /\ d # None => oft' = [oft EXCEPT ![d] = OpenFile(entry[n], off)]
    BY <2>1, <2>2, <2>3, <2>4, AddHandleTyped
  <2>6. FsTyped' /\ InodesCounted'
    BY <2>3, <2>5 DEF FsTyped, InodesCounted, NamesWithFiles, Exists
  <2> QED
    BY <1>1, <1>2, <2>1, <2>3, <2>5, <2>6 DEF d, off
<1>3. CASE ~Exists(n) /\ mode # "CREAT"
  <2>1. UNCHANGED fsVars
    BY <1>3 DEF TfsOpen, fsVars
  <2>2. d = None
    BY <1>3 DEF OpenResult
  <2>3. FsTyped' /\ InodesCounted'
    BY <2>1 DEF FsTyped, InodesCounted, NamesWithFiles, Exists, fsVars
  <2> QED
    BY <2>1, <2>2, <2>3 DEF fsVars
<1>4. CASE ~Exists(n) /\ mode = "CREAT"
  <2> DEFINE i == NewInode
  <2>0. i \in Inodes \ takenI
    BY NewInodeFree
  <2>1. UNCHANGED <<takenB, data>> /\ node' = [node EXCEPT ![i] = EmptyFile]
    BY <1>4 DEF TfsOpen
  <2>2. EmptyFile \in [size : 0 .. BlockSize, block : Blocks \cup {None}]
    BY BrokerSizes DEF EmptyFile
  <2>3. node' \in [Inodes -> [size : 0 .. BlockSize, block : Blocks \cup {None}]]
    BY <2>1, <2>2 DEF FsTyped
  <2>4. CASE ~FullDirectory
    <3>1. entry' = [entry EXCEPT ![n] = i] /\ takenI' = takenI \cup {i} /\ AddHandle(i, 0)
      BY <1>4, <2>4 DEF TfsOpen
    <3>2. d = NewHandle
      BY <1>4, <2>4 DEF OpenResult
    <3> HIDE DEF i
    <3>3. 0 \in 0 .. DataEnd
      BY FsIndices
    <3> HIDE DEF d
    <3>4. /\ oft' \in [Handles -> [inum : Inodes, off : 0 .. DataEnd] \cup {None}]
          /\ d = None => oft' = oft
          /\ d # None => oft' = [oft EXCEPT ![d] = OpenFile(i, 0)]
      BY <2>0, <3>1, <3>2, <3>3, AddHandleTyped
    <3>5. InodesCounted'
      BY <1>4, <2>0, <2>4, <3>1, CreatedCounted
    <3>6. FsTyped'
      BY <2>0, <2>1, <2>3, <3>1, <3>4 DEF FsTyped
    <3>7. entry'[n] = i
      BY <3>1 DEF FsTyped
    <3> QED
      BY <1>1, <1>4, <2>0, <3>4, <3>5, <3>6, <3>7 DEF d
  <2>5. CASE FullDirectory
    <3>1. UNCHANGED <<entry, takenI, oft>>
      BY <1>4, <2>5 DEF TfsOpen
    <3>2. d = None
      BY <1>4, <2>5 DEF OpenResult
    <3>3. FsTyped' /\ InodesCounted'
      BY <2>1, <2>3, <3>1 DEF FsTyped, InodesCounted, NamesWithFiles, Exists
    <3> QED
      BY <3>1, <3>2, <3>3
  <2> QED
    BY <2>4, <2>5
<1> QED
  BY <1>2, <1>3, <1>4

\* tfs_close keeps the tables consistent.
LEMMA CloseFs ==
  ASSUME FsTyped, InodesCounted, NEW d \in Handles, TfsClose(d)
  PROVE  FsTyped' /\ InodesCounted'
<1>1. oft' \in [Handles -> [inum : Inodes, off : 0 .. DataEnd] \cup {None}]
  BY DEF TfsClose, FsTyped
<1> QED
  BY <1>1 DEF TfsClose, FsTyped, InodesCounted, NamesWithFiles, Exists

\* tfs_unlink takes one name away and leaves every other its inode.
LEMMA UnlinkFs ==
  ASSUME FsTyped, InodesCounted, NEW n \in Boxes, Exists(n), TfsUnlink(n)
  PROVE  /\ FsTyped' /\ InodesCounted'
         /\ NamesWithFiles' = NamesWithFiles \ {n}
         /\ \A m \in NamesWithFiles' : entry'[m] = entry[m]
<1>1. entry' = [entry EXCEPT ![n] = None] /\ takenI' = takenI \ {entry[n]} /\ UNCHANGED <<node, oft, data>>
  BY DEF TfsUnlink
<1>2. takenB' \subseteq takenB
  BY DEF TfsUnlink
<1>3. FsTyped'
  BY <1>1, <1>2 DEF FsTyped
<1>4. NamesWithFiles' = NamesWithFiles \ {n}
  BY <1>1 DEF FsTyped, NamesWithFiles, Exists
<1>5. \A m \in NamesWithFiles' : entry'[m] = entry[m]
  BY <1>1, <1>4 DEF FsTyped, NamesWithFiles
<1>6. n \in NamesWithFiles
  BY DEF NamesWithFiles
<1>7. takenI' = {entry'[m] : m \in NamesWithFiles'}
  BY <1>1, <1>4, <1>5, <1>6 DEF InodesCounted
<1>8. \A l, m \in NamesWithFiles' : entry'[l] = entry'[m] => l = m
  BY <1>4, <1>5 DEF InodesCounted
<1>9. IsFiniteSet(NamesWithFiles') /\ Cardinality(NamesWithFiles') <= NEntries
  BY <1>4, FS_Subset, FS_CardinalityType, BrokerSizes DEF InodesCounted
<1> QED
  BY <1>3, <1>4, <1>5, <1>7, <1>8, <1>9 DEF InodesCounted

\* First(S) is the least element of S, as a search from the beginning of a
\* table finds it.
LEMMA FirstIsLeast == ASSUME NEW S \in SUBSET Nat, S # {} PROVE First(S) \in S /\ \A y \in S : First(S) <= y
  BY LeastNumber DEF First

\* A place in a block holds a character or a separator.
LEMMA CellTyped == ASSUME FsTyped, NEW b, NEW k PROVE Cell(b, k) \in Chars \cup {Nul}
  BY DEF FsTyped, Cell

\* Moving the offset of an open handle.
LEMMA OffsetMoved ==
  ASSUME FsTyped, NEW d \in Handles, oft[d] # None, NEW x \in 0 .. DataEnd, oft' = [oft EXCEPT ![d].off = x]
  PROVE  /\ oft' = [oft EXCEPT ![d] = OpenFile(oft[d].inum, x)]
         /\ oft' \in [Handles -> [inum : Inodes, off : 0 .. DataEnd] \cup {None}]
         /\ oft'[d] = OpenFile(oft[d].inum, x) /\ oft'[d] # None
         /\ \A e \in Handles \ {d} : oft'[e] = oft[e]
<1>1. oft[d] = OpenFile(oft[d].inum, oft[d].off) /\ oft[d].inum \in Inodes
  BY HandleTyped
<1>2. ASSUME NEW i, NEW o PROVE [OpenFile(i, o) EXCEPT !.off = x] = OpenFile(i, x)
  BY DEF OpenFile
<1>3. [oft[d] EXCEPT !.off = x] = OpenFile(oft[d].inum, x)
  BY <1>1, <1>2
<1>4. oft' = [oft EXCEPT ![d] = OpenFile(oft[d].inum, x)]
  BY <1>3
<1>5. /\ OpenFile(oft[d].inum, x) \in [inum : Inodes, off : 0 .. DataEnd]
      /\ OpenFile(oft[d].inum, x) # None
  BY <1>1, OpenFileIs
<1>6. oft \in [Handles -> [inum : Inodes, off : 0 .. DataEnd] \cup {None}]
  BY DEF FsTyped
<1>7. oft' \in [Handles -> [inum : Inodes, off : 0 .. DataEnd] \cup {None}]
  BY <1>4, <1>5, <1>6
<1> QED
  BY <1>4, <1>5, <1>6, <1>7

\* tfs_write writes at most what it was given, up to the end of the block, and
\* only with a block to write to.
LEMMA WriteCounted ==
  ASSUME FsTyped, NEW d \in Handles, oft[d] # None, oft[d].off <= BlockSize, NEW cells \in Seq(Chars \cup {Nul})
  PROVE  LET n == WriteResult(d, cells)
         IN /\ n \in Nat \cup {-1}
            /\ n > 0 => /\ n <= Len(cells) /\ oft[d].off + n <= BlockSize
                        /\ NeedsBlock(d) => FreeBlocks # {}
<1> DEFINE len == Len(cells)
           off == oft[d].off
           n == WriteCount(len, off)
<1>1. off \in Nat /\ off <= BlockSize /\ len \in Nat
  BY HandleTyped, FsIndices
<1> HIDE DEF len, off
<1>2. n \in Nat /\ n <= len /\ off + n <= BlockSize
  BY <1>1, BrokerSizes DEF WriteCount, Min2
<1>3. WriteResult(d, cells) = IF n > 0 /\ NeedsBlock(d) /\ FreeBlocks = {} THEN -1 ELSE n
  BY DEF WriteResult, len, off
<1> QED
  BY <1>1, <1>2, <1>3 DEF len, off

\* tfs_write keeps the tables consistent, changes no name, and nothing at all
\* when it fails.
LEMMA WriteFs ==
  ASSUME FsTyped, InodesCounted, NEW d \in Handles, oft[d] # None, oft[d].off <= BlockSize,
         NEW cells \in Seq(Chars \cup {Nul}), TfsWrite(d, cells)
  PROVE  LET n == WriteResult(d, cells)
             i == oft[d].inum
             block == IF NeedsBlock(d) THEN First(FreeBlocks) ELSE node[i].block
         IN /\ FsTyped' /\ InodesCounted' /\ entry' = entry /\ takenI' = takenI
            /\ n \in Nat \cup {-1}
            /\ ~(n > 0) => UNCHANGED fsVars
            /\ n > 0 =>
                 /\ i \in Inodes /\ oft[d].off \in Nat
                 /\ oft[d].off + n \in 0 .. BlockSize
                 /\ oft' = [oft EXCEPT ![d] = OpenFile(i, oft[d].off + n)] /\ oft'[d] # None
                 /\ \A e \in Handles \ {d} : oft'[e] = oft[e]
                 /\ \A j \in Inodes \ {i} : node'[j] = node[j]
                 /\ node'[i].size = IF oft[d].off + n > node[i].size THEN oft[d].off + n ELSE node[i].size
                 /\ node'[i].block = block
                 /\ NeedsBlock(d) => block \in FreeBlocks
                 /\ takenB' = IF NeedsBlock(d) THEN takenB \cup {block} ELSE takenB
<1> DEFINE n == WriteResult(d, cells)
           i == oft[d].inum
           off == oft[d].off
           block == IF NeedsBlock(d) THEN First(FreeBlocks) ELSE node[i].block
           size == IF off + n > node[i].size THEN off + n ELSE node[i].size
<1>1. /\ n \in Nat \cup {-1}
      /\ n > 0 => n <= Len(cells) /\ off + n <= BlockSize /\ (NeedsBlock(d) => FreeBlocks # {})
  BY WriteCounted
<1>2. i \in Inodes /\ off \in Nat
  BY HandleTyped, FsIndices
<1>3. node[i].size \in 0 .. BlockSize /\ node[i].block \in Blocks \cup {None}
  BY <1>2, NodeTyped
<1>4. entry' = entry /\ takenI' = takenI
  BY DEF TfsWrite
<1>5. InodesCounted'
  BY <1>4 DEF InodesCounted, NamesWithFiles, Exists
<1>6. CASE ~(n > 0)
  <2>1. UNCHANGED fsVars
    BY <1>1, <1>4, <1>6 DEF TfsWrite, fsVars
  <2>2. FsTyped'
    BY <2>1 DEF FsTyped, fsVars
  <2> QED
    BY <1>1, <1>4, <1>5, <1>6, <2>1, <2>2
<1>7. CASE n > 0
  <2>1. NeedsBlock(d) => block \in FreeBlocks
    <3>1. FreeBlocks \subseteq Nat
      BY FsIndices DEF FreeBlocks
    <3> QED
      BY <1>1, <1>7, <3>1, FirstInSet
  <2>2. block \in Blocks \cup {None}
    BY <1>3, <2>1 DEF FreeBlocks
  <2>3. /\ takenB' = IF NeedsBlock(d) THEN takenB \cup {block} ELSE takenB
        /\ node' = [node EXCEPT ![i] = [size |-> IF off + n > @.size THEN off + n ELSE @.size, block |-> block]]
        /\ oft' = [oft EXCEPT ![d].off = off + n]
    BY <1>1, <1>7 DEF TfsWrite
  <2>4. data' = [a \in DOMAIN data |->
                   LET k == a - Address(block, off) IN IF k \in 0 .. n - 1 THEN cells[k + 1] ELSE data[a]]
    <3>1. ~(n <= 0)
      BY <1>1, <1>7
    <3> QED
      BY <3>1, Zenon DEF TfsWrite
  <2> HIDE DEF n, i, off, block
  <2>5. off + n \in 0 .. BlockSize /\ size \in 0 .. BlockSize /\ off + n \in 0 .. DataEnd
    BY <1>1, <1>2, <1>3, <1>7, BrokerSizes, FsIndices
  <2>6. node' = [node EXCEPT ![i] = [size |-> size, block |-> block]]
    BY <2>3
  <2> HIDE DEF size
  <2>7. /\ node' \in [Inodes -> [size : 0 .. BlockSize, block : Blocks \cup {None}]]
        /\ node'[i].size = size /\ node'[i].block = block
        /\ \A j \in Inodes \ {i} : node'[j] = node[j]
    <3>1. [size |-> size, block |-> block] \in [size : 0 .. BlockSize, block : Blocks \cup {None}]
      BY <2>2, <2>5
    <3> QED
      BY <1>2, <2>6, <3>1 DEF FsTyped
  <2>8. /\ oft' = [oft EXCEPT ![d] = OpenFile(i, off + n)] /\ oft'[d] # None
        /\ oft' \in [Handles -> [inum : Inodes, off : 0 .. DataEnd] \cup {None}]
        /\ \A e \in Handles \ {d} : oft'[e] = oft[e]
    BY <2>3, <2>5, OffsetMoved DEF i
  <2>9. data' \in [0 .. DataEnd - 1 -> Chars \cup {Nul}]
    <3>1. data \in [0 .. DataEnd - 1 -> Chars \cup {Nul}]
      BY DEF FsTyped
    <3>2. ASSUME NEW k \in 0 .. n - 1 PROVE cells[k + 1] \in Chars \cup {Nul}
      <4>1. k + 1 \in 1 .. Len(cells)
        BY <1>1, <1>7
      <4> QED
        BY <4>1
    <3> QED
      BY <2>4, <3>1, <3>2
  <2>10. takenB' \subseteq Blocks
    BY <2>1, <2>3 DEF FsTyped, FreeBlocks
  <2>11. FsTyped'
    BY <1>4, <2>7, <2>8, <2>9, <2>10 DEF FsTyped
  <2> QED
    BY <1>1, <1>2, <1>4, <1>5, <1>7, <2>1, <2>3, <2>5, <2>7, <2>8, <2>11 DEF n, i, off, block, size
<1> QED
  BY <1>6, <1>7

\* The message that is read has no separators.
LEMMA ReadTyped ==
  ASSUME FsTyped, NEW d \in Handles, oft[d] # None
  PROVE  ReadResult(d) \in Seq(Chars)
<1> DEFINE b == node[oft[d].inum].block
           start == ReadStart(b, oft[d].off)
           ends == {k \in 0 .. ToRead(d) - 1 : Cell(b, start + k) = Nul}
           n == IF ends = {} THEN ToRead(d) ELSE First(ends)
<1>1. ToRead(d) \in Nat
  <2>1. node[oft[d].inum].size \in Int /\ oft[d].off \in Int
    BY HandleTyped, NodeTyped
  <2>2. (node[oft[d].inum].size - oft[d].off) % Word \in Nat
    BY <2>1, BrokerSizes
  <2> QED
    BY <2>2, BrokerSizes DEF ToRead, Min2
<1>2. start \in Nat
  BY HandleTyped DEF ReadStart
<1>3. n \in Nat /\ n <= ToRead(d) /\ \A k \in ends : k >= n
  <2>1. CASE ends = {}
    BY <1>1, <2>1
  <2>2. CASE ends # {}
    BY <1>1, <2>2, FirstIsLeast
  <2> QED
    BY <2>1, <2>2
<1>4. ReadResult(d) = [k \in 1 .. n |-> Cell(b, start + k - 1)]
  BY DEF ReadResult
<1>5. ASSUME NEW k \in 1 .. n PROVE Cell(b, start + k - 1) \in Chars
  <2>1. k - 1 \in 0 .. ToRead(d) - 1 /\ ~(k - 1 >= n)
    BY <1>1, <1>3
  <2>2. Cell(b, start + (k - 1)) # Nul
    BY <1>3, <2>1
  <2>3. start + (k - 1) = start + k - 1
    BY <1>2, <1>3
  <2> QED
    BY <2>2, <2>3, CellTyped
<1> HIDE DEF n
<1>6. [k \in 1 .. n |-> Cell(b, start + k - 1)] \in Seq(Chars)
  BY <1>3, <1>5
<1> QED
  BY <1>4, <1>6

\* tfs_read changes nothing but the offset of its handle, and that stays within
\* the data.
LEMMA ReadFs ==
  ASSUME FsTyped, InodesCounted, NEW d \in Handles, oft[d] # None, TfsRead(d)
  PROVE  /\ FsTyped' /\ InodesCounted' /\ UNCHANGED <<entry, takenI, takenB, node, data>>
         /\ oft'[d] # None /\ oft'[d].inum = oft[d].inum
         /\ \A e \in Handles \ {d} : oft'[e] = oft[e]
<1> DEFINE x == Min2(ReadEnd(d), DataEnd)
<1>1. UNCHANGED <<entry, takenI, takenB, node, data>>
  BY DEF TfsRead
<1>2. InodesCounted'
  BY <1>1 DEF InodesCounted, NamesWithFiles, Exists
<1>3. CASE ToRead(d) = 0
  <2>1. oft' = oft
    BY <1>3 DEF TfsRead
  <2>2. FsTyped'
    BY <1>1, <2>1 DEF FsTyped
  <2> QED
    BY <1>1, <1>2, <2>1, <2>2
<1>4. CASE ToRead(d) # 0
  <2>1. oft' = [oft EXCEPT ![d].off = x]
    BY <1>4 DEF TfsRead
  <2>2. oft[d].off \in Nat /\ oft[d].inum \in Inodes
    BY HandleTyped, FsIndices
  <2>3. ReadStart(node[oft[d].inum].block, oft[d].off) \in Nat
    BY <2>2 DEF ReadStart
  <2>4. Len(ReadResult(d)) \in Nat
    BY ReadTyped
  <2>5. x \in 0 .. DataEnd
    BY <2>3, <2>4, FsIndices DEF ReadEnd, Min2
  <2> HIDE DEF x
  <2>6. /\ oft' \in [Handles -> [inum : Inodes, off : 0 .. DataEnd] \cup {None}]
        /\ oft'[d] = OpenFile(oft[d].inum, x) /\ oft'[d] # None
        /\ \A e \in Handles \ {d} : oft'[e] = oft[e]
    BY <2>1, <2>5, OffsetMoved
  <2>7. FsTyped'
    BY <1>1, <2>6 DEF FsTyped
  <2>8. OpenFile(oft[d].inum, x).inum = oft[d].inum
    BY DEF OpenFile
  <2> QED
    BY <1>1, <1>2, <2>6, <2>7, <2>8
<1> QED
  BY <1>3, <1>4

-----------------------------------------------------------------------------
(* The box table *)

SubEntries == {"none", "index", "open", "left", "dead"}
BoxRecords == [free : BOOLEAN, name : Boxes \cup {None}, size : Nat, pubs : Nat,
               nsubs : 0 .. Word - 1, subs : [Workers -> SubEntries]]

BoxRecord(f, n, s, p, m, e) == [free |-> f, name |-> n, size |-> s, pubs |-> p, nsubs |-> m, subs |-> e]

\* The fields of an entry of the box table.
LEMMA BoxIs ==
  ASSUME NEW b \in BoxRecords
  PROVE  /\ b = BoxRecord(b.free, b.name, b.size, b.pubs, b.nsubs, b.subs)
         /\ b.free \in BOOLEAN /\ b.name \in Boxes \cup {None} /\ b.size \in Nat /\ b.pubs \in Nat
         /\ b.nsubs \in 0 .. Word - 1 /\ b.subs \in [Workers -> SubEntries]
  BY DEF BoxRecords, BoxRecord

\* An entry of the box table built from fields with their types has its type.
LEMMA BoxRecordTyped ==
  ASSUME NEW f \in BOOLEAN, NEW n \in Boxes \cup {None}, NEW s \in Nat, NEW p \in Nat,
         NEW m \in 0 .. Word - 1, NEW e \in [Workers -> SubEntries]
  PROVE  BoxRecord(f, n, s, p, m, e) \in BoxRecords
  BY DEF BoxRecords, BoxRecord

\* The fields of an entry after init_box_system or remove_box.
LEMMA FreeBoxIs ==
  /\ FreeBox = BoxRecord(TRUE, None, 0, 0, 0, [w \in Workers |-> "none"])
  /\ [w \in Workers |-> "none"] \in [Workers -> SubEntries]
  /\ 0 \in 0 .. Word - 1
<1>1. FreeBox = BoxRecord(TRUE, None, 0, 0, 0, [w \in Workers |-> "none"])
  BY DEF FreeBox, BoxRecord
<1> QED
  BY <1>1, BrokerSizes DEF SubEntries

\* The box table is a function from slots to entries.
LEMMA TableIs ==
  /\ TableTyped <=> table \in [Slots -> BoxRecords]
  /\ TableTyped' <=> table' \in [Slots -> BoxRecords]
<1>1. BoxRecords = [free : BOOLEAN, name : Boxes \cup {None}, size : Nat, pubs : Nat,
                    nsubs : 0 .. Word - 1,
                    subs : [Workers -> {"none", "index", "open", "left", "dead"}]]
  BY DEF BoxRecords, SubEntries
<1> QED
  BY <1>1 DEF TableTyped

\* Update changes one slot of the box table.
LEMMA UpdateTyped ==
  ASSUME TableTyped, NEW i \in Slots, NEW rec \in BoxRecords, Update(i, rec)
  PROVE  /\ TableTyped' /\ table'[i] = rec
         /\ \A j \in Slots \ {i} : table'[j] = table[j]
<1>1. table \in [Slots -> BoxRecords]
  BY TableIs
<1>2. table' = [table EXCEPT ![i] = rec]
  BY DEF Update
<1>3. table' \in [Slots -> BoxRecords]
  BY <1>1, <1>2
<1> QED
  BY <1>1, <1>2, <1>3, TableIs

-----------------------------------------------------------------------------
(* Types are kept: steps that leave the file system alone *)

\* What is known of one worker.
LEMMA WorkerTyped ==
  ASSUME WorkersTyped, NEW w \in Workers
  PROVE  /\ IsWork(work[w]) /\ LocalsTyped(pc[w], work[w]) /\ pc[w] \in Labels
         /\ got \in [Workers -> Seq(Seq(Chars))] /\ crashed \in BOOLEAN
  BY DEF WorkersTyped

\* A step that does not call TecnicoFS keeps its tables.
LEMMA FsStays == ASSUME Typed, UNCHANGED fsVars PROVE FsTyped' /\ InodesCounted'
  BY DEF Typed, FsTyped, InodesCounted, NamesWithFiles, Exists, fsVars

\* A step that leaves the request queue alone keeps its type.
LEMMA QueueStays == ASSUME Typed, UNCHANGED <<bqVars, envVars>> PROVE QueueTyped'
  BY DEF Typed, QueueTyped, bqVars, envVars

\* A step that leaves the box table alone keeps its type.
LEMMA TableStays == ASSUME Typed, UNCHANGED table PROVE TableTyped'
  BY DEF Typed, TableTyped

\* A step that leaves TecnicoFS, the box table and its mutexes alone does all
\* that the following lemmas ask of it.
LEMMA BoxesStay ==
  ASSUME Typed, UNCHANGED <<fsVars, boxVars>>
  PROVE  UNCHANGED <<fsVars, mutex>> /\ mutex' = mutex /\ asleep' \subseteq asleep /\ TableTyped'
  BY TableStays DEF boxVars

Plain == Labels \ (HandleLabels \cup LockLabels)

\* w goes to a place where it has neither handle nor mutex, and had no mutex.
LEMMA PlainTyped ==
  ASSUME Typed, NEW w \in Workers, NEW p \in Plain, NEW r, Moves(w, p, r), LocalsTyped(p, r),
         UNCHANGED <<fsVars, mutex>>, asleep' \subseteq asleep, TableTyped', QueueTyped',
         pc[w] \notin LockLabels, pc[w] # "woken",
         got' \in [Workers -> Seq(Seq(Chars))], crashed' = crashed
  PROVE  Typed'
<1>1. /\ FsTyped /\ WorkersTyped /\ InodesCounted /\ HandlesOwned /\ MutexesOwned
      /\ oft' = oft /\ mutex' = mutex
  BY DEF Typed, fsVars
<1>2. p \in Labels /\ p \notin HandleLabels /\ p \notin LockLabels /\ p # "write"
  BY DEF Plain, HandleLabels
<1>3. WorkersTyped'
  BY <1>1, <1>2, MovesTyped DEF WorkersTyped
<1>4. HandlesOwned'
  BY <1>1, <1>2, HandlesStay
<1>5. MutexesOwned'
  BY <1>1, <1>2, MutexesStay
<1> QED
  BY <1>3, <1>4, <1>5, FsStays DEF Typed

\* A worker goes on to a label outside of every critical section, without a
\* handle.
LEMMA GotoTyped ==
  ASSUME Typed, NEW w \in Workers, NEW l \in Plain, NEW rec, IsWork(rec), Goto(w, l, rec), LocalsTyped(l, rec),
         UNCHANGED <<fsVars, mutex>>, asleep' \subseteq asleep, TableTyped', pc[w] \notin LockLabels, pc[w] # "woken"
  PROVE  Typed'
<1>1. Moves(w, l, rec) /\ UNCHANGED <<bqVars, envVars, got, crashed>>
  BY GotoMoves DEF Typed
<1>2. QueueTyped' /\ got' \in [Workers -> Seq(Seq(Chars))]
  BY <1>1, QueueStays DEF Typed, WorkersTyped
<1> QED
  BY <1>1, <1>2, PlainTyped

\* A worker outside of every critical section is done.
LEMMA DoneTyped ==
  ASSUME Typed, NEW w \in Workers, Done(w),
         UNCHANGED <<fsVars, mutex>>, asleep' \subseteq asleep, TableTyped', pc[w] \notin LockLabels, pc[w] # "woken"
  PROVE  Typed'
<1>1. /\ Moves(w, "idle", NoWork) /\ UNCHANGED <<bqVars, envVars, crashed>>
      /\ got' \in [Workers -> Seq(Seq(Chars))]
  BY DoneMoves DEF Typed
<1>2. "idle" \in Plain /\ LocalsTyped("idle", NoWork)
  BY DEF Plain, Labels, HandleLabels, LockLabels, PubLabels, SubLabels, LocalsTyped, BoxLabels, SlotLabels
<1>3. QueueTyped'
  BY <1>1, QueueStays
<1> QED
  BY <1>1, <1>2, <1>3, PlainTyped

\* A worker outside of every critical section answers.
LEMMA AnswerTyped ==
  ASSUME Typed, NEW w \in Workers, NEW x, Answer(w, x),
         UNCHANGED <<fsVars, mutex>>, asleep' \subseteq asleep, TableTyped', pc[w] \notin LockLabels, pc[w] # "woken"
  PROVE  Typed'
<1>1. PICK rec : Moves(w, "reply", rec)
  BY AnswerMoves DEF Typed
<1>2. UNCHANGED <<bqVars, envVars, got, crashed>>
  BY AnswerMoves DEF Typed
<1>3. "reply" \in Plain /\ LocalsTyped("reply", rec)
  BY DEF Plain, Labels, Handling, HandleLabels, LockLabels, PubLabels, SubLabels, LocalsTyped, BoxLabels, SlotLabels
<1>4. QueueTyped' /\ got' \in [Workers -> Seq(Seq(Chars))]
  BY <1>2, QueueStays DEF Typed, WorkersTyped
<1> QED
  BY <1>1, <1>2, <1>3, <1>4, PlainTyped

\* A session that could not open its client's pipe ends.
LEMMA GiveUpTyped ==
  ASSUME Typed, NEW w \in Workers, GiveUp(w), pc[w] \notin LockLabels, pc[w] # "woken"
  PROVE  Typed'
<1>1. UNCHANGED <<fsVars, mutex, asleep>> /\ TableTyped'
  BY TableStays DEF GiveUp, boxVars
<1> QED
  BY <1>1, DoneTyped DEF GiveUp

\* w goes on, and nothing but its locals changes.
LEMMA WalkTyped ==
  ASSUME Typed, NEW w \in Workers, NEW l \in Plain, NEW rec, IsWork(rec), Goto(w, l, rec), LocalsTyped(l, rec),
         UNCHANGED <<fsVars, boxVars>>, pc[w] \notin LockLabels, pc[w] # "woken"
  PROVE  Typed'
<1>1. UNCHANGED <<fsVars, mutex, asleep>> /\ TableTyped'
  BY TableStays DEF boxVars
<1> QED
  BY <1>1, GotoTyped

\* Where a worker is, spelled out.
LEMMA PlainLabels ==
  /\ {"idle", "slot", "create", "name", "reset", "busy", "unlink", "clear", "hangup", "wake", "check", "count", "read",
      "enter", "reply", "deny", "lookup", "listCount", "listNext", "listLast", "listCopy", "listSend", "subPipe",
      "open", "leave", "uncount", "pubPipe", "receive", "pubLock", "announce", "release"} \subseteq Plain
  /\ \A l \in Plain : l \notin LockLabels /\ l # "woken"
  BY DEF Plain, Labels, Handling, PubLabels, SubLabels, HandleLabels, LockLabels

\* A worker at a place that l names has the locals that belong there.
LEMMA AtTyped ==
  ASSUME Typed, NEW w \in Workers, NEW l, At(w, l)
  PROVE  IsWork(work[w]) /\ LocalsTyped(l, work[w]) /\ pc[w] = l /\ WorkersTyped
  BY WorkerTyped DEF Typed, At

\* A handler looks its box up by name (get_box): the types stay.
LEMMA LookupTyped == ASSUME Typed, NEW w \in Workers, LookupBox(w) PROVE Typed'
<1> DEFINE i == GetBox(Box(w))
           rec == [work[w] EXCEPT !.slot = i]
<1>1. IsWork(work[w]) /\ LocalsTyped("lookup", work[w]) /\ pc[w] = "lookup"
  BY AtTyped DEF LookupBox
<1>2. UNCHANGED <<fsVars, boxVars>>
  BY DEF LookupBox
<1>3. i = None \/ i \in Slots
  <2>1. {j \in Slots : ~table[j].free /\ table[j].name = Box(w)} \in SUBSET Nat
    BY DEF Slots
  <2> QED
    BY <2>1, FirstInSet DEF GetBox
<1>4. \/ Answer(w, -1)
      \/ Jump(w, "slot") \/ Jump(w, "deny")
      \/ i # None /\ \E l \in {"busy", "check", "read"} : Goto(w, l, rec)
  BY <1>1 DEF LookupBox, LocalsTyped, RegisterRequests
<1>5. /\ IsWork(rec) /\ rec.slot = i /\ rec.box = Box(w)
  BY <1>1, SetSlot DEF Box
<1>6. Box(w) \in Boxes
  BY <1>1 DEF LocalsTyped, BoxLabels, Box
<1>7. CASE Answer(w, -1)
  BY <1>1, <1>2, <1>7, BoxesStay, AnswerTyped, PlainLabels
<1>8. CASE Jump(w, "slot") \/ Jump(w, "deny")
  <2>1. LocalsTyped("slot", work[w]) /\ LocalsTyped("deny", work[w])
    BY <1>6 DEF LocalsTyped, BoxLabels, SlotLabels, HandleLabels, PubLabels, SubLabels, Box
  <2> QED
    BY <1>1, <1>2, <1>8, <2>1, WalkTyped, PlainLabels DEF Jump
<1>9. CASE i # None /\ \E l \in {"busy", "check", "read"} : Goto(w, l, rec)
  <2> HIDE DEF rec
  <2>1. PICK l \in {"busy", "check", "read"} : Goto(w, l, rec)
    BY <1>9
  <2>2. LocalsTyped(l, rec)
    BY <1>3, <1>5, <1>6, <1>9, <2>1 DEF LocalsTyped, BoxLabels, SlotLabels, HandleLabels, PubLabels, SubLabels
  <2> QED
    BY <1>1, <1>2, <1>5, <2>1, <2>2, WalkTyped, PlainLabels
<1> QED
  BY <1>4, <1>7, <1>8, <1>9

\* create_box looks for a free slot: the types stay.
LEMMA CreateSlotTyped == ASSUME Typed, NEW w \in Workers, CreateSlot(w) PROVE Typed'
<1> DEFINE S == {i \in Slots : table[i].free}
           rec == [work[w] EXCEPT !.tmp = First(S)]
<1>1. IsWork(work[w]) /\ LocalsTyped("slot", work[w]) /\ pc[w] = "slot"
  BY AtTyped DEF CreateSlot
<1>2. UNCHANGED <<fsVars, boxVars>>
  BY DEF CreateSlot
<1>3. Answer(w, -1) \/ (S # {} /\ Goto(w, "create", rec))
  BY DEF CreateSlot
<1>4. CASE Answer(w, -1)
  BY <1>1, <1>2, <1>4, BoxesStay, AnswerTyped, PlainLabels
<1>5. CASE S # {} /\ Goto(w, "create", rec)
  <2>1. S \in SUBSET Nat
    BY DEF Slots
  <2>2. First(S) \in S
    BY <1>5, <2>1, FirstInSet
  <2>3. IsWork(rec) /\ rec.tmp = First(S) /\ rec.box = work[w].box
    BY <1>1, SetTmp
  <2> HIDE DEF rec
  <2>4. LocalsTyped("create", rec)
    BY <1>1, <2>2, <2>3 DEF LocalsTyped, BoxLabels, SlotLabels, HandleLabels, PubLabels, SubLabels
  <2> QED
    BY <1>1, <1>2, <1>5, <2>3, <2>4, WalkTyped, PlainLabels
<1> QED
  BY <1>3, <1>4, <1>5

\* remove_box refuses a box with a publisher: the types stay.
LEMMA RemoveBusyTyped == ASSUME Typed, NEW w \in Workers, RemoveBusy(w) PROVE Typed'
<1>1. IsWork(work[w]) /\ LocalsTyped("busy", work[w]) /\ pc[w] = "busy"
  BY AtTyped DEF RemoveBusy
<1>2. UNCHANGED <<fsVars, boxVars>>
  BY DEF RemoveBusy
<1>3. Answer(w, -1) \/ Goto(w, "unlink", work[w])
  BY DEF RemoveBusy, Jump
<1>4. LocalsTyped("unlink", work[w])
  BY <1>1 DEF LocalsTyped, BoxLabels, SlotLabels, HandleLabels, PubLabels, SubLabels
<1> QED
  BY <1>1, <1>2, <1>3, <1>4, BoxesStay, AnswerTyped, WalkTyped, PlainLabels

\* A manager is answered, a client is denied: the types stay.
LEMMA ReplyTyped == ASSUME Typed, NEW w \in Workers, Reply(w) \/ Deny(w) PROVE Typed'
  BY GiveUpTyped, PlainLabels DEF Reply, Deny, At

\* list_box counts the boxes and sends them one by one: the types stay.
LEMMA ListTyped == ASSUME Typed, NEW w \in Workers, ListBox(w) PROVE Typed'
<1>1. /\ IsWork(work[w]) /\ pc[w] \in {"listCount", "listNext", "listLast", "listCopy", "listSend"}
      /\ UNCHANGED <<fsVars, boxVars>>
  BY WorkerTyped DEF ListBox, ListCount, ListNext, ListLast, ListCopy, ListSend, At, Typed
<1>2. ASSUME NEW l \in {"listSend", "listNext", "listLast", "listCopy"}, NEW rec, IsWork(rec), Goto(w, l, rec)
      PROVE  Typed'
  <2>1. LocalsTyped(l, rec)
    BY <1>2 DEF LocalsTyped, BoxLabels, SlotLabels, HandleLabels, PubLabels, SubLabels
  <2> QED
    BY <1>1, <1>2, <2>1, WalkTyped, PlainLabels
<1>3. CASE Done(w)
  BY <1>1, <1>3, BoxesStay, DoneTyped, PlainLabels
<1>4. CASE ListCount(w)
  <2> DEFINE zero == [work[w] EXCEPT !.tmp = 0, !.msg = create_zero_response(RESPONSE_LIST_BOX)]
             rec == [work[w] EXCEPT !.tmp = 0]
  <2>1. Goto(w, "listSend", zero) \/ Goto(w, "listNext", rec)
    BY <1>4, Zenon DEF ListCount
  <2>2. IsWork(zero) /\ IsWork(rec)
    BY <1>1, SetTmp, SetTmpMsg
  <2> HIDE DEF zero, rec
  <2> QED
    BY <1>2, <2>1, <2>2
<1>5. CASE ListNext(w)
  BY <1>1, <1>2, <1>3, <1>5, SetTmp DEF ListNext
<1>6. CASE ListLast(w)
  BY <1>1, <1>2, <1>6, SetLast DEF ListLast
<1>7. CASE ListCopy(w)
  BY <1>1, <1>2, <1>7, SetMsg DEF ListCopy
<1>8. CASE ListSend(w)
  BY <1>1, <1>2, <1>3, <1>8, SetMsg DEF ListSend
<1> QED
  BY <1>4, <1>5, <1>6, <1>7, <1>8 DEF ListBox

\* register_publisher looks at n_publisher: the types stay.
LEMMA PubCheckTyped == ASSUME Typed, NEW w \in Workers, PubCheck(w) PROVE Typed'
<1>1. IsWork(work[w]) /\ LocalsTyped("check", work[w]) /\ pc[w] = "check"
  BY AtTyped DEF PubCheck
<1>2. \E l \in {"deny", "count"} : Goto(w, l, work[w])
  BY DEF PubCheck, Jump
<1>3. LocalsTyped("deny", work[w]) /\ LocalsTyped("count", work[w])
  BY <1>1 DEF LocalsTyped, BoxLabels, SlotLabels, HandleLabels, PubLabels, SubLabels
<1> QED
  BY <1>1, <1>2, <1>3, WalkTyped, PlainLabels DEF PubCheck

\* register_publisher opens the publisher's pipe: the types stay.
LEMMA PubPipeTyped == ASSUME Typed, NEW w \in Workers, PubPipe(w) PROVE Typed'
<1>1. IsWork(work[w]) /\ LocalsTyped("pubPipe", work[w]) /\ pc[w] = "pubPipe"
  BY AtTyped DEF PubPipe
<1>2. LocalsTyped("receive", work[w])
  BY <1>1 DEF LocalsTyped, BoxLabels, SlotLabels, HandleLabels, PubLabels, SubLabels
<1> QED
  BY <1>1, <1>2, GiveUpTyped, WalkTyped, PlainLabels DEF PubPipe, Jump

\* register_subscriber reads n_subscriber: the types stay.
LEMMA SubReadTyped == ASSUME Typed, NEW w \in Workers, SubRead(w) PROVE Typed'
<1> DEFINE rec == [work[w] EXCEPT !.tmp = table[Slot(w)].nsubs]
<1>1. IsWork(work[w]) /\ LocalsTyped("read", work[w]) /\ pc[w] = "read"
  BY AtTyped DEF SubRead
<1>2. /\ IsWork(rec) /\ rec.tmp = table[Slot(w)].nsubs /\ rec.slot = work[w].slot /\ rec.box = work[w].box
  BY <1>1, SetTmp
<1>3. Slot(w) \in Slots
  BY <1>1 DEF LocalsTyped, BoxLabels, SlotLabels, Slot
<1>4. table[Slot(w)].nsubs \in Nat
  BY <1>3, TableIs, BoxIs, BrokerSizes DEF Typed
<1>5. Goto(w, "enter", rec)
  BY DEF SubRead
<1> HIDE DEF rec
<1>6. LocalsTyped("enter", rec)
  BY <1>1, <1>2, <1>4 DEF LocalsTyped, BoxLabels, SlotLabels, HandleLabels, PubLabels, SubLabels
<1> QED
  BY <1>1, <1>2, <1>5, <1>6, WalkTyped, PlainLabels DEF SubRead

-----------------------------------------------------------------------------
(* What the steps that change the table do to it *)

\* Slot i becomes this, and the other slots stay.
Becomes(i, f, n, s, p) ==
    /\ i \in Slots /\ TableTyped'
    /\ table'[i].free = f /\ table'[i].name = n /\ table'[i].size = s /\ table'[i].pubs = p
    /\ \A j \in Slots \ {i} : table'[j] = table[j]

\* Update with a complete entry sets the fields that the files depend on.
LEMMA BecomesBox ==
  ASSUME Typed, NEW i \in Slots, NEW f \in BOOLEAN, NEW n \in Boxes \cup {None}, NEW s \in Nat, NEW p \in Nat,
         NEW m \in 0 .. Word - 1, NEW e \in [Workers -> SubEntries], Update(i, BoxRecord(f, n, s, p, m, e))
  PROVE  Becomes(i, f, n, s, p)
<1> DEFINE b == BoxRecord(f, n, s, p, m, e)
<1>1. b \in BoxRecords
  BY BoxRecordTyped
<1>0. b.free = f /\ b.name = n /\ b.size = s /\ b.pubs = p
  BY DEF BoxRecord
<1>2. TableTyped /\ Update(i, b)
  BY DEF Typed
<1> HIDE DEF b
<1>3. TableTyped' /\ table'[i] = b /\ \A j \in Slots \ {i} : table'[j] = table[j]
  BY <1>1, <1>2, UpdateTyped
<1> QED
  BY <1>0, <1>1, <1>3 DEF Becomes

\* A worker at a label with a slot has a slot of the table, and a box.
LEMMA SlotTyped ==
  ASSUME Typed, NEW w \in Workers, NEW l \in SlotLabels, At(w, l)
  PROVE  /\ Slot(w) \in Slots /\ Box(w) \in Boxes /\ table[Slot(w)] \in BoxRecords
         /\ LET b == table[Slot(w)]
            IN /\ b = BoxRecord(b.free, b.name, b.size, b.pubs, b.nsubs, b.subs)
               /\ b.free \in BOOLEAN /\ b.name \in Boxes \cup {None} /\ b.size \in Nat /\ b.pubs \in Nat
               /\ b.nsubs \in 0 .. Word - 1 /\ b.subs \in [Workers -> SubEntries]
<1>1. LocalsTyped(l, work[w])
  BY AtTyped
<1>2. Slot(w) \in Slots /\ Box(w) \in Boxes
  BY <1>1 DEF LocalsTyped, SlotLabels, Slot, Box
<1>3. table[Slot(w)] \in BoxRecords
  BY <1>2, TableIs DEF Typed
<1> QED
  BY <1>2, <1>3, BoxIs

\* The labels at which a worker has a slot.
LEMMA SlotLabelsAre ==
  {"name", "reset", "busy", "unlink", "clear", "hangup", "wake", "check", "count", "read", "enter",
   "subPipe", "open", "leave", "uncount"} \cup PubLabels \cup SubLabels = SlotLabels
  BY DEF SlotLabels, BoxLabels, PubLabels, SubLabels

\* create_box marks its slot as taken and names it.
LEMMA CreateNameTable ==
  ASSUME Typed, NEW w \in Workers, CreateName(w)
  PROVE  LET b == table[Slot(w)] IN Becomes(Slot(w), FALSE, Box(w), b.size, b.pubs)
<1> DEFINE b == table[Slot(w)]
<1>1. /\ Slot(w) \in Slots /\ Box(w) \in Boxes
      /\ b = BoxRecord(b.free, b.name, b.size, b.pubs, b.nsubs, b.subs)
      /\ b.size \in Nat /\ b.pubs \in Nat /\ b.nsubs \in 0 .. Word - 1 /\ b.subs \in [Workers -> SubEntries]
  BY SlotTyped, SlotLabelsAre DEF CreateName
<1>2. Update(Slot(w), [b EXCEPT !.free = FALSE, !.name = Box(w)])
  BY DEF CreateName
<1> HIDE DEF b
<1>3. [b EXCEPT !.free = FALSE, !.name = Box(w)] = BoxRecord(FALSE, Box(w), b.size, b.pubs, b.nsubs, b.subs)
  <2>1. ASSUME NEW x, NEW y
        PROVE  [b EXCEPT !.free = x, !.name = y] = BoxRecord(x, y, b.size, b.pubs, b.nsubs, b.subs)
    <3>1. [b EXCEPT !.free = x] = BoxRecord(x, b.name, b.size, b.pubs, b.nsubs, b.subs)
      BY <1>1 DEF BoxRecord
    <3>2. ASSUME NEW g, g = BoxRecord(x, b.name, b.size, b.pubs, b.nsubs, b.subs)
          PROVE  [g EXCEPT !.name = y] = BoxRecord(x, y, b.size, b.pubs, b.nsubs, b.subs)
      BY <3>2 DEF BoxRecord
    <3> QED
      BY <3>1, <3>2
  <2> QED
    BY <2>1, Zenon
<1>4. Becomes(Slot(w), FALSE, Box(w), b.size, b.pubs)
  BY <1>1, <1>2, <1>3, BecomesBox
<1> QED
  BY <1>4 DEF b

\* create_box resets size, publishers and subscribers, and keeps the name.
LEMMA CreateResetTable ==
  ASSUME Typed, NEW w \in Workers, CreateReset(w)
  PROVE  LET b == table[Slot(w)] IN Becomes(Slot(w), b.free, b.name, 0, 0)
<1> DEFINE b == table[Slot(w)]
           none == [v \in Workers |-> "none"]
<1>1. Slot(w) \in Slots /\ b.free \in BOOLEAN /\ b.name \in Boxes \cup {None}
  BY SlotTyped, SlotLabelsAre DEF CreateReset
<1>2. Update(Slot(w), [FreeBox EXCEPT !.free = b.free, !.name = b.name])
  BY DEF CreateReset
<1>3. FreeBox = BoxRecord(TRUE, None, 0, 0, 0, none) /\ none \in [Workers -> SubEntries] /\ 0 \in 0 .. Word - 1
  BY FreeBoxIs
<1> HIDE DEF b, none
<1>4. ASSUME NEW g, g = BoxRecord(TRUE, None, 0, 0, 0, none)
      PROVE  [g EXCEPT !.free = b.free, !.name = b.name] = BoxRecord(b.free, b.name, 0, 0, 0, none)
  <2>1. ASSUME NEW f, g = BoxRecord(f, None, 0, 0, 0, none)
        PROVE  [g EXCEPT !.free = b.free, !.name = b.name] = BoxRecord(b.free, b.name, 0, 0, 0, none)
    <3>1. [g EXCEPT !.free = b.free] = BoxRecord(b.free, None, 0, 0, 0, none)
      BY <2>1 DEF BoxRecord
    <3>2. ASSUME NEW h, h = BoxRecord(b.free, None, 0, 0, 0, none)
          PROVE  [h EXCEPT !.name = b.name] = BoxRecord(b.free, b.name, 0, 0, 0, none)
      BY <3>2 DEF BoxRecord
    <3> QED
      BY <3>1, <3>2
  <2> QED
    BY <1>4, <2>1, Zenon
<1>5. [FreeBox EXCEPT !.free = b.free, !.name = b.name] = BoxRecord(b.free, b.name, 0, 0, 0, none)
  BY <1>3, <1>4
<1>6. Becomes(Slot(w), b.free, b.name, 0, 0)
  BY <1>1, <1>2, <1>3, <1>5, BecomesBox
<1> QED
  BY <1>6 DEF b

\* remove_box frees the slot and clears its name, its size and its publishers.
LEMMA RemoveClearTable ==
  ASSUME Typed, NEW w \in Workers, RemoveClear(w)
  PROVE  Becomes(Slot(w), TRUE, None, 0, 0)
<1> DEFINE b == table[Slot(w)]
           none == [v \in Workers |-> "none"]
<1>1. Slot(w) \in Slots /\ b.subs \in [Workers -> SubEntries]
  BY SlotTyped, SlotLabelsAre DEF RemoveClear
<1>2. Update(Slot(w), [FreeBox EXCEPT !.subs = b.subs])
  BY DEF RemoveClear
<1>3. FreeBox = BoxRecord(TRUE, None, 0, 0, 0, none) /\ 0 \in 0 .. Word - 1
  BY FreeBoxIs
<1> HIDE DEF b, none
<1>4. ASSUME NEW g, g = BoxRecord(TRUE, None, 0, 0, 0, none)
      PROVE  [g EXCEPT !.subs = b.subs] = BoxRecord(TRUE, None, 0, 0, 0, b.subs)
  <2>1. ASSUME NEW f, g = BoxRecord(f, None, 0, 0, 0, none)
        PROVE  [g EXCEPT !.subs = b.subs] = BoxRecord(f, None, 0, 0, 0, b.subs)
    BY <2>1 DEF BoxRecord
  <2> QED
    BY <1>4, <2>1, Zenon
<1>5. [FreeBox EXCEPT !.subs = b.subs] = BoxRecord(TRUE, None, 0, 0, 0, b.subs)
  BY <1>3, <1>4
<1> QED
  BY <1>1, <1>2, <1>3, <1>5, BecomesBox

\* register_publisher sets n_publisher to one more than it read.
LEMMA PubCountTable ==
  ASSUME Typed, NEW w \in Workers, PubCount(w)
  PROVE  LET b == table[Slot(w)]
         IN \E n \in {0, b.pubs} : Becomes(Slot(w), b.free, b.name, b.size, n + 1)
<1> DEFINE b == table[Slot(w)]
<1>1. /\ Slot(w) \in Slots
      /\ b = BoxRecord(b.free, b.name, b.size, b.pubs, b.nsubs, b.subs)
      /\ b.free \in BOOLEAN /\ b.name \in Boxes \cup {None} /\ b.size \in Nat /\ b.pubs \in Nat
      /\ b.nsubs \in 0 .. Word - 1 /\ b.subs \in [Workers -> SubEntries]
  BY SlotTyped, SlotLabelsAre DEF PubCount
<1>2. PICK n \in {0, b.pubs} : Update(Slot(w), [b EXCEPT !.pubs = n + 1])
  BY DEF PubCount
<1> HIDE DEF b
<1>3. n + 1 \in Nat
  BY <1>1
<1>4. [b EXCEPT !.pubs = n + 1] = BoxRecord(b.free, b.name, b.size, n + 1, b.nsubs, b.subs)
  BY <1>1 DEF BoxRecord
<1>5. Becomes(Slot(w), b.free, b.name, b.size, n + 1)
  <2>1. Update(Slot(w), BoxRecord(b.free, b.name, b.size, n + 1, b.nsubs, b.subs))
    BY <1>2, <1>4
  <2>2. ASSUME NEW p \in Nat, Update(Slot(w), BoxRecord(b.free, b.name, b.size, p, b.nsubs, b.subs))
        PROVE  Becomes(Slot(w), b.free, b.name, b.size, p)
    BY <1>1, <2>2, BecomesBox
  <2> QED
    BY <1>3, <2>1, <2>2
<1> QED
  BY <1>5 DEF b

\* A publisher's session that ends sets n_publisher to 0 in its own slot.
LEMMA PubReleaseTable ==
  ASSUME Typed, NEW w \in Workers, PubRelease(w)
  PROVE  LET b == table[Slot(w)] IN Becomes(Slot(w), b.free, b.name, b.size, 0)
<1> DEFINE b == table[Slot(w)]
<1>1. /\ Slot(w) \in Slots
      /\ b = BoxRecord(b.free, b.name, b.size, b.pubs, b.nsubs, b.subs)
      /\ b.free \in BOOLEAN /\ b.name \in Boxes \cup {None} /\ b.size \in Nat
      /\ b.nsubs \in 0 .. Word - 1 /\ b.subs \in [Workers -> SubEntries]
  BY SlotTyped, SlotLabelsAre DEF PubRelease, PubLabels
<1>2. Update(Slot(w), [b EXCEPT !.pubs = 0])
  BY DEF PubRelease
<1> HIDE DEF b
<1>3. [b EXCEPT !.pubs = 0] = BoxRecord(b.free, b.name, b.size, 0, b.nsubs, b.subs)
  BY <1>1 DEF BoxRecord
<1>4. Becomes(Slot(w), b.free, b.name, b.size, 0)
  BY <1>1, <1>2, <1>3, BecomesBox
<1> QED
  BY <1>4 DEF b

\* Counting and entering subscribers changes nothing else.
Recounts(i) == LET b == table[i] IN Becomes(i, b.free, b.name, b.size, b.pubs)

\* Counting subscribers leaves name, size and publishers of every box as they
\* are.
LEMMA RecountsBox ==
  ASSUME Typed, NEW w \in Workers, NEW l \in SlotLabels, At(w, l),
         NEW m \in 0 .. Word - 1, NEW e \in [Workers -> SubEntries], NEW rec,
         LET b == table[Slot(w)]
         IN rec = BoxRecord(b.free, b.name, b.size, b.pubs, m, e),
         Update(Slot(w), rec)
  PROVE  Recounts(Slot(w))
<1> DEFINE b == table[Slot(w)]
<1>1. /\ Slot(w) \in Slots
      /\ b.free \in BOOLEAN /\ b.name \in Boxes \cup {None} /\ b.size \in Nat /\ b.pubs \in Nat
  BY SlotTyped
<1>2. Update(Slot(w), BoxRecord(b.free, b.name, b.size, b.pubs, m, e))
  OBVIOUS
<1> HIDE DEF b
<1>3. Becomes(Slot(w), b.free, b.name, b.size, b.pubs)
  BY <1>1, <1>2, BecomesBox
<1> QED
  BY <1>3 DEF b, Recounts

\* n_subscriber is set.
LEMMA NsubsTable ==
  ASSUME Typed, NEW w \in Workers, NEW l \in SlotLabels, At(w, l), NEW m \in 0 .. Word - 1,
         Update(Slot(w), [table[Slot(w)] EXCEPT !.nsubs = m])
  PROVE  Recounts(Slot(w))
<1> DEFINE b == table[Slot(w)]
<1>1. /\ b = BoxRecord(b.free, b.name, b.size, b.pubs, b.nsubs, b.subs)
      /\ b.subs \in [Workers -> SubEntries]
  BY SlotTyped
<1>2. [b EXCEPT !.nsubs = m] = BoxRecord(b.free, b.name, b.size, b.pubs, m, b.subs)
  <2> HIDE DEF b
  <2> QED BY <1>1 DEF BoxRecord
<1> QED
  BY <1>1, <1>2, RecountsBox

\* subscribers is set.
LEMMA SubsTable ==
  ASSUME Typed, NEW w \in Workers, NEW l \in SlotLabels, At(w, l), NEW e \in [Workers -> SubEntries],
         Update(Slot(w), [table[Slot(w)] EXCEPT !.subs = e])
  PROVE  Recounts(Slot(w))
<1> DEFINE b == table[Slot(w)]
<1>1. /\ b = BoxRecord(b.free, b.name, b.size, b.pubs, b.nsubs, b.subs)
      /\ b.nsubs \in 0 .. Word - 1
  BY SlotTyped
<1>2. [b EXCEPT !.subs = e] = BoxRecord(b.free, b.name, b.size, b.pubs, b.nsubs, e)
  <2> HIDE DEF b
  <2> QED BY <1>1 DEF BoxRecord
<1> QED
  BY <1>1, <1>2, RecountsBox

\* An entry of subscribers is set.
LEMMA EntryTable ==
  ASSUME Typed, NEW w \in Workers, NEW l \in SlotLabels, At(w, l), NEW x \in SubEntries,
         Update(Slot(w), [table[Slot(w)] EXCEPT !.subs[w] = x])
  PROVE  Recounts(Slot(w))
<1> DEFINE e == [table[Slot(w)].subs EXCEPT ![w] = x]
<1>1. table[Slot(w)].subs \in [Workers -> SubEntries]
  BY SlotTyped
<1>2. e \in [Workers -> SubEntries]
  BY <1>1
<1>3. Update(Slot(w), [table[Slot(w)] EXCEPT !.subs = e])
  OBVIOUS
<1> HIDE DEF e
<1> QED
  BY <1>2, <1>3, SubsTable

\* n_subscriber is an unsigned number of the machine.
LEMMA Modular == ASSUME NEW x \in Int PROVE x % Word \in 0 .. Word - 1
  BY BrokerSizes

\* register_subscriber counts a subscriber and puts the worker's index into
\* subscribers.
LEMMA SubEnterTable == ASSUME Typed, NEW w \in Workers, SubEnter(w) PROVE Recounts(Slot(w))
<1> DEFINE b == table[Slot(w)]
           m == (work[w].tmp + 1) % Word
           e == [b.subs EXCEPT ![w] = "index"]
<1>1. /\ b = BoxRecord(b.free, b.name, b.size, b.pubs, b.nsubs, b.subs)
      /\ b.subs \in [Workers -> SubEntries]
  BY SlotTyped, SlotLabelsAre DEF SubEnter
<1>2. LocalsTyped("enter", work[w])
  BY AtTyped DEF SubEnter
<1>3. m \in 0 .. Word - 1
  BY <1>2, Modular DEF LocalsTyped
<1>4. e \in [Workers -> SubEntries]
  BY <1>1 DEF SubEntries
<1>5. Update(Slot(w), [b EXCEPT !.nsubs = m, !.subs[w] = "index"])
  BY DEF SubEnter
<1>6. [b EXCEPT !.nsubs = m, !.subs[w] = "index"] = BoxRecord(b.free, b.name, b.size, b.pubs, m, e)
  <2> HIDE DEF b, m
  <2>1. [b EXCEPT !.nsubs = m] = BoxRecord(b.free, b.name, b.size, b.pubs, m, b.subs)
    BY <1>1 DEF BoxRecord
  <2>2. ASSUME NEW g, g = BoxRecord(b.free, b.name, b.size, b.pubs, m, b.subs)
        PROVE  [g EXCEPT !.subs[w] = "index"] = BoxRecord(b.free, b.name, b.size, b.pubs, m, e)
    BY <2>2 DEF BoxRecord
  <2> QED
    BY <2>1, <2>2
<1>7. At(w, "enter") /\ "enter" \in SlotLabels
  BY SlotLabelsAre DEF SubEnter
<1> QED
  BY <1>3, <1>4, <1>5, <1>6, <1>7, RecountsBox

\* remove_box closes pipes of subscribers and marks their entries.
LEMMA HangupTable ==
  ASSUME Typed, NEW w \in Workers, NEW S, NEW next, NEW r, At(w, "hangup"), Hangup(w, S, next, r)
  PROVE  Recounts(Slot(w))
<1> DEFINE e == [v \in Workers |-> IF v \in S THEN "dead" ELSE table[Slot(w)].subs[v]]
<1>1. table[Slot(w)].subs \in [Workers -> SubEntries] /\ "hangup" \in SlotLabels
  BY SlotTyped, SlotLabelsAre
<1>2. e \in [Workers -> SubEntries]
  BY <1>1 DEF SubEntries
<1>3. Update(Slot(w), [table[Slot(w)] EXCEPT !.subs = e])
  BY DEF Hangup, ClosePipes
<1> HIDE DEF e
<1> QED
  BY <1>1, <1>2, <1>3, SubsTable

\* A publisher's session finds the box by its name and adds what was written to
\* box_size; when it finds none, it indexes the table with -1.
LEMMA PubSizeTable ==
  ASSUME Typed, NEW w \in Workers, PubSize(w)
  PROVE  LET i == GetBox(Box(w)) IN
         \/ i = None /\ crashed' = TRUE /\ TableTyped' /\ table' = table
         \/ /\ crashed' = FALSE
            /\ Becomes(i, table[i].free, table[i].name, table[i].size + work[w].tmp, table[i].pubs)
<1> DEFINE i == GetBox(Box(w))
           b == table[i]
<1>1. LocalsTyped("size", work[w])
  BY AtTyped DEF PubSize
<1>2. i = None \/ i \in Slots
  <2>1. {j \in Slots : ~table[j].free /\ table[j].name = Box(w)} \in SUBSET Nat
    BY DEF Slots
  <2> QED
    BY <2>1, FirstInSet DEF GetBox
<1>3. CASE i = None
  <2>1. table' = table /\ crashed' = TRUE
    BY <1>3 DEF PubSize
  <2> QED
    BY <1>3, <2>1, TableStays
<1>4. CASE i # None
  <2>1. i \in Slots
    BY <1>2, <1>4
  <2>2. b \in BoxRecords
    BY <2>1, TableIs DEF Typed
  <2>3. /\ b = BoxRecord(b.free, b.name, b.size, b.pubs, b.nsubs, b.subs)
        /\ b.free \in BOOLEAN /\ b.name \in Boxes \cup {None} /\ b.size \in Nat /\ b.pubs \in Nat
        /\ b.nsubs \in 0 .. Word - 1 /\ b.subs \in [Workers -> SubEntries]
    BY <2>2, BoxIs
  <2>4. b.size + work[w].tmp \in Nat
    BY <1>1, <2>3 DEF LocalsTyped
  <2>5. crashed' = FALSE /\ Update(i, [b EXCEPT !.size = b.size + work[w].tmp])
    BY <1>4 DEF PubSize, Update, Grown
  <2> HIDE DEF b
  <2>6. [b EXCEPT !.size = b.size + work[w].tmp] = BoxRecord(b.free, b.name, b.size + work[w].tmp, b.pubs, b.nsubs, b.subs)
    BY <2>3 DEF BoxRecord
  <2> HIDE DEF i
  <2>7. Becomes(i, b.free, b.name, b.size + work[w].tmp, b.pubs)
    BY <2>1, <2>3, <2>4, <2>5, <2>6, BecomesBox
  <2> QED
    BY <2>5, <2>7 DEF b, i
<1> QED
  BY <1>3, <1>4

\* A subscriber's session changes entries and counts of subscribers only.
LEMMA SubTables ==
  ASSUME Typed, NEW w \in Workers,
         SubPipe(w) \/ SubOpen(w) \/ SubLeave(w) \/ SubUncount(w)
  PROVE  table' = table \/ Recounts(Slot(w))
<1>0. {"none", "open", "left"} \subseteq SubEntries /\ {"subPipe", "open", "leave", "uncount"} \subseteq SlotLabels
  BY SlotLabelsAre DEF SubEntries
<1>1. CASE SubPipe(w)
  <2>1. \/ Update(Slot(w), [table[Slot(w)] EXCEPT !.subs[w] = "open"])
        \/ table' = table
    BY <1>1 DEF SubPipe, GiveUp, boxVars
  <2> QED
    BY <1>0, <1>1, <2>1, EntryTable DEF SubPipe
<1>2. CASE SubOpen(w)
  <2>1. table[Slot(w)].subs \in [Workers -> SubEntries]
    BY <1>0, <1>2, SlotTyped DEF SubOpen
  <2> DEFINE x == IF table[Slot(w)].subs[w] = "open" THEN "left" ELSE table[Slot(w)].subs[w]
  <2>2. x \in SubEntries
    BY <1>0, <2>1
  <2>3. \/ Update(Slot(w), [table[Slot(w)] EXCEPT !.subs[w] = x])
        \/ table' = table
    BY <1>2 DEF SubOpen
  <2> HIDE DEF x
  <2> QED
    BY <1>0, <1>2, <2>2, <2>3, EntryTable DEF SubOpen
<1>3. CASE SubLeave(w)
  BY <1>0, <1>3, EntryTable DEF SubLeave
<1>4. CASE SubUncount(w)
  <2>1. LocalsTyped("uncount", work[w])
    BY <1>4, AtTyped DEF SubUncount
  <2>2. (work[w].tmp - 1) % Word \in 0 .. Word - 1
    BY <2>1, Modular DEF LocalsTyped
  <2> QED
    BY <1>0, <1>4, <2>2, NsubsTable DEF SubUncount
<1> QED
  BY <1>1, <1>2, <1>3, <1>4

-----------------------------------------------------------------------------
(* Types are kept: steps that change the table, and sessions *)

\* create_box takes the slot and names it: the types stay.
LEMMA CreateNameTyped == ASSUME Typed, NEW w \in Workers, CreateName(w) PROVE Typed'
<1>1. IsWork(work[w]) /\ LocalsTyped("name", work[w]) /\ pc[w] = "name"
  BY AtTyped DEF CreateName
<1>2. TableTyped' /\ Goto(w, "reset", work[w]) /\ UNCHANGED <<fsVars, mutex>> /\ asleep' \subseteq asleep
  BY CreateNameTable DEF Becomes, CreateName, Jump
<1>3. LocalsTyped("reset", work[w])
  BY <1>1 DEF LocalsTyped, BoxLabels, SlotLabels, HandleLabels, PubLabels, SubLabels
<1> QED
  BY <1>1, <1>2, <1>3, GotoTyped, PlainLabels

\* create_box resets the counters of the slot: the types stay.
LEMMA CreateResetTyped == ASSUME Typed, NEW w \in Workers, CreateReset(w) PROVE Typed'
<1>1. TableTyped' /\ Answer(w, 0) /\ UNCHANGED <<fsVars, mutex>> /\ asleep' \subseteq asleep /\ pc[w] = "reset"
  BY CreateResetTable DEF Becomes, CreateReset, At
<1> QED
  BY <1>1, AnswerTyped, PlainLabels

\* remove_box frees the slot: the types stay.
LEMMA RemoveClearTyped == ASSUME Typed, NEW w \in Workers, RemoveClear(w) PROVE Typed'
<1>1. IsWork(work[w]) /\ LocalsTyped("clear", work[w]) /\ pc[w] = "clear"
  BY AtTyped DEF RemoveClear
<1>2. TableTyped' /\ Goto(w, "hangup", work[w]) /\ UNCHANGED <<fsVars, mutex>> /\ asleep' \subseteq asleep
  BY RemoveClearTable DEF Becomes, RemoveClear, Jump
<1>3. LocalsTyped("hangup", work[w])
  BY <1>1 DEF LocalsTyped, BoxLabels, SlotLabels, HandleLabels, PubLabels, SubLabels
<1> QED
  BY <1>1, <1>2, <1>3, GotoTyped, PlainLabels

\* Pipes of other sessions are closed; their workers notice later.
LEMMA HangupMoves ==
  ASSUME Typed, NEW w \in Workers, NEW S, NEW next, NEW r, At(w, "hangup"), Hangup(w, S, next, r)
  PROVE  LET rec == [work[w] EXCEPT !.tmp = r]
         IN Moves(w, next, rec) /\ IsWork(rec) /\ rec.box = work[w].box /\ rec.slot = work[w].slot
<1> DEFINE rec == [work[w] EXCEPT !.tmp = r]
           cut == Cut(w, S)
<1>0. \A v \in Workers : IsWork(work[v])
  BY DEF Typed, WorkersTyped
<1>1. IsWork(rec) /\ rec.box = work[w].box /\ rec.slot = work[w].slot
  BY <1>0, SetTmp
<1>2. cut = [v \in Workers |-> cut[v]]
  BY DEF Cut
<1>3. ASSUME NEW v \in Workers PROVE IsWork(cut[v]) /\ Same(cut[v], work[v])
  <2>1. cut[v] = work[v] \/ cut[v] = [work[v] EXCEPT !.pipe = "dead"]
    BY DEF Cut
  <2>2. CASE cut[v] = work[v]
    BY <1>0, <2>2 DEF Same
  <2>3. CASE cut[v] = [work[v] EXCEPT !.pipe = "dead"]
    BY <1>0, <2>3, SetPipe
  <2> QED
    BY <2>1, <2>2, <2>3
<1>4. work' = [cut EXCEPT ![w].tmp = r] /\ pc' = [pc EXCEPT ![w] = next]
  BY DEF Hangup
<1> HIDE DEF cut
<1>5. work' = [v \in Workers |-> work'[v]]
  BY <1>2, <1>4
<1>6. ASSUME NEW v \in Workers, v # w PROVE IsWork(work'[v]) /\ Same(work'[v], work[v])
  BY <1>2, <1>3, <1>4, <1>6
<1>7. IsWork(work'[w]) /\ Same(work'[w], rec)
  <2>1. work'[w] = [cut[w] EXCEPT !.tmp = r]
    BY <1>2, <1>4
  <2> DEFINE s == [cut[w] EXCEPT !.tmp = r]
  <2>2. /\ IsWork(s) /\ s.tmp = r
        /\ s.code = cut[w].code /\ s.box = cut[w].box /\ s.slot = cut[w].slot
        /\ s.fd = cut[w].fd /\ s.msg = cut[w].msg /\ s.read = cut[w].read
    BY <1>3, SetTmp
  <2>3. /\ rec.tmp = r
        /\ rec.code = work[w].code /\ rec.box = work[w].box /\ rec.slot = work[w].slot
        /\ rec.fd = work[w].fd /\ rec.msg = work[w].msg /\ rec.read = work[w].read
    BY <1>0, SetTmp
  <2> HIDE DEF s, rec
  <2>4. Same(s, rec)
    BY <1>3, <2>2, <2>3 DEF Same
  <2> QED
    BY <2>1, <2>2, <2>4 DEF s
<1> HIDE DEF rec
<1> QED
  BY <1>1, <1>4, <1>5, <1>6, <1>7 DEF Moves, rec

\* remove_box closes the pipes of the subscribers, or fails to: the types stay.
LEMMA RemoveHangupTyped == ASSUME Typed, NEW w \in Workers, RemoveHangup(w) \/ RemoveHangupFails(w) PROVE Typed'
<1>1. LocalsTyped("hangup", work[w]) /\ pc[w] = "hangup" /\ At(w, "hangup")
  BY AtTyped DEF RemoveHangup, RemoveHangupFails
<1>2. PICK S, next, r : next \in {"wake", "reply"} /\ Hangup(w, S, next, r)
  BY DEF RemoveHangup, RemoveHangupFails
<1>3. UNCHANGED <<fsVars, mutex>> /\ UNCHANGED <<bqVars, envVars>> /\ got' = got /\ crashed' = crashed
      /\ asleep' \subseteq asleep
  BY <1>2 DEF Hangup
<1>4. TableTyped'
  BY <1>1, <1>2, HangupTable DEF Recounts, Becomes
<1> DEFINE rec == [work[w] EXCEPT !.tmp = r]
<1>5. Moves(w, next, rec) /\ IsWork(rec) /\ rec.box = work[w].box /\ rec.slot = work[w].slot
  <2>1. At(w, "hangup") /\ Hangup(w, S, next, r)
    BY <1>1, <1>2
  <2> QED
    BY <2>1, HangupMoves, ZenonT(60)
<1> HIDE DEF rec
<1>6. LocalsTyped(next, rec)
  BY <1>1, <1>2, <1>5 DEF LocalsTyped, BoxLabels, SlotLabels, HandleLabels, PubLabels, SubLabels
<1>7. QueueTyped' /\ got' \in [Workers -> Seq(Seq(Chars))]
  BY <1>3, QueueStays DEF Typed, WorkersTyped
<1> QED
  BY <1>1, <1>2, <1>3, <1>4, <1>5, <1>6, <1>7, PlainTyped, PlainLabels

\* remove_box wakes the subscribers: the types stay.
LEMMA RemoveWakeTyped == ASSUME Typed, NEW w \in Workers, RemoveWake(w) PROVE Typed'
<1>1. Answer(w, 0) /\ UNCHANGED <<fsVars, mutex>> /\ asleep' \subseteq asleep /\ pc[w] = "wake" /\ TableTyped'
  BY TableStays DEF RemoveWake, Broadcast, At
<1> QED
  BY <1>1, AnswerTyped, PlainLabels

\* register_publisher increments n_publisher: the types stay.
LEMMA PubCountTyped == ASSUME Typed, NEW w \in Workers, PubCount(w) PROVE Typed'
<1>1. IsWork(work[w]) /\ LocalsTyped("count", work[w]) /\ pc[w] = "count"
  BY AtTyped DEF PubCount
<1>2. TableTyped' /\ Goto(w, "pubPipe", work[w]) /\ UNCHANGED <<fsVars, mutex>> /\ asleep' \subseteq asleep
  BY PubCountTable DEF Becomes, PubCount, Jump
<1>3. LocalsTyped("pubPipe", work[w])
  BY <1>1 DEF LocalsTyped, BoxLabels, SlotLabels, HandleLabels, PubLabels, SubLabels
<1> QED
  BY <1>1, <1>2, <1>3, GotoTyped, PlainLabels

\* A publisher's session ends and gives its box back: the types stay.
LEMMA PubReleaseTyped == ASSUME Typed, NEW w \in Workers, PubRelease(w) PROVE Typed'
<1>1. TableTyped' /\ Done(w) /\ UNCHANGED <<fsVars, mutex>> /\ asleep' \subseteq asleep /\ pc[w] = "release"
  BY PubReleaseTable DEF Becomes, PubRelease, At
<1> QED
  BY <1>1, DoneTyped, PlainLabels

\* A publisher's session wakes the subscribers of its box: the types stay.
LEMMA PubAnnounceTyped == ASSUME Typed, NEW w \in Workers, PubAnnounce(w) PROVE Typed'
<1>1. IsWork(work[w]) /\ LocalsTyped("announce", work[w]) /\ pc[w] = "announce"
  BY AtTyped DEF PubAnnounce
<1>2. TableTyped' /\ Goto(w, "receive", work[w]) /\ UNCHANGED <<fsVars, mutex>> /\ asleep' \subseteq asleep
  BY TableStays DEF PubAnnounce, Jump, Broadcast
<1>3. LocalsTyped("receive", work[w])
  BY <1>1 DEF LocalsTyped, BoxLabels, SlotLabels, HandleLabels, PubLabels, SubLabels
<1> QED
  BY <1>1, <1>2, <1>3, GotoTyped, PlainLabels

\* register_subscriber enters the worker into subscribers: the types stay.
LEMMA SubEnterTyped == ASSUME Typed, NEW w \in Workers, SubEnter(w) PROVE Typed'
<1>1. IsWork(work[w]) /\ LocalsTyped("enter", work[w]) /\ pc[w] = "enter"
  BY AtTyped DEF SubEnter
<1>2. TableTyped' /\ Goto(w, "subPipe", work[w]) /\ UNCHANGED <<fsVars, mutex>> /\ asleep' \subseteq asleep
  BY SubEnterTable DEF Recounts, Becomes, SubEnter, Jump
<1>3. LocalsTyped("subPipe", work[w])
  BY <1>1 DEF LocalsTyped, BoxLabels, SlotLabels, HandleLabels, PubLabels, SubLabels
<1> QED
  BY <1>1, <1>2, <1>3, GotoTyped, PlainLabels

\* A subscriber's session opens the pipe of its client: the types stay.
LEMMA SubPipeTyped == ASSUME Typed, NEW w \in Workers, SubPipe(w) PROVE Typed'
<1> DEFINE rec == [work[w] EXCEPT !.pipe = "open", !.tmp = None]
<1>1. IsWork(work[w]) /\ LocalsTyped("subPipe", work[w]) /\ pc[w] = "subPipe"
  BY AtTyped DEF SubPipe
<1>2. TableTyped'
  BY SubTables, TableStays DEF Recounts, Becomes
<1>3. IsWork(rec) /\ rec.box = work[w].box /\ rec.slot = work[w].slot
  <2>1. ASSUME NEW x
        PROVE  [work[w] EXCEPT !.pipe = x, !.tmp = None] =
                 Changed(work[w], work[w].fd, None, work[w].msg, work[w].read, x)
    BY <1>1, SetPipeTmp
  <2> HIDE DEF rec
  <2>2. \E x : rec = Changed(work[w], work[w].fd, None, work[w].msg, work[w].read, x)
    BY <2>1, Zenon DEF rec
  <2> QED
    BY <2>2, ChangedIs
<1>4. \/ Goto(w, "open", rec) /\ UNCHANGED <<fsVars, mutex>> /\ asleep' \subseteq asleep
      \/ GiveUp(w)
  BY DEF SubPipe
<1> HIDE DEF rec
<1>5. LocalsTyped("open", rec)
  BY <1>1, <1>3 DEF LocalsTyped, BoxLabels, SlotLabels, HandleLabels, PubLabels, SubLabels
<1> QED
  BY <1>1, <1>2, <1>3, <1>4, <1>5, GotoTyped, GiveUpTyped, PlainLabels

\* A subscriber's session takes its entry out of subscribers, or counts itself
\* out: the types stay.
LEMMA SubLeaveTyped == ASSUME Typed, NEW w \in Workers, SubLeave(w) PROVE Typed'
<1> DEFINE rec == [work[w] EXCEPT !.tmp = table[Slot(w)].nsubs]
<1>1. IsWork(work[w]) /\ LocalsTyped("leave", work[w]) /\ pc[w] = "leave"
  BY AtTyped DEF SubLeave
<1>2. TableTyped'
  BY SubTables, TableStays DEF Recounts, Becomes
<1>3. /\ IsWork(rec) /\ rec.tmp = table[Slot(w)].nsubs /\ rec.slot = work[w].slot /\ rec.box = work[w].box
  BY <1>1, SetTmp
<1>4. table[Slot(w)].nsubs \in Nat
  BY SlotTyped, SlotLabelsAre, BrokerSizes DEF SubLeave
<1>5. Goto(w, "uncount", rec) /\ UNCHANGED <<fsVars, mutex>> /\ asleep' \subseteq asleep
  BY DEF SubLeave
<1> HIDE DEF rec
<1>6. LocalsTyped("uncount", rec)
  BY <1>1, <1>3, <1>4 DEF LocalsTyped, BoxLabels, SlotLabels, HandleLabels, PubLabels, SubLabels
<1> QED
  BY <1>1, <1>2, <1>3, <1>5, <1>6, GotoTyped, PlainLabels

\* A subscriber's session decrements n_subscriber: the types stay.
LEMMA SubUncountTyped == ASSUME Typed, NEW w \in Workers, SubUncount(w) PROVE Typed'
<1>1. Done(w) /\ UNCHANGED <<fsVars, mutex>> /\ asleep' \subseteq asleep /\ pc[w] = "uncount"
  BY DEF SubUncount, At
<1>2. TableTyped'
  BY SubTables, TableStays DEF Recounts, Becomes
<1> QED
  BY <1>1, <1>2, DoneTyped, PlainLabels

-----------------------------------------------------------------------------
(* Types are kept: steps that open, use and close files *)

\* Only the handle of w, or one that was free, changed.
LEMMA OthersHandles ==
  ASSUME Typed, NEW w \in Workers, NEW d \in Handles,
         oft[d] = None \/ (pc[w] \in HandleLabels /\ d = Fd(w)),
         \A e \in Handles \ {d} : oft'[e] = oft[e]
  PROVE  \A v \in Workers \ {w} : pc[v] \in HandleLabels => oft'[Fd(v)] = oft[Fd(v)]
<1> SUFFICES ASSUME NEW v \in Workers \ {w}, pc[v] \in HandleLabels PROVE oft'[Fd(v)] = oft[Fd(v)]
  OBVIOUS
<1>1. LocalsTyped(pc[v], work[v])
  BY WorkerTyped DEF Typed
<1>2. Fd(v) \in Handles
  BY <1>1 DEF LocalsTyped, Fd
<1>3. Fd(v) # d
  BY DEF Typed, HandlesOwned
<1> QED
  BY <1>2, <1>3

\* A worker at a label with a handle has it open.
LEMMA HandleHeld ==
  ASSUME Typed, NEW w \in Workers, pc[w] \in HandleLabels
  PROVE  Fd(w) \in Handles /\ oft[Fd(w)] # None
<1>1. LocalsTyped(pc[w], work[w])
  BY WorkerTyped DEF Typed
<1> QED
  BY <1>1 DEF LocalsTyped, Fd, Typed, HandlesOwned

\* w goes to a place where it has neither handle nor mutex.
LEMMA LeftTyped ==
  ASSUME Typed, NEW w \in Workers, NEW p \in Plain, NEW r, Moves(w, p, r), LocalsTyped(p, r),
         FsTyped', InodesCounted', TableTyped', QueueTyped', asleep' \subseteq asleep,
         \A v \in Workers \ {w} : pc[v] \in HandleLabels => oft'[Fd(v)] = oft[Fd(v)],
         \/ mutex' = mutex /\ pc[w] \notin LockLabels /\ pc[w] # "woken"
         \/ Unlock(w) /\ pc[w] \in LockLabels,
         got' \in [Workers -> Seq(Seq(Chars))], crashed' = crashed
  PROVE  Typed'
<1>1. FsTyped /\ WorkersTyped /\ InodesCounted /\ HandlesOwned /\ MutexesOwned
  BY DEF Typed
<1>2. p \in Labels /\ p \notin HandleLabels /\ p \notin LockLabels /\ p # "write"
  BY DEF Plain, HandleLabels
<1>3. WorkersTyped'
  BY <1>1, <1>2, MovesTyped DEF WorkersTyped
<1>4. HandlesOwned'
  BY <1>1, <1>2, HandlesMove
<1>5. MutexesOwned'
  <2>1. Sleepers(w, p)
    BY <1>1 DEF Sleepers, MutexesOwned, LockLabels
  <2> QED
    BY <1>1, <1>2, <2>1, MutexesMove
<1> QED
  BY <1>3, <1>4, <1>5 DEF Typed

\* A worker that has closed a file, or changed a box, answers; the others keep
\* their handles.
LEMMA AnswerLeftTyped ==
  ASSUME Typed, NEW w \in Workers, NEW x, Answer(w, x), FsTyped', InodesCounted', TableTyped', asleep' \subseteq asleep,
         \A v \in Workers \ {w} : pc[v] \in HandleLabels => oft'[Fd(v)] = oft[Fd(v)],
         mutex' = mutex, pc[w] \notin LockLabels, pc[w] # "woken"
  PROVE  Typed'
<1>1. PICK rec : Moves(w, "reply", rec)
  BY AnswerMoves DEF Typed
<1>2. UNCHANGED <<bqVars, envVars, got, crashed>>
  BY AnswerMoves DEF Typed
<1>3. "reply" \in Plain /\ LocalsTyped("reply", rec)
  BY PlainLabels DEF HandleLabels, PubLabels, SubLabels, LocalsTyped, BoxLabels, SlotLabels
<1>4. QueueTyped' /\ got' \in [Workers -> Seq(Seq(Chars))]
  BY <1>2, QueueStays DEF Typed, WorkersTyped
<1> QED
  BY <1>1, <1>2, <1>3, <1>4, LeftTyped

\* A worker that has let go of its handle, or its mutex, is done; the others
\* keep their handles.
LEMMA DoneLeftTyped ==
  ASSUME Typed, NEW w \in Workers, Done(w), FsTyped', InodesCounted', TableTyped', asleep' \subseteq asleep,
         \A v \in Workers \ {w} : pc[v] \in HandleLabels => oft'[Fd(v)] = oft[Fd(v)],
         \/ mutex' = mutex /\ pc[w] \notin LockLabels /\ pc[w] # "woken"
         \/ Unlock(w) /\ pc[w] \in LockLabels
  PROVE  Typed'
<1>1. /\ Moves(w, "idle", NoWork) /\ UNCHANGED <<bqVars, envVars, crashed>>
      /\ got' \in [Workers -> Seq(Seq(Chars))]
  BY DoneMoves DEF Typed
<1>2. "idle" \in Plain /\ LocalsTyped("idle", NoWork)
  BY PlainLabels DEF HandleLabels, PubLabels, SubLabels, LocalsTyped, BoxLabels, SlotLabels
<1>3. QueueTyped'
  BY <1>1, QueueStays
<1> QED
  BY <1>1, <1>2, <1>3, LeftTyped

\* A worker that has let go of its handle, or its mutex, goes on; the others
\* keep their handles.
LEMMA GotoLeftTyped ==
  ASSUME Typed, NEW w \in Workers, NEW l \in Plain, NEW rec, IsWork(rec), Goto(w, l, rec), LocalsTyped(l, rec),
         FsTyped', InodesCounted', TableTyped', asleep' \subseteq asleep,
         \A v \in Workers \ {w} : pc[v] \in HandleLabels => oft'[Fd(v)] = oft[Fd(v)],
         \/ mutex' = mutex /\ pc[w] \notin LockLabels /\ pc[w] # "woken"
         \/ Unlock(w) /\ pc[w] \in LockLabels
  PROVE  Typed'
<1>1. Moves(w, l, rec) /\ UNCHANGED <<bqVars, envVars, got, crashed>>
  BY GotoMoves DEF Typed
<1>2. QueueTyped' /\ got' \in [Workers -> Seq(Seq(Chars))]
  BY <1>1, QueueStays DEF Typed, WorkersTyped
<1> QED
  BY <1>1, <1>2, LeftTyped

\* w goes on with a handle, its own or a new one, and with or without the mutex.
LEMMA HeldTyped ==
  ASSUME Typed, NEW w \in Workers, NEW p \in Labels, NEW r, Moves(w, p, r), LocalsTyped(p, r),
         FsTyped', InodesCounted', TableTyped', QueueTyped', Sleepers(w, p),
         p \in HandleLabels => (pc[w] \in HandleLabels /\ r.fd = Fd(w)) \/ oft[r.fd] = None,
         \A v \in Workers \ {w} : pc[v] \in HandleLabels => oft'[Fd(v)] = oft[Fd(v)],
         p \in HandleLabels => oft'[r.fd] # None,
         p = "write" => oft'[r.fd].off <= BlockSize,
         \/ /\ mutex' = mutex
            /\ p \in LockLabels <=> pc[w] \in LockLabels
            /\ p \in LockLabels => r.slot = Slot(w)
         \/ Lock(w) /\ p \in LockLabels /\ pc[w] \notin LockLabels /\ r.slot = Slot(w) /\ Slot(w) \in Slots
         \/ Unlock(w) /\ p \notin LockLabels /\ pc[w] \in LockLabels,
         got' \in [Workers -> Seq(Seq(Chars))], crashed' \in BOOLEAN
  PROVE  Typed'
<1>1. WorkersTyped /\ HandlesOwned /\ MutexesOwned
  BY DEF Typed
<1>2. WorkersTyped'
  BY <1>1, MovesTyped
<1>3. HandlesOwned'
  BY <1>1, HandlesMove
<1>4. MutexesOwned'
  BY <1>1, MutexesMove
<1> QED
  BY <1>2, <1>3, <1>4 DEF Typed

\* tfs_open returns a handle that was free.
LEMMA OpenedFs ==
  ASSUME FsTyped, InodesCounted, NEW n \in Boxes, NEW mode, TfsOpen(n, mode), OpenResult(n, mode) # None
  PROVE  LET d == OpenResult(n, mode)
         IN /\ d \in Handles /\ oft[d] = None /\ entry'[n] \in Inodes
            /\ oft'[d] = OpenFile(entry'[n], IF Exists(n) /\ mode = "APPEND" THEN FileSize(n) ELSE 0)
            /\ oft'[d] # None /\ oft'[d].off <= BlockSize
            /\ \A e \in Handles \ {d} : oft'[e] = oft[e]
<1> DEFINE d == OpenResult(n, mode)
           off == IF Exists(n) /\ mode = "APPEND" THEN FileSize(n) ELSE 0
<1>1. /\ d \in Handles /\ oft[d] = None /\ entry'[n] \in Inodes
      /\ oft' = [oft EXCEPT ![d] = OpenFile(entry'[n], off)]
  BY OpenFs
<1>2. off \in 0 .. DataEnd /\ off <= BlockSize
  <2>1. Exists(n) => FileSize(n) \in 0 .. BlockSize
    BY EntryTyped, NodeTyped DEF FileSize
  <2>2. Exists(n) => FileSize(n) \in 0 .. DataEnd
    BY <2>1, FsIndices, BrokerSizes
  <2>3. 0 \in 0 .. DataEnd /\ 0 <= BlockSize
    BY FsIndices, BrokerSizes
  <2> QED
    BY <2>1, <2>2, <2>3
<1>3. oft \in [Handles -> [inum : Inodes, off : 0 .. DataEnd] \cup {None}]
  BY DEF FsTyped
<1> HIDE DEF d, off
<1>4. OpenFile(entry'[n], off) # None /\ OpenFile(entry'[n], off).off = off
  BY <1>1, <1>2, OpenFileIs
<1>5. oft'[d] = OpenFile(entry'[n], off) /\ \A e \in Handles \ {d} : oft'[e] = oft[e]
  BY <1>1, <1>3
<1> QED
  BY <1>1, <1>2, <1>4, <1>5 DEF d, off

\* create_box makes the file of the box with tfs_open: the types stay.
LEMMA CreateFileTyped == ASSUME Typed, NEW w \in Workers, CreateFile(w) PROVE Typed'
<1> DEFINE d == OpenResult(Box(w), "CREAT")
           rec == [work[w] EXCEPT !.fd = d]
<1>1. IsWork(work[w]) /\ LocalsTyped("create", work[w]) /\ pc[w] = "create"
  BY AtTyped DEF CreateFile
<1>2. Box(w) \in Boxes
  BY <1>1 DEF LocalsTyped, BoxLabels, Box
<1>3. /\ FsTyped' /\ InodesCounted' /\ (d = None => oft' = oft)
      /\ d # None => /\ d \in Handles /\ oft[d] = None /\ oft'[d] # None
                     /\ \A e \in Handles \ {d} : oft'[e] = oft[e]
  BY <1>2, OpenFs, OpenedFs DEF Typed, CreateFile
<1>4. TableTyped' /\ mutex' = mutex /\ asleep' = asleep
  BY TableStays DEF CreateFile, boxVars
<1>5. (d = None /\ Answer(w, -1)) \/ (d # None /\ Goto(w, "closeNew", rec))
  BY DEF CreateFile
<1>6. CASE d = None /\ Answer(w, -1)
  BY <1>1, <1>3, <1>4, <1>6, AnswerLeftTyped, PlainLabels
<1>7. CASE d # None /\ Goto(w, "closeNew", rec)
  <2>1. IsWork(rec) /\ rec.fd = d /\ rec.box = work[w].box /\ rec.tmp = work[w].tmp /\ rec.slot = work[w].slot
    BY <1>1, SetFd
  <2> HIDE DEF rec, d
  <2>2. LocalsTyped("closeNew", rec)
    BY <1>1, <1>3, <1>7, <2>1 DEF LocalsTyped, BoxLabels, SlotLabels, HandleLabels, PubLabels, SubLabels
  <2>3. Moves(w, "closeNew", rec) /\ UNCHANGED <<bqVars, envVars, got, crashed>>
    BY <1>7, <2>1, GotoMoves DEF Typed
  <2>4. QueueTyped' /\ got' \in [Workers -> Seq(Seq(Chars))] /\ crashed' \in BOOLEAN
    BY <2>3, QueueStays DEF Typed, WorkersTyped
  <2>5. Sleepers(w, "closeNew")
    BY <1>1, <1>4 DEF Sleepers, Typed, MutexesOwned
  <2>8. "closeNew" \in Labels /\ "closeNew" \notin LockLabels /\ "create" \notin LockLabels
    BY DEF Labels, Handling, LockLabels
  <2>9. \A v \in Workers \ {w} : pc[v] \in HandleLabels => oft'[Fd(v)] = oft[Fd(v)]
    BY <1>3, <1>7, OthersHandles
  <2> QED
    BY <1>1, <1>3, <1>4, <1>7, <2>1, <2>2, <2>3, <2>4, <2>5, <2>8, <2>9, HeldTyped
<1> QED
  BY <1>5, <1>6, <1>7

\* tfs_close frees the handle of w and no other.
LEMMA ClosedFs ==
  ASSUME Typed, NEW w \in Workers, pc[w] \in HandleLabels, TfsClose(Fd(w))
  PROVE  /\ FsTyped' /\ InodesCounted'
         /\ \A v \in Workers \ {w} : pc[v] \in HandleLabels => oft'[Fd(v)] = oft[Fd(v)]
<1>1. Fd(w) \in Handles
  BY HandleHeld
<1>2. FsTyped' /\ InodesCounted'
  BY <1>1, CloseFs DEF Typed
<1>3. \A e \in Handles \ {Fd(w)} : oft'[e] = oft[e]
  BY DEF TfsClose, Typed, FsTyped
<1> QED
  BY <1>1, <1>2, <1>3, OthersHandles

\* create_box closes the new file: the types stay.
LEMMA CreateCloseTyped == ASSUME Typed, NEW w \in Workers, CreateClose(w) PROVE Typed'
<1> DEFINE rec == [work[w] EXCEPT !.slot = work[w].tmp]
<1>1. IsWork(work[w]) /\ LocalsTyped("closeNew", work[w]) /\ pc[w] = "closeNew" /\ pc[w] \in HandleLabels
  BY AtTyped DEF CreateClose, HandleLabels
<1>2. IsWork(rec) /\ rec.slot = work[w].tmp /\ rec.box = work[w].box
  BY <1>1, SetSlot
<1>3. Goto(w, "name", rec)
  BY DEF CreateClose
<1> HIDE DEF rec
<1>4. LocalsTyped("name", rec)
  BY <1>1, <1>2 DEF LocalsTyped, BoxLabels, SlotLabels, HandleLabels, PubLabels, SubLabels
<1>5. /\ FsTyped' /\ InodesCounted'
      /\ \A v \in Workers \ {w} : pc[v] \in HandleLabels => oft'[Fd(v)] = oft[Fd(v)]
  BY <1>1, ClosedFs DEF CreateClose, Fd
<1>6. TableTyped' /\ mutex' = mutex /\ asleep' \subseteq asleep /\ "closeNew" \notin LockLabels
  BY TableStays DEF CreateClose, boxVars, LockLabels
<1> QED
  BY <1>1, <1>2, <1>3, <1>4, <1>5, <1>6, GotoLeftTyped, PlainLabels

\* remove_box deletes the file of the box: the types stay.
LEMMA RemoveFileTyped == ASSUME Typed, NEW w \in Workers, RemoveFile(w) PROVE Typed'
<1> DEFINE n == table[Slot(w)].name
<1>1. IsWork(work[w]) /\ LocalsTyped("unlink", work[w]) /\ pc[w] = "unlink"
  BY AtTyped DEF RemoveFile
<1>2. n \in Boxes \cup {None}
  BY SlotTyped, SlotLabelsAre DEF RemoveFile
<1>3. UNCHANGED boxVars
  BY DEF RemoveFile
<1>4. CASE n # None /\ Exists(n)
  <2>1. TfsUnlink(n) /\ Goto(w, "clear", work[w])
    BY <1>4 DEF RemoveFile, Jump
  <2>2. FsTyped' /\ InodesCounted' /\ oft' = oft
    BY <1>2, <1>4, <2>1, UnlinkFs DEF Typed, TfsUnlink
  <2>3. TableTyped' /\ mutex' = mutex /\ asleep' \subseteq asleep
    BY <1>3, TableStays DEF boxVars
  <2>4. LocalsTyped("clear", work[w])
    BY <1>1 DEF LocalsTyped, BoxLabels, SlotLabels, HandleLabels, PubLabels, SubLabels
  <2> QED
    BY <1>1, <2>1, <2>2, <2>3, <2>4, GotoLeftTyped, PlainLabels
<1>5. CASE ~(n # None /\ Exists(n))
  <2>1. UNCHANGED fsVars /\ Answer(w, -1)
    BY <1>5 DEF RemoveFile
  <2>2. UNCHANGED <<fsVars, mutex>> /\ asleep' \subseteq asleep /\ TableTyped'
    BY <1>3, <2>1, TableStays DEF boxVars
  <2> QED
    BY <1>1, <2>1, <2>2, AnswerTyped, PlainLabels
<1> QED
  BY <1>4, <1>5

\* What the read of a message does to a publisher's worker.
LEMMA ReceiveMoves ==
  ASSUME WorkersTyped, NEW w \in Workers, NEW result, NEW message, Receive(w, result, message)
  PROVE  LET rec == Changed(work[w], work[w].fd, work[w].tmp, message, result, work[w].pipe)
         IN /\ Moves(w, "pubLock", rec)
            /\ rec.msg = message /\ rec.box = work[w].box /\ rec.slot = work[w].slot
<1> DEFINE rec == Changed(work[w], work[w].fd, work[w].tmp, message, result, work[w].pipe)
<1>1. IsWork(rec) /\ rec.msg = message /\ rec.box = work[w].box /\ rec.slot = work[w].slot
  BY ChangedIs
<1>2. \A v \in Workers : IsWork(work[v]) /\ work = [u \in Workers |-> work[u]]
  BY DEF WorkersTyped
<1>3. work' = [v \in Workers |-> IF v = w THEN rec ELSE work[v]]
  <2>1. work' = [work EXCEPT ![w].msg = message, ![w].read = result]
    BY DEF Receive
  <2>2. [work EXCEPT ![w].msg = message] =
          [v \in Workers |-> IF v = w THEN [work[w] EXCEPT !.msg = message] ELSE work[v]]
    BY <1>2
  <2>0. IsWork(work[w])
    BY <1>2
  <2>3. [work[w] EXCEPT !.msg = message] =
          Changed(work[w], work[w].fd, work[w].tmp, message, work[w].read, work[w].pipe)
    BY <2>0 DEF IsWork, Changed
  <2>4. ASSUME NEW g, g = Changed(work[w], work[w].fd, work[w].tmp, message, work[w].read, work[w].pipe)
        PROVE  [g EXCEPT !.read = result] = rec
    BY <2>4 DEF Changed
  <2> HIDE DEF rec
  <2>5. ASSUME NEW f, f = [v \in Workers |-> IF v = w THEN [work[w] EXCEPT !.msg = message] ELSE work[v]]
        PROVE  [f EXCEPT ![w].read = result] = [v \in Workers |-> IF v = w THEN rec ELSE work[v]]
    BY <2>3, <2>4, <2>5
  <2> QED
    BY <2>1, <2>2, <2>5
<1> HIDE DEF rec
<1>4. Moves(w, "pubLock", rec)
  BY <1>1, <1>2, <1>3 DEF Moves, Receive, Same
<1> QED
  BY <1>1, <1>4 DEF rec

\* A publisher's session reads a message, the end of its pipe, or an error: the
\* types stay.
LEMMA PubReceiveTyped == ASSUME Typed, NEW w \in Workers, PubReceive(w) PROVE Typed'
<1>1. PICK result, message :
        /\ Receive(w, result, message)
        /\ \/ posts < Len(Messages) /\ posts' = posts + 1 /\ message = Messages[posts']
           \/ posts' = posts /\ message = <<>>
  BY DEF PubReceive
<1>2. IsWork(work[w]) /\ LocalsTyped("receive", work[w]) /\ pc[w] = "receive"
  BY <1>1, AtTyped DEF Receive
<1>3. message \in Seq(Chars) /\ posts' \in Nat
  <2>1. posts \in Nat
    BY DEF Typed, QueueTyped
  <2>2. CASE posts < Len(Messages) /\ posts' = posts + 1 /\ message = Messages[posts']
    <3>1. posts + 1 \in 1 .. Len(Messages)
      BY <2>1, <2>2, BrokerSizes
    <3> QED
      BY <2>1, <2>2, <3>1, BrokerSizes
  <2>3. CASE posts' = posts /\ message = <<>>
    BY <2>1, <2>3
  <2> QED
    BY <1>1, <2>2, <2>3
<1> DEFINE rec == Changed(work[w], work[w].fd, work[w].tmp, message, result, work[w].pipe)
<1>4. rec.msg = message /\ rec.box = work[w].box /\ rec.slot = work[w].slot /\ Moves(w, "pubLock", rec)
  BY <1>1, ReceiveMoves DEF Typed
<1> HIDE DEF rec
<1>5. LocalsTyped("pubLock", rec)
  BY <1>2, <1>3, <1>4 DEF LocalsTyped, BoxLabels, SlotLabels, HandleLabels, PubLabels, SubLabels
<1>6. QueueTyped' /\ got' \in [Workers -> Seq(Seq(Chars))] /\ crashed' = crashed /\ UNCHANGED <<fsVars, boxVars>>
  BY <1>1, <1>3 DEF Receive, Typed, QueueTyped, WorkersTyped, bqVars
<1> QED
  BY <1>2, <1>4, <1>5, <1>6, BoxesStay, PlainTyped, PlainLabels

\* A publisher's session takes the mutex of its box: the types stay.
LEMMA PubLockTyped == ASSUME Typed, NEW w \in Workers, PubLock(w) PROVE Typed'
<1>1. IsWork(work[w]) /\ LocalsTyped("pubLock", work[w]) /\ pc[w] = "pubLock"
  BY AtTyped DEF PubLock
<1>2. CASE work[w].read = "message" /\ Lock(w) /\ Jump(w, "append") /\ UNCHANGED <<fsVars, table, asleep>>
  <2>1. Moves(w, "append", work[w]) /\ UNCHANGED <<bqVars, envVars, got, crashed>>
    BY <1>1, <1>2, GotoMoves DEF Typed, Jump
  <2>2. LocalsTyped("append", work[w])
    BY <1>1, <1>2 DEF LocalsTyped, BoxLabels, SlotLabels, HandleLabels, PubLabels, SubLabels
  <2>3. QueueTyped' /\ got' \in [Workers -> Seq(Seq(Chars))] /\ crashed' \in BOOLEAN
    BY <2>1, QueueStays DEF Typed, WorkersTyped
  <2>4. FsTyped' /\ InodesCounted' /\ TableTyped' /\ oft' = oft
    BY <1>2, FsStays, TableStays DEF fsVars
  <2>5. Sleepers(w, "append")
    BY <1>1, <1>2 DEF Sleepers, Typed, MutexesOwned
  <2>6. /\ "append" \in Labels /\ "append" \in LockLabels /\ "append" \notin HandleLabels /\ "pubLock" \notin LockLabels
    BY DEF Labels, PubLabels, LockLabels, HandleLabels, SubLabels
  <2>7. Slot(w) \in Slots
    BY <1>1 DEF LocalsTyped, BoxLabels, SlotLabels, PubLabels, SubLabels, Slot
  <2> QED
    BY <1>1, <1>2, <2>1, <2>2, <2>3, <2>4, <2>5, <2>6, <2>7, HeldTyped DEF Slot
<1>3. CASE work[w].read = "closed" /\ Jump(w, "release") /\ UNCHANGED <<fsVars, boxVars>>
  <2>1. LocalsTyped("release", work[w])
    BY <1>1 DEF LocalsTyped, BoxLabels, SlotLabels, HandleLabels, PubLabels, SubLabels
  <2> QED
    BY <1>1, <1>3, <2>1, WalkTyped, PlainLabels DEF Jump
<1>4. CASE work[w].read = "error" /\ GiveUp(w)
  BY <1>1, <1>4, GiveUpTyped, PlainLabels
<1> QED
  BY <1>2, <1>3, <1>4 DEF PubLock

\* A publisher's session opens the file of its box to append: the types stay.
LEMMA PubOpenTyped == ASSUME Typed, NEW w \in Workers, PubOpen(w) PROVE Typed'
<1> DEFINE d == OpenResult(Box(w), "APPEND")
           rec == [work[w] EXCEPT !.fd = d]
<1>1. IsWork(work[w]) /\ LocalsTyped("append", work[w]) /\ pc[w] = "append"
  BY AtTyped DEF PubOpen
<1>2. Box(w) \in Boxes
  BY <1>1 DEF LocalsTyped, BoxLabels, SlotLabels, PubLabels, Box
<1>3. /\ FsTyped' /\ InodesCounted' /\ (d = None => oft' = oft)
      /\ d # None => /\ d \in Handles /\ oft[d] = None /\ oft'[d] # None /\ oft'[d].off <= BlockSize
                     /\ \A e \in Handles \ {d} : oft'[e] = oft[e]
  BY <1>2, OpenFs, OpenedFs DEF Typed, PubOpen
<1>4. TableTyped' /\ asleep' = asleep
  BY TableStays DEF PubOpen
<1>5. \/ d = None /\ Unlock(w) /\ Done(w)
      \/ d # None /\ Goto(w, "write", rec) /\ mutex' = mutex
  BY DEF PubOpen
<1>6. CASE d = None /\ Unlock(w) /\ Done(w)
  BY <1>1, <1>3, <1>4, <1>6, DoneLeftTyped DEF LockLabels
<1>7. CASE d # None /\ Goto(w, "write", rec) /\ mutex' = mutex
  <2>1. IsWork(rec) /\ rec.fd = d /\ rec.box = work[w].box /\ rec.msg = work[w].msg /\ rec.slot = work[w].slot
    BY <1>1, SetFd
  <2> HIDE DEF rec, d
  <2>2. LocalsTyped("write", rec)
    BY <1>1, <1>3, <1>7, <2>1 DEF LocalsTyped, BoxLabels, SlotLabels, HandleLabels, PubLabels, SubLabels
  <2>3. Moves(w, "write", rec) /\ UNCHANGED <<bqVars, envVars, got, crashed>>
    BY <1>7, <2>1, GotoMoves DEF Typed
  <2>4. QueueTyped' /\ got' \in [Workers -> Seq(Seq(Chars))] /\ crashed' \in BOOLEAN
    BY <2>3, QueueStays DEF Typed, WorkersTyped
  <2>5. Sleepers(w, "write")
    BY <1>1, <1>4 DEF Sleepers, Typed, MutexesOwned
  <2>6. "write" \in Labels /\ "write" \in LockLabels /\ "append" \in LockLabels
    BY DEF Labels, PubLabels, LockLabels
  <2>7. \A v \in Workers \ {w} : pc[v] \in HandleLabels => oft'[Fd(v)] = oft[Fd(v)]
    BY <1>3, <1>7, OthersHandles
  <2> QED
    BY <1>1, <1>3, <1>4, <1>7, <2>1, <2>2, <2>3, <2>4, <2>5, <2>6, <2>7, HeldTyped DEF Slot
<1> QED
  BY <1>5, <1>6, <1>7

\* A publisher's session appends its message: the types stay.
LEMMA PubWriteTyped == ASSUME Typed, NEW w \in Workers, PubWrite(w) PROVE Typed'
<1> DEFINE d == Fd(w)
           cells == Append(work[w].msg, Nul)
           r == WriteResult(d, cells)
           rec == [work[w] EXCEPT !.tmp = r]
<1>1. IsWork(work[w]) /\ LocalsTyped("write", work[w]) /\ pc[w] = "write" /\ pc[w] \in HandleLabels
  BY AtTyped DEF PubWrite, HandleLabels
<1>2. d \in Handles /\ oft[d] # None /\ oft[d].off <= BlockSize
  BY <1>1, HandleHeld DEF Typed, HandlesOwned
<1>3. cells \in Seq(Chars \cup {Nul})
  <2>1. work[w].msg \in Seq(Chars \cup {Nul})
    BY <1>1 DEF LocalsTyped
  <2> QED
    BY <2>1
<1>4. /\ TfsWrite(d, cells)
      /\ \/ r = -1 /\ Unlock(w) /\ Done(w)
         \/ r # -1 /\ Goto(w, "size", rec) /\ mutex' = mutex
      /\ UNCHANGED <<table, asleep>>
  BY DEF PubWrite, Fd
<1>5. /\ FsTyped' /\ InodesCounted' /\ r \in Nat \cup {-1}
      /\ oft'[d] # None /\ \A e \in Handles \ {d} : oft'[e] = oft[e]
  <2>1. FsTyped /\ InodesCounted
    BY DEF Typed
  <2> HIDE DEF d, cells
  <2>2. CASE r > 0
    BY <1>2, <1>3, <1>4, <2>1, <2>2, WriteFs
  <2>3. CASE ~(r > 0)
    BY <1>2, <1>3, <1>4, <2>1, <2>3, WriteFs DEF fsVars
  <2> QED
    BY <2>2, <2>3
<1> HIDE DEF r
<1>6. \A v \in Workers \ {w} : pc[v] \in HandleLabels => oft'[Fd(v)] = oft[Fd(v)]
  BY <1>1, <1>2, <1>5, OthersHandles
<1>7. TableTyped' /\ asleep' = asleep
  BY <1>4, TableStays
<1>8. CASE r = -1 /\ Unlock(w) /\ Done(w)
  BY <1>1, <1>5, <1>6, <1>7, <1>8, DoneLeftTyped DEF LockLabels
<1>9. CASE r # -1 /\ Goto(w, "size", rec) /\ mutex' = mutex
  <2>1. IsWork(rec) /\ rec.fd = d /\ rec.box = work[w].box /\ rec.tmp = r /\ rec.slot = work[w].slot
    BY <1>1, SetTmp DEF Fd
  <2> HIDE DEF rec, d
  <2>2. r \in Nat
    BY <1>5, <1>9
  <2>3. LocalsTyped("size", rec)
    BY <1>1, <1>2, <2>1, <2>2 DEF LocalsTyped, BoxLabels, SlotLabels, HandleLabels, PubLabels, SubLabels
  <2>4. Moves(w, "size", rec) /\ UNCHANGED <<bqVars, envVars, got, crashed>>
    BY <1>9, <2>1, GotoMoves DEF Typed
  <2>5. QueueTyped' /\ got' \in [Workers -> Seq(Seq(Chars))] /\ crashed' \in BOOLEAN
    BY <2>4, QueueStays DEF Typed, WorkersTyped
  <2>6. Sleepers(w, "size")
    BY <1>1, <1>7 DEF Sleepers, Typed, MutexesOwned
  <2>7. "size" \in Labels /\ "size" \in LockLabels /\ "write" \in LockLabels
    BY DEF Labels, PubLabels, LockLabels
  <2> QED
    BY <1>1, <1>5, <1>6, <1>7, <1>9, <2>1, <2>3, <2>4, <2>5, <2>6, <2>7, HeldTyped DEF Slot, d
<1> QED
  BY <1>4, <1>8, <1>9

\* A publisher's session adds what it wrote to the size of its box: the types
\* stay.
LEMMA PubSizeTyped == ASSUME Typed, NEW w \in Workers, PubSize(w) PROVE Typed'
<1>1. IsWork(work[w]) /\ LocalsTyped("size", work[w]) /\ pc[w] = "size" /\ pc[w] \in HandleLabels
  BY AtTyped DEF PubSize, HandleLabels
<1>2. TableTyped' /\ crashed' \in BOOLEAN
  BY PubSizeTable DEF Becomes
<1>3. UNCHANGED <<fsVars, bqVars, mutex, asleep, work, envVars, got>> /\ pc' = [pc EXCEPT ![w] = "pubClose"]
  BY DEF PubSize
<1>4. Moves(w, "pubClose", work[w])
  <2>1. work = [v \in Workers |-> work[v]] /\ work' = work /\ \A v \in Workers : IsWork(work[v])
    BY <1>3 DEF Typed, WorkersTyped
  <2> QED
    BY <1>3, <2>1 DEF Moves, Same
<1>5. LocalsTyped("pubClose", work[w])
  BY <1>1 DEF LocalsTyped, BoxLabels, SlotLabels, HandleLabels, PubLabels, SubLabels
<1>6. QueueTyped' /\ got' \in [Workers -> Seq(Seq(Chars))] /\ FsTyped' /\ InodesCounted' /\ oft' = oft
  BY <1>3, QueueStays, FsStays DEF Typed, WorkersTyped, fsVars
<1>7. Sleepers(w, "pubClose")
  BY <1>1, <1>3 DEF Sleepers, Typed, MutexesOwned
<1>8. "pubClose" \in Labels /\ "pubClose" \in LockLabels /\ "size" \in LockLabels
  BY DEF Labels, PubLabels, LockLabels
<1>9. oft[Fd(w)] # None
  BY <1>1, HandleHeld
<1> QED
  BY <1>1, <1>2, <1>3, <1>4, <1>5, <1>6, <1>7, <1>8, <1>9, HeldTyped DEF Slot, Fd

\* The locals of a publisher's worker when a message is in the box.
LEMMA PubClosedIs ==
  ASSUME NEW r, IsWork(r)
  PROVE  LET s == [r EXCEPT !.fd = None, !.tmp = None, !.msg = <<>>, !.read = "none"]
         IN IsWork(s) /\ s.box = r.box /\ s.slot = r.slot
<1> DEFINE s == [r EXCEPT !.fd = None, !.tmp = None, !.msg = <<>>, !.read = "none"]
<1>1. ASSUME NEW x, NEW t, NEW y, NEW z
      PROVE  [r EXCEPT !.fd = x, !.tmp = t, !.msg = y, !.read = z] = Changed(r, x, t, y, z, r.pipe)
  <2>1. [r EXCEPT !.fd = x] = Changed(r, x, r.tmp, r.msg, r.read, r.pipe)
    BY DEF IsWork, Changed
  <2>2. ASSUME NEW g, g = Changed(r, x, r.tmp, r.msg, r.read, r.pipe)
        PROVE  [g EXCEPT !.tmp = t] = Changed(r, x, t, r.msg, r.read, r.pipe)
    BY <2>2 DEF Changed
  <2>3. ASSUME NEW g, g = Changed(r, x, t, r.msg, r.read, r.pipe)
        PROVE  [g EXCEPT !.msg = y] = Changed(r, x, t, y, r.read, r.pipe)
    BY <2>3 DEF Changed
  <2>4. ASSUME NEW g, g = Changed(r, x, t, y, r.read, r.pipe)
        PROVE  [g EXCEPT !.read = z] = Changed(r, x, t, y, z, r.pipe)
    BY <2>4 DEF Changed
  <2> QED
    BY <2>1, <2>2, <2>3, <2>4
<1>2. s = Changed(r, None, None, <<>>, "none", r.pipe)
  BY <1>1, Zenon
<1> HIDE DEF s
<1>3. IsWork(s) /\ s.box = r.box /\ s.slot = r.slot
  BY <1>2, ChangedIs
<1> QED
  BY <1>3 DEF s

\* A publisher's session closes the file and gives the mutex back: the types
\* stay.
LEMMA PubCloseTyped == ASSUME Typed, NEW w \in Workers, PubClose(w) PROVE Typed'
<1> DEFINE rec == [work[w] EXCEPT !.fd = None, !.tmp = None, !.msg = <<>>, !.read = "none"]
<1>1. IsWork(work[w]) /\ LocalsTyped("pubClose", work[w]) /\ pc[w] = "pubClose" /\ pc[w] \in HandleLabels
  BY AtTyped DEF PubClose, HandleLabels
<1>2. IsWork(rec) /\ rec.box = work[w].box /\ rec.slot = work[w].slot
  BY <1>1, PubClosedIs
<1>3. TfsClose(Fd(w)) /\ Unlock(w) /\ Goto(w, "announce", rec) /\ UNCHANGED <<table, asleep>>
  BY DEF PubClose, Fd
<1> HIDE DEF rec
<1>4. LocalsTyped("announce", rec)
  BY <1>1, <1>2 DEF LocalsTyped, BoxLabels, SlotLabels, HandleLabels, PubLabels, SubLabels
<1>5. /\ FsTyped' /\ InodesCounted'
      /\ \A v \in Workers \ {w} : pc[v] \in HandleLabels => oft'[Fd(v)] = oft[Fd(v)]
  BY <1>1, <1>3, ClosedFs
<1>6. TableTyped' /\ asleep' \subseteq asleep /\ "pubClose" \in LockLabels
  BY <1>3, TableStays DEF LockLabels
<1> QED
  BY <1>1, <1>2, <1>3, <1>4, <1>5, <1>6, GotoLeftTyped, PlainLabels

\* A subscriber's session opens the file of its box to read: the types stay.
LEMMA SubOpenTyped == ASSUME Typed, NEW w \in Workers, SubOpen(w) PROVE Typed'
<1> DEFINE d == OpenResult(Box(w), "READ")
           rec == [work[w] EXCEPT !.fd = d]
<1>1. IsWork(work[w]) /\ LocalsTyped("open", work[w]) /\ pc[w] = "open"
  BY AtTyped DEF SubOpen
<1>2. Box(w) \in Boxes
  BY <1>1 DEF LocalsTyped, BoxLabels, SlotLabels, Box
<1>3. /\ FsTyped' /\ InodesCounted' /\ (d = None => oft' = oft)
      /\ d # None => /\ d \in Handles /\ oft[d] = None /\ oft'[d] # None /\ oft'[d].off <= BlockSize
                     /\ \A e \in Handles \ {d} : oft'[e] = oft[e]
  BY <1>2, OpenFs, OpenedFs DEF Typed, SubOpen
<1>4. TableTyped' /\ mutex' = mutex /\ asleep' = asleep
  BY SubTables, TableStays DEF SubOpen, Recounts, Becomes
<1>5. \/ d = None /\ Done(w)
      \/ d # None /\ Goto(w, "subLock", rec)
  BY DEF SubOpen
<1>6. CASE d = None /\ Done(w)
  BY <1>1, <1>3, <1>4, <1>6, DoneLeftTyped, PlainLabels
<1>7. CASE d # None /\ Goto(w, "subLock", rec)
  <2>1. IsWork(rec) /\ rec.fd = d /\ rec.box = work[w].box /\ rec.slot = work[w].slot
    BY <1>1, SetFd
  <2> HIDE DEF rec, d
  <2>2. LocalsTyped("subLock", rec)
    BY <1>1, <1>3, <1>7, <2>1 DEF LocalsTyped, BoxLabels, SlotLabels, HandleLabels, PubLabels, SubLabels
  <2>3. Moves(w, "subLock", rec) /\ UNCHANGED <<bqVars, envVars, got, crashed>>
    BY <1>7, <2>1, GotoMoves DEF Typed
  <2>4. QueueTyped' /\ got' \in [Workers -> Seq(Seq(Chars))] /\ crashed' \in BOOLEAN
    BY <2>3, QueueStays DEF Typed, WorkersTyped
  <2>5. Sleepers(w, "subLock")
    BY <1>1, <1>4 DEF Sleepers, Typed, MutexesOwned
  <2>6. "subLock" \in Labels /\ "subLock" \notin LockLabels /\ "open" \notin LockLabels
    BY DEF Labels, SubLabels, LockLabels
  <2>7. \A v \in Workers \ {w} : pc[v] \in HandleLabels => oft'[Fd(v)] = oft[Fd(v)]
    BY <1>3, <1>7, OthersHandles
  <2> QED
    BY <1>1, <1>3, <1>4, <1>7, <2>1, <2>2, <2>3, <2>4, <2>5, <2>6, <2>7, HeldTyped
<1> QED
  BY <1>5, <1>6, <1>7

\* A subscriber's session goes on with its handle.
LEMMA SubTyped ==
  ASSUME Typed, NEW w \in Workers, pc[w] \in SubLabels, NEW p \in SubLabels, NEW r, Moves(w, p, r),
         r.box = Box(w), r.slot = Slot(w), r.fd = Fd(w), p = "deliver" => r.msg \in Seq(Chars),
         FsTyped', InodesCounted', TableTyped', QueueTyped', Sleepers(w, p),
         oft'[Fd(w)] # None, \A e \in Handles \ {Fd(w)} : oft'[e] = oft[e],
         \/ mutex' = mutex /\ (p \in LockLabels <=> pc[w] \in LockLabels)
         \/ Lock(w) /\ p \in LockLabels /\ pc[w] \notin LockLabels
         \/ Unlock(w) /\ p \notin LockLabels /\ pc[w] \in LockLabels,
         got' \in [Workers -> Seq(Seq(Chars))], crashed' \in BOOLEAN
  PROVE  Typed'
<1>1. SubLabels \subseteq HandleLabels /\ SubLabels \subseteq Labels /\ SubLabels \subseteq SlotLabels /\ "write" \notin SubLabels
  BY DEF SubLabels, HandleLabels, Labels, SlotLabels, BoxLabels
<1>2. LocalsTyped(pc[w], work[w])
  BY WorkerTyped DEF Typed
<1>3. LocalsTyped(p, r) /\ Slot(w) \in Slots
  BY <1>2 DEF LocalsTyped, BoxLabels, SlotLabels, HandleLabels, PubLabels, SubLabels, Box, Slot, Fd
<1>4. Fd(w) \in Handles
  BY <1>1, HandleHeld
<1>5. \A v \in Workers \ {w} : pc[v] \in HandleLabels => oft'[Fd(v)] = oft[Fd(v)]
  BY <1>1, <1>4, OthersHandles
<1> QED
  BY <1>1, <1>3, <1>5, HeldTyped

\* The same, with the locals as they are.
LEMMA SubJumpTyped ==
  ASSUME Typed, NEW w \in Workers, pc[w] \in SubLabels, NEW p \in SubLabels \ {"deliver"}, Jump(w, p), Sleepers(w, p),
         UNCHANGED <<fsVars, table>>,
         \/ mutex' = mutex /\ (p \in LockLabels <=> pc[w] \in LockLabels)
         \/ Lock(w) /\ p \in LockLabels /\ pc[w] \notin LockLabels
         \/ Unlock(w) /\ p \notin LockLabels /\ pc[w] \in LockLabels
  PROVE  Typed'
<1>1. IsWork(work[w])
  BY WorkerTyped DEF Typed
<1>2. Moves(w, p, work[w]) /\ UNCHANGED <<bqVars, envVars, got, crashed>>
  BY <1>1, GotoMoves DEF Jump, Typed
<1>3. QueueTyped' /\ got' \in [Workers -> Seq(Seq(Chars))] /\ crashed' \in BOOLEAN
  BY <1>2, QueueStays DEF Typed, WorkersTyped
<1>4. FsTyped' /\ InodesCounted' /\ TableTyped' /\ oft' = oft
  BY FsStays, TableStays DEF fsVars
<1>5. oft[Fd(w)] # None
  BY HandleHeld DEF HandleLabels
<1> QED
  BY <1>2, <1>3, <1>4, <1>5, SubTyped DEF Box, Slot, Fd

\* A subscriber's session takes the mutex of its box: the types stay.
LEMMA SubLockTyped == ASSUME Typed, NEW w \in Workers, SubLock(w) PROVE Typed'
<1>1. /\ pc[w] = "subLock" /\ Jump(w, "subRead") /\ UNCHANGED <<fsVars, table>> /\ Lock(w) /\ asleep' = asleep
  BY DEF SubLock, At
<1>2. Sleepers(w, "subRead")
  BY <1>1 DEF Sleepers, Typed, MutexesOwned
<1> QED
  BY <1>1, <1>2, SubJumpTyped DEF SubLabels, LockLabels

\* A subscriber's session has been woken and takes the mutex again: the types
\* stay.
LEMMA SubWakeTyped == ASSUME Typed, NEW w \in Workers, SubWake(w) PROVE Typed'
<1>1. /\ pc[w] = "woken" /\ w \notin asleep
      /\ Jump(w, "subRead") /\ UNCHANGED <<fsVars, table>> /\ Lock(w) /\ asleep' = asleep
  BY DEF SubWake, At
<1>2. Sleepers(w, "subRead")
  BY <1>1 DEF Sleepers, Typed, MutexesOwned
<1> QED
  BY <1>1, <1>2, SubJumpTyped DEF SubLabels, LockLabels

\* A subscriber's session waits, and lets go of the mutex: the types stay.
LEMMA SubSleepTyped == ASSUME Typed, NEW w \in Workers, SubSleep(w) PROVE Typed'
<1>1. /\ pc[w] = "sleep" /\ Jump(w, "woken") /\ UNCHANGED <<fsVars, table>> /\ Unlock(w)
      /\ asleep' = asleep \cup {w}
  BY DEF SubSleep, At
<1>2. Sleepers(w, "woken")
  BY <1>1 DEF Sleepers, Typed, MutexesOwned
<1> QED
  BY <1>1, <1>2, SubJumpTyped DEF SubLabels, LockLabels

\* A subscriber's session looks whether its box was removed: the types stay.
LEMMA SubFreeTyped == ASSUME Typed, NEW w \in Workers, SubFree(w) PROVE Typed'
<1>1. IsWork(work[w]) /\ LocalsTyped("subFree", work[w]) /\ pc[w] = "subFree"
  BY AtTyped DEF SubFree
<1>2. /\ UNCHANGED <<fsVars, table, asleep>>
      /\ \/ Unlock(w) /\ Jump(w, "leave")
         \/ Jump(w, "sleep") /\ mutex' = mutex
  BY DEF SubFree
<1>3. CASE Unlock(w) /\ Jump(w, "leave")
  <2>1. LocalsTyped("leave", work[w])
    BY <1>1 DEF LocalsTyped, BoxLabels, SlotLabels, HandleLabels, PubLabels, SubLabels
  <2>2. FsTyped' /\ InodesCounted' /\ TableTyped' /\ oft' = oft
    BY <1>2, FsStays, TableStays DEF fsVars
  <2> QED
    BY <1>1, <1>2, <1>3, <2>1, <2>2, GotoLeftTyped, PlainLabels DEF Jump, LockLabels
<1>4. CASE Jump(w, "sleep") /\ mutex' = mutex
  <2>1. Sleepers(w, "sleep")
    BY <1>1, <1>2 DEF Sleepers, Typed, MutexesOwned
  <2> QED
    BY <1>1, <1>2, <1>4, <2>1, SubJumpTyped DEF SubLabels, LockLabels
<1> QED
  BY <1>2, <1>3, <1>4

\* A subscriber's session reads the next message: the types stay.
LEMMA SubTakeTyped == ASSUME Typed, NEW w \in Workers, SubTake(w) PROVE Typed'
<1> DEFINE d == Fd(w)
           m == ReadResult(d)
           rec == [work[w] EXCEPT !.msg = m]
<1>1. IsWork(work[w]) /\ LocalsTyped("subRead", work[w]) /\ pc[w] = "subRead" /\ pc[w] \in SubLabels
  BY AtTyped DEF SubTake, SubLabels
<1>2. UNCHANGED <<boxVars, bqVars, envVars, got>>
  BY DEF SubTake
<1>3. CASE ReadDies(d)
  <2>1. crashed' = TRUE /\ UNCHANGED <<fsVars, pc, work>>
    BY <1>3 DEF SubTake, Fd
  <2> QED
    BY <1>2, <2>1, FsStays, QueueStays, TableStays
    DEF Typed, WorkersTyped, HandlesOwned, MutexesOwned, fsVars, boxVars, Fd, Slot
<1>4. CASE ~ReadDies(d)
  <2>1. /\ TfsRead(d) /\ work' = [work EXCEPT ![w].msg = m]
        /\ crashed' = crashed
    BY <1>4 DEF SubTake, Fd
  <2>2. PICK p \in {"subFree", "deliver"} : pc' = [pc EXCEPT ![w] = p]
    BY <1>4 DEF SubTake, Fd
  <2>3. d \in Handles /\ oft[d] # None
    BY <1>1, HandleHeld DEF SubLabels, HandleLabels
  <2>4. m \in Seq(Chars)
    BY <2>3, ReadTyped DEF Typed
  <2>5. /\ FsTyped' /\ InodesCounted' /\ oft'[d] # None
        /\ \A e \in Handles \ {d} : oft'[e] = oft[e]
    BY <2>1, <2>3, ReadFs DEF Typed
  <2> HIDE DEF m
  <2>6. IsWork(rec) /\ rec.msg = m /\ rec.box = work[w].box /\ rec.slot = work[w].slot /\ rec.fd = work[w].fd
    BY <1>1, SetMsg
  <2>7. \A v \in Workers : IsWork(work[v]) /\ work = [u \in Workers |-> work[u]]
    BY DEF Typed, WorkersTyped
  <2>8. work' = [v \in Workers |-> IF v = w THEN rec ELSE work[v]]
    BY <2>1, <2>7
  <2> HIDE DEF rec
  <2>9. Moves(w, p, rec)
    BY <2>2, <2>6, <2>7, <2>8 DEF Moves, Same
  <2>10. QueueTyped' /\ TableTyped' /\ got' \in [Workers -> Seq(Seq(Chars))] /\ crashed' \in BOOLEAN
    BY <1>2, <2>1, QueueStays, TableStays DEF Typed, WorkersTyped, boxVars
  <2>11. Sleepers(w, p)
    BY <1>1, <1>2 DEF Sleepers, Typed, MutexesOwned, boxVars
  <2>12. mutex' = mutex /\ p \in LockLabels /\ pc[w] \in LockLabels /\ p \in SubLabels
    BY <1>1, <1>2, <2>2 DEF boxVars, LockLabels, SubLabels
  <2> QED
    BY <1>1, <2>4, <2>5, <2>6, <2>9, <2>10, <2>11, <2>12, SubTyped DEF Box, Slot, Fd
<1> QED
  BY <1>3, <1>4

\* A subscriber's session writes the message to its client: the types stay.
LEMMA SubDeliverTyped == ASSUME Typed, NEW w \in Workers, SubDeliver(w) PROVE Typed'
<1> DEFINE rec == [work[w] EXCEPT !.msg = <<>>]
<1>1. IsWork(work[w]) /\ LocalsTyped("deliver", work[w]) /\ pc[w] = "deliver" /\ pc[w] \in SubLabels
  BY AtTyped DEF SubDeliver, SubLabels
<1>2. Unlock(w) /\ work' = [work EXCEPT ![w].msg = <<>>] /\ UNCHANGED <<fsVars, bqVars, table, asleep, envVars, crashed>>
  BY DEF SubDeliver
<1>3. IsWork(rec) /\ rec.box = work[w].box /\ rec.slot = work[w].slot /\ rec.fd = work[w].fd
  BY <1>1, SetMsg
<1>4. \A v \in Workers : IsWork(work[v]) /\ work = [u \in Workers |-> work[u]]
  BY DEF Typed, WorkersTyped
<1>5. work' = [v \in Workers |-> IF v = w THEN rec ELSE work[v]]
  BY <1>2, <1>4
<1> HIDE DEF rec
<1>6. PICK p \in {"subLock", "leave"} : pc' = [pc EXCEPT ![w] = p]
  BY DEF SubDeliver
<1>7. Moves(w, p, rec)
  BY <1>3, <1>4, <1>5, <1>6 DEF Moves, Same
<1>8. got' \in [Workers -> Seq(Seq(Chars))] /\ crashed' \in BOOLEAN /\ crashed' = crashed
  <2>1. got \in [Workers -> Seq(Seq(Chars))] /\ crashed \in BOOLEAN
    BY DEF Typed, WorkersTyped
  <2>2. work[w].msg \in Seq(Chars)
    BY <1>1 DEF LocalsTyped
  <2>3. Append(got[w], work[w].msg) \in Seq(Seq(Chars))
    BY <2>1, <2>2
  <2>4. got' = got \/ got' = [got EXCEPT ![w] = Append(got[w], work[w].msg)]
    BY DEF SubDeliver
  <2> QED
    BY <1>2, <2>1, <2>3, <2>4
<1>9. FsTyped' /\ InodesCounted' /\ TableTyped' /\ QueueTyped' /\ oft' = oft
  BY <1>2, FsStays, TableStays, QueueStays DEF fsVars
<1>10. oft[Fd(w)] # None /\ pc[w] \in LockLabels
  BY <1>1, HandleHeld DEF SubLabels, HandleLabels, LockLabels
<1>11. CASE p = "subLock"
  <2>1. Sleepers(w, p)
    BY <1>1, <1>2 DEF Sleepers, Typed, MutexesOwned
  <2>2. p \notin LockLabels /\ p \in SubLabels /\ p # "deliver"
    BY <1>11 DEF LockLabels, SubLabels
  <2> QED
    BY <1>1, <1>2, <1>3, <1>7, <1>8, <1>9, <1>10, <2>1, <2>2, SubTyped DEF Box, Slot, Fd
<1>12. CASE p = "leave"
  <2>1. LocalsTyped(p, rec)
    BY <1>1, <1>3, <1>12 DEF LocalsTyped, BoxLabels, SlotLabels, HandleLabels, PubLabels, SubLabels
  <2> QED
    BY <1>2, <1>7, <1>8, <1>9, <1>10, <1>12, <2>1, LeftTyped, PlainLabels
<1> QED
  BY <1>6, <1>11, <1>12

\* The workers, and what they hold, stay as they are.
LEMMA OthersTyped ==
  ASSUME Typed, UNCHANGED <<fsVars, table, mutex, pc, work, got, crashed>>, asleep' \subseteq asleep, QueueTyped'
  PROVE  Typed'
<1>1. UNCHANGED fsVars /\ UNCHANGED table /\ oft' = oft /\ UNCHANGED <<mutex, pc, work, got, crashed>>
  BY DEF fsVars
<1>2. FsTyped' /\ InodesCounted' /\ TableTyped'
  BY <1>1, FsStays, TableStays
<1> QED
  BY <1>1, <1>2 DEF Typed, WorkersTyped, HandlesOwned, MutexesOwned, Fd, Slot

\* A request goes from the register pipe through the queue to a worker and
\* stays one of those that were sent.
LEMMA QueueStepTyped ==
  ASSUME Typed, ReadRequest \/ EnqueueRequest \/ \E w \in Workers : Dequeue(w)
  PROVE  Typed'
<1>1. QueueTyped
  BY DEF Typed
<1>2. CASE ReadRequest
  <2>1. coming # <<>> /\ coming' = Tail(coming)
    BY <1>2 DEF ReadRequest
  <2>2. PICK r \in Head(coming) : Arrive(r)
    BY <1>2 DEF ReadRequest
  <2>3. Head(coming) \in SUBSET Buffers /\ coming' \in Seq(SUBSET Buffers)
    BY <1>1, <2>1 DEF QueueTyped
  <2>4. /\ offered' = [offered EXCEPT ![Main] = r]
        /\ UNCHANGED <<queue, taken, posts>>
        /\ UNCHANGED <<fsVars, boxVars>> /\ UNCHANGED <<pc, work, got, crashed>>
    BY <2>2 DEF Arrive, RequestQueue!Offer
  <2>5. QueueTyped'
    BY <1>1, <2>2, <2>3, <2>4 DEF QueueTyped
  <2> QED
    BY <2>4, <2>5, OthersTyped DEF boxVars
<1>3. CASE EnqueueRequest
  <2>1. /\ offered[Main] # None /\ queue' = Append(queue, offered[Main])
        /\ offered' = [offered EXCEPT ![Main] = None]
        /\ UNCHANGED <<taken, envVars>>
        /\ UNCHANGED <<fsVars, boxVars>> /\ UNCHANGED <<pc, work, got, crashed>>
    BY <1>3 DEF EnqueueRequest, RequestQueue!Enq
  <2>2. offered[Main] \in Buffers
    BY <1>1, <2>1 DEF QueueTyped
  <2>3. QueueTyped'
    BY <1>1, <2>1, <2>2 DEF QueueTyped, envVars
  <2> QED
    BY <2>1, <2>3, OthersTyped DEF boxVars
<1>4. CASE \E w \in Workers : Dequeue(w)
  <2>1. PICK w \in Workers : Dequeue(w)
    BY <1>4
  <2>2. /\ queue # <<>> /\ taken' = [taken EXCEPT ![w] = Head(queue)] /\ queue' = Tail(queue)
        /\ UNCHANGED <<offered, envVars>>
        /\ UNCHANGED <<fsVars, boxVars>> /\ UNCHANGED <<pc, work, got, crashed>>
    BY <2>1 DEF Dequeue, RequestQueue!Deq
  <2>3. Head(queue) \in Buffers /\ queue' \in Seq(Buffers)
    BY <1>1, <2>2 DEF QueueTyped
  <2>4. QueueTyped'
    BY <1>1, <2>2, <2>3 DEF QueueTyped, envVars
  <2> QED
    BY <2>2, <2>4, OthersTyped DEF boxVars
<1> QED
  BY <1>2, <1>3, <1>4

\* A subscriber that wakes up by itself (pthread_cond_wait) is not asleep any
\* more.
LEMMA SpuriousTyped == ASSUME Typed, NEW w \in Workers, SpuriousWakeup(w) PROVE Typed'
<1>1. UNCHANGED <<fsVars, table, mutex, pc, work, got, crashed>> /\ asleep' \subseteq asleep /\ QueueTyped'
  BY QueueStays DEF SpuriousWakeup
<1> QED
  BY <1>1, OthersTyped

\* A request that can be decoded names a box, unless it is to list all boxes.
LEMMA DecodeMoves ==
  ASSUME Typed, NEW w \in Workers, Decode(w)
  PROVE  \/ UNCHANGED <<pc, work>>
         \/ \E p, r : p \in {"listCount", "lookup"} /\ Moves(w, p, r) /\ LocalsTyped(p, r)
<1> DEFINE req == decode(taken[w])
           rec == [NoWork EXCEPT !.code = req.code, !.client = req.client, !.box = req.box]
<1>1. QueueTyped /\ pc[w] = "idle" /\ taken[w] # None
  BY DEF Decode, At, RequestQueue!Deliver, Typed
<1>2. SUFFICES ASSUME /\ Decodes(taken[w])
                      /\ pc' = [pc EXCEPT ![w] = IF req.code = REQUEST_LIST_BOX THEN "listCount" ELSE "lookup"]
                      /\ work' = [work EXCEPT ![w] = rec]
               PROVE  \E p, r : p \in {"listCount", "lookup"} /\ Moves(w, p, r) /\ LocalsTyped(p, r)
  BY DEF Decode
<1>3. IsWork(rec) /\ rec.code = req.code /\ rec.box = req.box
  <2>1. rec = Begun(NoWork, req.code, req.client, req.box, NoWork.tmp)
    BY NoWorkIs, SetBegun
  <2> HIDE DEF rec, req
  <2> QED
    BY <2>1, BegunIs
<1>4. taken[w] \in Buffers
  BY <1>1 DEF QueueTyped
<1>5. req.code \in RegisterRequests \cup {REQUEST_LIST_BOX} /\ (req.code \in RegisterRequests => req.box \in Boxes)
  <2>1. /\ req.code = taken[w][1]
        /\ taken[w][1] # REQUEST_LIST_BOX => req.box = taken[w][BoxAt]
    BY DEF decode
  <2>2. taken[w][1] \in RegisterRequests => taken[w][BoxAt] \in Boxes
    BY <1>4, RequestsTyped
  <2>3. REQUEST_LIST_BOX \notin RegisterRequests
    BY DEF RegisterRequests, REQUEST_LIST_BOX, REQUEST_REGISTER_PUBLISHER, REQUEST_REGISTER_SUBSCRIBER,
           REQUEST_CREATE_BOX, REQUEST_REMOVE_BOX
  <2> QED
    BY <1>2, <2>1, <2>2, <2>3 DEF Decodes
<1>6. PICK p \in {"listCount", "lookup"} :
        /\ pc' = [pc EXCEPT ![w] = p]
        /\ p = "lookup" => req.code \in RegisterRequests
  BY <1>2, <1>5
<1>7. \A v \in Workers : IsWork(work[v]) /\ work = [u \in Workers |-> work[u]]
  BY DEF Typed, WorkersTyped
<1> HIDE DEF rec, req
<1>8. work' = [v \in Workers |-> IF v = w THEN rec ELSE work[v]]
  BY <1>2, <1>7
<1>9. Moves(w, p, rec)
  BY <1>3, <1>6, <1>7, <1>8 DEF Moves, Same
<1>10. LocalsTyped(p, rec)
  BY <1>3, <1>5, <1>6 DEF LocalsTyped, BoxLabels, SlotLabels, HandleLabels, PubLabels, SubLabels
<1> QED
  BY <1>6, <1>9, <1>10

\* A worker decodes what it has dequeued; a register request names a box, and a
\* worker with another code goes on to its next request.
LEMMA DecodeTyped == ASSUME Typed, NEW w \in Workers, Decode(w) PROVE Typed'
<1>1. /\ pc[w] = "idle" /\ taken' = [taken EXCEPT ![w] = None]
      /\ UNCHANGED <<queue, offered, envVars>> /\ UNCHANGED <<fsVars, boxVars>> /\ UNCHANGED <<got, crashed>>
  BY DEF Decode, At, RequestQueue!Deliver
<1>2. QueueTyped'
  BY <1>1 DEF Typed, QueueTyped, envVars
<1>3. CASE UNCHANGED <<pc, work>>
  BY <1>1, <1>2, <1>3, OthersTyped DEF boxVars
<1>4. CASE \E p, r : p \in {"listCount", "lookup"} /\ Moves(w, p, r) /\ LocalsTyped(p, r)
  <2>1. PICK p, r : p \in {"listCount", "lookup"} /\ Moves(w, p, r) /\ LocalsTyped(p, r)
    BY <1>4
  <2>2. got' \in [Workers -> Seq(Seq(Chars))] /\ crashed' = crashed
    BY <1>1 DEF Typed, WorkersTyped
  <2> QED
    BY <1>1, <1>2, <2>1, <2>2, BoxesStay, PlainTyped, PlainLabels
<1> QED
  BY <1>3, <1>4, DecodeMoves

-----------------------------------------------------------------------------
(* Types, handles and mutexes: the invariant *)

\* When mbroker starts there are no files, boxes, sessions or requests in the
\* queue.
LEMMA InitTyped == Init => Typed
<1> SUFFICES ASSUME Init PROVE Typed
  OBVIOUS
<1>1. FsTyped
  <2>1. EmptyFile \in [size : 0 .. BlockSize, block : Blocks \cup {None}]
    BY BrokerSizes DEF EmptyFile
  <2> QED
    BY <2>1 DEF Init, FsInit, FsTyped
<1>2. QueueTyped
  BY RequestsTyped DEF Init, QueueTyped, RequestQueue!BQInit
<1>3. TableTyped
  <2>1. FreeBox \in BoxRecords
    <3>1. ASSUME NEW f \in BOOLEAN
          PROVE  BoxRecord(f, None, 0, 0, 0, [w \in Workers |-> "none"]) \in BoxRecords
      BY FreeBoxIs, BoxRecordTyped
    <3> QED
      BY <3>1, FreeBoxIs, Zenon
  <2>2. table = [i \in Slots |-> FreeBox]
    BY DEF Init
  <2> QED
    BY <2>1, <2>2, TableIs
<1>4. pc = [w \in Workers |-> "idle"] /\ work = [w \in Workers |-> NoWork] /\ got = [w \in Workers |-> <<>>]
      /\ crashed = FALSE /\ asleep = {} /\ mutex = [i \in Slots |-> None]
  BY DEF Init
<1>5. WorkersTyped
  <2>1. "idle" \in Labels /\ LocalsTyped("idle", NoWork)
    BY DEF Labels, LocalsTyped, BoxLabels, SlotLabels, HandleLabels, PubLabels, SubLabels
  <2>2. \A w \in Workers : pc[w] = "idle" /\ work[w] = NoWork
    BY <1>4
  <2>3. work = [w \in Workers |-> work[w]]
    BY <1>4
  <2>4. pc \in [Workers -> Labels] /\ got \in [Workers -> Seq(Seq(Chars))]
    BY <1>4, <2>1
  <2> QED
    BY <1>4, <2>1, <2>2, <2>3, <2>4, NoWorkIs DEF WorkersTyped
<1>6. InodesCounted
  <2>1. NamesWithFiles = {} /\ takenI = {}
    BY DEF Init, FsInit, NamesWithFiles, Exists
  <2> QED
    BY <2>1, FS_EmptySet, BrokerSizes DEF InodesCounted
<1>7. HandlesOwned
  BY <1>4 DEF HandlesOwned, HandleLabels, SubLabels
<1>8. MutexesOwned
  BY <1>4, BrokerSizes DEF MutexesOwned, LockLabels
<1> QED
  BY <1>1, <1>2, <1>3, <1>5, <1>6, <1>7, <1>8 DEF Typed

\* Every step of a worker keeps the types and the owners of handles and
\* mutexes.
LEMMA StepTyped == ASSUME Typed, NEW w \in Workers, Step(w) PROVE Typed'
<1>1. CASE Dequeue(w) \/ Decode(w) \/ LookupBox(w)
  BY <1>1, QueueStepTyped, DecodeTyped, LookupTyped
<1>2. CASE CreateBox(w)
  BY <1>2, CreateSlotTyped, CreateFileTyped, CreateCloseTyped, CreateNameTyped, CreateResetTyped DEF CreateBox
<1>3. CASE RemoveBox(w)
  BY <1>3, RemoveBusyTyped, RemoveFileTyped, RemoveClearTyped, RemoveHangupTyped, RemoveWakeTyped DEF RemoveBox
<1>4. CASE ListBox(w) \/ Reply(w) \/ Deny(w)
  BY <1>4, ListTyped, ReplyTyped
<1>5. CASE PubStart(w)
  BY <1>5, PubCheckTyped, PubCountTyped, PubPipeTyped DEF PubStart
<1>6. CASE PubPost(w)
  BY <1>6, PubLockTyped, PubOpenTyped, PubWriteTyped, PubSizeTyped, PubCloseTyped, PubAnnounceTyped, PubReleaseTyped
  DEF PubPost
<1>7. CASE SubStart(w)
  BY <1>7, SubReadTyped, SubEnterTyped, SubPipeTyped, SubOpenTyped DEF SubStart
<1>8. CASE SubLoop(w)
  BY <1>8, SubLockTyped, SubTakeTyped, SubFreeTyped, SubSleepTyped, SubWakeTyped, SubDeliverTyped, SubLeaveTyped,
     SubUncountTyped DEF SubLoop
<1> QED
  BY <1>1, <1>2, <1>3, <1>4, <1>5, <1>6, <1>7, <1>8 DEF Step

\* So does every step of mbroker.
LEMMA NextTyped == Typed /\ [Next]_vars => Typed'
<1> SUFFICES ASSUME Typed, [Next]_vars PROVE Typed'
  OBVIOUS
<1>1. CASE ReadRequest \/ EnqueueRequest
  BY <1>1, QueueStepTyped
<1>2. CASE \E w \in Workers : Step(w) \/ PubReceive(w) \/ SpuriousWakeup(w)
  BY <1>2, StepTyped, PubReceiveTyped, SpuriousTyped
<1>3. CASE UNCHANGED vars
  <2>1. UNCHANGED <<fsVars, boxVars>> /\ UNCHANGED <<bqVars, envVars>> /\ UNCHANGED <<pc, work, got, crashed>>
    BY <1>3 DEF vars
  <2> QED
    BY <2>1, QueueStays, OthersTyped DEF boxVars
<1> QED
  BY <1>1, <1>2, <1>3 DEF Next, Over

\* In every behaviour of mbroker the variables keep their types, each file has
\* an inode and each session a handle of its own, and a mutex belongs to the
\* worker that is in its critical section.
THEOREM BrokerTyped == Spec => []Typed
  BY InitTyped, NextTyped, PTL DEF Spec

\* The state stays within the types that the code's structures have, and only
\* workers that wait sleep.
THEOREM TypeCorrect == Spec => []TypeOK
<1>1. Typed => TypeOK
  BY DEF Typed, TypeOK, FsTyped, TableTyped, WorkersTyped, MutexesOwned
<1> QED
  BY <1>1, BrokerTyped, PTL

\* At most one worker is between pthread_mutex_lock and pthread_mutex_unlock
\* of a box.
THEOREM MutexesExclude ==
  Spec => [](\A v, w \in Workers :
               pc[v] \in LockLabels /\ pc[w] \in LockLabels /\ Slot(v) = Slot(w) => v = w)
<1>1. Typed => \A v, w \in Workers :
                 pc[v] \in LockLabels /\ pc[w] \in LockLabels /\ Slot(v) = Slot(w) => v = w
  <2> SUFFICES ASSUME Typed, NEW v \in Workers, NEW w \in Workers,
                      pc[v] \in LockLabels, pc[w] \in LockLabels, Slot(v) = Slot(w)
               PROVE  v = w
    OBVIOUS
  <2>1. Slot(v) \in Slots
    <3>1. LocalsTyped(pc[v], work[v])
      BY WorkerTyped DEF Typed
    <3> QED
      BY <3>1 DEF LocalsTyped, LockLabels, SlotLabels, BoxLabels, PubLabels, SubLabels, Slot
  <2> QED
    BY <2>1 DEF Typed, MutexesOwned
<1> QED
  BY <1>1, BrokerTyped, PTL
=============================================================================
