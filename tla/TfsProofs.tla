----------------------------- MODULE TfsProofs -----------------------------
(***************************************************************************)
(* What TecnicoFS (Tfs) keeps to for every number of threads, every        *)
(* program they run and every size of its tables: the types, the locks     *)
(* that an operation holds at each of its steps, and that operations       *)
(* block each other for good only along symbolic links.                    *)
(***************************************************************************)
EXTENDS Tfs, NaturalsLemmas, SequenceTheorems, TLAPS

-----------------------------------------------------------------------------
(* The inductive invariant *)

Frames == [call : Calls \cup {NoFrame.call}, inum : Inodes \cup {None},
           other : Nat \cup {None}, tmp : Nat, got : Seq(CellValues)]

Copies == [source : Seq(Data), sent : Nat, total : Int, written : Int, returns : {None, 0, -1}]

\* Labels before which nothing is locked or looked up.
Fresh == {"idle", "lookup", "entry"}

\* Labels at which inum is the inode that the operation works on.
WithInode == {"lock", "addfile", "init", "finish", "created", "abort", "add",
              "type", "name", "read", "write", "clear", "drop"}

\* Labels at which a handle's entry is locked.
WithFd == {"data", "size", "copy", "offset"}

Labels == Fresh \cup WithInode \cup WithFd \cup {"alloc", "target"}

\* Which operations a label belongs to.
OpFits(l, op) ==
    /\ l = "lookup" => op \in {"open", "symlink", "link", "unlink", "copy"}
    /\ l \in {"lock", "addfile"} => op = "open"
    /\ l \in {"alloc", "init", "finish", "created", "abort"} => op \in {"open", "symlink"}
    /\ l = "target" => op = "symlink"
    /\ l = "add" => op \in {"symlink", "link"}
    /\ l \in {"type", "name", "write"} => op = "link"
    /\ l = "read" => op \in {"link", "unlink"}
    /\ l \in {"clear", "drop"} => op = "unlink"
    /\ l = "entry" => op \in OnHandle
    /\ l = "data" => op = "write"
    /\ l \in {"size", "copy", "offset"} => op = "read"

\* What the locals of an operation hold at its labels.
LocalsFit(l, f) ==
    /\ l \in Fresh => f.inum = None /\ f.other = None /\ f.tmp = 0
    /\ l = "idle" => f = NoFrame
    /\ l \in WithInode => f.inum \in Inodes
    /\ l = "lock" => f.other \in Inodes \cup {None}
    /\ f.call.op = "symlink" /\ l # "lookup" => f.other \in Inodes
    /\ f.call.op = "open" => f.tmp \in 0 .. BlockSize
    /\ l = "offset" => f.other \in Nat
    /\ l \in {"entry"} \cup WithFd => f.call.fd \in Fds

Fits(l, f) == l \in Labels /\ f \in Frames /\ OpFits(l, f.call.op) /\ LocalsFit(l, f)

\* A handle's entry stays as long as its lock is held: nobody closes it.
FileKept(t) == pc[t] \in WithFd => File(t) # None

Typed ==
    /\ TypeOK
    /\ pc \in [Threads -> Labels] /\ frame \in [Threads -> Frames]
    /\ todo \in [Threads -> Seq(SUBSET Calls)]
    /\ copying \in [Threads -> Copies \cup {None}]
    /\ \A t \in Threads : Fits(pc[t], frame[t]) /\ FileKept(t)

\* What t has locked, and how, when it is about to take the step at label l,
\* with locals f and, where its handle's entry is locked, that entry.
OwnsTarget(t, f) == IF f.call.op = "symlink" THEN {<<t, "rd", LinkLock(f.other)>>} ELSE {}

Owns(t, l, f, file) ==
    CASE l = "lock" /\ f.other # None -> {<<t, "wr", InodeLock(f.other)>>}
      [] l = "addfile" -> {<<t, "wr", InodeLock(f.inum)>>}
      [] l \in {"alloc", "init", "created"} -> OwnsTarget(t, f)
      [] l \in {"finish", "abort"} -> {<<t, "wr", InodeLock(f.inum)>>} \cup OwnsTarget(t, f)
      [] l = "add" -> {<<t, "wr", LinkLock(f.inum)>>} \cup OwnsTarget(t, f)
      [] l \in {"name", "write"} \/ (l = "read" /\ f.call.op = "link") -> {<<t, "wr", LinkLock(f.inum)>>}
      [] l = "drop" \/ (l = "read" /\ f.call.op = "unlink") -> {<<t, "wr", InodeLock(f.inum)>>}
      [] l = "data" -> {<<t, "wr", FdLock(f.call.fd)>>}
      [] l = "size" -> {<<t, "rd", FdLock(f.call.fd)>>}
      [] l \in {"copy", "offset"} -> {<<t, "rd", FdLock(f.call.fd)>>, <<t, "rd", InodeLock(file.inum)>>}
      [] OTHER -> {}

Owned(t) == Owns(t, pc[t], frame[t], File(t))

\* The locks held are those, no more and no fewer.
LocksOwned == /\ \A h \in held : h \in Owned(h[1])
              /\ \A t \in Threads : Owned(t) \subseteq held

\* pthread_rwlock: a lock that is held for writing is held once.
WritersAlone == \A g, h \in held : g[3] = h[3] /\ g # h => g[2] = "rd" /\ h[2] = "rd"

IInv == Typed /\ LocksOwned /\ WritersAlone

-----------------------------------------------------------------------------
(* Lemmas about the operators *)

\* A frame with some of its locals changed.
Frame(f, i, o, n, cells) == [call |-> f.call, inum |-> i, other |-> o, tmp |-> n, got |-> cells]

\* Setting fields of a frame, as the operations do with their local variables,
\* gives a frame again.
LEMMA Locals ==
  ASSUME NEW f \in Frames, NEW i, NEW o, NEW n
  PROVE  /\ [f EXCEPT !.inum = i] = Frame(f, i, f.other, f.tmp, f.got)
         /\ [f EXCEPT !.other = o] = Frame(f, f.inum, o, f.tmp, f.got)
         /\ [f EXCEPT !.tmp = n] = Frame(f, f.inum, f.other, n, f.got)
         /\ [f EXCEPT !.inum = i, !.other = o] = Frame(f, i, o, f.tmp, f.got)
         /\ [f EXCEPT !.other = o, !.tmp = n] = Frame(f, f.inum, o, n, f.got)
<1>0. f = [call |-> f.call, inum |-> f.inum, other |-> f.other, tmp |-> f.tmp, got |-> f.got]
  BY DEF Frames
<1>1. [f EXCEPT !.inum = i] = Frame(f, i, f.other, f.tmp, f.got)
  BY <1>0 DEF Frame
<1>2. [f EXCEPT !.other = o] = Frame(f, f.inum, o, f.tmp, f.got)
  BY <1>0 DEF Frame
<1>3. [f EXCEPT !.tmp = n] = Frame(f, f.inum, f.other, n, f.got)
  BY <1>0 DEF Frame
<1>4. [f EXCEPT !.inum = i, !.other = o] = Frame(f, i, o, f.tmp, f.got)
  <2>1. ASSUME NEW g, g = Frame(f, i, f.other, f.tmp, f.got)
        PROVE  [g EXCEPT !.other = o] = Frame(f, i, o, f.tmp, f.got)
    BY <2>1 DEF Frame
  <2> QED
    BY <1>1, <2>1
<1>5. ASSUME NEW g, g = Frame(f, f.inum, o, f.tmp, f.got)
      PROVE  [g EXCEPT !.tmp = n] = Frame(f, f.inum, o, n, f.got)
  BY <1>5 DEF Frame
<1>6. [f EXCEPT !.other = o, !.tmp = n] = Frame(f, f.inum, o, n, f.got)
  BY <1>2, <1>5
<1> QED
  BY <1>1, <1>2, <1>3, <1>4, <1>6

\* tfs_read remembers i_size - of_offset and the characters it copies.
LEMMA LocalsRead ==
  ASSUME NEW f \in Frames, NEW o, NEW cells
  PROVE  [f EXCEPT !.other = o, !.got = cells] = Frame(f, f.inum, o, f.tmp, cells)
<1>1. [f EXCEPT !.other = o] = Frame(f, f.inum, o, f.tmp, f.got)
  BY DEF Frames, Frame
<1>2. ASSUME NEW g, g = Frame(f, f.inum, o, f.tmp, f.got)
      PROVE  [g EXCEPT !.got = cells] = Frame(f, f.inum, o, f.tmp, cells)
  BY <1>2 DEF Frame
<1> QED
  BY <1>1, <1>2

\* The frames that operations build are frames, and each field is what was put
\* there.
LEMMA FrameTyped ==
  ASSUME NEW f \in Frames, NEW i \in Inodes \cup {None}, NEW o \in Nat \cup {None}, NEW n \in Nat,
         NEW cells \in Seq(CellValues)
  PROVE  /\ Frame(f, i, o, n, cells) \in Frames
         /\ Frame(f, i, o, n, cells).call = f.call
         /\ Frame(f, i, o, n, cells).inum = i
         /\ Frame(f, i, o, n, cells).other = o
         /\ Frame(f, i, o, n, cells).tmp = n
  BY DEF Frames, Frame

\* First picks an element of a set of numbers.
LEMMA FirstIsIn == ASSUME NEW S \in SUBSET Nat, S # {} PROVE First(S) \in S
  BY LeastNumber DEF First

\* The constants as sizes.
LEMMA Sizes ==
  /\ BlockSize \in Nat \ {0} /\ MaxOffset \in Nat /\ BlockSize <= MaxOffset
  /\ None \notin Nat /\ None \notin Names
  BY TfsStateAssumption, TfsAssumption

\* find_in_dir returns an inumber or -1.
LEMMA LookupType == ASSUME TypeOK, NEW n PROVE Lookup(n) \in Inodes \cup {None}
<1>1. EntriesFor(n) \in SUBSET Nat
  BY DEF EntriesFor, Entries
<1>2. CASE EntriesFor(n) # {}
  <2>1. First(EntriesFor(n)) \in EntriesFor(n)
    BY <1>1, <1>2, FirstIsIn
  <2>2. dir[First(EntriesFor(n))].inum \in Inodes
    BY <2>1 DEF EntriesFor, TypeOK, FreeEntry
  <2> QED
    BY <2>2 DEF Lookup
<1> QED
  BY <1>2 DEF Lookup

\* A cell of fs_data holds a character, the name in a link, or nothing.
LEMMA CellType == ASSUME TypeOK, NEW b, NEW k PROVE Cell(b, k) \in CellValues
  BY DEF TypeOK, Cell, CellValues

\* The arguments of a call have the types that its operation gives them.
LEMMA CallFields ==
  ASSUME NEW c \in Calls
  PROVE  /\ c.op \in {"open", "symlink", "link", "unlink", "close", "write", "read", "copy"}
         /\ c.op \in {"open", "symlink", "link", "unlink", "copy"} => c.name \in Names
         /\ c.op = "open" => c.mode \in SUBSET Modes
         /\ c.op \in {"symlink", "link"} => c.target \in Names
         /\ c.op \in OnHandle => c.fd \in Fds \cup {None}
         /\ c.op \in {"write", "copy"} => c.cells \in Seq(Data)
         /\ c.op = "read" => c.len \in Nat
  BY DEF Calls, OnHandle

-----------------------------------------------------------------------------
\* The inductive invariant holds in the state that tfs_init leaves.
LEMMA IInvInit == Init => IInv
<1> SUFFICES ASSUME Init PROVE IInv
  OBVIOUS
<1>1. <<>> \in Seq(CellValues)
  OBVIOUS
<1>2. Typed
  BY TfsStateAssumption, TfsAssumption, <1>1 DEF Init, StateInit, Typed, TypeOK, Frames, Copies, Fresh, WithInode, WithFd, Labels, Fits,
     OpFits, LocalsFit, FileKept, NoFrame, FreeEntry, CellValues
<1>3. LocksOwned /\ WritersAlone
  BY DEF Init, StateInit, LocksOwned, Owned, Owns, WritersAlone
<1> QED
  BY <1>2, <1>3 DEF IInv

-----------------------------------------------------------------------------
(* Types.  An operation's step either goes on or returns. *)

\* t and no other thread moves.
LEMMA MoveTyped ==
  ASSUME IInv, NEW t \in Threads, NEW l, NEW f, Fits(l, f), TypeOK',
         pc' = [pc EXCEPT ![t] = l], frame' = [frame EXCEPT ![t] = f],
         UNCHANGED todo, copying' \in [Threads -> Copies \cup {None}],
         FileKept(t)', \A u \in Threads \ {t} : pc[u] \in WithFd => oft'[Fd(u)] # None
  PROVE  Typed'
<1>1. pc' \in [Threads -> Labels] /\ frame' \in [Threads -> Frames]
  BY DEF IInv, Typed, Fits
<1>2. ASSUME NEW u \in Threads PROVE (Fits(pc[u], frame[u]) /\ FileKept(u))'
  <2>1. CASE u = t
    BY <2>1 DEF IInv, Typed, Fits, OpFits, LocalsFit
  <2>2. CASE u # t
    BY <2>2 DEF IInv, Typed, FileKept, Fd, File, Fits, OpFits, LocalsFit
  <2> QED BY <2>1, <2>2
<1> QED
  BY <1>1, <1>2 DEF IInv, Typed

\* The part of TypeOK that is about the tables.
InodeRecords == [state : {"FREE", "TAKEN"}, type : {"FILE", "SYMLINK"},
                 size : 0 .. BlockSize, block : Blocks \cup {None}, links : Nat]

DiskOK ==
    /\ inode \in [Inodes -> InodeRecords]
    /\ takenI \subseteq Inodes /\ takenB \subseteq Blocks
    /\ dir \in [Entries -> [name : Names, inum : Inodes] \cup {FreeEntry}]
    /\ oft \in [Fds -> [inum : Inodes, off : 0 .. MaxOffset] \cup {None}]
    /\ data \in [0 .. NBlocks * BlockSize - 1 -> CellValues]

HeldOK == \A h \in held : h[1] \in Threads /\ h[2] \in {"rd", "wr"}

\* A step that leaves the tables of the file system alone leaves them well-
\* typed.
LEMMA SameDisk == TypeOK /\ UNCHANGED disk => DiskOK'
  BY DEF TypeOK, DiskOK, disk, InodeRecords

\* t goes on at label l with the locals f.
LEMMA GoesOn ==
  ASSUME IInv, NEW t \in Threads, NEW l, NEW f, Goto(t, l, f), Fits(l, f),
         DiskOK', HeldOK', UNCHANGED oft, l \in WithFd => oft[f.call.fd] # None
  PROVE  Typed'
<1>1. TypeOK'
  BY DEF IInv, Typed, TypeOK, DiskOK, InodeRecords, HeldOK, Goto, client
<1>2. FileKept(t)'
  BY DEF FileKept, File, Fd, Goto, IInv, Typed
<1>3. \A u \in Threads \ {t} : pc[u] \in WithFd => oft'[Fd(u)] # None
  BY DEF IInv, Typed, FileKept, File
<1> QED
  BY <1>1, <1>2, <1>3, MoveTyped DEF Goto, client, IInv, Typed

\* t's operation returns.
LEMMA LeaveTyped ==
  ASSUME IInv, NEW t \in Threads, NEW locks, Leave(t, locks), DiskOK',
         handle' \in [Threads -> Fds \cup {None}], buf' \in [Threads -> Seq(CellValues)],
         copying' \in [Threads -> Copies \cup {None}],
         \A u \in Threads \ {t} : pc[u] \in WithFd => oft'[Fd(u)] # None
  PROVE  Typed'
<1>1. TypeOK'
  BY DEF IInv, Typed, TypeOK, DiskOK, InodeRecords, Leave, Unlocked
<1>2. Fits("idle", NoFrame)
  <2>1. <<>> \in Seq(CellValues)
    OBVIOUS
  <2> QED
    BY <2>1 DEF Fits, Labels, Fresh, WithInode, WithFd, Frames, NoFrame, OpFits, LocalsFit
<1>3. FileKept(t)'
  BY DEF FileKept, Leave, IInv, Typed, WithFd
<1> QED
  BY <1>1, <1>2, <1>3, MoveTyped DEF Leave

\* An operation that returns lets go of everything it remembers.
LEMMA ReturnTyped ==
  ASSUME IInv, NEW t \in Threads, NEW locks, Return(t, locks), DiskOK', UNCHANGED oft
  PROVE  Typed'
  BY LeaveTyped DEF Return, IInv, Typed, TypeOK, FileKept, File

\* An operation that returns -1 before it changed a table keeps all types.
LEMMA FailTyped == ASSUME IInv, NEW t \in Threads, NEW locks, Fail(t, locks) PROVE Typed'
  BY ReturnTyped, SameDisk DEF Fail, IInv, Typed, disk

\* A process that dies of an assertion, exit or undefined behaviour changes
\* nothing any more.
LEMMA CrashTyped ==
  ASSUME IInv, NEW how \in {"assert", "exit", "undefined"}, Crash(how)
  PROVE  Typed'
  BY DEF IInv, Typed, TypeOK, Crash, disk, client, FileKept, File, Fd

\* A thread's frame, and the call in it, while t is inside an operation.
LEMMA Inside ==
  ASSUME IInv, NEW t \in Threads
  PROVE  /\ pc[t] \in Labels /\ frame[t] \in Frames
         /\ OpFits(pc[t], Op(t)) /\ LocalsFit(pc[t], frame[t])
         /\ Op(t) # "none" => frame[t].call \in Calls
  BY DEF IInv, Typed, Fits, Frames, NoFrame, Op

\* The operation goes on with locals that fit its next label.
LEMMA FitsFrame ==
  ASSUME NEW f \in Frames, NEW l \in Labels \ Fresh, OpFits(l, f.call.op),
         NEW i \in Inodes \cup {None}, NEW o \in Nat \cup {None}, NEW n \in Nat, NEW cells \in Seq(CellValues),
         l \in WithInode => i \in Inodes,
         l = "lock" => o \in Inodes \cup {None},
         f.call.op = "symlink" => o \in Inodes,
         f.call.op = "open" => n \in 0 .. BlockSize,
         l = "offset" => o \in Nat,
         l \in WithFd => f.call.fd \in Fds
  PROVE  Fits(l, Frame(f, i, o, n, cells))
<1> DEFINE g == Frame(f, i, o, n, cells)
<1>1. g \in Frames
  BY FrameTyped
<1>2. g.call = f.call /\ g.inum = i /\ g.other = o /\ g.tmp = n
  BY FrameTyped
<1> HIDE DEF g
<1>3. l \notin Fresh /\ l # "idle" /\ l # "lookup" /\ l # "entry"
  BY DEF Fresh
<1>4. LocalsFit(l, g)
  BY <1>2, <1>3 DEF LocalsFit
<1> QED
  BY <1>1, <1>2, <1>4 DEF Fits, g

\* The locals as they are.
LEMMA FrameItself == ASSUME NEW f \in Frames PROVE f = Frame(f, f.inum, f.other, f.tmp, f.got)
  BY DEF Frames, Frame

\* The locals of an operation have their types.
LEMMA LocalTypes ==
  ASSUME NEW f \in Frames
  PROVE  /\ f.inum \in Inodes \cup {None} /\ f.other \in Nat \cup {None}
         /\ f.tmp \in Nat /\ f.got \in Seq(CellValues)
  BY DEF Frames

\* A call of t's program, or one that its copy makes, begins.
LEMMA CallFits ==
  ASSUME NEW c \in Calls
  PROVE  /\ c.op \notin OnHandle => Fits("lookup", [NoFrame EXCEPT !.call = c])
         /\ c.op \in OnHandle /\ c.fd # None => Fits("entry", [NoFrame EXCEPT !.call = c])
<1>1. <<>> \in Seq(CellValues)
  OBVIOUS
<1> DEFINE f == [NoFrame EXCEPT !.call = c]
<1>2. f.call = c /\ f.inum = None /\ f.other = None /\ f.tmp = 0
  BY DEF NoFrame
<1>3. f \in Frames
  BY <1>1 DEF Frames, NoFrame
<1> HIDE DEF f
<1>4. c.op \notin OnHandle => OpFits("lookup", c.op) /\ LocalsFit("lookup", f)
  BY Sizes, <1>2, CallFields DEF Fresh, WithInode, WithFd, OpFits, LocalsFit, OnHandle
<1>5. c.op \in OnHandle /\ c.fd # None => OpFits("entry", c.op) /\ LocalsFit("entry", f)
  BY Sizes, <1>2, CallFields DEF Fresh, WithInode, WithFd, OpFits, LocalsFit, OnHandle
<1> QED
  BY <1>2, <1>3, <1>4, <1>5 DEF Fits, Labels, Fresh, f

\* A call is made with arguments of the program's and finds its thread without
\* locals.
LEMMA BeginTyped == ASSUME IInv, NEW t \in Threads, Begin(t) PROVE Typed'
<1>1. PICK c \in Head(todo[t]) :
         \/ /\ c.op \notin OnHandle
            /\ pc' = [pc EXCEPT ![t] = "lookup"]
            /\ frame' = [frame EXCEPT ![t].call = c]
            /\ handle' = IF c.op = "open" THEN [handle EXCEPT ![t] = None] ELSE handle
         \/ /\ c.op \in OnHandle /\ CallFd(t, c) # None
            /\ pc' = [pc EXCEPT ![t] = "entry"]
            /\ frame' = [frame EXCEPT ![t].call = [c EXCEPT !.fd = CallFd(t, c)]]
            /\ handle' = IF c.op = "close" THEN [handle EXCEPT ![t] = None] ELSE handle
         \/ UNCHANGED <<pc, frame, handle>>
  BY DEF Begin
<1>2. todo[t] \in Seq(SUBSET Calls) /\ todo[t] # <<>>
  BY DEF Begin, IInv, Typed
<1>3. Head(todo[t]) \in SUBSET Calls /\ Tail(todo[t]) \in Seq(SUBSET Calls)
  BY <1>2
<1>4. c \in Calls /\ todo' \in [Threads -> Seq(SUBSET Calls)]
  BY <1>1, <1>3 DEF Begin, IInv, Typed
<1>5. frame[t] = NoFrame /\ pc[t] = "idle"
  BY DEF Begin, IInv, Typed, Fits, LocalsFit
<1>6. handle' \in [Threads -> Fds \cup {None}]
  BY <1>1 DEF IInv, Typed, TypeOK
<1>7. TypeOK'
  BY <1>6 DEF Begin, IInv, Typed, TypeOK, disk
<1> DEFINE Moves(l, d) == /\ pc' = [pc EXCEPT ![t] = l]
                          /\ frame' = [frame EXCEPT ![t] = [NoFrame EXCEPT !.call = d]]
<1>8. ASSUME NEW l \in {"lookup", "entry"}, NEW d \in Calls, Moves(l, d), Fits(l, [NoFrame EXCEPT !.call = d])
      PROVE  Typed'
  <2>1. \A u \in Threads : FileKept(u)'
    BY <1>8 DEF IInv, Typed, FileKept, Fd, File, Begin, disk, WithFd
  <2>2. \A u \in Threads : Fits(pc[u], frame[u])'
    BY <1>8 DEF IInv, Typed, Fits, OpFits, LocalsFit
  <2> QED
    BY <2>1, <2>2, <1>4, <1>7, <1>8 DEF IInv, Typed, Begin, Fits
<1>9. CASE c.op \notin OnHandle /\ Moves("lookup", c)
  BY <1>9, <1>8, <1>4, CallFits
<1>10. CASE c.op \in OnHandle /\ CallFd(t, c) # None /\ Moves("entry", [c EXCEPT !.fd = CallFd(t, c)])
  <2>1. CallFd(t, c) \in Fds
    BY <1>4, <1>10, CallFields DEF CallFd, IInv, Typed, TypeOK
  <2>2. [c EXCEPT !.fd = CallFd(t, c)] \in Calls /\ [c EXCEPT !.fd = CallFd(t, c)].op = c.op
        /\ [c EXCEPT !.fd = CallFd(t, c)].fd = CallFd(t, c)
    BY <2>1, <1>4, <1>10 DEF Calls, OnHandle
  <2>3. Fits("entry", [NoFrame EXCEPT !.call = [c EXCEPT !.fd = CallFd(t, c)]])
    BY <2>2, <1>10, CallFits
  <2> QED
    BY <2>2, <2>3, <1>10, <1>8
<1>11. CASE UNCHANGED <<pc, frame, handle>>
  BY <1>11, <1>4, <1>7 DEF IInv, Typed, Fits, OpFits, LocalsFit, FileKept, File, Fd, Begin, disk
<1> QED
  BY <1>1, <1>5, <1>9, <1>10, <1>11 DEF NoFrame

\* The invariant has the types of the tables in it.
LEMMA IInvDisk == IInv => TypeOK /\ DiskOK
  BY DEF IInv, Typed, TypeOK, DiskOK, InodeRecords

\* An inode changes.
LEMMA InodeTyped ==
  ASSUME DiskOK, NEW i \in Inodes, NEW r \in InodeRecords, inode' = [inode EXCEPT ![i] = r],
         takenI' \subseteq Inodes, takenB' \subseteq Blocks, UNCHANGED <<dir, oft>>,
         data' \in [0 .. NBlocks * BlockSize - 1 -> CellValues]
  PROVE  DiskOK'
  BY DEF DiskOK

\* An inode with one field changed.
LEMMA InodeFields ==
  ASSUME NEW r \in InodeRecords
  PROVE  /\ \A v \in {"FREE", "TAKEN"} : [r EXCEPT !.state = v] \in InodeRecords
         /\ \A v \in {"FILE", "SYMLINK"} : [r EXCEPT !.type = v] \in InodeRecords
         /\ \A v \in 0 .. BlockSize : [r EXCEPT !.size = v] \in InodeRecords
         /\ \A v \in Blocks \cup {None} : [r EXCEPT !.block = v] \in InodeRecords
         /\ \A v \in Nat : [r EXCEPT !.links = v] \in InodeRecords
         /\ r.size \in 0 .. BlockSize /\ r.links \in Nat /\ r.block \in Blocks \cup {None}
         /\ r.type \in {"FILE", "SYMLINK"} /\ r.state \in {"FREE", "TAKEN"}
<1>1. \A v \in {"FREE", "TAKEN"} : [r EXCEPT !.state = v] \in InodeRecords
  BY DEF InodeRecords
<1>2. \A v \in {"FILE", "SYMLINK"} : [r EXCEPT !.type = v] \in InodeRecords
  BY DEF InodeRecords
<1>3. \A v \in 0 .. BlockSize : [r EXCEPT !.size = v] \in InodeRecords
  BY DEF InodeRecords
<1>4. \A v \in Blocks \cup {None} : [r EXCEPT !.block = v] \in InodeRecords
  BY DEF InodeRecords
<1>5. \A v \in Nat : [r EXCEPT !.links = v] \in InodeRecords
  BY DEF InodeRecords
<1> QED
  BY <1>1, <1>2, <1>3, <1>4, <1>5 DEF InodeRecords

\* add_dir_entry keeps the directory's type.
LEMMA AddDirTyped ==
  ASSUME DiskOK, NEW n \in Names, NEW i \in Inodes, AddDirEntry(n, i),
         UNCHANGED <<inode, takenI, takenB, oft, data>>
  PROVE  DiskOK'
  BY DEF DiskOK, AddDirEntry

-----------------------------------------------------------------------------
(* tfs_open *)

\* An operation takes a lock in a mode that there is.
LEMMA LockedOK ==
  ASSUME IInv, NEW t \in Threads, NEW mode \in {"rd", "wr"}, NEW l, held' \subseteq Locked(t, mode, l)
  PROVE  HeldOK'
  BY DEF HeldOK, Locked, IInv, Typed, TypeOK

\* Locks that are released were held by somebody.
LEMMA SameHeldOK == IInv /\ held' \subseteq held => HeldOK'
  BY DEF HeldOK, IInv, Typed, TypeOK

\* tfs_open looks the name up in the directory: the types stay.
LEMMA OpenLookupTyped == ASSUME IInv, NEW t \in Threads, OpenLookup(t) PROVE Typed'
<1> DEFINE i == Lookup(frame[t].call.name)
<1>1. CASE i = None /\ Fail(t, {})
  BY <1>1, FailTyped
<1>2. CASE i = None /\ Goto(t, "alloc", frame[t]) /\ UNCHANGED <<disk, held>>
  <2>1. Fits("alloc", frame[t])
    BY Inside DEF Fits, Labels, Fresh, WithInode, WithFd, OpFits, LocalsFit, OpenLookup, At, Op
  <2> QED
    BY <1>2, <2>1, GoesOn, SameDisk, SameHeldOK DEF IInv, Typed, disk, WithFd
<1>3. CASE i # None /\ Goto(t, "lock", [frame[t] EXCEPT !.inum = i]) /\ UNCHANGED <<disk, held>>
  <2>1. i \in Inodes
    BY <1>3, LookupType DEF IInv, Typed
  <2>2. Fits("lock", [frame[t] EXCEPT !.inum = i])
    BY <2>1, Inside DEF Fits, Labels, Fresh, WithInode, WithFd, OpFits, LocalsFit, OpenLookup, At, Op, Frames
  <2> QED
    BY <1>3, <2>2, GoesOn, SameDisk, SameHeldOK DEF IInv, Typed, disk, WithFd
<1> QED
  BY <1>1, <1>2, <1>3 DEF OpenLookup

\* tfs_open locks the inode, follows a link, truncates, or looks for the end:
\* the types stay.
LEMMA OpenLockTyped == ASSUME IInv, NEW t \in Threads, OpenLock(t) PROVE Typed'
<1> DEFINE i == I(t)
           locks == Locked(t, "wr", InodeLock(i)) \ {<<t, "wr", InodeLock(frame[t].other)>>}
           target == Lookup(Cell(inode[i].block, 0))
<1>0. i \in Inodes /\ pc[t] = "lock" /\ Op(t) = "open" /\ frame[t] \in Frames /\ LocalsFit("lock", frame[t])
      /\ frame[t].call \in Calls
  BY Inside DEF OpenLock, At, LocalsFit, WithInode, I
<1>1. CASE Crash("assert")
  BY <1>1, CrashTyped
<1>2. CASE Fail(t, {InodeLock(i), InodeLock(frame[t].other)})
  BY <1>2, FailTyped
<1>3. CASE /\ target # None
           /\ Goto(t, "lock", [frame[t] EXCEPT !.inum = target, !.other = i])
           /\ held' = locks
           /\ UNCHANGED disk
  <2>1. target \in Inodes
    BY <1>3, LookupType DEF IInv, Typed
  <2>2. Fits("lock", [frame[t] EXCEPT !.inum = target, !.other = i])
    <3>1. "lock" \in Labels \ Fresh /\ "lock" \notin WithFd /\ OpFits("lock", frame[t].call.op)
      BY <1>0 DEF Labels, Fresh, WithInode, WithFd, OpFits, Op
    <3>2. i \in Nat /\ frame[t].tmp \in 0 .. BlockSize /\ frame[t].call.op = "open"
      BY <1>0 DEF Inodes, LocalsFit, Op
    <3>3. Fits("lock", Frame(frame[t], target, i, frame[t].tmp, frame[t].got))
      BY <1>0, <2>1, <3>1, <3>2, LocalTypes, FitsFrame
    <3> QED
      BY <1>0, <3>3, Locals
  <2> QED
    BY <1>3, <2>2, GoesOn, SameDisk, LockedOK DEF IInv, Typed, disk, WithFd
<1>4. CASE /\ IF "TRUNC" \in frame[t].call.mode
                THEN /\ takenB' = takenB \ BlockOf(i)
                     /\ inode' = [inode EXCEPT ![i].size = 0]
                ELSE UNCHANGED <<takenB, inode>>
           /\ Goto(t, "addfile", [frame[t] EXCEPT !.other = None,
                 !.tmp = InitialOffset(frame[t].call, inode'[i].size)])
           /\ held' = locks
           /\ UNCHANGED <<takenI, dir, oft, data>>
  <2>1. DiskOK'
    <3>1. DiskOK
      BY IInvDisk
    <3>2. CASE "TRUNC" \in frame[t].call.mode
      <4>1. [inode[i] EXCEPT !.size = 0] \in InodeRecords
        <5>1. inode[i] \in InodeRecords /\ 0 \in 0 .. BlockSize
          BY Sizes, <1>0, <3>1 DEF DiskOK
        <5> QED
          BY <5>1, InodeFields
      <4> QED
        BY <1>0, <1>4, <3>1, <3>2, <4>1, InodeTyped DEF DiskOK
    <3>3. CASE "TRUNC" \notin frame[t].call.mode
      BY <1>0, <1>4, <3>1, <3>3 DEF DiskOK
    <3> QED
      BY <3>2, <3>3
  <2>2. InitialOffset(frame[t].call, inode'[i].size) \in 0 .. BlockSize
    <3>1. inode'[i] \in InodeRecords
      BY <1>0, <2>1 DEF DiskOK
    <3>2. inode'[i].size \in 0 .. BlockSize
      BY <3>1, InodeFields
    <3> QED
      BY <3>2, Sizes DEF InitialOffset
  <2>3. Fits("addfile", [frame[t] EXCEPT !.other = None, !.tmp = InitialOffset(frame[t].call, inode'[i].size)])
    <3> DEFINE off == InitialOffset(frame[t].call, inode'[i].size)
    <3>1. "addfile" \in Labels \ Fresh /\ "addfile" \notin WithFd /\ OpFits("addfile", frame[t].call.op)
      BY <1>0 DEF Labels, Fresh, WithInode, WithFd, OpFits, Op
    <3>2. off \in 0 .. BlockSize /\ off \in Nat /\ frame[t].inum \in Inodes /\ frame[t].call.op = "open"
      BY <1>0, <2>2, Sizes DEF I, Op
    <3> HIDE DEF off
    <3>3. Fits("addfile", Frame(frame[t], frame[t].inum, None, off, frame[t].got))
      BY <1>0, <3>1, <3>2, LocalTypes, FitsFrame
    <3>4. [frame[t] EXCEPT !.other = None, !.tmp = off] = Frame(frame[t], frame[t].inum, None, off, frame[t].got)
      BY <1>0, Locals
    <3> QED
      BY <3>3, <3>4 DEF off
  <2> QED
    BY <1>4, <2>1, <2>3, GoesOn, LockedOK DEF WithFd
<1> QED
  BY <1>1, <1>2, <1>3, <1>4 DEF OpenLock

\* tfs_open puts the file in the table of open files, if there is room: the
\* types stay.
LEMMA OpenPublishTyped == ASSUME IInv, NEW t \in Threads, OpenPublish(t) PROVE Typed'
<1>0. I(t) \in Inodes /\ Op(t) = "open" /\ frame[t] \in Frames /\ LocalsFit("created", frame[t])
      /\ frame[t].call.name \in Names
  BY Inside, CallFields DEF OpenPublish, At, LocalsFit, WithInode, I, Op
<1>1. HeldOK'
  BY LockedOK DEF OpenPublish
<1>2. DiskOK' /\ UNCHANGED oft
  <2>1. DiskOK /\ TypeOK
    BY IInvDisk
  <2> QED
    BY <1>0, <2>1, SameDisk, AddDirTyped DEF OpenPublish, disk
<1>3. \A l \in {"addfile", "abort"} : Fits(l, frame[t])
  BY <1>0 DEF Fits, Labels, Fresh, WithInode, WithFd, OpFits, LocalsFit, Op
<1> QED
  BY <1>1, <1>2, <1>3, GoesOn DEF OpenPublish, WithFd

\* tfs_open opens the file it has just looked at: the types stay.
LEMMA OpenAddFileTyped == ASSUME IInv, NEW t \in Threads, OpenAddFile(t) PROVE Typed'
<1>0. I(t) \in Inodes /\ frame[t].tmp \in 0 .. MaxOffset
  BY Sizes, Inside DEF OpenAddFile, At, LocalsFit, WithInode, I, Op
<1>1. CASE FreeFds # {}
  <2>1. First(FreeFds) \in Fds /\ oft[First(FreeFds)] = None
    <3>1. FreeFds \in SUBSET Nat
      BY DEF FreeFds, Fds
    <3> QED
      BY <1>1, <3>1, FirstIsIn DEF FreeFds
  <2>2. DiskOK'
    <3>1. DiskOK /\ AddToOpenFileTable(I(t), frame[t].tmp) /\ UNCHANGED <<inode, takenI, takenB, dir, data>>
      BY <1>1, IInvDisk DEF OpenAddFile
    <3> QED
      BY <1>0, <3>1 DEF AddToOpenFileTable, DiskOK
  <2>3. handle' \in [Threads -> Fds \cup {None}]
    BY <1>1, <2>1 DEF OpenAddFile, IInv, Typed, TypeOK
  <2>4. \A u \in Threads \ {t} : pc[u] \in WithFd => oft'[Fd(u)] # None
    BY <1>1, <2>1 DEF OpenAddFile, AddToOpenFileTable, IInv, Typed, FileKept, File, Fd, TypeOK, Fits, LocalsFit
  <2> QED
    BY <1>1, <2>2, <2>3, <2>4, LeaveTyped DEF OpenAddFile, IInv, Typed, TypeOK
<1>2. CASE FreeFds = {}
  BY <1>2, FailTyped DEF OpenAddFile
<1> QED
  BY <1>1, <1>2

-----------------------------------------------------------------------------
\* What t's locals are where it is now.
LEMMA Now ==
  ASSUME IInv, NEW t \in Threads, Op(t) # "none"
  PROVE  /\ frame[t] \in Frames /\ frame[t].call \in Calls
         /\ pc[t] \in WithInode => I(t) \in Inodes
         /\ Op(t) = "symlink" /\ pc[t] # "lookup" => frame[t].other \in Inodes
         /\ Op(t) = "open" => frame[t].tmp \in 0 .. BlockSize
         /\ pc[t] \in {"entry"} \cup WithFd => Fd(t) \in Fds
         /\ pc[t] \in WithFd => File(t) \in [inum : Inodes, off : 0 .. MaxOffset]
         /\ pc[t] = "offset" => frame[t].other \in Nat
         /\ OpFits(pc[t], Op(t)) /\ pc[t] \in Labels
<1>1. frame[t] \in Frames /\ frame[t].call \in Calls /\ OpFits(pc[t], Op(t)) /\ LocalsFit(pc[t], frame[t])
      /\ pc[t] \in Labels
  BY Inside
<1>2. pc[t] \in WithFd => Fd(t) \in Fds /\ File(t) # None
  BY <1>1 DEF LocalsFit, Fd, IInv, Typed, FileKept
<1>3. pc[t] \in WithFd => File(t) \in [inum : Inodes, off : 0 .. MaxOffset]
  BY <1>2 DEF File, IInv, Typed, TypeOK
<1> QED
  BY <1>1, <1>2, <1>3 DEF LocalsFit, Fd, Op, I

\* t goes on with some of its locals changed.
LEMMA GoesOnWith ==
  ASSUME IInv, NEW t \in Threads, Op(t) # "none", NEW l \in Labels \ Fresh, OpFits(l, Op(t)),
         NEW i \in Inodes \cup {None}, NEW o \in Nat \cup {None}, NEW n \in Nat, NEW cells \in Seq(CellValues),
         l \in WithInode => i \in Inodes,
         l = "lock" => o \in Inodes \cup {None},
         Op(t) = "symlink" => o \in Inodes,
         Op(t) = "open" => n \in 0 .. BlockSize,
         l = "offset" => o \in Nat,
         l \in WithFd => Fd(t) \in Fds /\ File(t) # None,
         Goto(t, l, Frame(frame[t], i, o, n, cells)), DiskOK', HeldOK', UNCHANGED oft
  PROVE  Typed'
<1>1. frame[t] \in Frames
  BY Now
<1>2. Fits(l, Frame(frame[t], i, o, n, cells))
  BY <1>1, FitsFrame DEF Op, Fd
<1>3. Frame(frame[t], i, o, n, cells).call = frame[t].call
  BY DEF Frame
<1> QED
  BY <1>2, <1>3, GoesOn DEF File, Fd

\* t goes on with the locals that it has.
LEMMA GoesOnAsIs ==
  ASSUME IInv, NEW t \in Threads, Op(t) # "none", NEW l \in Labels \ Fresh, OpFits(l, Op(t)),
         l # "lock", l # "offset", pc[t] # "lookup" \/ Op(t) # "symlink",
         l \in WithInode => I(t) \in Inodes,
         l \in WithFd => Fd(t) \in Fds /\ File(t) # None,
         Goto(t, l, frame[t]), DiskOK', HeldOK', UNCHANGED oft
  PROVE  Typed'
<1>1. frame[t] \in Frames
  BY Now
<1>2. /\ frame[t].inum \in Inodes \cup {None} /\ frame[t].other \in Nat \cup {None}
      /\ frame[t].tmp \in Nat /\ frame[t].got \in Seq(CellValues)
  BY <1>1, LocalTypes
<1>3. frame[t] = Frame(frame[t], frame[t].inum, frame[t].other, frame[t].tmp, frame[t].got)
  BY <1>1, FrameItself
<1>4. (Op(t) = "symlink" => frame[t].other \in Inodes) /\ (Op(t) = "open" => frame[t].tmp \in 0 .. BlockSize)
  BY Now
<1>5. Goto(t, l, Frame(frame[t], frame[t].inum, frame[t].other, frame[t].tmp, frame[t].got))
  BY <1>3
<1>6. l \in WithInode => frame[t].inum \in Inodes
  BY DEF I
<1> QED
  BY <1>2, <1>4, <1>5, <1>6, GoesOnWith

-----------------------------------------------------------------------------
(* inode_create *)

\* A search through an allocation table (inode_alloc, data_block_alloc,
\* add_dir_entry, add_to_open_file_table) ends at an element that is free.
LEMMA FirstFree ==
  /\ FreeInodes # {} => First(FreeInodes) \in FreeInodes
  /\ FreeBlocks # {} => First(FreeBlocks) \in FreeBlocks
  /\ FreeEntries # {} => First(FreeEntries) \in FreeEntries
  /\ FreeFds # {} => First(FreeFds) \in FreeFds
<1>1. FreeInodes \in SUBSET Nat /\ FreeBlocks \in SUBSET Nat /\ FreeEntries \in SUBSET Nat /\ FreeFds \in SUBSET Nat
  BY DEF FreeInodes, FreeBlocks, FreeEntries, FreeFds, Inodes, Blocks, Entries, Fds
<1> QED
  BY <1>1, FirstIsIn

\* inode_create finds a free inode, or there is none: the types stay.
LEMMA InodeAllocTyped == ASSUME IInv, NEW t \in Threads, InodeAlloc(t) PROVE Typed'
<1>0. pc[t] = "alloc" /\ Op(t) \in {"open", "symlink"}
  BY Inside DEF InodeAlloc, OpFits
<1>1. CASE FreeInodes # {}
  <2> DEFINE i == First(FreeInodes)
  <2>1. i \in Inodes
    BY <1>1, FirstFree DEF FreeInodes
  <2>2. takenI' = takenI \cup {i} /\ Goto(t, "init", [frame[t] EXCEPT !.inum = i])
        /\ UNCHANGED <<inode, takenB, dir, oft, data, held>>
    BY <1>1 DEF InodeAlloc
  <2> HIDE DEF i
  <2>3. DiskOK' /\ HeldOK' /\ UNCHANGED oft
    BY <2>1, <2>2, IInvDisk, SameHeldOK DEF DiskOK
  <2>4. frame[t] \in Frames /\ (Op(t) = "symlink" => frame[t].other \in Inodes)
        /\ (Op(t) = "open" => frame[t].tmp \in 0 .. BlockSize)
    BY <1>0, Now
  <2>5. Goto(t, "init", Frame(frame[t], i, frame[t].other, frame[t].tmp, frame[t].got))
    BY <2>2, <2>4, Locals
  <2>6. "init" \in Labels \ Fresh /\ "init" \notin WithFd /\ OpFits("init", Op(t))
    BY <1>0 DEF Labels, Fresh, WithInode, WithFd, OpFits
  <2>7. frame[t].other \in Nat \cup {None} /\ frame[t].tmp \in Nat /\ frame[t].got \in Seq(CellValues)
    BY <2>4, LocalTypes
  <2>8. Op(t) # "none" /\ (pc[t] # "lookup" \/ Op(t) # "symlink")
    BY <1>0
  <2> QED
    BY <2>1, <2>3, <2>4, <2>5, <2>6, <2>7, <2>8, GoesOnWith
<1>2. CASE FreeInodes = {}
  BY <1>2, FailTyped DEF InodeAlloc
<1> QED
  BY <1>1, <1>2

\* The fields that inode_create sets.
LEMMA NewInodeTyped ==
  ASSUME NEW r \in InodeRecords, NEW ty \in {"FILE", "SYMLINK"}, NEW n \in 0 .. BlockSize, NEW b \in Blocks \cup {None}
  PROVE  /\ [r EXCEPT !.type = ty, !.size = n, !.block = b] \in InodeRecords
         /\ [r EXCEPT !.block = b, !.size = n] \in InodeRecords
<1>1. [r EXCEPT !.type = ty] \in InodeRecords
  BY InodeFields
<1>2. ASSUME NEW q \in InodeRecords PROVE [q EXCEPT !.size = n] \in InodeRecords
  BY InodeFields
<1>3. ASSUME NEW q \in InodeRecords PROVE [q EXCEPT !.block = b] \in InodeRecords
  BY InodeFields
<1> QED
  BY <1>1, <1>2, <1>3

\* An inode that inode_create has finished has a state and one link.
LEMMA FinishedInodeTyped ==
  ASSUME NEW r \in InodeRecords PROVE [r EXCEPT !.state = "TAKEN", !.links = 1] \in InodeRecords
<1>1. [r EXCEPT !.state = "TAKEN"] \in InodeRecords
  BY InodeFields
<1>2. ASSUME NEW q \in InodeRecords PROVE [q EXCEPT !.links = 1] \in InodeRecords
  BY InodeFields
<1> QED
  BY <1>1, <1>2

\* inode_create fills the inode in, and gives a link its block: the types stay.
LEMMA InodeInitTyped == ASSUME IInv, NEW t \in Threads, InodeInit(t) PROVE Typed'
<1>0. pc[t] = "init" /\ Op(t) \in {"open", "symlink"}
  BY Inside DEF InodeInit, OpFits
<1>1. I(t) \in Inodes /\ (Op(t) = "symlink" => frame[t].other \in Inodes)
  BY <1>0, Now DEF WithInode
<1>2. HeldOK' /\ UNCHANGED oft
  BY LockedOK DEF InodeInit
<1>3. DiskOK /\ inode[I(t)] \in InodeRecords
  BY <1>1, IInvDisk DEF DiskOK
<1>4. ASSUME NEW ty \in {"FILE", "SYMLINK"}, NEW n \in 0 .. BlockSize, NEW b \in Blocks \cup {None},
             inode' = [inode EXCEPT ![I(t)] = [@ EXCEPT !.type = ty, !.size = n, !.block = b]],
             takenB' \subseteq Blocks
      PROVE  DiskOK'
  <2>1. [inode[I(t)] EXCEPT !.type = ty, !.size = n, !.block = b] \in InodeRecords
    BY <1>3, NewInodeTyped
  <2> QED
    BY <1>1, <1>3, <1>4, <2>1, InodeTyped DEF InodeInit, DiskOK
<1>5. ASSUME NEW l \in {"finish", "abort"}, Goto(t, l, frame[t]), DiskOK'
      PROVE  Typed'
  <2>1. l \in Labels \ Fresh /\ l \notin WithFd /\ OpFits(l, Op(t)) /\ l # "lock" /\ l # "offset"
    BY <1>0 DEF Labels, Fresh, WithInode, WithFd, OpFits
  <2> QED
    BY <1>0, <1>1, <1>2, <1>5, <2>1, GoesOnAsIs
<1>6. CASE Op(t) = "open"
  <2>1. inode' = [inode EXCEPT ![I(t)] = [@ EXCEPT !.type = "FILE", !.size = 0, !.block = None]]
        /\ Goto(t, "finish", frame[t]) /\ UNCHANGED takenB
    BY <1>6 DEF InodeInit
  <2>2. takenB' \subseteq Blocks /\ 0 \in 0 .. BlockSize
    BY <1>3, <2>1, Sizes DEF DiskOK
  <2>3. DiskOK'
    BY <1>4, <2>1, <2>2
  <2> QED
    BY <1>5, <2>1, <2>3
<1>7. CASE Op(t) # "open" /\ FreeBlocks # {}
  <2>1. First(FreeBlocks) \in Blocks
    BY <1>7, FirstFree DEF FreeBlocks
  <2>2. 1 \in 0 .. BlockSize
    BY Sizes
  <2> QED
    BY <1>3, <1>4, <1>5, <1>7, <2>1, <2>2 DEF InodeInit, DiskOK
<1>8. CASE Op(t) # "open" /\ FreeBlocks = {}
  <2>1. inode' = [inode EXCEPT ![I(t)] = [@ EXCEPT !.type = "SYMLINK", !.size = 0, !.block = None]]
        /\ Goto(t, "abort", frame[t]) /\ UNCHANGED takenB
    BY <1>8 DEF InodeInit
  <2>2. takenB' \subseteq Blocks /\ 0 \in 0 .. BlockSize
    BY <1>3, <2>1, Sizes DEF DiskOK
  <2>3. DiskOK'
    BY <1>4, <2>1, <2>2
  <2> QED
    BY <1>5, <2>1, <2>3
<1> QED
  BY <1>6, <1>7, <1>8

\* inode_create marks the inode as taken, with one hard link: the types stay.
LEMMA InodeFinishTyped == ASSUME IInv, NEW t \in Threads, InodeFinish(t) PROVE Typed'
<1>0. pc[t] = "finish" /\ Op(t) \in {"open", "symlink"}
  BY Inside DEF InodeFinish, OpFits
<1>1. I(t) \in Inodes
  BY <1>0, Now DEF WithInode
<1>2. HeldOK' /\ UNCHANGED oft
  BY SameHeldOK DEF InodeFinish, Unlocked
<1>3. DiskOK /\ inode[I(t)] \in InodeRecords
  BY <1>1, IInvDisk DEF DiskOK
<1>4. [inode[I(t)] EXCEPT !.state = "TAKEN", !.links = 1] \in InodeRecords
  BY <1>3, FinishedInodeTyped
<1>5. DiskOK'
  BY <1>1, <1>3, <1>4, InodeTyped DEF InodeFinish, DiskOK
<1>6. "created" \in Labels \ Fresh /\ "created" \notin WithFd /\ OpFits("created", Op(t))
  BY <1>0 DEF Labels, Fresh, WithInode, WithFd, OpFits
<1> QED
  BY <1>0, <1>1, <1>2, <1>5, <1>6, GoesOnAsIs DEF InodeFinish

\* inode_delete keeps the types.
LEMMA InodeDeleteTyped ==
  ASSUME DiskOK, NEW i \in Inodes, InodeDelete(i), UNCHANGED <<dir, oft, data>>
  PROVE  DiskOK'
<1>1. inode[i] \in InodeRecords
  BY DEF DiskOK
<1>2. [inode[i] EXCEPT !.state = "FREE"] \in InodeRecords
  BY <1>1, InodeFields
<1> QED
  BY <1>1, <1>2, InodeTyped DEF InodeDelete, DiskOK

\* inode_delete undoes an inode_create that found no block: the types stay.
LEMMA AbortTyped == ASSUME IInv, NEW t \in Threads, Abort(t) PROVE Typed'
<1>1. I(t) \in Inodes
  BY Inside, Now DEF Abort, OpFits, WithInode
<1>2. CASE I(t) \in takenI
  BY <1>1, <1>2, IInvDisk, InodeDeleteTyped, ReturnTyped DEF Abort
<1>3. CASE I(t) \notin takenI
  BY <1>3, CrashTyped DEF Abort
<1> QED
  BY <1>2, <1>3

-----------------------------------------------------------------------------
(* tfs_sym_link *)

\* tfs_sym_link looks its target up: the types stay.
LEMMA SymLookupTyped == ASSUME IInv, NEW t \in Threads, SymLookup(t) PROVE Typed'
<1> DEFINE i == Lookup(frame[t].call.target)
<1>0. pc[t] = "lookup" /\ Op(t) = "symlink" /\ frame[t] \in Frames
  BY Now DEF SymLookup, At
<1>1. CASE i = None
  BY <1>1, FailTyped DEF SymLookup
<1>2. CASE i # None
  <2>1. i \in Inodes
    BY <1>2, IInvDisk, LookupType
  <2>2. Goto(t, "target", [frame[t] EXCEPT !.other = i]) /\ UNCHANGED <<disk, held>>
    BY <1>2 DEF SymLookup
  <2> HIDE DEF i
  <2>3. DiskOK' /\ HeldOK' /\ UNCHANGED oft
    BY <2>2, IInvDisk, SameDisk, SameHeldOK DEF disk
  <2>4. Goto(t, "target", Frame(frame[t], frame[t].inum, i, frame[t].tmp, frame[t].got))
    BY <1>0, <2>2, Locals
  <2>5. "target" \in Labels \ Fresh /\ "target" \notin WithFd /\ "target" \notin WithInode /\ OpFits("target", Op(t))
    BY <1>0 DEF Labels, Fresh, WithInode, WithFd, OpFits
  <2>6. i \in Nat
    BY <2>1 DEF Inodes
  <2> QED
    BY <1>0, <2>1, <2>3, <2>4, <2>5, <2>6, LocalTypes, GoesOnWith
<1> QED
  BY <1>1, <1>2

\* tfs_sym_link looks for the name of the link: the types stay.
LEMMA SymTargetTyped == ASSUME IInv, NEW t \in Threads, SymTarget(t) PROVE Typed'
<1>0. pc[t] = "target" /\ Op(t) = "symlink"
  BY DEF SymTarget, At
<1>1. CASE Lookup(frame[t].call.name) # None
  BY <1>1, FailTyped DEF SymTarget
<1>2. CASE Lookup(frame[t].call.name) = None
  <2>1. Goto(t, "alloc", frame[t]) /\ UNCHANGED disk /\ held' = Locked(t, "rd", LinkLock(frame[t].other))
    BY <1>2 DEF SymTarget
  <2>2. DiskOK' /\ HeldOK' /\ UNCHANGED oft
    BY <2>1, IInvDisk, SameDisk, LockedOK DEF disk
  <2>3. "alloc" \in Labels \ Fresh /\ "alloc" \notin WithFd /\ "alloc" \notin WithInode /\ OpFits("alloc", Op(t))
    BY <1>0 DEF Labels, Fresh, WithInode, WithFd, OpFits
  <2> QED
    BY <1>0, <2>1, <2>2, <2>3, GoesOnAsIs
<1> QED
  BY <1>1, <1>2

\* tfs_sym_link writes the target's name into the link's block: the types stay.
LEMMA SymWriteTyped == ASSUME IInv, NEW t \in Threads, SymWrite(t) PROVE Typed'
<1>0. pc[t] = "created" /\ Op(t) = "symlink" /\ I(t) \in Inodes /\ frame[t].call.target \in Names
  BY Now, CallFields DEF SymWrite, At, WithInode, Op
<1>1. CASE inode[I(t)].block = None
  BY <1>1, CrashTyped DEF SymWrite
<1>2. CASE inode[I(t)].block # None
  <2>1. HeldOK' /\ UNCHANGED oft
    BY <1>2, LockedOK DEF SymWrite
  <2>2. DiskOK /\ inode[I(t)] \in InodeRecords /\ 1 \in 0 .. BlockSize
    BY <1>0, IInvDisk, Sizes DEF DiskOK
  <2>3. [inode[I(t)] EXCEPT !.size = 1] \in InodeRecords
    BY <2>2, InodeFields
  <2>4. data' \in [0 .. NBlocks * BlockSize - 1 -> CellValues]
    BY <1>0, <1>2, <2>2 DEF SymWrite, DiskOK, CellValues
  <2>5. DiskOK'
    BY <1>0, <1>2, <2>2, <2>3, <2>4, InodeTyped DEF SymWrite, DiskOK
  <2>6. "add" \in Labels \ Fresh /\ "add" \notin WithFd /\ OpFits("add", Op(t))
    BY <1>0 DEF Labels, Fresh, WithInode, WithFd, OpFits
  <2> QED
    BY <1>0, <1>2, <2>1, <2>5, <2>6, GoesOnAsIs DEF SymWrite
<1> QED
  BY <1>1, <1>2

\* tfs_sym_link adds the link to the directory, or deletes its inode when the
\* directory is full: the types stay.
LEMMA SymAddTyped == ASSUME IInv, NEW t \in Threads, SymAdd(t) PROVE Typed'
<1>0. I(t) \in Inodes /\ frame[t].call.name \in Names
  BY Now, CallFields DEF SymAdd, At, WithInode, Op
<1>1. CASE FreeEntries # {}
  BY <1>0, <1>1, IInvDisk, AddDirTyped, ReturnTyped DEF SymAdd
<1>2. CASE FreeEntries = {}
  BY <1>2, FailTyped DEF SymAdd
<1> QED
  BY <1>1, <1>2

-----------------------------------------------------------------------------
(* tfs_link *)

\* The inode that tfs_link and tfs_unlink work on has been looked up.
LEMMA FoundTyped ==
  ASSUME IInv, NEW t \in Threads, Op(t) \in {"link", "unlink"}, NEW l \in {"type", "clear"},
         OpFits(l, Op(t)), NEW i \in Inodes,
         Goto(t, l, [frame[t] EXCEPT !.inum = i]), UNCHANGED <<disk, held>>
  PROVE  Typed'
<1>1. DiskOK' /\ HeldOK' /\ UNCHANGED oft
  BY IInvDisk, SameDisk, SameHeldOK DEF disk
<1>2. frame[t] \in Frames
  BY Now
<1>3. Goto(t, l, Frame(frame[t], i, frame[t].other, frame[t].tmp, frame[t].got))
  BY <1>2, Locals
<1>4. l \in Labels \ Fresh /\ l \notin WithFd /\ l # "lock" /\ l # "offset"
  BY DEF Labels, Fresh, WithInode, WithFd
<1> QED
  BY <1>1, <1>2, <1>3, <1>4, LocalTypes, GoesOnWith

\* tfs_link looks the target up: the types stay.
LEMMA LinkLookupTyped == ASSUME IInv, NEW t \in Threads, LinkLookup(t) PROVE Typed'
<1> DEFINE i == Lookup(frame[t].call.target)
<1>0. Op(t) = "link" /\ OpFits("type", Op(t))
  BY DEF LinkLookup, At, OpFits
<1>1. CASE i = None
  BY <1>1, FailTyped, CrashTyped DEF LinkLookup
<1>2. CASE i # None
  <2>1. i \in Inodes
    BY <1>2, IInvDisk, LookupType
  <2>2. Goto(t, "type", [frame[t] EXCEPT !.inum = i]) /\ UNCHANGED <<disk, held>>
    BY <1>2 DEF LinkLookup
  <2> QED
    BY <1>0, <2>1, <2>2, FoundTyped
<1> QED
  BY <1>1, <1>2

\* tfs_link refuses symbolic links: the types stay.
LEMMA LinkTypeTyped == ASSUME IInv, NEW t \in Threads, LinkType(t) PROVE Typed'
<1>0. pc[t] = "type" /\ Op(t) = "link" /\ I(t) \in Inodes
  BY Now DEF LinkType, At, WithInode
<1>1. CASE inode[I(t)].type # "FILE"
  BY <1>1, FailTyped DEF LinkType
<1>2. CASE inode[I(t)].type = "FILE"
  <2>1. DiskOK' /\ HeldOK' /\ UNCHANGED oft
    BY <1>2, IInvDisk, SameDisk, LockedOK DEF LinkType, disk
  <2>2. "name" \in Labels \ Fresh /\ "name" \notin WithFd /\ OpFits("name", Op(t))
    BY <1>0 DEF Labels, Fresh, WithInode, WithFd, OpFits
  <2> QED
    BY <1>0, <1>2, <2>1, <2>2, GoesOnAsIs DEF LinkType
<1> QED
  BY <1>1, <1>2

\* tfs_link checks that the new name is free: the types stay.
LEMMA LinkNameTyped == ASSUME IInv, NEW t \in Threads, LinkName(t) PROVE Typed'
<1>0. pc[t] = "name" /\ Op(t) = "link" /\ I(t) \in Inodes
  BY Now DEF LinkName, At, WithInode
<1>1. CASE Lookup(frame[t].call.name) # None
  BY <1>1, FailTyped DEF LinkName
<1>2. CASE Lookup(frame[t].call.name) = None
  <2>1. DiskOK' /\ HeldOK' /\ UNCHANGED oft
    BY <1>2, IInvDisk, SameDisk, SameHeldOK DEF LinkName, disk
  <2>2. "add" \in Labels \ Fresh /\ "add" \notin WithFd /\ OpFits("add", Op(t))
    BY <1>0 DEF Labels, Fresh, WithInode, WithFd, OpFits
  <2> QED
    BY <1>0, <1>2, <2>1, <2>2, GoesOnAsIs DEF LinkName
<1> QED
  BY <1>1, <1>2

\* tfs_link adds the new name to the directory, if there is room: the types
\* stay.
LEMMA LinkAddTyped == ASSUME IInv, NEW t \in Threads, LinkAdd(t) PROVE Typed'
<1>0. pc[t] = "add" /\ Op(t) = "link" /\ I(t) \in Inodes /\ frame[t].call.name \in Names
  BY Now, CallFields DEF LinkAdd, At, WithInode, Op
<1>1. CASE FreeEntries = {}
  BY <1>1, FailTyped DEF LinkAdd
<1>2. CASE FreeEntries # {}
  <2>1. DiskOK' /\ HeldOK' /\ UNCHANGED oft
    BY <1>0, <1>2, IInvDisk, AddDirTyped, SameHeldOK DEF LinkAdd
  <2>2. "read" \in Labels \ Fresh /\ "read" \notin WithFd /\ OpFits("read", Op(t))
    BY <1>0 DEF Labels, Fresh, WithInode, WithFd, OpFits
  <2> QED
    BY <1>0, <1>2, <2>1, <2>2, GoesOnAsIs DEF LinkAdd
<1> QED
  BY <1>1, <1>2

\* hard_links is read.
LEMMA LinksReadTyped ==
  ASSUME IInv, NEW t \in Threads, pc[t] = "read", NEW l \in {"write", "drop"}, OpFits(l, Op(t)),
         Goto(t, l, [frame[t] EXCEPT !.tmp = inode[I(t)].links]), UNCHANGED <<disk, held>>
  PROVE  Typed'
<1>1. DiskOK' /\ HeldOK' /\ UNCHANGED oft
  BY IInvDisk, SameDisk, SameHeldOK DEF disk
<1>2. Op(t) \in {"link", "unlink"}
  BY Inside DEF OpFits
<1>3. frame[t] \in Frames /\ I(t) \in Inodes
  BY <1>2, Now DEF WithInode
<1>4. inode[I(t)] \in InodeRecords
  BY <1>3, IInvDisk DEF DiskOK
<1>5. inode[I(t)].links \in Nat
  BY <1>4, InodeFields
<1>6. Goto(t, l, Frame(frame[t], frame[t].inum, frame[t].other, inode[I(t)].links, frame[t].got))
  BY <1>3, Locals
<1>7. l \in Labels \ Fresh /\ l \notin WithFd /\ l # "lock" /\ l # "offset"
  BY DEF Labels, Fresh, WithInode, WithFd
<1>8. frame[t].inum \in Inodes /\ Op(t) # "none" /\ Op(t) # "open" /\ Op(t) # "symlink"
  BY <1>2, <1>3 DEF I
<1>9. frame[t].other \in Nat \cup {None} /\ frame[t].got \in Seq(CellValues)
  BY <1>3, LocalTypes
<1> QED
  BY <1>1, <1>5, <1>6, <1>7, <1>8, <1>9, GoesOnWith

\* tfs_link reads hard_links: the types stay.
LEMMA LinkReadTyped == ASSUME IInv, NEW t \in Threads, LinkRead(t) PROVE Typed'
  BY LinksReadTyped DEF LinkRead, At, OpFits

\* tfs_link writes hard_links, one more than it read: the types stay.
LEMMA LinkWriteTyped == ASSUME IInv, NEW t \in Threads, LinkWrite(t) PROVE Typed'
<1>1. frame[t] \in Frames /\ I(t) \in Inodes
  BY Now DEF LinkWrite, At, WithInode
<1>2. DiskOK /\ inode[I(t)] \in InodeRecords
  BY <1>1, IInvDisk DEF DiskOK
<1>3. frame[t].tmp + 1 \in Nat
  BY <1>1, LocalTypes
<1>4. [inode[I(t)] EXCEPT !.links = frame[t].tmp + 1] \in InodeRecords
  BY <1>2, <1>3, InodeFields
<1>5. DiskOK'
  BY <1>1, <1>2, <1>4, InodeTyped DEF LinkWrite, DiskOK
<1> QED
  BY <1>5, ReturnTyped DEF LinkWrite

-----------------------------------------------------------------------------
(* tfs_unlink *)

\* tfs_unlink looks the name up: the types stay.
LEMMA UnlinkLookupTyped == ASSUME IInv, NEW t \in Threads, UnlinkLookup(t) PROVE Typed'
<1> DEFINE i == Lookup(frame[t].call.name)
<1>0. Op(t) = "unlink" /\ OpFits("clear", Op(t))
  BY DEF UnlinkLookup, At, OpFits
<1>1. CASE i = None
  BY <1>1, FailTyped DEF UnlinkLookup
<1>2. CASE i # None
  <2>1. i \in Inodes
    BY <1>2, IInvDisk, LookupType
  <2>2. Goto(t, "clear", [frame[t] EXCEPT !.inum = i]) /\ UNCHANGED <<disk, held>>
    BY <1>2 DEF UnlinkLookup
  <2> QED
    BY <1>0, <2>1, <2>2, FoundTyped
<1> QED
  BY <1>1, <1>2

\* tfs_unlink clears the directory entry: the types stay.
LEMMA UnlinkClearTyped == ASSUME IInv, NEW t \in Threads, UnlinkClear(t) PROVE Typed'
<1>0. pc[t] = "clear" /\ Op(t) = "unlink" /\ I(t) \in Inodes
  BY Now DEF UnlinkClear, At, WithInode
<1>1. CASE EntriesFor(frame[t].call.name) = {}
  BY <1>1, FailTyped DEF UnlinkClear
<1>2. CASE EntriesFor(frame[t].call.name) # {}
  <2>1. DiskOK'
    BY <1>2, IInvDisk DEF UnlinkClear, ClearDirEntry, DiskOK
  <2>2. HeldOK' /\ UNCHANGED oft
    BY <1>2, LockedOK DEF UnlinkClear
  <2>3. "read" \in Labels \ Fresh /\ "read" \notin WithFd /\ OpFits("read", Op(t))
    BY <1>0 DEF Labels, Fresh, WithInode, WithFd, OpFits
  <2> QED
    BY <1>0, <1>2, <2>1, <2>2, <2>3, GoesOnAsIs DEF UnlinkClear
<1> QED
  BY <1>1, <1>2

\* tfs_unlink reads hard_links: the types stay.
LEMMA UnlinkReadTyped == ASSUME IInv, NEW t \in Threads, UnlinkRead(t) PROVE Typed'
  BY LinksReadTyped DEF UnlinkRead, At, OpFits

\* tfs_unlink writes hard_links, or deletes the inode with its last name: the
\* types stay.
LEMMA UnlinkDropTyped == ASSUME IInv, NEW t \in Threads, UnlinkDrop(t) PROVE Typed'
<1>1. frame[t] \in Frames /\ I(t) \in Inodes
  BY Now DEF UnlinkDrop, At, WithInode
<1>2. DiskOK /\ inode[I(t)] \in InodeRecords
  BY <1>1, IInvDisk DEF DiskOK
<1>3. CASE frame[t].tmp = 1 /\ I(t) \in takenI
  BY <1>1, <1>2, <1>3, InodeDeleteTyped, ReturnTyped DEF UnlinkDrop
<1>4. CASE frame[t].tmp = 1 /\ I(t) \notin takenI
  BY <1>4, CrashTyped DEF UnlinkDrop
<1>5. CASE frame[t].tmp # 1
  <2> DEFINE n == IF frame[t].tmp > 1 THEN frame[t].tmp - 1 ELSE inode[I(t)].links
  <2>1. inode[I(t)].links \in Nat /\ frame[t].tmp \in Nat
    BY <1>1, <1>2, InodeFields, LocalTypes
  <2>2. n \in Nat
    BY <2>1
  <2>3. inode' = [inode EXCEPT ![I(t)].links = n] /\ UNCHANGED <<takenI, takenB, dir, oft, data>>
    BY <1>5 DEF UnlinkDrop, DropLink
  <2> HIDE DEF n
  <2>4. [inode[I(t)] EXCEPT !.links = n] \in InodeRecords
    BY <1>2, <2>2, InodeFields
  <2>5. DiskOK'
    BY <1>1, <1>2, <2>3, <2>4, InodeTyped DEF DiskOK
  <2> QED
    BY <1>5, <2>5, ReturnTyped DEF UnlinkDrop
<1> QED
  BY <1>3, <1>4, <1>5

-----------------------------------------------------------------------------
(* tfs_close, tfs_write, tfs_read *)

Files == [inum : Inodes, off : 0 .. MaxOffset]

\* A thread that works on a handle's entry has it locked.
LEMMA FdLocked ==
  ASSUME IInv, NEW t \in Threads, pc[t] \in WithFd
  PROVE  \E mode \in {"rd", "wr"} : <<t, mode, FdLock(Fd(t))>> \in held
  BY DEF IInv, LocksOwned, Owned, Owns, WithFd, Fd

\* An open file is not None, and stays open when its offset changes.
LEMMA FileFields ==
  ASSUME NEW r \in Files
  PROVE  /\ r # None /\ r.inum \in Inodes /\ r.off \in 0 .. MaxOffset
         /\ \A v \in 0 .. MaxOffset : [r EXCEPT !.off = v] \in Files /\ [r EXCEPT !.off = v] # None
         /\ \A v \in 0 .. MaxOffset : [r EXCEPT !.off = v].inum = r.inum
<1>1. ASSUME NEW q \in Files PROVE q # None
  BY Sizes, TfsStateAssumption DEF Files, Inodes
<1>2. \A v \in 0 .. MaxOffset : [r EXCEPT !.off = v] \in Files
  BY DEF Files
<1>3. \A v \in 0 .. MaxOffset : [r EXCEPT !.off = v].inum = r.inum
  BY DEF Files
<1> QED
  BY <1>1, <1>2, <1>3 DEF Files

\* tfs_close takes the handle off the table of open files: the types stay.
LEMMA CloseTyped == ASSUME IInv, NEW t \in Threads, Close(t) PROVE Typed'
<1>1. CASE File(t) = None
  BY <1>1, FailTyped DEF Close
<1>2. CASE File(t) # None
  <2>1. DiskOK'
    BY <1>2, IInvDisk DEF Close, DiskOK
  <2>2. ASSUME NEW u \in Threads \ {t}, pc[u] \in WithFd PROVE oft'[Fd(u)] # None
    <3>1. Fd(u) # Fd(t)
      BY <2>2, FdLocked DEF Close, CanWrite, FdLock
    <3>2. Fd(u) \in Fds /\ oft[Fd(u)] # None
      BY <2>2 DEF IInv, Typed, FileKept, File, Fits, LocalsFit, Fd
    <3> QED
      BY <1>2, <3>1, <3>2 DEF Close, IInv, Typed, TypeOK
  <2>3. Return(t, {})
    BY <1>2 DEF Close
  <2> QED
    BY <2>1, <2>2, <2>3, LeaveTyped DEF Return, IInv, Typed, TypeOK
<1> QED
  BY <1>1, <1>2

\* An open file's offset moves: every entry in use stays in use.
LEMMA OffsetTyped ==
  ASSUME IInv, NEW d \in Fds, oft[d] # None, NEW off \in 0 .. MaxOffset, oft' = [oft EXCEPT ![d].off = off]
  PROVE  /\ oft' \in [Fds -> Files \cup {None}]
         /\ \A u \in Threads : pc[u] \in WithFd => oft'[Fd(u)] # None
         /\ \A e \in Fds : oft'[e] # None => oft[e] # None /\ oft'[e].inum = oft[e].inum
         /\ \A e \in Fds : oft[e] # None => oft'[e] # None
<1>1. oft \in [Fds -> Files \cup {None}]
  BY IInvDisk DEF DiskOK, Files
<1>2. oft[d] \in Files
  BY <1>1
<1>3. [oft[d] EXCEPT !.off = off] \in Files /\ [oft[d] EXCEPT !.off = off] # None
      /\ [oft[d] EXCEPT !.off = off].inum = oft[d].inum
  BY <1>2, FileFields
<1>4. oft'[d] = [oft[d] EXCEPT !.off = off] /\ \A e \in Fds \ {d} : oft'[e] = oft[e]
  BY <1>1
<1>5. oft' \in [Fds -> Files \cup {None}]
  BY <1>1, <1>3
<1>6. \A e \in Fds : oft[e] # None => oft'[e] # None
  BY <1>3, <1>4
<1>7. \A u \in Threads : pc[u] \in WithFd => Fd(u) \in Fds /\ oft[Fd(u)] # None
  BY DEF IInv, Typed, FileKept, File, Fits, LocalsFit, Fd
<1>8. \A e \in Fds : oft'[e] # None => oft[e] # None /\ oft'[e].inum = oft[e].inum
  BY <1>3, <1>4
<1> QED
  BY <1>5, <1>6, <1>7, <1>8

\* What tfs_write returns is a number of cells, or -1.
LEMMA WriteReturnTyped ==
  ASSUME IInv, NEW t \in Threads, NEW locks, NEW r \in Int, WriteReturn(t, locks, r), DiskOK',
         \A u \in Threads \ {t} : pc[u] \in WithFd => oft'[Fd(u)] # None
  PROVE  Typed'
<1>1. copying' \in [Threads -> Copies \cup {None}]
  <2>1. copying \in [Threads -> Copies \cup {None}]
    BY DEF IInv, Typed
  <2>2. ASSUME NEW c \in Copies PROVE [c EXCEPT !.written = r] \in Copies
    BY DEF Copies
  <2> QED
    BY <2>1, <2>2 DEF WriteReturn
<1> QED
  BY <1>1, LeaveTyped DEF WriteReturn, IInv, Typed, TypeOK

\* An operation that leaves the open files alone leaves the others theirs.
LEMMA OthersKeepFiles ==
  ASSUME IInv, NEW t \in Threads, UNCHANGED oft
  PROVE  \A u \in Threads \ {t} : pc[u] \in WithFd => oft'[Fd(u)] # None
  BY DEF IInv, Typed, FileKept, File

\* tfs_write finds and locks its handle: the types stay.
LEMMA WriteEntryTyped == ASSUME IInv, NEW t \in Threads, WriteEntry(t) PROVE Typed'
<1>0. pc[t] = "entry" /\ Op(t) = "write" /\ Fd(t) \in Fds
  BY Now DEF WriteEntry, At
<1>1. DiskOK' /\ UNCHANGED oft
  BY IInvDisk, SameDisk DEF WriteEntry, disk
<1>2. CASE File(t) = None
  BY <1>1, <1>2, WriteReturnTyped, OthersKeepFiles DEF WriteEntry
<1>3. CASE File(t) # None
  <2>1. HeldOK'
    BY <1>3, LockedOK DEF WriteEntry
  <2>2. "data" \in Labels \ Fresh /\ "data" \notin WithInode /\ OpFits("data", Op(t))
    BY <1>0 DEF Labels, Fresh, WithInode, WithFd, OpFits
  <2> QED
    BY <1>0, <1>1, <1>3, <2>1, <2>2, GoesOnAsIs DEF WriteEntry
<1> QED
  BY <1>2, <1>3

\* What is written is cut at the end of the block (operations.c:365).
LEMMA WriteFits ==
  ASSUME NEW len \in Nat, NEW off \in Nat
  PROVE  WriteCount(len, off) \in Int /\ WriteCount(len, off) <= len
         /\ off + WriteCount(len, off) <= BlockSize
<1>1. BlockSize \in Nat
  BY Sizes
<1> QED
  BY <1>1 DEF WriteCount, Min2

\* tfs_write copies the data into the block, which it may have to allocate: the
\* types stay.
LEMMA WriteDataTyped == ASSUME IInv, NEW t \in Threads, WriteData(t) PROVE Typed'
<1> DEFINE cells == frame[t].call.cells
           i == File(t).inum
           off == File(t).off
           n == WriteCount(Len(cells), off)
           alloc == inode[i].size = 0
           block == IF alloc THEN First(FreeBlocks) ELSE inode[i].block
<1>0. pc[t] = "data" /\ Op(t) = "write" /\ Fd(t) \in Fds /\ File(t) \in Files
  BY Now DEF WriteData, At, WithFd, Files
<1>1. cells \in Seq(Data)
  BY <1>0, Now, CallFields DEF Op
<1>2. i \in Inodes /\ off \in 0 .. MaxOffset /\ oft[Fd(t)] # None
  BY <1>0, FileFields DEF File
<1>3. DiskOK /\ inode[i] \in InodeRecords
  BY <1>2, IInvDisk DEF DiskOK
<1>4. n \in Int /\ n <= Len(cells) /\ off + n <= BlockSize
  <2>1. Len(cells) \in Nat /\ off \in Nat
    BY <1>1, <1>2, Sizes
  <2>2. \A len, o \in Nat : WriteCount(len, o) \in Int /\ WriteCount(len, o) <= len
                            /\ o + WriteCount(len, o) <= BlockSize
    BY WriteFits
  <2> HIDE DEF cells, off
  <2> QED
    BY <2>1, <2>2
<1>5. CASE /\ n = 0 \/ (n > 0 /\ alloc /\ FreeBlocks = {})
           /\ WriteReturn(t, {FdLock(Fd(t))}, IF n = 0 THEN 0 ELSE -1)
           /\ UNCHANGED disk
  <2>1. DiskOK' /\ UNCHANGED oft
    BY <1>5, IInvDisk, SameDisk DEF disk
  <2>2. (IF n = 0 THEN 0 ELSE -1) \in Int
    OBVIOUS
  <2> QED
    BY <1>5, <2>1, <2>2, WriteReturnTyped, OthersKeepFiles
<1>6. CASE /\ n > 0 /\ (alloc => FreeBlocks # {})
           /\ takenB' = IF alloc THEN takenB \cup {block} ELSE takenB
           /\ inode' = [inode EXCEPT ![i] =
                          [@ EXCEPT !.block = block, !.size = NewSize(i, off + n)]]
           /\ data' = [a \in DOMAIN data |->
                         LET k == a - Address(block, off)
                         IN IF k \in 0 .. n - 1 THEN cells[k + 1] ELSE data[a]]
           /\ oft' = [oft EXCEPT ![Fd(t)].off = off + n]
           /\ WriteReturn(t, {FdLock(Fd(t))}, n)
           /\ UNCHANGED <<takenI, dir>>
  <2>1. block \in Blocks \cup {None} /\ (alloc => block \in Blocks)
    <3>1. FreeBlocks # {} => First(FreeBlocks) \in Blocks
      BY FirstFree DEF FreeBlocks
    <3> QED
      BY <1>3, <1>6, <3>1, InodeFields
  <2>2. NewSize(i, off + n) \in 0 .. BlockSize
    <3>1. inode[i].size \in 0 .. BlockSize
      BY <1>3, InodeFields
    <3>2. ASSUME NEW e \in Int, e <= BlockSize, e >= 0 PROVE NewSize(i, e) \in 0 .. BlockSize
      <4> HIDE DEF i
      <4> QED
        BY <3>1, <3>2, Sizes DEF NewSize, Max2
    <3>3. off + n \in Int /\ off + n <= BlockSize /\ off + n >= 0
      <4>1. off \in Nat /\ n > 0
        <5>1. n > 0
          BY <1>6, Zenon
        <5>2. off \in Nat
          BY <1>2, Sizes
        <5> QED
          BY <5>1, <5>2
      <4>2. \A a \in Nat, b \in Int : b > 0 => a + b \in Int /\ a + b >= 0
        OBVIOUS
      <4>3. n \in Int /\ off + n <= BlockSize
        BY <1>4
      <4> HIDE DEF n, off
      <4> QED
        BY <4>1, <4>2, <4>3
    <3> HIDE DEF n, off
    <3> QED
      BY <3>2, <3>3
  <2> HIDE DEF block
  <2>3. [inode[i] EXCEPT !.block = block, !.size = NewSize(i, off + n)] \in InodeRecords
    BY <1>3, <2>1, <2>2, NewInodeTyped
  <2>4. data' \in [0 .. NBlocks * BlockSize - 1 -> CellValues]
    <3> DEFINE D == 0 .. NBlocks * BlockSize - 1
               base == Address(block, off)
    <3>1. data \in [D -> CellValues] /\ DOMAIN data = D
      BY <1>3 DEF DiskOK
    <3>2. data' = [a \in D |-> IF a - base \in 0 .. n - 1 THEN cells[(a - base) + 1] ELSE data[a]]
      BY <1>6, <3>1
    <3>3. ASSUME NEW k \in 0 .. n - 1 PROVE cells[k + 1] \in CellValues
      <4>1. k + 1 \in 1 .. Len(cells)
        BY <1>1, <1>4, <3>3
      <4>2. cells[k + 1] \in Data
        BY <1>1, <4>1
      <4> QED
        BY <4>2 DEF CellValues
    <3> HIDE DEF D, base, n, cells
    <3>4. [a \in D |-> IF a - base \in 0 .. n - 1 THEN cells[(a - base) + 1] ELSE data[a]] \in [D -> CellValues]
      BY <3>1, <3>3
    <3> QED
      BY <3>2, <3>4 DEF D
  <2>5. DiskOK' /\ \A u \in Threads : pc[u] \in WithFd => oft'[Fd(u)] # None
    <3>1. off + n \in 0 .. MaxOffset
      BY <1>2, <1>4, <1>6, Sizes
    <3>2. /\ oft' \in [Fds -> Files \cup {None}]
          /\ \A u \in Threads : pc[u] \in WithFd => oft'[Fd(u)] # None
      BY <1>0, <1>2, <1>6, <3>1, OffsetTyped
    <3>3. takenB' \subseteq Blocks
      BY <1>3, <1>6, <2>1 DEF DiskOK
    <3> HIDE DEF i, off, n, cells, alloc
    <3>4. inode' \in [Inodes -> InodeRecords]
      BY <1>2, <1>3, <1>6, <2>3 DEF DiskOK
    <3> QED
      BY <1>3, <1>6, <2>4, <3>2, <3>3, <3>4 DEF DiskOK, Files
  <2> QED
    BY <1>4, <1>6, <2>5, WriteReturnTyped
<1>7. CASE Crash("undefined")
  BY <1>7, CrashTyped
<1> QED
  BY <1>5, <1>6, <1>7 DEF WriteData

\* tfs_read finds and locks its handle: the types stay.
LEMMA ReadEntryTyped == ASSUME IInv, NEW t \in Threads, ReadEntry(t) PROVE Typed'
<1>0. pc[t] = "entry" /\ Op(t) = "read" /\ Fd(t) \in Fds
  BY Now DEF ReadEntry, At
<1>1. CASE File(t) = None
  BY <1>1, FailTyped DEF ReadEntry
<1>2. CASE File(t) # None
  <2>1. DiskOK' /\ HeldOK' /\ UNCHANGED oft
    BY <1>2, IInvDisk, SameDisk, LockedOK DEF ReadEntry, disk
  <2>2. "size" \in Labels \ Fresh /\ "size" \notin WithInode /\ OpFits("size", Op(t))
    BY <1>0 DEF Labels, Fresh, WithInode, WithFd, OpFits
  <2> QED
    BY <1>0, <1>2, <2>1, <2>2, GoesOnAsIs DEF ReadEntry
<1> QED
  BY <1>1, <1>2

\* An operation returns with something in the caller's buffer.
LEMMA ReadReturnTyped ==
  ASSUME IInv, NEW t \in Threads, NEW locks, NEW cells \in Seq(CellValues), Leave(t, locks),
         buf' = [buf EXCEPT ![t] = cells], UNCHANGED <<handle, copying>>, DiskOK',
         \A u \in Threads \ {t} : pc[u] \in WithFd => oft'[Fd(u)] # None
  PROVE  Typed'
  BY LeaveTyped DEF IInv, Typed, TypeOK

\* tfs_read works out how much there is to read: the types stay.
LEMMA ReadSizeTyped == ASSUME IInv, NEW t \in Threads, ReadSize(t) PROVE Typed'
<1>0. pc[t] = "size" /\ Op(t) = "read" /\ Fd(t) \in Fds /\ File(t) \in Files /\ frame[t] \in Frames
  BY Now DEF ReadSize, At, WithFd, Files
<1>1. CASE /\ Leave(t, ReadLocks(t))
           /\ buf' = [buf EXCEPT ![t] = <<>>]
           /\ UNCHANGED <<handle, copying, disk>>
  <2>1. DiskOK' /\ UNCHANGED oft
    BY <1>1, IInvDisk, SameDisk DEF disk
  <2>2. <<>> \in Seq(CellValues)
    OBVIOUS
  <2> QED
    BY <1>1, <2>1, <2>2, ReadReturnTyped, OthersKeepFiles
<1>2. CASE Crash("assert")
  BY <1>2, CrashTyped
<1>3. CASE /\ ToRead(t) > 0
           /\ held' = Locked(t, "rd", InodeLock(File(t).inum))
           /\ Goto(t, "copy", [frame[t] EXCEPT !.tmp = ToRead(t)])
           /\ UNCHANGED disk
  <2>1. DiskOK' /\ HeldOK' /\ UNCHANGED oft
    BY <1>3, IInvDisk, SameDisk, LockedOK DEF disk
  <2>2. ToRead(t) \in Nat
    <3>1. frame[t].call.len \in Nat
      BY <1>0, Now, CallFields DEF Op
    <3>2. File(t).inum \in Inodes /\ File(t).off \in Nat
      BY <1>0, FileFields, Sizes
    <3>3. inode[File(t).inum].size \in Nat
      <4>1. inode[File(t).inum] \in InodeRecords
        BY <3>2, IInvDisk DEF DiskOK
      <4>2. inode[File(t).inum].size \in 0 .. BlockSize
        BY <4>1, InodeFields
      <4> QED
        BY <4>2, Sizes
    <3> DEFINE d == inode[File(t).inum].size - File(t).off
    <3>4. d \in Int /\ Word \in Nat /\ Word > 0
      BY <3>2, <3>3, TfsAssumption, Sizes
    <3> HIDE DEF d
    <3>5. d % Word \in 0 .. Word - 1
      BY <3>4
    <3>6. d % Word \in Nat
      BY <3>4, <3>5
    <3>7. ToRead(t) = Min2(d % Word, frame[t].call.len)
      BY DEF ToRead, d
    <3> QED
      BY <3>1, <3>6, <3>7 DEF Min2
  <2>3. Goto(t, "copy", Frame(frame[t], frame[t].inum, frame[t].other, ToRead(t), frame[t].got))
    BY <1>0, <1>3, Locals
  <2>4. "copy" \in Labels \ Fresh /\ "copy" \notin WithInode /\ OpFits("copy", Op(t)) /\ Op(t) # "open" /\ Op(t) # "symlink"
    BY <1>0 DEF Labels, Fresh, WithInode, WithFd, OpFits
  <2>5. frame[t].inum \in Inodes \cup {None} /\ frame[t].other \in Nat \cup {None} /\ frame[t].got \in Seq(CellValues)
    BY <1>0, LocalTypes
  <2>6. File(t) # None
    BY <1>0, FileFields
  <2> QED
    BY <1>0, <2>1, <2>2, <2>3, <2>4, <2>5, <2>6, GoesOnWith
<1> QED
  BY <1>1, <1>2, <1>3 DEF ReadSize

\* tfs_read copies the characters: the types stay.
LEMMA ReadCopyTyped == ASSUME IInv, NEW t \in Threads, ReadCopy(t) PROVE Typed'
<1>0. pc[t] = "copy" /\ Op(t) = "read" /\ Fd(t) \in Fds /\ File(t) \in Files /\ frame[t] \in Frames
  BY Now DEF ReadCopy, At, WithFd, Files
<1> DEFINE b == inode[File(t).inum].block
           cells == [k \in 1 .. frame[t].tmp |-> Cell(b, File(t).off + k - 1)]
<1>1. cells \in Seq(CellValues)
  <2>1. frame[t].tmp \in Nat
    BY <1>0, LocalTypes
  <2>2. \A k \in 1 .. frame[t].tmp : Cell(b, File(t).off + k - 1) \in CellValues
    BY IInvDisk, CellType
  <2> QED
    BY <2>1, <2>2
<1>2. DiskOK' /\ HeldOK' /\ UNCHANGED oft
  BY IInvDisk, SameDisk, SameHeldOK DEF ReadCopy, disk
<1>3. File(t).off \in Nat /\ File(t) # None
  BY <1>0, FileFields, Sizes
<1>4. Goto(t, "offset", [frame[t] EXCEPT !.other = File(t).off, !.got = cells])
  BY DEF ReadCopy
<1> HIDE DEF cells
<1>5. Goto(t, "offset", Frame(frame[t], frame[t].inum, File(t).off, frame[t].tmp, cells))
  <2>1. ASSUME NEW o PROVE [frame[t] EXCEPT !.other = o, !.got = cells]
                             = Frame(frame[t], frame[t].inum, o, frame[t].tmp, cells)
    BY <1>0, LocalsRead
  <2> QED
    BY <1>4, <2>1
<1>6. "offset" \in Labels \ Fresh /\ "offset" \notin WithInode /\ OpFits("offset", Op(t)) /\ Op(t) # "open" /\ Op(t) # "symlink"
  BY <1>0 DEF Labels, Fresh, WithInode, WithFd, OpFits
<1>7. frame[t].inum \in Inodes \cup {None} /\ frame[t].tmp \in Nat
  BY <1>0, LocalTypes
<1> QED
  BY <1>0, <1>1, <1>2, <1>3, <1>5, <1>6, <1>7, GoesOnWith

\* tfs_read advances the offset of its handle: the types stay.
LEMMA ReadOffsetTyped == ASSUME IInv, NEW t \in Threads, ReadOffset(t) PROVE Typed'
<1>0. pc[t] = "offset" /\ Op(t) = "read" /\ Fd(t) \in Fds /\ File(t) \in Files /\ frame[t] \in Frames
      /\ frame[t].other \in Nat
  BY Now DEF ReadOffset, At, WithFd, Files
<1>1. PICK o \in {frame[t].other, File(t).off} :
        oft' = [oft EXCEPT ![Fd(t)].off = Min2(o + frame[t].tmp, MaxOffset)]
  BY DEF ReadOffset
<1>2. frame[t].tmp \in Nat /\ frame[t].got \in Seq(CellValues)
  BY <1>0, LocalTypes
<1>3. o \in Nat
  BY <1>0, FileFields, Sizes
<1>4. Min2(o + frame[t].tmp, MaxOffset) \in 0 .. MaxOffset
  BY <1>2, <1>3, Sizes DEF Min2
<1>5. oft[Fd(t)] # None
  BY <1>0, FileFields DEF File
<1>6. /\ oft' \in [Fds -> Files \cup {None}]
      /\ \A u \in Threads : pc[u] \in WithFd => oft'[Fd(u)] # None
  BY <1>0, <1>1, <1>4, <1>5, OffsetTyped
<1>7. DiskOK'
  BY <1>6, IInvDisk DEF DiskOK, Files, ReadOffset
<1> QED
  BY <1>2, <1>6, <1>7, ReadReturnTyped DEF ReadOffset

-----------------------------------------------------------------------------
(* tfs_copy_from_external_fs *)

\* A copy makes a call of its own.
LEMMA CallTyped ==
  ASSUME IInv, NEW t \in Threads, NEW c \in Calls, NEW l \in {"lookup", "entry"}, Call(t, c, l),
         l = "lookup" => c.op \notin OnHandle,
         l = "entry" => c.op \in OnHandle /\ c.fd # None,
         handle' \in [Threads -> Fds \cup {None}], copying' \in [Threads -> Copies \cup {None}]
  PROVE  Typed'
<1>1. Fits(l, [NoFrame EXCEPT !.call = c])
  BY CallFits
<1>2. TypeOK'
  BY DEF Call, IInv, Typed, TypeOK, disk
<1>3. pc'[t] \notin WithFd
  BY DEF Call, IInv, Typed, WithFd
<1>4. \A u \in Threads \ {t} : pc[u] \in WithFd => oft'[Fd(u)] # None
  BY OthersKeepFiles DEF Call, disk
<1> QED
  BY <1>1, <1>2, <1>3, <1>4, MoveTyped DEF Call, FileKept

\* tfs_copy_from_external_fs opens the file it copies to: the types stay.
LEMMA CopyStartTyped == ASSUME IInv, NEW t \in Threads, CopyStart(t) PROVE Typed'
<1>0. frame[t].call.name \in Names /\ frame[t].call.cells \in Seq(Data)
  BY Now, CallFields DEF CopyStart, At, Op
<1>1. CASE Fail(t, {})
  BY <1>1, FailTyped
<1>2. CASE /\ Call(t, [op |-> "open", name |-> frame[t].call.name, mode |-> CopyMode], "lookup")
           /\ handle' = [handle EXCEPT ![t] = None]
           /\ copying' = [copying EXCEPT ![t] =
                [source |-> frame[t].call.cells, sent |-> 0, total |-> 0, written |-> 0, returns |-> None]]
  <2> DEFINE c == [op |-> "open", name |-> frame[t].call.name, mode |-> CopyMode]
             r == [source |-> frame[t].call.cells, sent |-> 0, total |-> 0, written |-> 0, returns |-> None]
  <2>1. c \in Calls /\ c.op \notin OnHandle
    BY <1>0 DEF Calls, CopyMode, Modes, OnHandle
  <2>2. r \in Copies
    BY <1>0 DEF Copies
  <2>3. handle' \in [Threads -> Fds \cup {None}]
    BY <1>2 DEF IInv, Typed, TypeOK
  <2> HIDE DEF c, r
  <2>4. copying' \in [Threads -> Copies \cup {None}]
    BY <1>2, <2>2 DEF IInv, Typed, r
  <2>5. Call(t, c, "lookup")
    BY <1>2 DEF c
  <2> QED
    BY <2>1, <2>3, <2>4, <2>5, CallTyped
<1> QED
  BY <1>1, <1>2 DEF CopyStart

\* A copy ends, or keeps account, between two calls.
LEMMA CopyingTyped ==
  ASSUME IInv, copying' \in [Threads -> Copies \cup {None}],
         UNCHANGED <<disk, held, pc, frame, todo, handle, buf, crashed>>
  PROVE  Typed'
  BY DEF IInv, Typed, TypeOK, disk, Fits, OpFits, LocalsFit, FileKept, File, Fd

\* tfs_copy_from_external_fs finds no file to copy: the types stay.
LEMMA CopyRefusedTyped == ASSUME IInv, NEW t \in Threads, CopyRefused(t) PROVE Typed'
  BY CopyingTyped DEF CopyRefused, IInv, Typed

\* tfs_copy_from_external_fs returns what it has come to: the types stay.
LEMMA CopyReturnTyped == ASSUME IInv, NEW t \in Threads, CopyReturn(t) PROVE Typed'
  BY CopyingTyped DEF CopyReturn, IInv, Typed

\* The fields of a copy in progress.
LEMMA CopyFields ==
  ASSUME IInv, NEW t \in Threads, copying[t] # None
  PROVE  /\ copying[t] \in Copies /\ Total(t) \in Int
         /\ copying[t].source \in Seq(Data) /\ copying[t].sent \in Nat
<1>1. copying[t] \in Copies
  BY DEF IInv, Typed
<1> QED
  BY <1>1 DEF Copies, Total

\* tfs_copy_from_external_fs closes the file it has copied to: the types stay.
LEMMA CopyCloseTyped == ASSUME IInv, NEW t \in Threads, CopyClose(t) PROVE Typed'
<1>0. copying[t] \in Copies /\ handle[t] \in Fds
  BY CopyFields DEF CopyClose, Between, IInv, Typed, TypeOK
<1> DEFINE c == [op |-> "close", fd |-> handle[t]]
<1>1. c \in Calls /\ c.op \in OnHandle /\ c.fd # None
  BY <1>0, Sizes DEF Calls, OnHandle, Fds
<1>2. handle' \in [Threads -> Fds \cup {None}]
  BY DEF CopyClose, IInv, Typed, TypeOK
<1>3. copying' \in [Threads -> Copies \cup {None}]
  <2>1. \A v \in {0, -1} : [copying[t] EXCEPT !.returns = v] \in Copies
    BY <1>0 DEF Copies
  <2> QED
    BY <2>1 DEF CopyClose, IInv, Typed
<1>4. Call(t, c, "entry")
  BY DEF CopyClose
<1> HIDE DEF c
<1> QED
  BY <1>1, <1>2, <1>3, <1>4, CallTyped

\* tfs_copy_from_external_fs writes the next chunk: the types stay.
LEMMA CopyChunkTyped == ASSUME IInv, NEW t \in Threads, CopyChunk(t) PROVE Typed'
<1> DEFINE c == copying[t]
           sent == Min2(c.sent + Chunk, Len(c.source))
           cells == SubSeq(c.source, c.sent + 1, sent)
           d == [op |-> "write", fd |-> handle[t], cells |-> cells]
<1>0. /\ c \in Copies /\ Total(t) \in Int /\ c.source \in Seq(Data) /\ c.sent \in Nat
      /\ handle[t] \in Fds
  BY CopyFields DEF CopyChunk, Between, IInv, Typed, TypeOK
<1>1. sent \in Nat /\ sent <= Len(c.source)
  BY <1>0, TfsAssumption DEF Min2
<1>2. cells \in Seq(Data)
  <2> HIDE DEF c, sent
  <2>1. \A k \in c.sent + 1 .. sent : c.source[k] \in Data
    BY <1>0, <1>1
  <2>2. c.sent + 1 \in Int /\ sent \in Int
    BY <1>0, <1>1
  <2> QED
    BY <2>1, <2>2, SubSeqProperties
<1> HIDE DEF cells
<1>3. d \in Calls /\ d.op \in OnHandle /\ d.fd # None
  BY <1>0, <1>2, Sizes DEF Calls, OnHandle, Fds
<1>4. handle' \in [Threads -> Fds \cup {None}]
  BY DEF CopyChunk, IInv, Typed, TypeOK
<1>5. copying' \in [Threads -> Copies \cup {None}]
  <2>1. ASSUME NEW r \in Copies, NEW n \in Int PROVE [r EXCEPT !.total = n] \in Copies
    BY DEF Copies
  <2>2. ASSUME NEW r \in Copies PROVE [r EXCEPT !.written = 0] \in Copies
    BY DEF Copies
  <2>3. ASSUME NEW r \in Copies, NEW n \in Nat PROVE [r EXCEPT !.sent = n] \in Copies
    BY DEF Copies
  <2>4. copying' = [copying EXCEPT ![t] = [c EXCEPT !.total = Total(t), !.written = 0, !.sent = sent]]
    BY DEF CopyChunk
  <2> HIDE DEF c, sent
  <2>5. [c EXCEPT !.total = Total(t), !.written = 0, !.sent = sent] \in Copies
    BY <1>0, <1>1, <2>1, <2>2, <2>3
  <2> QED
    BY <2>4, <2>5 DEF IInv, Typed
<1>6. Call(t, d, "entry")
  BY DEF CopyChunk, cells
<1> HIDE DEF d
<1> QED
  BY <1>3, <1>4, <1>5, <1>6, CallTyped

\* A step of the inode_create part, of tfs_open or of tfs_sym_link, and so on:
\* no step makes a value of another type.
LEMMA StepTyped == ASSUME IInv, NEW t \in Threads, Step(t) \/ Begin(t) PROVE Typed'
<1>1. CASE Open(t)
  <2>1. CASE OpenRelock(t)
    BY <2>1, CrashTyped DEF OpenRelock
  <2> QED
    BY <1>1, <2>1, OpenLookupTyped, OpenLockTyped, OpenPublishTyped, OpenAddFileTyped DEF Open
<1>2. CASE InodeCreate(t)
  BY <1>2, InodeAllocTyped, InodeInitTyped, InodeFinishTyped, AbortTyped DEF InodeCreate
<1>3. CASE SymLink(t)
  BY <1>3, SymLookupTyped, SymTargetTyped, SymWriteTyped, SymAddTyped DEF SymLink
<1>4. CASE Link(t)
  BY <1>4, LinkLookupTyped, LinkTypeTyped, LinkNameTyped, LinkAddTyped, LinkReadTyped, LinkWriteTyped DEF Link
<1>5. CASE Unlink(t)
  BY <1>5, UnlinkLookupTyped, UnlinkClearTyped, UnlinkReadTyped, UnlinkDropTyped DEF Unlink
<1>6. CASE Close(t)
  BY <1>6, CloseTyped
<1>7. CASE Write(t)
  BY <1>7, WriteEntryTyped, WriteDataTyped DEF Write
<1>8. CASE Read(t)
  BY <1>8, ReadEntryTyped, ReadSizeTyped, ReadCopyTyped, ReadOffsetTyped DEF Read
<1>9. CASE Copy(t)
  BY <1>9, CopyStartTyped, CopyRefusedTyped, CopyChunkTyped, CopyCloseTyped, CopyReturnTyped DEF Copy
<1>10. CASE Begin(t)
  BY <1>10, BeginTyped
<1> QED
  BY <1>1, <1>2, <1>3, <1>4, <1>5, <1>6, <1>7, <1>8, <1>9, <1>10 DEF Step

\* Nothing happens: the types stay.
LEMMA SameTyped == IInv /\ UNCHANGED vars => Typed'
<1> SUFFICES ASSUME IInv, UNCHANGED vars PROVE Typed'
  OBVIOUS
<1>1. copying' \in [Threads -> Copies \cup {None}]
  BY DEF IInv, Typed, vars, client
<1> QED
  BY <1>1, CopyingTyped DEF vars, client

-----------------------------------------------------------------------------
(* Locks *)

\* What a thread owns at each label.
LEMMA OwnsAt ==
  ASSUME NEW t, NEW f, NEW file
  PROVE  /\ \A l \in {"idle", "lookup", "entry", "target", "type", "clear"} : Owns(t, l, f, file) = {}
         /\ Owns(t, "lock", f, file) = IF f.other # None THEN {<<t, "wr", InodeLock(f.other)>>} ELSE {}
         /\ Owns(t, "addfile", f, file) = {<<t, "wr", InodeLock(f.inum)>>}
         /\ \A l \in {"alloc", "init", "created"} : Owns(t, l, f, file) = OwnsTarget(t, f)
         /\ \A l \in {"finish", "abort"} :
               Owns(t, l, f, file) = {<<t, "wr", InodeLock(f.inum)>>} \cup OwnsTarget(t, f)
         /\ Owns(t, "add", f, file) = {<<t, "wr", LinkLock(f.inum)>>} \cup OwnsTarget(t, f)
         /\ \A l \in {"name", "write"} : Owns(t, l, f, file) = {<<t, "wr", LinkLock(f.inum)>>}
         /\ f.call.op = "link" => Owns(t, "read", f, file) = {<<t, "wr", LinkLock(f.inum)>>}
         /\ f.call.op = "unlink" => Owns(t, "read", f, file) = {<<t, "wr", InodeLock(f.inum)>>}
         /\ Owns(t, "drop", f, file) = {<<t, "wr", InodeLock(f.inum)>>}
         /\ Owns(t, "data", f, file) = {<<t, "wr", FdLock(f.call.fd)>>}
         /\ Owns(t, "size", f, file) = {<<t, "rd", FdLock(f.call.fd)>>}
         /\ \A l \in {"copy", "offset"} : Owns(t, l, f, file) =
               {<<t, "rd", FdLock(f.call.fd)>>, <<t, "rd", InodeLock(file.inum)>>}
  BY DEF Owns

\* Every lock that a thread owns carries the thread's name.
LEMMA OwnsOwn == ASSUME NEW t, NEW l, NEW f, NEW file, NEW h \in Owns(t, l, f, file) PROVE h[1] = t
  BY DEF Owns, OwnsTarget

\* A thread has locked exactly what its place in its operation says.
LEMMA HeldByOwner == ASSUME IInv, NEW t \in Threads PROVE {h \in held : h[1] = t} = Owned(t)
<1>1. \A h \in Owned(t) : h[1] = t
  BY OwnsOwn DEF Owned
<1> QED
  BY <1>1 DEF IInv, LocksOwned

\* The locks are still those owned when only t moves, and what it has then is
\* what it owns at its new label.
LEMMA LocksMove ==
  ASSUME IInv, NEW t \in Threads,
         \A u \in Threads \ {t} : /\ pc'[u] = pc[u] /\ frame'[u] = frame[u]
                                  /\ pc[u] \in {"copy", "offset"} => oft'[Fd(u)].inum = oft[Fd(u)].inum,
         \A h : h[1] # t => (h \in held' <=> h \in held),
         {h \in held' : h[1] = t} = Owned(t)'
  PROVE  LocksOwned'
<1>1. ASSUME NEW u \in Threads \ {t} PROVE Owned(u)' = Owned(u)
  <2>1. CASE pc[u] \in {"copy", "offset"}
    <3>1. File(u)' = oft'[Fd(u)] /\ File(u)'.inum = File(u).inum
      BY <2>1 DEF File, Fd
    <3>2. \A x, y : x.inum = y.inum => Owns(u, pc[u], frame[u], x) = Owns(u, pc[u], frame[u], y)
      BY DEF Owns
    <3> QED
      BY <3>1, <3>2 DEF Owned
  <2>2. CASE pc[u] \notin {"copy", "offset"}
    BY <2>2 DEF Owned, Owns
  <2> QED
    BY <2>1, <2>2
<1>2. \A h \in held : h[1] \in Threads
  BY DEF IInv, Typed, TypeOK
<1>3. ASSUME NEW h \in held' PROVE h \in Owned(h[1])'
  <2>1. CASE h[1] = t
    BY <1>3, <2>1
  <2>2. CASE h[1] # t
    BY <1>1, <1>2, <1>3, <2>2 DEF IInv, LocksOwned
  <2> QED
    BY <2>1, <2>2
<1>4. ASSUME NEW u \in Threads PROVE Owned(u)' \subseteq held'
  <2>1. CASE u = t
    BY <2>1
  <2>2. CASE u # t
    <3>1. \A h \in Owned(u) : h \in held /\ h[1] = u
      BY HeldByOwner
    <3> QED
      BY <1>1, <2>2, <3>1
  <2> QED
    BY <2>1, <2>2
<1> QED
  BY <1>3, <1>4 DEF LocksOwned

\* The entries that other threads work on refer to the inodes they did.
SameFiles(t) == \A u \in Threads \ {t} :
                    pc[u] \in {"copy", "offset"} => oft'[Fd(u)].inum = oft[Fd(u)].inum

Locks == LocksOwned /\ WritersAlone

\* t moves to label l with locals f.
Moves(t, l, f) == pc' = [pc EXCEPT ![t] = l] /\ frame' = [frame EXCEPT ![t] = f]

\* t takes no lock.
LEMMA NoLock ==
  ASSUME IInv, NEW t \in Threads, NEW l, NEW f, Moves(t, l, f), SameFiles(t), held' = held,
         Owned(t) = Owns(t, l, f, File(t)')
  PROVE  Locks'
<1>1. Owned(t)' = Owns(t, l, f, File(t)')
  BY DEF Moves, Owned, IInv, Typed
<1>2. \A u \in Threads \ {t} : pc'[u] = pc[u] /\ frame'[u] = frame[u]
  BY DEF Moves, IInv, Typed
<1>3. {h \in held' : h[1] = t} = Owned(t)'
  BY <1>1, HeldByOwner
<1> QED
  BY <1>2, <1>3, LocksMove DEF Locks, IInv, WritersAlone, SameFiles

\* t takes a lock that nobody has, or for reading one that only readers have.
LEMMA TakesLock ==
  ASSUME IInv, NEW t \in Threads, NEW l, NEW f, Moves(t, l, f), SameFiles(t),
         NEW mode, NEW lock, held' = Locked(t, mode, lock),
         CanWrite(lock) \/ (mode = "rd" /\ CanRead(lock)),
         Owns(t, l, f, File(t)') = Owned(t) \cup {<<t, mode, lock>>}
  PROVE  Locks'
<1>1. Owned(t)' = Owns(t, l, f, File(t)')
  BY DEF Moves, Owned, IInv, Typed
<1>2. \A u \in Threads \ {t} : pc'[u] = pc[u] /\ frame'[u] = frame[u]
  BY DEF Moves, IInv, Typed
<1>3. {h \in held' : h[1] = t} = Owned(t)'
  BY <1>1, HeldByOwner DEF Locked
<1>4. \A h : h[1] # t => (h \in held' <=> h \in held)
  BY DEF Locked
<1>5. WritersAlone'
  BY DEF IInv, WritersAlone, Locked, CanWrite, CanRead
<1> QED
  BY <1>2, <1>3, <1>4, <1>5, LocksMove DEF Locks, SameFiles

\* t releases locks.
LEMMA DropsLocks ==
  ASSUME IInv, NEW t \in Threads, NEW l, NEW f, Moves(t, l, f), SameFiles(t),
         NEW locks, held' = Unlocked(t, locks),
         Owns(t, l, f, File(t)') = {h \in Owned(t) : h[3] \notin locks}
  PROVE  Locks'
<1>1. Owned(t)' = Owns(t, l, f, File(t)')
  BY DEF Moves, Owned, IInv, Typed
<1>2. \A u \in Threads \ {t} : pc'[u] = pc[u] /\ frame'[u] = frame[u]
  BY DEF Moves, IInv, Typed
<1>3. {h \in held' : h[1] = t} = Owned(t)'
  BY <1>1, HeldByOwner DEF Unlocked
<1>4. \A h : h[1] # t => (h \in held' <=> h \in held)
  BY DEF Unlocked
<1>5. WritersAlone'
  BY DEF IInv, WritersAlone, Unlocked
<1> QED
  BY <1>2, <1>3, <1>4, <1>5, LocksMove DEF Locks, SameFiles

\* Nobody else's handle changes when no handle does.
LEMMA SameFilesSame == ASSUME IInv, NEW t \in Threads, UNCHANGED oft PROVE SameFiles(t)
  BY DEF SameFiles

\* An operation returns: the locks that it releases are all that it has.
LEMMA LeaveLocks ==
  ASSUME IInv, NEW t \in Threads, NEW locks, Leave(t, locks), SameFiles(t),
         \A h \in Owned(t) : h[3] \in locks
  PROVE  Locks'
<1>1. Owns(t, "idle", NoFrame, File(t)') = {h \in Owned(t) : h[3] \notin locks}
  BY OwnsAt
<1>2. Moves(t, "idle", NoFrame) /\ held' = Unlocked(t, locks)
  BY DEF Leave, Moves
<1> QED
  BY <1>1, <1>2, DropsLocks

\* An operation that fails releases every lock that it has taken.
LEMMA FailLocks ==
  ASSUME IInv, NEW t \in Threads, NEW locks, Fail(t, locks), \A h \in Owned(t) : h[3] \in locks
  PROVE  Locks'
  BY LeaveLocks, SameFilesSame DEF Fail, Return, disk

\* A process that dies releases nothing.
LEMMA CrashLocks == ASSUME IInv, NEW how, Crash(how) PROVE Locks'
  BY DEF Locks, IInv, LocksOwned, WritersAlone, Owned, File, Fd, Crash, disk

\* The fields of a frame are what was put there.
LEMMA FrameFields ==
  ASSUME NEW f, NEW i, NEW o, NEW n, NEW cells
  PROVE  /\ Frame(f, i, o, n, cells).call = f.call /\ Frame(f, i, o, n, cells).inum = i
         /\ Frame(f, i, o, n, cells).other = o
  BY DEF Frame

\* Kinds of locks differ.
LEMMA LockKinds ==
  ASSUME NEW i, NEW j
  PROVE  /\ InodeLock(i) # LinkLock(j) /\ InodeLock(i) # FdLock(j) /\ LinkLock(i) # FdLock(j)
         /\ i # j => InodeLock(i) # InodeLock(j)
  BY DEF InodeLock, LinkLock, FdLock

\* tfs_open looks the name up in the directory: its locks are those of its next
\* label.
LEMMA OpenLookupLocks == ASSUME IInv, NEW t \in Threads, OpenLookup(t) PROVE Locks'
<1> DEFINE i == Lookup(frame[t].call.name)
<1>0. pc[t] = "lookup" /\ Op(t) = "open" /\ frame[t] \in Frames /\ frame[t].other = None /\ Owned(t) = {}
  BY Inside, OwnsAt DEF OpenLookup, At, LocalsFit, Fresh, Owned
<1>1. CASE Fail(t, {})
  BY <1>0, <1>1, FailLocks
<1>2. CASE Goto(t, "alloc", frame[t]) /\ UNCHANGED <<disk, held>>
  <2>1. Owns(t, "alloc", frame[t], File(t)') = {}
    BY <1>0, OwnsAt DEF OwnsTarget, Op
  <2> QED
    BY <1>0, <1>2, <2>1, NoLock, SameFilesSame DEF Goto, Moves, disk
<1>3. CASE Goto(t, "lock", [frame[t] EXCEPT !.inum = i]) /\ UNCHANGED <<disk, held>>
  <2> DEFINE f == Frame(frame[t], i, frame[t].other, frame[t].tmp, frame[t].got)
  <2>1. [frame[t] EXCEPT !.inum = i] = f
    BY <1>0, Locals
  <2>2. f.other = None
    BY <1>0, FrameFields
  <2> HIDE DEF f
  <2>3. Owns(t, "lock", f, File(t)') = {}
    BY <2>2, OwnsAt
  <2> QED
    BY <1>0, <1>3, <2>1, <2>3, NoLock, SameFilesSame DEF Goto, Moves, disk
<1> QED
  BY <1>1, <1>2, <1>3 DEF OpenLookup

\* tfs_open locks the inode, follows a link, truncates, or looks for the end:
\* its locks are those of its next label.
LEMMA OpenLockLocks == ASSUME IInv, NEW t \in Threads, OpenLock(t) PROVE Locks'
<1> DEFINE i == I(t)
           o == frame[t].other
           locks == Locked(t, "wr", InodeLock(i)) \ {<<t, "wr", InodeLock(o)>>}
<1>0. /\ pc[t] = "lock" /\ frame[t] \in Frames /\ CanWrite(InodeLock(i))
      /\ i \in Inodes /\ i # None
  BY Now, Sizes DEF OpenLock, At, WithInode, Inodes
<1>1. Owned(t) = IF o # None THEN {<<t, "wr", InodeLock(o)>>} ELSE {}
  BY <1>0 DEF Owned, Owns
<1>2. CASE Crash("assert")
  BY <1>2, CrashLocks
<1>3. CASE Fail(t, {InodeLock(i), InodeLock(o)})
  BY <1>1, <1>3, FailLocks
<1>4. ASSUME NEW l \in {"lock", "addfile"}, NEW f, Goto(t, l, f), held' = locks, UNCHANGED oft,
             Owns(t, l, f, File(t)') = {<<t, "wr", InodeLock(i)>>}
      PROVE  Locks'
  <2>1. i # o
    <3>1. CASE o = None
      BY <1>0, <3>1
    <3>2. CASE o # None
      <4>1. <<t, "wr", InodeLock(o)>> \in held
        BY <1>1, <3>2, HeldByOwner
      <4>2. InodeLock(o) # InodeLock(i)
        BY <1>0, <4>1 DEF CanWrite
      <4> QED
        BY <4>2
    <3> QED
      BY <3>1, <3>2
  <2>2. {h \in held' : h[1] = t} = {<<t, "wr", InodeLock(i)>>}
    <3>1. {h \in held : h[1] = t} = Owned(t)
      BY HeldByOwner
    <3>2. InodeLock(i) # InodeLock(o)
      BY <2>1, LockKinds
    <3> HIDE DEF i, o
    <3>3. \A h \in Owned(t) : h = <<t, "wr", InodeLock(o)>>
      BY <1>1
    <3>4. <<t, "wr", InodeLock(i)>> \in held' /\ <<t, "wr", InodeLock(i)>>[1] = t
      BY <1>4, <3>2 DEF Locked
    <3>5. ASSUME NEW h \in held', h[1] = t PROVE h = <<t, "wr", InodeLock(i)>>
      BY <1>4, <3>1, <3>3, <3>5 DEF Locked
    <3> QED
      BY <3>4, <3>5
  <2>3. \A h : h[1] # t => (h \in held' <=> h \in held)
    BY <1>4 DEF Locked
  <2>4. Owned(t)' = Owns(t, l, f, File(t)')
    BY <1>4 DEF Goto, Owned, IInv, Typed
  <2>5. \A u \in Threads \ {t} : pc'[u] = pc[u] /\ frame'[u] = frame[u]
    BY <1>4 DEF Goto, IInv, Typed
  <2>6. WritersAlone'
    BY <1>0, <1>4 DEF IInv, WritersAlone, Locked, CanWrite
  <2>7. SameFiles(t)
    BY <1>4, SameFilesSame
  <2> QED
    BY <1>4, <2>2, <2>3, <2>4, <2>5, <2>6, <2>7, LocksMove DEF Locks, SameFiles
<1>5. ASSUME NEW target, Goto(t, "lock", [frame[t] EXCEPT !.inum = target, !.other = i]), held' = locks, UNCHANGED disk
      PROVE  Locks'
  <2> DEFINE f == Frame(frame[t], target, i, frame[t].tmp, frame[t].got)
  <2>1. [frame[t] EXCEPT !.inum = target, !.other = i] = f
    BY <1>0, Locals
  <2>2. f.other = i
    BY FrameFields
  <2> HIDE DEF f
  <2>3. Owns(t, "lock", f, File(t)') = {<<t, "wr", InodeLock(i)>>}
    BY <1>0, <2>2, OwnsAt
  <2>4. Goto(t, "lock", f) /\ UNCHANGED oft
    BY <1>5, <2>1 DEF disk
  <2> QED
    BY <1>4, <1>5, <2>3, <2>4
<1>6. ASSUME NEW n, Goto(t, "addfile", [frame[t] EXCEPT !.other = None, !.tmp = n]), held' = locks, UNCHANGED oft
      PROVE  Locks'
  <2> DEFINE f == Frame(frame[t], frame[t].inum, None, n, frame[t].got)
  <2>1. [frame[t] EXCEPT !.other = None, !.tmp = n] = f
    BY <1>0, Locals
  <2>2. f.inum = i
    BY FrameFields DEF I
  <2> HIDE DEF f
  <2>3. Owns(t, "addfile", f, File(t)') = {<<t, "wr", InodeLock(i)>>}
    BY <2>2, OwnsAt
  <2>4. Goto(t, "addfile", f)
    BY <1>6, <2>1
  <2> QED
    BY <1>4, <1>6, <2>3, <2>4
<1> QED
  BY <1>2, <1>3, <1>5, <1>6 DEF OpenLock

\* tfs_open puts the file in the table of open files, if there is room: its
\* locks are those of its next label.
LEMMA OpenPublishLocks == ASSUME IInv, NEW t \in Threads, OpenPublish(t) PROVE Locks'
<1>0. pc[t] = "created" /\ Op(t) = "open" /\ CanWrite(InodeLock(I(t)))
  BY DEF OpenPublish, At
<1>1. Owned(t) = {}
  BY <1>0 DEF Owned, Owns, OwnsTarget, Op
<1>2. PICK l \in {"addfile", "abort"} : Goto(t, l, frame[t])
  BY DEF OpenPublish
<1>3. Owns(t, l, frame[t], File(t)') = {<<t, "wr", InodeLock(I(t))>>}
  BY <1>0, <1>2 DEF Owns, OwnsTarget, Op, I
<1>4. SameFiles(t)
  BY SameFilesSame DEF OpenPublish, disk
<1>5. Moves(t, l, frame[t]) /\ held' = Locked(t, "wr", InodeLock(I(t)))
  BY <1>2 DEF OpenPublish, Goto, Moves
<1>6. Owns(t, l, frame[t], File(t)') = Owned(t) \cup {<<t, "wr", InodeLock(I(t))>>}
  BY <1>1, <1>3
<1> QED
  BY <1>0, <1>4, <1>5, <1>6, TakesLock

\* tfs_open opens the file it has just looked at: its locks are those of its
\* next label.
LEMMA OpenAddFileLocks == ASSUME IInv, NEW t \in Threads, OpenAddFile(t) PROVE Locks'
<1>1. Owned(t) = {<<t, "wr", InodeLock(I(t))>>}
  BY DEF OpenAddFile, At, Owned, Owns, I
<1>2. CASE FreeFds = {}
  BY <1>1, <1>2, FailLocks DEF OpenAddFile
<1>3. CASE FreeFds # {}
  <2>1. First(FreeFds) \in Fds /\ oft[First(FreeFds)] = None
    BY <1>3, FirstFree DEF FreeFds
  <2>2. oft' = [oft EXCEPT ![First(FreeFds)] = [inum |-> I(t), off |-> frame[t].tmp]]
    BY <1>3 DEF OpenAddFile, AddToOpenFileTable
  <2>3. ASSUME NEW u \in Threads \ {t}, pc[u] \in WithFd PROVE oft'[Fd(u)] = oft[Fd(u)]
    <3>1. Fd(u) \in Fds /\ oft[Fd(u)] # None
      BY <2>3 DEF IInv, Typed, FileKept, File, Fits, LocalsFit, Fd
    <3> QED
      BY <2>1, <2>2, <3>1, IInvDisk DEF DiskOK
  <2>4. SameFiles(t)
    BY <2>3 DEF SameFiles, WithFd
  <2> QED
    BY <1>1, <1>3, <2>4, LeaveLocks DEF OpenAddFile
<1> QED
  BY <1>2, <1>3

\* inode_create finds a free inode, or there is none: its locks are those of
\* its next label.
LEMMA InodeAllocLocks == ASSUME IInv, NEW t \in Threads, InodeAlloc(t) PROVE Locks'
<1>0. pc[t] = "alloc" /\ frame[t] \in Frames
  BY Inside DEF InodeAlloc
<1>1. Owned(t) = OwnsTarget(t, frame[t])
  BY <1>0 DEF Owned, Owns
<1>2. CASE FreeInodes = {}
  BY <1>1, <1>2, FailLocks DEF InodeAlloc, OwnsTarget, Target
<1>3. CASE FreeInodes # {}
  <2> DEFINE i == First(FreeInodes)
             f == Frame(frame[t], i, frame[t].other, frame[t].tmp, frame[t].got)
  <2>1. [frame[t] EXCEPT !.inum = i] = f
    BY <1>0, Locals
  <2>2. f.call = frame[t].call /\ f.other = frame[t].other
    BY FrameFields
  <2>3. Goto(t, "init", f) /\ UNCHANGED <<oft, held>>
    BY <1>3, <2>1 DEF InodeAlloc
  <2> HIDE DEF f
  <2>4. Owns(t, "init", f, File(t)') = OwnsTarget(t, frame[t])
    BY <2>2 DEF Owns, OwnsTarget
  <2> QED
    BY <1>1, <2>3, <2>4, NoLock, SameFilesSame DEF Goto, Moves
<1> QED
  BY <1>2, <1>3

\* inode_create fills the inode in, and gives a link its block: its locks are
\* those of its next label.
LEMMA InodeInitLocks == ASSUME IInv, NEW t \in Threads, InodeInit(t) PROVE Locks'
<1>0. pc[t] = "init" /\ CanWrite(InodeLock(I(t))) /\ held' = Locked(t, "wr", InodeLock(I(t))) /\ UNCHANGED oft
  BY DEF InodeInit
<1>1. Owned(t) = OwnsTarget(t, frame[t])
  BY <1>0 DEF Owned, Owns
<1>2. PICK l \in {"finish", "abort"} : Goto(t, l, frame[t])
  BY DEF InodeInit
<1>3. Owns(t, l, frame[t], File(t)') = Owned(t) \cup {<<t, "wr", InodeLock(I(t))>>}
  BY <1>1, <1>2 DEF Owns, I
<1> QED
  BY <1>0, <1>2, <1>3, TakesLock, SameFilesSame DEF Goto, Moves

\* inode_create marks the inode as taken, with one hard link: its locks are
\* those of its next label.
LEMMA InodeFinishLocks == ASSUME IInv, NEW t \in Threads, InodeFinish(t) PROVE Locks'
<1>0. pc[t] = "finish" /\ held' = Unlocked(t, {InodeLock(I(t))}) /\ UNCHANGED oft /\ Goto(t, "created", frame[t])
  BY DEF InodeFinish
<1>1. Owned(t) = {<<t, "wr", InodeLock(I(t))>>} \cup OwnsTarget(t, frame[t])
  BY <1>0 DEF Owned, Owns, I
<1>2. \A h \in OwnsTarget(t, frame[t]) : h[3] # InodeLock(I(t))
  BY LockKinds DEF OwnsTarget
<1>3. Owns(t, "created", frame[t], File(t)') = {h \in Owned(t) : h[3] \notin {InodeLock(I(t))}}
  BY <1>1, <1>2 DEF Owns
<1> QED
  BY <1>0, <1>3, DropsLocks, SameFilesSame DEF Goto, Moves

\* inode_delete undoes an inode_create that found no block: its locks are those
\* of its next label.
LEMMA AbortLocks == ASSUME IInv, NEW t \in Threads, Abort(t) PROVE Locks'
<1>1. Owned(t) = {<<t, "wr", InodeLock(I(t))>>} \cup OwnsTarget(t, frame[t])
  BY DEF Abort, Owned, Owns, I
<1>2. \A h \in Owned(t) : h[3] \in {InodeLock(I(t))} \cup Target(t)
  BY <1>1 DEF OwnsTarget, Target
<1>3. CASE I(t) \in takenI
  BY <1>2, <1>3, LeaveLocks, SameFilesSame DEF Abort, Return
<1>4. CASE I(t) \notin takenI
  BY <1>4, CrashLocks DEF Abort
<1> QED
  BY <1>3, <1>4

\* t goes on, with the locals that it has and what else is in the frame, at a
\* label where it owns one lock more.
LEMMA GoesOnLocking ==
  ASSUME IInv, NEW t \in Threads, NEW l, Goto(t, l, frame[t]), UNCHANGED oft,
         NEW mode, NEW lock, held' = Locked(t, mode, lock),
         CanWrite(lock) \/ (mode = "rd" /\ CanRead(lock)),
         Owns(t, l, frame[t], File(t)) = Owned(t) \cup {<<t, mode, lock>>}
  PROVE  Locks'
<1>1. Moves(t, l, frame[t])
  BY DEF Goto, Moves
<1>2. File(t)' = File(t)
  BY DEF Goto, File, Fd, IInv, Typed
<1> QED
  BY <1>1, <1>2, TakesLock, SameFilesSame

\* tfs_sym_link looks its target up: its locks are those of its next label.
LEMMA SymLookupLocks == ASSUME IInv, NEW t \in Threads, SymLookup(t) PROVE Locks'
<1> DEFINE i == Lookup(frame[t].call.target)
<1>0. Owned(t) = {}
  BY DEF SymLookup, At, Owned, Owns
<1>1. CASE i = None
  BY <1>0, <1>1, FailLocks DEF SymLookup
<1>2. CASE i # None
  <2> DEFINE f == [frame[t] EXCEPT !.other = i]
  <2>1. Goto(t, "target", f) /\ UNCHANGED <<disk, held>>
    BY <1>2 DEF SymLookup
  <2> HIDE DEF f
  <2>2. Owns(t, "target", f, File(t)') = {}
    BY DEF Owns
  <2> QED
    BY <1>0, <2>1, <2>2, NoLock, SameFilesSame DEF Goto, Moves, disk
<1> QED
  BY <1>1, <1>2

\* tfs_sym_link looks for the name of the link: its locks are those of its next
\* label.
LEMMA SymTargetLocks == ASSUME IInv, NEW t \in Threads, SymTarget(t) PROVE Locks'
<1>0. Owned(t) = {} /\ Op(t) = "symlink" /\ CanRead(LinkLock(frame[t].other))
  BY DEF SymTarget, At, Owned, Owns
<1>1. CASE Lookup(frame[t].call.name) # None
  BY <1>0, <1>1, FailLocks DEF SymTarget
<1>2. CASE Lookup(frame[t].call.name) = None
  <2>1. Owns(t, "alloc", frame[t], File(t)) = {<<t, "rd", LinkLock(frame[t].other)>>}
    BY <1>0 DEF Owns, OwnsTarget, Op
  <2>2. Goto(t, "alloc", frame[t]) /\ held' = Locked(t, "rd", LinkLock(frame[t].other)) /\ UNCHANGED oft
    BY <1>2 DEF SymTarget, disk
  <2> QED
    BY <1>0, <2>1, <2>2, GoesOnLocking
<1> QED
  BY <1>1, <1>2

\* tfs_sym_link writes the target's name into the link's block: its locks are
\* those of its next label.
LEMMA SymWriteLocks == ASSUME IInv, NEW t \in Threads, SymWrite(t) PROVE Locks'
<1>0. pc[t] = "created" /\ CanWrite(LinkLock(I(t)))
  BY DEF SymWrite, At
<1>1. CASE inode[I(t)].block = None
  BY <1>1, CrashLocks DEF SymWrite
<1>2. CASE inode[I(t)].block # None
  <2>1. Goto(t, "add", frame[t]) /\ held' = Locked(t, "wr", LinkLock(I(t))) /\ UNCHANGED oft
    BY <1>2 DEF SymWrite
  <2>2. Owns(t, "add", frame[t], File(t)) = Owned(t) \cup {<<t, "wr", LinkLock(I(t))>>}
    BY <1>0 DEF Owned, Owns, I
  <2> QED
    BY <1>0, <2>1, <2>2, GoesOnLocking
<1> QED
  BY <1>1, <1>2

\* tfs_sym_link adds the link to the directory, or deletes its inode when the
\* directory is full: its locks are those of its next label.
LEMMA SymAddLocks == ASSUME IInv, NEW t \in Threads, SymAdd(t) PROVE Locks'
<1>1. Owned(t) = {<<t, "wr", LinkLock(I(t))>>} \cup OwnsTarget(t, frame[t])
  BY DEF SymAdd, At, Owned, Owns, I
<1>2. \A h \in Owned(t) : h[3] \in Target(t) \cup {LinkLock(I(t))}
  BY <1>1 DEF OwnsTarget, Target
<1>3. CASE FreeEntries # {}
  BY <1>2, <1>3, LeaveLocks, SameFilesSame DEF SymAdd, Return
<1>4. CASE FreeEntries = {}
  BY <1>2, <1>4, FailLocks DEF SymAdd
<1> QED
  BY <1>3, <1>4

\* t goes on and neither takes nor releases a lock.
LEMMA GoesOnAlike ==
  ASSUME IInv, NEW t \in Threads, NEW l, NEW f, Goto(t, l, f), UNCHANGED <<oft, held>>,
         f.call = frame[t].call, Owns(t, l, f, File(t)) = Owned(t)
  PROVE  Locks'
<1>1. Moves(t, l, f)
  BY DEF Goto, Moves
<1>2. File(t)' = File(t)
  BY DEF Goto, File, Fd, IInv, Typed
<1> QED
  BY <1>1, <1>2, NoLock, SameFilesSame

\* tfs_link holds the write lock of the link from its look at the type until
\* hard_links is written.
LEMMA LinkLocks == ASSUME IInv, NEW t \in Threads, Link(t) PROVE Locks'
<1>1. CASE LinkLookup(t)
  <2> DEFINE i == Lookup(frame[t].call.target)
  <2>0. Owned(t) = {}
    BY <1>1 DEF LinkLookup, At, Owned, Owns
  <2>1. CASE i = None
    BY <1>1, <2>0, <2>1, FailLocks, CrashLocks DEF LinkLookup
  <2>2. CASE i # None
    <3> DEFINE f == [frame[t] EXCEPT !.inum = i]
    <3>1. Goto(t, "type", f) /\ UNCHANGED <<disk, held>>
      BY <1>1, <2>2 DEF LinkLookup
    <3> HIDE DEF f
    <3>2. Owns(t, "type", f, File(t)') = {}
      BY DEF Owns
    <3> QED
      BY <2>0, <3>1, <3>2, NoLock, SameFilesSame DEF Goto, Moves, disk
  <2> QED
    BY <2>1, <2>2
<1>2. CASE LinkType(t)
  <2>0. Owned(t) = {} /\ CanWrite(LinkLock(I(t)))
    BY <1>2 DEF LinkType, At, Owned, Owns
  <2>1. CASE inode[I(t)].type # "FILE"
    BY <1>2, <2>0, <2>1, FailLocks DEF LinkType
  <2>2. CASE inode[I(t)].type = "FILE"
    <3>1. Owns(t, "name", frame[t], File(t)) = {<<t, "wr", LinkLock(I(t))>>}
      BY DEF Owns, I
    <3>2. Goto(t, "name", frame[t]) /\ held' = Locked(t, "wr", LinkLock(I(t))) /\ UNCHANGED oft
      BY <1>2, <2>2 DEF LinkType, disk
    <3> QED
      BY <2>0, <3>1, <3>2, GoesOnLocking
  <2> QED
    BY <2>1, <2>2
<1>3. CASE LinkName(t)
  <2>0. Owned(t) = {<<t, "wr", LinkLock(I(t))>>} /\ Op(t) = "link"
    BY <1>3 DEF LinkName, At, Owned, Owns, I
  <2>1. CASE Lookup(frame[t].call.name) # None
    BY <1>3, <2>0, <2>1, FailLocks DEF LinkName
  <2>2. CASE Lookup(frame[t].call.name) = None
    <3>1. Owns(t, "add", frame[t], File(t)) = Owned(t)
      BY <2>0 DEF Owns, OwnsTarget, Op, I
    <3> QED
      BY <1>3, <2>2, <3>1, GoesOnAlike DEF LinkName, disk
  <2> QED
    BY <2>1, <2>2
<1>4. CASE LinkAdd(t)
  <2>0. Owned(t) = {<<t, "wr", LinkLock(I(t))>>} /\ Op(t) = "link"
    BY <1>4 DEF LinkAdd, At, Owned, Owns, OwnsTarget, I, Op
  <2>1. CASE FreeEntries = {}
    BY <1>4, <2>0, <2>1, FailLocks DEF LinkAdd
  <2>2. CASE FreeEntries # {}
    <3>1. Owns(t, "read", frame[t], File(t)) = Owned(t)
      BY <2>0 DEF Owns, OwnsTarget, Op, I
    <3> QED
      BY <1>4, <2>2, <3>1, GoesOnAlike DEF LinkAdd
  <2> QED
    BY <2>1, <2>2
<1>5. CASE LinkRead(t)
  <2> DEFINE n == inode[I(t)].links
             f == Frame(frame[t], frame[t].inum, frame[t].other, n, frame[t].got)
  <2>0. Owned(t) = {<<t, "wr", LinkLock(I(t))>>} /\ frame[t] \in Frames
    BY <1>5, Now DEF LinkRead, At, Owned, Owns, Op, I
  <2>1. [frame[t] EXCEPT !.tmp = n] = f
    BY <2>0, Locals
  <2>2. f.call = frame[t].call /\ f.inum = I(t)
    BY FrameFields DEF I
  <2>3. Goto(t, "write", f) /\ UNCHANGED <<oft, held>>
    BY <1>5, <2>1 DEF LinkRead, disk
  <2> HIDE DEF f
  <2>4. Owns(t, "write", f, File(t)) = Owned(t)
    BY <2>0, <2>2 DEF Owns
  <2> QED
    BY <2>2, <2>3, <2>4, GoesOnAlike
<1>6. CASE LinkWrite(t)
  <2>1. Owned(t) = {<<t, "wr", LinkLock(I(t))>>}
    BY <1>6 DEF LinkWrite, At, Owned, Owns, I
  <2> QED
    BY <1>6, <2>1, LeaveLocks, SameFilesSame DEF LinkWrite, Return
<1> QED
  BY <1>1, <1>2, <1>3, <1>4, <1>5, <1>6 DEF Link

\* tfs_unlink holds the write lock of the inode from the look at its directory
\* entry until hard_links is written.
LEMMA UnlinkLocks == ASSUME IInv, NEW t \in Threads, Unlink(t) PROVE Locks'
<1>1. CASE UnlinkLookup(t)
  <2> DEFINE i == Lookup(frame[t].call.name)
  <2>0. Owned(t) = {}
    BY <1>1 DEF UnlinkLookup, At, Owned, Owns
  <2>1. CASE i = None
    BY <1>1, <2>0, <2>1, FailLocks DEF UnlinkLookup
  <2>2. CASE i # None
    <3> DEFINE f == [frame[t] EXCEPT !.inum = i]
    <3>1. Goto(t, "clear", f) /\ UNCHANGED <<disk, held>>
      BY <1>1, <2>2 DEF UnlinkLookup
    <3> HIDE DEF f
    <3>2. Owns(t, "clear", f, File(t)') = {}
      BY DEF Owns
    <3> QED
      BY <2>0, <3>1, <3>2, NoLock, SameFilesSame DEF Goto, Moves, disk
  <2> QED
    BY <2>1, <2>2
<1>2. CASE UnlinkClear(t)
  <2>0. Owned(t) = {} /\ CanWrite(InodeLock(I(t))) /\ Op(t) = "unlink"
    BY <1>2 DEF UnlinkClear, At, Owned, Owns
  <2>1. CASE EntriesFor(frame[t].call.name) = {}
    BY <1>2, <2>0, <2>1, FailLocks DEF UnlinkClear
  <2>2. CASE EntriesFor(frame[t].call.name) # {}
    <3>1. Owns(t, "read", frame[t], File(t)) = {<<t, "wr", InodeLock(I(t))>>}
      BY <2>0 DEF Owns, I, Op
    <3>2. Goto(t, "read", frame[t]) /\ held' = Locked(t, "wr", InodeLock(I(t))) /\ UNCHANGED oft
      BY <1>2, <2>2 DEF UnlinkClear
    <3> QED
      BY <2>0, <3>1, <3>2, GoesOnLocking
  <2> QED
    BY <2>1, <2>2
<1>3. CASE UnlinkRead(t)
  <2> DEFINE n == inode[I(t)].links
             f == Frame(frame[t], frame[t].inum, frame[t].other, n, frame[t].got)
  <2>0. Owned(t) = {<<t, "wr", InodeLock(I(t))>>} /\ frame[t] \in Frames
    BY <1>3, Now DEF UnlinkRead, At, Owned, Owns, Op, I
  <2>1. [frame[t] EXCEPT !.tmp = n] = f
    BY <2>0, Locals
  <2>2. f.call = frame[t].call /\ f.inum = I(t)
    BY FrameFields DEF I
  <2>3. Goto(t, "drop", f) /\ UNCHANGED <<oft, held>>
    BY <1>3, <2>1 DEF UnlinkRead, disk
  <2> HIDE DEF f
  <2>4. Owns(t, "drop", f, File(t)) = Owned(t)
    BY <2>0, <2>2 DEF Owns
  <2> QED
    BY <2>2, <2>3, <2>4, GoesOnAlike
<1>4. CASE UnlinkDrop(t)
  <2>1. Owned(t) = {<<t, "wr", InodeLock(I(t))>>}
    BY <1>4 DEF UnlinkDrop, At, Owned, Owns, I
  <2>2. Crash("assert") \/ (Return(t, {InodeLock(I(t))}) /\ UNCHANGED oft)
    BY <1>4 DEF UnlinkDrop
  <2> QED
    BY <2>1, <2>2, LeaveLocks, CrashLocks, SameFilesSame DEF Return
<1> QED
  BY <1>1, <1>2, <1>3, <1>4 DEF Unlink

\* tfs_close takes the handle off the table of open files: its locks are those
\* of its next label.
LEMMA CloseLocks == ASSUME IInv, NEW t \in Threads, Close(t) PROVE Locks'
<1>0. Owned(t) = {} /\ CanWrite(FdLock(Fd(t))) /\ pc[t] = "entry"
  BY DEF Close, At, Owned, Owns
<1>1. CASE File(t) = None
  BY <1>0, <1>1, FailLocks DEF Close
<1>2. CASE File(t) # None
  <2>1. oft' = [oft EXCEPT ![Fd(t)] = None] /\ Return(t, {})
    BY <1>2 DEF Close
  <2>2. ASSUME NEW u \in Threads \ {t}, pc[u] \in WithFd PROVE oft'[Fd(u)] = oft[Fd(u)]
    <3>1. Fd(u) # Fd(t)
      BY <1>0, <2>2, FdLocked DEF CanWrite, FdLock
    <3>2. Fd(u) \in Fds
      BY <2>2 DEF IInv, Typed, Fits, LocalsFit, Fd
    <3> QED
      BY <2>1, <3>1, <3>2, IInvDisk DEF DiskOK
  <2>3. SameFiles(t)
    BY <2>2 DEF SameFiles, WithFd
  <2> QED
    BY <1>0, <2>1, <2>3, LeaveLocks DEF Return
<1> QED
  BY <1>1, <1>2

\* A handle's offset moves; nothing else changes for the threads that use it.
LEMMA SameFilesOffset ==
  ASSUME IInv, NEW t \in Threads, NEW d \in Fds, oft[d] # None, NEW off \in 0 .. MaxOffset,
         oft' = [oft EXCEPT ![d].off = off]
  PROVE  SameFiles(t)
<1>1. \A u \in Threads : pc[u] \in WithFd => Fd(u) \in Fds /\ oft'[Fd(u)] # None
  BY OffsetTyped DEF IInv, Typed, Fits, LocalsFit, Fd
<1>2. \A e \in Fds : oft'[e] # None => oft'[e].inum = oft[e].inum
  BY OffsetTyped
<1> QED
  BY <1>1, <1>2 DEF SameFiles, WithFd

\* tfs_write holds the write lock of its handle until the data is written.
LEMMA WriteLocks == ASSUME IInv, NEW t \in Threads, Write(t) PROVE Locks'
<1>1. CASE WriteEntry(t)
  <2>0. Owned(t) = {} /\ CanWrite(FdLock(Fd(t)))
    BY <1>1 DEF WriteEntry, At, Owned, Owns
  <2>1. CASE File(t) = None
    BY <1>1, <2>0, <2>1, LeaveLocks, SameFilesSame DEF WriteEntry, WriteReturn, disk
  <2>2. CASE File(t) # None
    <3>1. Owns(t, "data", frame[t], File(t)) = {<<t, "wr", FdLock(Fd(t))>>}
      BY DEF Owns, Fd
    <3>2. Goto(t, "data", frame[t]) /\ held' = Locked(t, "wr", FdLock(Fd(t))) /\ UNCHANGED oft
      BY <1>1, <2>2 DEF WriteEntry, disk
    <3> QED
      BY <2>0, <3>1, <3>2, GoesOnLocking
  <2> QED
    BY <2>1, <2>2
<1>2. CASE WriteData(t)
  <2>0. /\ Owned(t) = {<<t, "wr", FdLock(Fd(t))>>}
        /\ Fd(t) \in Fds /\ File(t) \in Files /\ frame[t].call.cells \in Seq(Data)
    BY <1>2, Now, CallFields DEF WriteData, At, Owned, Owns, Op, Fd, WithFd, Files
  <2> DEFINE off == File(t).off
             n == WriteCount(Len(frame[t].call.cells), off)
  <2>1. CASE Crash("undefined")
    BY <2>1, CrashLocks
  <2>2. CASE WriteReturn(t, {FdLock(Fd(t))}, IF n = 0 THEN 0 ELSE -1) /\ UNCHANGED disk
    BY <2>0, <2>2, LeaveLocks, SameFilesSame DEF WriteReturn, disk
  <2>3. CASE n > 0 /\ oft' = [oft EXCEPT ![Fd(t)].off = off + n] /\ WriteReturn(t, {FdLock(Fd(t))}, n)
    <3>1. off \in 0 .. MaxOffset /\ oft[Fd(t)] # None
      BY <2>0, FileFields DEF File
    <3>2. off + n \in 0 .. MaxOffset
      <4>1. n \in Int /\ off + n <= BlockSize
        <5>1. Len(frame[t].call.cells) \in Nat
          BY <2>0
        <5> QED
          BY <3>1, <5>1, Sizes DEF WriteCount, Min2
      <4> QED
        BY <2>3, <3>1, <4>1, Sizes
    <3>3. SameFiles(t)
      BY <2>0, <2>3, <3>1, <3>2, SameFilesOffset
    <3> QED
      BY <2>0, <2>3, <3>3, LeaveLocks DEF WriteReturn
  <2> QED
    BY <1>2, <2>1, <2>2, <2>3 DEF WriteData
<1> QED
  BY <1>1, <1>2 DEF Write

\* tfs_read holds the read lock of its handle, then the inode's too, until the
\* offset is advanced.
LEMMA ReadLocksMove == ASSUME IInv, NEW t \in Threads, Read(t) PROVE Locks'
<1>1. CASE ReadEntry(t)
  <2>0. Owned(t) = {} /\ CanRead(FdLock(Fd(t)))
    BY <1>1 DEF ReadEntry, At, Owned, Owns
  <2>1. CASE File(t) = None
    BY <1>1, <2>0, <2>1, FailLocks DEF ReadEntry
  <2>2. CASE File(t) # None
    <3>1. Owns(t, "size", frame[t], File(t)) = {<<t, "rd", FdLock(Fd(t))>>}
      BY DEF Owns, Fd
    <3>2. Goto(t, "size", frame[t]) /\ held' = Locked(t, "rd", FdLock(Fd(t))) /\ UNCHANGED oft
      BY <1>1, <2>2 DEF ReadEntry, disk
    <3> QED
      BY <2>0, <3>1, <3>2, GoesOnLocking
  <2> QED
    BY <2>1, <2>2
<1>2. CASE ReadSize(t)
  <2>0. /\ Owned(t) = {<<t, "rd", FdLock(Fd(t))>>} /\ frame[t] \in Frames
        /\ CanRead(InodeLock(File(t).inum))
    BY <1>2, Now DEF ReadSize, At, Owned, Owns, Op, Fd
  <2>1. CASE Leave(t, ReadLocks(t)) /\ UNCHANGED disk
    BY <2>0, <2>1, LeaveLocks, SameFilesSame DEF ReadLocks, disk
  <2>2. CASE Crash("assert")
    BY <2>2, CrashLocks
  <2>3. CASE /\ held' = Locked(t, "rd", InodeLock(File(t).inum))
             /\ Goto(t, "copy", [frame[t] EXCEPT !.tmp = ToRead(t)])
             /\ UNCHANGED disk
    <3> DEFINE f == Frame(frame[t], frame[t].inum, frame[t].other, ToRead(t), frame[t].got)
    <3>1. [frame[t] EXCEPT !.tmp = ToRead(t)] = f
      BY <2>0, Locals
    <3>2. f.call = frame[t].call
      BY FrameFields
    <3>3. Moves(t, "copy", f) /\ UNCHANGED oft
      BY <2>3, <3>1 DEF Goto, Moves, disk
    <3> HIDE DEF f
    <3>4. File(t)' = File(t)
      BY <3>2, <3>3 DEF Moves, File, Fd, IInv, Typed
    <3>5. Owns(t, "copy", f, File(t)) = Owned(t) \cup {<<t, "rd", InodeLock(File(t).inum)>>}
      BY <2>0, <3>2 DEF Owns, Fd
    <3> QED
      BY <2>0, <2>3, <3>3, <3>4, <3>5, TakesLock, SameFilesSame
  <2> QED
    BY <1>2, <2>1, <2>2, <2>3 DEF ReadSize
<1>3. CASE ReadCopy(t)
  <2> DEFINE o == File(t).off
             cells == [k \in 1 .. frame[t].tmp |-> Cell(inode[File(t).inum].block, o + k - 1)]
             f == Frame(frame[t], frame[t].inum, o, frame[t].tmp, cells)
  <2>0. pc[t] = "copy" /\ frame[t] \in Frames
    BY <1>3, Now DEF ReadCopy, At, Op
  <2>1. Goto(t, "offset", [frame[t] EXCEPT !.other = o, !.got = cells]) /\ UNCHANGED <<oft, held>>
    BY <1>3 DEF ReadCopy, disk
  <2> HIDE DEF o, cells
  <2>2. [frame[t] EXCEPT !.other = o, !.got = cells] = f
    BY <2>0, LocalsRead
  <2>3. f.call = frame[t].call
    BY FrameFields
  <2>4. Goto(t, "offset", f)
    BY <2>1, <2>2
  <2> HIDE DEF f
  <2>5. Owns(t, "offset", f, File(t)) = Owned(t)
    BY <2>0, <2>3 DEF Owned, Owns
  <2> QED
    BY <2>1, <2>3, <2>4, <2>5, GoesOnAlike
<1>4. CASE ReadOffset(t)
  <2>0. /\ Owned(t) = {<<t, "rd", FdLock(Fd(t))>>, <<t, "rd", InodeLock(File(t).inum)>>}
        /\ frame[t] \in Frames /\ frame[t].other \in Nat /\ Fd(t) \in Fds /\ File(t) \in Files
    BY <1>4, Now DEF ReadOffset, At, Owned, Owns, Op, Fd, WithFd, Files
  <2>1. PICK o \in {frame[t].other, File(t).off} :
          oft' = [oft EXCEPT ![Fd(t)].off = Min2(o + frame[t].tmp, MaxOffset)]
    BY <1>4 DEF ReadOffset
  <2>2. o \in Nat /\ frame[t].tmp \in Nat
    BY <2>0, FileFields, LocalTypes, Sizes
  <2>3. Min2(o + frame[t].tmp, MaxOffset) \in 0 .. MaxOffset
    BY <2>2, Sizes DEF Min2
  <2>4. oft[Fd(t)] # None
    BY <2>0, FileFields DEF File
  <2>5. SameFiles(t)
    BY <2>0, <2>1, <2>3, <2>4, SameFilesOffset
  <2> QED
    BY <1>4, <2>0, <2>5, LeaveLocks DEF ReadOffset, ReadLocks
<1> QED
  BY <1>1, <1>2, <1>3, <1>4 DEF Read

\* A call that begins owns nothing yet.
LEMMA CallLocks ==
  ASSUME IInv, NEW t \in Threads, NEW c, NEW l \in {"lookup", "entry"}, Call(t, c, l), Owned(t) = {}
  PROVE  Locks'
<1> DEFINE f == [NoFrame EXCEPT !.call = c]
<1>1. Owns(t, l, f, File(t)') = {}
  BY DEF Owns
<1>2. Moves(t, l, f) /\ UNCHANGED <<held, oft>>
  BY DEF Call, Moves, disk
<1> HIDE DEF f
<1> QED
  BY <1>1, <1>2, NoLock, SameFilesSame

\* A step that neither moves a thread nor locks nor closes anything leaves the
\* locks as they are described.
LEMMA SameLocks == ASSUME IInv, UNCHANGED <<held, pc, frame, oft>> PROVE Locks'
  BY DEF Locks, IInv, LocksOwned, WritersAlone, Owned, File, Fd

\* tfs_copy_from_external_fs holds no lock of its own between the calls it
\* makes.
LEMMA CopyLocks == ASSUME IInv, NEW t \in Threads, Copy(t) PROVE Locks'
<1>1. Owned(t) = {}
  BY DEF Copy, CopyStart, CopyRefused, CopyChunk, CopyClose, CopyReturn, Between, At, Owned, Owns
<1>2. CASE CopyStart(t)
  BY <1>1, <1>2, FailLocks, CallLocks DEF CopyStart
<1>3. CASE CopyChunk(t) \/ CopyClose(t)
  BY <1>1, <1>3, CallLocks DEF CopyChunk, CopyClose
<1>4. CASE CopyRefused(t) \/ CopyReturn(t)
  BY <1>4, SameLocks DEF CopyRefused, CopyReturn, disk
<1> QED
  BY <1>2, <1>3, <1>4 DEF Copy

\* A thread makes its next call: its locks are those of its next label.
LEMMA BeginLocks == ASSUME IInv, NEW t \in Threads, Begin(t) PROVE Locks'
<1>0. pc[t] = "idle" /\ Owned(t) = {} /\ UNCHANGED <<held, oft>>
  BY DEF Begin, Owned, Owns, disk
<1>1. ASSUME NEW l \in {"lookup", "entry"}, NEW f, Moves(t, l, f) PROVE Locks'
  <2>1. Owns(t, l, f, File(t)') = {}
    BY DEF Owns
  <2> QED
    BY <1>0, <1>1, <2>1, NoLock, SameFilesSame
<1>2. CASE UNCHANGED <<pc, frame>>
  BY <1>0, <1>2, SameLocks
<1>3. ASSUME NEW c, frame' = [frame EXCEPT ![t].call = c]
      PROVE  frame' = [frame EXCEPT ![t] = [frame[t] EXCEPT !.call = c]]
  BY <1>3
<1>4. \/ UNCHANGED <<pc, frame>>
      \/ \E l \in {"lookup", "entry"} : \E f : Moves(t, l, f)
  BY <1>3 DEF Begin, Moves
<1> QED
  BY <1>1, <1>2, <1>4

\* Every step of every operation leaves its thread with the locks of its next
\* label.
LEMMA StepLocks == ASSUME IInv, NEW t \in Threads, Step(t) \/ Begin(t) PROVE Locks'
<1>1. CASE Open(t)
  <2>1. CASE OpenRelock(t)
    BY <2>1, CrashLocks DEF OpenRelock
  <2> QED
    BY <1>1, <2>1, OpenLookupLocks, OpenLockLocks, OpenPublishLocks, OpenAddFileLocks DEF Open
<1>2. CASE InodeCreate(t)
  BY <1>2, InodeAllocLocks, InodeInitLocks, InodeFinishLocks, AbortLocks DEF InodeCreate
<1>3. CASE SymLink(t)
  BY <1>3, SymLookupLocks, SymTargetLocks, SymWriteLocks, SymAddLocks DEF SymLink
<1> QED
  BY <1>1, <1>2, <1>3, LinkLocks, UnlinkLocks, CloseLocks, WriteLocks, ReadLocksMove, CopyLocks, BeginLocks DEF Step

-----------------------------------------------------------------------------
(* Theorems *)

\* The inductive invariant holds in every reachable state.
THEOREM Inductive == Spec => []IInv
<1>1. Init => IInv
  BY IInvInit
<1>2. IInv /\ [Next]_vars => IInv'
  <2> SUFFICES ASSUME IInv, [Next]_vars PROVE IInv'
    OBVIOUS
  <2>1. CASE UNCHANGED vars
    BY <2>1, SameTyped, SameLocks DEF IInv, Locks, vars, disk
  <2>2. ASSUME NEW t \in Threads, Step(t) \/ Begin(t) PROVE IInv'
    BY <2>2, StepTyped, StepLocks DEF IInv, Locks
  <2> QED
    BY <2>1, <2>2 DEF Next, Over
<1> QED
  BY <1>1, <1>2, PTL DEF Spec

\* Every value that TecnicoFS keeps has its type: sizes stay within a block,
\* offsets within what is followed, and every handle, inumber and block that is
\* stored is one of the tables'.
THEOREM TypeCorrect == Spec => []TypeOK
<1>1. IInv => TypeOK
  BY DEF IInv, Typed
<1> QED
  BY <1>1, Inductive, PTL

\* An operation of operations.c that has returned, on any of its paths and
\* whatever other threads did meanwhile, has released every lock that it took.
THEOREM ReturnsUnlocked == Spec => []LocksReleased
<1>1. IInv => LocksReleased
  <2> SUFFICES ASSUME IInv, NEW t \in Threads, pc[t] = "idle", NEW h \in held PROVE h[1] # t
    BY DEF LocksReleased
  <2>1. Owned(t) = {}
    BY DEF Owned, Owns
  <2> QED
    BY <2>1 DEF IInv, LocksOwned
<1> QED
  BY <1>1, Inductive, PTL

\* pthread_rwlock: a lock is held by one writer or by readers.
THEOREM WritersExclude == Spec => []WritersAlone
<1>1. IInv => WritersAlone
  BY DEF IInv
<1> QED
  BY <1>1, Inductive, PTL

\* What a thread has and waits for: the hierarchy of the kinds of locks.
LEMMA WaitKinds ==
  ASSUME IInv, NEW t \in Threads, NEW g \in Owned(t)
  PROVE  /\ g[3][1] \in {"inode", "link", "fd"}
         /\ \/ Needs(t)[1] = "none"
            \/ pc[t] = "lock" /\ g[3][1] = "inode" /\ Needs(t)[1] = "inode"
            \/ Op(t) = "symlink" /\ pc[t] = "created"
            \/ g[3][1] = "link" /\ Needs(t)[1] = "inode"
            \/ g[3][1] = "fd" /\ Needs(t)[1] = "inode"
<1>1. g[3][1] \in {"inode", "link", "fd"}
  BY DEF Owned, Owns, OwnsTarget, InodeLock, LinkLock, FdLock
<1>2. CASE pc[t] = "lock"
  BY <1>2 DEF Owned, Owns, Needs, InodeLock
<1>3. CASE pc[t] = "init"
  BY <1>3 DEF Owned, Owns, OwnsTarget, Needs, InodeLock, LinkLock
<1>4. CASE pc[t] = "created"
  BY <1>1, <1>4 DEF Owned, Owns, OwnsTarget, Op
<1>5. CASE pc[t] \in {"clear", "target", "type", "entry"}
  BY <1>5 DEF Owned, Owns
<1>6. CASE pc[t] \in {"data", "size"}
  BY <1>6 DEF Owned, Owns, Needs, FdLock, InodeLock
<1>7. CASE pc[t] \notin {"lock", "init", "created", "clear", "target", "type", "entry", "data", "size"}
  BY <1>1, <1>7 DEF Needs
<1> QED
  BY <1>1, <1>2, <1>3, <1>4, <1>5, <1>6, <1>7

\* Two threads never wait for each other's locks except along symbolic links,
\* where tfs_open takes an inode's lock while it holds another's
\* (operations.c:119) and tfs_sym_link the new link's while it holds the
\* target's (operations.c:223).
THEOREM NoDeadlockElsewhere == Spec => []DeadlockOnlyAlongLinks
<1>1. IInv => DeadlockOnlyAlongLinks
  <2> SUFFICES ASSUME IInv, NEW t \in Threads, NEW u \in Threads, WaitsFor(t, u), WaitsFor(u, t)
               PROVE  \/ pc[t] = "lock" /\ pc[u] = "lock"
                      \/ Op(t) = "symlink" /\ pc[t] = "created"
                      \/ Op(u) = "symlink" /\ pc[u] = "created"
    BY DEF DeadlockOnlyAlongLinks
  <2>1. PICK h \in Owned(u) : h[3] = Needs(t)
    BY HeldByOwner DEF WaitsFor
  <2>2. PICK g \in Owned(t) : g[3] = Needs(u)
    BY HeldByOwner DEF WaitsFor
  <2>3. g[3][1] = Needs(u)[1] /\ h[3][1] = Needs(t)[1]
    BY <2>1, <2>2
  <2> QED
    BY <2>3, WaitKinds
<1> QED
  BY <1>1, Inductive, PTL

\* Chains of waiting threads of any length: nobody waits for a thread that waits
\* for a thread that waits, unless one of the two follows a symbolic link or is
\* making one.  A circle of threads, however many, would go on for ever.
AlongLinks(t) == pc[t] = "lock" \/ (Op(t) = "symlink" /\ pc[t] = "created")

ChainsShort ==
    \A t, u, v, w \in Threads :
        WaitsFor(t, u) /\ WaitsFor(u, v) /\ WaitsFor(v, w) => AlongLinks(u) \/ AlongLinks(v)

\* In every behaviour of TecnicoFS, a thread that is waited for by one and
\* waits for a third, which waits as well, is at a symbolic link, or the third
\* is: tfs_read, tfs_write, tfs_close, tfs_link and tfs_unlink form neither
\* circles nor long chains of waiting threads.
THEOREM NoLongWaits == Spec => []ChainsShort
<1>1. IInv => ChainsShort
  <2> SUFFICES ASSUME IInv, NEW t \in Threads, NEW u \in Threads, NEW v \in Threads, NEW w \in Threads,
                      WaitsFor(t, u), WaitsFor(u, v), WaitsFor(v, w)
               PROVE  AlongLinks(u) \/ AlongLinks(v)
    BY DEF ChainsShort
  <2>1. PICK h \in Owned(u) : h[3] = Needs(t)
    BY HeldByOwner DEF WaitsFor
  <2>2. PICK g \in Owned(v) : g[3] = Needs(u)
    BY HeldByOwner DEF WaitsFor
  <2>3. PICK k \in Owned(w) : k[3] = Needs(v)
    BY HeldByOwner DEF WaitsFor
  <2>4. g[3][1] = Needs(u)[1] /\ k[3][1] = Needs(v)[1]
    BY <2>2, <2>3
  <2> QED
    BY <2>4, WaitKinds DEF AlongLinks
<1> QED
  BY <1>1, Inductive, PTL
=============================================================================
