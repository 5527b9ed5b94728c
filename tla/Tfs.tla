-------------------------------- MODULE Tfs --------------------------------
(***************************************************************************)
(* Exercise-1/fs/operations.c: TecnicoFS as client threads use it.  Each   *)
(* thread runs one operation at a time, step by step.  A step acquires at  *)
(* most one contended lock, makes at most one access that another thread   *)
(* can race with, and then releases: in between, any other thread may run. *)
(*                                                                         *)
(* Path names are valid (valid_pathname) and handles in range; the bytes   *)
(* of a file are abstract cells, and the name in a symbolic link's block   *)
(* takes one cell.  insert_delay and the copies to user buffers are left   *)
(* out.                                                                    *)
(***************************************************************************)
EXTENDS TfsState

CONSTANTS Program,    \* Program[t]: what t calls, a sequence of choices
          Main,       \* the thread that runs its program before the others start
          Repeat,     \* TRUE: the last choice of a program is made for ever
          Careful,    \* TRUE: no thread unlinks or truncates a file in use
          Chunk,      \* cells that the copy's buffer of 128 bytes holds
          MaxOffset,  \* file offsets are not followed beyond this one
          Word        \* size_t counts modulo Word

\* What a thread may call, with the operation's arguments; a handle is None
\* where the one that the thread opened last is meant.
Modes == {"CREAT", "TRUNC", "APPEND"}
Calls == [op : {"open"}, name : Names, mode : SUBSET Modes]
         \cup [op : {"symlink", "link"}, target : Names, name : Names]
         \cup [op : {"unlink"}, name : Names]
         \cup [op : {"close"}, fd : Fds \cup {None}]
         \cup [op : {"write"}, fd : Fds \cup {None}, cells : Seq(Data)]
         \cup [op : {"read"}, fd : Fds \cup {None}, len : Nat]
         \cup [op : {"copy"}, name : Names, cells : Seq(Data)]

ASSUME TfsAssumption ==
    /\ Main \in Threads
    /\ Program \in [Threads -> Seq(SUBSET Calls)]
    /\ Repeat \in BOOLEAN /\ Careful \in BOOLEAN
    /\ Chunk \in Nat \ {0}
    /\ MaxOffset \in Nat /\ MaxOffset >= BlockSize
    /\ Word \in Nat /\ Word > MaxOffset + BlockSize

\* None stands for the absence of anything, and is none of these either.
ASSUME NoneAssumption ==
    /\ None \notin {"assert", "exit", "undefined", -1}
    /\ None \notin [kind : {"FILE"}, cells : Seq(Names \cup Data \cup {None})]
    /\ None \notin [kind : {"SYMLINK"}, target : Names \cup Data \cup {None}]
    /\ None \notin [source : Seq(Data), sent : Nat, total : Int, written : Int, returns : {None, 0, -1}]

VARIABLES pc,       \* pc[t]: what t does next
          frame,    \* the arguments and locals of t's operation
          todo,     \* the rest of t's program
          handle,   \* the handle t's last successful tfs_open returned
          buf,      \* what t's last successful tfs_read returned
          copying,  \* t's copy from the host in progress, None without one
          crashed   \* how the process died, None while it lives

client == <<todo, handle, buf, copying>>
vars == <<disk, held, pc, frame, client, crashed>>

NoFrame == [call |-> [op |-> "none"], inum |-> None, other |-> None, tmp |-> 0, got |-> <<>>]

Init == /\ StateInit
        /\ pc = [t \in Threads |-> "idle"]
        /\ frame = [t \in Threads |-> NoFrame]
        /\ todo = Program
        /\ handle = [t \in Threads |-> None]
        /\ buf = [t \in Threads |-> <<>>]
        /\ copying = [t \in Threads |-> None]
        /\ crashed = None

-----------------------------------------------------------------------------
Op(t) == frame[t].call.op
I(t) == frame[t].inum

\* t is at label l of operation op, and the process is alive.
At(t, op, l) == pc[t] = l /\ Op(t) = op /\ crashed = None

Goto(t, l, f) == /\ pc' = [pc EXCEPT ![t] = l]
                 /\ frame' = [frame EXCEPT ![t] = f]
                 /\ UNCHANGED <<client, crashed>>

\* The operation returns, having released these locks of its own.
Leave(t, locks) == /\ pc' = [pc EXCEPT ![t] = "idle"]
                   /\ frame' = [frame EXCEPT ![t] = NoFrame]
                   /\ held' = Unlocked(t, locks)
                   /\ UNCHANGED <<todo, crashed>>

Return(t, locks) == Leave(t, locks) /\ UNCHANGED <<handle, buf, copying>>

\* The operation returns without having changed anything in this step.
Fail(t, locks) == Return(t, locks) /\ UNCHANGED disk

\* ALWAYS_ASSERT, exit, or undefined behaviour ends the whole process.
Crash(how) == crashed' = how /\ UNCHANGED <<disk, held, pc, frame, client>>

Min2(x, y) == IF x <= y THEN x ELSE y
Max2(x, y) == IF x <= y THEN y ELSE x

InUse == {oft[d].inum : d \in Fds \ FreeFds} \cup {I(t) : t \in Threads}

\* What a careful client refrains from: removing the last name of a file that
\* is open or being opened, and truncating one (through a symbolic link, which
\* may lead to any file: truncating while any file is open).
Allowed(c) ==
    LET i == Lookup(c.name)
    IN CASE i = None -> TRUE
         [] c.op = "unlink" -> i \notin InUse \/ inode[i].links > 1
         [] c.op = "copy" \/ (c.op = "open" /\ "TRUNC" \in c.mode) ->
              InUse \subseteq {None} \/ (i \notin InUse /\ inode[i].type = "FILE")
         [] OTHER -> TRUE

OnHandle == {"close", "write", "read"}

\* The handle a call is for: without one of its own, the one t opened last.
CallFd(t, c) == IF c.fd = None THEN handle[t] ELSE c.fd

\* t makes its next call, or skips one for a handle that it failed to get; it
\* forgets a handle when it closes it or opens another.
\* main runs alone, then the other threads start.
Begin(t) ==
    /\ pc[t] = "idle" /\ crashed = None /\ todo[t] # <<>> /\ copying[t] = None
    /\ t # Main => pc[Main] = "idle" /\ todo[Main] = <<>>
    /\ todo' = IF Repeat /\ Len(todo[t]) = 1 THEN todo ELSE [todo EXCEPT ![t] = Tail(@)]
    /\ \E c \in Head(todo[t]) :
         \/ /\ c.op \notin OnHandle
            /\ Careful => Allowed(c)
            /\ pc' = [pc EXCEPT ![t] = "lookup"]
            /\ frame' = [frame EXCEPT ![t].call = c]
            /\ handle' = IF c.op = "open" THEN [handle EXCEPT ![t] = None] ELSE handle
         \/ /\ c.op \in OnHandle /\ CallFd(t, c) # None
            /\ pc' = [pc EXCEPT ![t] = "entry"]
            /\ frame' = [frame EXCEPT ![t].call = [c EXCEPT !.fd = CallFd(t, c)]]
            /\ handle' = IF c.op = "close" THEN [handle EXCEPT ![t] = None] ELSE handle
         \/ /\ c.op \in OnHandle /\ CallFd(t, c) = None
            /\ UNCHANGED <<pc, frame, handle>>
    /\ UNCHANGED <<disk, held, buf, copying, crashed>>

-----------------------------------------------------------------------------
(* tfs_open *)

OpenLookup(t) ==
    /\ At(t, "open", "lookup")
    /\ LET c == frame[t].call
           i == Lookup(c.name)
       IN \/ /\ i # None
             /\ Goto(t, "lock", [frame[t] EXCEPT !.inum = i])
             /\ UNCHANGED <<disk, held>>
          \/ /\ i = None /\ "CREAT" \in c.mode
             /\ Goto(t, "alloc", frame[t])
             /\ UNCHANGED <<disk, held>>
          \/ /\ i = None /\ "CREAT" \notin c.mode
             /\ Fail(t, {})

\* Mutant: append mode starts one cell early.
InitialOffsetShort(c, size) == IF "APPEND" \in c.mode /\ size > 0 THEN size - 1 ELSE 0

\* Mutant: the two modes are swapped.
InitialOffsetSwapped(c, size) == IF "APPEND" \in c.mode THEN 0 ELSE size

InitialOffset(c, size) == IF "APPEND" \in c.mode THEN size ELSE 0

\* The inode is locked and, on the way along symbolic links, the link it was
\* found through is unlocked.  A link is followed while both locks change
\* hands; a file is truncated and the offset chosen.
OpenLock(t) ==
    /\ At(t, "open", "lock")
    /\ CanWrite(InodeLock(I(t)))
    /\ LET c == frame[t].call
           i == I(t)
           locks == Locked(t, "wr", InodeLock(i)) \ {<<t, "wr", InodeLock(frame[t].other)>>}
           target == Lookup(Cell(inode[i].block, 0))
       IN \/ /\ inode[i].type = "SYMLINK" /\ inode[i].block = None
             /\ Crash("assert")
          \/ /\ inode[i].type = "SYMLINK" /\ inode[i].block # None /\ target = None
             /\ Fail(t, {InodeLock(i), InodeLock(frame[t].other)})
          \/ /\ inode[i].type = "SYMLINK" /\ inode[i].block # None /\ target # None
             /\ Goto(t, "lock", [frame[t] EXCEPT !.inum = target, !.other = i])
             /\ held' = locks
             /\ UNCHANGED disk
          \/ /\ inode[i].type = "FILE"
             /\ IF "TRUNC" \in c.mode
                  THEN /\ takenB' = takenB \ BlockOf(i)
                       /\ inode' = [inode EXCEPT ![i].size = 0]
                  ELSE UNCHANGED <<takenB, inode>>
             /\ Goto(t, "addfile", [frame[t] EXCEPT !.other = None,
                   !.tmp = InitialOffset(c, inode'[i].size)])
             /\ held' = locks
             /\ UNCHANGED <<takenI, dir, oft, data>>

\* A link whose name leads back to itself: pthread_rwlock_wrlock returns
\* EDEADLK and wrlock exits.
OpenRelock(t) ==
    /\ At(t, "open", "lock")
    /\ <<t, "wr", InodeLock(I(t))>> \in held
    /\ Crash("exit")

\* A new file's entry; on failure its inode is deleted again.
OpenPublish(t) ==
    /\ At(t, "open", "created")
    /\ CanWrite(InodeLock(I(t)))
    /\ held' = Locked(t, "wr", InodeLock(I(t)))
    /\ IF FreeEntries # {}
         THEN /\ AddDirEntry(frame[t].call.name, I(t))
              /\ Goto(t, "addfile", frame[t])
              /\ UNCHANGED <<inode, takenI, takenB, oft, data>>
         ELSE Goto(t, "abort", frame[t]) /\ UNCHANGED disk

OpenAddFile(t) ==
    /\ At(t, "open", "addfile")
    /\ IF FreeFds # {}
         THEN /\ AddToOpenFileTable(I(t), frame[t].tmp)
              /\ Leave(t, {InodeLock(I(t))})
              /\ handle' = [handle EXCEPT ![t] = First(FreeFds)]
              /\ UNCHANGED <<buf, copying, inode, takenI, takenB, dir, data>>
         ELSE Fail(t, {InodeLock(I(t))})

-----------------------------------------------------------------------------
(* inode_create, called by tfs_open and tfs_sym_link *)

\* Mutant: a failing tfs_sym_link forgets rw_unlock of the target.
TargetForgotten(t) == {}

\* tfs_sym_link keeps the target's link lock; tfs_open holds nothing here.
Target(t) == {LinkLock(frame[t].other)}

InodeAlloc(t) ==
    /\ pc[t] = "alloc" /\ crashed = None
    /\ IF FreeInodes # {}
         THEN /\ takenI' = takenI \cup {First(FreeInodes)}
              /\ Goto(t, "init", [frame[t] EXCEPT !.inum = First(FreeInodes)])
              /\ UNCHANGED <<inode, takenB, dir, oft, data, held>>
         ELSE Fail(t, Target(t))

InodeInit(t) ==
    /\ pc[t] = "init" /\ crashed = None
    /\ CanWrite(InodeLock(I(t)))
    /\ held' = Locked(t, "wr", InodeLock(I(t)))
    /\ IF Op(t) = "open"
         THEN /\ inode' = [inode EXCEPT ![I(t)] =
                             [@ EXCEPT !.type = "FILE", !.size = 0, !.block = None]]
              /\ Goto(t, "finish", frame[t])
              /\ UNCHANGED takenB
         ELSE IF FreeBlocks # {}
         THEN /\ inode' = [inode EXCEPT ![I(t)] =
                             [@ EXCEPT !.type = "SYMLINK", !.size = 1, !.block = First(FreeBlocks)]]
              /\ takenB' = takenB \cup {First(FreeBlocks)}
              /\ Goto(t, "finish", frame[t])
         ELSE /\ inode' = [inode EXCEPT ![I(t)] =
                             [@ EXCEPT !.type = "SYMLINK", !.size = 0, !.block = None]]
              /\ Goto(t, "abort", frame[t])
              /\ UNCHANGED takenB
    /\ UNCHANGED <<takenI, dir, oft, data>>

InodeFinish(t) ==
    /\ pc[t] = "finish" /\ crashed = None
    /\ inode' = [inode EXCEPT ![I(t)] = [@ EXCEPT !.state = "TAKEN", !.links = 1]]
    /\ held' = Unlocked(t, {InodeLock(I(t))})
    /\ Goto(t, "created", frame[t])
    /\ UNCHANGED <<takenI, takenB, dir, oft, data>>

\* inode_delete on the failure paths of inode_create and tfs_open.
Abort(t) ==
    /\ pc[t] = "abort" /\ crashed = None
    /\ IF I(t) \in takenI
         THEN /\ InodeDelete(I(t))
              /\ Return(t, {InodeLock(I(t))} \cup Target(t))
              /\ UNCHANGED <<dir, oft, data>>
         ELSE Crash("assert")

-----------------------------------------------------------------------------
(* tfs_sym_link *)

SymLookup(t) ==
    /\ At(t, "symlink", "lookup")
    /\ LET i == Lookup(frame[t].call.target)
       IN IF i = None THEN Fail(t, {})
          ELSE Goto(t, "target", [frame[t] EXCEPT !.other = i]) /\ UNCHANGED <<disk, held>>

\* Mutant: the link's own name is not looked up.
SymTargetUnchecked(t) ==
    /\ At(t, "symlink", "target")
    /\ CanRead(LinkLock(frame[t].other))
    /\ held' = Locked(t, "rd", LinkLock(frame[t].other))
    /\ Goto(t, "alloc", frame[t])
    /\ UNCHANGED disk

SymTarget(t) ==
    /\ At(t, "symlink", "target")
    /\ CanRead(LinkLock(frame[t].other))
    /\ IF Lookup(frame[t].call.name) # None THEN Fail(t, Target(t))
       ELSE /\ held' = Locked(t, "rd", LinkLock(frame[t].other))
            /\ Goto(t, "alloc", frame[t])
            /\ UNCHANGED disk

\* strcpy of the target's name into the new inode's block, and i_size.
SymWrite(t) ==
    /\ At(t, "symlink", "created")
    /\ CanWrite(LinkLock(I(t)))
    /\ IF inode[I(t)].block = None THEN Crash("assert")
       ELSE /\ held' = Locked(t, "wr", LinkLock(I(t)))
            /\ data' = [data EXCEPT ![Address(inode[I(t)].block, 0)] = frame[t].call.target]
            /\ inode' = [inode EXCEPT ![I(t)].size = 1]
            /\ Goto(t, "add", frame[t])
            /\ UNCHANGED <<takenI, takenB, dir, oft>>

\* On failure the new inode and its block stay as they are.
SymAdd(t) ==
    /\ At(t, "symlink", "add")
    /\ LET locks == Target(t) \cup {LinkLock(I(t))}
       IN IF FreeEntries # {}
            THEN /\ AddDirEntry(frame[t].call.name, I(t))
                 /\ Return(t, locks)
                 /\ UNCHANGED <<inode, takenI, takenB, oft, data>>
            ELSE Fail(t, locks)

-----------------------------------------------------------------------------
(* tfs_link *)

\* Without a target the code locks link_rw_lock[-1], the memory in front of
\* the array: the call fails as intended, or the process dies.
LinkLookup(t) ==
    /\ At(t, "link", "lookup")
    /\ LET i == Lookup(frame[t].call.target)
       IN \/ i = None /\ (Fail(t, {}) \/ Crash("undefined"))
          \/ /\ i # None
             /\ Goto(t, "type", [frame[t] EXCEPT !.inum = i])
             /\ UNCHANGED <<disk, held>>

LinkType(t) ==
    /\ At(t, "link", "type")
    /\ CanWrite(LinkLock(I(t)))
    /\ IF inode[I(t)].type # "FILE" THEN Fail(t, {LinkLock(I(t))})
       ELSE /\ held' = Locked(t, "wr", LinkLock(I(t)))
            /\ Goto(t, "name", frame[t])
            /\ UNCHANGED disk

\* Mutant: the new name is not looked up.
LinkNameUnchecked(t) == /\ At(t, "link", "name")
                        /\ Goto(t, "add", frame[t])
                        /\ UNCHANGED <<disk, held>>

LinkName(t) ==
    /\ At(t, "link", "name")
    /\ IF Lookup(frame[t].call.name) # None THEN Fail(t, {LinkLock(I(t))})
       ELSE Goto(t, "add", frame[t]) /\ UNCHANGED <<disk, held>>

LinkAdd(t) ==
    /\ At(t, "link", "add")
    /\ IF FreeEntries = {} THEN Fail(t, {LinkLock(I(t))})
       ELSE /\ AddDirEntry(frame[t].call.name, I(t))
            /\ Goto(t, "read", frame[t])
            /\ UNCHANGED <<inode, takenI, takenB, oft, data, held>>

\* hard_links++ is a read and a write, under the link lock only.
LinkRead(t) ==
    /\ At(t, "link", "read")
    /\ Goto(t, "write", [frame[t] EXCEPT !.tmp = inode[I(t)].links])
    /\ UNCHANGED <<disk, held>>

LinkWrite(t) ==
    /\ At(t, "link", "write")
    /\ inode' = [inode EXCEPT ![I(t)].links = frame[t].tmp + 1]
    /\ Return(t, {LinkLock(I(t))})
    /\ UNCHANGED <<takenI, takenB, dir, oft, data>>

-----------------------------------------------------------------------------
(* tfs_unlink *)

UnlinkLookup(t) ==
    /\ At(t, "unlink", "lookup")
    /\ LET i == Lookup(frame[t].call.name)
       IN IF i = None THEN Fail(t, {})
          ELSE Goto(t, "clear", [frame[t] EXCEPT !.inum = i]) /\ UNCHANGED <<disk, held>>

UnlinkClear(t) ==
    /\ At(t, "unlink", "clear")
    /\ CanWrite(InodeLock(I(t)))
    /\ IF EntriesFor(frame[t].call.name) = {} THEN Fail(t, {InodeLock(I(t))})
       ELSE /\ ClearDirEntry(frame[t].call.name)
            /\ held' = Locked(t, "wr", InodeLock(I(t)))
            /\ Goto(t, "read", frame[t])
            /\ UNCHANGED <<inode, takenI, takenB, oft, data>>

\* hard_links is read, and decremented, under the inode's lock only.
UnlinkRead(t) ==
    /\ At(t, "unlink", "read")
    /\ Goto(t, "drop", [frame[t] EXCEPT !.tmp = inode[I(t)].links])
    /\ UNCHANGED <<disk, held>>

\* Mutant: a node with another name left keeps its hard_links.
DropLinkForgotten(i, n) == UNCHANGED inode

DropLink(i, n) == inode' = [inode EXCEPT ![i].links = IF n > 1 THEN n - 1 ELSE @]

UnlinkDrop(t) ==
    /\ At(t, "unlink", "drop")
    /\ \/ /\ frame[t].tmp = 1 /\ I(t) \in takenI
          /\ InodeDelete(I(t))
          /\ Return(t, {InodeLock(I(t))})
          /\ UNCHANGED <<dir, oft, data>>
       \/ /\ frame[t].tmp = 1 /\ I(t) \notin takenI
          /\ Crash("assert")
       \/ /\ frame[t].tmp # 1
          /\ DropLink(I(t), frame[t].tmp)
          /\ Return(t, {InodeLock(I(t))})
          /\ UNCHANGED <<takenI, takenB, dir, oft, data>>

-----------------------------------------------------------------------------
(* tfs_close, tfs_write, tfs_read *)

Fd(t) == frame[t].call.fd
File(t) == oft[Fd(t)]

Close(t) ==
    /\ At(t, "close", "entry")
    /\ CanWrite(FdLock(Fd(t)))
    /\ IF File(t) = None THEN Fail(t, {})
       ELSE /\ oft' = [oft EXCEPT ![Fd(t)] = None]
            /\ Return(t, {})
            /\ UNCHANGED <<inode, takenI, takenB, dir, data>>

\* tfs_write returns r; a copy compares it with what it wanted to write.
WriteReturn(t, locks, r) ==
    /\ Leave(t, locks)
    /\ copying' = IF copying[t] = None THEN copying ELSE [copying EXCEPT ![t].written = r]
    /\ UNCHANGED <<handle, buf>>

WriteEntry(t) ==
    /\ At(t, "write", "entry")
    /\ CanWrite(FdLock(Fd(t)))
    /\ IF File(t) = None THEN WriteReturn(t, {}, -1) /\ UNCHANGED disk
       ELSE /\ held' = Locked(t, "wr", FdLock(Fd(t)))
            /\ Goto(t, "data", frame[t])
            /\ UNCHANGED disk

\* Mutant: no cut at the end of the block.
WriteCountUncut(len, off) == len

\* How many cells are written; an offset beyond the block makes to_write wrap
\* around to a huge count, here a negative one.
WriteCount(len, off) == Min2(len, BlockSize - off)

\* Mutant: the file ends where the last write did.
NewSizeShrinks(i, end) == end

NewSize(i, end) == Max2(inode[i].size, end)

\* Under the inode's lock: an empty file gets a block, the cells are written.
WriteData(t) ==
    /\ At(t, "write", "data")
    /\ CanWrite(InodeLock(File(t).inum))
    /\ LET cells == frame[t].call.cells
           i == File(t).inum
           off == File(t).off
           n == WriteCount(Len(cells), off)
           alloc == inode[i].size = 0
           block == IF alloc THEN First(FreeBlocks) ELSE inode[i].block
       IN \/ /\ n = 0 \/ (n > 0 /\ alloc /\ FreeBlocks = {})
             /\ WriteReturn(t, {FdLock(Fd(t))}, IF n = 0 THEN 0 ELSE -1)
             /\ UNCHANGED disk
          \/ /\ n > 0 /\ (alloc => FreeBlocks # {})
             /\ takenB' = IF alloc THEN takenB \cup {block} ELSE takenB
             /\ inode' = [inode EXCEPT ![i] =
                            [@ EXCEPT !.block = block, !.size = NewSize(i, off + n)]]
             /\ data' = [a \in DOMAIN data |->
                           LET k == a - Address(block, off)
                           IN IF k \in 0 .. n - 1 THEN cells[k + 1] ELSE data[a]]
             /\ oft' = [oft EXCEPT ![Fd(t)].off = off + n]
             /\ WriteReturn(t, {FdLock(Fd(t))}, n)
             /\ UNCHANGED <<takenI, dir>>
          \/ n < 0 /\ Crash("undefined")

\* The open file entry is only read-locked: threads that share the handle
\* read, and move its offset, at the same time.
ReadEntry(t) ==
    /\ At(t, "read", "entry")
    /\ CanRead(FdLock(Fd(t)))
    /\ IF File(t) = None THEN Fail(t, {})
       ELSE /\ held' = Locked(t, "rd", FdLock(Fd(t)))
            /\ Goto(t, "size", frame[t])
            /\ UNCHANGED disk

\* Mutant: the inode stays locked.
ReadLocksInodeKept(t) == {FdLock(Fd(t))}

ReadLocks(t) == {FdLock(Fd(t)), InodeLock(File(t).inum)}

\* Mutant: no cut at the end of the file.
ToReadUncut(t) == frame[t].call.len

\* to_read = i_size - of_offset, in size_t, and at most len.
ToRead(t) == Min2((inode[File(t).inum].size - File(t).off) % Word, frame[t].call.len)

ReadSize(t) ==
    /\ At(t, "read", "size")
    /\ CanRead(InodeLock(File(t).inum))
    /\ \/ /\ ToRead(t) = 0
          /\ Leave(t, ReadLocks(t))
          /\ buf' = [buf EXCEPT ![t] = <<>>]
          /\ UNCHANGED <<handle, copying, disk>>
       \/ ToRead(t) > 0 /\ inode[File(t).inum].block = None /\ Crash("assert")
       \/ /\ ToRead(t) > 0 /\ inode[File(t).inum].block # None
          /\ held' = Locked(t, "rd", InodeLock(File(t).inum))
          /\ Goto(t, "copy", [frame[t] EXCEPT !.tmp = ToRead(t)])
          /\ UNCHANGED disk

\* memcpy from the offset the entry has now.
ReadCopy(t) ==
    /\ At(t, "read", "copy")
    /\ Goto(t, "offset", [frame[t] EXCEPT !.other = File(t).off,
          !.got = [k \in 1 .. frame[t].tmp |->
                     Cell(inode[File(t).inum].block, File(t).off + k - 1)]])
    /\ UNCHANGED <<disk, held>>

\* of_offset += to_read is a read and a write: the value read may be old.
ReadOffset(t) ==
    /\ At(t, "read", "offset")
    /\ \E off \in {frame[t].other, File(t).off} :
         oft' = [oft EXCEPT ![Fd(t)].off = Min2(off + frame[t].tmp, MaxOffset)]
    /\ Leave(t, ReadLocks(t))
    /\ buf' = [buf EXCEPT ![t] = frame[t].got]
    /\ UNCHANGED <<handle, copying, inode, takenI, takenB, dir, data>>

-----------------------------------------------------------------------------
(* tfs_copy_from_external_fs: it opens a file, writes the source to it chunk
   by chunk, and closes it, as any caller does.  Other threads run in between,
   and may use its handle. *)

\* t's copy goes on with a call of its own.
Call(t, c, label) == /\ pc' = [pc EXCEPT ![t] = label]
                     /\ frame' = [frame EXCEPT ![t] = [NoFrame EXCEPT !.call = c]]
                     /\ UNCHANGED <<disk, held, todo, buf, crashed>>

\* Mutant: what the destination held before is not truncated.
CopyModeKeeps == {"CREAT"}

CopyMode == {"CREAT", "TRUNC"}

\* The source file, which may not open, and then the destination.
CopyStart(t) ==
    /\ At(t, "copy", "lookup")
    /\ LET c == frame[t].call
       IN \/ Fail(t, {})
          \/ /\ Call(t, [op |-> "open", name |-> c.name, mode |-> CopyMode], "lookup")
             /\ handle' = [handle EXCEPT ![t] = None]
             /\ copying' = [copying EXCEPT ![t] =
                  [source |-> c.cells, sent |-> 0, total |-> 0, written |-> 0, returns |-> None]]

\* t's copy is between two calls.
Between(t) == pc[t] = "idle" /\ crashed = None /\ copying[t] # None

\* tfs_open failed.
CopyRefused(t) ==
    /\ Between(t) /\ handle[t] = None /\ copying[t].returns = None
    /\ copying' = [copying EXCEPT ![t] = None]
    /\ UNCHANGED <<disk, held, pc, frame, todo, handle, buf, crashed>>

Total(t) == copying[t].total + copying[t].written

\* total_bytes >= get_block_size() compares as size_t: a negative total is huge.
Full(t) == Total(t) < 0 \/ Total(t) >= BlockSize

\* bytes_written != bytes_read
Short(t) == Total(t) # copying[t].sent

AtEnd(t) == copying[t].sent = Len(copying[t].source)

\* The loop ends: the destination is closed, and the copy will return.
CopyClose(t) ==
    /\ Between(t) /\ handle[t] # None
    /\ Full(t) \/ Short(t) \/ AtEnd(t)
    /\ Call(t, [op |-> "close", fd |-> handle[t]], "entry")
    /\ handle' = [handle EXCEPT ![t] = None]
    /\ copying' = [copying EXCEPT ![t].returns = IF Short(t) /\ ~Full(t) THEN -1 ELSE 0]

\* The buffer is filled from the source and written.
CopyChunk(t) ==
    /\ Between(t) /\ handle[t] # None
    /\ ~Full(t) /\ ~Short(t) /\ ~AtEnd(t)
    /\ LET c == copying[t]
           sent == Min2(c.sent + Chunk, Len(c.source))
       IN /\ Call(t, [op |-> "write", fd |-> handle[t],
                      cells |-> SubSeq(c.source, c.sent + 1, sent)], "entry")
          /\ copying' = [copying EXCEPT ![t] =
                           [c EXCEPT !.total = Total(t), !.written = 0, !.sent = sent]]
    /\ UNCHANGED handle

CopyReturn(t) ==
    /\ Between(t) /\ copying[t].returns # None
    /\ copying' = [copying EXCEPT ![t] = None]
    /\ UNCHANGED <<disk, held, pc, frame, todo, handle, buf, crashed>>

-----------------------------------------------------------------------------
Open(t) == OpenLookup(t) \/ OpenLock(t) \/ OpenRelock(t) \/ OpenPublish(t) \/ OpenAddFile(t)
InodeCreate(t) == InodeAlloc(t) \/ InodeInit(t) \/ InodeFinish(t) \/ Abort(t)
SymLink(t) == SymLookup(t) \/ SymTarget(t) \/ SymWrite(t) \/ SymAdd(t)
Link(t) == LinkLookup(t) \/ LinkType(t) \/ LinkName(t) \/ LinkAdd(t) \/ LinkRead(t) \/ LinkWrite(t)
Unlink(t) == UnlinkLookup(t) \/ UnlinkClear(t) \/ UnlinkRead(t) \/ UnlinkDrop(t)
Write(t) == WriteEntry(t) \/ WriteData(t)
Copy(t) == CopyStart(t) \/ CopyRefused(t) \/ CopyChunk(t) \/ CopyClose(t) \/ CopyReturn(t)
Read(t) == ReadEntry(t) \/ ReadSize(t) \/ ReadCopy(t) \/ ReadOffset(t)

Step(t) == \/ Open(t) \/ InodeCreate(t) \/ SymLink(t) \/ Link(t) \/ Unlink(t)
           \/ Close(t) \/ Write(t) \/ Read(t) \/ Copy(t)

\* Every call made and returned, or the process is dead.
Over == /\ crashed # None \/ \A t \in Threads : pc[t] = "idle" /\ todo[t] = <<>> /\ copying[t] = None
        /\ UNCHANGED vars

Next == \/ \E t \in Threads : Step(t) \/ Begin(t)
        \/ Over

Spec == Init /\ [][Next]_vars

\* The scheduler runs every thread that can run; callers may stop calling.
LiveSpec == Spec /\ \A t \in Threads : WF_vars(Step(t))

-----------------------------------------------------------------------------
(* Properties *)

Idle == \A t \in Threads : pc[t] = "idle"
EntriesTo(i) == {e \in Entries : dir[e].inum = i}
CellValues == Names \cup Data \cup {None}

TypeOK ==
    /\ inode \in [Inodes -> [state : {"FREE", "TAKEN"}, type : {"FILE", "SYMLINK"},
                             size : 0 .. BlockSize, block : Blocks \cup {None}, links : Nat]]
    /\ takenI \subseteq Inodes /\ takenB \subseteq Blocks
    /\ dir \in [Entries -> [name : Names, inum : Inodes] \cup {FreeEntry}]
    /\ oft \in [Fds -> [inum : Inodes, off : 0 .. MaxOffset] \cup {None}]
    /\ data \in [0 .. NBlocks * BlockSize - 1 -> CellValues]
    /\ \A h \in held : h[1] \in Threads /\ h[2] \in {"rd", "wr"}
    /\ handle \in [Threads -> Fds \cup {None}]
    /\ buf \in [Threads -> Seq(CellValues)]
    /\ crashed \in {None, "assert", "exit", "undefined"}

\* Every operation that starts returns: no thread is kept from a lock for good
\* by the other threads' operations.
CallsReturn == \A t \in Threads : pc[t] # "idle" ~> (pc[t] = "idle" \/ crashed # None)

\* The assertions of state.c and operations.c hold (ALWAYS_ASSERT).
AssertionsHold == crashed # "assert"

\* Every path out of an operation, the failures included, releases what the
\* operation locked (the rw_unlock calls before each return of operations.c).
LocksReleased == \A t \in Threads : pc[t] = "idle" => \A h \in held : h[1] # t

\* free_blocks and the inode table agree: between operations the blocks in use
\* are those of the live inodes, each the block of one of them.  A block freed
\* twice or never (tfs_open's truncation, inode_delete, tfs_write) breaks it.
BlocksAccounted ==
    Idle => /\ takenB = UNION {BlockOf(i) : i \in takenI}
            /\ \A i, j \in takenI : i # j => BlockOf(i) \cap BlockOf(j) = {}

\* u holds the lock that t's next step needs.
Needs(t) ==
    CASE pc[t] \in {"lock", "init", "clear"} -> InodeLock(I(t))
      [] pc[t] = "created" /\ Op(t) = "open" -> InodeLock(I(t))
      [] pc[t] = "created" /\ Op(t) = "symlink" -> LinkLock(I(t))
      [] pc[t] = "target" -> LinkLock(frame[t].other)
      [] pc[t] = "type" -> LinkLock(I(t))
      [] pc[t] = "entry" -> FdLock(Fd(t))
      [] pc[t] \in {"data", "size"} -> InodeLock(File(t).inum)
      [] OTHER -> <<"none", 0>>

WaitsFor(t, u) == \E h \in held : h[1] = u /\ h[3] = Needs(t)

\* The lock hierarchy open file entry, inode, table has no cycle: threads block
\* each other for good only where the code takes a second lock of the same
\* kind, along symbolic links (operations.c:119) or on the inode that
\* tfs_sym_link created (operations.c:223).
DeadlockOnlyAlongLinks ==
    \A t, u \in Threads : WaitsFor(t, u) /\ WaitsFor(u, t) =>
        \/ pc[t] = "lock" /\ pc[u] = "lock"
        \/ Op(t) = "symlink" /\ pc[t] = "created"
        \/ Op(u) = "symlink" /\ pc[u] = "created"

\* The directory and the inode table agree: between operations every entry
\* refers to a live inode and a file's hard_links counts its entries.
LinksCounted ==
    Idle => /\ \A e \in Entries : dir[e] # FreeEntry => dir[e].inum \in takenI
            /\ \A i \in takenI : inode[i].type = "FILE" =>
                   inode[i].links = Cardinality(EntriesTo(i))

\* tfs_open, tfs_sym_link and tfs_link look a name up before they add it
\* (operations.c:97, 211, 294): no name is ever in the directory twice.
NamesUnique == \A n \in Names : Cardinality(EntriesFor(n)) <= 1

\* TecnicoFS behaves as the flat file system of operations.h.
Contents(i) == IF inode[i].type = "SYMLINK"
                 THEN [kind |-> "SYMLINK", target |-> Cell(inode[i].block, 0)]
                 ELSE [kind |-> "FILE",
                       cells |-> [k \in 1 .. inode[i].size |-> Cell(inode[i].block, k - 1)]]

Flat == INSTANCE FlatFs WITH
          Nodes <- Inodes,
          tree <- [n \in Names |-> IF EntriesFor(n) = {} THEN None
                                   ELSE dir[First(EntriesFor(n))].inum],
          body <- [i \in Inodes |-> IF EntriesTo(i) = {} THEN None ELSE Contents(i)],
          open <- oft

ImplementsFlatFs == Flat!FlatSpec

\* What changes is what a call under way asks for, with its own arguments: its
\* name, its handle, its cells, no truncation or appending without the mode.
ChangesAsAsked == [][\E t \in Threads : Flat!Effect(t, frame[t].call)]_(Flat!flatVars)

\* A copy about to return 0 has made the destination the source, cut at a
\* block (operations.c:504-512); or it has copied nothing, because no block was
\* free: tfs_write's -1 counts as a full block.  With one thread: others may
\* write to the file meanwhile.
CopyTellsTruth ==
    \A t \in Threads :
        copying[t] # None /\ copying[t].returns = 0 /\ pc[t] = "entry" =>
            LET i == File(t).inum
                source == copying[t].source
            IN \/ Contents(i).cells = SubSeq(source, 1, Min2(Len(source), BlockSize))
               \/ source # <<>> /\ Contents(i).cells = <<>> /\ FreeBlocks = {}
=============================================================================
