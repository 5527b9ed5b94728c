--------------------------- MODULE TfsFlatProofs ---------------------------
(***************************************************************************)
(* TecnicoFS (Tfs) under one careful thread implements the flat file       *)
(* system of operations.h (FlatFs): each step of a call changes the name   *)
(* space, the contents of a file or an open file once, as the call asks,   *)
(* or changes nothing.  A copy from the host that returns 0 has copied     *)
(* what fits into a block.                                                 *)
(***************************************************************************)
EXTENDS TfsFilesProofs

-----------------------------------------------------------------------------
(* The refinement mapping *)

\* What the flat file system sees of the directory, and of inodes and blocks.
Tree == [n \in Names |-> IF EntriesFor(n) = {} THEN None
                         ELSE dir[First(EntriesFor(n))].inum]
Body == [i \in Inodes |-> IF EntriesTo(i) = {} THEN None ELSE Contents(i)]

Cells(i) == [k \in 1 .. inode[i].size |-> Cell(inode[i].block, k - 1)]

\* What an operation has found out or written, and is to make visible.
Underway ==
    /\ Op(Main) = "link" /\ pc[Main] \in {"type", "name", "add"} =>
           Tree[frame[Main].call.target] = I(Main)
    /\ Op(Main) = "symlink" /\ pc[Main] = "add" =>
           Cell(inode[I(Main)].block, 0) = frame[Main].call.target
    /\ pc[Main] = "offset" =>
           frame[Main].got = [k \in 1 .. frame[Main].tmp |->
                                Cell(inode[File(Main).inum].block, File(Main).off + k - 1)]

\* The name leads to node i, by itself or by way of a link.
Leads(n, i) == Tree[n] # None /\ (Tree[n] = i \/ inode[Tree[n]].type = "SYMLINK")

\* What the operation under way does is what its call asks for.
Asking ==
    /\ Op(Main) = "open" /\ pc[Main] \in {"alloc", "init", "finish", "created"} => "CREAT" \in frame[Main].call.mode
    /\ pc[Main] \in {"lock", "addfile"} => Leads(frame[Main].call.name, I(Main))
    /\ pc[Main] = "addfile" /\ "APPEND" \notin frame[Main].call.mode => frame[Main].tmp = 0
    /\ pc[Main] \in {"copy", "offset"} => frame[Main].tmp <= frame[Main].call.len

-----------------------------------------------------------------------------
(* The steps of the flat file system, in terms of the mapping *)

\* A step of it, and one that the call under way asks for.
FlatStep == Flat!FlatNext /\ Flat!Effect(Main, frame[Main].call)

\* Nothing that the flat file system sees has changed.
FlatSame == UNCHANGED <<Tree, Body, oft, buf>>

\* It stutters.
LEMMA FlatStays == ASSUME FlatSame PROVE UNCHANGED Flat!flatVars
  BY DEF FlatSame, Flat!flatVars, Tree, Body

\* A new node, by a new name.
LEMMA FlatCreates ==
  ASSUME NEW n \in Names, NEW i \in Inodes, NEW node,
         node = Flat!FileNode(<<>>) \/ \E m \in Names : node = Flat!LinkNode(m),
         Tree[n] = None, Body[i] = None,
         Tree' = [Tree EXCEPT ![n] = i], Body' = [Body EXCEPT ![i] = node], UNCHANGED <<oft, buf>>
  PROVE  Flat!FlatNext /\ Flat!Create(n, i, node)
<1>1. Flat!Create(n, i, node)
  BY DEF Flat!Create, Tree, Body
<1> QED
  BY <1>1 DEF Flat!FlatNext

\* A new name for a file.
LEMMA FlatAddsName ==
  ASSUME NEW n \in Names, NEW m \in Names, Tree[n] = None, Tree[m] # None,
         Body[Tree[m]] # None, Body[Tree[m]].kind = "FILE",
         Tree' = [Tree EXCEPT ![n] = Tree[m]], UNCHANGED <<Body, oft, buf>>
  PROVE  Flat!FlatNext /\ Flat!AddName(n, m)
<1>1. Flat!AddName(n, m)
  BY DEF Flat!AddName, Flat!IsFile, Tree, Body
<1> QED
  BY <1>1 DEF Flat!FlatNext

\* A name goes, and its node if it was the last one.
LEMMA FlatRemoves ==
  ASSUME NEW n \in Names, Tree[n] # None, Tree' = [Tree EXCEPT ![n] = None],
         Body' = IF \E m \in Names \ {n} : Tree[m] = Tree[n] THEN Body
                 ELSE [Body EXCEPT ![Tree[n]] = None],
         UNCHANGED <<oft, buf>>
  PROVE  Flat!FlatNext /\ Flat!Remove(n)
<1>1. Flat!Remove(n)
  BY DEF Flat!Remove, Tree, Body
<1> QED
  BY <1>1 DEF Flat!FlatNext

\* A file is cut to nothing.
LEMMA FlatTruncates ==
  ASSUME NEW i \in Inodes, Body[i] # None, Body[i].kind = "FILE",
         Body' = [Body EXCEPT ![i] = Flat!FileNode(<<>>)], UNCHANGED <<Tree, oft, buf>>
  PROVE  Flat!FlatNext /\ Flat!Truncate(i)
<1>1. Flat!Truncate(i)
  BY DEF Flat!Truncate, Flat!IsFile, Tree, Body
<1> QED
  BY <1>1 DEF Flat!FlatNext

\* A file is opened, at its beginning or its end.
LEMMA FlatOpens ==
  ASSUME NEW d \in Fds, NEW i \in Inodes, NEW off \in 0 .. BlockSize,
         oft[d] = None, Body[i] # None, Body[i].kind = "FILE", off \in {0, Len(Body[i].cells)},
         oft' = [oft EXCEPT ![d] = [inum |-> i, off |-> off]], UNCHANGED <<Tree, Body, buf>>
  PROVE  Flat!FlatNext /\ Flat!OpenFile(d, i, off)
<1>1. Flat!OpenFile(d, i, off)
  BY DEF Flat!OpenFile, Flat!IsFile, Tree, Body
<1> QED
  BY <1>1 DEF Flat!FlatNext

\* A file is closed.
LEMMA FlatCloses ==
  ASSUME NEW d \in Fds, oft[d] # None, oft' = [oft EXCEPT ![d] = None], UNCHANGED <<Tree, Body, buf>>
  PROVE  Flat!FlatNext /\ Flat!CloseFile(d)
<1>1. Flat!CloseFile(d)
  BY DEF Flat!CloseFile, Tree, Body
<1> QED
  BY <1>1 DEF Flat!FlatNext

\* Cells are written over what was there.
LEMMA FlatWrites ==
  ASSUME NEW d \in Fds, NEW n \in 1 .. BlockSize, NEW cells \in [1 .. n -> Data],
         NEW i, NEW off, NEW end, NEW old,
         oft[d] # None, oft[d].inum = i, oft[d].off = off, end = off + Len(cells),
         Body[i] # None, Body[i].kind = "FILE", Body[i].cells = old, end <= BlockSize, off <= Len(old),
         Body' = [Body EXCEPT ![i] = Flat!FileNode(
                    SubSeq(old, 1, off) \o cells \o SubSeq(old, end + 1, Len(old)))],
         oft' = [oft EXCEPT ![d].off = end], UNCHANGED <<Tree, buf>>
  PROVE  Flat!FlatNext /\ Flat!WriteFile(d, cells)
<1>1. Flat!WriteFile(d, cells)
  BY DEF Flat!WriteFile, Flat!IsFile, Tree, Body
<1> QED
  BY <1>1 DEF Flat!FlatNext

\* Cells are read, and the offset moves on.
LEMMA FlatReads ==
  ASSUME NEW d \in Fds, NEW n \in 0 .. BlockSize, NEW i, NEW off,
         oft[d] # None, oft[d].inum = i, oft[d].off = off,
         Body[i] # None, Body[i].kind = "FILE", off + n <= Len(Body[i].cells),
         buf' = [buf EXCEPT ![Main] = SubSeq(Body[i].cells, off + 1, off + n)],
         oft' = [oft EXCEPT ![d].off = off + n], UNCHANGED <<Tree, Body>>
  PROVE  Flat!FlatNext /\ Flat!ReadFile(d, Main, n)
<1>1. Flat!ReadFile(d, Main, n)
  BY DEF Flat!ReadFile, Flat!IsFile, Tree, Body
<1> QED
  BY <1>1, TfsAssumption DEF Flat!FlatNext

-----------------------------------------------------------------------------
(* Lemmas about the mapping *)

\* A name leads to the inode of its entry, and to None without one.
LEMMA TreeEntry ==
  ASSUME IInv, Directory
  PROVE  /\ \A n \in Names : Tree[n] = None <=> EntriesFor(n) = {}
         /\ \A e \in Entries : dir[e] # FreeEntry => dir[e].name \in Names /\ Tree[dir[e].name] = dir[e].inum
         /\ \A n \in Names : Tree[n] # None =>
              \E e \in Entries : dir[e] # FreeEntry /\ dir[e].name = n /\ dir[e].inum = Tree[n]
         /\ \A n \in Names : Tree[n] # None => Tree[n] \in Inodes /\ Linked(Tree[n])
<1>0. TypeOK
  BY IInvDisk
<1>1. ASSUME NEW e \in Entries, dir[e] # FreeEntry
      PROVE  dir[e].name \in Names /\ Tree[dir[e].name] = dir[e].inum
  <2>1. dir[e].name \in Names /\ dir[e].inum # None
    BY <1>0, <1>1, EntryKinds, Sizes DEF Inodes
  <2>2. e \in EntriesFor(dir[e].name)
    BY <2>1 DEF EntriesFor
  <2>3. First(EntriesFor(dir[e].name)) \in EntriesFor(dir[e].name)
    BY <2>2, FirstEntry
  <2>4. First(EntriesFor(dir[e].name)) = e
    BY <2>3, <1>1 DEF EntriesFor, Directory, NamesApart
  <2> QED
    BY <2>1, <2>2, <2>4 DEF Tree
<1>2. ASSUME NEW n \in Names, EntriesFor(n) # {}
      PROVE  \E e \in Entries : dir[e] # FreeEntry /\ dir[e].name = n /\ dir[e].inum = Tree[n]
  <2>1. First(EntriesFor(n)) \in EntriesFor(n)
    BY <1>2, FirstEntry
  <2>2. First(EntriesFor(n)) \in Entries /\ dir[First(EntriesFor(n))].name = n /\ dir[First(EntriesFor(n))].inum # None
    BY <2>1 DEF EntriesFor
  <2>3. dir[First(EntriesFor(n))] # FreeEntry
    BY <1>0, <2>2, EntryKinds
  <2> QED
    BY <1>2, <2>2, <2>3 DEF Tree
<1>3. ASSUME NEW n \in Names, EntriesFor(n) = {} PROVE Tree[n] = None
  BY <1>3 DEF Tree
<1>4. ASSUME NEW n \in Names, EntriesFor(n) # {} PROVE Tree[n] \in Inodes /\ Linked(Tree[n]) /\ Tree[n] # None
  <2>1. PICK e \in Entries : dir[e] # FreeEntry /\ dir[e].name = n /\ dir[e].inum = Tree[n]
    BY <1>2, <1>4
  <2>2. Tree[n] \in Inodes /\ Tree[n] # None
    BY <1>0, <2>1, EntryKinds, Sizes DEF Inodes
  <2> QED
    BY <2>1, <2>2 DEF Linked, EntriesTo
<1> QED
  BY <1>1, <1>2, <1>3, <1>4

\* The contents of a file are its cells, as many as its size.
LEMMA BodyFields ==
  ASSUME IInv, NEW i \in Inodes
  PROVE  /\ Body[i] = None <=> ~ Linked(i)
         /\ Linked(i) /\ inode[i].type = "FILE" =>
              Body[i] # None /\ Body[i] = Flat!FileNode(Cells(i)) /\ Body[i].kind = "FILE" /\ Body[i].cells = Cells(i)
         /\ Cells(i) \in Seq(CellValues) /\ Len(Cells(i)) = inode[i].size /\ inode[i].size \in 0 .. BlockSize
<1>1. inode[i].size \in 0 .. BlockSize /\ inode[i].type \in {"FILE", "SYMLINK"}
  <2>1. inode[i] \in InodeRecords
    BY IInvDisk DEF DiskOK
  <2> QED
    BY <2>1 DEF InodeRecords
<1>2. Cells(i) \in Seq(CellValues) /\ Len(Cells(i)) = inode[i].size
  <2>1. \A k : Cell(inode[i].block, k - 1) \in CellValues
    BY IInvDisk, CellType
  <2>2. inode[i].size \in Nat
    BY <1>1, Sizes
  <2> DEFINE n == inode[i].size
             g(k) == Cell(inode[i].block, k - 1)
  <2>3. \A k : g(k) \in CellValues
    BY <2>1
  <2> HIDE DEF n, g
  <2>4. [k \in 1 .. n |-> g(k)] \in Seq(CellValues) /\ Len([k \in 1 .. n |-> g(k)]) = n
    BY <2>2, <2>3 DEF n
  <2> QED
    BY <2>4 DEF n, g, Cells
<1>3. Contents(i) # None
  <2>1. CASE inode[i].type = "SYMLINK"
    <3>1. Contents(i) = [kind |-> "SYMLINK", target |-> Cell(inode[i].block, 0)]
      BY <2>1 DEF Contents
    <3>2. Cell(inode[i].block, 0) \in Names \cup Data \cup {None}
      BY IInvDisk, CellType DEF CellValues
    <3> QED
      BY <3>1, <3>2, NoneAssumption
  <2>2. CASE inode[i].type # "SYMLINK"
    <3>1. Contents(i) = [kind |-> "FILE", cells |-> Cells(i)]
      BY <2>2 DEF Contents, Cells
    <3>2. Cells(i) \in Seq(Names \cup Data \cup {None})
      BY <1>2 DEF CellValues
    <3> QED
      BY <3>1, <3>2, NoneAssumption
  <2> QED
    BY <2>1, <2>2
<1>4. Body[i] = IF EntriesTo(i) = {} THEN None ELSE Contents(i)
  BY DEF Body
<1>5. inode[i].type = "FILE" => Contents(i) = Flat!FileNode(Cells(i))
  BY DEF Contents, Cells, Flat!FileNode
<1>6. Flat!FileNode(Cells(i)).kind = "FILE" /\ Flat!FileNode(Cells(i)).cells = Cells(i)
  BY DEF Flat!FileNode
<1> QED
  BY <1>1, <1>2, <1>3, <1>4, <1>5, <1>6 DEF Linked

\* A node's contents stay as long as its type, its size and the cells of its
\* block do.
LEMMA ContentsKept ==
  ASSUME NEW i, NEW b, inode[i].block = b, inode'[i].block = b,
         inode'[i].type = inode[i].type, inode'[i].size = inode[i].size,
         inode[i].type = "SYMLINK" => Cell(b, 0)' = Cell(b, 0),
         inode[i].type # "SYMLINK" => \A k \in 1 .. inode[i].size : Cell(b, k - 1)' = Cell(b, k - 1)
  PROVE  Contents(i)' = Contents(i)
<1>1. CASE inode[i].type = "SYMLINK"
  BY <1>1 DEF Contents
<1>2. CASE inode[i].type # "SYMLINK"
  <2>1. [k \in 1 .. inode[i].size |-> Cell(b, k - 1)'] = [k \in 1 .. inode[i].size |-> Cell(b, k - 1)]
    BY <1>2
  <2> QED
    BY <1>2, <2>1 DEF Contents
<1> QED
  BY <1>1, <1>2

\* The same directory maps to the same tree.
LEMMA TreeKept ==
  ASSUME UNCHANGED dir
  PROVE  Tree' = Tree /\ \A i : Linked(i)' = Linked(i)
  BY DEF Tree, EntriesFor, Linked, EntriesTo

\* The step of an operation on nodes without a name, and on fields that no
\* call shows.
LEMMA MappingKept ==
  ASSUME UNCHANGED <<dir, data>>,
         \A i \in Inodes : Linked(i) => /\ inode'[i].type = inode[i].type
                                        /\ inode'[i].size = inode[i].size
                                        /\ inode'[i].block = inode[i].block
  PROVE  UNCHANGED <<Tree, Body>>
<1>1. ASSUME NEW i \in Inodes, EntriesTo(i) # {} PROVE Contents(i)' = Contents(i)
  <2>1. inode'[i].type = inode[i].type /\ inode'[i].size = inode[i].size /\ inode'[i].block = inode[i].block
    BY <1>1 DEF Linked
  <2>2. \A b, k : Cell(b, k)' = Cell(b, k)
    BY DEF Cell
  <2> QED
    BY <2>1, <2>2 DEF Contents
<1>2. \A i : EntriesTo(i)' = EntriesTo(i)
  BY DEF EntriesTo
<1>3. Body' = Body
  BY <1>1, <1>2 DEF Body
<1> QED
  BY <1>3, TreeKept

\* A name that leads to a node in the tables does so in the flat file system.
LEMMA LeadsThere ==
  ASSUME IInv, Directory, NEW n \in Names, NEW i, Leads(n, i)
  PROVE  Flat!Reaches(n, i)
<1>1. ASSUME inode[Tree[n]].type = "SYMLINK" PROVE Body[Tree[n]].kind # "FILE"
  <2>1. Tree[n] \in Inodes /\ Linked(Tree[n])
    BY TreeEntry DEF Leads
  <2>2. Body[Tree[n]] = Contents(Tree[n])
    BY <2>1 DEF Body, Linked
  <2>3. Contents(Tree[n]).kind = "SYMLINK"
    BY <1>1 DEF Contents
  <2> QED
    BY <2>2, <2>3
<1>2. Tree[n] # None /\ (Tree[n] = i \/ ~ (Body[Tree[n]] # None /\ Body[Tree[n]].kind = "FILE"))
  BY <1>1 DEF Leads
<1> QED
  BY <1>2 DEF Flat!Reaches, Flat!IsFile, Tree, Body

\* tfs_open is called with a name.
LEMMA CalledName == ASSUME IInv, Op(Main) = "open" PROVE frame[Main].call.name \in Names
  BY Now, CallFields, TfsAssumption DEF Op

-----------------------------------------------------------------------------
(* Steps that show nothing *)

\* A step that changes neither a table nor a buffer.
LEMMA QuietFlat == ASSUME UNCHANGED disk, UNCHANGED buf PROVE FlatSame
<1>1. UNCHANGED <<inode, dir, data, oft, buf>>
  BY DEF disk
<1> QED
  BY <1>1, MappingKept DEF FlatSame

\* The process dies, an operation fails or goes on: buffers stay.
LEMMA BufferStays ==
  /\ \A how : Crash(how) => UNCHANGED disk /\ UNCHANGED buf
  /\ \A t, locks : Fail(t, locks) => UNCHANGED disk /\ UNCHANGED buf
  /\ \A t, locks : Return(t, locks) => UNCHANGED buf
  /\ \A t, l, f : Goto(t, l, f) => UNCHANGED buf
  BY DEF Crash, Fail, Return, Goto, client

\* Calls begin, and look names up.
LEMMA SearchesFlat ==
  ASSUME Begin(Main) \/ OpenLookup(Main) \/ OpenRelock(Main) \/ SymLookup(Main) \/ SymTarget(Main)
         \/ LinkLookup(Main) \/ LinkType(Main) \/ LinkName(Main) \/ LinkRead(Main)
         \/ UnlinkLookup(Main) \/ UnlinkRead(Main)
  PROVE  FlatSame
<1>1. UNCHANGED disk /\ UNCHANGED buf
  <2>1. CASE Begin(Main)
    BY <2>1 DEF Begin
  <2>2. CASE OpenLookup(Main) \/ OpenRelock(Main)
    BY <2>2, BufferStays DEF OpenLookup, OpenRelock, disk
  <2>3. CASE SymLookup(Main) \/ SymTarget(Main)
    BY <2>3, BufferStays DEF SymLookup, SymTarget
  <2>4. CASE LinkLookup(Main) \/ LinkType(Main) \/ LinkName(Main) \/ LinkRead(Main)
    BY <2>4, BufferStays DEF LinkLookup, LinkType, LinkName, LinkRead
  <2>5. CASE UnlinkLookup(Main) \/ UnlinkRead(Main)
    BY <2>5, BufferStays DEF UnlinkLookup, UnlinkRead
  <2> QED
    BY <2>1, <2>2, <2>3, <2>4, <2>5
<1> QED
  BY <1>1, QuietFlat

\* A copy from the host makes its calls as any caller does.
LEMMA CopyFlat == ASSUME Copy(Main) PROVE FlatSame
<1>1. UNCHANGED disk /\ UNCHANGED buf
  <2>1. CASE CopyStart(Main)
    BY <2>1, BufferStays DEF CopyStart, Call
  <2>2. CASE CopyRefused(Main) \/ CopyReturn(Main)
    BY <2>2 DEF CopyRefused, CopyReturn
  <2>3. CASE CopyChunk(Main) \/ CopyClose(Main)
    BY <2>3 DEF CopyChunk, CopyClose, Call
  <2> QED
    BY <2>1, <2>2, <2>3 DEF Copy
<1> QED
  BY <1>1, QuietFlat

\* The entry of a handle is locked; a read makes its copy.
LEMMA EntriesFlat ==
  ASSUME WriteEntry(Main) \/ ReadEntry(Main) \/ ReadCopy(Main)
  PROVE  FlatSame
<1>1. UNCHANGED disk /\ UNCHANGED buf
  <2>1. CASE WriteEntry(Main)
    BY <2>1, BufferStays DEF WriteEntry, WriteReturn, Leave
  <2>2. CASE ReadEntry(Main) \/ ReadCopy(Main)
    BY <2>2, BufferStays DEF ReadEntry, ReadCopy
  <2> QED
    BY <2>1, <2>2
<1> QED
  BY <1>1, QuietFlat

\* A node is taken, given a type and links, or deleted while it has no name.
LEMMA InodeCreateFlat == ASSUME IInv, Directory, InodeCreate(Main) PROVE FlatSame
<1>1. CASE InodeAlloc(Main)
  <2>1. UNCHANGED <<inode, dir, data, oft, buf>>
    BY <1>1, BufferStays DEF InodeAlloc, disk
  <2> QED
    BY <2>1, MappingKept DEF FlatSame
<1>2. CASE InodeInit(Main) \/ InodeFinish(Main)
  <2>1. Creating
    BY <1>2 DEF InodeInit, InodeFinish, Creating
  <2> PICK i \in Inodes : i = I(Main)
    BY <1>2, Inside, TfsAssumption DEF InodeInit, InodeFinish, WithInode, LocalsFit, I
  <2>2. ~ Linked(i)
    BY <2>1 DEF Directory, NewInode, Linked
  <2>3. \E r : inode' = [inode EXCEPT ![i] = r]
    BY <1>2 DEF InodeInit, InodeFinish
  <2>4. \A j : j # i => inode'[j] = inode[j]
    BY <2>3, InodeSet
  <2>5. UNCHANGED <<dir, oft, data, buf>>
    BY <1>2, BufferStays DEF InodeInit, InodeFinish
  <2> QED
    BY <2>2, <2>4, <2>5, MappingKept DEF FlatSame
<1>3. CASE Abort(Main)
  <2>1. CASE I(Main) \notin takenI
    BY <1>3, <2>1, BufferStays, QuietFlat DEF Abort
  <2>2. CASE I(Main) \in takenI
    <3>1. inode' = [inode EXCEPT ![I(Main)].state = "FREE"] /\ UNCHANGED <<dir, oft, data, buf>>
      BY <1>3, <2>2, BufferStays DEF Abort, InodeDelete
    <3>2. \A i \in Inodes : inode'[i].type = inode[i].type /\ inode'[i].size = inode[i].size
                            /\ inode'[i].block = inode[i].block
      BY <3>1, IInvDisk DEF DiskOK, InodeRecords
    <3> QED
      BY <3>1, <3>2, MappingKept DEF FlatSame
  <2> QED
    BY <2>1, <2>2
<1> QED
  BY <1>1, <1>2, <1>3 DEF InodeCreate

\* hard_links is counted, and a node without a name deleted.
LEMMA LinksFlat == ASSUME IInv, LinkWrite(Main) \/ UnlinkDrop(Main) PROVE FlatSame
<1>1. UNCHANGED disk /\ UNCHANGED buf => FlatSame
  BY QuietFlat
<1>2. UNCHANGED <<dir, oft, data, buf>>
  BY BufferStays DEF LinkWrite, UnlinkDrop, InodeDelete, DropLink, disk
<1>3. \A i \in Inodes : inode'[i].type = inode[i].type /\ inode'[i].size = inode[i].size
                        /\ inode'[i].block = inode[i].block
  <2>0. inode \in [Inodes -> InodeRecords]
    BY IInvDisk DEF DiskOK
  <2>1. CASE LinkWrite(Main)
    <3>1. inode' = [inode EXCEPT ![I(Main)].links = frame[Main].tmp + 1]
      BY <2>1 DEF LinkWrite
    <3> QED
      BY <2>0, <3>1 DEF InodeRecords
  <2>2. CASE UnlinkDrop(Main)
    <3>1. \/ inode' = [inode EXCEPT ![I(Main)].state = "FREE"]
          \/ \E n : inode' = [inode EXCEPT ![I(Main)].links = n]
          \/ inode' = inode
      BY <2>2 DEF UnlinkDrop, InodeDelete, DropLink, Crash, disk
    <3> QED
      BY <2>0, <3>1 DEF InodeRecords
  <2> QED
    BY <2>1, <2>2
<1> QED
  BY <1>2, <1>3, MappingKept DEF FlatSame

-----------------------------------------------------------------------------
(* Names come and go *)

\* add_dir_entry of a new name: it leads to the inode, whose contents can be
\* seen from now on.
LEMMA NameAdded ==
  ASSUME IInv, Directory, NEW n \in Names, NEW i \in Inodes, FreeEntries # {}, EntriesFor(n) = {},
         AddDirEntry(n, i), UNCHANGED <<inode, data>>
  PROVE  Tree' = [Tree EXCEPT ![n] = i] /\ Body' = [Body EXCEPT ![i] = Contents(i)]
<1> DEFINE e == First(FreeEntries)
<1>1. /\ \A m \in Names : m # n => EntriesFor(m)' = EntriesFor(m)
      /\ EntriesFor(n)' = {e} /\ dir'[e].inum = i
      /\ \A j \in Inodes : j # i => EntriesTo(j)' = EntriesTo(j)
      /\ EntriesTo(i)' = EntriesTo(i) \cup {e}
  BY IInvDisk, EntryAdded DEF Directory
<1>2. e \in Entries /\ dir[e].inum = None
  BY FirstFree DEF FreeEntries
<1>3. \A g \in Entries : g # e => dir'[g] = dir[g]
  BY <1>2, IInvDisk DEF AddDirEntry, TypeOK
<1> HIDE DEF e
<1>4. ASSUME NEW m \in Names, m # n
      PROVE  (IF EntriesFor(m)' = {} THEN None ELSE dir'[First(EntriesFor(m)')].inum) = Tree[m]
  <2>1. EntriesFor(m) # {} => First(EntriesFor(m)) \in Entries /\ First(EntriesFor(m)) # e
    BY <1>2, FirstEntry DEF EntriesFor
  <2> QED
    BY <1>1, <1>3, <1>4, <2>1 DEF Tree
<1>5. (IF EntriesFor(n)' = {} THEN None ELSE dir'[First(EntriesFor(n)')].inum) = i
  <2>1. {e} \in SUBSET Nat
    BY <1>2 DEF Entries
  <2>2. First({e}) = e
    BY <2>1, FirstIsIn
  <2> QED
    BY <1>1, <2>2
<1>6. Tree' = [Tree EXCEPT ![n] = i]
  BY <1>4, <1>5 DEF Tree
<1>7. \A j \in Inodes : Contents(j)' = Contents(j)
  BY DEF Contents, Cell
<1>8. Body' = [Body EXCEPT ![i] = Contents(i)]
  BY <1>1, <1>7 DEF Body
<1> QED
  BY <1>6, <1>8

\* clear_dir_entry: the name leads nowhere, and the contents cannot be seen
\* unless by another name.
LEMMA NameRemoved ==
  ASSUME IInv, Directory, NEW n \in Names, EntriesFor(n) # {}, ClearDirEntry(n), UNCHANGED <<inode, data>>
  PROVE  /\ Tree' = [Tree EXCEPT ![n] = None]
         /\ Body' = IF \E m \in Names \ {n} : Tree[m] = Tree[n] THEN Body ELSE [Body EXCEPT ![Tree[n]] = None]
<1> DEFINE e == First(EntriesFor(n))
<1>1. e \in Entries /\ dir[e].name = n /\ dir[e].inum # None
  BY FirstEntry DEF EntriesFor
<1>2. dir[e] # FreeEntry
  BY <1>1, IInvDisk, EntryKinds
<1>3. Tree[n] = dir[e].inum /\ Tree[n] \in Inodes
  BY <1>1, <1>2, TreeEntry
<1> PICK i \in Inodes : i = Tree[n]
  BY <1>3
<1>4. /\ \A m \in Names : m # n => EntriesFor(m)' = EntriesFor(m)
      /\ EntriesFor(n)' = {}
      /\ \A j \in Inodes : j # i => EntriesTo(j)' = EntriesTo(j)
      /\ EntriesTo(i)' = EntriesTo(i) \ {e}
  BY <1>3, IInvDisk, EntryCleared DEF Directory
<1>5. \A g \in Entries : g # e => dir'[g] = dir[g]
  BY <1>1, IInvDisk DEF ClearDirEntry, TypeOK
<1> HIDE DEF e
<1>6. ASSUME NEW m \in Names, m # n
      PROVE  (IF EntriesFor(m)' = {} THEN None ELSE dir'[First(EntriesFor(m)')].inum) = Tree[m]
  <2>1. EntriesFor(m) # {} => First(EntriesFor(m)) \in Entries /\ First(EntriesFor(m)) # e
    BY <1>1, <1>6, FirstEntry DEF EntriesFor
  <2> QED
    BY <1>4, <1>5, <1>6, <2>1 DEF Tree
<1>7. Tree' = [Tree EXCEPT ![n] = None]
  BY <1>4, <1>6 DEF Tree
<1>8. \A j \in Inodes : Contents(j)' = Contents(j)
  BY DEF Contents, Cell
<1>9. ASSUME NEW m \in Names \ {n}, Tree[m] = i PROVE EntriesTo(i)' # {} /\ EntriesTo(i) # {}
  <2>1. PICK g \in Entries : dir[g] # FreeEntry /\ dir[g].name = m /\ dir[g].inum = i
    BY <1>9, TreeEntry, Sizes DEF Inodes
  <2>2. g # e /\ g \in EntriesTo(i)
    BY <1>1, <2>1 DEF EntriesTo
  <2> QED
    BY <1>4, <2>2
<1>10. ASSUME EntriesTo(i)' # {} PROVE \E m \in Names \ {n} : Tree[m] = i
  <2>1. PICK g \in Entries : g # e /\ dir[g].inum = i
    BY <1>4, <1>10 DEF EntriesTo
  <2>2. dir[g] # FreeEntry
    BY <2>1, IInvDisk, EntryKinds, Sizes DEF Inodes
  <2>3. dir[g].name \in Names /\ Tree[dir[g].name] = i
    BY <2>1, <2>2, TreeEntry
  <2>4. dir[g].name # n
    BY <1>1, <1>2, <2>1, <2>2 DEF Directory, NamesApart
  <2> QED
    BY <2>3, <2>4
<1>11. CASE \E m \in Names \ {n} : Tree[m] = i
  <2>1. Body' = Body
    BY <1>4, <1>8, <1>9, <1>11 DEF Body
  <2> QED
    BY <1>7, <1>11, <2>1
<1>12. CASE ~ \E m \in Names \ {n} : Tree[m] = i
  <2>1. EntriesTo(i)' = {}
    BY <1>10, <1>12
  <2>2. Body' = [Body EXCEPT ![i] = None]
    BY <1>4, <1>8, <2>1 DEF Body
  <2> QED
    BY <1>7, <1>12, <2>2
<1> QED
  BY <1>11, <1>12

\* tfs_open: a new file has its name, and can be seen.
LEMMA OpenPublishFlat ==
  ASSUME IInv, Directory, FilesKept, Asking, OpenPublish(Main)
  PROVE  FlatStep \/ FlatSame
<1>0. pc[Main] = "created" /\ Op(Main) = "open" /\ Creating
  BY DEF OpenPublish, At, Creating
<1>1. CASE FreeEntries = {}
  BY <1>1, BufferStays, QuietFlat DEF OpenPublish
<1>2. CASE FreeEntries # {}
  <2>1. PICK i \in Inodes : i = I(Main)
    BY <1>0, Now, TfsAssumption DEF WithInode
  <2>2. PICK n \in Names : n = frame[Main].call.name
    BY <1>0, Now, CallFields, TfsAssumption DEF Op
  <2>3. EntriesFor(n) = {} /\ EntriesTo(i) = {} /\ inode[i].type = "FILE"
    BY <1>0, <2>1, <2>2 DEF Directory, NewName, NewInode, Kind
  <2>4. inode[i].size = 0
    BY <1>0, <2>1 DEF FilesKept, NodeSizes
  <2>5. AddDirEntry(n, i) /\ UNCHANGED <<inode, oft, data, buf>>
    BY <1>2, <2>1, <2>2, BufferStays DEF OpenPublish
  <2>6. Tree' = [Tree EXCEPT ![n] = i] /\ Body' = [Body EXCEPT ![i] = Contents(i)]
    BY <1>2, <2>3, <2>5, NameAdded
  <2>7. Contents(i) = Flat!FileNode(<<>>)
    <3>1. [k \in 1 .. 0 |-> Cell(inode[i].block, k - 1)] = <<>>
      OBVIOUS
    <3> QED
      BY <2>3, <2>4, <3>1 DEF Contents, Flat!FileNode
  <2>8. Tree[n] = None /\ Body[i] = None
    BY <2>3 DEF Tree, Body
  <2>9. Flat!FlatNext /\ Flat!Create(n, i, Flat!FileNode(<<>>))
    BY <2>5, <2>6, <2>7, <2>8, FlatCreates
  <2>10. "CREAT" \in frame[Main].call.mode
    BY <1>0 DEF Asking
  <2> QED
    BY <1>0, <2>2, <2>9, <2>10 DEF FlatStep, Flat!Effect, Op
<1> QED
  BY <1>1, <1>2

\* tfs_sym_link: the link can be seen, with its target's name in it.
LEMMA SymAddFlat ==
  ASSUME IInv, Directory, Underway, SymAdd(Main)
  PROVE  FlatStep \/ FlatSame
<1>0. pc[Main] = "add" /\ Op(Main) = "symlink" /\ Creating
  BY DEF SymAdd, At, Creating
<1>1. CASE FreeEntries = {}
  BY <1>1, BufferStays, QuietFlat DEF SymAdd
<1>2. CASE FreeEntries # {}
  <2>1. PICK i \in Inodes : i = I(Main)
    BY <1>0, Now, TfsAssumption DEF WithInode
  <2>2. frame[Main].call.name \in Names /\ frame[Main].call.target \in Names
    BY <1>0, Now, CallFields, TfsAssumption DEF Op
  <2> PICK n \in Names : n = frame[Main].call.name
    BY <2>2
  <2> PICK m \in Names : m = frame[Main].call.target
    BY <2>2
  <2>3. EntriesFor(n) = {} /\ EntriesTo(i) = {} /\ inode[i].type = "SYMLINK"
    BY <1>0, <2>1 DEF Directory, NewName, NewInode, Kind
  <2>4. Cell(inode[i].block, 0) = m
    BY <1>0, <2>1 DEF Underway
  <2>5. AddDirEntry(n, i) /\ UNCHANGED <<inode, oft, data, buf>>
    BY <1>2, <2>1, BufferStays DEF SymAdd
  <2>6. Tree' = [Tree EXCEPT ![n] = i] /\ Body' = [Body EXCEPT ![i] = Contents(i)]
    BY <1>2, <2>3, <2>5, NameAdded
  <2>7. Contents(i) = Flat!LinkNode(m)
    BY <2>3, <2>4 DEF Contents, Flat!LinkNode
  <2>8. Tree[n] = None /\ Body[i] = None
    BY <2>3 DEF Tree, Body
  <2>9. Flat!FlatNext /\ Flat!Create(n, i, Flat!LinkNode(m))
    BY <2>5, <2>6, <2>7, <2>8, FlatCreates
  <2> QED
    BY <1>0, <2>9 DEF FlatStep, Flat!Effect, Op
<1> QED
  BY <1>1, <1>2

\* tfs_link: the file has one more name.
LEMMA LinkAddFlat ==
  ASSUME IInv, Directory, Underway, LinkAdd(Main)
  PROVE  FlatStep \/ FlatSame
<1>0. pc[Main] = "add" /\ Op(Main) = "link"
  BY DEF LinkAdd, At
<1>1. CASE FreeEntries = {}
  BY <1>1, BufferStays, QuietFlat DEF LinkAdd
<1>2. CASE FreeEntries # {}
  <2>1. PICK i \in Inodes : i = I(Main)
    BY <1>0, Now, TfsAssumption DEF WithInode
  <2>2. frame[Main].call.name \in Names /\ frame[Main].call.target \in Names
    BY <1>0, Now, CallFields, TfsAssumption DEF Op
  <2> PICK n \in Names : n = frame[Main].call.name
    BY <2>2
  <2> PICK m \in Names : m = frame[Main].call.target
    BY <2>2
  <2>3. EntriesFor(n) = {} /\ inode[i].type = "FILE" /\ Tree[m] = i
    BY <1>0, <2>1 DEF Directory, NewName, Found, Underway
  <2>4. i # None
    BY Sizes DEF Inodes
  <2>5. Linked(i)
    BY <2>3, <2>4, TreeEntry
  <2>6. AddDirEntry(n, i) /\ UNCHANGED <<inode, oft, data, buf>>
    BY <1>2, <2>1, BufferStays DEF LinkAdd
  <2>7. Tree' = [Tree EXCEPT ![n] = i] /\ Body' = [Body EXCEPT ![i] = Contents(i)]
    BY <1>2, <2>3, <2>6, NameAdded
  <2>8. Body' = Body
    BY <2>5, <2>7 DEF Linked, Body
  <2>9. Tree[n] = None /\ Body[i] # None /\ Body[i].kind = "FILE"
    BY <2>3, <2>5, BodyFields DEF Tree
  <2>10. Flat!FlatNext /\ Flat!AddName(n, m)
    BY <2>3, <2>4, <2>6, <2>7, <2>8, <2>9, FlatAddsName
  <2> QED
    BY <1>0, <2>10 DEF FlatStep, Flat!Effect, Op
<1> QED
  BY <1>1, <1>2

\* tfs_unlink: the name is gone.
LEMMA UnlinkClearFlat ==
  ASSUME IInv, Directory, UnlinkClear(Main)
  PROVE  FlatStep \/ FlatSame
<1>0. pc[Main] = "clear" /\ Op(Main) = "unlink"
  BY DEF UnlinkClear, At
<1>1. PICK n \in Names : n = frame[Main].call.name
  BY <1>0, Now, CallFields, TfsAssumption DEF Op
<1>2. CASE EntriesFor(n) = {}
  BY <1>1, <1>2, BufferStays, QuietFlat DEF UnlinkClear
<1>3. CASE EntriesFor(n) # {}
  <2>1. ClearDirEntry(n) /\ UNCHANGED <<inode, oft, data, buf>>
    BY <1>1, <1>3, BufferStays DEF UnlinkClear
  <2>2. Flat!FlatNext /\ Flat!Remove(n)
    BY <1>3, <2>1, NameRemoved, TreeEntry, FlatRemoves
  <2> QED
    BY <1>0, <1>1, <2>2 DEF FlatStep, Flat!Effect, Op
<1> QED
  BY <1>2, <1>3

-----------------------------------------------------------------------------
(* Files are opened, truncated and closed *)

\* tfs_open follows a link, or truncates the file.
LEMMA OpenLockFlat ==
  ASSUME IInv, Directory, FilesKept, Asking, OpenLock(Main)
  PROVE  FlatStep \/ FlatSame
<1>0. pc[Main] = "lock" /\ Op(Main) = "open"
  BY DEF OpenLock, At
<1>1. PICK i \in Inodes : i = I(Main)
  BY <1>0, Now, TfsAssumption DEF WithInode
<1>2. inode \in [Inodes -> InodeRecords] /\ inode[i] \in InodeRecords
  BY IInvDisk DEF DiskOK
<1>3. Linked(i)
  BY <1>0, <1>1 DEF FilesKept, Opening
<1>4. CASE inode[i].type = "SYMLINK"
  BY <1>1, <1>4, BufferStays, QuietFlat DEF OpenLock
<1>5. CASE inode[i].type = "FILE" /\ "TRUNC" \notin frame[Main].call.mode
  <2>1. UNCHANGED <<inode, takenI, takenB, dir, oft, data>> /\ UNCHANGED buf
    BY <1>1, <1>5, BufferStays DEF OpenLock
  <2> QED
    BY <2>1, QuietFlat DEF disk
<1>6. CASE inode[i].type = "FILE" /\ "TRUNC" \in frame[Main].call.mode
  <2>1. inode' = [inode EXCEPT ![i].size = 0] /\ UNCHANGED <<dir, oft, data, buf>>
    BY <1>1, <1>6, BufferStays DEF OpenLock
  <2>2. inode'[i].type = "FILE" /\ inode'[i].size = 0
    BY <1>2, <1>6, <2>1 DEF InodeRecords
  <2>3. \A j \in Inodes : j # i => inode'[j] = inode[j]
    BY <1>2, <2>1
  <2>4. \A j \in Inodes : j # i => Contents(j)' = Contents(j)
    BY <2>1, <2>3 DEF Contents, Cell
  <2>5. Contents(i)' = Flat!FileNode(<<>>)
    <3>1. [k \in 1 .. 0 |-> Cell(inode[i].block, k - 1)'] = <<>>
      OBVIOUS
    <3>2. inode'[i].block = inode[i].block
      BY <1>2, <2>1 DEF InodeRecords
    <3> QED
      BY <2>2, <3>1, <3>2 DEF Contents, Flat!FileNode
  <2>6. \A j : EntriesTo(j)' = EntriesTo(j)
    BY <2>1 DEF EntriesTo
  <2>7. Body' = [Body EXCEPT ![i] = Flat!FileNode(<<>>)]
    BY <1>3, <2>4, <2>5, <2>6 DEF Body, Linked
  <2>8. Body[i] # None /\ Body[i].kind = "FILE"
    BY <1>3, <1>6, BodyFields
  <2>9. Flat!FlatNext /\ Flat!Truncate(i)
    BY <2>1, <2>7, <2>8, TreeKept, FlatTruncates
  <2>10. Flat!Reaches(frame[Main].call.name, i)
    BY <1>0, <1>1, CalledName, LeadsThere DEF Asking
  <2> QED
    BY <1>0, <1>6, <2>9, <2>10 DEF FlatStep, Flat!Effect, Op
<1> QED
  BY <1>2, <1>4, <1>5, <1>6 DEF InodeRecords

\* tfs_open: the handle is at the beginning or the end of the file.
LEMMA OpenAddFileFlat ==
  ASSUME IInv, Directory, FilesKept, Asking, OpenAddFile(Main)
  PROVE  FlatStep \/ FlatSame
<1>0. pc[Main] = "addfile" /\ Op(Main) = "open"
  BY DEF OpenAddFile, At
<1>1. CASE FreeFds = {}
  BY <1>1, BufferStays, QuietFlat DEF OpenAddFile
<1>2. CASE FreeFds # {}
  <2>1. PICK i \in Inodes : i = I(Main)
    BY <1>0, Now, TfsAssumption DEF WithInode
  <2>2. PICK n : n = frame[Main].tmp
    OBVIOUS
  <2>3. Linked(i) /\ inode[i].type = "FILE" /\ n \in {0, inode[i].size}
    BY <1>0, <2>1, <2>2 DEF FilesKept, Opening
  <2>4. Body[i] # None /\ Body[i].kind = "FILE" /\ Body[i].cells = Cells(i)
        /\ Len(Cells(i)) = inode[i].size /\ inode[i].size \in 0 .. BlockSize
    BY <2>3, BodyFields
  <2>5. n \in 0 .. BlockSize /\ n \in {0, Len(Body[i].cells)}
    BY <2>3, <2>4, Sizes
  <2>6. First(FreeFds) \in Fds /\ oft[First(FreeFds)] = None
    BY <1>2, FirstFree DEF FreeFds
  <2>7. oft' = [oft EXCEPT ![First(FreeFds)] = [inum |-> i, off |-> n]]
    BY <1>2, <2>1, <2>2 DEF OpenAddFile, AddToOpenFileTable
  <2>8. UNCHANGED <<inode, dir, data, buf>>
    BY <1>2 DEF OpenAddFile
  <2>9. UNCHANGED <<Tree, Body>>
    BY <2>8, MappingKept
  <2>10. Flat!FlatNext /\ Flat!OpenFile(First(FreeFds), i, n)
    BY <2>4, <2>5, <2>6, <2>7, <2>8, <2>9, FlatOpens
  <2>11. Flat!Reaches(frame[Main].call.name, i)
    BY <1>0, <2>1, CalledName, LeadsThere DEF Asking
  <2>12. "APPEND" \notin frame[Main].call.mode => n = 0
    BY <1>0, <2>2 DEF Asking
  <2> QED
    BY <1>0, <2>5, <2>6, <2>10, <2>11, <2>12 DEF FlatStep, Flat!Effect, Op
<1> QED
  BY <1>1, <1>2

\* tfs_close.
LEMMA CloseFlat == ASSUME IInv, Close(Main) PROVE FlatStep \/ FlatSame
<1>0. pc[Main] = "entry" /\ Op(Main) = "close"
  BY DEF Close, At
<1>1. CASE File(Main) = None
  BY <1>1, BufferStays, QuietFlat DEF Close
<1>2. CASE File(Main) # None
  <2>1. PICK d \in Fds : d = Fd(Main)
    BY <1>0, Now, TfsAssumption
  <2>2. oft' = [oft EXCEPT ![d] = None] /\ oft[d] # None /\ UNCHANGED <<inode, dir, data, buf>>
    BY <1>2, <2>1, BufferStays DEF Close, File
  <2>3. Flat!FlatNext /\ Flat!CloseFile(d)
    BY <2>2, MappingKept, FlatCloses
  <2> QED
    BY <1>0, <2>1, <2>3 DEF FlatStep, Flat!Effect, Op, Fd
<1> QED
  BY <1>1, <1>2

-----------------------------------------------------------------------------
(* The cells of files *)

\* Different blocks have different cells.
LEMMA CellsApart ==
  ASSUME NEW b \in Blocks, NEW c \in Blocks, b # c, NEW k \in 0 .. BlockSize - 1, NEW l \in 0 .. BlockSize - 1
  PROVE  Address(b, k) # Address(c, l)
<1>1. BlockSize \in Nat \ {0} /\ b \in Int /\ c \in Int
  BY Sizes DEF Blocks
<1>2. ASSUME NEW x \in Int, NEW y \in Int, x < y PROVE (x - 1) * BlockSize + BlockSize <= (y - 1) * BlockSize
  BY <1>1, <1>2
<1>3. CASE b < c
  <2>1. (b - 1) * BlockSize + BlockSize <= (c - 1) * BlockSize
    BY <1>1, <1>2, <1>3
  <2> QED
    BY <1>1, <2>1 DEF Address
<1>4. CASE c < b
  <2>1. (c - 1) * BlockSize + BlockSize <= (b - 1) * BlockSize
    BY <1>1, <1>2, <1>4
  <2> QED
    BY <1>1, <2>1 DEF Address
<1> QED
  BY <1>1, <1>3, <1>4

\* The cells of a block are all in fs_data.
LEMMA CellsThere ==
  ASSUME IInv, NEW b \in Blocks, NEW k \in 0 .. BlockSize - 1
  PROVE  Address(b, k) \in DOMAIN data /\ Cell(b, k) = data[Address(b, k)] /\ Address(b, k) \in Nat
<1>1. BlockSize \in Nat \ {0} /\ NBlocks \in Nat \ {0} /\ b \in 1 .. NBlocks
  BY TfsStateAssumption DEF Blocks
<1>2. DOMAIN data = 0 .. NBlocks * BlockSize - 1
  BY IInvDisk DEF DiskOK
<1>3. 0 <= (b - 1) * BlockSize /\ (b - 1) * BlockSize + BlockSize <= NBlocks * BlockSize
  <2>1. (b - 1) * BlockSize + BlockSize = b * BlockSize
    BY <1>1
  <2>2. b * BlockSize <= NBlocks * BlockSize
    BY <1>1
  <2>3. 0 <= (b - 1) * BlockSize
    BY <1>1
  <2> QED
    BY <2>1, <2>2, <2>3
<1>4. (b - 1) * BlockSize \in Int /\ NBlocks * BlockSize \in Int
  BY <1>1
<1>5. Address(b, k) \in 0 .. NBlocks * BlockSize - 1
  BY <1>1, <1>3, <1>4 DEF Address
<1> QED
  BY <1>2, <1>5 DEF Cell


\* The contents of a node stay while cells are written to a block of another.
LEMMA OthersKept ==
  ASSUME IInv, Directory, FilesKept, pc[Main] # "init", NEW b \in Blocks, DOMAIN data' = DOMAIN data,
         \A a \in DOMAIN data : data'[a] = data[a] \/ \E k \in 0 .. BlockSize - 1 : a = Address(b, k),
         NEW j \in Inodes, Linked(j), inode'[j] = inode[j], inode[j].size > 0 => inode[j].block # b
  PROVE  Contents(j)' = Contents(j)
<1>1. Live(j) /\ ~ (Creating /\ j = I(Main))
  BY LinkedLive DEF Directory, NewInode, Linked
<1>2. inode[j].type = "SYMLINK" => inode[j].size = 1
  BY <1>1 DEF FilesKept, NodeSizes, Live
<1>3. inode[j].size \in 0 .. BlockSize /\ BlockSize \in Nat
  BY BodyFields, Sizes
<1>4. PICK c : c = inode[j].block
  OBVIOUS
<1>5. ASSUME inode[j].size > 0, NEW k \in 0 .. BlockSize - 1 PROVE Cell(c, k)' = Cell(c, k)
  <2>1. c \in Blocks /\ c # b
    BY <1>1, <1>4, <1>5, BlockExists DEF Live
  <2>2. Address(c, k) \in DOMAIN data /\ \A l \in 0 .. BlockSize - 1 : Address(c, k) # Address(b, l)
    BY <2>1, CellsThere, CellsApart
  <2>3. data'[Address(c, k)] = data[Address(c, k)]
    BY <2>2
  <2> QED
    BY <2>2, <2>3 DEF Cell
<1>6. inode[j].type = "SYMLINK" => Cell(c, 0)' = Cell(c, 0)
  BY <1>2, <1>3, <1>5
<1>7. \A k \in 1 .. inode[j].size : Cell(c, k - 1)' = Cell(c, k - 1)
  <2> TAKE k \in 1 .. inode[j].size
  <2>1. inode[j].size > 0 /\ k - 1 \in 0 .. BlockSize - 1
    BY <1>3
  <2> QED
    BY <1>5, <2>1
<1> QED
  BY <1>4, <1>6, <1>7, ContentsKept

\* tfs_sym_link writes into a block of its own.
LEMMA SymWriteFlat ==
  ASSUME IInv, Directory, FilesKept, SymWrite(Main)
  PROVE  FlatSame
<1>0. pc[Main] = "created" /\ Op(Main) = "symlink" /\ Creating
  BY DEF SymWrite, At, Creating
<1>1. PICK i \in Inodes : i = I(Main)
  BY <1>0, Now, TfsAssumption DEF WithInode
<1>2. CASE inode[i].block = None
  BY <1>1, <1>2, BufferStays, QuietFlat DEF SymWrite
<1>3. CASE inode[i].block # None
  <2>1. PICK b : b = inode[i].block
    OBVIOUS
  <2>2. /\ data' = [data EXCEPT ![Address(b, 0)] = frame[Main].call.target]
        /\ inode' = [inode EXCEPT ![i].size = 1] /\ UNCHANGED <<dir, oft, buf>>
    BY <1>1, <1>3, <2>1, BufferStays DEF SymWrite
  <2>3. i \in takenI /\ ~ Linked(i) /\ inode[i].size = 1
    BY <1>0, <1>1 DEF Directory, NewInode, FilesKept, NodeSizes, Linked
  <2>4. b \in Blocks
    BY <1>0, <2>1, <2>3, BlockExists
  <2>5. ASSUME NEW j \in Inodes, Linked(j) PROVE Contents(j)' = Contents(j)
    <3>1. j # i /\ j \in takenI
      BY <2>3, <2>5, LinkedLive DEF Directory, Live
    <3>2. inode'[j] = inode[j]
      BY <2>2, <3>1
    <3>3. inode[j].size > 0 => inode[j].block # b
      BY <1>0, <2>1, <2>3, <3>1 DEF FilesKept, BlocksUsed, Settled, HasBlock
    <3>4. 0 \in 0 .. BlockSize - 1
      BY Sizes
    <3>5. DOMAIN data' = DOMAIN data /\ \A a \in DOMAIN data : data'[a] = data[a] \/ a = Address(b, 0)
      BY <2>2
    <3> QED
      BY <1>0, <2>4, <2>5, <3>2, <3>3, <3>4, <3>5, OthersKept
  <2>6. Body' = Body
    BY <2>2, <2>5 DEF Body, Linked, EntriesTo
  <2> QED
    BY <2>2, <2>6, TreeKept DEF FlatSame
<1> QED
  BY <1>2, <1>3

-----------------------------------------------------------------------------
(* Reads *)

\* tfs_read at the end of a file reads nothing.
LEMMA ReadSizeFlat ==
  ASSUME IInv, Directory, FilesKept, ReadSize(Main)
  PROVE  FlatStep \/ FlatSame
<1>0. pc[Main] = "size" /\ Op(Main) = "read"
  BY DEF ReadSize, At
<1>1. CASE ToRead(Main) # 0
  BY <1>1, BufferStays, QuietFlat DEF ReadSize
<1>2. CASE ToRead(Main) = 0
  <2>1. CASE buf' = [buf EXCEPT ![Main] = <<>>] /\ UNCHANGED disk
    <3>1. PICK d \in Fds, i \in Inodes, off \in Nat : d = Fd(Main) /\ i = File(Main).inum /\ off = File(Main).off
      BY <1>0, HandleFile DEF WithFd, OnHandle
    <3>2. /\ oft[d] # None /\ oft[d] = File(Main) /\ Linked(i) /\ inode[i].type = "FILE"
          /\ off <= inode[i].size /\ inode[i].size \in 0 .. BlockSize
      BY <1>0, <3>1, HandleFile DEF WithFd, OnHandle
    <3>3. Body[i] # None /\ Body[i].kind = "FILE" /\ off + 0 <= Len(Body[i].cells)
      BY <3>2, BodyFields
    <3>4. SubSeq(Body[i].cells, off + 1, off + 0) = <<>>
      BY SubSeqEmpty
    <3>5. [oft EXCEPT ![d].off = off + 0] = oft
      <4>1. oft \in [Fds -> Files \cup {None}] /\ oft[d] \in Files
        BY <3>2, IInvDisk DEF DiskOK, Files
      <4>2. oft[d].off = off + 0
        BY <3>1, <3>2
      <4>3. [oft[d] EXCEPT !.off = off + 0] = oft[d]
        BY <4>1, <4>2 DEF Files
      <4> QED
        BY <4>1, <4>3
    <3>6. UNCHANGED <<inode, dir, data, oft>>
      BY <2>1 DEF disk
    <3>7. UNCHANGED <<Tree, Body>>
      BY <3>6, MappingKept
    <3>8. 0 \in 0 .. BlockSize
      BY Sizes
    <3>9. oft[d].inum = i /\ oft[d].off = off
      BY <3>1, <3>2
    <3>10. buf' = [buf EXCEPT ![Main] = SubSeq(Body[i].cells, off + 1, off + 0)]
      BY <2>1, <3>4
    <3>11. oft' = [oft EXCEPT ![d].off = off + 0]
      BY <3>5, <3>6
    <3>12. Flat!FlatNext /\ Flat!ReadFile(d, Main, 0)
      BY <3>2, <3>3, <3>7, <3>8, <3>9, <3>10, <3>11, FlatReads
    <3>13. 0 <= frame[Main].call.len
      BY <1>0, Now, CallFields, TfsAssumption DEF Op
    <3> QED
      BY <1>0, <3>1, <3>8, <3>12, <3>13 DEF FlatStep, Flat!Effect, Op, Fd
  <2>2. CASE ~ (ToRead(Main) > 0)
    BY <1>2, <2>1, <2>2 DEF ReadSize
  <2> QED
    BY <1>2, <2>2
<1> QED
  BY <1>1, <1>2

\* tfs_read returns what it has copied, and moves its offset past it.
LEMMA ReadOffsetFlat ==
  ASSUME IInv, Directory, FilesKept, Underway, Asking, ReadOffset(Main)
  PROVE  FlatStep \/ FlatSame
<1>0. pc[Main] = "offset" /\ Op(Main) = "read"
  BY DEF ReadOffset, At
<1>1. PICK d \in Fds, i \in Inodes, off \in Nat : d = Fd(Main) /\ i = File(Main).inum /\ off = File(Main).off
  BY <1>0, HandleFile DEF WithFd, OnHandle
<1>2. /\ oft[d] # None /\ oft[d] = File(Main) /\ Linked(i) /\ inode[i].type = "FILE"
      /\ inode[i].size \in 0 .. BlockSize
  BY <1>0, <1>1, HandleFile DEF WithFd, OnHandle
<1>3. PICK n \in Nat : n = frame[Main].tmp
  BY Inside, LocalTypes, TfsAssumption
<1>4. off + n <= inode[i].size /\ frame[Main].other = off
  BY <1>0, <1>1, <1>3 DEF FilesKept, Reading
<1>5. /\ oft' = [oft EXCEPT ![d].off = off + n] /\ UNCHANGED <<inode, dir, data>>
      /\ buf' = [buf EXCEPT ![Main] = frame[Main].got]
  <2>1. Min2(off + n, MaxOffset) = off + n
    BY <1>2, <1>4, Sizes DEF Min2
  <2> QED
    BY <1>1, <1>3, <1>4, <2>1 DEF ReadOffset
<1>6. Body[i] # None /\ Body[i].kind = "FILE" /\ Body[i].cells = Cells(i)
      /\ Cells(i) \in Seq(CellValues) /\ Len(Cells(i)) = inode[i].size
  BY <1>2, BodyFields
<1>7. SubSeq(Cells(i), off + 1, off + n) = frame[Main].got
  <2> DEFINE part == SubSeq(Cells(i), off + 1, off + n)
             got == [k \in 1 .. n |-> Cell(inode[i].block, off + k - 1)]
  <2>1. frame[Main].got = got
    BY <1>0, <1>1, <1>3 DEF Underway
  <2>2. \A k \in off + 1 .. off + n : Cells(i)[k] \in CellValues
    <3> TAKE k \in off + 1 .. off + n
    <3>1. k \in 1 .. Len(Cells(i))
      BY <1>2, <1>4, <1>6
    <3> QED
      BY <1>6, <3>1
  <2>3. part \in Seq(CellValues) /\ Len(part) = n /\ \A k \in 1 .. n : part[k] = Cells(i)[off + k]
    BY <2>2, SubSeqProperties
  <2>4. \A k \in 1 .. n : Cells(i)[off + k] = Cell(inode[i].block, off + k - 1)
    <3> TAKE k \in 1 .. n
    <3>1. off + k \in 1 .. inode[i].size
      BY <1>2, <1>4
    <3> QED
      BY <3>1 DEF Cells
  <2>5. got \in Seq(CellValues) /\ Len(got) = n
    <3>1. \A k : Cell(inode[i].block, off + k - 1) \in CellValues
      BY IInvDisk, CellType
    <3> DEFINE g(k) == Cell(inode[i].block, off + k - 1)
    <3> HIDE DEF g
    <3>2. \A k : g(k) \in CellValues
      BY <3>1 DEF g
    <3>3. [k \in 1 .. n |-> g(k)] \in Seq(CellValues) /\ Len([k \in 1 .. n |-> g(k)]) = n
      BY <3>2
    <3> QED
      BY <3>3 DEF g
  <2>6. \A k \in 1 .. n : got[k] = part[k]
    BY <2>3, <2>4
  <2> HIDE DEF part, got
  <2>7. part = got
    BY <2>3, <2>5, <2>6, SeqEqual
  <2> QED
    BY <2>1, <2>7 DEF part
<1>8. n \in 0 .. BlockSize /\ off + n <= Len(Body[i].cells) /\ oft[d].inum = i /\ oft[d].off = off
  BY <1>1, <1>2, <1>4, <1>6, Sizes
<1>9. buf' = [buf EXCEPT ![Main] = SubSeq(Body[i].cells, off + 1, off + n)]
  BY <1>5, <1>6, <1>7
<1>10. UNCHANGED <<Tree, Body>>
  BY <1>5, MappingKept
<1>11. oft[d] # None /\ Body[i] # None /\ Body[i].kind = "FILE" /\ oft' = [oft EXCEPT ![d].off = off + n]
  BY <1>2, <1>5, <1>6
<1>12. Flat!FlatNext /\ Flat!ReadFile(d, Main, n)
  BY <1>8, <1>9, <1>10, <1>11, FlatReads
<1>13. n <= frame[Main].call.len
  BY <1>0, <1>3 DEF Asking
<1> QED
  BY <1>0, <1>1, <1>8, <1>12, <1>13 DEF FlatStep, Flat!Effect, Op, Fd


-----------------------------------------------------------------------------
(* Writes *)

\* old with cells over what comes after the first off of its elements.
Spliced(old, cells, off, end) == SubSeq(old, 1, off) \o cells \o SubSeq(old, end + 1, Len(old))

\* result has put where the range off + 1 .. end is, and what before had elsewhere.
PutsAt(k, result, put, off, end) == k \in off + 1 .. end => result[k] = put[k - off]
KeepsAt(k, result, before, off, end) == k \notin off + 1 .. end => result[k] = before[k]
OverwrittenBy(result, before, put, off, end) ==
  /\ off \in 0 .. Len(before) /\ end = off + Len(put) /\ Len(result) = Max2(Len(before), end)
  /\ \A k \in 1 .. Len(result) : PutsAt(k, result, put, off, end) /\ KeepsAt(k, result, before, off, end)

\* A sequence that is another with some of it overwritten.
LEMMA Overwritten ==
  \A off \in Nat, end \in Nat, before \in Seq(CellValues), put \in Seq(CellValues), result \in Seq(CellValues) :
     OverwrittenBy(result, before, put, off, end) => result = Spliced(before, put, off, end)
<1> SUFFICES ASSUME NEW off \in Nat, NEW end \in Nat,
                    NEW before \in Seq(CellValues), NEW put \in Seq(CellValues), NEW result \in Seq(CellValues),
                    OverwrittenBy(result, before, put, off, end)
             PROVE  result = Spliced(before, put, off, end)
  BY Zenon
<1>0. /\ off \in 0 .. Len(before) /\ end = off + Len(put) /\ Len(result) = Max2(Len(before), end)
      /\ \A k \in 1 .. Len(result) : PutsAt(k, result, put, off, end) /\ KeepsAt(k, result, before, off, end)
  BY DEF OverwrittenBy
<1> DEFINE front == SubSeq(before, 1, off)
           back == SubSeq(before, end + 1, Len(before))
<1>1. Len(before) \in Nat /\ Len(put) \in Nat /\ Len(result) \in Nat /\ off \in Nat /\ off <= Len(before)
  <2>1. Len(before) \in Nat /\ Len(put) \in Nat /\ Len(result) \in Nat
    BY LenProperties
  <2> QED
    BY <1>0, <2>1
<1>2. front \in Seq(CellValues) /\ Len(front) = off /\ \A k \in 1 .. off : front[k] = before[k]
  <2>1. \A k \in 1 .. off : before[k] \in CellValues
    BY <1>1
  <2>2. /\ front \in Seq(CellValues) /\ Len(front) = IF 1 <= off THEN off - 1 + 1 ELSE 0
        /\ \A k \in 1 .. off - 1 + 1 : front[k] = before[1 + k - 1]
    BY <1>1, <2>1, SubSeqProperties
  <2> HIDE DEF front
  <2> QED
    BY <1>1, <2>2
<1>3. /\ back \in Seq(CellValues) /\ Len(back) = (IF end < Len(before) THEN Len(before) - end ELSE 0)
      /\ \A k \in 1 .. Len(before) - end : back[k] = before[end + k]
  <2>1. \A k \in end + 1 .. Len(before) : before[k] \in CellValues
    BY <1>1
  <2>2. /\ back \in Seq(CellValues) /\ Len(back) = IF end + 1 <= Len(before) THEN Len(before) - (end + 1) + 1 ELSE 0
        /\ \A k \in 1 .. Len(before) - (end + 1) + 1 : back[k] = before[end + 1 + k - 1]
    BY <1>1, <2>1, SubSeqProperties
  <2> HIDE DEF back
  <2> QED
    BY <1>1, <2>2
<1> HIDE DEF front, back
<1>8. end = off + Len(put) /\ Len(result) = (IF Len(before) <= end THEN end ELSE Len(before))
  BY <1>0 DEF Max2
<1>4. /\ front \o put \in Seq(CellValues) /\ Len(front \o put) = end
      /\ \A k \in 1 .. end : (front \o put)[k] = IF k <= off THEN front[k] ELSE put[k - off]
  <2>1. /\ front \o put \in Seq(CellValues) /\ Len(front \o put) = Len(front) + Len(put)
        /\ \A k \in 1 .. Len(front) + Len(put) :
              (front \o put)[k] = IF k <= Len(front) THEN front[k] ELSE put[k - Len(front)]
    BY <1>2, ConcatProperties
  <2> QED
    BY <1>1, <1>2, <1>8, <2>1
<1> DEFINE start == front \o put
           all == start \o back
<1> HIDE DEF start
<1>5. /\ all \in Seq(CellValues) /\ Len(all) = end + Len(back)
      /\ \A k \in 1 .. end + Len(back) : all[k] = IF k <= end THEN start[k] ELSE back[k - end]
  <2>1. start \in Seq(CellValues) /\ Len(start) = end
    BY <1>4 DEF start
  <2>2. /\ all \in Seq(CellValues) /\ Len(all) = Len(start) + Len(back)
        /\ \A k \in 1 .. Len(start) + Len(back) :
              all[k] = IF k <= Len(start) THEN start[k] ELSE back[k - Len(start)]
    <3>1. back \in Seq(CellValues)
      BY <1>3
    <3> QED
      BY <2>1, <3>1, ConcatProperties
  <2> QED
    BY <2>1, <2>2
<1> HIDE DEF all
<1>6. Len(all) = Len(result)
  <2>1. Len(back) = (IF end < Len(before) THEN Len(before) - end ELSE 0) /\ Len(all) = end + Len(back)
    BY <1>3, <1>5
  <2>2. CASE Len(before) <= end
    <3>1. Len(back) = 0 /\ Len(result) = end
      BY <1>1, <1>8, <2>1, <2>2
    <3> QED
      BY <2>1, <3>1
  <2>3. CASE end < Len(before)
    <3>1. Len(back) = Len(before) - end /\ Len(result) = Len(before)
      BY <1>1, <1>8, <2>1, <2>3
    <3> QED
      BY <1>1, <2>1, <3>1
  <2> QED
    BY <1>1, <2>2, <2>3
<1>7. ASSUME NEW k \in 1 .. Len(result) PROVE result[k] = all[k]
  <2>0. Len(result) \in Nat /\ k \in Nat /\ 1 <= k /\ k <= Len(result)
    BY <1>1
  <2>1. CASE k <= off
    <3>1. k \in 1 .. off /\ k \in 1 .. end /\ k \notin off + 1 .. end /\ k <= end
      BY <1>1, <1>8, <2>0, <2>1
    <3>2. result[k] = before[k] /\ all[k] = start[k] /\ start[k] = front[k]
      <4>1. result[k] = before[k]
        <5>1. KeepsAt(k, result, before, off, end)
          BY <1>0
        <5> QED
          BY <3>1, <5>1 DEF KeepsAt
      <4>2. all[k] = start[k]
        BY <1>1, <1>3, <1>5, <1>6, <2>1, <3>1
      <4>3. start[k] = front[k]
        BY <1>4, <2>1, <3>1 DEF start
      <4> QED
        BY <4>1, <4>2, <4>3
    <3> QED
      BY <1>2, <3>1, <3>2
  <2>2. CASE off < k /\ k <= end
    <3>1. k \in 1 .. end /\ k \in off + 1 .. end /\ ~ (k <= off)
      BY <1>1, <1>8, <2>0, <2>2
    <3>2. result[k] = put[k - off]
      <4>1. PutsAt(k, result, put, off, end)
        BY <1>0
      <4> QED
        BY <3>1, <4>1 DEF PutsAt
    <3>3. all[k] = start[k]
      BY <1>3, <1>5, <1>6, <2>2, <3>1
    <3>4. start[k] = put[k - off]
      BY <1>4, <3>1 DEF start
    <3> QED
      BY <3>2, <3>3, <3>4
  <2>3. CASE end < k
    <3>0. k <= Len(before)
      BY <1>1, <1>8, <2>0, <2>3
    <3>1. k \notin off + 1 .. end /\ ~ (k <= end) /\ k - end \in 1 .. Len(before) - end /\ end + (k - end) = k
      BY <1>1, <2>0, <2>3, <3>0
    <3>2. result[k] = before[k] /\ all[k] = back[k - end]
      <4>1. result[k] = before[k]
        <5>1. KeepsAt(k, result, before, off, end)
          BY <1>0
        <5> QED
          BY <3>1, <5>1 DEF KeepsAt
      <4>2. k \in 1 .. end + Len(back)
        BY <1>1, <1>5, <1>6, <2>0
      <4> QED
        BY <1>5, <3>1, <4>1, <4>2
    <3> QED
      BY <1>3, <3>1, <3>2
  <2> QED
    BY <1>1, <2>0, <2>1, <2>2, <2>3
<1> QED
  BY <1>5, <1>6, <1>7, SeqEqual DEF Spliced, all, start, front, back


\* What is in fs_data after a write to a block.
LEMMA CellsWritten ==
  ASSUME IInv, NEW b \in Blocks, NEW off \in Nat, NEW n \in Nat \ {0}, off + n <= BlockSize, NEW cells,
         data' = [a \in DOMAIN data |-> LET k == a - Address(b, off)
                                        IN IF k \in 0 .. n - 1 THEN cells[k + 1] ELSE data[a]]
  PROVE  /\ DOMAIN data' = DOMAIN data
         /\ \A a \in DOMAIN data : data'[a] = data[a] \/ \E k \in 0 .. BlockSize - 1 : a = Address(b, k)
         /\ \A k \in 1 .. BlockSize :
              /\ k \in off + 1 .. off + n => Cell(b, k - 1)' = cells[k - off]
              /\ k \notin off + 1 .. off + n => Cell(b, k - 1)' = Cell(b, k - 1)
<1>1. BlockSize \in Nat \ {0} /\ (b - 1) * BlockSize \in Int
  BY Sizes DEF Blocks
<1>2. PICK x \in Int : x = (b - 1) * BlockSize
  BY <1>1
<1>3. \A k : Address(b, k) = x + k
  BY <1>2 DEF Address
<1>4. \A a \in DOMAIN data : data'[a] = IF a - (x + off) \in 0 .. n - 1 THEN cells[a - (x + off) + 1] ELSE data[a]
  BY <1>3
<1>5. DOMAIN data' = DOMAIN data
  OBVIOUS
<1>6. ASSUME NEW a \in DOMAIN data, data'[a] # data[a] PROVE \E k \in 0 .. BlockSize - 1 : a = Address(b, k)
  <2>1. a \in Int
    <3>1. DOMAIN data = 0 .. NBlocks * BlockSize - 1
      BY IInvDisk DEF DiskOK
    <3>2. NBlocks * BlockSize \in Int
      BY <1>1, TfsStateAssumption
    <3> QED
      BY <3>1, <3>2
  <2>2. a - (x + off) \in 0 .. n - 1
    BY <1>4, <1>6
  <2>3. a - x \in 0 .. BlockSize - 1 /\ a = x + (a - x)
    BY <1>1, <2>1, <2>2
  <2> QED
    BY <1>3, <2>3
<1>7. ASSUME NEW k \in 1 .. BlockSize
      PROVE  /\ k \in off + 1 .. off + n => Cell(b, k - 1)' = cells[k - off]
             /\ k \notin off + 1 .. off + n => Cell(b, k - 1)' = Cell(b, k - 1)
  <2>1. k - 1 \in 0 .. BlockSize - 1
    BY <1>1
  <2>2. x + (k - 1) \in DOMAIN data /\ Cell(b, k - 1) = data[x + (k - 1)]
    BY <1>3, <2>1, CellsThere
  <2>3. Cell(b, k - 1)' = data'[x + (k - 1)]
    BY <1>3, <1>5, <2>2 DEF Cell
  <2>4. x + (k - 1) - (x + off) = k - off - 1 /\ k - off - 1 + 1 = k - off
    BY <1>1
  <2>5. k \in off + 1 .. off + n <=> k - off - 1 \in 0 .. n - 1
    BY <1>1
  <2>6. data'[x + (k - 1)] = IF k - off - 1 \in 0 .. n - 1 THEN cells[k - off - 1 + 1] ELSE data[x + (k - 1)]
    BY <1>4, <2>2, <2>4
  <2> QED
    BY <2>2, <2>3, <2>4, <2>5, <2>6
<1> QED
  BY <1>5, <1>6, <1>7

\* tfs_write overwrites the file from the offset on, and no other file.
LEMMA WriteDataFlat ==
  ASSUME IInv, Directory, FilesKept, WriteData(Main)
  PROVE  FlatStep \/ FlatSame
<1>0. pc[Main] = "data" /\ Op(Main) = "write"
  BY DEF WriteData, At
<1>1. PICK d \in Fds, i \in Inodes, off \in Nat : d = Fd(Main) /\ i = File(Main).inum /\ off = File(Main).off
  BY <1>0, HandleFile DEF WithFd, OnHandle
<1>2. /\ oft[d] = File(Main) /\ oft[d] # None /\ Live(i) /\ Linked(i) /\ inode[i].type = "FILE"
      /\ inode[i].size \in 0 .. BlockSize /\ off <= inode[i].size
  BY <1>0, <1>1, HandleFile DEF WithFd, OnHandle
<1>3. frame[Main].call.cells \in Seq(Data)
  BY <1>0, Now, CallFields, TfsAssumption DEF Op
<1>4. PICK want : want \in Seq(Data) /\ want = frame[Main].call.cells
  BY <1>3
<1>5. PICK n \in Int : n = WriteCount(Len(want), off) /\ n <= Len(want) /\ off + n <= BlockSize
  <2>1. Len(want) \in Nat
    BY <1>4
  <2> QED
    BY <2>1, WriteFits
<1>6. PICK b : b = IF inode[i].size = 0 THEN First(FreeBlocks) ELSE inode[i].block
  OBVIOUS
<1>7. ASSUME NEW locks, NEW r, WriteReturn(Main, locks, r) PROVE UNCHANGED buf
  BY <1>7 DEF WriteReturn
<1>8. \/ \E locks, r : WriteReturn(Main, locks, r) /\ UNCHANGED disk
      \/ /\ n > 0 /\ (inode[i].size = 0 => FreeBlocks # {})
         /\ inode' = [inode EXCEPT ![i] = [@ EXCEPT !.block = b, !.size = NewSize(i, off + n)]]
         /\ data' = [a \in DOMAIN data |-> LET k == a - Address(b, off)
                                           IN IF k \in 0 .. n - 1 THEN want[k + 1] ELSE data[a]]
         /\ oft' = [oft EXCEPT ![d].off = off + n]
         /\ \E locks, r : WriteReturn(Main, locks, r)
         /\ UNCHANGED dir
      \/ Crash("undefined")
  BY <1>1, <1>4, <1>5, <1>6 DEF WriteData
<1>9. ASSUME n > 0, inode[i].size = 0 => FreeBlocks # {},
             inode' = [inode EXCEPT ![i] = [@ EXCEPT !.block = b, !.size = NewSize(i, off + n)]],
             data' = [a \in DOMAIN data |-> LET k == a - Address(b, off)
                                            IN IF k \in 0 .. n - 1 THEN want[k + 1] ELSE data[a]],
             oft' = [oft EXCEPT ![d].off = off + n], UNCHANGED <<dir, buf>>
      PROVE  FlatStep
  <2>0. inode \in [Inodes -> InodeRecords] /\ inode[i] \in InodeRecords /\ i \in takenI
    BY <1>2, IInvDisk DEF DiskOK, Live
  <2>1. PICK end \in Nat : end = off + n
    BY <1>9
  <2>2. PICK size : size = NewSize(i, end)
    OBVIOUS
  <2>3. size \in 1 .. BlockSize /\ size = Max2(inode[i].size, end) /\ BlockSize \in Nat \ {0}
    BY <1>2, <1>5, <1>9, <2>1, <2>2, Sizes DEF NewSize, Max2
  <2>4. inode'[i].size = size /\ inode'[i].block = b /\ inode'[i].type = "FILE" /\ \A j : j # i => inode'[j] = inode[j]
    <3>1. inode'[i] = [inode[i] EXCEPT !.block = b, !.size = size]
      BY <1>9, <2>0, <2>1, <2>2
    <3>2. \A j : j # i => inode'[j] = inode[j]
      BY <1>9, <2>0
    <3> QED
      BY <1>2, <2>0, <3>1, <3>2 DEF InodeRecords
  <2>5. b \in Blocks
    <3>1. CASE inode[i].size = 0
      BY <1>6, <1>9, <3>1, FirstFree DEF FreeBlocks
    <3>2. CASE inode[i].size # 0
      <4>1. inode[i].size > 0
        BY <1>2, <2>3, <3>2
      <4> QED
        BY <1>0, <1>6, <2>0, <3>2, <4>1, BlockExists
    <3> QED
      BY <3>1, <3>2
  <2>6. /\ DOMAIN data' = DOMAIN data
        /\ \A a \in DOMAIN data : data'[a] = data[a] \/ \E k \in 0 .. BlockSize - 1 : a = Address(b, k)
        /\ \A k \in 1 .. BlockSize :
             /\ k \in off + 1 .. end => Cell(b, k - 1)' = want[k - off]
             /\ k \notin off + 1 .. end => Cell(b, k - 1)' = Cell(b, k - 1)
    <3>1. n \in Nat \ {0} /\ off + n <= BlockSize
      BY <1>5, <1>9
    <3>2. data' = [a \in DOMAIN data |-> LET k == a - Address(b, off)
                                        IN IF k \in 0 .. n - 1 THEN want[k + 1] ELSE data[a]]
      BY <1>9
    <3>3. /\ DOMAIN data' = DOMAIN data
          /\ \A a \in DOMAIN data : data'[a] = data[a] \/ \E k \in 0 .. BlockSize - 1 : a = Address(b, k)
          /\ \A k \in 1 .. BlockSize :
               /\ k \in off + 1 .. off + n => Cell(b, k - 1)' = want[k - off]
               /\ k \notin off + 1 .. off + n => Cell(b, k - 1)' = Cell(b, k - 1)
      BY <2>5, <3>1, <3>2, CellsWritten
    <3> QED
      BY <2>1, <3>3
  <2>7. ASSUME NEW j \in Inodes, Linked(j), j # i PROVE Contents(j)' = Contents(j)
    <3>1. inode[j].size > 0 => inode[j].block # b
      <4>1. j \in takenI
        BY <2>7, LinkedLive DEF Directory, Live
      <4>2. inode[j].size > 0 => inode[j].block \in takenB
        BY <1>0, <4>1 DEF FilesKept, BlocksUsed, Settled, HasBlock
      <4>3. CASE inode[i].size = 0
        <5>1. b \notin takenB
          BY <1>6, <1>9, <4>3, FirstFree DEF FreeBlocks
        <5> QED
          BY <4>2, <5>1
      <4>4. CASE inode[i].size # 0
        <5>1. inode[i].size > 0 /\ b = inode[i].block
          BY <1>2, <1>6, <2>3, <4>4
        <5> QED
          BY <1>0, <2>0, <2>7, <4>1, <5>1 DEF FilesKept, BlocksUsed, Settled, HasBlock
      <4> QED
        BY <4>3, <4>4
    <3> QED
      BY <1>0, <2>4, <2>5, <2>6, <2>7, <3>1, OthersKept
  <2>8. PICK old : old = Cells(i)
    OBVIOUS
  <2>9. old \in Seq(CellValues) /\ Len(old) = inode[i].size /\ Body[i] # None /\ Body[i].kind = "FILE" /\ Body[i].cells = old
    BY <1>2, <2>8, BodyFields
  <2>10. PICK cells : cells = SubSeq(want, 1, n)
    OBVIOUS
  <2>11. /\ cells \in Seq(Data) /\ cells \in Seq(CellValues) /\ Len(cells) = n
         /\ \A k \in 1 .. n : cells[k] = want[k]
    <3>1. \A k \in 1 .. n : want[k] \in Data
      <4> TAKE k \in 1 .. n
      <4>1. k \in 1 .. Len(want)
        BY <1>4, <1>5
      <4> QED
        BY <1>4, <4>1
    <3>2. cells \in Seq(Data) /\ (Len(cells) = IF 1 <= n THEN n - 1 + 1 ELSE 0)
          /\ \A k \in 1 .. n - 1 + 1 : cells[k] = want[1 + k - 1]
      BY <2>10, <3>1, SubSeqProperties
    <3>3. cells \in Seq(CellValues)
      <4>1. \A k \in 1 .. n : want[k] \in CellValues
        BY <3>1 DEF CellValues
      <4> QED
        BY <2>10, <4>1, SubSeqProperties
    <3> QED
      BY <1>9, <3>2, <3>3
  <2>12. PICK new : new = [k \in 1 .. size |-> Cell(b, k - 1)']
    OBVIOUS
  <2>13. Contents(i)' = Flat!FileNode(new)
    BY <2>4, <2>12 DEF Contents, Flat!FileNode
  <2>14. new \in Seq(CellValues) /\ Len(new) = size
    <3>1. \A k \in 1 .. size : new[k] \in CellValues
      <4> TAKE k \in 1 .. size
      <4>1. k \in 1 .. BlockSize /\ new[k] = Cell(b, k - 1)'
        BY <2>3, <2>12
      <4>2. CASE k \in off + 1 .. end
        <5>1. k - off \in 1 .. n
          BY <2>1, <4>2
        <5>2. want[k - off] \in CellValues
          BY <2>11, <5>1 DEF CellValues
        <5> QED
          BY <2>6, <4>1, <4>2, <5>2
      <4>3. CASE k \notin off + 1 .. end
        BY <2>6, <4>1, <4>3, IInvDisk, CellType
      <4> QED
        BY <4>2, <4>3
    <3>2. size \in Nat /\ DOMAIN new = 1 .. size
      BY <2>3, <2>12
    <3>3. new \in [1 .. size -> CellValues]
      BY <2>12, <3>1, <3>2
    <3> QED
      BY <3>2, <3>3
  <2>15. new = Spliced(old, cells, off, end)
    <3>1. ASSUME NEW k \in 1 .. Len(new)
          PROVE  PutsAt(k, new, cells, off, end) /\ KeepsAt(k, new, old, off, end)
      <4>1. k \in 1 .. BlockSize /\ new[k] = Cell(b, k - 1)'
        BY <2>3, <2>12, <2>14
      <4>2. CASE k \in off + 1 .. end
        <5>1. k - off \in 1 .. n
          BY <2>1, <4>2
        <5> QED
          BY <2>6, <2>11, <4>1, <4>2, <5>1 DEF PutsAt, KeepsAt
      <4>3. CASE k \notin off + 1 .. end
        <5>1. k \in 1 .. inode[i].size
          BY <1>2, <2>1, <2>3, <2>14, <4>3 DEF Max2
        <5>2. inode[i].size # 0
          BY <5>1
        <5>3. old[k] = Cell(b, k - 1)
          BY <1>6, <2>8, <5>1, <5>2 DEF Cells
        <5> QED
          BY <2>6, <4>1, <4>3, <5>3 DEF PutsAt, KeepsAt
      <4> QED
        BY <4>2, <4>3
    <3>2. off \in 0 .. Len(old)
      BY <1>2, <2>9
    <3>3. Len(new) = Max2(Len(old), end) /\ end = off + Len(cells)
      BY <2>1, <2>3, <2>9, <2>11, <2>14
    <3>4. old \in Seq(CellValues) /\ cells \in Seq(CellValues) /\ new \in Seq(CellValues)
      BY <2>9, <2>11, <2>14
    <3> QED
      <4>1. PICK o \in Seq(CellValues), c \in Seq(CellValues), w \in Seq(CellValues) :
                   o = old /\ c = cells /\ w = new
        BY <3>4
      <4>2. OverwrittenBy(w, o, c, off, end)
        <5>1. OverwrittenBy(new, old, cells, off, end)
          BY <3>1, <3>2, <3>3, Zenon DEF OverwrittenBy
        <5> QED
          BY <4>1, <5>1
      <4>3. w = Spliced(o, c, off, end)
        BY <4>2, Overwritten, Zenon
      <4> QED
        BY <4>1, <4>3
  <2>16. Body' = [Body EXCEPT ![i] = Flat!FileNode(new)]
    BY <1>2, <1>9, <2>7, <2>13 DEF Body, Linked, EntriesTo
  <2>17. n \in 1 .. BlockSize /\ cells \in [1 .. n -> Data]
    BY <1>5, <1>9, <2>3, <2>11
  <2>18. end <= BlockSize /\ off <= Len(old) /\ end = off + Len(cells) /\ oft[d].inum = i /\ oft[d].off = off
    BY <1>1, <1>2, <1>5, <2>1, <2>9, <2>11
  <2>19. Tree' = Tree /\ UNCHANGED buf /\ oft' = [oft EXCEPT ![d].off = end]
    BY <1>9, <2>1, TreeKept
  <2>20. Body' = [Body EXCEPT ![i] = Flat!FileNode(
                    SubSeq(old, 1, off) \o cells \o SubSeq(old, end + 1, Len(old)))]
    BY <2>15, <2>16 DEF Spliced
  <2>21. Flat!FlatNext /\ Flat!WriteFile(d, cells)
    BY <1>2, <2>9, <2>17, <2>18, <2>19, <2>20, FlatWrites
  <2>22. Op(Main) = "write" /\ frame[Main].call.fd = d /\ cells = SubSeq(frame[Main].call.cells, 1, n)
         /\ n \in 1 .. BlockSize /\ n <= Len(frame[Main].call.cells)
    BY <1>0, <1>1, <1>4, <1>5, <2>10, <2>17 DEF Fd
  <2> QED
    BY <2>21, <2>22 DEF FlatStep, Flat!Effect, Op
<1> QED
  BY <1>7, <1>8, <1>9, BufferStays, QuietFlat


-----------------------------------------------------------------------------
(* The refinement *)

\* A call has one operation.
LEMMA UnderwayElsewhere ==
  ASSUME pc'[Main] \notin {"type", "name", "add", "offset"}
  PROVE  Underway'
  BY DEF Underway

\* The same tables, at the same place of the same operation.
LEMMA UnderwayStays ==
  ASSUME Underway, UNCHANGED disk, UNCHANGED <<pc, frame>>
  PROVE  Underway'
<1>1. UNCHANGED <<inode, dir, oft, data>>
  BY DEF disk
<1>2. Tree' = Tree /\ \A b, k : Cell(b, k)' = Cell(b, k)
  BY <1>1, TreeKept DEF Cell
<1>3. Op(Main)' = Op(Main) /\ I(Main)' = I(Main) /\ File(Main)' = File(Main)
  BY <1>1 DEF Op, I, File, Fd
<1> QED
  BY <1>1, <1>2, <1>3 DEF Underway

\* What an operation has found out or written stays so until it is visible.
LEMMA StepUnderway ==
  ASSUME IInv, Directory, FilesKept, Underway, Step(Main) \/ Begin(Main)
  PROVE  Underway'
<1>0. ASSUME NEW how, Crash(how) PROVE Underway'
  BY <1>0, UnderwayStays DEF Crash
<1>1. ASSUME NEW locks, Leave(Main, locks) PROVE Underway'
  BY <1>1, MainLeaves, UnderwayElsewhere
<1>2. ASSUME NEW l, NEW f, Goto(Main, l, f), l \notin {"type", "name", "add", "offset"} PROVE Underway'
  BY <1>2, MainGoes, UnderwayElsewhere
<1>3. ASSUME NEW c, NEW l, Call(Main, c, l), l \notin {"type", "name", "add", "offset"} PROVE Underway'
  <2>1. pc'[Main] = l
    BY <1>3, TfsAssumption DEF Call, IInv, Typed
  <2> QED
    BY <1>3, <2>1, UnderwayElsewhere
<1>4. CASE LinkLookup(Main)
  <2>1. CASE Lookup(frame[Main].call.target) = None
    BY <1>0, <1>1, <1>4, <2>1 DEF LinkLookup, Fail, Return
  <2>2. CASE Lookup(frame[Main].call.target) # None
    <3>0. pc[Main] = "lookup" /\ Op(Main) = "link"
      BY <1>4 DEF LinkLookup, At
    <3>1. PICK m \in Names : m = frame[Main].call.target
      BY <3>0, Now, CallFields, TfsAssumption DEF Op
    <3>2. PICK i : i = Lookup(m)
      OBVIOUS
    <3>3. pc'[Main] = "type" /\ frame'[Main] = [frame[Main] EXCEPT !.inum = i] /\ UNCHANGED dir
      BY <1>4, <2>2, <3>1, <3>2, MainGoes DEF LinkLookup, disk
    <3>4. Tree[m] = i
      BY <2>2, <3>1, <3>2, IInvDisk, LookupFinds DEF Directory, Tree
    <3>5. I(Main)' = i /\ frame'[Main].call.target = m /\ Op(Main)' = "link"
      BY <3>0, <3>1, <3>3, Inside, TfsAssumption DEF I, Op, Frames
    <3>6. Tree' = Tree
      BY <3>3, TreeKept
    <3>7. Tree'[m] = i
      BY <3>4, <3>6
    <3> QED
      BY <3>3, <3>5, <3>7 DEF Underway
  <2> QED
    BY <2>1, <2>2
<1>5. CASE LinkType(Main) \/ LinkName(Main)
  <2>0. pc[Main] \in {"type", "name"} /\ Op(Main) = "link"
    BY <1>5 DEF LinkType, LinkName, At
  <2>1. ASSUME NEW l \in {"name", "add"}, Goto(Main, l, frame[Main]), UNCHANGED disk
        PROVE  Underway'
    <3>1. pc'[Main] = l /\ frame'[Main] = frame[Main] /\ Tree' = Tree
      BY <2>1, MainGoes, TreeKept DEF disk
    <3> QED
      BY <2>0, <2>1, <3>1 DEF Underway, I, Op
  <2> QED
    BY <1>1, <1>5, <2>1 DEF LinkType, LinkName, Fail, Return
<1>6. CASE SymWrite(Main)
  <2>0. pc[Main] = "created" /\ Op(Main) = "symlink"
    BY <1>6 DEF SymWrite, At
  <2>1. PICK i \in Inodes : i = I(Main)
    BY <2>0, Now, TfsAssumption DEF WithInode
  <2>2. PICK b : b = inode[i].block
    OBVIOUS
  <2>3. CASE b = None
    BY <1>0, <1>6, <2>1, <2>2, <2>3 DEF SymWrite
  <2>4. CASE b # None
    <3>1. /\ pc'[Main] = "add" /\ frame'[Main] = frame[Main]
          /\ data' = [data EXCEPT ![Address(b, 0)] = frame[Main].call.target]
          /\ inode' = [inode EXCEPT ![i].size = 1]
      BY <1>6, <2>1, <2>2, <2>4, MainGoes DEF SymWrite
    <3>2. i \in takenI /\ inode[i].size = 1
      BY <2>0, <2>1 DEF Directory, NewInode, FilesKept, NodeSizes, Creating
    <3>3. b \in Blocks
      BY <2>0, <2>2, <3>2, BlockExists
    <3>4. 0 \in 0 .. BlockSize - 1
      BY Sizes
    <3>5. Address(b, 0) \in DOMAIN data
      BY <3>3, <3>4, CellsThere
    <3>6. Cell(b, 0)' = frame[Main].call.target
      BY <3>1, <3>5 DEF Cell
    <3>7. inode'[i].block = b
      BY <2>2, <3>1, IInvDisk DEF DiskOK, InodeRecords
    <3>8. I(Main)' = i /\ Op(Main)' = "symlink"
      BY <2>0, <2>1, <3>1 DEF I, Op
    <3> QED
      BY <3>1, <3>6, <3>7, <3>8 DEF Underway
  <2> QED
    BY <2>3, <2>4
<1>7. CASE ReadCopy(Main)
  <2>0. pc[Main] = "copy" /\ Op(Main) = "read"
    BY <1>7 DEF ReadCopy, At
  <2>1. PICK n : n = frame[Main].tmp
    OBVIOUS
  <2>2. PICK off : off = File(Main).off
    OBVIOUS
  <2>3. PICK b : b = inode[File(Main).inum].block
    OBVIOUS
  <2>4. /\ pc'[Main] = "offset" /\ UNCHANGED disk
        /\ frame'[Main] = [frame[Main] EXCEPT !.other = off,
                             !.got = [k \in 1 .. n |-> Cell(b, off + k - 1)]]
    BY <1>7, <2>1, <2>2, <2>3, MainGoes DEF ReadCopy
  <2>5. frame'[Main].got = [k \in 1 .. n |-> Cell(b, off + k - 1)] /\ frame'[Main].tmp = n
        /\ frame'[Main].call = frame[Main].call
    BY <2>1, <2>4, Inside, TfsAssumption DEF Frames
  <2>6. UNCHANGED <<inode, oft, data>>
    BY <2>4 DEF disk
  <2>7. File(Main)' = File(Main) /\ Op(Main)' = "read"
    BY <2>0, <2>5, <2>6 DEF File, Fd, Op
  <2>8. File(Main)'.off = off /\ inode'[File(Main)'.inum].block = b /\ \A c, k : Cell(c, k)' = Cell(c, k)
    BY <2>2, <2>3, <2>6, <2>7 DEF Cell
  <2> QED
    BY <2>4, <2>5, <2>7, <2>8 DEF Underway
<1>8. CASE Begin(Main)
  <2>1. pc'[Main] \in {"idle", "lookup", "entry"}
    BY <1>8, TfsAssumption DEF Begin, IInv, Typed
  <2> QED
    BY <2>1, UnderwayElsewhere
<1>9. CASE Open(Main)
  <2>1. CASE OpenLookup(Main) \/ OpenRelock(Main)
    BY <1>0, <1>1, <1>2, <2>1 DEF OpenLookup, OpenRelock, Fail, Return
  <2>2. CASE OpenLock(Main)
    BY <1>0, <1>1, <1>2, <2>2 DEF OpenLock, Fail, Return
  <2>3. CASE OpenPublish(Main) \/ OpenAddFile(Main)
    BY <1>1, <1>2, <2>3 DEF OpenPublish, OpenAddFile, Fail, Return
  <2> QED
    BY <1>9, <2>1, <2>2, <2>3 DEF Open
<1>10. CASE InodeCreate(Main)
  BY <1>0, <1>1, <1>2, <1>10 DEF InodeCreate, InodeAlloc, InodeInit, InodeFinish, Abort, Fail, Return
<1>11. CASE SymLookup(Main) \/ SymTarget(Main) \/ SymAdd(Main)
  BY <1>1, <1>2, <1>11 DEF SymLookup, SymTarget, SymAdd, Fail, Return
<1>12. CASE LinkAdd(Main) \/ LinkRead(Main) \/ LinkWrite(Main)
  BY <1>1, <1>2, <1>12 DEF LinkAdd, LinkRead, LinkWrite, Fail, Return
<1>13. CASE Unlink(Main)
  BY <1>0, <1>1, <1>2, <1>13 DEF Unlink, UnlinkLookup, UnlinkClear, UnlinkRead, UnlinkDrop, Fail, Return
<1>14. CASE Close(Main) \/ Write(Main)
  BY <1>0, <1>1, <1>2, <1>14 DEF Close, Write, WriteEntry, WriteData, WriteReturn, Fail, Return
<1>15. CASE ReadEntry(Main) \/ ReadSize(Main) \/ ReadOffset(Main)
  BY <1>0, <1>1, <1>2, <1>15 DEF ReadEntry, ReadSize, ReadOffset, Fail, Return
<1>16. CASE Copy(Main)
  <2>1. CASE CopyStart(Main) \/ CopyChunk(Main) \/ CopyClose(Main)
    BY <1>1, <1>3, <2>1 DEF CopyStart, CopyChunk, CopyClose, Fail, Return
  <2>2. CASE CopyRefused(Main) \/ CopyReturn(Main)
    BY <2>2, UnderwayElsewhere DEF CopyRefused, CopyReturn, Between
  <2> QED
    BY <1>16, <2>1, <2>2 DEF Copy
<1> QED
  BY <1>4, <1>5, <1>6, <1>7, <1>8, <1>9, <1>10, <1>11, <1>12, <1>13, <1>14, <1>15, <1>16
  DEF Step, SymLink, Link, Read

\* The process dies: the call and its tables stay.
LEMMA AskingStays ==
  ASSUME Asking, UNCHANGED disk, UNCHANGED <<pc, frame>>
  PROVE  Asking'
<1>1. UNCHANGED <<inode, dir>>
  BY DEF disk
<1>2. Tree' = Tree
  BY <1>1, TreeKept
<1> QED
  BY <1>1, <1>2 DEF Asking, Leads, Op, I

\* Labels at which Asking says nothing.
Silent == {"idle", "lookup", "entry", "abort", "target", "add", "type", "name", "read", "write", "clear", "drop",
           "data", "size"}

\* An operation keeps to what its call asks for.
LEMMA StepAsking ==
  ASSUME IInv, Directory, FilesKept, Asking, Step(Main) \/ Begin(Main)
  PROVE  Asking'
<1>0. ASSUME NEW how, Crash(how) PROVE Asking'
  BY <1>0, AskingStays DEF Crash
<1>1. ASSUME pc'[Main] \in Silent PROVE Asking'
  BY <1>1 DEF Asking, Silent
<1>2. ASSUME NEW locks, Leave(Main, locks) PROVE Asking'
  BY <1>1, <1>2, MainLeaves DEF Silent
<1>3. ASSUME NEW l \in Silent, NEW f, Goto(Main, l, f) PROVE Asking'
  BY <1>1, <1>3, MainGoes
<1>4. ASSUME NEW c, NEW l \in Silent, Call(Main, c, l) PROVE Asking'
  <2>1. pc'[Main] = l
    BY <1>4, TfsAssumption DEF Call, IInv, Typed
  <2> QED
    BY <1>1, <1>4, <2>1
<1>5. ASSUME NEW l \in {"alloc", "init", "finish", "created"}, NEW f, Goto(Main, l, f),
             f.call.op = "open" => "CREAT" \in f.call.mode
      PROVE  Asking'
  <2>1. pc'[Main] = l /\ frame'[Main] = f
    BY <1>5, MainGoes
  <2> QED
    BY <1>5, <2>1 DEF Asking, Op
<1>6. CASE OpenLookup(Main)
  <2>0. pc[Main] = "lookup" /\ Op(Main) = "open"
    BY <1>6 DEF OpenLookup, At
  <2>1. PICK n \in Names : n = frame[Main].call.name
    BY <2>0, CalledName
  <2>2. PICK i : i = Lookup(n)
    OBVIOUS
  <2>3. CASE i # None
    <3>1. pc'[Main] = "lock" /\ frame'[Main] = [frame[Main] EXCEPT !.inum = i] /\ UNCHANGED dir
      BY <1>6, <2>1, <2>2, <2>3, MainGoes DEF OpenLookup, disk
    <3>2. Tree[n] = i
      BY <2>2, <2>3, IInvDisk, LookupFinds DEF Directory, Tree
    <3>3. I(Main)' = i /\ frame'[Main].call.name = n
      BY <2>1, <3>1, Inside, TfsAssumption DEF I, Frames
    <3>4. Tree' = Tree
      BY <3>1, TreeKept
    <3>5. Leads(n, i)'
      BY <2>3, <3>2, <3>4 DEF Leads
    <3> QED
      BY <3>1, <3>3, <3>5 DEF Asking
  <2>4. CASE i = None
    BY <1>2, <1>5, <1>6, <2>0, <2>1, <2>2, <2>4 DEF OpenLookup, Fail, Return, Op
  <2> QED
    BY <2>3, <2>4
<1>7. CASE OpenLock(Main)
  <2>0. pc[Main] = "lock" /\ Op(Main) = "open"
    BY <1>7 DEF OpenLock, At
  <2>1. PICK i \in Inodes : i = I(Main)
    BY <2>0, Now, TfsAssumption DEF WithInode
  <2>2. PICK n \in Names : n = frame[Main].call.name
    BY <2>0, CalledName
  <2>3. Leads(n, i) /\ frame[Main] \in Frames
    BY <2>0, <2>1, <2>2, Inside, TfsAssumption DEF Asking
  <2>4. CASE inode[i].type = "SYMLINK"
    <3>1. \/ \E how : Crash(how)
          \/ \E locks : Leave(Main, locks)
          \/ \E j : Goto(Main, "lock", [frame[Main] EXCEPT !.inum = j, !.other = i]) /\ UNCHANGED disk
      BY <1>7, <2>1, <2>4 DEF OpenLock, Fail, Return
    <3>2. ASSUME NEW j, Goto(Main, "lock", [frame[Main] EXCEPT !.inum = j, !.other = i]), UNCHANGED disk
          PROVE  Asking'
      <4>1. pc'[Main] = "lock" /\ frame'[Main] = [frame[Main] EXCEPT !.inum = j, !.other = i]
        BY <3>2, MainGoes
      <4>2. I(Main)' = j /\ frame'[Main].call.name = n
        BY <2>2, <2>3, <4>1 DEF I, Frames
      <4>3. Tree' = Tree /\ inode' = inode
        BY <3>2, TreeKept DEF disk
      <4>4. Leads(n, j)'
        BY <2>3, <2>4, <4>3 DEF Leads
      <4> QED
        BY <4>1, <4>2, <4>4 DEF Asking
    <3> QED
      BY <1>0, <1>2, <3>1, <3>2
  <2>5. CASE inode[i].type # "SYMLINK"
    <3>1. PICK m : m = InitialOffset(frame[Main].call, inode'[i].size)
      OBVIOUS
    <3>2. /\ Goto(Main, "addfile", [frame[Main] EXCEPT !.other = None, !.tmp = m])
          /\ inode' = [inode EXCEPT ![i].size = 0] \/ inode' = inode
          /\ UNCHANGED dir
      BY <1>7, <2>1, <2>5, <3>1 DEF OpenLock
    <3>3. pc'[Main] = "addfile" /\ frame'[Main] = [frame[Main] EXCEPT !.other = None, !.tmp = m]
      BY <3>2, MainGoes
    <3>4. I(Main)' = i /\ frame'[Main].call = frame[Main].call /\ frame'[Main].tmp = m
      BY <2>1, <2>3, <3>3 DEF I, Frames
    <3>5. "APPEND" \notin frame[Main].call.mode => m = 0
      BY <3>1 DEF InitialOffset
    <3>6. Tree' = Tree
      BY <3>2, TreeKept
    <3>7. \A j \in Inodes : inode'[j].type = inode[j].type
      BY <3>2, IInvDisk DEF DiskOK, InodeRecords
    <3>8. Tree[n] \in Inodes
      BY <2>3, TreeEntry DEF Leads
    <3>9. Leads(n, i)'
      BY <2>3, <3>6, <3>7, <3>8 DEF Leads
    <3> QED
      BY <2>2, <3>3, <3>4, <3>5, <3>9 DEF Asking
  <2> QED
    BY <2>4, <2>5
<1>8. CASE OpenPublish(Main)
  <2>0. pc[Main] = "created" /\ Op(Main) = "open" /\ Creating
    BY <1>8 DEF OpenPublish, At, Creating
  <2>1. CASE FreeEntries = {}
    BY <1>3, <1>8, <2>1 DEF OpenPublish, Silent
  <2>2. CASE FreeEntries # {}
    <3>1. PICK i \in Inodes : i = I(Main)
      BY <2>0, Now, TfsAssumption DEF WithInode
    <3>2. PICK n \in Names : n = frame[Main].call.name
      BY <2>0, CalledName
    <3>3. EntriesFor(n) = {}
      BY <2>0, <3>2 DEF Directory, NewName
    <3>4. AddDirEntry(n, i) /\ UNCHANGED <<inode, data>> /\ Goto(Main, "addfile", frame[Main])
      BY <1>8, <2>2, <3>1, <3>2 DEF OpenPublish
    <3>5. Tree' = [Tree EXCEPT ![n] = i]
      BY <2>2, <3>3, <3>4, NameAdded
    <3>6. Tree'[n] = i /\ i # None
      BY <3>5, Sizes DEF Tree, Inodes
    <3>7. Leads(n, i)'
      BY <3>6 DEF Leads
    <3>8. pc'[Main] = "addfile" /\ frame'[Main] = frame[Main]
      BY <3>4, MainGoes
    <3>9. frame[Main].tmp = 0
      BY <2>0 DEF FilesKept, Opening
    <3> QED
      BY <3>1, <3>2, <3>7, <3>8, <3>9 DEF Asking, I
  <2> QED
    BY <2>1, <2>2
<1>9. CASE InodeCreate(Main)
  <2>1. CASE Abort(Main)
    BY <1>0, <1>2, <2>1 DEF Abort, Return
  <2>2. CASE InodeAlloc(Main)
    <3>1. pc[Main] = "alloc" /\ (\/ \E locks : Leave(Main, locks)
                                \/ \E i : Goto(Main, "init", [frame[Main] EXCEPT !.inum = i]))
      BY <2>2 DEF InodeAlloc, Fail, Return
    <3>2. \A i : [frame[Main] EXCEPT !.inum = i].call = frame[Main].call
      BY Inside, TfsAssumption DEF Frames
    <3> QED
      BY <1>2, <1>5, <3>1, <3>2 DEF Asking, Op
  <2>3. CASE InodeInit(Main) \/ InodeFinish(Main)
    BY <1>3, <1>5, <2>3 DEF InodeInit, InodeFinish, Asking, Op, Silent
  <2> QED
    BY <1>9, <2>1, <2>2, <2>3 DEF InodeCreate
<1>10. CASE SymLink(Main)
  <2>1. CASE SymTarget(Main)
    BY <1>2, <1>5, <2>1 DEF SymTarget, At, Op, Fail, Return
  <2>2. CASE SymLookup(Main) \/ SymWrite(Main) \/ SymAdd(Main)
    BY <1>0, <1>2, <1>3, <2>2 DEF SymLookup, SymWrite, SymAdd, Fail, Return, Silent
  <2> QED
    BY <1>10, <2>1, <2>2 DEF SymLink
<1>11. CASE Read(Main)
  <2>1. CASE ReadSize(Main)
    <3>0. pc[Main] = "size" /\ Op(Main) = "read"
      BY <2>1 DEF ReadSize, At
    <3>1. PICK n : n = ToRead(Main)
      OBVIOUS
    <3>2. CASE Goto(Main, "copy", [frame[Main] EXCEPT !.tmp = n])
      <4>1. pc'[Main] = "copy" /\ frame'[Main] = [frame[Main] EXCEPT !.tmp = n]
        BY <3>2, MainGoes
      <4>2. frame'[Main].tmp = n /\ frame'[Main].call = frame[Main].call
        BY <4>1, Inside, TfsAssumption DEF Frames
      <4>3. n <= frame[Main].call.len
        <5>1. frame[Main].call.len \in Nat
          BY <3>0, Now, CallFields, TfsAssumption DEF Op
        <5>2. /\ inode[File(Main).inum].size \in Nat /\ File(Main).off \in Nat
          BY <3>0, HandleFile, Sizes DEF WithFd, OnHandle
        <5>3. (inode[File(Main).inum].size - File(Main).off) % Word \in Nat
          BY <5>2, TfsAssumption, Sizes
        <5> QED
          BY <3>1, <5>1, <5>3 DEF ToRead, Min2
      <4> QED
        BY <4>1, <4>2, <4>3 DEF Asking
    <3> QED
      BY <1>0, <1>2, <2>1, <3>1, <3>2 DEF ReadSize
  <2>2. CASE ReadCopy(Main)
    <3>1. PICK off, got : Goto(Main, "offset", [frame[Main] EXCEPT !.other = off, !.got = got])
      BY <2>2 DEF ReadCopy
    <3>2. pc[Main] = "copy"
      BY <2>2 DEF ReadCopy, At
    <3>3. pc'[Main] = "offset" /\ frame'[Main] = [frame[Main] EXCEPT !.other = off, !.got = got]
      BY <3>1, MainGoes
    <3>4. frame'[Main].tmp = frame[Main].tmp /\ frame'[Main].call = frame[Main].call
      BY <3>3, Inside, TfsAssumption DEF Frames
    <3> QED
      BY <3>2, <3>3, <3>4 DEF Asking
  <2>3. CASE ReadEntry(Main) \/ ReadOffset(Main)
    BY <1>2, <1>3, <2>3 DEF ReadEntry, ReadOffset, Fail, Return, Silent
  <2> QED
    BY <1>11, <2>1, <2>2, <2>3 DEF Read
<1>12. CASE Begin(Main)
  <2>1. pc'[Main] \in {"idle", "lookup", "entry"}
    BY <1>12, TfsAssumption DEF Begin, IInv, Typed
  <2> QED
    BY <1>1, <2>1 DEF Silent
<1>13. CASE OpenRelock(Main) \/ OpenAddFile(Main)
  BY <1>0, <1>2, <1>13 DEF OpenRelock, OpenAddFile, Fail, Return
<1>14. CASE Link(Main)
  BY <1>0, <1>2, <1>3, <1>14
     DEF Link, LinkLookup, LinkType, LinkName, LinkAdd, LinkRead, LinkWrite, Fail, Return, Silent
<1>15. CASE Unlink(Main)
  BY <1>0, <1>2, <1>3, <1>15 DEF Unlink, UnlinkLookup, UnlinkClear, UnlinkRead, UnlinkDrop, Fail, Return, Silent
<1>16. CASE Close(Main) \/ Write(Main)
  BY <1>0, <1>2, <1>3, <1>16 DEF Close, Write, WriteEntry, WriteData, WriteReturn, Fail, Return, Silent
<1>17. CASE Copy(Main)
  <2>1. CASE CopyStart(Main) \/ CopyChunk(Main) \/ CopyClose(Main)
    BY <1>2, <1>4, <2>1 DEF CopyStart, CopyChunk, CopyClose, Fail, Return, Silent
  <2>2. CASE CopyRefused(Main) \/ CopyReturn(Main)
    BY <1>1, <2>2 DEF CopyRefused, CopyReturn, Between, Silent
  <2> QED
    BY <1>17, <2>1, <2>2 DEF Copy
<1> QED
  BY <1>6, <1>7, <1>8, <1>9, <1>10, <1>11, <1>12, <1>13, <1>14, <1>15, <1>16, <1>17 DEF Step, Open

\* Every step is a step of the flat file system, or shows nothing.
LEMMA StepFlat ==
  ASSUME IInv, Directory, FilesKept, Underway, Asking, Step(Main) \/ Begin(Main)
  PROVE  FlatStep \/ UNCHANGED Flat!flatVars
<1>1. FlatStep \/ FlatSame
  <2>1. CASE Open(Main)
    BY <2>1, SearchesFlat, OpenLockFlat, OpenPublishFlat, OpenAddFileFlat DEF Open
  <2>2. CASE InodeCreate(Main)
    BY <2>2, InodeCreateFlat
  <2>3. CASE SymLink(Main)
    BY <2>3, SearchesFlat, SymWriteFlat, SymAddFlat DEF SymLink
  <2>4. CASE Link(Main)
    BY <2>4, SearchesFlat, LinkAddFlat, LinksFlat DEF Link
  <2>5. CASE Unlink(Main)
    BY <2>5, SearchesFlat, UnlinkClearFlat, LinksFlat DEF Unlink
  <2>6. CASE Close(Main) \/ Write(Main)
    BY <2>6, CloseFlat, EntriesFlat, WriteDataFlat DEF Write
  <2>7. CASE Read(Main)
    BY <2>7, EntriesFlat, ReadSizeFlat, ReadOffsetFlat DEF Read
  <2>8. CASE Copy(Main) \/ Begin(Main)
    BY <2>8, CopyFlat, SearchesFlat
  <2> QED
    BY <2>1, <2>2, <2>3, <2>4, <2>5, <2>6, <2>7, <2>8 DEF Step
<1> QED
  BY <1>1, FlatStays

\* At first there is no name, no contents and no open file.
LEMMA InitFlat == Init => Underway /\ Asking /\ Flat!FlatInit
<1> SUFFICES ASSUME Init PROVE Underway /\ Asking /\ Flat!FlatInit
  OBVIOUS
<1>1. Underway /\ Asking
  BY TfsAssumption DEF Init, Underway, Asking
<1>2. \A n : EntriesFor(n) = {}
  BY DEF Init, StateInit, EntriesFor, FreeEntry
<1>3. \A i \in Inodes : EntriesTo(i) = {}
  BY Sizes DEF Init, StateInit, EntriesTo, FreeEntry, Inodes
<1>4. Flat!FlatInit
  BY <1>2, <1>3 DEF Init, StateInit, Flat!FlatInit
<1> QED
  BY <1>1, <1>4

\* TecnicoFS implements the flat file system of operations.h, for one careful
\* thread: each step of a tfs_ call makes one change to it, or none, and the
\* change is one that the call asks for.  (What a call returns is not in it: a
\* tfs_open that finds the open file table full leaves the file that it made.)
THEOREM RefinesFlatFs == OneThread /\ Careful => (Spec => ImplementsFlatFs /\ ChangesAsAsked)
<1> SUFFICES ASSUME OneThread, Careful PROVE Spec => ImplementsFlatFs /\ ChangesAsAsked
  OBVIOUS
<1>1. IInv /\ Directory /\ FilesKept /\ Underway /\ Asking /\ [Next]_vars => Underway' /\ Asking'
  <2> SUFFICES ASSUME IInv, Directory, FilesKept, Underway, Asking, [Next]_vars PROVE Underway' /\ Asking'
    OBVIOUS
  <2>1. CASE UNCHANGED vars
    BY <2>1, UnderwayStays, AskingStays DEF vars
  <2>2. ASSUME NEW t \in Threads, Step(t) \/ Begin(t) PROVE Underway' /\ Asking'
    BY <2>2, StepUnderway, StepAsking DEF OneThread
  <2> QED
    BY <2>1, <2>2 DEF Next, Over
<1>2. IInv /\ Directory /\ FilesKept /\ Underway /\ Asking /\ [Next]_vars =>
        /\ [Flat!FlatNext]_Flat!flatVars
        /\ [\E t \in Threads : Flat!Effect(t, frame[t].call)]_Flat!flatVars
  <2> SUFFICES ASSUME IInv, Directory, FilesKept, Underway, Asking, [Next]_vars
               PROVE  FlatStep \/ UNCHANGED Flat!flatVars
    BY TfsAssumption DEF FlatStep
  <2>1. CASE UNCHANGED vars
    <3>1. UNCHANGED disk /\ UNCHANGED buf
      BY <2>1 DEF vars, client
    <3> QED
      BY <3>1, QuietFlat, FlatStays
  <2>2. ASSUME NEW t \in Threads, Step(t) \/ Begin(t) PROVE FlatStep \/ UNCHANGED Flat!flatVars
    BY <2>2, StepFlat DEF OneThread
  <2> QED
    BY <2>1, <2>2 DEF Next, Over
<1> QED
  BY <1>1, <1>2, InitFlat, FilesStayKept, PTL DEF Spec, ImplementsFlatFs, Flat!FlatSpec, ChangesAsAsked

-----------------------------------------------------------------------------
(* tfs_copy_from_external_fs *)

\* What tfs_open goes through when a copy opens its destination.
OpenLabels == {"lookup", "lock", "alloc", "init", "finish", "created", "abort", "addfile"}

\* The file at node i is the first n cells of the source.
Copied(i, n) ==
    inode[i].size = n /\ \A k \in 1 .. n : Cell(inode[i].block, k - 1) = copying[Main].source[k]

\* The destination is opened and truncated.
CopyOpens ==
    pc[Main] \in OpenLabels =>
        /\ Op(Main) = "open" /\ frame[Main].call.mode = CopyMode /\ handle[Main] = None
        /\ copying[Main].returns = None /\ copying[Main].sent = 0 /\ Total(Main) = 0
        /\ pc[Main] = "addfile" => frame[Main].tmp = 0 /\ inode[I(Main)].size = 0

\* A chunk is written behind the ones before it.
CopyWrites ==
    LET c == copying[Main]
    IN pc[Main] \in {"entry", "data"} /\ c.returns = None =>
         /\ Op(Main) = "write" /\ Fd(Main) = handle[Main] /\ File(Main) # None
         /\ c.written = 0 /\ c.total \in Nat /\ c.total < BlockSize
         /\ c.total < c.sent /\ c.sent <= Len(c.source)
         /\ frame[Main].call.cells = SubSeq(c.source, c.total + 1, c.sent)
         /\ File(Main).off = c.total /\ Copied(File(Main).inum, c.total)

\* Between two chunks everything sent is written, as far as the block goes, or
\* nothing is for want of a block.
CopyWaits ==
    LET c == copying[Main]
        file == oft[handle[Main]]
    IN pc[Main] = "idle" /\ handle[Main] # None =>
         /\ file # None /\ c.returns = None /\ file.off = inode[file.inum].size
         /\ \/ /\ c.sent <= Len(c.source) /\ Total(Main) = Min2(c.sent, BlockSize)
               /\ Copied(file.inum, Total(Main))
            \/ /\ c.source # <<>> /\ Total(Main) = -1
               /\ Copied(file.inum, 0) /\ FreeBlocks = {}

\* The destination is closed.
CopyCloses ==
    LET c == copying[Main]
        i == File(Main).inum
    IN c.returns # None =>
         /\ handle[Main] = None
         /\ pc[Main] = "entry" =>
              /\ Op(Main) = "close" /\ File(Main) # None
              /\ c.returns = 0 => \/ Copied(i, Min2(Len(c.source), BlockSize))
                                  \/ c.source # <<>> /\ Copied(i, 0) /\ FreeBlocks = {}

\* How far a copy is, at each step of the calls that it makes.
CopyKept == copying[Main] # None =>
    /\ pc[Main] \in OpenLabels \cup {"idle", "entry", "data"}
    /\ pc[Main] = "data" => copying[Main].returns = None
    /\ CopyOpens /\ CopyWrites /\ CopyWaits /\ CopyCloses

\* Nothing is to be kept without a copy.
LEMMA NoCopy == ASSUME copying'[Main] = None PROVE CopyKept'
  BY DEF CopyKept

\* Only the end of the process, or nothing, happens.
LEMMA CopyStays ==
  ASSUME CopyKept, UNCHANGED <<disk, pc, frame, handle, copying>>
  PROVE  CopyKept'
<1>1. UNCHANGED <<inode, takenB, oft, data>>
  BY DEF disk
<1>2. /\ Op(Main)' = Op(Main) /\ I(Main)' = I(Main) /\ Fd(Main)' = Fd(Main) /\ File(Main)' = File(Main)
      /\ Total(Main)' = Total(Main) /\ FreeBlocks' = FreeBlocks
  BY <1>1 DEF Op, I, Fd, File, Total, FreeBlocks
<1>3. ASSUME NEW i, NEW n PROVE Copied(i, n)' = Copied(i, n)
  BY <1>1 DEF Copied, Cell
<1>4. CopyOpens' = CopyOpens
  BY <1>1, <1>2 DEF CopyOpens
<1>5. CopyWrites' = CopyWrites
  BY <1>1, <1>2, <1>3 DEF CopyWrites
<1>6. CopyWaits' = CopyWaits
  BY <1>1, <1>2, <1>3 DEF CopyWaits
<1>7. CopyCloses' = CopyCloses
  BY <1>1, <1>2, <1>3 DEF CopyCloses
<1> QED
  BY <1>4, <1>5, <1>6, <1>7 DEF CopyKept

\* The process ends.
LEMMA CrashCopy == ASSUME CopyKept, NEW how, Crash(how) PROVE CopyKept'
  BY CopyStays DEF Crash, client

\* tfs_open goes on.
LEMMA OpensOn ==
  ASSUME IInv, CopyKept, copying[Main] # None, pc[Main] \in OpenLabels, NEW l \in OpenLabels, NEW f,
         Goto(Main, l, f), f.call = frame[Main].call, l = "addfile" => f.tmp = 0 /\ inode'[f.inum].size = 0
  PROVE  CopyKept'
<1>1. pc'[Main] = l /\ frame'[Main] = f /\ UNCHANGED <<handle, copying>>
  BY MainGoes
<1>2. Op(Main)' = Op(Main) /\ I(Main)' = f.inum /\ Total(Main)' = Total(Main)
  BY <1>1 DEF Op, I, Total
<1>3. CopyOpens'
  BY <1>1, <1>2 DEF CopyOpens, CopyKept
<1>4. copying[Main].returns = None
  BY DEF CopyKept, CopyOpens
<1>5. l # "idle" /\ l \notin {"entry", "data"}
  BY DEF OpenLabels
<1>6. CopyWrites' /\ CopyWaits' /\ CopyCloses'
  BY <1>1, <1>4, <1>5 DEF CopyWrites, CopyWaits, CopyCloses
<1> QED
  BY <1>1, <1>3, <1>4, <1>6 DEF CopyKept

\* tfs_open fails.
LEMMA OpensNot ==
  ASSUME IInv, CopyKept, copying[Main] # None, pc[Main] \in OpenLabels, NEW locks, Return(Main, locks)
  PROVE  CopyKept'
<1>1. pc'[Main] = "idle" /\ UNCHANGED <<handle, copying>>
  BY MainLeaves DEF Return
<1>2. handle[Main] = None /\ copying[Main].returns = None
  BY DEF CopyKept, CopyOpens
<1>3. "idle" \notin OpenLabels
  BY DEF OpenLabels
<1>4. CopyOpens' /\ CopyWrites' /\ CopyWaits' /\ CopyCloses'
  BY <1>1, <1>2, <1>3 DEF CopyOpens, CopyWrites, CopyWaits, CopyCloses
<1> QED
  BY <1>1, <1>4 DEF CopyKept

\* The destination is found, or it is not.
LEMMA OpenLookupCopy ==
  ASSUME IInv, CopyKept, copying[Main] # None, OpenLookup(Main)
  PROVE  CopyKept'
<1>1. pc[Main] = "lookup" /\ Op(Main) = "open" /\ pc[Main] \in OpenLabels /\ frame[Main] \in Frames
  BY Now, TfsAssumption DEF OpenLookup, At, OpenLabels
<1>2. PICK i : i = Lookup(frame[Main].call.name)
  OBVIOUS
<1>3. [frame[Main] EXCEPT !.inum = i].call = frame[Main].call
  BY <1>1 DEF Frames
<1>4. "lock" \in OpenLabels /\ "alloc" \in OpenLabels
  BY DEF OpenLabels
<1> QED
  BY <1>1, <1>2, <1>3, <1>4, OpensOn, OpensNot DEF OpenLookup, Fail

\* A file is truncated, a symbolic link followed.
LEMMA OpenLockCopy ==
  ASSUME IInv, CopyKept, copying[Main] # None, OpenLock(Main)
  PROVE  CopyKept'
<1>1. pc[Main] = "lock" /\ Op(Main) = "open" /\ pc[Main] \in OpenLabels /\ frame[Main] \in Frames
  BY Now, TfsAssumption DEF OpenLock, At, OpenLabels
<1>2. PICK i \in Inodes : i = I(Main)
  BY <1>1, Now, TfsAssumption DEF WithInode
<1>3. inode \in [Inodes -> InodeRecords] /\ inode[i] \in InodeRecords
  BY IInvDisk DEF DiskOK
<1>4. "lock" \in OpenLabels /\ "addfile" \in OpenLabels
  BY DEF OpenLabels
<1>5. CASE inode[i].type = "SYMLINK"
  <2>1. PICK target : target = Lookup(Cell(inode[i].block, 0))
    OBVIOUS
  <2>2. [frame[Main] EXCEPT !.inum = target, !.other = i].call = frame[Main].call
    BY <1>1 DEF Frames
  <2>3. \/ Crash("assert")
        \/ \E locks : Fail(Main, locks)
        \/ Goto(Main, "lock", [frame[Main] EXCEPT !.inum = target, !.other = i])
    BY <1>2, <1>5, <2>1 DEF OpenLock
  <2> QED
    BY <1>1, <1>4, <2>2, <2>3, CrashCopy, OpensOn, OpensNot DEF Fail
<1>6. CASE inode[i].type = "FILE"
  <2>1. frame[Main].call.mode = {"CREAT", "TRUNC"}
    BY <1>1 DEF CopyKept, CopyOpens, CopyMode
  <2>2. inode' = [inode EXCEPT ![i].size = 0]
    BY <1>2, <1>6, <2>1 DEF OpenLock
  <2>3. inode'[i].size = 0
    BY <1>3, <2>2 DEF InodeRecords
  <2>4. PICK n : n = InitialOffset(frame[Main].call, inode'[i].size)
    OBVIOUS
  <2>5. n = 0
    BY <2>1, <2>4 DEF InitialOffset
  <2>6. PICK f : f = [frame[Main] EXCEPT !.other = None, !.tmp = n]
    OBVIOUS
  <2>7. Goto(Main, "addfile", f)
    BY <1>2, <1>6, <2>4, <2>6 DEF OpenLock
  <2>8. f.call = frame[Main].call /\ f.tmp = n /\ f.inum = i
    BY <1>1, <1>2, <2>6 DEF Frames, I
  <2> QED
    BY <1>1, <1>4, <2>3, <2>5, <2>7, <2>8, OpensOn
<1> QED
  BY <1>3, <1>5, <1>6 DEF InodeRecords

\* A new destination gets its name, and is empty.
LEMMA OpenPublishCopy ==
  ASSUME IInv, FilesKept, CopyKept, copying[Main] # None, OpenPublish(Main)
  PROVE  CopyKept'
<1>1. pc[Main] = "created" /\ Op(Main) = "open" /\ pc[Main] \in OpenLabels
  BY DEF OpenPublish, At, OpenLabels
<1>2. "abort" \in OpenLabels /\ "addfile" \in OpenLabels /\ "abort" # "addfile"
  BY DEF OpenLabels
<1>3. frame[Main].tmp = 0
  BY <1>1 DEF FilesKept, Opening
<1>4. inode[I(Main)].size = 0
  BY <1>1 DEF FilesKept, NodeSizes, Creating
<1>5. \/ Goto(Main, "addfile", frame[Main]) /\ UNCHANGED inode
      \/ Goto(Main, "abort", frame[Main])
  BY DEF OpenPublish
<1> QED
  BY <1>1, <1>2, <1>3, <1>4, <1>5, OpensOn DEF I

\* The destination's inode is made, or it is not.
LEMMA InodeCreateCopy ==
  ASSUME IInv, CopyKept, copying[Main] # None, InodeCreate(Main)
  PROVE  CopyKept'
<1>1. pc[Main] \in {"alloc", "init", "finish", "abort"} /\ pc[Main] \in OpenLabels
  BY DEF InodeCreate, InodeAlloc, InodeInit, InodeFinish, Abort, OpenLabels
<1>2. Op(Main) = "open"
  BY <1>1 DEF CopyKept, CopyOpens
<1>3. frame[Main] \in Frames
  BY <1>2, Now, TfsAssumption
<1>4. {"init", "finish", "created"} \subseteq OpenLabels
  BY DEF OpenLabels
<1>5. CASE InodeAlloc(Main)
  <2>1. [frame[Main] EXCEPT !.inum = First(FreeInodes)].call = frame[Main].call
    BY <1>3 DEF Frames
  <2> QED
    BY <1>1, <1>4, <1>5, <2>1, OpensOn, OpensNot DEF InodeAlloc, Fail
<1>6. CASE InodeInit(Main)
  BY <1>1, <1>2, <1>4, <1>6, OpensOn DEF InodeInit
<1>7. CASE InodeFinish(Main)
  BY <1>1, <1>4, <1>7, OpensOn DEF InodeFinish
<1>8. CASE Abort(Main)
  BY <1>1, <1>8, OpensNot, CrashCopy DEF Abort
<1> QED
  BY <1>5, <1>6, <1>7, <1>8 DEF InodeCreate

\* The destination is open and empty, or it is not open.
LEMMA OpenAddFileCopy ==
  ASSUME IInv, CopyKept, copying[Main] # None, OpenAddFile(Main)
  PROVE  CopyKept'
<1>1. pc[Main] = "addfile" /\ Op(Main) = "open" /\ pc[Main] \in OpenLabels
  BY DEF OpenAddFile, At, OpenLabels
<1>2. frame[Main].tmp = 0 /\ inode[I(Main)].size = 0 /\ copying[Main].returns = None /\ copying[Main].sent = 0
      /\ Total(Main) = 0
  BY <1>1 DEF CopyKept, CopyOpens
<1>3. CASE FreeFds = {}
  BY <1>1, <1>3, OpensNot DEF OpenAddFile, Fail
<1>4. CASE FreeFds # {}
  <2>1. PICK d \in Fds : d = First(FreeFds)
    BY <1>4, FirstFree DEF FreeFds
  <2>2. PICK i \in Inodes : i = I(Main)
    BY <1>1, Now, TfsAssumption DEF WithInode
  <2>3. /\ oft' = [oft EXCEPT ![d] = [inum |-> i, off |-> 0]]
        /\ handle' = [handle EXCEPT ![Main] = d]
        /\ UNCHANGED <<copying, inode, data, takenB>>
    BY <1>2, <1>4, <2>1, <2>2 DEF OpenAddFile, AddToOpenFileTable
  <2>4. pc'[Main] = "idle"
    BY <1>4, MainLeaves DEF OpenAddFile
  <2>5. handle'[Main] = d /\ oft'[d] = [inum |-> i, off |-> 0]
    BY <2>1, <2>3, TfsAssumption DEF IInv, Typed, TypeOK
  <2>6. oft'[d] # None /\ oft'[d].inum = i /\ oft'[d].off = 0
    BY <2>2, <2>5, FileFields, Sizes DEF Files
  <2>7. inode'[i].size = 0 /\ Total(Main)' = 0 /\ copying'[Main] = copying[Main]
    BY <1>2, <2>2, <2>3 DEF Total
  <2>8. Copied(i, 0)'
    BY <2>7 DEF Copied
  <2>9. copying[Main].source \in Seq(Data) /\ Len(copying[Main].source) \in Nat
    BY CopyFields, TfsAssumption
  <2>10. Min2(0, BlockSize) = 0
    BY Sizes DEF Min2
  <2>11. CopyWaits'
    BY <1>2, <2>5, <2>6, <2>7, <2>8, <2>9, <2>10 DEF CopyWaits
  <2>12. CopyOpens' /\ CopyWrites' /\ CopyCloses'
    BY <1>2, <2>4, <2>7 DEF CopyOpens, CopyWrites, CopyCloses, OpenLabels
  <2> QED
    BY <2>4, <2>11, <2>12 DEF CopyKept
<1> QED
  BY <1>3, <1>4

\* The copy writes: it has its handle, and the chunk is locked to it.
LEMMA WriteEntryCopy ==
  ASSUME IInv, CopyKept, copying[Main] # None, WriteEntry(Main)
  PROVE  CopyKept'
<1>1. pc[Main] = "entry" /\ Op(Main) = "write"
  BY DEF WriteEntry, At
<1>2. copying[Main].returns = None
  BY <1>1 DEF CopyKept, CopyCloses
<1>3. CopyWrites /\ File(Main) # None
  BY <1>1, <1>2 DEF CopyKept, CopyWrites
<1>4. pc'[Main] = "data" /\ frame'[Main] = frame[Main] /\ UNCHANGED <<disk, handle, copying>>
  BY <1>3, MainGoes DEF WriteEntry
<1>5. UNCHANGED <<inode, oft, data>>
  BY <1>4 DEF disk
<1>6. Op(Main)' = Op(Main) /\ Fd(Main)' = Fd(Main) /\ File(Main)' = File(Main)
  BY <1>4, <1>5 DEF Op, Fd, File
<1>7. ASSUME NEW i, NEW n PROVE Copied(i, n)' = Copied(i, n)
  BY <1>4, <1>5 DEF Copied, Cell
<1>8. CopyWrites'
  BY <1>1, <1>2, <1>3, <1>4, <1>6, <1>7 DEF CopyWrites
<1>9. CopyOpens' /\ CopyWaits' /\ CopyCloses'
  BY <1>2, <1>4 DEF CopyOpens, CopyWaits, CopyCloses, OpenLabels
<1> QED
  BY <1>2, <1>4, <1>8, <1>9 DEF CopyKept

\* This step writes the first n cells of want to block b at off.
Writes(b, off, n, want) ==
    \A k \in 1 .. BlockSize :
        /\ k \in off + 1 .. off + n => Cell(b, k - 1)' = want[k - off]
        /\ k \notin off + 1 .. off + n => Cell(b, k - 1)' = Cell(b, k - 1)

\* The cells of a chunk are cells of the source.
LEMMA ChunkCells ==
  ASSUME NEW s \in Seq(Data), NEW off \in Nat, NEW sent \in Nat, sent <= Len(s)
  PROVE  \A l \in 1 .. sent - off : SubSeq(s, off + 1, sent)[l] = s[off + l]
<1>1. off + 1 \in Int /\ sent \in Int /\ sent - (off + 1) + 1 = sent - off
  OBVIOUS
<1>2. \A l \in off + 1 .. sent : s[l] \in Data
  OBVIOUS
<1>3. PICK want : want = SubSeq(s, off + 1, sent)
  OBVIOUS
<1>4. \A l \in 1 .. sent - (off + 1) + 1 : want[l] = s[off + 1 + l - 1]
  BY <1>1, <1>2, <1>3, SubSeqProperties
<1>5. ASSUME NEW l \in 1 .. sent - off PROVE want[l] = s[off + l]
  <2>1. l \in 1 .. sent - (off + 1) + 1 /\ off + 1 + l - 1 = off + l
    BY <1>1
  <2> QED
    BY <1>4, <2>1
<1> QED
  BY <1>3, <1>5

\* A chunk written behind n copied cells: the cells of the source up to its end.
LEMMA MoreCopied ==
  ASSUME IInv, NEW i \in Inodes, NEW b \in Blocks, NEW off \in Nat, NEW n \in Nat \ {0}, off + n <= BlockSize,
         Copied(i, off), off > 0 => inode[i].block = b, copying[Main].source \in Seq(Data),
         NEW sent \in Nat, sent <= Len(copying[Main].source), off + n <= sent,
         NEW want, want = SubSeq(copying[Main].source, off + 1, sent),
         Writes(b, off, n, want),
         inode'[i].size = off + n, inode'[i].block = b, copying'[Main].source = copying[Main].source
  PROVE  Copied(i, off + n)'
<1>1. PICK s \in Seq(Data) : s = copying[Main].source
  OBVIOUS
<1>2. \A k \in 1 .. BlockSize :
        /\ k \in off + 1 .. off + n => Cell(b, k - 1)' = want[k - off]
        /\ k \notin off + 1 .. off + n => Cell(b, k - 1)' = Cell(b, k - 1)
  BY DEF Writes
<1>3. \A l \in 1 .. sent - off : want[l] = s[off + l]
  BY <1>1, ChunkCells
<1>4. ASSUME NEW k \in 1 .. off + n PROVE Cell(b, k - 1)' = s[k]
  <2>1. k \in 1 .. BlockSize
    BY Sizes
  <2>2. CASE k \in off + 1 .. off + n
    <3>1. k - off \in 1 .. sent - off /\ off + (k - off) = k
      BY <2>2
    <3>2. want[k - off] = s[k]
      BY <1>3, <3>1
    <3> QED
      BY <1>2, <2>1, <2>2, <3>2
  <2>3. CASE k \notin off + 1 .. off + n
    <3>1. k \in 1 .. off /\ off > 0
      BY <2>3
    <3>2. Cell(b, k - 1) = s[k]
      BY <1>1, <3>1 DEF Copied
    <3> QED
      BY <1>2, <2>1, <2>3, <3>2
  <2> QED
    BY <2>2, <2>3
<1> QED
  BY <1>1, <1>4 DEF Copied

\* The chunk is written up to the end of the block, or no block is free.
LEMMA WriteDataCopy ==
  ASSUME IInv, Directory, FilesKept, CopyKept, copying[Main] # None, WriteData(Main)
  PROVE  CopyKept'
<1>0. pc[Main] = "data" /\ Op(Main) = "write"
  BY DEF WriteData, At
<1>1. PICK d \in Fds, i \in Inodes, off \in Nat : d = Fd(Main) /\ i = File(Main).inum /\ off = File(Main).off
  BY <1>0, HandleFile DEF WithFd, OnHandle
<1>2. oft[d] = File(Main) /\ oft[d] # None /\ Live(i) /\ i \in takenI
  BY <1>0, <1>1, HandleFile DEF WithFd, OnHandle, Live
<1>3. PICK c \in Copies : c = copying[Main]
  BY CopyFields, TfsAssumption
<1>4. PICK sent \in Nat, s \in Seq(Data) : sent = c.sent /\ s = c.source
  BY <1>3 DEF Copies
<1>5. /\ c.returns = None /\ handle[Main] = d /\ c.written = 0 /\ c.total = off
      /\ off < BlockSize /\ off < sent /\ sent <= Len(s) /\ Copied(i, off) /\ inode[i].size = off
      /\ frame[Main].call.cells = SubSeq(s, off + 1, sent)
  BY <1>0, <1>1, <1>3, <1>4 DEF CopyKept, CopyWrites, Copied
<1>6. PICK want : want = SubSeq(s, off + 1, sent)
  OBVIOUS
<1>7. Len(want) = sent - off
  <2>1. off + 1 \in Int /\ sent \in Int /\ off + 1 <= sent /\ sent - (off + 1) + 1 = sent - off
    BY <1>5
  <2>2. \A l \in off + 1 .. sent : s[l] \in Data
    BY <1>5
  <2>3. Len(want) = IF off + 1 <= sent THEN sent - (off + 1) + 1 ELSE 0
    BY <1>6, <2>1, <2>2, SubSeqProperties
  <2> QED
    BY <2>1, <2>3
<1>8. PICK n \in Nat \ {0} : n = WriteCount(Len(want), off) /\ off + n = Min2(sent, BlockSize)
                             /\ off + n <= BlockSize /\ off + n <= sent
  <2>1. BlockSize \in Nat
    BY Sizes
  <2>2. WriteCount(sent - off, off) \in Nat \ {0}
    BY <1>5, <2>1 DEF WriteCount, Min2
  <2>3. off + WriteCount(sent - off, off) = Min2(sent, BlockSize)
    BY <1>5, <2>1 DEF WriteCount, Min2
  <2>4. Min2(sent, BlockSize) <= BlockSize /\ Min2(sent, BlockSize) <= sent
    BY <2>1 DEF Min2
  <2> QED
    BY <1>7, <2>2, <2>3, <2>4
<1>9. PICK b : b = IF inode[i].size = 0 THEN First(FreeBlocks) ELSE inode[i].block
  OBVIOUS
<1>10. \/ /\ inode[i].size = 0 /\ FreeBlocks = {} /\ UNCHANGED disk
          /\ \E locks : WriteReturn(Main, locks, -1)
       \/ /\ inode[i].size = 0 => FreeBlocks # {}
          /\ inode' = [inode EXCEPT ![i] = [@ EXCEPT !.block = b, !.size = NewSize(i, off + n)]]
          /\ data' = [a \in DOMAIN data |-> LET k == a - Address(b, off)
                                            IN IF k \in 0 .. n - 1 THEN want[k + 1] ELSE data[a]]
          /\ oft' = [oft EXCEPT ![d].off = off + n]
          /\ \E locks : WriteReturn(Main, locks, n)
  <2>1. ~ (n = 0) /\ ~ (n < 0)
    OBVIOUS
  <2> QED
    BY <1>1, <1>4, <1>5, <1>6, <1>8, <1>9, <2>1 DEF WriteData
<1>11. ASSUME NEW locks, NEW r, WriteReturn(Main, locks, r)
       PROVE  /\ pc'[Main] = "idle" /\ handle'[Main] = d /\ copying'[Main] = [c EXCEPT !.written = r]
              /\ copying'[Main].source = s /\ copying'[Main].sent = sent /\ copying'[Main].returns = None
              /\ copying'[Main].total = off /\ copying'[Main].written = r
  <2>1. copying \in [Threads -> Copies \cup {None}] /\ Main \in Threads
    BY TfsAssumption DEF IInv, Typed
  <2>2. copying'[Main] = [c EXCEPT !.written = r]
    BY <1>3, <1>11, <2>1 DEF WriteReturn
  <2>3. pc'[Main] = "idle" /\ handle'[Main] = d
    BY <1>5, <1>11, MainLeaves DEF WriteReturn
  <2>4. /\ [c EXCEPT !.written = r].source = c.source /\ [c EXCEPT !.written = r].sent = c.sent
        /\ [c EXCEPT !.written = r].returns = c.returns /\ [c EXCEPT !.written = r].total = c.total
        /\ [c EXCEPT !.written = r].written = r
    BY DEF Copies
  <2> QED
    BY <1>4, <1>5, <2>2, <2>3, <2>4
<1>12. ASSUME pc'[Main] = "idle", copying'[Main].returns = None, CopyWaits' PROVE CopyKept'
  BY <1>12 DEF CopyKept, CopyOpens, CopyWrites, CopyCloses, OpenLabels
<1>13. CASE inode[i].size = 0 /\ FreeBlocks = {} /\ UNCHANGED disk /\ \E locks : WriteReturn(Main, locks, -1)
  <2>1. /\ pc'[Main] = "idle" /\ handle'[Main] = d /\ copying'[Main].source = s
        /\ copying'[Main].returns = None /\ copying'[Main].total = off /\ copying'[Main].written = -1
    BY <1>11, <1>13
  <2>2. UNCHANGED <<inode, oft, takenB>> /\ off = 0
    BY <1>5, <1>13 DEF disk
  <2>3. s # <<>>
    BY <1>5
  <2>4. Total(Main)' = -1
    BY <2>1, <2>2 DEF Total
  <2>5. Copied(i, 0)' /\ FreeBlocks' = {}
    BY <1>13, <2>2 DEF Copied, FreeBlocks
  <2>6. oft'[d] # None /\ oft'[d].off = inode'[i].size /\ oft'[d].inum = i
    BY <1>1, <1>2, <1>5, <2>2
  <2>7. CopyWaits'
    BY <2>1, <2>3, <2>4, <2>5, <2>6 DEF CopyWaits
  <2> QED
    BY <1>12, <2>1, <2>7
<1>14. CASE /\ inode[i].size = 0 => FreeBlocks # {}
            /\ inode' = [inode EXCEPT ![i] = [@ EXCEPT !.block = b, !.size = NewSize(i, off + n)]]
            /\ data' = [a \in DOMAIN data |-> LET k == a - Address(b, off)
                                              IN IF k \in 0 .. n - 1 THEN want[k + 1] ELSE data[a]]
            /\ oft' = [oft EXCEPT ![d].off = off + n]
            /\ \E locks : WriteReturn(Main, locks, n)
  <2>1. /\ pc'[Main] = "idle" /\ handle'[Main] = d /\ copying'[Main].source = s /\ copying'[Main].sent = sent
        /\ copying'[Main].returns = None /\ copying'[Main].total = off /\ copying'[Main].written = n
    BY <1>11, <1>14
  <2>2. inode \in [Inodes -> InodeRecords] /\ inode[i] \in InodeRecords
    BY IInvDisk DEF DiskOK
  <2>3. NewSize(i, off + n) = off + n
    BY <1>5, <1>8 DEF NewSize, Max2
  <2>4. inode'[i] = [inode[i] EXCEPT !.block = b, !.size = off + n]
    BY <1>14, <2>2, <2>3
  <2>5. inode'[i].size = off + n /\ inode'[i].block = b
    BY <2>2, <2>4 DEF InodeRecords
  <2>6. b \in Blocks
    <3>1. CASE inode[i].size = 0
      BY <1>9, <1>14, <3>1, FirstFree DEF FreeBlocks
    <3>2. CASE inode[i].size # 0
      <4>1. inode[i].size > 0 /\ pc[Main] # "init"
        BY <1>0, <1>5, <3>2
      <4> QED
        BY <1>2, <1>9, <3>2, <4>1, BlockExists
    <3> QED
      BY <3>1, <3>2
  <2>7. off > 0 => inode[i].block = b
    BY <1>5, <1>9
  <2>8. Copied(i, off + n)'
    <3>1. copying[Main].source = s
      BY <1>3, <1>4
    <3>2. /\ DOMAIN data' = DOMAIN data
          /\ \A a \in DOMAIN data : data'[a] = data[a] \/ \E k \in 0 .. BlockSize - 1 : a = Address(b, k)
          /\ \A k \in 1 .. BlockSize :
               /\ k \in off + 1 .. off + n => Cell(b, k - 1)' = want[k - off]
               /\ k \notin off + 1 .. off + n => Cell(b, k - 1)' = Cell(b, k - 1)
      <4>1. data' = [a \in DOMAIN data |-> LET k == a - Address(b, off)
                                          IN IF k \in 0 .. n - 1 THEN want[k + 1] ELSE data[a]]
        BY <1>14
      <4>2. off + n <= BlockSize
        BY <1>8
      <4> QED
        BY <2>6, <4>1, <4>2, CellsWritten
    <3>3. off + n <= BlockSize /\ off + n <= sent
      BY <1>8
    <3>4. Copied(i, off) /\ sent <= Len(copying[Main].source)
      BY <1>5, <3>1
    <3>5. want = SubSeq(copying[Main].source, off + 1, sent) /\ copying[Main].source \in Seq(Data)
      BY <1>6, <3>1
    <3>6. copying'[Main].source = copying[Main].source
      BY <2>1, <3>1
    <3>7. Writes(b, off, n, want)
      BY <3>2 DEF Writes
    <3> QED
      BY <2>5, <2>6, <2>7, <3>7, <3>3, <3>4, <3>5, <3>6, MoreCopied
  <2>9. Total(Main)' = off + n
    BY <2>1 DEF Total
  <2>10. oft'[d] # None /\ oft'[d].off = off + n /\ oft'[d].inum = i
    <3>1. oft[d] \in Files /\ off + n \in 0 .. MaxOffset
      BY <1>2, <1>8, IInvDisk, Sizes, TfsAssumption DEF DiskOK, Files
    <3>2. oft'[d] = [oft[d] EXCEPT !.off = off + n]
      BY <1>14, IInvDisk DEF DiskOK
    <3>3. [oft[d] EXCEPT !.off = off + n].off = off + n
      BY <3>1 DEF Files
    <3> QED
      BY <1>1, <1>2, <3>1, <3>2, <3>3, FileFields
  <2>11. CopyWaits'
    BY <1>5, <1>8, <2>1, <2>5, <2>8, <2>9, <2>10 DEF CopyWaits
  <2> QED
    BY <1>12, <2>1, <2>11
<1> QED
  BY <1>10, <1>13, <1>14

\* The copy goes on with a call of its own.
LEMMA CopyCalls ==
  ASSUME IInv, NEW c, NEW l, Call(Main, c, l)
  PROVE  /\ pc'[Main] = l /\ frame'[Main].call = c /\ Op(Main)' = c.op /\ UNCHANGED <<inode, oft, data, takenB>>
         /\ \A i, n : copying'[Main].source = copying[Main].source => (Copied(i, n) => Copied(i, n)')
         /\ FreeBlocks' = FreeBlocks
<1>1. pc'[Main] = l /\ frame'[Main] = [NoFrame EXCEPT !.call = c] /\ UNCHANGED <<inode, oft, data, takenB>>
  BY TfsAssumption DEF Call, IInv, Typed, disk
<1>2. frame'[Main].call = c
  BY <1>1 DEF NoFrame
<1>3. ASSUME NEW i, NEW n, copying'[Main].source = copying[Main].source, Copied(i, n) PROVE Copied(i, n)'
  BY <1>1, <1>3 DEF Copied, Cell
<1> QED
  BY <1>1, <1>2, <1>3 DEF Op, FreeBlocks

\* A copy begins with tfs_open.
LEMMA CopyStartCopy == ASSUME IInv, CopyStart(Main) PROVE CopyKept' \/ UNCHANGED copying
<1>1. CASE Fail(Main, {})
  BY <1>1 DEF Fail, Return
<1>2. CASE CopyStart(Main) /\ ~ Fail(Main, {})
  <2>1. PICK c : c = [op |-> "open", name |-> frame[Main].call.name, mode |-> CopyMode]
    OBVIOUS
  <2>2. PICK s : s = frame[Main].call.cells
    OBVIOUS
  <2>3. /\ Call(Main, c, "lookup") /\ handle' = [handle EXCEPT ![Main] = None]
        /\ copying' = [copying EXCEPT ![Main] =
                         [source |-> s, sent |-> 0, total |-> 0, written |-> 0, returns |-> None]]
    BY <1>2, <2>1, <2>2 DEF CopyStart
  <2>4. handle'[Main] = None
        /\ copying'[Main] = [source |-> s, sent |-> 0, total |-> 0, written |-> 0, returns |-> None]
    BY <2>3, TfsAssumption DEF IInv, Typed, TypeOK
  <2>5. pc'[Main] = "lookup" /\ Op(Main)' = "open" /\ frame'[Main].call.mode = CopyMode
    BY <2>1, <2>3, CopyCalls
  <2>6. copying'[Main].returns = None /\ copying'[Main].sent = 0 /\ Total(Main)' = 0
    BY <2>4 DEF Total
  <2> QED
    BY <2>4, <2>5, <2>6 DEF CopyKept, CopyOpens, CopyWrites, CopyWaits, CopyCloses, OpenLabels
<1> QED
  BY <1>1, <1>2

\* The next chunk is what comes behind the cells that were copied.
LEMMA CopyChunkCopy == ASSUME IInv, CopyKept, CopyChunk(Main) PROVE CopyKept'
<1>0. copying[Main] # None /\ pc[Main] = "idle" /\ handle[Main] # None
  BY DEF CopyChunk, Between
<1>1. PICK c \in Copies : c = copying[Main]
  BY <1>0, CopyFields, TfsAssumption
<1>2. PICK sent \in Nat, s \in Seq(Data), total \in Int : sent = c.sent /\ s = c.source /\ total = Total(Main)
  BY <1>0, <1>1, CopyFields, TfsAssumption DEF Copies
<1>3. PICK d, file : d = handle[Main] /\ file = oft[d]
  OBVIOUS
<1>4. 0 <= total /\ total < BlockSize /\ total = sent /\ sent # Len(s)
  BY <1>1, <1>2, Sizes DEF CopyChunk, Full, Short, AtEnd
<1>5. file # None /\ c.returns = None /\ file.off = total /\ Copied(file.inum, total) /\ sent <= Len(s)
  BY <1>0, <1>1, <1>2, <1>3, <1>4 DEF CopyKept, CopyWaits, Copied
<1>6. PICK next \in Nat : next = Min2(sent + Chunk, Len(s)) /\ sent < next /\ next <= Len(s)
  <2>1. Min2(sent + Chunk, Len(s)) \in Nat /\ sent < Min2(sent + Chunk, Len(s)) /\ Min2(sent + Chunk, Len(s)) <= Len(s)
    BY <1>4, <1>5, TfsAssumption DEF Min2
  <2> QED
    BY <2>1
<1>7. PICK call : call = [op |-> "write", fd |-> d, cells |-> SubSeq(s, sent + 1, next)]
  OBVIOUS
<1>8. /\ Call(Main, call, "entry") /\ UNCHANGED handle
      /\ copying' = [copying EXCEPT ![Main] = [c EXCEPT !.total = total, !.written = 0, !.sent = next]]
  BY <1>1, <1>2, <1>3, <1>6, <1>7 DEF CopyChunk
<1>9. copying'[Main] = [c EXCEPT !.total = total, !.written = 0, !.sent = next]
  BY <1>8, TfsAssumption DEF IInv, Typed
<1>10. /\ copying'[Main].source = s /\ copying'[Main].sent = next /\ copying'[Main].total = total
       /\ copying'[Main].written = 0 /\ copying'[Main].returns = None
  BY <1>1, <1>2, <1>5, <1>9 DEF Copies
<1>11. /\ pc'[Main] = "entry" /\ Op(Main)' = "write" /\ Fd(Main)' = d /\ File(Main)' = file
       /\ frame'[Main].call.cells = SubSeq(s, total + 1, next)
  <2>1. pc'[Main] = "entry" /\ frame'[Main].call = call /\ Op(Main)' = call.op /\ UNCHANGED oft
    BY <1>8, CopyCalls
  <2>2. Fd(Main)' = d
    BY <1>7, <2>1 DEF Fd
  <2>3. File(Main)' = file
    BY <1>3, <2>1, <2>2 DEF File
  <2> QED
    BY <1>4, <1>7, <2>1, <2>2, <2>3
<1>12. Copied(file.inum, total)'
  <2>1. copying'[Main].source = copying[Main].source
    BY <1>1, <1>2, <1>10
  <2> QED
    BY <1>5, <1>8, <2>1, CopyCalls
<1>13. CopyWrites'
  BY <1>2, <1>3, <1>4, <1>5, <1>6, <1>8, <1>10, <1>11, <1>12 DEF CopyWrites
<1>14. CopyOpens' /\ CopyWaits' /\ CopyCloses'
  BY <1>10, <1>11 DEF CopyOpens, CopyWaits, CopyCloses, OpenLabels
<1> QED
  BY <1>11, <1>13, <1>14 DEF CopyKept

\* The loop ends with everything copied that fits, with nothing copied for want
\* of a block, or with an error.
LEMMA CopyCloseCopy == ASSUME IInv, CopyKept, CopyClose(Main) PROVE CopyKept'
<1>0. copying[Main] # None /\ pc[Main] = "idle" /\ handle[Main] # None
  BY DEF CopyClose, Between
<1>1. PICK c \in Copies : c = copying[Main]
  BY <1>0, CopyFields, TfsAssumption
<1>2. PICK sent \in Nat, s \in Seq(Data), total \in Int : sent = c.sent /\ s = c.source /\ total = Total(Main)
  BY <1>0, <1>1, CopyFields, TfsAssumption DEF Copies
<1>3. PICK d, file : d = handle[Main] /\ file = oft[d]
  OBVIOUS
<1>4. PICK full \in Nat : full = Min2(Len(s), BlockSize)
  BY Sizes DEF Min2
<1>5. PICK r : r = IF Short(Main) /\ ~ Full(Main) THEN -1 ELSE 0
  OBVIOUS
<1>6. /\ file # None
      /\ r = 0 => \/ Copied(file.inum, full)
                  \/ s # <<>> /\ Copied(file.inum, 0) /\ FreeBlocks = {}
  <2>1. /\ file # None
        /\ \/ sent <= Len(s) /\ total = Min2(sent, BlockSize) /\ Copied(file.inum, total)
           \/ s # <<>> /\ Copied(file.inum, 0) /\ FreeBlocks = {}
    BY <1>0, <1>1, <1>2, <1>3 DEF CopyKept, CopyWaits
  <2>2. ASSUME sent <= Len(s), total = Min2(sent, BlockSize), r = 0 PROVE total = full
    <3>1. Full(Main) <=> (total < 0 \/ total >= BlockSize)
      BY <1>2 DEF Full
    <3>2. Short(Main) <=> total # sent
      BY <1>1, <1>2 DEF Short
    <3>3. AtEnd(Main) <=> sent = Len(s)
      BY <1>1, <1>2 DEF AtEnd
    <3>4. BlockSize \in Nat
      BY Sizes
    <3>5. CASE total >= BlockSize
      <4>1. total = BlockSize /\ BlockSize <= Len(s)
        BY <2>2, <3>4, <3>5 DEF Min2
      <4> QED
        BY <1>4, <3>4, <4>1 DEF Min2
    <3>6. CASE total < BlockSize
      <4>1. total = sent
        BY <2>2, <3>4, <3>6 DEF Min2
      <4>2. ~ Full(Main) /\ ~ Short(Main)
        BY <3>1, <3>2, <3>4, <3>6, <4>1
      <4>3. sent = Len(s)
        BY <3>3, <4>2 DEF CopyClose
      <4> QED
        BY <1>4, <3>4, <3>6, <4>1, <4>3 DEF Min2
    <3> QED
      BY <3>4, <3>5, <3>6
  <2> QED
    BY <2>1, <2>2
<1>7. PICK call : call = [op |-> "close", fd |-> d]
  OBVIOUS
<1>8. /\ Call(Main, call, "entry") /\ handle' = [handle EXCEPT ![Main] = None]
      /\ copying' = [copying EXCEPT ![Main].returns = r]
  BY <1>3, <1>5, <1>7 DEF CopyClose
<1>9. handle'[Main] = None /\ copying'[Main] = [c EXCEPT !.returns = r]
  BY <1>1, <1>8, TfsAssumption DEF IInv, Typed, TypeOK
<1>10. copying'[Main].source = s /\ copying'[Main].returns = r
  BY <1>2, <1>9 DEF Copies
<1>11. pc'[Main] = "entry" /\ Op(Main)' = "close" /\ File(Main)' = file
  <2>1. pc'[Main] = "entry" /\ frame'[Main].call = call /\ Op(Main)' = call.op /\ UNCHANGED oft
    BY <1>8, CopyCalls
  <2>2. Fd(Main)' = d
    BY <1>7, <2>1 DEF Fd
  <2>3. File(Main)' = file
    BY <1>3, <2>1, <2>2 DEF File
  <2> QED
    BY <1>7, <2>1, <2>3
<1>12. r = 0 => \/ Copied(file.inum, full)'
                \/ s # <<>> /\ Copied(file.inum, 0)' /\ FreeBlocks' = {}
  <2>1. copying'[Main].source = copying[Main].source
    BY <1>1, <1>2, <1>10
  <2>2. \A n : Copied(file.inum, n) => Copied(file.inum, n)'
    BY <1>8, <2>1, CopyCalls
  <2>3. FreeBlocks' = FreeBlocks
    BY <1>8, CopyCalls
  <2> QED
    BY <1>6, <2>2, <2>3
<1>13. r # None
  BY <1>5, Sizes, NoneAssumption, TfsStateAssumption
<1>14. CopyCloses'
  BY <1>4, <1>6, <1>9, <1>10, <1>11, <1>12 DEF CopyCloses
<1>15. CopyOpens' /\ CopyWrites' /\ CopyWaits'
  BY <1>10, <1>11, <1>13 DEF CopyOpens, CopyWrites, CopyWaits, OpenLabels
<1> QED
  BY <1>10, <1>11, <1>13, <1>14, <1>15 DEF CopyKept

\* The destination is closed; what the copy returns stays.
LEMMA CloseCopy == ASSUME IInv, CopyKept, copying[Main] # None, Close(Main) PROVE CopyKept'
<1>1. pc[Main] = "entry" /\ Op(Main) = "close"
  BY DEF Close, At
<1>2. copying[Main].returns # None /\ handle[Main] = None
  BY <1>1 DEF CopyKept, CopyWrites, CopyCloses
<1>3. pc'[Main] = "idle" /\ UNCHANGED <<handle, copying>>
  BY MainLeaves DEF Close, Fail, Return
<1> QED
  BY <1>2, <1>3 DEF CopyKept, CopyOpens, CopyWrites, CopyWaits, CopyCloses, OpenLabels

\* A step outside a copy does not begin one, except for a copy's first step.
LEMMA NotCopying ==
  ASSUME IInv, copying[Main] = None, Step(Main) \/ Begin(Main)
  PROVE  CopyKept'
<1>1. CASE UNCHANGED copying
  BY <1>1, NoCopy
<1>2. ASSUME NEW locks, NEW r, WriteReturn(Main, locks, r) PROVE UNCHANGED copying
  BY <1>2 DEF WriteReturn
<1>3. CASE Open(Main) \/ InodeCreate(Main)
  BY <1>1, <1>3 DEF Open, OpenLookup, OpenLock, OpenRelock, OpenPublish, OpenAddFile, InodeCreate, InodeAlloc,
     InodeInit, InodeFinish, Abort, Goto, Fail, Return, Crash, client
<1>4. CASE SymLink(Main) \/ Link(Main)
  BY <1>1, <1>4 DEF SymLink, SymLookup, SymTarget, SymWrite, SymAdd, Link, LinkLookup, LinkType, LinkName,
     LinkAdd, LinkRead, LinkWrite, Goto, Fail, Return, Crash, client
<1>5. CASE Unlink(Main) \/ Close(Main)
  BY <1>1, <1>5 DEF Unlink, UnlinkLookup, UnlinkClear, UnlinkRead, UnlinkDrop, Close, Goto, Fail, Return, Crash,
     client
<1>6. CASE Write(Main)
  BY <1>1, <1>2, <1>6 DEF Write, WriteEntry, WriteData, Goto, Crash, client
<1>7. CASE Read(Main)
  BY <1>1, <1>7 DEF Read, ReadEntry, ReadSize, ReadCopy, ReadOffset, Goto, Fail, Return, Crash, client
<1>8. CASE Copy(Main)
  BY <1>1, <1>8, CopyStartCopy DEF Copy, CopyRefused, CopyChunk, CopyClose, CopyReturn, Between
<1>9. CASE Begin(Main)
  BY <1>1, <1>9 DEF Begin
<1> QED
  BY <1>3, <1>4, <1>5, <1>6, <1>7, <1>8, <1>9 DEF Step

\* Every step of a copy keeps what it has copied.
LEMMA StepCopy ==
  ASSUME IInv, Directory, FilesKept, CopyKept, Step(Main) \/ Begin(Main)
  PROVE  CopyKept'
<1>1. CASE copying[Main] = None
  BY <1>1, NotCopying
<1>2. CASE copying[Main] # None
  <2>1. pc[Main] \in OpenLabels \cup {"idle", "entry", "data"}
    BY <1>2 DEF CopyKept
  <2>2. Op(Main) = "none" => pc[Main] = "idle"
    BY <2>1, Inside, TfsAssumption DEF OpFits, OnHandle, OpenLabels
  <2>3. pc[Main] = "idle" => Op(Main) = "none"
    BY Inside, TfsAssumption DEF LocalsFit, Fresh, NoFrame, Op
  <2>4. Op(Main) \in {"none", "open", "write", "close"}
    BY <1>2, <2>1, <2>3 DEF CopyKept, CopyOpens, CopyWrites, CopyCloses
  <2>5. ~ SymLink(Main) /\ ~ Link(Main) /\ ~ Unlink(Main) /\ ~ Read(Main) /\ ~ CopyStart(Main) /\ ~ Begin(Main)
    <3>1. ~ SymLink(Main)
      BY <2>4 DEF SymLink, SymLookup, SymTarget, SymWrite, SymAdd, At
    <3>2. ~ Link(Main)
      BY <2>4 DEF Link, LinkLookup, LinkType, LinkName, LinkAdd, LinkRead, LinkWrite, At
    <3>3. ~ Unlink(Main)
      BY <2>4 DEF Unlink, UnlinkLookup, UnlinkClear, UnlinkRead, UnlinkDrop, At
    <3>4. ~ Read(Main) /\ ~ CopyStart(Main)
      BY <2>4 DEF Read, ReadEntry, ReadSize, ReadCopy, ReadOffset, CopyStart, At
    <3>5. ~ Begin(Main)
      BY <1>2 DEF Begin
    <3> QED
      BY <3>1, <3>2, <3>3, <3>4, <3>5
  <2>6. CASE Open(Main)
    BY <1>2, <2>6, OpenLookupCopy, OpenLockCopy, CrashCopy, OpenPublishCopy, OpenAddFileCopy DEF Open, OpenRelock
  <2>7. CASE InodeCreate(Main)
    BY <1>2, <2>7, InodeCreateCopy
  <2>8. CASE Close(Main) \/ Write(Main)
    BY <1>2, <2>8, CloseCopy, WriteEntryCopy, WriteDataCopy DEF Write
  <2>9. CASE CopyRefused(Main) \/ CopyReturn(Main)
    <3>1. copying' = [copying EXCEPT ![Main] = None]
      BY <2>9 DEF CopyRefused, CopyReturn
    <3>2. copying'[Main] = None
      BY <3>1, TfsAssumption DEF IInv, Typed
    <3> QED
      BY <3>2, NoCopy
  <2>10. CASE CopyChunk(Main) \/ CopyClose(Main)
    BY <2>10, CopyChunkCopy, CopyCloseCopy
  <2> QED
    BY <2>5, <2>6, <2>7, <2>8, <2>9, <2>10 DEF Step, Copy
<1> QED
  BY <1>1, <1>2

\* The first n cells of a sequence.
LEMMA Prefix ==
  ASSUME NEW s \in Seq(Data), NEW n \in Nat, n <= Len(s)
  PROVE  /\ SubSeq(s, 1, n) \in Seq(Data) /\ Len(SubSeq(s, 1, n)) = n
         /\ \A k \in 1 .. n : SubSeq(s, 1, n)[k] = s[k]
<1>1. \A k \in 1 .. n : s[k] \in Data
  OBVIOUS
<1>2. 1 \in Int /\ n \in Int /\ n - 1 + 1 = n
  OBVIOUS
<1>3. PICK want : want = SubSeq(s, 1, n)
  OBVIOUS
<1>4. want \in Seq(Data)
  BY <1>1, <1>2, <1>3, SubSeqProperties
<1>5. Len(want) = IF 1 <= n THEN n - 1 + 1 ELSE 0
  BY <1>1, <1>2, <1>3, SubSeqProperties
<1>6. \A k \in 1 .. n : want[k] = s[k]
  <2>1. \A k \in 1 .. n - 1 + 1 : want[k] = s[1 + k - 1]
    BY <1>1, <1>2, <1>3, SubSeqProperties
  <2> QED
    BY <2>1
<1>7. Len(want) = n
  BY <1>5
<1> QED
  BY <1>3, <1>4, <1>6, <1>7

\* A copy that is about to return 0 tells the truth.
LEMMA CopyTrue == ASSUME OneThread, IInv, FilesKept, CopyKept PROVE CopyTellsTruth
<1> SUFFICES ASSUME copying[Main] # None, copying[Main].returns = 0, pc[Main] = "entry"
             PROVE  LET i == File(Main).inum
                        source == copying[Main].source
                    IN \/ Contents(i).cells = SubSeq(source, 1, Min2(Len(source), BlockSize))
                       \/ source # <<>> /\ Contents(i).cells = <<>> /\ FreeBlocks = {}
  BY DEF OneThread, CopyTellsTruth
<1>1. PICK s \in Seq(Data) : s = copying[Main].source
  BY CopyFields, TfsAssumption
<1>2. 0 # None
  BY Sizes, TfsStateAssumption
<1>3. Op(Main) = "close" /\ File(Main) # None
  BY <1>2 DEF CopyKept, CopyCloses
<1>4. Fd(Main) \in Fds /\ oft[Fd(Main)] = File(Main) /\ File(Main) \in Files
  BY <1>3, Now, IInvDisk, TfsAssumption DEF DiskOK, Files, File
<1>5. PICK i \in Inodes : i = File(Main).inum
  BY <1>4, FileFields
<1>6. inode[i].type = "FILE"
  BY <1>3, <1>4, <1>5 DEF FilesKept, Handles
<1>7. Contents(i).cells = Cells(i)
  BY <1>6 DEF Contents, Cells
<1>8. \/ Copied(i, Min2(Len(s), BlockSize))
      \/ s # <<>> /\ Copied(i, 0) /\ FreeBlocks = {}
  BY <1>1, <1>2, <1>5 DEF CopyKept, CopyCloses
<1>9. PICK n \in Nat : n = Min2(Len(s), BlockSize) /\ n <= Len(s)
  BY Sizes DEF Min2
<1>10. ASSUME Copied(i, n) PROVE Cells(i) = SubSeq(s, 1, n)
  <2>1. /\ SubSeq(s, 1, n) \in Seq(Data) /\ Len(SubSeq(s, 1, n)) = n
        /\ \A k \in 1 .. n : SubSeq(s, 1, n)[k] = s[k]
    BY <1>9, Prefix
  <2>2. Cells(i) \in Seq(CellValues) /\ Len(Cells(i)) = n
    BY <1>10, BodyFields DEF Copied
  <2>3. ASSUME NEW k \in 1 .. n PROVE Cells(i)[k] = s[k]
    BY <1>1, <1>10 DEF Copied, Cells
  <2> QED
    BY <2>1, <2>2, <2>3, SeqEqual
<1>11. ASSUME Copied(i, 0) PROVE Cells(i) = <<>>
  BY <1>11 DEF Copied, Cells
<1> QED
  BY <1>1, <1>5, <1>7, <1>8, <1>9, <1>10, <1>11

\* No copy is in progress at first.
LEMMA InitCopy == Init => CopyKept
  BY TfsAssumption DEF Init, CopyKept

\* tfs_copy_from_external_fs, called by one careful thread, returns 0 only when
\* the destination is the source up to the size of a block, or when no block
\* was free and the destination is left empty (operations.c:504-512).
THEOREM CopyHonest == OneThread /\ Careful => (Spec => []CopyTellsTruth)
<1> SUFFICES ASSUME OneThread, Careful PROVE Spec => []CopyTellsTruth
  OBVIOUS
<1>1. IInv /\ Directory /\ FilesKept /\ CopyKept /\ [Next]_vars => CopyKept'
  <2> SUFFICES ASSUME IInv, Directory, FilesKept, CopyKept, [Next]_vars PROVE CopyKept'
    OBVIOUS
  <2>1. CASE UNCHANGED vars
    BY <2>1, CopyStays DEF vars, client
  <2>2. ASSUME NEW t \in Threads, Step(t) \/ Begin(t) PROVE CopyKept'
    BY <2>2, StepCopy DEF OneThread
  <2> QED
    BY <2>1, <2>2 DEF Next, Over
<1>2. IInv /\ Directory /\ FilesKept /\ CopyKept => CopyTellsTruth
  BY CopyTrue
<1> QED
  BY <1>1, <1>2, InitCopy, FilesStayKept, PTL DEF Spec

=============================================================================
