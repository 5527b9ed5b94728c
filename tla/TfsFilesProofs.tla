--------------------------- MODULE TfsFilesProofs ---------------------------
(***************************************************************************)
(* What one thread finds in TecnicoFS (Tfs), whatever the sizes of the     *)
(* tables.  Whatever it calls: every name is in the root directory once,   *)
(* entries lead to live inodes and hard_links counts them.  When it is     *)
(* careful not to unlink or truncate a file that it has open: each block   *)
(* in use is the block of one live inode, no handle is beyond the end of   *)
(* its file, and the assertions of state.c and operations.c hold.          *)
(***************************************************************************)
EXTENDS TfsProofs

\* The program has the one thread that called tfs_init.
OneThread == Threads = {Main}

-----------------------------------------------------------------------------
(* The directory and the inode table, at each step of an operation *)

Live(i) == i \in takenI /\ inode[i].state = "TAKEN"

\* An entry's inode is live: find_in_dir never skips one for its inode's sake.
EntriesLive == \A e \in Entries : dir[e] # FreeEntry => Live(dir[e].inum)

NamesApart == \A e, g \in Entries : dir[e] # FreeEntry /\ dir[g].name = dir[e].name => g = e

\* tfs_open or tfs_sym_link is making a node: it is not in the directory yet.
Creating == \/ pc[Main] \in {"init", "finish", "created", "abort"}
            \/ pc[Main] = "add" /\ Op(Main) = "symlink"

Kind == IF Op(Main) = "open" THEN "FILE" ELSE "SYMLINK"

NewInode ==
    Creating =>
      /\ I(Main) \in takenI /\ EntriesTo(I(Main)) = {}
      /\ pc[Main] # "init" => inode[I(Main)].type = Kind
      /\ pc[Main] \in {"created", "add"} => inode[I(Main)].state = "TAKEN" /\ inode[I(Main)].links = 1

\* The name that will be added was looked up, and is not there.
NewName == pc[Main] \in {"alloc", "init", "finish", "created", "add"} =>
               EntriesFor(frame[Main].call.name) = {}

\* Between a change of the directory and that of hard_links, tfs_link has an
\* entry that is not counted, tfs_unlink has removed one that is.
Adjusting == pc[Main] \in {"read", "write", "drop"}
Pending(i) == IF Adjusting /\ i = I(Main) THEN (IF Op(Main) = "link" THEN -1 ELSE 1) ELSE 0

\* A symbolic link has one name, or none when tfs_sym_link found the directory full.
Counted(i) ==
    IF inode[i].type = "FILE"
      THEN inode[i].links = Cardinality(EntriesTo(i)) + Pending(i)
      ELSE inode[i].links = 1 /\ Cardinality(EntriesTo(i)) + Pending(i) <= 1

AllCounted == \A i \in takenI : ~ (Creating /\ i = I(Main)) => Counted(i)

\* What tfs_link and tfs_unlink have found out still is so.
Found ==
    /\ Op(Main) = "link" /\ pc[Main] \in {"type", "name", "add"} => Live(I(Main))
    /\ Op(Main) = "link" /\ pc[Main] \in {"name", "add", "read", "write"} => inode[I(Main)].type = "FILE"
    /\ pc[Main] = "clear" => /\ EntriesFor(frame[Main].call.name) # {}
                             /\ dir[First(EntriesFor(frame[Main].call.name))].inum = I(Main)
    /\ Adjusting => I(Main) \in takenI
    /\ pc[Main] \in {"write", "drop"} => frame[Main].tmp = inode[I(Main)].links

Directory == EntriesLive /\ NamesApart /\ NewInode /\ NewName /\ AllCounted /\ Found

-----------------------------------------------------------------------------
(* Lemmas about the directory *)

\* An entry is free or has a name and an inumber.
LEMMA EntryKinds ==
  ASSUME TypeOK, NEW e \in Entries
  PROVE  /\ dir[e] # FreeEntry => dir[e].name \in Names /\ dir[e].inum \in Inodes
         /\ dir[e] = FreeEntry => dir[e].name = None /\ dir[e].inum = None
         /\ dir[e] # FreeEntry <=> dir[e].inum # None
         /\ dir[e] # FreeEntry <=> dir[e].name # None
<1>1. dir[e] \in [name : Names, inum : Inodes] \cup {FreeEntry}
  BY DEF TypeOK
<1>2. None \notin Names /\ None \notin Inodes
  BY Sizes DEF Inodes
<1> QED
  BY <1>1, <1>2 DEF FreeEntry

\* The first entry of a name has that name.
LEMMA FirstEntry ==
  ASSUME NEW n, EntriesFor(n) # {}
  PROVE  First(EntriesFor(n)) \in EntriesFor(n)
<1>1. EntriesFor(n) \in SUBSET Nat
  BY DEF EntriesFor, Entries
<1> QED
  BY <1>1, FirstIsIn

\* While entries lead to live inodes, find_in_dir finds a name that is in the
\* directory, and only that.
LEMMA LookupFinds ==
  ASSUME TypeOK, EntriesLive, NEW n
  PROVE  /\ Lookup(n) = None <=> EntriesFor(n) = {}
         /\ Lookup(n) # None => /\ Live(Lookup(n))
                                /\ Lookup(n) = dir[First(EntriesFor(n))].inum
                                /\ First(EntriesFor(n)) \in EntriesTo(Lookup(n))
<1>1. CASE EntriesFor(n) = {}
  BY <1>1 DEF Lookup
<1>2. CASE EntriesFor(n) # {}
  <2> DEFINE e == First(EntriesFor(n))
  <2>1. e \in Entries /\ dir[e].inum # None
    BY <1>2, FirstEntry DEF EntriesFor
  <2> HIDE DEF e
  <2>2. dir[e] # FreeEntry
    BY <2>1, EntryKinds
  <2>3. Live(dir[e].inum)
    BY <2>1, <2>2 DEF EntriesLive
  <2>4. Lookup(n) = dir[e].inum
    BY <1>2, <2>3 DEF Lookup, e, Live
  <2> QED
    BY <1>2, <2>1, <2>3, <2>4 DEF e, EntriesTo
<1> QED
  BY <1>1, <1>2

\* The directory is a finite table.
LEMMA FiniteEntries ==
  ASSUME NEW i
  PROVE  IsFiniteSet(EntriesTo(i)) /\ Cardinality(EntriesTo(i)) \in Nat
         /\ (Cardinality(EntriesTo(i)) = 0 <=> EntriesTo(i) = {})
<1>1. IsFiniteSet(Entries)
  BY FS_Interval, TfsStateAssumption DEF Entries
<1>2. EntriesTo(i) \in SUBSET Entries
  BY DEF EntriesTo
<1>3. IsFiniteSet(EntriesTo(i))
  BY <1>1, <1>2, FS_Subset
<1> QED
  BY <1>3, FS_CardinalityType, FS_EmptySet

\* A step that leaves the directory alone leaves every search in it alone.
LEMMA SameEntries ==
  ASSUME UNCHANGED dir
  PROVE  /\ \A n : EntriesFor(n)' = EntriesFor(n)
         /\ \A i : EntriesTo(i)' = EntriesTo(i)
  BY DEF EntriesFor, EntriesTo

\* add_dir_entry of a new name: one more entry for that inode.
LEMMA EntryAdded ==
  ASSUME TypeOK, NamesApart, FreeEntries # {}, NEW n \in Names, NEW i \in Inodes,
         EntriesFor(n) = {}, AddDirEntry(n, i)
  PROVE  /\ NamesApart'
         /\ \A e \in Entries : dir'[e] # FreeEntry => dir'[e] = dir[e] \/ dir'[e].inum = i
         /\ \A m \in Names : m # n => EntriesFor(m)' = EntriesFor(m)
         /\ EntriesFor(n)' = {First(FreeEntries)} /\ dir'[First(FreeEntries)].inum = i
         /\ \A j \in Inodes : j # i => EntriesTo(j)' = EntriesTo(j)
         /\ EntriesTo(i)' = EntriesTo(i) \cup {First(FreeEntries)}
         /\ Cardinality(EntriesTo(i)') = Cardinality(EntriesTo(i)) + 1
<1> DEFINE e == First(FreeEntries)
<1>1. e \in Entries /\ dir[e].inum = None
  BY FirstFree DEF FreeEntries
<1>2. dir[e] = FreeEntry
  BY <1>1, EntryKinds
<1>3. dir' = [dir EXCEPT ![e] = [name |-> n, inum |-> i]]
  BY DEF AddDirEntry
<1> HIDE DEF e
<1>4. DOMAIN dir = Entries
  BY DEF TypeOK
<1>5. dir'[e].name = n /\ dir'[e].inum = i /\ \A g \in Entries : g # e => dir'[g] = dir[g]
  BY <1>1, <1>3, <1>4
<1>6. None # n /\ None # i
  BY Sizes DEF Inodes
<1>7. \A g \in Entries : dir[g].name # n
  BY <1>6, EntryKinds DEF EntriesFor
<1>8. NamesApart'
  <2> SUFFICES ASSUME NEW g \in Entries, NEW h \in Entries, dir'[g] # FreeEntry, dir'[h].name = dir'[g].name
               PROVE  h = g
    BY DEF NamesApart
  <2> QED
    BY <1>5, <1>7 DEF NamesApart
<1>9. \A m \in Names : m # n => EntriesFor(m)' = EntriesFor(m)
  <2> SUFFICES ASSUME NEW m \in Names, m # n, NEW g \in Entries
               PROVE  (dir'[g].name = m /\ dir'[g].inum # None) <=> (dir[g].name = m /\ dir[g].inum # None)
    BY DEF EntriesFor
  <2> QED
    BY <1>1, <1>5
<1>10. EntriesFor(n)' = {e}
  BY <1>1, <1>5, <1>6, <1>7 DEF EntriesFor
<1>11. \A j \in Inodes : j # i => EntriesTo(j)' = EntriesTo(j)
  <2> SUFFICES ASSUME NEW j \in Inodes, j # i, NEW g \in Entries
               PROVE  dir'[g].inum = j <=> dir[g].inum = j
    BY DEF EntriesTo
  <2>1. j # None
    BY Sizes DEF Inodes
  <2> QED
    BY <1>1, <1>5, <2>1
<1>12. EntriesTo(i)' = EntriesTo(i) \cup {e} /\ e \notin EntriesTo(i)
  BY <1>1, <1>5, <1>6 DEF EntriesTo
<1>13. Cardinality(EntriesTo(i) \cup {e}) = Cardinality(EntriesTo(i)) + 1
  BY <1>12, FiniteEntries, FS_AddElement
<1> QED
  BY <1>5, <1>8, <1>9, <1>10, <1>11, <1>12, <1>13 DEF e

\* clear_dir_entry of a name: one entry less for its inode.
LEMMA EntryCleared ==
  ASSUME TypeOK, NamesApart, NEW n \in Names, EntriesFor(n) # {}, ClearDirEntry(n),
         NEW i \in Inodes, dir[First(EntriesFor(n))].inum = i
  PROVE  /\ NamesApart'
         /\ \A e \in Entries : dir'[e] # FreeEntry => dir'[e] = dir[e]
         /\ \A m \in Names : m # n => EntriesFor(m)' = EntriesFor(m)
         /\ EntriesFor(n)' = {}
         /\ \A j \in Inodes : j # i => EntriesTo(j)' = EntriesTo(j)
         /\ EntriesTo(i)' = EntriesTo(i) \ {First(EntriesFor(n))}
         /\ Cardinality(EntriesTo(i)') = Cardinality(EntriesTo(i)) - 1
<1> DEFINE e == First(EntriesFor(n))
<1>1. e \in Entries /\ dir[e].name = n /\ dir[e].inum = i
  BY FirstEntry DEF EntriesFor
<1>2. dir[e] # FreeEntry
  BY <1>1, EntryKinds, Sizes
<1>3. dir' = [dir EXCEPT ![e] = FreeEntry]
  BY DEF ClearDirEntry
<1> HIDE DEF e
<1>4. DOMAIN dir = Entries
  BY DEF TypeOK
<1>5. dir'[e] = FreeEntry /\ dir'[e].name = None /\ dir'[e].inum = None /\ \A g \in Entries : g # e => dir'[g] = dir[g]
  BY <1>1, <1>3, <1>4 DEF FreeEntry
<1>6. None # n /\ None # i
  BY Sizes DEF Inodes
<1>7. \A g \in Entries : g # e => dir[g].name # n
  BY <1>1, <1>2 DEF NamesApart
<1>8. NamesApart'
  <2> SUFFICES ASSUME NEW g \in Entries, NEW h \in Entries, dir'[g] # FreeEntry, dir'[h].name = dir'[g].name
               PROVE  h = g
    BY DEF NamesApart
  <2>1. g # e /\ dir'[g] = dir[g] /\ dir[g].name # None
    BY <1>5, EntryKinds
  <2>2. h # e
    BY <1>5, <2>1
  <2> QED
    BY <1>5, <2>1, <2>2 DEF NamesApart
<1>9. \A m \in Names : m # n => EntriesFor(m)' = EntriesFor(m)
  <2> SUFFICES ASSUME NEW m \in Names, m # n, NEW g \in Entries
               PROVE  (dir'[g].name = m /\ dir'[g].inum # None) <=> (dir[g].name = m /\ dir[g].inum # None)
    BY DEF EntriesFor
  <2> QED
    BY <1>1, <1>5
<1>10. EntriesFor(n)' = {}
  BY <1>5, <1>7 DEF EntriesFor
<1>11. \A j \in Inodes : j # i => EntriesTo(j)' = EntriesTo(j)
  <2> SUFFICES ASSUME NEW j \in Inodes, j # i, NEW g \in Entries
               PROVE  dir'[g].inum = j <=> dir[g].inum = j
    BY DEF EntriesTo
  <2>1. j # None
    BY Sizes DEF Inodes
  <2> QED
    BY <1>1, <1>5, <2>1
<1>12. EntriesTo(i)' = EntriesTo(i) \ {e} /\ e \in EntriesTo(i)
  BY <1>1, <1>5, <1>6 DEF EntriesTo
<1>13. Cardinality(EntriesTo(i) \ {e}) = Cardinality(EntriesTo(i)) - 1
  BY <1>12, FiniteEntries, FS_RemoveElement
<1> QED
  BY <1>5, <1>8, <1>9, <1>10, <1>11, <1>12, <1>13 DEF e

-----------------------------------------------------------------------------
(* Steps that leave the directory as it is *)

\* Where the one thread is after a step, and with which locals.
LEMMA MainGoes ==
  ASSUME IInv, NEW l, NEW f, Goto(Main, l, f)
  PROVE  pc'[Main] = l /\ frame'[Main] = f /\ UNCHANGED <<todo, handle, buf, copying, crashed>>
  BY TfsAssumption DEF IInv, Typed, Goto, client

\* An operation that returns leaves no locals.
LEMMA MainLeaves ==
  ASSUME IInv, NEW locks, Leave(Main, locks)
  PROVE  pc'[Main] = "idle" /\ frame'[Main] = NoFrame /\ UNCHANGED <<todo, crashed>>
  BY TfsAssumption DEF IInv, Typed, Leave

\* The directory stays, and which inodes are live: only sizes and blocks of
\* inodes may change.
SameNodes ==
    /\ UNCHANGED <<dir, takenI>>
    /\ \A i \in Inodes : /\ inode'[i].state = inode[i].state
                         /\ inode'[i].type = inode[i].type
                         /\ inode'[i].links = inode[i].links

\* Labels at which nothing that Directory says of them has to be kept.
PlainLabels == {"idle", "lookup", "entry", "lock", "addfile", "target", "data", "size", "copy", "offset"}

\* A label with nothing to keep keeps what there is.
LEMMA PlainLabel ==
  /\ pc[Main] \in PlainLabels => ~ Creating /\ ~ Adjusting /\ NewName /\ NewInode /\ Found
  /\ pc'[Main] \in PlainLabels => (~ Creating /\ ~ Adjusting /\ NewName /\ NewInode /\ Found)'
<1>1. pc[Main] \in PlainLabels => ~ Creating /\ ~ Adjusting /\ NewName /\ NewInode /\ Found
  BY DEF PlainLabels, Creating, Adjusting, NewName, NewInode, Found
<1>2. pc'[Main] \in PlainLabels => (~ Creating /\ ~ Adjusting /\ NewName /\ NewInode /\ Found)'
  BY DEF PlainLabels, Creating, Adjusting, NewName, NewInode, Found
<1> QED
  BY <1>1, <1>2

\* Entries still lead to live inodes, and are still apart.
LEMMA NodesKept ==
  ASSUME IInv, EntriesLive, NamesApart, SameNodes
  PROVE  EntriesLive' /\ NamesApart'
<1>1. \A e \in Entries : dir[e] # FreeEntry => dir[e].inum \in Inodes
  BY EntryKinds DEF IInv, Typed
<1> QED
  BY <1>1 DEF EntriesLive, NamesApart, Live, SameNodes

\* An inode's count is what it was when neither its entries nor its hard_links
\* change.
LEMMA CountKept ==
  ASSUME NEW i \in Inodes, Counted(i), Pending(i)' = Pending(i), EntriesTo(i)' = EntriesTo(i),
         inode'[i].type = inode[i].type, inode'[i].links = inode[i].links
  PROVE  Counted(i)'
  BY DEF Counted

\* Neither before nor after the step is a node being made or a count behind.
LEMMA PlainStep ==
  ASSUME IInv, Directory, SameNodes, ~ Creating, ~ Adjusting, (~ Creating /\ ~ Adjusting /\ NewName /\ Found)'
  PROVE  Directory'
<1>1. EntriesLive' /\ NamesApart'
  BY NodesKept DEF Directory
<1>2. NewInode'
  BY DEF NewInode
<1>3. \A i \in takenI : Counted(i)'
  <2> SUFFICES ASSUME NEW i \in takenI PROVE Counted(i)'
    OBVIOUS
  <2>1. Counted(i) /\ i \in Inodes
    BY DEF Directory, AllCounted, IInv, Typed, TypeOK
  <2>2. Pending(i)' = Pending(i)
    BY DEF Pending
  <2> QED
    BY <2>1, <2>2, CountKept, SameEntries DEF SameNodes
<1>4. AllCounted'
  BY <1>3 DEF AllCounted, SameNodes
<1> QED
  BY <1>1, <1>2, <1>4 DEF Directory

\* Nothing that Directory is about changes.
LEMMA StaysDirectory ==
  ASSUME Directory, UNCHANGED <<inode, takenI, dir, pc, frame>>
  PROVE  Directory'
  BY DEF Directory, EntriesLive, NamesApart, NewInode, NewName, AllCounted, Found, Live, Creating, Kind,
     Adjusting, Pending, Counted, EntriesFor, EntriesTo, Op, I

\* A process that has died changes nothing.
LEMMA CrashDirectory == ASSUME Directory, NEW how, Crash(how) PROVE Directory'
  BY StaysDirectory DEF Crash, disk

\* An operation that fails before it made or removed anything.
LEMMA FailDirectory ==
  ASSUME IInv, Directory, NEW locks, Fail(Main, locks), ~ Creating, ~ Adjusting
  PROVE  Directory'
<1>1. pc'[Main] \in PlainLabels
  BY MainLeaves DEF Fail, Return, PlainLabels
<1>2. SameNodes
  BY DEF Fail, disk, SameNodes
<1> QED
  BY <1>1, <1>2, PlainLabel, PlainStep

\* A step that goes on, or returns, at labels with nothing to keep.
LEMMA PlainDirectory ==
  ASSUME IInv, Directory, SameNodes, ~ Creating, ~ Adjusting, pc'[Main] \in PlainLabels
  PROVE  Directory'
  BY PlainLabel, PlainStep

\* Changing an inode's size or block changes nothing else of it.
LEMMA SizeOnly ==
  ASSUME IInv, NEW i \in Inodes, NEW n, NEW b, UNCHANGED <<dir, takenI>>,
         \/ inode' = [inode EXCEPT ![i].size = n]
         \/ inode' = [inode EXCEPT ![i] = [@ EXCEPT !.block = b, !.size = n]]
  PROVE  SameNodes
<1>1. inode \in [Inodes -> InodeRecords]
  BY IInvDisk DEF DiskOK
<1>2. inode[i] \in InodeRecords
  BY <1>1
<1>3. CASE inode' = [inode EXCEPT ![i].size = n]
  <2>1. inode'[i] = [inode[i] EXCEPT !.size = n] /\ \A j \in Inodes : j # i => inode'[j] = inode[j]
    BY <1>1, <1>3
  <2>2. inode'[i].state = inode[i].state /\ inode'[i].type = inode[i].type /\ inode'[i].links = inode[i].links
    BY <1>2, <2>1 DEF InodeRecords
  <2> QED
    BY <2>1, <2>2 DEF SameNodes
<1>4. CASE inode' = [inode EXCEPT ![i] = [@ EXCEPT !.block = b, !.size = n]]
  <2>1. inode'[i] = [inode[i] EXCEPT !.block = b, !.size = n] /\ \A j \in Inodes : j # i => inode'[j] = inode[j]
    BY <1>1, <1>4
  <2>2. inode'[i].state = inode[i].state /\ inode'[i].type = inode[i].type /\ inode'[i].links = inode[i].links
    BY <1>2, <2>1 DEF InodeRecords
  <2> QED
    BY <2>1, <2>2 DEF SameNodes
<1> QED
  BY <1>3, <1>4

-----------------------------------------------------------------------------
(* The operations, in one thread *)

\* A step that is taken at a label with nothing to keep.
LEMMA AtPlain == ASSUME pc[Main] \in PlainLabels PROVE ~ Creating /\ ~ Adjusting
  BY PlainLabel

\* The locks are not part of it.
LEMMA SameDiskNodes == UNCHANGED <<inode, takenI, dir>> => SameNodes
  BY DEF SameNodes

\* A program's next call begins.
LEMMA BeginDirectory == ASSUME IInv, OneThread, Directory, Begin(Main) PROVE Directory'
<1>1. ~ Creating /\ ~ Adjusting
  BY AtPlain DEF Begin, PlainLabels
<1>2. SameNodes
  BY SameDiskNodes DEF Begin, disk
<1>3. pc'[Main] \in PlainLabels
  BY TfsAssumption DEF Begin, IInv, Typed, PlainLabels
<1> QED
  BY <1>1, <1>2, <1>3, PlainDirectory

\* tfs_open finds the name, or is about to make the file.
LEMMA OpenLookupDirectory == ASSUME IInv, OneThread, Directory, OpenLookup(Main) PROVE Directory'
<1> DEFINE n == frame[Main].call.name
<1>0. pc[Main] = "lookup"
  BY DEF OpenLookup, At
<1>1. ~ Creating /\ ~ Adjusting
  BY <1>0, AtPlain DEF PlainLabels
<1>2. TypeOK /\ EntriesLive
  BY DEF IInv, Typed, Directory
<1>3. CASE Fail(Main, {})
  BY <1>1, <1>3, FailDirectory
<1>4. ASSUME NEW f, Goto(Main, "lock", f), UNCHANGED disk
      PROVE  Directory'
  <2>1. pc'[Main] = "lock"
    BY <1>4, MainGoes
  <2> QED
    BY <1>1, <1>4, <2>1, SameDiskNodes, PlainDirectory DEF disk, PlainLabels
<1>5. ASSUME Lookup(n) = None, Goto(Main, "alloc", frame[Main]), UNCHANGED disk
      PROVE  Directory'
  <2>1. pc'[Main] = "alloc" /\ frame'[Main] = frame[Main]
    BY <1>5, MainGoes
  <2>2. SameNodes /\ UNCHANGED dir
    BY <1>5, SameDiskNodes DEF disk
  <2>3. EntriesFor(n) = {}
    BY <1>2, <1>5, LookupFinds
  <2>4. NewName'
    BY <2>1, <2>2, <2>3, SameEntries DEF NewName
  <2>5. (~ Creating /\ ~ Adjusting /\ Found)'
    BY <2>1 DEF Creating, Adjusting, Found
  <2> QED
    BY <1>1, <2>2, <2>4, <2>5, PlainStep
<1> QED
  BY <1>3, <1>4, <1>5 DEF OpenLookup

\* tfs_open locks the inode, follows a link or truncates the file.
LEMMA OpenLockDirectory == ASSUME IInv, OneThread, Directory, OpenLock(Main) PROVE Directory'
<1>0. pc[Main] = "lock" /\ Op(Main) = "open"
  BY DEF OpenLock, At
<1>1. ~ Creating /\ ~ Adjusting
  BY <1>0, AtPlain DEF PlainLabels
<1>2. I(Main) \in Inodes
  BY <1>0, Now, TfsAssumption DEF WithInode
<1>3. CASE Crash("assert")
  BY <1>3, CrashDirectory
<1>4. ASSUME NEW locks, Fail(Main, locks) PROVE Directory'
  BY <1>1, <1>4, FailDirectory
<1>5. ASSUME NEW l \in PlainLabels, NEW f, Goto(Main, l, f), SameNodes PROVE Directory'
  BY <1>1, <1>5, MainGoes, PlainDirectory
<1>6. "lock" \in PlainLabels /\ "addfile" \in PlainLabels
  BY DEF PlainLabels
<1>7. CASE inode[I(Main)].type = "FILE" /\ "TRUNC" \in frame[Main].call.mode
  <2>1. inode' = [inode EXCEPT ![I(Main)].size = 0] /\ UNCHANGED <<dir, takenI>>
    BY <1>7 DEF OpenLock
  <2>2. SameNodes
    BY <1>2, <2>1, SizeOnly
  <2>3. Goto(Main, "addfile", [frame[Main] EXCEPT !.other = None,
                   !.tmp = InitialOffset(frame[Main].call, inode'[I(Main)].size)])
    BY <1>7 DEF OpenLock
  <2> QED
    BY <1>5, <1>6, <2>2, <2>3
<1>8. CASE inode[I(Main)].type = "FILE" /\ "TRUNC" \notin frame[Main].call.mode
  <2>1. SameNodes
    BY <1>8, SameDiskNodes DEF OpenLock
  <2>2. Goto(Main, "addfile", [frame[Main] EXCEPT !.other = None,
                   !.tmp = InitialOffset(frame[Main].call, inode'[I(Main)].size)])
    BY <1>8 DEF OpenLock
  <2> QED
    BY <1>5, <1>6, <2>1, <2>2
<1>9. CASE inode[I(Main)].type = "SYMLINK"
  <2>1. CASE UNCHANGED disk /\ \E f : Goto(Main, "lock", f)
    BY <1>5, <1>6, <2>1, SameDiskNodes DEF disk
  <2> QED
    BY <1>3, <1>4, <1>9, <2>1 DEF OpenLock
<1> QED
  BY <1>7, <1>8, <1>9 DEF OpenLock

\* The open file table is not part of it.
LEMMA OpenAddFileDirectory == ASSUME IInv, OneThread, Directory, OpenAddFile(Main) PROVE Directory'
<1>1. ~ Creating /\ ~ Adjusting
  BY AtPlain DEF OpenAddFile, At, PlainLabels
<1>2. SameNodes
  BY SameDiskNodes DEF OpenAddFile, Fail, disk
<1>3. pc'[Main] \in PlainLabels
  BY MainLeaves DEF OpenAddFile, Fail, Return, PlainLabels
<1> QED
  BY <1>1, <1>2, <1>3, PlainDirectory

\* tfs_close, and what a thread does around a copy.
LEMMA CloseDirectory == ASSUME IInv, OneThread, Directory, Close(Main) PROVE Directory'
<1>1. ~ Creating /\ ~ Adjusting
  BY AtPlain DEF Close, At, PlainLabels
<1>2. SameNodes
  BY SameDiskNodes DEF Close, Fail, disk
<1>3. pc'[Main] \in PlainLabels
  BY MainLeaves DEF Close, Fail, Return, PlainLabels
<1> QED
  BY <1>1, <1>2, <1>3, PlainDirectory

\* tfs_write changes an inode's size and block, and nothing else of it.
LEMMA WriteDirectory == ASSUME IInv, OneThread, Directory, Write(Main) PROVE Directory'
<1>1. pc[Main] \in {"entry", "data"} /\ Op(Main) = "write"
  BY DEF Write, WriteEntry, WriteData, At
<1>2. ~ Creating /\ ~ Adjusting
  BY <1>1, AtPlain DEF PlainLabels
<1>3. ASSUME NEW locks, NEW r, WriteReturn(Main, locks, r), SameNodes PROVE Directory'
  BY <1>2, <1>3, MainLeaves, PlainDirectory DEF WriteReturn, PlainLabels
<1>4. CASE WriteEntry(Main)
  <2>1. SameNodes
    BY <1>4, SameDiskNodes DEF WriteEntry, disk
  <2>2. pc'[Main] \in PlainLabels
    BY <1>4, MainGoes, MainLeaves DEF WriteEntry, WriteReturn, PlainLabels
  <2> QED
    BY <1>2, <2>1, <2>2, PlainDirectory
<1>5. CASE WriteData(Main)
  <2> DEFINE cells == frame[Main].call.cells
             i == File(Main).inum
             off == File(Main).off
             n == WriteCount(Len(cells), off)
             b == IF inode[i].size = 0 THEN First(FreeBlocks) ELSE inode[i].block
  <2>1. pc[Main] = "data"
    BY <1>5 DEF WriteData, At
  <2>2. i \in Inodes
    BY <2>1, <1>1, Now, TfsAssumption DEF WithFd
  <2>3. \/ WriteReturn(Main, {FdLock(Fd(Main))}, IF n = 0 THEN 0 ELSE -1) /\ UNCHANGED disk
        \/ /\ WriteReturn(Main, {FdLock(Fd(Main))}, n)
           /\ inode' = [inode EXCEPT ![i] = [@ EXCEPT !.block = b, !.size = NewSize(i, off + n)]]
           /\ UNCHANGED <<takenI, dir>>
        \/ Crash("undefined")
    BY <1>5 DEF WriteData
  <2> HIDE DEF n, b, off, cells
  <2>4. CASE /\ WriteReturn(Main, {FdLock(Fd(Main))}, n)
             /\ inode' = [inode EXCEPT ![i] = [@ EXCEPT !.block = b, !.size = NewSize(i, off + n)]]
             /\ UNCHANGED <<takenI, dir>>
    <3>1. SameNodes
      BY <2>2, <2>4, SizeOnly
    <3> QED
      BY <1>3, <2>4, <3>1
  <2> QED
    BY <1>3, <2>3, <2>4, CrashDirectory, SameDiskNodes DEF disk
<1> QED
  BY <1>4, <1>5 DEF Write

\* tfs_read moves an offset.
LEMMA ReadDirectory == ASSUME IInv, OneThread, Directory, Read(Main) PROVE Directory'
<1>1. pc[Main] \in {"entry", "size", "copy", "offset"}
  BY DEF Read, ReadEntry, ReadSize, ReadCopy, ReadOffset, At
<1>2. ~ Creating /\ ~ Adjusting
  BY <1>1, AtPlain DEF PlainLabels
<1>3. (pc'[Main] \in PlainLabels /\ UNCHANGED <<inode, takenI, dir>>) \/ Crash("assert")
  <2>1. CASE ReadEntry(Main)
    BY <2>1, MainGoes, MainLeaves DEF ReadEntry, Fail, Return, PlainLabels, disk
  <2>2. CASE ReadSize(Main)
    BY <2>2, MainGoes, MainLeaves DEF ReadSize, PlainLabels, disk
  <2>3. CASE ReadCopy(Main)
    BY <2>3, MainGoes DEF ReadCopy, PlainLabels, disk
  <2>4. CASE ReadOffset(Main)
    BY <2>4, MainLeaves DEF ReadOffset, PlainLabels, disk
  <2> QED
    BY <2>1, <2>2, <2>3, <2>4 DEF Read
<1> QED
  BY <1>2, <1>3, CrashDirectory, SameDiskNodes, PlainDirectory

\* A copy changes files by calling tfs_open, tfs_write and tfs_close.
LEMMA CopyDirectory == ASSUME IInv, OneThread, Directory, Copy(Main) PROVE Directory'
<1>1. pc[Main] \in {"idle", "lookup"}
  BY DEF Copy, CopyStart, CopyRefused, CopyChunk, CopyClose, CopyReturn, Between, At
<1>2. ~ Creating /\ ~ Adjusting
  BY <1>1, AtPlain DEF PlainLabels
<1>3. ASSUME NEW c, NEW l \in PlainLabels, Call(Main, c, l)
      PROVE  pc'[Main] \in PlainLabels /\ UNCHANGED <<inode, takenI, dir>>
  BY <1>3, TfsAssumption DEF Call, disk, IInv, Typed
<1>4. "lookup" \in PlainLabels /\ "entry" \in PlainLabels /\ "idle" \in PlainLabels
  BY DEF PlainLabels
<1>5. pc'[Main] \in PlainLabels /\ UNCHANGED <<inode, takenI, dir>>
  <2>1. CASE CopyStart(Main)
    BY <2>1, <1>3, <1>4, MainLeaves DEF CopyStart, Fail, Return, disk
  <2>2. CASE CopyRefused(Main)
    BY <2>2, <1>1, <1>4 DEF CopyRefused, disk, Between
  <2>3. CASE CopyChunk(Main)
    BY <2>3, <1>3, <1>4 DEF CopyChunk
  <2>4. CASE CopyClose(Main)
    BY <2>4, <1>3, <1>4 DEF CopyClose
  <2>5. CASE CopyReturn(Main)
    BY <2>5, <1>1, <1>4 DEF CopyReturn, disk, Between
  <2> QED
    BY <2>1, <2>2, <2>3, <2>4, <2>5 DEF Copy
<1> QED
  BY <1>2, <1>5, SameDiskNodes, PlainDirectory

-----------------------------------------------------------------------------
(* Making a node *)

\* The node that is being made is nobody else's: all other nodes, and the
\* directory, are as they were.
LEMMA StillCreating ==
  ASSUME IInv, Directory, Creating, Creating', UNCHANGED <<dir, takenI>>, I(Main)' = I(Main),
         \A i \in Inodes : i # I(Main) => inode'[i] = inode[i]
  PROVE  EntriesLive' /\ NamesApart' /\ AllCounted' /\ EntriesTo(I(Main))' = {} /\ I(Main)' \in takenI'
<1>1. \A e \in Entries : dir[e] # FreeEntry => dir[e].inum \in Inodes /\ dir[e].inum # I(Main)
  BY EntryKinds DEF IInv, Typed, Directory, NewInode, EntriesTo
<1>2. EntriesLive' /\ NamesApart'
  BY <1>1 DEF Directory, EntriesLive, NamesApart, Live
<1>3. ASSUME NEW i \in takenI, i # I(Main) PROVE Counted(i)'
  <2>1. Counted(i) /\ i \in Inodes
    BY <1>3 DEF Directory, AllCounted, IInv, Typed, TypeOK
  <2>2. Pending(i) = 0 /\ Pending(i)' = 0
    BY <1>3 DEF Pending
  <2> QED
    BY <1>3, <2>1, <2>2, CountKept, SameEntries
<1>4. AllCounted'
  BY <1>3 DEF AllCounted
<1> QED
  BY <1>2, <1>4, SameEntries DEF Directory, NewInode

\* The next inode that is free: no entry leads to it.
LEMMA InodeAllocDirectory == ASSUME IInv, OneThread, Directory, InodeAlloc(Main) PROVE Directory'
<1>0. pc[Main] = "alloc"
  BY DEF InodeAlloc
<1>1. ~ Creating /\ ~ Adjusting
  BY <1>0 DEF Creating, Adjusting
<1>2. CASE FreeInodes = {}
  BY <1>1, <1>2, FailDirectory DEF InodeAlloc
<1>3. CASE FreeInodes # {}
  <2> DEFINE i == First(FreeInodes)
  <2>1. i \in Inodes /\ i \notin takenI
    BY <1>3, FirstFree DEF FreeInodes
  <2>2. takenI' = takenI \cup {i} /\ Goto(Main, "init", [frame[Main] EXCEPT !.inum = i])
        /\ UNCHANGED <<inode, dir>>
    BY <1>3 DEF InodeAlloc
  <2> HIDE DEF i
  <2>3. frame[Main] \in Frames
    BY TfsAssumption DEF IInv, Typed
  <2>4. pc'[Main] = "init" /\ frame'[Main] = [frame[Main] EXCEPT !.inum = i]
    BY <2>2, MainGoes
  <2>5. I(Main)' = i /\ frame'[Main].call = frame[Main].call
    BY <2>3, <2>4 DEF I, Frames
  <2>6. EntriesTo(i) = {}
    <3>1. \A e \in Entries : dir[e].inum # i
      BY <2>1, EntryKinds, Sizes DEF IInv, Typed, Directory, EntriesLive, Live, Inodes
    <3> QED
      BY <3>1 DEF EntriesTo
  <2>7. EntriesLive' /\ NamesApart'
    BY <2>2 DEF Directory, EntriesLive, NamesApart, Live
  <2>8. NewInode' /\ NewName' /\ Found'
    BY <1>0, <2>2, <2>4, <2>5, <2>6, SameEntries DEF NewInode, NewName, Found, Directory, Creating, Adjusting
  <2>9. ASSUME NEW j \in takenI PROVE Counted(j)'
    <3>1. Counted(j) /\ j \in Inodes
      BY <1>1 DEF Directory, AllCounted, IInv, Typed, TypeOK
    <3>2. Pending(j) = 0 /\ Pending(j)' = 0
      BY <1>1, <2>4 DEF Pending, Adjusting
    <3> QED
      BY <2>2, <3>1, <3>2, CountKept, SameEntries
  <2>10. AllCounted'
    BY <2>2, <2>4, <2>5, <2>9 DEF AllCounted, Creating
  <2> QED
    BY <2>7, <2>8, <2>10 DEF Directory
<1> QED
  BY <1>2, <1>3

\* inode_create writes the type; the inode is not found yet.
LEMMA InodeInitDirectory == ASSUME IInv, OneThread, Directory, InodeInit(Main) PROVE Directory'
<1>0. pc[Main] = "init" /\ Op(Main) \in {"open", "symlink"}
  BY Inside, TfsAssumption DEF InodeInit, OpFits
<1>1. Creating /\ I(Main) \in Inodes
  BY <1>0, Now, TfsAssumption DEF Creating, WithInode
<1>2. inode \in [Inodes -> InodeRecords]
  BY IInvDisk DEF DiskOK
<1>3. UNCHANGED <<dir, takenI>>
  BY DEF InodeInit
<1>4. pc'[Main] \in {"finish", "abort"} /\ frame'[Main] = frame[Main]
  BY MainGoes DEF InodeInit
<1>5. I(Main)' = I(Main) /\ Op(Main)' = Op(Main)
  BY <1>4 DEF I, Op
<1>6. \E n, b : inode' = [inode EXCEPT ![I(Main)] = [@ EXCEPT !.type = Kind, !.size = n, !.block = b]]
  BY <1>0 DEF InodeInit, Kind
<1>7. inode'[I(Main)].type = Kind /\ \A i \in Inodes : i # I(Main) => inode'[i] = inode[i]
  <2>1. PICK n, b : inode' = [inode EXCEPT ![I(Main)] = [@ EXCEPT !.type = Kind, !.size = n, !.block = b]]
    BY <1>6
  <2>2. inode'[I(Main)] = [inode[I(Main)] EXCEPT !.type = Kind, !.size = n, !.block = b]
        /\ \A i \in Inodes : i # I(Main) => inode'[i] = inode[i]
    BY <1>1, <1>2, <2>1
  <2>3. inode[I(Main)] \in InodeRecords
    BY <1>1, <1>2
  <2>4. [inode[I(Main)] EXCEPT !.type = Kind, !.size = n, !.block = b].type = Kind
    BY <2>3 DEF InodeRecords
  <2> QED
    BY <2>2, <2>4
<1>8. Creating'
  BY <1>4 DEF Creating
<1>9. EntriesLive' /\ NamesApart' /\ AllCounted' /\ EntriesTo(I(Main))' = {} /\ I(Main)' \in takenI'
  BY <1>1, <1>3, <1>5, <1>7, <1>8, StillCreating
<1>10. Kind' = Kind
  BY <1>5 DEF Kind
<1>11. NewInode'
  BY <1>4, <1>5, <1>7, <1>9, <1>10 DEF NewInode
<1>12. NewName' /\ Found'
  BY <1>0, <1>3, <1>4, SameEntries DEF NewName, Found, Adjusting, Directory
<1> QED
  BY <1>9, <1>11, <1>12 DEF Directory

\* inode_create's end: the inode is live and has one link, the name to come.
LEMMA InodeFinishDirectory == ASSUME IInv, OneThread, Directory, InodeFinish(Main) PROVE Directory'
<1>0. pc[Main] = "finish" /\ Op(Main) \in {"open", "symlink"}
  BY Inside, TfsAssumption DEF InodeFinish, OpFits
<1>1. Creating /\ I(Main) \in Inodes
  BY <1>0, Now, TfsAssumption DEF Creating, WithInode
<1>2. inode \in [Inodes -> InodeRecords]
  BY IInvDisk DEF DiskOK
<1>3. UNCHANGED <<dir, takenI>>
  BY DEF InodeFinish
<1>4. pc'[Main] = "created" /\ frame'[Main] = frame[Main]
  BY MainGoes DEF InodeFinish
<1>5. I(Main)' = I(Main) /\ Op(Main)' = Op(Main)
  BY <1>4 DEF I, Op
<1>6. inode'[I(Main)] = [inode[I(Main)] EXCEPT !.state = "TAKEN", !.links = 1]
      /\ \A i \in Inodes : i # I(Main) => inode'[i] = inode[i]
  BY <1>1, <1>2 DEF InodeFinish
<1>7. inode'[I(Main)].state = "TAKEN" /\ inode'[I(Main)].links = 1 /\ inode'[I(Main)].type = inode[I(Main)].type
  <2>1. inode[I(Main)] \in InodeRecords
    BY <1>1, <1>2
  <2> QED
    BY <1>6, <2>1 DEF InodeRecords
<1>8. Creating'
  BY <1>4 DEF Creating
<1>9. EntriesLive' /\ NamesApart' /\ AllCounted' /\ EntriesTo(I(Main))' = {} /\ I(Main)' \in takenI'
  BY <1>1, <1>3, <1>5, <1>6, <1>8, StillCreating
<1>10. Kind' = Kind
  BY <1>5 DEF Kind
<1>11. NewInode'
  BY <1>0, <1>1, <1>4, <1>5, <1>7, <1>9, <1>10 DEF NewInode, Directory
<1>12. NewName' /\ Found'
  BY <1>0, <1>3, <1>4, SameEntries DEF NewName, Found, Adjusting, Directory
<1> QED
  BY <1>9, <1>11, <1>12 DEF Directory

\* A node that is deleted, and that no entry leads to, is missed by nobody.
LEMMA DeletedDirectory ==
  ASSUME IInv, Directory, InodeDelete(I(Main)), UNCHANGED dir, EntriesTo(I(Main)) = {}, I(Main) \in Inodes,
         pc'[Main] \in PlainLabels
  PROVE  Directory'
<1>1. inode \in [Inodes -> InodeRecords]
  BY IInvDisk DEF DiskOK
<1>2. takenI' = takenI \ {I(Main)} /\ \A i \in Inodes : i # I(Main) => inode'[i] = inode[i]
  BY <1>1 DEF InodeDelete
<1>3. \A e \in Entries : dir[e] # FreeEntry => dir[e].inum \in Inodes /\ dir[e].inum # I(Main)
  BY EntryKinds DEF IInv, Typed, EntriesTo
<1>4. EntriesLive' /\ NamesApart'
  BY <1>2, <1>3 DEF Directory, EntriesLive, NamesApart, Live
<1>5. (NewName /\ NewInode /\ Found /\ ~ Creating /\ ~ Adjusting)'
  BY PlainLabel
<1>6. ASSUME NEW i \in takenI, i # I(Main) PROVE Counted(i)'
  <2>1. Counted(i) /\ i \in Inodes
    BY <1>6 DEF Directory, AllCounted, IInv, Typed, TypeOK
  <2>2. Pending(i) = 0 /\ Pending(i)' = 0
    BY <1>5, <1>6 DEF Pending
  <2> QED
    BY <1>2, <1>6, <2>1, <2>2, CountKept, SameEntries
<1>7. AllCounted'
  BY <1>2, <1>6 DEF AllCounted
<1> QED
  BY <1>4, <1>5, <1>7 DEF Directory

\* inode_delete after a failure.
LEMMA AbortDirectory == ASSUME IInv, OneThread, Directory, Abort(Main) PROVE Directory'
<1>0. pc[Main] = "abort" /\ Op(Main) \in {"open", "symlink"}
  BY Inside, TfsAssumption DEF Abort, OpFits
<1>1. Creating /\ I(Main) \in Inodes
  BY <1>0, Now, TfsAssumption DEF Creating, WithInode
<1>2. EntriesTo(I(Main)) = {} /\ I(Main) \in takenI
  BY <1>1 DEF Directory, NewInode
<1>3. InodeDelete(I(Main)) /\ UNCHANGED dir
  BY <1>2 DEF Abort
<1>4. pc'[Main] \in PlainLabels
  BY <1>2, MainLeaves DEF Abort, Return, PlainLabels
<1> QED
  BY <1>1, <1>2, <1>3, <1>4, DeletedDirectory

\* The new node that has its first name.
LEMMA PublishedDirectory ==
  ASSUME IInv, Directory, pc[Main] \in {"created", "add"}, Creating, FreeEntries # {}, I(Main) \in Inodes,
         frame[Main].call.name \in Names, AddDirEntry(frame[Main].call.name, I(Main)),
         UNCHANGED <<inode, takenI>>, pc'[Main] \in PlainLabels
  PROVE  Directory'
<1>1. PICK i \in Inodes, n \in Names : i = I(Main) /\ n = frame[Main].call.name
  OBVIOUS
<1>2. EntriesFor(n) = {} /\ TypeOK /\ NamesApart /\ AddDirEntry(n, i)
  BY <1>1 DEF Directory, NewName, IInv, Typed
<1>3. /\ NamesApart'
      /\ \A e \in Entries : dir'[e] # FreeEntry => dir'[e] = dir[e] \/ dir'[e].inum = i
      /\ \A j \in Inodes : j # i => EntriesTo(j)' = EntriesTo(j)
      /\ Cardinality(EntriesTo(i)') = Cardinality(EntriesTo(i)) + 1
  BY <1>2, EntryAdded
<1>4. Live(i) /\ inode[i].links = 1 /\ EntriesTo(i) = {}
  BY <1>1 DEF Directory, NewInode, Live
<1>5. EntriesLive'
  BY <1>3, <1>4 DEF Directory, EntriesLive, Live
<1>6. (NewName /\ NewInode /\ Found /\ ~ Creating /\ ~ Adjusting)'
  BY PlainLabel
<1>7. ASSUME NEW j \in takenI, j # i PROVE Counted(j)'
  <2>1. Counted(j) /\ j \in Inodes
    BY <1>1, <1>7 DEF Directory, AllCounted, IInv, Typed, TypeOK
  <2>2. Pending(j) = 0 /\ Pending(j)' = 0
    BY <1>1, <1>6, <1>7 DEF Pending
  <2> QED
    BY <1>3, <1>7, <2>1, <2>2, CountKept
<1>8. Counted(i)'
  <2>1. Cardinality(EntriesTo(i)') = 1
    <3>1. Cardinality(EntriesTo(i)) = 0
      BY <1>4, FiniteEntries
    <3> QED
      BY <1>3, <3>1
  <2>2. Pending(i)' = 0
    BY <1>6 DEF Pending
  <2> QED
    BY <1>4, <2>1, <2>2 DEF Counted
<1>9. AllCounted'
  BY <1>7, <1>8 DEF AllCounted
<1> QED
  BY <1>3, <1>5, <1>6, <1>9 DEF Directory

\* A file that tfs_open has created gets its name, or is about to be deleted.
LEMMA OpenPublishDirectory == ASSUME IInv, OneThread, Directory, OpenPublish(Main) PROVE Directory'
<1>0. pc[Main] = "created" /\ Op(Main) = "open"
  BY DEF OpenPublish, At
<1>1. Creating /\ I(Main) \in Inodes /\ frame[Main].call.name \in Names
  BY <1>0, Now, CallFields, TfsAssumption DEF Creating, WithInode, Op
<1>2. CASE FreeEntries # {}
  <2>1. pc'[Main] \in PlainLabels
    BY <1>2, MainGoes DEF OpenPublish, PlainLabels
  <2> QED
    BY <1>0, <1>1, <1>2, <2>1, PublishedDirectory DEF OpenPublish
<1>3. CASE FreeEntries = {}
  <2>1. pc'[Main] = "abort" /\ frame'[Main] = frame[Main] /\ UNCHANGED disk
    BY <1>3, MainGoes DEF OpenPublish
  <2>2. I(Main)' = I(Main) /\ Kind' = Kind /\ Creating' /\ UNCHANGED <<dir, takenI, inode>>
    BY <2>1 DEF I, Kind, Op, Creating, disk
  <2>3. EntriesLive' /\ NamesApart' /\ AllCounted' /\ EntriesTo(I(Main))' = {} /\ I(Main)' \in takenI'
    BY <1>1, <2>2, StillCreating
  <2>4. NewInode'
    BY <1>0, <1>1, <2>1, <2>2, <2>3 DEF NewInode, Directory
  <2>5. NewName' /\ Found'
    BY <2>1 DEF NewName, Found, Adjusting
  <2> QED
    BY <2>3, <2>4, <2>5 DEF Directory
<1> QED
  BY <1>2, <1>3

-----------------------------------------------------------------------------
(* tfs_sym_link *)

\* The target is found or the call fails.
LEMMA SymLookupDirectory == ASSUME IInv, OneThread, Directory, SymLookup(Main) PROVE Directory'
<1>1. ~ Creating /\ ~ Adjusting
  BY AtPlain DEF SymLookup, At, PlainLabels
<1>2. ASSUME NEW f, Goto(Main, "target", f), UNCHANGED disk PROVE Directory'
  BY <1>1, <1>2, MainGoes, SameDiskNodes, PlainDirectory DEF disk, PlainLabels
<1> QED
  BY <1>1, <1>2, FailDirectory DEF SymLookup

\* The link's name is not there.
LEMMA SymTargetDirectory == ASSUME IInv, OneThread, Directory, SymTarget(Main) PROVE Directory'
<1> DEFINE n == frame[Main].call.name
<1>1. ~ Creating /\ ~ Adjusting
  BY AtPlain DEF SymTarget, At, PlainLabels
<1>2. CASE Lookup(n) # None
  BY <1>1, <1>2, FailDirectory DEF SymTarget
<1>3. CASE Lookup(n) = None
  <2>1. pc'[Main] = "alloc" /\ frame'[Main] = frame[Main] /\ UNCHANGED disk
    BY <1>3, MainGoes DEF SymTarget
  <2>2. SameNodes /\ UNCHANGED dir
    BY <2>1, SameDiskNodes DEF disk
  <2>3. EntriesFor(n) = {}
    BY <1>3, LookupFinds DEF IInv, Typed, Directory
  <2>4. NewName'
    BY <2>1, <2>2, <2>3, SameEntries DEF NewName
  <2>5. (~ Creating /\ ~ Adjusting /\ Found)'
    BY <2>1 DEF Creating, Adjusting, Found
  <2> QED
    BY <1>1, <2>2, <2>4, <2>5, PlainStep
<1> QED
  BY <1>2, <1>3

\* The target's name is written to the link's block.
LEMMA SymWriteDirectory == ASSUME IInv, OneThread, Directory, SymWrite(Main) PROVE Directory'
<1>0. pc[Main] = "created" /\ Op(Main) = "symlink"
  BY DEF SymWrite, At
<1>1. Creating /\ I(Main) \in Inodes
  BY <1>0, Now, TfsAssumption DEF Creating, WithInode
<1>2. CASE inode[I(Main)].block = None
  BY <1>2, CrashDirectory DEF SymWrite
<1>3. CASE inode[I(Main)].block # None
  <2>1. inode \in [Inodes -> InodeRecords]
    BY IInvDisk DEF DiskOK
  <2>2. inode' = [inode EXCEPT ![I(Main)].size = 1] /\ UNCHANGED <<dir, takenI>>
    BY <1>3 DEF SymWrite
  <2>3. SameNodes /\ \A i \in Inodes : i # I(Main) => inode'[i] = inode[i]
    BY <1>1, <2>1, <2>2, SizeOnly
  <2>4. pc'[Main] = "add" /\ frame'[Main] = frame[Main]
    BY <1>3, MainGoes DEF SymWrite
  <2>5. I(Main)' = I(Main) /\ Op(Main)' = Op(Main) /\ Kind' = Kind /\ Creating'
    BY <1>0, <2>4 DEF I, Op, Kind, Creating
  <2>6. EntriesLive' /\ NamesApart' /\ AllCounted' /\ EntriesTo(I(Main))' = {} /\ I(Main)' \in takenI'
    BY <1>1, <2>2, <2>3, <2>5, StillCreating
  <2>7. NewInode'
    BY <1>0, <1>1, <2>3, <2>5, <2>6 DEF NewInode, Directory, SameNodes
  <2>8. NewName' /\ Found'
    BY <1>0, <2>2, <2>4, <2>5, SameEntries DEF NewName, Found, Adjusting, Directory
  <2> QED
    BY <2>6, <2>7, <2>8 DEF Directory
<1> QED
  BY <1>2, <1>3

\* The link gets its name; or it stays without one for ever.
LEMMA SymAddDirectory == ASSUME IInv, OneThread, Directory, SymAdd(Main) PROVE Directory'
<1>0. pc[Main] = "add" /\ Op(Main) = "symlink"
  BY DEF SymAdd, At
<1>1. Creating /\ I(Main) \in Inodes /\ frame[Main].call.name \in Names
  BY <1>0, Now, CallFields, TfsAssumption DEF Creating, WithInode, Op
<1>2. pc'[Main] \in PlainLabels
  BY MainLeaves DEF SymAdd, Fail, Return, PlainLabels
<1>3. CASE FreeEntries # {}
  BY <1>0, <1>1, <1>2, <1>3, PublishedDirectory DEF SymAdd
<1>4. CASE FreeEntries = {}
  <2>1. UNCHANGED <<inode, takenI, dir>>
    BY <1>4 DEF SymAdd, Fail, disk
  <2>2. SameNodes
    BY <2>1, SameDiskNodes
  <2>3. EntriesLive' /\ NamesApart'
    BY <2>2, NodesKept DEF Directory
  <2>4. (NewName /\ NewInode /\ Found /\ ~ Creating /\ ~ Adjusting)'
    BY <1>2, PlainLabel
  <2>5. ASSUME NEW j \in takenI PROVE Counted(j)'
    <3>1. j \in Inodes /\ Pending(j) = 0 /\ Pending(j)' = 0
      BY <1>0, <2>4 DEF IInv, Typed, TypeOK, Pending, Adjusting
    <3>2. CASE j = I(Main)
      <4>1. inode[j].type = "SYMLINK" /\ inode[j].links = 1 /\ EntriesTo(j) = {}
        BY <1>0, <1>1, <3>2 DEF Directory, NewInode, Kind
      <4>2. Cardinality(EntriesTo(j)) = 0
        BY <4>1, FiniteEntries
      <4>3. Counted(j)
        BY <3>1, <4>1, <4>2 DEF Counted
      <4> QED
        BY <2>1, <3>1, <4>3, CountKept, SameEntries
    <3>3. CASE j # I(Main)
      <4>1. Counted(j)
        BY <3>3 DEF Directory, AllCounted
      <4> QED
        BY <2>1, <3>1, <4>1, CountKept, SameEntries
    <3> QED
      BY <3>2, <3>3
  <2>6. AllCounted'
    BY <2>1, <2>5 DEF AllCounted
  <2> QED
    BY <2>3, <2>4, <2>6 DEF Directory
<1> QED
  BY <1>3, <1>4

-----------------------------------------------------------------------------
(* tfs_link *)

\* A file is found under the target's name, and stays.
LEMMA LinkFindsDirectory ==
  ASSUME IInv, OneThread, Directory, LinkLookup(Main) \/ LinkType(Main) \/ LinkName(Main)
  PROVE  Directory'
<1>0. pc[Main] \in {"lookup", "type", "name"} /\ Op(Main) = "link"
  BY DEF LinkLookup, LinkType, LinkName, At
<1>1. ~ Creating /\ ~ Adjusting
  BY <1>0 DEF Creating, Adjusting
<1>2. TypeOK /\ EntriesLive /\ frame[Main] \in Frames
  BY TfsAssumption DEF Directory, IInv, Typed
<1>3. ASSUME UNCHANGED disk, pc'[Main] \in {"type", "name", "add"}, Op(Main)' = "link", Live(I(Main)'),
             pc'[Main] # "type" => inode[I(Main)'].type = "FILE",
             pc'[Main] = "add" => EntriesFor(frame'[Main].call.name) = {}
      PROVE  Directory'
  <2>1. SameNodes /\ UNCHANGED <<dir, inode, takenI>>
    BY <1>3, SameDiskNodes DEF disk
  <2>2. (~ Creating /\ ~ Adjusting)'
    BY <1>3 DEF Creating, Adjusting
  <2>3. NewName'
    BY <1>3, <2>1, SameEntries DEF NewName
  <2>4. Found'
    BY <1>3, <2>1, <2>2 DEF Found, Live
  <2> QED
    BY <1>1, <2>1, <2>2, <2>3, <2>4, PlainStep
<1>4. CASE LinkLookup(Main)
  <2> DEFINE i == Lookup(frame[Main].call.target)
  <2>1. CASE i # None
    <3>1. pc'[Main] = "type" /\ frame'[Main] = [frame[Main] EXCEPT !.inum = i] /\ UNCHANGED disk
      BY <1>4, <2>1, MainGoes DEF LinkLookup
    <3>2. Live(i)
      BY <1>2, <2>1, LookupFinds
    <3> HIDE DEF i
    <3>3. I(Main)' = i /\ Op(Main)' = "link"
      BY <1>0, <1>2, <3>1 DEF I, Op, Frames
    <3> QED
      BY <1>3, <3>1, <3>2, <3>3
  <2> QED
    BY <1>1, <1>4, <2>1, FailDirectory, CrashDirectory DEF LinkLookup
<1>5. CASE LinkType(Main)
  <2>1. CASE inode[I(Main)].type # "FILE"
    BY <1>1, <1>5, <2>1, FailDirectory DEF LinkType
  <2>2. CASE inode[I(Main)].type = "FILE"
    <3>1. pc[Main] = "type" /\ pc'[Main] = "name" /\ frame'[Main] = frame[Main] /\ UNCHANGED disk
      BY <1>5, <2>2, MainGoes DEF LinkType, At
    <3>2. I(Main)' = I(Main) /\ Op(Main)' = "link"
      BY <1>0, <3>1 DEF I, Op
    <3>3. Live(I(Main))
      BY <1>0, <3>1 DEF Directory, Found
    <3> QED
      BY <1>3, <2>2, <3>1, <3>2, <3>3
  <2> QED
    BY <2>1, <2>2
<1>6. CASE LinkName(Main)
  <2>1. CASE Lookup(frame[Main].call.name) # None
    BY <1>1, <1>6, <2>1, FailDirectory DEF LinkName
  <2>2. CASE Lookup(frame[Main].call.name) = None
    <3>1. pc[Main] = "name" /\ pc'[Main] = "add" /\ frame'[Main] = frame[Main] /\ UNCHANGED disk
      BY <1>6, <2>2, MainGoes DEF LinkName, At
    <3>2. I(Main)' = I(Main) /\ Op(Main)' = "link"
      BY <1>0, <3>1 DEF I, Op
    <3>3. Live(I(Main)) /\ inode[I(Main)].type = "FILE"
      BY <1>0, <3>1 DEF Directory, Found
    <3>4. EntriesFor(frame[Main].call.name) = {}
      BY <1>2, <2>2, LookupFinds
    <3> QED
      BY <1>3, <3>1, <3>2, <3>3, <3>4
  <2> QED
    BY <2>1, <2>2
<1> QED
  BY <1>4, <1>5, <1>6

\* The name is added: hard_links is one behind until tfs_link's last step.
LEMMA LinkAddDirectory == ASSUME IInv, OneThread, Directory, LinkAdd(Main) PROVE Directory'
<1>0. pc[Main] = "add" /\ Op(Main) = "link"
  BY DEF LinkAdd, At
<1>1. ~ Creating /\ ~ Adjusting
  BY <1>0 DEF Creating, Adjusting
<1>2. CASE FreeEntries = {}
  BY <1>1, <1>2, FailDirectory DEF LinkAdd
<1>3. CASE FreeEntries # {}
  <2>1. I(Main) \in Inodes /\ frame[Main].call.name \in Names
    BY <1>0, Now, CallFields, TfsAssumption DEF WithInode, Op
  <2>2. PICK i \in Inodes, n \in Names : i = I(Main) /\ n = frame[Main].call.name
    BY <2>1
  <2>3. AddDirEntry(n, i) /\ UNCHANGED <<inode, takenI>> /\ pc'[Main] = "read" /\ frame'[Main] = frame[Main]
    BY <1>3, <2>2, MainGoes DEF LinkAdd
  <2>4. EntriesFor(n) = {} /\ TypeOK /\ NamesApart /\ Live(i) /\ inode[i].type = "FILE"
    BY <1>0, <2>2 DEF Directory, NewName, Found, IInv, Typed
  <2>5. /\ NamesApart'
        /\ \A e \in Entries : dir'[e] # FreeEntry => dir'[e] = dir[e] \/ dir'[e].inum = i
        /\ \A j \in Inodes : j # i => EntriesTo(j)' = EntriesTo(j)
        /\ Cardinality(EntriesTo(i)') = Cardinality(EntriesTo(i)) + 1
    BY <1>3, <2>3, <2>4, EntryAdded
  <2>6. EntriesLive'
    BY <2>3, <2>4, <2>5 DEF Directory, EntriesLive, Live
  <2>7. I(Main)' = i /\ Op(Main)' = "link" /\ ~ Creating' /\ Adjusting'
    BY <1>0, <2>2, <2>3 DEF I, Op, Creating, Adjusting
  <2>8. ASSUME NEW j \in takenI, j # i PROVE Counted(j)'
    <3>1. Counted(j) /\ j \in Inodes
      BY <1>1 DEF Directory, AllCounted, IInv, Typed, TypeOK
    <3>2. Pending(j) = 0 /\ Pending(j)' = 0
      BY <1>1, <2>7, <2>8 DEF Pending
    <3> QED
      BY <2>3, <2>5, <2>8, <3>1, <3>2, CountKept
  <2>9. Counted(i)'
    <3>1. Counted(i) /\ Pending(i) = 0
      BY <1>1, <2>4 DEF Directory, AllCounted, Live, Pending
    <3>2. inode[i].links = Cardinality(EntriesTo(i)) /\ Cardinality(EntriesTo(i)) \in Nat
      BY <2>4, <3>1, FiniteEntries DEF Counted
    <3>3. Pending(i)' = -1
      BY <2>7 DEF Pending
    <3>4. inode'[i].links = Cardinality(EntriesTo(i)') + Pending(i)'
      BY <2>3, <2>5, <3>2, <3>3
    <3>5. inode'[i].type = "FILE"
      BY <2>3, <2>4
    <3> QED
      BY <3>4, <3>5 DEF Counted
  <2>10. AllCounted'
    BY <2>3, <2>8, <2>9 DEF AllCounted
  <2>11. NewInode' /\ NewName'
    BY <2>3, <2>7 DEF NewInode, NewName
  <2>12. Found'
    BY <2>3, <2>4, <2>7 DEF Found, Live
  <2> QED
    BY <2>5, <2>6, <2>10, <2>11, <2>12 DEF Directory
<1> QED
  BY <1>2, <1>3

\* hard_links is read: nobody changes it before it is written.
LEMMA ReadLinksDirectory ==
  ASSUME IInv, OneThread, Directory, LinkRead(Main) \/ UnlinkRead(Main)
  PROVE  Directory'
<1>0. pc[Main] = "read" /\ Op(Main) \in {"link", "unlink"} /\ UNCHANGED disk
  BY DEF LinkRead, UnlinkRead, At
<1>1. pc'[Main] = (IF Op(Main) = "link" THEN "write" ELSE "drop")
      /\ frame'[Main] = [frame[Main] EXCEPT !.tmp = inode[I(Main)].links]
  BY MainGoes DEF LinkRead, UnlinkRead, At
<1>2. frame[Main] \in Frames
  BY TfsAssumption DEF IInv, Typed
<1>3. I(Main)' = I(Main) /\ Op(Main)' = Op(Main) /\ frame'[Main].tmp = inode[I(Main)].links
  BY <1>1, <1>2 DEF I, Op, Frames
<1>4. UNCHANGED <<inode, takenI, dir>> /\ SameNodes
  BY <1>0, SameDiskNodes DEF disk
<1>5. ~ Creating /\ ~ Creating' /\ Adjusting /\ Adjusting'
  BY <1>0, <1>1, <1>3 DEF Creating, Adjusting
<1>6. EntriesLive' /\ NamesApart'
  BY <1>4, NodesKept DEF Directory
<1>7. ASSUME NEW j \in takenI PROVE Counted(j)'
  <2>1. Counted(j) /\ j \in Inodes
    BY <1>5 DEF Directory, AllCounted, IInv, Typed, TypeOK
  <2>2. Pending(j)' = Pending(j)
    BY <1>3, <1>5 DEF Pending
  <2> QED
    BY <1>4, <2>1, <2>2, CountKept, SameEntries
<1>8. AllCounted'
  BY <1>4, <1>7 DEF AllCounted
<1>9. NewInode' /\ NewName'
  BY <1>1, <1>5 DEF NewInode, NewName
<1>10. Found'
  BY <1>0, <1>1, <1>3, <1>4, <1>5 DEF Found, Directory
<1> QED
  BY <1>6, <1>8, <1>9, <1>10 DEF Directory

\* A file's hard_links is written: it has caught up with the directory.
LEMMA CaughtUp ==
  ASSUME IInv, Directory, NEW i \in Inodes, NEW k \in Nat, Adjusting, i = I(Main), ~ Creating,
         inode' = [inode EXCEPT ![i].links = k], UNCHANGED <<takenI, dir>>, pc'[Main] \in PlainLabels,
         inode[i].type = "FILE" /\ k = Cardinality(EntriesTo(i))
  PROVE  Directory'
<1>1. inode \in [Inodes -> InodeRecords]
  BY IInvDisk DEF DiskOK
<1>2. inode'[i] = [inode[i] EXCEPT !.links = k] /\ \A j \in Inodes : j # i => inode'[j] = inode[j]
  BY <1>1
<1>3. inode'[i].links = k /\ inode'[i].state = inode[i].state /\ inode'[i].type = inode[i].type
  <2>1. inode[i] \in InodeRecords
    BY <1>1
  <2> QED
    BY <1>2, <2>1 DEF InodeRecords
<1>4. \A e \in Entries : dir[e] # FreeEntry => dir[e].inum \in Inodes
  BY EntryKinds DEF IInv, Typed
<1>5. EntriesLive' /\ NamesApart'
  <2>1. \A j \in Inodes : inode'[j].state = inode[j].state
    BY <1>2, <1>3
  <2> QED
    BY <1>4, <2>1 DEF Directory, EntriesLive, NamesApart, Live
<1>6. (NewName /\ NewInode /\ Found /\ ~ Creating /\ ~ Adjusting)'
  BY PlainLabel
<1>7. ASSUME NEW j \in takenI, j # i PROVE Counted(j)'
  <2>1. Counted(j) /\ j \in Inodes
    BY DEF Directory, AllCounted, IInv, Typed, TypeOK
  <2>2. Pending(j) = 0 /\ Pending(j)' = 0
    BY <1>6, <1>7 DEF Pending
  <2> QED
    BY <1>2, <1>7, <2>1, <2>2, CountKept, SameEntries
<1>8. Counted(i)'
  <2>1. Pending(i)' = 0 /\ EntriesTo(i)' = EntriesTo(i) /\ Cardinality(EntriesTo(i)) \in Nat
    BY <1>6, SameEntries, FiniteEntries DEF Pending
  <2> QED
    BY <1>3, <2>1 DEF Counted
<1>9. AllCounted'
  BY <1>7, <1>8 DEF AllCounted
<1> QED
  BY <1>5, <1>6, <1>9 DEF Directory

\* tfs_link's last step.
LEMMA LinkWriteDirectory == ASSUME IInv, OneThread, Directory, LinkWrite(Main) PROVE Directory'
<1>0. pc[Main] = "write" /\ Op(Main) = "link"
  BY DEF LinkWrite, At
<1>1. I(Main) \in Inodes
  BY <1>0, Now, TfsAssumption DEF WithInode
<1>2. PICK i \in Inodes : i = I(Main)
  BY <1>1
<1>3. Adjusting /\ ~ Creating /\ Pending(i) = -1
  BY <1>0, <1>2 DEF Adjusting, Creating, Pending
<1>4. Counted(i) /\ inode[i].type = "FILE" /\ frame[Main].tmp = inode[i].links
  BY <1>0, <1>2, <1>3 DEF Directory, AllCounted, Found
<1>5. inode[i].links = Cardinality(EntriesTo(i)) - 1 /\ Cardinality(EntriesTo(i)) \in Nat
  BY <1>3, <1>4, FiniteEntries DEF Counted
<1>6. inode' = [inode EXCEPT ![i].links = Cardinality(EntriesTo(i))]
  <2>1. frame[Main].tmp + 1 = Cardinality(EntriesTo(i))
    BY <1>4, <1>5
  <2> QED
    BY <1>2, <2>1 DEF LinkWrite
<1>7. pc'[Main] \in PlainLabels
  BY MainLeaves DEF LinkWrite, Return, PlainLabels
<1>8. UNCHANGED <<takenI, dir>>
  BY DEF LinkWrite
<1> QED
  BY <1>2, <1>3, <1>4, <1>5, <1>6, <1>7, <1>8, CaughtUp

-----------------------------------------------------------------------------
(* tfs_unlink *)

\* The name is found.
LEMMA UnlinkLookupDirectory == ASSUME IInv, OneThread, Directory, UnlinkLookup(Main) PROVE Directory'
<1>0. pc[Main] = "lookup" /\ Op(Main) = "unlink"
  BY DEF UnlinkLookup, At
<1>1. ~ Creating /\ ~ Adjusting
  BY <1>0 DEF Creating, Adjusting
<1> DEFINE n == frame[Main].call.name
           i == Lookup(n)
<1>2. CASE i = None
  BY <1>1, <1>2, FailDirectory DEF UnlinkLookup
<1>3. CASE i # None
  <2>1. pc'[Main] = "clear" /\ frame'[Main] = [frame[Main] EXCEPT !.inum = i] /\ UNCHANGED disk
    BY <1>3, MainGoes DEF UnlinkLookup
  <2>2. i = dir[First(EntriesFor(n))].inum /\ EntriesFor(n) # {}
    BY <1>3, LookupFinds DEF IInv, Typed, Directory
  <2> HIDE DEF i
  <2>3. frame[Main] \in Frames
    BY TfsAssumption DEF IInv, Typed
  <2>4. I(Main)' = i /\ Op(Main)' = "unlink" /\ frame'[Main].call = frame[Main].call
    BY <1>0, <2>1, <2>3 DEF I, Op, Frames
  <2>5. SameNodes /\ UNCHANGED dir
    BY <2>1, SameDiskNodes DEF disk
  <2>6. EntriesFor(frame[Main].call.name)' = EntriesFor(n)
    BY <2>4, <2>5 DEF EntriesFor
  <2>7. ~ Creating' /\ ~ Adjusting' /\ NewName'
    BY <2>1 DEF Creating, Adjusting, NewName
  <2>8. Found'
    BY <2>1, <2>2, <2>4, <2>5, <2>6, <2>7 DEF Found
  <2> QED
    BY <1>1, <2>5, <2>7, <2>8, PlainStep
<1> QED
  BY <1>2, <1>3

\* The entry is cleared: hard_links counts one too many until the last step.
LEMMA UnlinkClearDirectory == ASSUME IInv, OneThread, Directory, UnlinkClear(Main) PROVE Directory'
<1>0. pc[Main] = "clear" /\ Op(Main) = "unlink"
  BY DEF UnlinkClear, At
<1>1. ~ Creating /\ ~ Adjusting
  BY <1>0 DEF Creating, Adjusting
<1>2. I(Main) \in Inodes /\ frame[Main].call.name \in Names
  BY <1>0, Now, CallFields, TfsAssumption DEF WithInode, Op
<1>3. PICK i \in Inodes, n \in Names : i = I(Main) /\ n = frame[Main].call.name
  BY <1>2
<1>4. EntriesFor(n) # {} /\ dir[First(EntriesFor(n))].inum = i /\ TypeOK /\ NamesApart
  BY <1>0, <1>3 DEF Directory, Found, IInv, Typed
<1>5. ClearDirEntry(n) /\ UNCHANGED <<inode, takenI>> /\ pc'[Main] = "read" /\ frame'[Main] = frame[Main]
  BY <1>3, <1>4, MainGoes DEF UnlinkClear
<1>6. /\ NamesApart'
      /\ \A e \in Entries : dir'[e] # FreeEntry => dir'[e] = dir[e]
      /\ \A j \in Inodes : j # i => EntriesTo(j)' = EntriesTo(j)
      /\ Cardinality(EntriesTo(i)') = Cardinality(EntriesTo(i)) - 1
  BY <1>4, <1>5, EntryCleared
<1>7. Live(i)
  <2>1. First(EntriesFor(n)) \in Entries /\ dir[First(EntriesFor(n))].inum # None
    BY <1>4, FirstEntry DEF EntriesFor
  <2> DEFINE e == First(EntriesFor(n))
  <2> HIDE DEF e
  <2>2. e \in Entries /\ dir[e].inum # None /\ dir[e].inum = i
    BY <1>4, <2>1 DEF e
  <2>3. dir[e] # FreeEntry
    BY <1>4, <2>2, EntryKinds
  <2> QED
    BY <2>2, <2>3 DEF Directory, EntriesLive
<1>8. EntriesLive'
  BY <1>5, <1>6 DEF Directory, EntriesLive, Live
<1>9. I(Main)' = i /\ Op(Main)' = "unlink" /\ ~ Creating' /\ Adjusting'
  BY <1>0, <1>3, <1>5 DEF I, Op, Creating, Adjusting
<1>10. ASSUME NEW j \in takenI, j # i PROVE Counted(j)'
  <2>1. Counted(j) /\ j \in Inodes
    BY <1>1 DEF Directory, AllCounted, IInv, Typed, TypeOK
  <2>2. Pending(j) = 0 /\ Pending(j)' = 0
    BY <1>1, <1>9, <1>10 DEF Pending
  <2> QED
    BY <1>5, <1>6, <1>10, <2>1, <2>2, CountKept
<1>11. Counted(i)'
  <2>1. Counted(i) /\ Pending(i) = 0 /\ Pending(i)' = 1
    BY <1>1, <1>7, <1>9 DEF Directory, AllCounted, Live, Pending
  <2>2. Cardinality(EntriesTo(i)) \in Nat /\ Cardinality(EntriesTo(i)') = Cardinality(EntriesTo(i)) - 1
    BY <1>6, FiniteEntries
  <2>3. Cardinality(EntriesTo(i)') + Pending(i)' = Cardinality(EntriesTo(i)) + Pending(i)
    BY <2>1, <2>2
  <2> QED
    BY <1>5, <2>1, <2>3 DEF Counted
<1>12. AllCounted'
  BY <1>5, <1>10, <1>11 DEF AllCounted
<1>13. NewInode' /\ NewName' /\ Found'
  BY <1>5, <1>7, <1>9 DEF NewInode, NewName, Found, Live
<1> QED
  BY <1>6, <1>8, <1>12, <1>13 DEF Directory

\* The node goes with its last name, or has one link less.
LEMMA UnlinkDropDirectory == ASSUME IInv, OneThread, Directory, UnlinkDrop(Main) PROVE Directory'
<1>0. pc[Main] = "drop" /\ Op(Main) = "unlink"
  BY DEF UnlinkDrop, At
<1>1. I(Main) \in Inodes
  BY <1>0, Now, TfsAssumption DEF WithInode
<1>2. PICK i \in Inodes : i = I(Main)
  BY <1>1
<1>3. Adjusting /\ ~ Creating /\ Pending(i) = 1
  BY <1>0, <1>2 DEF Adjusting, Creating, Pending
<1>4. Counted(i) /\ i \in takenI /\ frame[Main].tmp = inode[i].links
  BY <1>0, <1>2, <1>3 DEF Directory, AllCounted, Found
<1>5. Cardinality(EntriesTo(i)) \in Nat
  BY FiniteEntries
<1>6. pc'[Main] \in PlainLabels
  BY <1>2, <1>4, MainLeaves DEF UnlinkDrop, Return, PlainLabels
<1>7. CASE frame[Main].tmp = 1
  <2>1. InodeDelete(I(Main)) /\ UNCHANGED dir
    BY <1>2, <1>4, <1>7 DEF UnlinkDrop
  <2>2. Cardinality(EntriesTo(i)) = 0
    BY <1>3, <1>4, <1>5, <1>7 DEF Counted
  <2>3. EntriesTo(I(Main)) = {}
    BY <1>2, <2>2, FiniteEntries
  <2> QED
    BY <1>1, <1>6, <2>1, <2>3, DeletedDirectory
<1>8. CASE frame[Main].tmp # 1
  <2>1. inode[i].type = "FILE" /\ inode[i].links = Cardinality(EntriesTo(i)) + 1
    BY <1>3, <1>4, <1>8 DEF Counted
  <2>2. inode[i].links > 1 /\ inode[i].links - 1 = Cardinality(EntriesTo(i))
    BY <1>4, <1>5, <1>8, <2>1
  <2>3. inode' = [inode EXCEPT ![i].links = Cardinality(EntriesTo(i))] /\ UNCHANGED <<takenI, dir>>
    BY <1>2, <1>4, <1>8, <2>2 DEF UnlinkDrop, DropLink
  <2> QED
    BY <1>2, <1>3, <1>5, <1>6, <2>1, <2>3, CaughtUp
<1> QED
  BY <1>7, <1>8

-----------------------------------------------------------------------------
\* Every step of every operation keeps the directory and the inode table.
LEMMA StepDirectory == ASSUME IInv, OneThread, Directory, Step(Main) \/ Begin(Main) PROVE Directory'
<1>1. ASSUME Open(Main) PROVE Directory'
  BY <1>1, OpenLookupDirectory, OpenLockDirectory, CrashDirectory, OpenPublishDirectory, OpenAddFileDirectory
     DEF Open, OpenRelock
<1>2. ASSUME InodeCreate(Main) PROVE Directory'
  BY <1>2, InodeAllocDirectory, InodeInitDirectory, InodeFinishDirectory, AbortDirectory DEF InodeCreate
<1>3. ASSUME SymLink(Main) PROVE Directory'
  BY <1>3, SymLookupDirectory, SymTargetDirectory, SymWriteDirectory, SymAddDirectory DEF SymLink
<1>4. ASSUME Link(Main) PROVE Directory'
  BY <1>4, LinkFindsDirectory, LinkAddDirectory, ReadLinksDirectory, LinkWriteDirectory DEF Link
<1>5. ASSUME Unlink(Main) PROVE Directory'
  BY <1>5, UnlinkLookupDirectory, UnlinkClearDirectory, ReadLinksDirectory, UnlinkDropDirectory DEF Unlink
<1> QED
  BY <1>1, <1>2, <1>3, <1>4, <1>5, CloseDirectory, WriteDirectory, ReadDirectory, CopyDirectory, BeginDirectory
     DEF Step

\* The root directory starts empty.
LEMMA InitDirectory == Init => Directory
<1> SUFFICES ASSUME Init PROVE Directory
  OBVIOUS
<1>1. pc[Main] = "idle" /\ (\A e \in Entries : dir[e] = FreeEntry) /\ takenI = {}
  BY TfsAssumption DEF Init, StateInit
<1>2. EntriesLive /\ NamesApart
  <2>1. EntriesLive
    BY <1>1 DEF EntriesLive
  <2>2. NamesApart
    BY <1>1 DEF NamesApart
  <2> QED
    BY <2>1, <2>2
<1> QED
  BY <1>1, <1>2, PlainLabel DEF Directory, AllCounted, PlainLabels

\* What one thread's steps keep, the process's steps keep.
LEMMA NextDirectory == ASSUME IInv, OneThread, Directory, [Next]_vars PROVE Directory'
<1>1. CASE UNCHANGED vars
  BY <1>1, StaysDirectory DEF vars, disk
<1>2. ASSUME NEW t \in Threads, Step(t) \/ Begin(t) PROVE Directory'
  BY <1>2, StepDirectory DEF OneThread
<1> QED
  BY <1>1, <1>2 DEF Next, Over

\* With one thread, the directory and the inode table agree at each step of
\* every operation, up to what that operation has not yet done.
THEOREM DirectoryKept == OneThread => (Spec => [](IInv /\ Directory))
<1> SUFFICES ASSUME OneThread PROVE Spec => [](IInv /\ Directory)
  OBVIOUS
<1>1. IInv /\ Directory /\ [Next]_vars => Directory'
  BY NextDirectory
<1> QED
  BY <1>1, InitDirectory, Inductive, PTL DEF Spec

\* With one thread, whatever it calls: between operations every entry of the
\* root directory leads to an inode that is in use, and a file's hard_links is
\* the number of its entries (tfs_open, tfs_link, tfs_sym_link, tfs_unlink).
THEOREM LinksExact == OneThread => (Spec => []LinksCounted)
<1>1. IInv /\ Directory => LinksCounted
  <2> SUFFICES ASSUME IInv, Directory, Idle PROVE LinksCounted
    BY DEF LinksCounted
  <2>1. pc[Main] = "idle"
    BY TfsAssumption DEF Idle
  <2>2. ~ Creating /\ ~ Adjusting
    BY <2>1, AtPlain DEF PlainLabels
  <2>3. \A e \in Entries : dir[e] # FreeEntry => dir[e].inum \in takenI
    BY DEF Directory, EntriesLive, Live
  <2>4. ASSUME NEW i \in takenI, inode[i].type = "FILE" PROVE inode[i].links = Cardinality(EntriesTo(i))
    <3>1. Counted(i) /\ Pending(i) = 0
      BY <2>2 DEF Directory, AllCounted, Pending
    <3> QED
      BY <2>4, <3>1, FiniteEntries DEF Counted
  <2> QED
    BY <2>3, <2>4 DEF LinksCounted
<1> QED
  BY <1>1, DirectoryKept, PTL

\* With one thread, whatever it calls: no name is in the root directory twice;
\* what tfs_open, tfs_sym_link and tfs_link looked up still holds when they add.
THEOREM NamesOnce == OneThread => (Spec => []NamesUnique)
<1>1. IInv /\ Directory => NamesUnique
  <2> SUFFICES ASSUME IInv, Directory, NEW n \in Names PROVE Cardinality(EntriesFor(n)) <= 1
    BY DEF NamesUnique
  <2>1. CASE EntriesFor(n) = {}
    BY <2>1, FS_EmptySet
  <2>2. CASE EntriesFor(n) # {}
    <3>1. PICK e : e \in EntriesFor(n)
      BY <2>2
    <3>2. \A g \in EntriesFor(n) : g = e
      <4>1. e \in Entries /\ dir[e].name = n /\ dir[e].inum # None
        BY <3>1 DEF EntriesFor
      <4>2. dir[e] # FreeEntry
        BY <4>1, EntryKinds DEF IInv, Typed
      <4> QED
        BY <4>1, <4>2 DEF Directory, NamesApart, EntriesFor
    <3>3. EntriesFor(n) = {e}
      BY <3>1, <3>2
    <3>4. Cardinality({e}) = 1
      BY FS_Singleton
    <3> QED
      BY <3>3, <3>4
  <2> QED
    BY <2>1, <2>2
<1> QED
  BY <1>1, DirectoryKept, PTL

-----------------------------------------------------------------------------
(* Blocks and handles, when the thread is careful *)

\* The inodes whose fields count: tfs_open and tfs_sym_link take an inode that
\* still has the size and block of the node that had it before.
Settled == IF pc[Main] = "init" THEN takenI \ {I(Main)} ELSE takenI

HasBlock(i) == inode[i].size > 0

\* A block that is TAKEN is the block of one inode that is in use.
BlocksUsed ==
    /\ \A i \in Settled : HasBlock(i) => inode[i].block \in takenB
    /\ \A i, j \in Settled : HasBlock(i) /\ HasBlock(j) /\ inode[i].block = inode[j].block => i = j
    /\ \A b \in takenB : \E i \in Settled : HasBlock(i) /\ inode[i].block = b

\* A symbolic link has a block from its creation on; a new file has none.
NodeSizes ==
    /\ \A i \in takenI : ~ (Creating /\ i = I(Main)) /\ inode[i].type = "SYMLINK" => inode[i].size = 1
    /\ Creating /\ pc[Main] \in {"finish", "created", "add"} =>
           inode[I(Main)].size = IF Op(Main) = "open" THEN 0 ELSE 1
    /\ pc[Main] = "abort" => inode[I(Main)].size = 0

Opened == {oft[d].inum : d \in Fds \ FreeFds}
Linked(i) == EntriesTo(i) # {}

\* An open file has a name, and is not shorter than where its handle is.
Handles ==
    \A d \in Fds : oft[d] # None =>
        /\ Linked(oft[d].inum)
        /\ inode[oft[d].inum].type = "FILE"
        /\ oft[d].off <= inode[oft[d].inum].size

\* What a careful thread made sure of before its call stays so during the call.
Removable(i) == i \in Opened => inode[i].links > 1
Truncatable(i) == Opened = {} \/ (i \notin Opened /\ inode[i].type = "FILE")
Truncates == Op(Main) = "copy" \/ (Op(Main) = "open" /\ "TRUNC" \in frame[Main].call.mode)

Discreet ==
    LET n == frame[Main].call.name
    IN /\ Op(Main) = "unlink" /\ pc[Main] = "lookup" /\ Lookup(n) # None => Removable(Lookup(n))
       /\ Op(Main) = "unlink" /\ pc[Main] \in {"clear", "read", "drop"} => Removable(I(Main))
       /\ Truncates /\ pc[Main] = "lookup" /\ Lookup(n) # None => Truncatable(Lookup(n))
       /\ Truncates /\ pc[Main] = "lock" => Truncatable(I(Main))

\* tfs_open has a name's inode, and an offset at the beginning or the end.
Opening ==
    /\ pc[Main] \in {"lock", "addfile"} => Linked(I(Main))
    /\ pc[Main] = "addfile" => /\ inode[I(Main)].type = "FILE"
                               /\ frame[Main].tmp \in {0, inode[I(Main)].size}
    /\ Op(Main) = "open" /\ pc[Main] \in {"alloc", "init", "finish", "created"} => frame[Main].tmp = 0

\* tfs_read reads no further than the end of the file.
Reading == pc[Main] \in {"copy", "offset"} =>
               /\ File(Main).off + frame[Main].tmp <= inode[File(Main).inum].size
               /\ pc[Main] = "offset" => frame[Main].other = File(Main).off

FilesKept == BlocksUsed /\ NodeSizes /\ Handles /\ Discreet /\ Opening /\ Reading

\* Labels at which nothing that Discreet, Opening or Reading says has to be kept.
BlankLabels == {"idle", "entry", "data", "size", "target", "type", "name", "add", "write", "abort"}

-----------------------------------------------------------------------------
(* Lemmas about blocks and handles *)

\* A label with nothing to keep keeps what there is.
LEMMA BlankLabel ==
  ASSUME pc'[Main] \in BlankLabels
  PROVE  (Discreet /\ Opening /\ Reading)'
  BY DEF BlankLabels, Discreet, Opening, Reading

\* Blocks stay where they are as long as sizes, blocks and both allocation
\* tables do.
LEMMA BlocksStay ==
  ASSUME BlocksUsed, UNCHANGED <<inode, takenI, takenB>>, pc[Main] # "init", pc'[Main] # "init"
  PROVE  BlocksUsed'
<1>1. Settled = takenI /\ Settled' = takenI
  BY DEF Settled
<1> QED
  BY <1>1 DEF BlocksUsed, HasBlock

\* So do sizes.
LEMMA SizesStay ==
  ASSUME NodeSizes, UNCHANGED <<inode, takenI>>, ~ Creating, ~ Creating'
  PROVE  NodeSizes'
  BY DEF NodeSizes, Creating

\* So do open files.
LEMMA HandlesStay ==
  ASSUME Handles, UNCHANGED <<inode, dir, oft>>
  PROVE  Handles' /\ Opened' = Opened
  BY DEF Handles, Linked, EntriesTo, Opened, FreeFds

\* A step that changes no table.
LEMMA QuietFiles ==
  ASSUME FilesKept, UNCHANGED disk, ~ Creating, ~ Creating', (Discreet /\ Opening /\ Reading)'
  PROVE  FilesKept'
<1>1. UNCHANGED <<inode, takenI, takenB, dir, oft>>
  BY DEF disk
<1>2. pc[Main] # "init" /\ pc'[Main] # "init"
  BY DEF Creating
<1> QED
  BY <1>1, <1>2, BlocksStay, SizesStay, HandlesStay DEF FilesKept

\* An operation that fails before it made or removed anything.
LEMMA FailFiles ==
  ASSUME IInv, FilesKept, NEW locks, Fail(Main, locks), ~ Creating
  PROVE  FilesKept'
<1>1. pc'[Main] = "idle" /\ UNCHANGED disk
  BY MainLeaves DEF Fail, Return
<1>2. ~ Creating'
  BY <1>1 DEF Creating
<1> QED
  BY <1>1, <1>2, BlankLabel, QuietFiles DEF BlankLabels

\* Nothing that FilesKept is about changes.
LEMMA StaysFiles ==
  ASSUME FilesKept, UNCHANGED <<disk, pc, frame>>
  PROVE  FilesKept'
<1>1. UNCHANGED <<inode, takenI, takenB, dir, oft>>
  BY DEF disk
<1>2. BlocksUsed'
  BY <1>1 DEF FilesKept, BlocksUsed, Settled, HasBlock, I
<1>3. NodeSizes'
  BY <1>1 DEF FilesKept, NodeSizes, Creating, I, Op
<1>4. Handles' /\ Opened' = Opened
  BY <1>1, HandlesStay DEF FilesKept
<1>5. \A n : Lookup(n)' = Lookup(n)
  BY <1>1 DEF Lookup, EntriesFor
<1>6. Discreet'
  BY <1>1, <1>4, <1>5 DEF FilesKept, Discreet, Removable, Truncatable, Truncates, I, Op
<1>7. Opening'
  BY <1>1 DEF FilesKept, Opening, Linked, EntriesTo, I, Op
<1>8. Reading'
  BY <1>1 DEF FilesKept, Reading, File, Fd
<1> QED
  BY <1>2, <1>3, <1>4, <1>6, <1>7, <1>8 DEF FilesKept

\* A process that has died changes nothing.
LEMMA CrashFiles == ASSUME FilesKept, NEW how, Crash(how) PROVE FilesKept'
  BY StaysFiles DEF Crash

\* Opened files are files of the inode table.
LEMMA OpenedFiles ==
  ASSUME IInv
  PROVE  /\ Opened \subseteq Inodes
         /\ \A d \in Fds : oft[d] # None => oft[d].inum \in Opened /\ oft[d].inum \in Inodes
                                            /\ oft[d].off \in 0 .. MaxOffset
<1>1. \A d \in Fds : oft[d] # None => oft[d].inum \in Inodes /\ oft[d].off \in 0 .. MaxOffset
  BY DEF IInv, Typed, TypeOK
<1> QED
  BY <1>1 DEF Opened, FreeFds

\* Linked nodes are live.
LEMMA LinkedLive ==
  ASSUME IInv, EntriesLive, NEW i \in Inodes, Linked(i)
  PROVE  Live(i)
<1>1. PICK e \in Entries : dir[e].inum = i
  BY DEF Linked, EntriesTo
<1>2. i # None
  BY Sizes DEF Inodes
<1>3. dir[e] # FreeEntry
  BY <1>1, <1>2, EntryKinds DEF IInv, Typed
<1> QED
  BY <1>1, <1>3 DEF EntriesLive

\* The thread is inside no operation while it is idle.
LEMMA IdleLocals ==
  ASSUME IInv, pc[Main] \in Fresh
  PROVE  frame[Main].inum = None /\ frame[Main].tmp = 0
  BY Inside, TfsAssumption DEF LocalsFit

\* What a careful thread refrains from.
LEMMA AllowedCalls ==
  ASSUME IInv, NEW c, Allowed(c), Lookup(c.name) # None
  PROVE  /\ c.op = "unlink" => Removable(Lookup(c.name))
         /\ c.op = "copy" \/ (c.op = "open" /\ "TRUNC" \in c.mode) => Truncatable(Lookup(c.name))
<1> DEFINE i == Lookup(c.name)
<1>1. Opened \subseteq InUse
  BY DEF Opened, InUse
<1>2. ASSUME c.op = "unlink" PROVE Removable(i)
  BY <1>1, <1>2 DEF Allowed, Removable
<1>3. ASSUME c.op = "copy" \/ (c.op = "open" /\ "TRUNC" \in c.mode) PROVE Truncatable(i)
  <2>1. InUse \subseteq {None} \/ (i \notin InUse /\ inode[i].type = "FILE")
    BY <1>3 DEF Allowed
  <2>2. CASE InUse \subseteq {None}
    <3>1. None \notin Inodes
      BY Sizes DEF Inodes
    <3>2. Opened = {}
      BY <1>1, <2>2, <3>1, OpenedFiles
    <3> QED
      BY <3>2 DEF Truncatable
  <2> QED
    BY <1>1, <2>1, <2>2 DEF Truncatable
<1> QED
  BY <1>2, <1>3

\* A careful thread's call begins.
LEMMA BeginFiles == ASSUME IInv, Careful, FilesKept, Begin(Main) PROVE FilesKept'
<1>1. UNCHANGED disk /\ pc[Main] = "idle" /\ ~ Creating /\ UNCHANGED <<inode, dir, oft>>
  BY DEF Begin, Creating, disk
<1>2. \A n : Lookup(n)' = Lookup(n)
  BY <1>1 DEF Lookup, EntriesFor
<1>3. Opened' = Opened
  BY <1>1, HandlesStay DEF FilesKept
<1>4. pc \in [Threads -> Labels] /\ frame \in [Threads -> Frames] /\ Main \in Threads
  BY TfsAssumption DEF IInv, Typed
<1>5. PICK c : \/ /\ Careful => Allowed(c)
                  /\ pc' = [pc EXCEPT ![Main] = "lookup"]
                  /\ frame' = [frame EXCEPT ![Main].call = c]
               \/ pc' = [pc EXCEPT ![Main] = "entry"]
               \/ UNCHANGED <<pc, frame>>
  BY DEF Begin
<1>6. CASE pc' = [pc EXCEPT ![Main] = "entry"]
  <2>1. pc'[Main] = "entry"
    BY <1>4, <1>6
  <2> QED
    BY <1>1, <2>1, BlankLabel, QuietFiles DEF BlankLabels, Creating
<1>7. CASE UNCHANGED <<pc, frame>>
  BY <1>1, <1>7, StaysFiles
<1>8. CASE /\ Allowed(c)
           /\ pc' = [pc EXCEPT ![Main] = "lookup"]
           /\ frame' = [frame EXCEPT ![Main].call = c]
  <2>1. pc'[Main] = "lookup"
    BY <1>4, <1>8
  <2>2. frame'[Main].call = c
    <3>1. frame'[Main] = [frame[Main] EXCEPT !.call = c] /\ frame[Main] \in Frames
      BY <1>4, <1>8
    <3> QED
      BY <3>1 DEF Frames
  <2>3. Op(Main)' = c.op
    BY <2>2 DEF Op
  <2>4. Lookup(frame[Main].call.name)' = Lookup(c.name)
    BY <1>1, <2>2 DEF Lookup, EntriesFor
  <2>5. Discreet'
    <3>1. c.op = "unlink" /\ Lookup(c.name) # None => Removable(Lookup(c.name))
      BY <1>8, AllowedCalls
    <3>2. (c.op = "copy" \/ (c.op = "open" /\ "TRUNC" \in c.mode)) /\ Lookup(c.name) # None
          => Truncatable(Lookup(c.name))
      BY <1>8, AllowedCalls
    <3>3. c.op = "unlink" /\ Lookup(c.name) # None => Removable(Lookup(frame[Main].call.name))'
      BY <1>1, <1>3, <2>4, <3>1 DEF Removable
    <3>4. Truncates' /\ Lookup(c.name) # None => Truncatable(Lookup(frame[Main].call.name))'
      BY <1>1, <1>3, <2>2, <2>3, <2>4, <3>2 DEF Truncatable, Truncates
    <3> QED
      BY <2>1, <2>3, <2>4, <3>3, <3>4 DEF Discreet
  <2>6. Opening' /\ Reading' /\ ~ Creating'
    BY <2>1 DEF Opening, Reading, Creating
  <2> QED
    BY <1>1, <2>5, <2>6, QuietFiles
<1> QED
  BY <1>5, <1>6, <1>7, <1>8

\* A name that is found has a node, which has that name.
LEMMA LookupLinked ==
  ASSUME IInv, Directory, NEW n, Lookup(n) # None
  PROVE  Linked(Lookup(n)) /\ Live(Lookup(n))
  BY LookupFinds DEF IInv, Typed, Directory, Linked

\* tfs_open finds the name, or is about to make the file.
LEMMA OpenLookupFiles == ASSUME IInv, Directory, FilesKept, OpenLookup(Main) PROVE FilesKept'
<1> DEFINE n == frame[Main].call.name
           i == Lookup(n)
<1>0. pc[Main] = "lookup" /\ Op(Main) = "open" /\ ~ Creating
  BY DEF OpenLookup, At, Creating
<1>1. frame[Main] \in Frames /\ frame[Main].tmp = 0
  BY <1>0, IdleLocals, TfsAssumption DEF IInv, Typed, Fresh
<1>2. CASE Fail(Main, {})
  BY <1>0, <1>2, FailFiles
<1>3. ASSUME i # None, Goto(Main, "lock", [frame[Main] EXCEPT !.inum = i]), UNCHANGED disk
      PROVE  FilesKept'
  <2>1. pc'[Main] = "lock" /\ frame'[Main] = [frame[Main] EXCEPT !.inum = i]
    BY <1>3, MainGoes
  <2>2. Linked(i)
    BY <1>3, LookupLinked
  <2>3. Truncates => Truncatable(i)
    BY <1>0, <1>3 DEF FilesKept, Discreet
  <2> HIDE DEF i
  <2>4. I(Main)' = i /\ frame'[Main].call = frame[Main].call
    BY <1>1, <2>1 DEF I, Frames
  <2>5. Op(Main)' = "open" /\ Truncates' = Truncates
    BY <1>0, <2>4 DEF Op, Truncates
  <2>6. UNCHANGED <<inode, dir, oft>> /\ Opened' = Opened
    BY <1>3, HandlesStay DEF disk, FilesKept
  <2>7. Linked(I(Main))' /\ (Truncates => Truncatable(I(Main))')
    BY <2>2, <2>3, <2>4, <2>6 DEF Linked, EntriesTo, Truncatable
  <2>8. Discreet' /\ Opening' /\ Reading' /\ ~ Creating'
    BY <2>1, <2>5, <2>7 DEF Discreet, Opening, Reading, Creating
  <2> QED
    BY <1>0, <1>3, <2>8, QuietFiles
<1>4. ASSUME Goto(Main, "alloc", frame[Main]), UNCHANGED disk PROVE FilesKept'
  <2>1. pc'[Main] = "alloc" /\ frame'[Main] = frame[Main]
    BY <1>4, MainGoes
  <2>2. Discreet' /\ Opening' /\ Reading' /\ ~ Creating'
    BY <1>0, <1>1, <2>1 DEF Discreet, Opening, Reading, Creating
  <2> QED
    BY <1>0, <1>4, <2>2, QuietFiles
<1> QED
  BY <1>2, <1>3, <1>4 DEF OpenLookup

\* tfs_sym_link's and tfs_link's searches.
LEMMA SearchFiles ==
  ASSUME IInv, Directory, FilesKept,
         SymLookup(Main) \/ LinkLookup(Main) \/ LinkType(Main) \/ LinkName(Main) \/ LinkRead(Main)
  PROVE  FilesKept'
<1>1. ~ Creating
  BY DEF SymLookup, LinkLookup, LinkType, LinkName, LinkRead, At, Creating
<1>2. ASSUME NEW l \in {"target", "type", "name", "write"}, NEW f, Goto(Main, l, f), UNCHANGED disk
      PROVE  FilesKept'
  <2>1. pc'[Main] = l
    BY <1>2, MainGoes
  <2>2. l \in BlankLabels
    BY DEF BlankLabels
  <2>3. ~ Creating'
    BY <2>1 DEF Creating
  <2> QED
    BY <1>1, <1>2, <2>1, <2>2, <2>3, BlankLabel, QuietFiles
<1>3. CASE SymLookup(Main)
  BY <1>1, <1>2, <1>3, FailFiles DEF SymLookup
<1>4. CASE LinkLookup(Main)
  BY <1>1, <1>2, <1>4, FailFiles, CrashFiles DEF LinkLookup
<1>5. CASE LinkType(Main)
  BY <1>1, <1>2, <1>5, FailFiles DEF LinkType
<1>6. CASE LinkName(Main)
  <2>1. CASE Fail(Main, {LinkLock(I(Main))})
    BY <1>1, <2>1, FailFiles
  <2>2. CASE Goto(Main, "add", frame[Main]) /\ UNCHANGED disk
    <3>1. pc'[Main] = "add" /\ frame'[Main] = frame[Main] /\ Op(Main) = "link"
      BY <1>6, <2>2, MainGoes DEF LinkName, At
    <3>2. ~ Creating'
      BY <3>1 DEF Creating, Op
    <3> QED
      BY <1>1, <2>2, <3>1, <3>2, BlankLabel, QuietFiles DEF BlankLabels
  <2> QED
    BY <1>6, <2>1, <2>2 DEF LinkName
<1>7. CASE LinkRead(Main)
  BY <1>2, <1>7 DEF LinkRead
<1> QED
  BY <1>3, <1>4, <1>5, <1>6, <1>7

\* tfs_sym_link is about to make its node.
LEMMA SymTargetFiles == ASSUME IInv, FilesKept, SymTarget(Main) PROVE FilesKept'
<1>1. ~ Creating /\ Op(Main) = "symlink"
  BY DEF SymTarget, At, Creating
<1>2. ASSUME Goto(Main, "alloc", frame[Main]), UNCHANGED disk PROVE FilesKept'
  <2>1. pc'[Main] = "alloc" /\ frame'[Main] = frame[Main] /\ Op(Main)' = Op(Main)
    BY <1>2, MainGoes DEF Op
  <2>2. Discreet' /\ Opening' /\ Reading' /\ ~ Creating'
    BY <1>1, <2>1 DEF Discreet, Opening, Reading, Creating
  <2> QED
    BY <1>1, <1>2, <2>2, QuietFiles
<1> QED
  BY <1>1, <1>2, FailFiles DEF SymTarget

\* tfs_unlink's search, and its reading of hard_links.
LEMMA UnlinkLookupFiles == ASSUME IInv, Directory, FilesKept, UnlinkLookup(Main) PROVE FilesKept'
<1> DEFINE n == frame[Main].call.name
           i == Lookup(n)
<1>0. pc[Main] = "lookup" /\ Op(Main) = "unlink" /\ ~ Creating
  BY DEF UnlinkLookup, At, Creating
<1>1. CASE i = None
  BY <1>0, <1>1, FailFiles DEF UnlinkLookup
<1>2. CASE i # None
  <2>1. pc'[Main] = "clear" /\ frame'[Main] = [frame[Main] EXCEPT !.inum = i] /\ UNCHANGED disk
    BY <1>2, MainGoes DEF UnlinkLookup
  <2>2. Removable(i)
    BY <1>0, <1>2 DEF FilesKept, Discreet
  <2> HIDE DEF i
  <2>3. frame[Main] \in Frames
    BY TfsAssumption DEF IInv, Typed
  <2>4. I(Main)' = i /\ Op(Main)' = "unlink"
    BY <1>0, <2>1, <2>3 DEF I, Op, Frames
  <2>5. UNCHANGED <<inode, dir, oft>> /\ Opened' = Opened
    BY <2>1, HandlesStay DEF disk, FilesKept
  <2>6. Removable(I(Main))'
    BY <2>2, <2>4, <2>5 DEF Removable
  <2>7. Discreet' /\ Opening' /\ Reading' /\ ~ Creating'
    BY <2>1, <2>4, <2>6 DEF Discreet, Opening, Reading, Creating, Truncates
  <2> QED
    BY <1>0, <2>1, <2>7, QuietFiles
<1> QED
  BY <1>1, <1>2

\* hard_links stays what it is until it is written.
LEMMA UnlinkReadFiles == ASSUME IInv, FilesKept, UnlinkRead(Main) PROVE FilesKept'
<1>0. pc[Main] = "read" /\ Op(Main) = "unlink" /\ ~ Creating /\ UNCHANGED disk
  BY DEF UnlinkRead, At, Creating
<1>1. pc'[Main] = "drop" /\ frame'[Main] = [frame[Main] EXCEPT !.tmp = inode[I(Main)].links]
  BY MainGoes DEF UnlinkRead
<1>2. frame[Main] \in Frames
  BY TfsAssumption DEF IInv, Typed
<1>3. I(Main)' = I(Main) /\ Op(Main)' = "unlink"
  BY <1>0, <1>1, <1>2 DEF I, Op, Frames
<1>4. UNCHANGED <<inode, dir, oft>> /\ Opened' = Opened
  BY <1>0, HandlesStay DEF disk, FilesKept
<1>5. Removable(I(Main))'
  BY <1>0, <1>3, <1>4 DEF Removable, FilesKept, Discreet
<1>6. Discreet' /\ Opening' /\ Reading' /\ ~ Creating'
  BY <1>1, <1>3, <1>5 DEF Discreet, Opening, Reading, Creating, Truncates
<1> QED
  BY <1>0, <1>6, QuietFiles

\* What a thread does around a copy's calls.
LEMMA CopyFiles == ASSUME IInv, FilesKept, Copy(Main) PROVE FilesKept'
<1>0. pc \in [Threads -> Labels] /\ frame \in [Threads -> Frames] /\ Main \in Threads
  BY TfsAssumption DEF IInv, Typed
<1>1. ~ Creating
  BY DEF Copy, CopyStart, CopyRefused, CopyChunk, CopyClose, CopyReturn, Between, At, Creating
<1>2. ASSUME NEW c, NEW l, Call(Main, c, l)
      PROVE  pc'[Main] = l /\ frame'[Main] = [NoFrame EXCEPT !.call = c] /\ UNCHANGED disk
  BY <1>0, <1>2 DEF Call
<1>3. ASSUME NEW c, Call(Main, c, "entry") PROVE FilesKept'
  <2>1. pc'[Main] = "entry" /\ UNCHANGED disk
    BY <1>2, <1>3
  <2> QED
    BY <1>1, <2>1, BlankLabel, QuietFiles DEF BlankLabels, Creating
<1>4. CASE CopyStart(Main)
  <2>1. pc[Main] = "lookup" /\ Op(Main) = "copy"
    BY <1>4 DEF CopyStart, At
  <2>2. CASE Fail(Main, {})
    BY <1>1, <2>2, FailFiles
  <2>3. CASE Call(Main, [op |-> "open", name |-> frame[Main].call.name, mode |-> CopyMode], "lookup")
    <3>1. pc'[Main] = "lookup" /\ UNCHANGED disk
          /\ frame'[Main] = [NoFrame EXCEPT !.call = [op |-> "open", name |-> frame[Main].call.name, mode |-> CopyMode]]
      BY <1>2, <2>3
    <3>2. frame'[Main].call.name = frame[Main].call.name /\ Op(Main)' = "open"
      BY <3>1 DEF NoFrame, Op
    <3>3. UNCHANGED <<inode, dir, oft>> /\ Opened' = Opened
      BY <3>1, HandlesStay DEF disk, FilesKept
    <3>4. Lookup(frame[Main].call.name)' = Lookup(frame[Main].call.name)
      BY <3>2, <3>3 DEF Lookup, EntriesFor
    <3>5. Lookup(frame[Main].call.name) # None => Truncatable(Lookup(frame[Main].call.name))
      BY <2>1 DEF FilesKept, Discreet, Truncates
    <3>6. Lookup(frame[Main].call.name) # None => Truncatable(Lookup(frame[Main].call.name))'
      BY <3>3, <3>4, <3>5 DEF Truncatable
    <3>7. Discreet' /\ Opening' /\ Reading' /\ ~ Creating'
      BY <3>1, <3>2, <3>4, <3>6 DEF Discreet, Opening, Reading, Creating
    <3> QED
      BY <1>1, <3>1, <3>7, QuietFiles
  <2> QED
    BY <1>4, <2>2, <2>3 DEF CopyStart
<1>5. CASE CopyRefused(Main) \/ CopyReturn(Main)
  BY <1>5, StaysFiles DEF CopyRefused, CopyReturn
<1>6. CASE CopyChunk(Main)
  BY <1>3, <1>6 DEF CopyChunk
<1>7. CASE CopyClose(Main)
  BY <1>3, <1>7 DEF CopyClose
<1> QED
  BY <1>4, <1>5, <1>6, <1>7 DEF Copy

-----------------------------------------------------------------------------
(* Steps that take or free a block *)

\* The blocks in use stay the same ones.
LEMMA BlocksAlike ==
  ASSUME BlocksUsed, UNCHANGED takenB,
         \A i : i \in Settled' /\ inode'[i].size > 0 <=> i \in Settled /\ inode[i].size > 0,
         \A i \in Settled : inode[i].size > 0 => inode'[i].block = inode[i].block
  PROVE  BlocksUsed'
<1>1. \A i \in Settled' : inode'[i].size > 0 =>
          i \in Settled /\ inode[i].size > 0 /\ inode'[i].block = inode[i].block
  OBVIOUS
<1>2. \A i \in Settled : inode[i].size > 0 => i \in Settled' /\ inode'[i].size > 0
  OBVIOUS
<1>3. \A i \in Settled' : inode'[i].size > 0 => inode'[i].block \in takenB'
  BY <1>1 DEF BlocksUsed, HasBlock
<1>4. \A i, j \in Settled' : inode'[i].size > 0 /\ inode'[j].size > 0 /\ inode'[i].block = inode'[j].block => i = j
  BY <1>1 DEF BlocksUsed, HasBlock
<1>5. ASSUME NEW b \in takenB' PROVE \E i \in Settled' : inode'[i].size > 0 /\ inode'[i].block = b
  <2>1. PICK i \in Settled : inode[i].size > 0 /\ inode[i].block = b
    BY <1>5 DEF BlocksUsed, HasBlock
  <2> QED
    BY <1>1, <1>2, <2>1
<1> QED
  BY <1>3, <1>4, <1>5 DEF BlocksUsed, HasBlock

\* A node without a block gets one that was free.
LEMMA BlockTaken ==
  ASSUME BlocksUsed, NEW i, NEW b, b \notin takenB, takenB' = takenB \cup {b},
         i \in Settled', inode'[i].size > 0, inode'[i].block = b, i \in Settled => ~ (inode[i].size > 0),
         \A j : j # i => (j \in Settled' <=> j \in Settled) /\ inode'[j] = inode[j]
  PROVE  BlocksUsed'
<1>1. \A j \in Settled' : inode'[j].size > 0 =>
          j = i \/ (j \in Settled /\ inode[j].size > 0 /\ inode'[j].block = inode[j].block /\ inode[j].block \in takenB)
  BY DEF BlocksUsed, HasBlock
<1>2. \A j \in Settled' : inode'[j].size > 0 => inode'[j].block \in takenB'
  BY <1>1
<1>3. \A j, k \in Settled' : inode'[j].size > 0 /\ inode'[k].size > 0 /\ inode'[j].block = inode'[k].block => j = k
  BY <1>1 DEF BlocksUsed, HasBlock
<1>4. ASSUME NEW c \in takenB' PROVE \E j \in Settled' : inode'[j].size > 0 /\ inode'[j].block = c
  <2>1. CASE c = b
    BY <2>1
  <2>2. CASE c \in takenB
    <3>1. PICK j \in Settled : inode[j].size > 0 /\ inode[j].block = c
      BY <2>2 DEF BlocksUsed, HasBlock
    <3>2. j # i
      BY <3>1
    <3> QED
      BY <3>1, <3>2
  <2> QED
    BY <1>4, <2>1, <2>2
<1> QED
  BY <1>2, <1>3, <1>4 DEF BlocksUsed, HasBlock

\* A node is deleted, or truncated, and gives back the block that it has.
LEMMA BlockFreed ==
  ASSUME BlocksUsed, NEW i \in takenI, pc[Main] # "init", pc'[Main] # "init", takenB' = takenB \ BlockOf(i),
         takenI' = takenI \ {i} \/ (takenI' = takenI /\ inode'[i].size = 0),
         \A j \in takenI : j # i => inode'[j] = inode[j]
  PROVE  BlocksUsed'
<1>1. Settled = takenI /\ Settled' = takenI'
  BY DEF Settled
<1>2. \A j \in takenI' : inode'[j].size > 0 =>
          j # i /\ j \in takenI /\ inode[j].size > 0 /\ inode'[j].block = inode[j].block
  <2>1. ~ (0 > 0)
    OBVIOUS
  <2> QED
    BY <2>1
<1>3. \A j \in takenI : j # i /\ inode[j].size > 0 =>
          inode[j].block \notin BlockOf(i) /\ j \in takenI' /\ inode'[j] = inode[j]
  BY <1>1 DEF BlocksUsed, HasBlock, BlockOf
<1>4. \A j \in takenI' : inode'[j].size > 0 => inode'[j].block \in takenB'
  BY <1>1, <1>2, <1>3 DEF BlocksUsed, HasBlock
<1>5. \A j, k \in takenI' : inode'[j].size > 0 /\ inode'[k].size > 0 /\ inode'[j].block = inode'[k].block => j = k
  BY <1>1, <1>2 DEF BlocksUsed, HasBlock
<1>6. ASSUME NEW b \in takenB' PROVE \E j \in takenI' : inode'[j].size > 0 /\ inode'[j].block = b
  <2>1. PICK j \in takenI : inode[j].size > 0 /\ inode[j].block = b
    BY <1>1, <1>6 DEF BlocksUsed, HasBlock
  <2>2. j # i
    BY <1>6, <2>1 DEF BlockOf
  <2> QED
    BY <1>3, <2>1, <2>2
<1> QED
  BY <1>1, <1>4, <1>5, <1>6 DEF BlocksUsed, HasBlock

\* One inode's record is replaced.
LEMMA InodeSet ==
  ASSUME IInv, NEW i \in Inodes, NEW r, inode' = [inode EXCEPT ![i] = r]
  PROVE  /\ inode'[i] = r
         /\ \A j : j # i => inode'[j] = inode[j]
  BY IInvDisk DEF DiskOK

\* tfs_open follows a link, or truncates the file and chooses the offset.
LEMMA OpenLockFiles == ASSUME IInv, Directory, FilesKept, OpenLock(Main) PROVE FilesKept'
<1> DEFINE f == frame[Main]
           c == f.call
<1>0. pc[Main] = "lock" /\ Op(Main) = "open" /\ ~ Creating
  BY DEF OpenLock, At, Creating
<1>1. I(Main) \in Inodes /\ f \in Frames
  BY <1>0, Now, TfsAssumption DEF WithInode
<1>2. PICK i \in Inodes : i = I(Main)
  BY <1>1
<1>3. inode \in [Inodes -> InodeRecords] /\ inode[i] \in InodeRecords
  BY IInvDisk DEF DiskOK
<1>4. Linked(i) /\ Live(i)
  BY <1>0, <1>2, LinkedLive DEF FilesKept, Opening, Directory
<1>5. ASSUME NEW locks, Fail(Main, locks) PROVE FilesKept'
  BY <1>0, <1>5, FailFiles
<1>6. ASSUME inode[i].type = "SYMLINK", NEW j, j = Lookup(Cell(inode[i].block, 0)), j # None,
             Goto(Main, "lock", [f EXCEPT !.inum = j, !.other = i]), UNCHANGED disk
      PROVE  FilesKept'
  <2>1. pc'[Main] = "lock" /\ frame'[Main] = [f EXCEPT !.inum = j, !.other = i]
    BY <1>6, MainGoes
  <2>2. Linked(j)
    BY <1>6, LookupLinked
  <2>3. I(Main)' = j /\ frame'[Main].call = frame[Main].call
    BY <1>1, <2>1 DEF I, Frames
  <2>4. Op(Main)' = "open" /\ Truncates' = Truncates
    BY <1>0, <2>3 DEF Op, Truncates
  <2>5. UNCHANGED <<inode, dir, oft>> /\ Opened' = Opened
    BY <1>6, HandlesStay DEF disk, FilesKept
  <2>6. Truncates => Opened = {}
    BY <1>0, <1>2, <1>6 DEF FilesKept, Discreet, Truncatable
  <2>7. Linked(I(Main))' /\ (Truncates => Truncatable(I(Main))')
    BY <2>2, <2>3, <2>5, <2>6 DEF Linked, EntriesTo, Truncatable
  <2>8. Discreet' /\ Opening' /\ Reading' /\ ~ Creating'
    BY <2>1, <2>4, <2>7 DEF Discreet, Opening, Reading, Creating
  <2> QED
    BY <1>0, <1>6, <2>8, QuietFiles
<1>7. ASSUME inode[i].type = "FILE",
             Goto(Main, "addfile", [f EXCEPT !.other = None, !.tmp = InitialOffset(c, inode'[i].size)])
      PROVE  /\ pc'[Main] = "addfile" /\ I(Main)' = i /\ Op(Main)' = "open" /\ ~ Creating'
             /\ frame'[Main].tmp = InitialOffset(c, inode'[i].size)
             /\ Discreet' /\ Reading'
  <2>1. pc'[Main] = "addfile"
        /\ frame'[Main] = [f EXCEPT !.other = None, !.tmp = InitialOffset(c, inode'[i].size)]
    BY <1>7, MainGoes
  <2>2. I(Main)' = i /\ Op(Main)' = "open" /\ frame'[Main].tmp = InitialOffset(c, inode'[i].size)
    BY <1>0, <1>1, <1>2, <2>1 DEF I, Op, Frames
  <2> QED
    BY <2>1, <2>2 DEF Discreet, Reading, Creating
<1>8. ASSUME inode[i].type = "FILE", UNCHANGED disk,
             Goto(Main, "addfile", [f EXCEPT !.other = None, !.tmp = InitialOffset(c, inode'[i].size)])
      PROVE  FilesKept'
  <2>1. UNCHANGED <<inode, dir, oft>>
    BY <1>8 DEF disk
  <2>2. inode'[I(Main)'].type = "FILE" /\ Linked(I(Main))'
    BY <1>4, <1>7, <1>8, <2>1 DEF Linked, EntriesTo
  <2>3. frame'[Main].tmp \in {0, inode'[I(Main)'].size}
    BY <1>7, <1>8 DEF InitialOffset
  <2>4. Opening'
    BY <1>7, <1>8, <2>2, <2>3 DEF Opening
  <2> QED
    BY <1>0, <1>7, <1>8, <2>4, QuietFiles
<1>9. ASSUME inode[i].type = "FILE", "TRUNC" \in c.mode, takenB' = takenB \ BlockOf(i),
             inode' = [inode EXCEPT ![i].size = 0], UNCHANGED <<takenI, dir, oft, data>>,
             Goto(Main, "addfile", [f EXCEPT !.other = None, !.tmp = InitialOffset(c, inode'[i].size)])
      PROVE  FilesKept'
  <2>1. inode'[i] = [inode[i] EXCEPT !.size = 0] /\ \A j : j # i => inode'[j] = inode[j]
    BY <1>3, <1>9
  <2>2. inode'[i].size = 0 /\ inode'[i].type = "FILE"
    BY <1>3, <1>9, <2>1 DEF InodeRecords
  <2>3. BlocksUsed'
    BY <1>0, <1>4, <1>7, <1>9, <2>1, <2>2, BlockFreed DEF FilesKept, Live
  <2>4. NodeSizes'
    BY <1>0, <1>4, <1>7, <1>9, <2>1, <2>2 DEF FilesKept, NodeSizes, Creating
  <2>5. i \notin Opened
    BY <1>0, <1>2, <1>9 DEF FilesKept, Discreet, Truncates, Truncatable
  <2>6. Handles'
    <3>1. \A d \in Fds : oft[d] # None => inode'[oft[d].inum] = inode[oft[d].inum]
      BY <2>1, <2>5 DEF Opened, FreeFds
    <3> QED
      BY <1>9, <3>1 DEF FilesKept, Handles, Linked, EntriesTo
  <2>7. Linked(I(Main))' /\ frame'[Main].tmp = 0
    BY <1>4, <1>7, <1>9, <2>2 DEF Linked, EntriesTo, InitialOffset
  <2>8. Opening'
    BY <1>7, <1>9, <2>2, <2>7 DEF Opening
  <2> QED
    BY <1>7, <1>9, <2>3, <2>4, <2>6, <2>8 DEF FilesKept
<1>10. inode[i].type \in {"FILE", "SYMLINK"}
  BY <1>3, InodeFields
<1> QED
  BY <1>2, <1>5, <1>6, <1>8, <1>9, <1>10, CrashFiles DEF OpenLock, disk

\* A handle at the beginning or the end of a file.
LEMMA OpenAddFileFiles == ASSUME IInv, FilesKept, OpenAddFile(Main) PROVE FilesKept'
<1>0. pc[Main] = "addfile" /\ Op(Main) = "open" /\ ~ Creating
  BY DEF OpenAddFile, At, Creating
<1>1. CASE FreeFds = {}
  BY <1>0, <1>1, FailFiles DEF OpenAddFile
<1>2. CASE FreeFds # {}
  <2>1. AddToOpenFileTable(I(Main), frame[Main].tmp) /\ Leave(Main, {InodeLock(I(Main))})
        /\ UNCHANGED <<inode, takenI, takenB, dir, data>>
    BY <1>2 DEF OpenAddFile
  <2>2. pc'[Main] = "idle"
    BY <2>1, MainLeaves
  <2>3. First(FreeFds) \in Fds
    BY <1>2, FirstFree DEF FreeFds
  <2>4. PICK i \in Inodes : i = I(Main)
    BY <1>0, Now, TfsAssumption DEF WithInode
  <2>5. PICK n : n = frame[Main].tmp
    OBVIOUS
  <2>6. oft \in [Fds -> Files \cup {None}]
    BY IInvDisk DEF DiskOK, Files
  <2>7. \A d \in Fds : d = First(FreeFds) \/ oft'[d] = oft[d]
    BY <2>1, <2>3, <2>6 DEF AddToOpenFileTable
  <2>8. oft'[First(FreeFds)] = [inum |-> i, off |-> n]
    BY <2>1, <2>3, <2>4, <2>5, <2>6 DEF AddToOpenFileTable
  <2>9. Linked(i) /\ inode[i].type = "FILE" /\ n <= inode[i].size
    <3>0. inode[i] \in InodeRecords
      BY IInvDisk DEF DiskOK
    <3>1. inode[i].size \in Nat
      BY <3>0 DEF InodeRecords
    <3>2. Linked(I(Main)) /\ inode[I(Main)].type = "FILE" /\ frame[Main].tmp \in {0, inode[I(Main)].size}
      BY <1>0 DEF FilesKept, Opening
    <3>3. n = 0 \/ n = inode[i].size
      BY <2>4, <2>5, <3>2
    <3> QED
      BY <2>4, <3>1, <3>2, <3>3
  <2>10. Handles'
    <3>1. ASSUME NEW d \in Fds, oft'[d] # None
          PROVE  Linked(oft'[d].inum) /\ inode[oft'[d].inum].type = "FILE"
                 /\ oft'[d].off <= inode[oft'[d].inum].size
      <4>1. CASE d = First(FreeFds)
        BY <2>8, <2>9, <4>1
      <4>2. CASE oft'[d] = oft[d]
        BY <3>1, <4>2 DEF FilesKept, Handles
      <4> QED
        BY <2>7, <4>1, <4>2
    <3> QED
      BY <2>1, <3>1 DEF Handles, Linked, EntriesTo
  <2>11. BlocksUsed' /\ NodeSizes'
    BY <1>0, <2>1, <2>2, BlocksStay, SizesStay DEF FilesKept, Creating
  <2> QED
    BY <2>2, <2>10, <2>11, BlankLabel DEF FilesKept, BlankLabels
<1> QED
  BY <1>1, <1>2

\* A free inode is taken; what it was used for before does not count.
LEMMA InodeAllocFiles == ASSUME IInv, FilesKept, InodeAlloc(Main) PROVE FilesKept'
<1>0. pc[Main] = "alloc" /\ ~ Creating /\ Op(Main) \in {"open", "symlink"}
  BY Inside, TfsAssumption DEF InodeAlloc, Creating, OpFits
<1>1. CASE FreeInodes = {}
  BY <1>0, <1>1, FailFiles DEF InodeAlloc
<1>2. CASE FreeInodes # {}
  <2>1. PICK i : i = First(FreeInodes)
    OBVIOUS
  <2>2. i \in Inodes /\ i \notin takenI
    BY <1>2, <2>1, FirstFree DEF FreeInodes
  <2>3. takenI' = takenI \cup {i} /\ Goto(Main, "init", [frame[Main] EXCEPT !.inum = i])
        /\ UNCHANGED <<inode, takenB, dir, oft>>
    BY <1>2, <2>1 DEF InodeAlloc
  <2>4. pc'[Main] = "init" /\ frame'[Main] = [frame[Main] EXCEPT !.inum = i] /\ frame[Main] \in Frames
    BY <2>3, MainGoes, TfsAssumption DEF IInv, Typed
  <2>5. I(Main)' = i /\ Op(Main)' = Op(Main) /\ frame'[Main].tmp = frame[Main].tmp
    BY <2>4 DEF I, Op, Frames
  <2>6. Settled' = Settled
    BY <1>0, <2>2, <2>3, <2>4, <2>5 DEF Settled
  <2>7. BlocksUsed'
    BY <2>3, <2>6, BlocksAlike DEF FilesKept
  <2>8. NodeSizes'
    BY <1>0, <2>3, <2>4, <2>5 DEF FilesKept, NodeSizes, Creating
  <2>9. Handles'
    BY <2>3, HandlesStay DEF FilesKept
  <2>10. Discreet' /\ Opening' /\ Reading'
    BY <1>0, <2>4, <2>5 DEF FilesKept, Discreet, Opening, Reading
  <2> QED
    BY <2>7, <2>8, <2>9, <2>10 DEF FilesKept
<1> QED
  BY <1>1, <1>2

\* A node that is being made is not open: its record may change.
LEMMA HandlesOfOthers ==
  ASSUME IInv, Handles, NEW i, EntriesTo(i) = {}, UNCHANGED oft,
         \A j \in Inodes : j # i => inode'[j] = inode[j] /\ (EntriesTo(j) # {} => EntriesTo(j)' # {})
  PROVE  Handles'
<1>1. \A d \in Fds : oft[d] # None => oft[d].inum # i
  BY DEF Handles, Linked
<1>2. ASSUME NEW d \in Fds, oft[d] # None
      PROVE  EntriesTo(oft[d].inum)' # {} /\ inode'[oft[d].inum] = inode[oft[d].inum]
  <2>1. PICK j \in Inodes : j = oft[d].inum
    BY <1>2, OpenedFiles
  <2>2. j # i /\ EntriesTo(j) # {}
    BY <1>1, <1>2, <2>1 DEF Handles, Linked
  <2>3. EntriesTo(oft[d].inum)' = EntriesTo(j)'
    BY <2>1 DEF EntriesTo
  <2> QED
    BY <2>1, <2>2, <2>3
<1> QED
  BY <1>2 DEF Handles, Linked

\* inode_create: a file without a block, a link with one, or the failure.
LEMMA InodeInitFiles == ASSUME IInv, Directory, FilesKept, InodeInit(Main) PROVE FilesKept'
<1>0. pc[Main] = "init" /\ Op(Main) \in {"open", "symlink"} /\ Creating
  BY Inside, TfsAssumption DEF InodeInit, OpFits, Creating
<1>1. PICK i \in Inodes : i = I(Main)
  BY <1>0, Now, TfsAssumption DEF WithInode
<1>2. inode \in [Inodes -> InodeRecords] /\ inode[i] \in InodeRecords
  BY IInvDisk DEF DiskOK
<1>3. UNCHANGED <<takenI, dir, oft, data>> /\ i \in takenI /\ EntriesTo(i) = {}
  BY <1>0, <1>1 DEF InodeInit, Directory, NewInode
<1>4. pc'[Main] \in {"finish", "abort"} /\ frame'[Main] = frame[Main]
  BY MainGoes DEF InodeInit
<1>5. I(Main)' = i /\ Op(Main)' = Op(Main)
  BY <1>1, <1>4 DEF I, Op
<1>6. Settled = takenI \ {i} /\ Settled' = takenI
  BY <1>0, <1>1, <1>3, <1>4 DEF Settled
<1>7. (Discreet /\ Opening /\ Reading /\ Creating)'
  <2>1. Creating' /\ Discreet' /\ Reading'
    BY <1>0, <1>4, <1>5 DEF Discreet, Reading, Creating
  <2>2. Op(Main) = "open" => frame[Main].tmp = 0
    BY <1>0 DEF FilesKept, Opening
  <2> QED
    BY <1>4, <1>5, <2>1, <2>2 DEF Opening
<1>8. \A j : j # i => inode'[j] = inode[j] /\ EntriesTo(j)' = EntriesTo(j)
  <2>1. \E r : inode' = [inode EXCEPT ![i] = r]
    BY <1>1 DEF InodeInit
  <2> QED
    BY <1>3, <2>1, InodeSet, SameEntries
<1>9. Handles'
  BY <1>3, <1>8, HandlesOfOthers DEF FilesKept
<1>10. ASSUME NEW n, inode'[i].size = n, pc'[Main] = "finish" => n = IF Op(Main) = "open" THEN 0 ELSE 1,
              pc'[Main] = "abort" => n = 0
       PROVE  NodeSizes'
  <2>1. \A j \in takenI : ~ (Creating /\ j = I(Main)) <=> j # i
    BY <1>0, <1>1
  <2>2. \A j \in takenI' : ~ (Creating /\ j = I(Main))' => j # i
    BY <1>5, <1>7
  <2> QED
    BY <1>3, <1>4, <1>5, <1>8, <1>10, <2>1, <2>2 DEF FilesKept, NodeSizes
<1>11. CASE Op(Main) = "open" \/ FreeBlocks = {}
  <2>1. inode'[i].size = 0 /\ UNCHANGED takenB
    <3>1. CASE Op(Main) = "open"
      <4>1. inode'[i] = [inode[i] EXCEPT !.type = "FILE", !.size = 0, !.block = None] /\ UNCHANGED takenB
        BY <1>1, <1>2, <3>1 DEF InodeInit
      <4> QED
        BY <1>2, <4>1 DEF InodeRecords
    <3>2. CASE Op(Main) # "open" /\ FreeBlocks = {}
      <4>1. inode'[i] = [inode[i] EXCEPT !.type = "SYMLINK", !.size = 0, !.block = None] /\ UNCHANGED takenB
        BY <1>1, <1>2, <3>2 DEF InodeInit
      <4> QED
        BY <1>2, <4>1 DEF InodeRecords
    <3> QED
      BY <1>11, <3>1, <3>2
  <2>2. pc'[Main] = "finish" => Op(Main) = "open"
    BY <1>11, MainGoes DEF InodeInit
  <2>3. NodeSizes'
    BY <1>10, <2>1, <2>2
  <2>4. BlocksUsed'
    <3>1. \A j : j \in Settled' /\ inode'[j].size > 0 <=> j \in Settled /\ inode[j].size > 0
      <4>1. ~ (inode'[i].size > 0)
        BY <2>1
      <4> QED
        BY <1>6, <1>8, <4>1
    <3>2. \A j \in Settled : inode[j].size > 0 => inode'[j].block = inode[j].block
      BY <1>6, <1>8
    <3> QED
      BY <2>1, <3>1, <3>2, BlocksAlike DEF FilesKept
  <2> QED
    BY <1>7, <1>9, <2>3, <2>4 DEF FilesKept
<1>12. CASE Op(Main) # "open" /\ FreeBlocks # {}
  <2>1. PICK b : b = First(FreeBlocks)
    OBVIOUS
  <2>2. inode'[i] = [inode[i] EXCEPT !.type = "SYMLINK", !.size = 1, !.block = b]
        /\ takenB' = takenB \cup {b}
    BY <1>1, <1>2, <1>12, <2>1 DEF InodeInit
  <2>3. inode'[i].size = 1 /\ inode'[i].block = b
    BY <1>2, <2>2 DEF InodeRecords
  <2>4. b \notin takenB
    BY <1>12, <2>1, FirstFree DEF FreeBlocks
  <2>5. pc'[Main] = "finish"
    BY <1>12, MainGoes DEF InodeInit
  <2>6. NodeSizes'
    BY <1>10, <1>12, <2>3, <2>5
  <2>7. BlocksUsed'
    <3>1. inode'[i].size > 0
      BY <2>3
    <3>2. \A j : j # i => (j \in Settled' <=> j \in Settled) /\ inode'[j] = inode[j]
      BY <1>6, <1>8
    <3>3. i \in Settled' /\ i \notin Settled
      BY <1>3, <1>6
    <3> QED
      BY <2>2, <2>3, <2>4, <3>1, <3>2, <3>3, BlockTaken DEF FilesKept
  <2> QED
    BY <1>7, <1>9, <2>6, <2>7 DEF FilesKept
<1> QED
  BY <1>11, <1>12

\* inode_create's end changes neither size nor block.
LEMMA InodeFinishFiles == ASSUME IInv, Directory, FilesKept, InodeFinish(Main) PROVE FilesKept'
<1>0. pc[Main] = "finish" /\ Op(Main) \in {"open", "symlink"} /\ Creating
  BY Inside, TfsAssumption DEF InodeFinish, OpFits, Creating
<1>1. PICK i \in Inodes : i = I(Main)
  BY <1>0, Now, TfsAssumption DEF WithInode
<1>2. inode \in [Inodes -> InodeRecords] /\ inode[i] \in InodeRecords
  BY IInvDisk DEF DiskOK
<1>3. UNCHANGED <<takenI, takenB, dir, oft, data>> /\ i \in takenI /\ EntriesTo(i) = {}
  BY <1>0, <1>1 DEF InodeFinish, Directory, NewInode
<1>4. pc'[Main] = "created" /\ frame'[Main] = frame[Main]
  BY MainGoes DEF InodeFinish
<1>5. I(Main)' = i /\ Op(Main)' = Op(Main) /\ Creating'
  BY <1>1, <1>4 DEF I, Op, Creating
<1>6. inode'[i] = [inode[i] EXCEPT !.state = "TAKEN", !.links = 1] /\ \A j : j # i => inode'[j] = inode[j]
  BY <1>1, <1>2 DEF InodeFinish
<1>7. inode'[i].size = inode[i].size /\ inode'[i].block = inode[i].block
  BY <1>2, <1>6 DEF InodeRecords
<1>8. \A j : inode'[j].size = inode[j].size /\ inode'[j].block = inode[j].block
  BY <1>6, <1>7
<1>9. BlocksUsed'
  <2>1. Settled' = Settled
    BY <1>0, <1>3, <1>4 DEF Settled
  <2> QED
    BY <1>3, <1>8, <2>1, BlocksAlike DEF FilesKept
<1>10. NodeSizes'
  <2>1. inode[i].size = IF Op(Main) = "open" THEN 0 ELSE 1
    BY <1>0, <1>1 DEF FilesKept, NodeSizes
  <2>2. \A j \in takenI : j # i => ~ (Creating /\ j = I(Main))
    BY <1>1
  <2> QED
    BY <1>0, <1>3, <1>4, <1>5, <1>6, <1>7, <2>1, <2>2 DEF FilesKept, NodeSizes
<1>11. Handles'
  BY <1>3, <1>6, HandlesOfOthers, SameEntries DEF FilesKept
<1>12. Discreet' /\ Reading'
  BY <1>0, <1>4, <1>5 DEF Discreet, Reading, Truncates
<1>13. Opening'
  <2>1. Op(Main) = "open" => frame[Main].tmp = 0
    BY <1>0 DEF FilesKept, Opening
  <2> QED
    BY <1>4, <1>5, <2>1 DEF Opening
<1> QED
  BY <1>9, <1>10, <1>11, <1>12, <1>13 DEF FilesKept

\* A node that is deleted and had no name was not open.
LEMMA DeletedFiles ==
  ASSUME IInv, FilesKept, NEW i \in takenI, InodeDelete(i), EntriesTo(i) = {}, UNCHANGED <<dir, oft>>,
         pc[Main] # "init", Creating => i = I(Main), pc'[Main] = "idle"
  PROVE  FilesKept'
<1>1. inode \in [Inodes -> InodeRecords] /\ i \in Inodes
  BY IInvDisk DEF DiskOK
<1>2. takenI' = takenI \ {i} /\ takenB' = takenB \ BlockOf(i) /\ \A j : j # i => inode'[j] = inode[j]
  BY <1>1 DEF InodeDelete
<1>3. BlocksUsed'
  BY <1>2, BlockFreed DEF FilesKept
<1>4. ~ Creating'
  BY DEF Creating
<1>5. NodeSizes'
  BY <1>2, <1>4 DEF FilesKept, NodeSizes, Creating
<1>6. Handles'
  BY <1>2, HandlesOfOthers, SameEntries DEF FilesKept
<1> QED
  BY <1>3, <1>5, <1>6, BlankLabel DEF FilesKept, BlankLabels

\* A failing tfs_open or tfs_sym_link deletes the node it was making.
LEMMA AbortFiles == ASSUME IInv, Directory, FilesKept, Abort(Main) PROVE FilesKept'
<1>0. pc[Main] = "abort" /\ Creating
  BY DEF Abort, Creating
<1>1. CASE I(Main) \in takenI
  <2>1. PICK i \in takenI : i = I(Main)
    BY <1>1
  <2>2. InodeDelete(i) /\ UNCHANGED <<dir, oft>> /\ EntriesTo(i) = {}
    BY <1>0, <2>1 DEF Abort, Directory, NewInode
  <2>3. pc'[Main] = "idle"
    BY <1>1, MainLeaves DEF Abort, Return
  <2> QED
    BY <1>0, <2>1, <2>2, <2>3, DeletedFiles
<1>2. CASE I(Main) \notin takenI
  BY <1>2, CrashFiles DEF Abort
<1> QED
  BY <1>1, <1>2

\* The node that was made gets its name.
LEMMA PublishedFiles ==
  ASSUME IInv, Directory, FilesKept, pc[Main] \in {"created", "add"}, Creating, FreeEntries # {},
         NEW i \in Inodes, i = I(Main), frame[Main].call.name \in Names, AddDirEntry(frame[Main].call.name, i),
         UNCHANGED <<inode, takenI, takenB, oft>>, pc'[Main] \in PlainLabels
  PROVE  BlocksUsed' /\ NodeSizes' /\ Handles' /\ Linked(i)' /\ inode[i].type = Kind
<1>1. PICK n \in Names : n = frame[Main].call.name
  OBVIOUS
<1>2. EntriesFor(n) = {} /\ TypeOK /\ NamesApart /\ AddDirEntry(n, i)
  BY <1>1 DEF Directory, NewName, IInv, Typed
<1>3. /\ \A j \in Inodes : j # i => EntriesTo(j)' = EntriesTo(j)
      /\ EntriesTo(i)' = EntriesTo(i) \cup {First(FreeEntries)}
  BY <1>2, EntryAdded
<1>4. EntriesTo(i) = {} /\ inode[i].type = Kind
  BY DEF Directory, NewInode
<1>5. ~ Creating' /\ pc'[Main] # "init" /\ pc'[Main] # "abort"
  BY DEF Creating, PlainLabels
<1>6. BlocksUsed'
  BY <1>5, BlocksStay DEF FilesKept
<1>7. NodeSizes'
  <2>1. inode[i].type = "SYMLINK" => inode[i].size = 1
    BY <1>4 DEF FilesKept, NodeSizes, Kind
  <2>2. \A j \in takenI : inode[j].type = "SYMLINK" => inode[j].size = 1
    BY <2>1 DEF FilesKept, NodeSizes
  <2> QED
    BY <1>5, <2>2 DEF NodeSizes
<1>8. Handles'
  BY <1>3, <1>4, HandlesOfOthers DEF FilesKept
<1>9. Linked(i)'
  BY <1>3 DEF Linked
<1> QED
  BY <1>4, <1>6, <1>7, <1>8, <1>9

\* A new file is in the directory, and will be opened at its beginning.
LEMMA OpenPublishFiles == ASSUME IInv, Directory, FilesKept, OpenPublish(Main) PROVE FilesKept'
<1>0. pc[Main] = "created" /\ Op(Main) = "open" /\ Creating
  BY DEF OpenPublish, At, Creating
<1>1. PICK i \in Inodes : i = I(Main)
  BY <1>0, Now, TfsAssumption DEF WithInode
<1>2. frame[Main].call.name \in Names
  BY <1>0, Now, CallFields, TfsAssumption DEF Op
<1>3. frame[Main].tmp = 0
  BY <1>0 DEF FilesKept, Opening
<1>4. CASE FreeEntries # {}
  <2>1. pc'[Main] = "addfile" /\ frame'[Main] = frame[Main] /\ AddDirEntry(frame[Main].call.name, i)
        /\ UNCHANGED <<inode, takenI, takenB, oft>>
    BY <1>1, <1>4, MainGoes DEF OpenPublish
  <2>2. BlocksUsed' /\ NodeSizes' /\ Handles' /\ Linked(i)' /\ inode[i].type = "FILE"
    BY <1>0, <1>1, <1>2, <1>4, <2>1, PublishedFiles DEF PlainLabels, Kind
  <2>3. I(Main)' = i
    BY <1>1, <2>1 DEF I
  <2>4. Linked(I(Main))'
    <3>1. Linked(I(Main))' = Linked(i)'
      BY <2>3 DEF Linked, EntriesTo
    <3> QED
      BY <2>2, <3>1
  <2>5. Discreet' /\ Reading'
    BY <2>1 DEF Discreet, Reading
  <2>6. Opening'
    BY <1>3, <2>1, <2>2, <2>3, <2>4 DEF Opening
  <2> QED
    BY <2>2, <2>5, <2>6 DEF FilesKept
<1>5. CASE FreeEntries = {}
  <2>1. pc'[Main] = "abort" /\ frame'[Main] = frame[Main] /\ UNCHANGED disk
    BY <1>5, MainGoes DEF OpenPublish
  <2>2. I(Main)' = i /\ Op(Main)' = Op(Main) /\ UNCHANGED <<inode, takenI, takenB, dir, oft>>
    BY <1>1, <2>1 DEF I, Op, disk
  <2>3. BlocksUsed' /\ Handles'
    BY <1>0, <2>1, <2>2, BlocksStay, HandlesStay DEF FilesKept
  <2>4. NodeSizes'
    <3>1. inode[i].size = 0
      BY <1>0, <1>1 DEF FilesKept, NodeSizes
    <3>2. Creating'
      BY <2>1 DEF Creating
    <3> QED
      BY <1>0, <1>1, <2>1, <2>2, <3>1, <3>2 DEF FilesKept, NodeSizes
  <2> QED
    BY <2>1, <2>3, <2>4, BlankLabel DEF FilesKept, BlankLabels
<1> QED
  BY <1>4, <1>5

\* The link's block is the one it was made with.
LEMMA SymWriteFiles == ASSUME IInv, Directory, FilesKept, SymWrite(Main) PROVE FilesKept'
<1>0. pc[Main] = "created" /\ Op(Main) = "symlink" /\ Creating
  BY DEF SymWrite, At, Creating
<1>1. PICK i \in Inodes : i = I(Main)
  BY <1>0, Now, TfsAssumption DEF WithInode
<1>2. inode \in [Inodes -> InodeRecords] /\ inode[i] \in InodeRecords
  BY IInvDisk DEF DiskOK
<1>3. CASE inode[i].block = None
  BY <1>1, <1>3, CrashFiles DEF SymWrite
<1>4. CASE inode[i].block # None
  <2>1. pc'[Main] = "add" /\ frame'[Main] = frame[Main] /\ inode' = [inode EXCEPT ![i].size = 1]
        /\ UNCHANGED <<takenI, takenB, dir, oft>>
    BY <1>1, <1>4, MainGoes DEF SymWrite
  <2>2. inode[i].size = 1
    BY <1>0, <1>1 DEF FilesKept, NodeSizes
  <2>3. inode' = inode
    <3>1. [inode[i] EXCEPT !.size = 1] = inode[i]
      BY <1>2, <2>2 DEF InodeRecords
    <3> QED
      BY <1>2, <2>1, <3>1
  <2>4. I(Main)' = i /\ Op(Main)' = Op(Main)
    BY <1>1, <2>1 DEF I, Op
  <2>5. BlocksUsed' /\ Handles'
    BY <1>0, <2>1, <2>3, BlocksStay, HandlesStay DEF FilesKept
  <2>6. NodeSizes'
    <3>1. Creating'
      BY <1>0, <2>1, <2>4 DEF Creating
    <3> QED
      BY <1>0, <1>1, <2>1, <2>2, <2>3, <2>4, <3>1 DEF FilesKept, NodeSizes
  <2> QED
    BY <2>1, <2>5, <2>6, BlankLabel DEF FilesKept, BlankLabels
<1> QED
  BY <1>3, <1>4

\* The link is in the directory, or stays without a name.
LEMMA SymAddFiles == ASSUME IInv, Directory, FilesKept, SymAdd(Main) PROVE FilesKept'
<1>0. pc[Main] = "add" /\ Op(Main) = "symlink" /\ Creating
  BY DEF SymAdd, At, Creating
<1>1. PICK i \in Inodes : i = I(Main)
  BY <1>0, Now, TfsAssumption DEF WithInode
<1>2. frame[Main].call.name \in Names
  BY <1>0, Now, CallFields, TfsAssumption DEF Op
<1>3. pc'[Main] = "idle"
  BY MainLeaves DEF SymAdd, Fail, Return
<1>4. CASE FreeEntries # {}
  <2>1. AddDirEntry(frame[Main].call.name, i) /\ UNCHANGED <<inode, takenI, takenB, oft>>
    BY <1>1, <1>4 DEF SymAdd
  <2>2. BlocksUsed' /\ NodeSizes' /\ Handles'
    BY <1>0, <1>1, <1>2, <1>3, <1>4, <2>1, PublishedFiles DEF PlainLabels
  <2> QED
    BY <1>3, <2>2, BlankLabel DEF FilesKept, BlankLabels
<1>5. CASE FreeEntries = {}
  <2>1. UNCHANGED <<inode, takenI, takenB, dir, oft>>
    BY <1>5 DEF SymAdd, Fail, disk
  <2>2. BlocksUsed' /\ Handles'
    BY <1>0, <1>3, <2>1, BlocksStay, HandlesStay DEF FilesKept
  <2>3. NodeSizes'
    <3>1. inode[i].size = 1 /\ ~ Creating'
      BY <1>0, <1>1, <1>3 DEF FilesKept, NodeSizes, Creating
    <3>2. \A j \in takenI : inode[j].type = "SYMLINK" => inode[j].size = 1
      BY <1>1, <3>1 DEF FilesKept, NodeSizes
    <3> QED
      BY <1>3, <2>1, <3>1, <3>2 DEF NodeSizes
  <2> QED
    BY <1>3, <2>2, <2>3, BlankLabel DEF FilesKept, BlankLabels
<1> QED
  BY <1>4, <1>5

-----------------------------------------------------------------------------
(* tfs_link, tfs_unlink *)

\* hard_links of an inode is no part of it.
LEMMA SizesSame ==
  ASSUME IInv, BlocksUsed, NodeSizes, Handles, UNCHANGED <<takenI, takenB, dir, oft>>, ~ Creating, ~ Creating',
         NEW i \in Inodes, NEW k, inode' = [inode EXCEPT ![i].links = k]
  PROVE  BlocksUsed' /\ NodeSizes' /\ Handles'
<1>1. inode \in [Inodes -> InodeRecords] /\ inode[i] \in InodeRecords /\ takenI \subseteq Inodes
  BY IInvDisk DEF DiskOK
<1>2. inode'[i] = [inode[i] EXCEPT !.links = k] /\ \A j : j # i => inode'[j] = inode[j]
  BY <1>1
<1>3. \A j : inode'[j].size = inode[j].size /\ inode'[j].block = inode[j].block /\ inode'[j].type = inode[j].type
  BY <1>1, <1>2 DEF InodeRecords
<1>4. pc[Main] # "init" /\ pc'[Main] # "init" /\ pc'[Main] # "abort"
  BY DEF Creating
<1>5. BlocksUsed'
  BY <1>3, <1>4, BlocksAlike DEF Settled
<1>6. NodeSizes'
  BY <1>3, <1>4 DEF NodeSizes
<1>7. Handles'
  BY <1>3 DEF Handles, Linked, EntriesTo
<1> QED
  BY <1>5, <1>6, <1>7

\* A file gets one name more.
LEMMA LinkAddFiles == ASSUME IInv, Directory, FilesKept, LinkAdd(Main) PROVE FilesKept'
<1>0. pc[Main] = "add" /\ Op(Main) = "link" /\ ~ Creating
  BY DEF LinkAdd, At, Creating
<1>1. CASE FreeEntries = {}
  BY <1>0, <1>1, FailFiles DEF LinkAdd
<1>2. CASE FreeEntries # {}
  <2>1. I(Main) \in Inodes /\ frame[Main].call.name \in Names
    BY <1>0, Now, CallFields, TfsAssumption DEF WithInode, Op
  <2>2. PICK i \in Inodes, n \in Names : i = I(Main) /\ n = frame[Main].call.name
    BY <2>1
  <2>3. AddDirEntry(n, i) /\ UNCHANGED <<inode, takenI, takenB, oft>> /\ pc'[Main] = "read"
        /\ frame'[Main] = frame[Main]
    BY <1>2, <2>2, MainGoes DEF LinkAdd
  <2>4. EntriesFor(n) = {} /\ TypeOK /\ NamesApart
    BY <1>0, <2>2 DEF Directory, NewName, IInv, Typed
  <2>5. /\ \A j \in Inodes : j # i => EntriesTo(j)' = EntriesTo(j)
        /\ EntriesTo(i)' = EntriesTo(i) \cup {First(FreeEntries)}
    BY <1>2, <2>3, <2>4, EntryAdded
  <2>6. Op(Main)' = "link" /\ ~ Creating'
    BY <1>0, <2>3 DEF Op, Creating
  <2>7. BlocksUsed' /\ NodeSizes'
    BY <1>0, <2>3, <2>6, BlocksStay, SizesStay DEF FilesKept
  <2>8. Handles'
    <3>1. ASSUME NEW d \in Fds, oft[d] # None PROVE Linked(oft[d].inum)'
      <4>1. PICK j \in Inodes : j = oft[d].inum
        BY <3>1, OpenedFiles
      <4>2. EntriesTo(j) # {}
        BY <3>1, <4>1 DEF FilesKept, Handles, Linked
      <4>3. EntriesTo(j)' # {}
        BY <2>5, <4>2
      <4>4. Linked(oft[d].inum)' <=> EntriesTo(j)' # {}
        BY <2>3, <4>1 DEF Linked, EntriesTo
      <4> QED
        BY <4>3, <4>4
    <3> QED
      BY <2>3, <3>1 DEF FilesKept, Handles
  <2>9. Discreet' /\ Opening' /\ Reading'
    BY <2>3, <2>6 DEF Discreet, Opening, Reading, Truncates
  <2> QED
    BY <2>7, <2>8, <2>9 DEF FilesKept
<1> QED
  BY <1>1, <1>2

\* hard_links catches up.
LEMMA LinkWriteFiles == ASSUME IInv, FilesKept, LinkWrite(Main) PROVE FilesKept'
<1>0. pc[Main] = "write" /\ Op(Main) = "link" /\ ~ Creating
  BY DEF LinkWrite, At, Creating
<1>1. I(Main) \in Inodes
  BY <1>0, Now, TfsAssumption DEF WithInode
<1>2. PICK i \in Inodes : i = I(Main)
  BY <1>1
<1>3. \E k : inode' = [inode EXCEPT ![i].links = k] /\ UNCHANGED <<takenI, takenB, dir, oft>>
  BY <1>2 DEF LinkWrite
<1>4. pc'[Main] = "idle"
  BY MainLeaves DEF LinkWrite, Return
<1>5. ~ Creating'
  BY <1>4 DEF Creating
<1> QED
  BY <1>0, <1>3, <1>4, <1>5, SizesSame, BlankLabel DEF FilesKept, BlankLabels

\* A name goes; an open file has another one.
LEMMA UnlinkClearFiles == ASSUME IInv, Directory, FilesKept, UnlinkClear(Main) PROVE FilesKept'
<1>0. pc[Main] = "clear" /\ Op(Main) = "unlink" /\ ~ Creating
  BY DEF UnlinkClear, At, Creating
<1>1. I(Main) \in Inodes /\ frame[Main].call.name \in Names
  BY <1>0, Now, CallFields, TfsAssumption DEF WithInode, Op
<1>2. PICK i \in Inodes, n \in Names : i = I(Main) /\ n = frame[Main].call.name
  BY <1>1
<1>3. EntriesFor(n) # {} /\ dir[First(EntriesFor(n))].inum = i /\ TypeOK /\ NamesApart
  BY <1>0, <1>2 DEF Directory, Found, IInv, Typed
<1>4. ClearDirEntry(n) /\ UNCHANGED <<inode, takenI, takenB, oft>> /\ pc'[Main] = "read"
      /\ frame'[Main] = frame[Main]
  BY <1>2, <1>3, MainGoes DEF UnlinkClear
<1>5. /\ \A j \in Inodes : j # i => EntriesTo(j)' = EntriesTo(j)
      /\ Cardinality(EntriesTo(i)') = Cardinality(EntriesTo(i)) - 1
  BY <1>3, <1>4, EntryCleared
<1>6. I(Main)' = i /\ Op(Main)' = "unlink" /\ ~ Creating' /\ Opened' = Opened
  BY <1>0, <1>2, <1>4 DEF I, Op, Creating, Opened, FreeFds
<1>7. i \in Opened => inode[i].links > 1
  BY <1>0, <1>2 DEF FilesKept, Discreet, Removable
<1>8. Removable(I(Main))'
  BY <1>4, <1>6, <1>7 DEF Removable
<1>9. i \in Opened => EntriesTo(i)' # {}
  <2> SUFFICES ASSUME i \in Opened PROVE EntriesTo(i)' # {}
    OBVIOUS
  <2>1. PICK d \in Fds : oft[d] # None /\ oft[d].inum = i
    BY DEF Opened, FreeFds
  <2>2. Linked(i) /\ inode[i].type = "FILE"
    BY <2>1 DEF FilesKept, Handles
  <2>3. Live(i)
    BY <2>2, LinkedLive DEF Directory
  <2>4. Counted(i) /\ Pending(i) = 0
    BY <1>0, <2>3 DEF Directory, AllCounted, Live, Pending, Adjusting
  <2>5. Cardinality(EntriesTo(i)) \in Nat /\ inode[i].links = Cardinality(EntriesTo(i))
    BY <2>2, <2>4, FiniteEntries DEF Counted
  <2>6. Cardinality(EntriesTo(i)') # 0
    BY <1>5, <1>7, <2>5
  <2> QED
    BY <2>6, FS_EmptySet
<1>10. BlocksUsed' /\ NodeSizes'
  BY <1>0, <1>4, <1>6, BlocksStay, SizesStay DEF FilesKept
<1>11. Handles'
  <2>1. ASSUME NEW d \in Fds, oft[d] # None PROVE Linked(oft[d].inum)'
    <3>1. PICK j \in Inodes : j = oft[d].inum
      BY <2>1, OpenedFiles
    <3>2. EntriesTo(j) # {} /\ j \in Opened
      BY <2>1, <3>1 DEF FilesKept, Handles, Linked, Opened, FreeFds
    <3>3. EntriesTo(j)' # {}
      BY <1>5, <1>9, <3>2
    <3>4. Linked(oft[d].inum)' <=> EntriesTo(j)' # {}
      BY <1>4, <3>1 DEF Linked, EntriesTo
    <3> QED
      BY <3>3, <3>4
  <2> QED
    BY <1>4, <2>1 DEF FilesKept, Handles
<1>12. Discreet' /\ Opening' /\ Reading'
  BY <1>4, <1>6, <1>8 DEF Discreet, Opening, Reading, Truncates
<1> QED
  BY <1>10, <1>11, <1>12 DEF FilesKept

\* A node whose last name is gone has no entry left.
LEMMA LastName ==
  ASSUME IInv, Directory, pc[Main] = "drop", Op(Main) = "unlink", frame[Main].tmp = 1, NEW i, i = I(Main)
  PROVE  EntriesTo(i) = {} /\ i \in takenI
<1>1. i \in takenI /\ ~ Creating /\ Pending(i) = 1 /\ inode[i].links = 1
  BY DEF Directory, Found, Adjusting, Creating, Pending
<1>2. Counted(i)
  BY <1>1 DEF Directory, AllCounted
<1>3. Cardinality(EntriesTo(i)) \in Nat
  BY FiniteEntries
<1>4. Cardinality(EntriesTo(i)) = 0
  BY <1>1, <1>2, <1>3 DEF Counted
<1> QED
  BY <1>1, <1>4, FiniteEntries

\* The node and its block go with the last name.
LEMMA UnlinkDropFiles == ASSUME IInv, Directory, FilesKept, UnlinkDrop(Main) PROVE FilesKept'
<1>0. pc[Main] = "drop" /\ Op(Main) = "unlink" /\ ~ Creating
  BY DEF UnlinkDrop, At, Creating
<1>1. I(Main) \in Inodes
  BY <1>0, Now, TfsAssumption DEF WithInode
<1>2. PICK i \in Inodes : i = I(Main)
  BY <1>1
<1>3. CASE frame[Main].tmp = 1
  <2>1. EntriesTo(i) = {} /\ i \in takenI
    BY <1>0, <1>2, <1>3, LastName
  <2>2. InodeDelete(i) /\ UNCHANGED <<dir, oft>> /\ pc'[Main] = "idle"
    BY <1>2, <1>3, <2>1, MainLeaves DEF UnlinkDrop, Return
  <2> QED
    BY <1>0, <2>1, <2>2, DeletedFiles
<1>4. CASE frame[Main].tmp # 1
  <2>1. pc'[Main] = "idle" /\ UNCHANGED <<takenI, takenB, dir, oft>> /\ DropLink(i, frame[Main].tmp)
    BY <1>2, <1>4, MainLeaves DEF UnlinkDrop, Return
  <2>2. PICK k : inode' = [inode EXCEPT ![i].links = k]
    BY <2>1 DEF DropLink
  <2>3. ~ Creating'
    BY <2>1 DEF Creating
  <2> QED
    BY <1>0, <2>1, <2>2, <2>3, SizesSame, BlankLabel DEF FilesKept, BlankLabels
<1> QED
  BY <1>3, <1>4

-----------------------------------------------------------------------------
(* tfs_close, tfs_write, tfs_read *)

\* A handle goes.
LEMMA CloseFiles == ASSUME IInv, FilesKept, Close(Main) PROVE FilesKept'
<1>0. pc[Main] = "entry" /\ Op(Main) = "close" /\ ~ Creating
  BY DEF Close, At, Creating
<1>1. CASE File(Main) = None
  BY <1>0, <1>1, FailFiles DEF Close
<1>2. CASE File(Main) # None
  <2>1. oft' = [oft EXCEPT ![Fd(Main)] = None] /\ UNCHANGED <<inode, takenI, takenB, dir>> /\ pc'[Main] = "idle"
    BY <1>2, MainLeaves DEF Close, Return
  <2>2. oft \in [Fds -> Files \cup {None}]
    BY IInvDisk DEF DiskOK, Files
  <2>3. \A d \in Fds : oft'[d] # None => oft'[d] = oft[d]
    BY <2>1, <2>2
  <2>4. Handles'
    BY <2>1, <2>3 DEF FilesKept, Handles, Linked, EntriesTo
  <2>5. BlocksUsed' /\ NodeSizes'
    BY <1>0, <2>1, BlocksStay, SizesStay DEF FilesKept, Creating
  <2> QED
    BY <2>1, <2>4, <2>5, BlankLabel DEF FilesKept, BlankLabels
<1> QED
  BY <1>1, <1>2

\* The file of a handle that is in use: it is live and has a name.
LEMMA HandleFile ==
  ASSUME IInv, Directory, FilesKept, pc[Main] \in WithFd, Op(Main) \in OnHandle
  PROVE  /\ Fd(Main) \in Fds /\ oft[Fd(Main)] = File(Main) /\ File(Main) # None
         /\ File(Main).inum \in Inodes /\ File(Main).off \in Nat
         /\ Live(File(Main).inum) /\ Linked(File(Main).inum) /\ inode[File(Main).inum].type = "FILE"
         /\ inode[File(Main).inum].size \in 0 .. BlockSize
         /\ File(Main).off <= inode[File(Main).inum].size
<1>1. Fd(Main) \in Fds /\ File(Main) \in Files
  BY Now, TfsAssumption DEF WithFd, OnHandle, Files
<1>2. File(Main) # None /\ File(Main).inum \in Inodes /\ File(Main).off \in Nat
  BY <1>1, FileFields, Sizes
<1>3. oft[Fd(Main)] = File(Main)
  BY DEF File
<1>4. Linked(File(Main).inum) /\ inode[File(Main).inum].type = "FILE"
      /\ File(Main).off <= inode[File(Main).inum].size
  BY <1>1, <1>2, <1>3 DEF FilesKept, Handles
<1>5. Live(File(Main).inum)
  BY <1>2, <1>4, LinkedLive DEF Directory
<1>6. inode[File(Main).inum].size \in 0 .. BlockSize
  <2>1. inode[File(Main).inum] \in InodeRecords
    BY <1>2, IInvDisk DEF DiskOK
  <2> QED
    BY <2>1 DEF InodeRecords
<1> QED
  BY <1>1, <1>2, <1>3, <1>4, <1>5, <1>6

\* Nothing is written yet.
LEMMA WriteEntryFiles == ASSUME IInv, FilesKept, WriteEntry(Main) PROVE FilesKept'
<1>0. pc[Main] = "entry" /\ ~ Creating /\ UNCHANGED disk
  BY DEF WriteEntry, At, Creating, disk
<1>1. pc'[Main] \in {"idle", "data"}
  BY MainGoes, MainLeaves DEF WriteEntry, WriteReturn
<1>2. pc'[Main] \in BlankLabels /\ ~ Creating'
  BY <1>1 DEF BlankLabels, Creating
<1> QED
  BY <1>0, <1>2, BlankLabel, QuietFiles

\* The file gets the block that it needs, and grows as far as it is written.
LEMMA WriteDataFiles == ASSUME IInv, Directory, FilesKept, WriteData(Main) PROVE FilesKept'
<1>0. pc[Main] = "data" /\ Op(Main) = "write" /\ ~ Creating
  BY DEF WriteData, At, Creating
<1>1. PICK d \in Fds, i \in Inodes, off \in Nat : d = Fd(Main) /\ i = File(Main).inum /\ off = File(Main).off
  BY <1>0, HandleFile DEF WithFd, OnHandle
<1>2. /\ oft[d] = File(Main) /\ oft[d] # None /\ Live(i) /\ Linked(i) /\ inode[i].type = "FILE"
      /\ inode[i].size \in 0 .. BlockSize /\ off <= inode[i].size
  BY <1>0, <1>1, HandleFile DEF WithFd, OnHandle
<1>3. PICK n \in Int : n = WriteCount(Len(frame[Main].call.cells), off)
  <2>1. frame[Main].call.cells \in Seq(Data)
    BY <1>0, Now, CallFields, TfsAssumption DEF Op
  <2>2. Len(frame[Main].call.cells) \in Nat
    BY <2>1
  <2> QED
    BY <2>2, WriteFits
<1>4. off + n <= BlockSize
  <2>1. frame[Main].call.cells \in Seq(Data)
    BY <1>0, Now, CallFields, TfsAssumption DEF Op
  <2>2. Len(frame[Main].call.cells) \in Nat
    BY <2>1
  <2> QED
    BY <1>3, <2>2, WriteFits
<1>5. ASSUME NEW locks, NEW r, WriteReturn(Main, locks, r) PROVE pc'[Main] = "idle" /\ ~ Creating'
  BY <1>5, MainLeaves DEF WriteReturn, Creating
<1>6. ASSUME NEW locks, NEW r, WriteReturn(Main, locks, r), UNCHANGED disk PROVE FilesKept'
  BY <1>0, <1>5, <1>6, BlankLabel, QuietFiles DEF BlankLabels
<1>7. PICK b : b = IF inode[i].size = 0 THEN First(FreeBlocks) ELSE inode[i].block
  OBVIOUS
<1>8. ASSUME n > 0, inode[i].size = 0 => FreeBlocks # {},
             takenB' = IF inode[i].size = 0 THEN takenB \cup {b} ELSE takenB,
             inode' = [inode EXCEPT ![i] = [@ EXCEPT !.block = b, !.size = NewSize(i, off + n)]],
             oft' = [oft EXCEPT ![d].off = off + n],
             WriteReturn(Main, {FdLock(d)}, n), UNCHANGED <<takenI, dir>>
      PROVE  FilesKept'
  <2>1. inode \in [Inodes -> InodeRecords] /\ inode[i] \in InodeRecords
    BY IInvDisk DEF DiskOK
  <2>2. PICK size : size = NewSize(i, off + n)
    OBVIOUS
  <2>3. size \in Nat /\ size > 0 /\ size >= inode[i].size /\ size >= off + n
    BY <1>2, <1>8, <2>2, Sizes DEF NewSize, Max2
  <2>4. inode'[i] = [inode[i] EXCEPT !.block = b, !.size = size] /\ \A j : j # i => inode'[j] = inode[j]
    BY <1>8, <2>1, <2>2
  <2>5. inode'[i].size = size /\ inode'[i].block = b /\ inode'[i].type = inode[i].type
    BY <2>1, <2>4 DEF InodeRecords
  <2>6. Settled = takenI /\ Settled' = takenI /\ i \in takenI /\ pc'[Main] = "idle" /\ ~ Creating'
    BY <1>0, <1>2, <1>5, <1>8 DEF Settled, Live
  <2>7. BlocksUsed'
    <3>1. CASE inode[i].size = 0
      <4>1. b \notin takenB
        BY <1>7, <1>8, <3>1, FirstFree DEF FreeBlocks
      <4>2. ~ (inode[i].size > 0) /\ inode'[i].size > 0
        BY <2>3, <2>5, <3>1
      <4> QED
        BY <1>8, <2>4, <2>5, <2>6, <3>1, <4>1, <4>2, BlockTaken DEF FilesKept
    <3>2. CASE inode[i].size # 0
      <4>1. inode[i].size > 0 /\ inode'[i].size > 0
        BY <1>2, <2>3, <2>5, <3>2, Sizes
      <4>2. b = inode[i].block /\ takenB' = takenB
        BY <1>7, <1>8, <3>2
      <4>3. \A j : j \in Settled' /\ inode'[j].size > 0 <=> j \in Settled /\ inode[j].size > 0
        BY <2>4, <2>6, <4>1
      <4>4. \A j \in Settled : inode[j].size > 0 => inode'[j].block = inode[j].block
        BY <2>4, <2>5, <4>2
      <4> QED
        BY <4>2, <4>3, <4>4, BlocksAlike DEF FilesKept
    <3> QED
      BY <3>1, <3>2
  <2>8. NodeSizes'
    <3>1. \A j \in takenI : inode[j].type = "SYMLINK" => inode[j].size = 1
      BY <1>0 DEF FilesKept, NodeSizes
    <3>2. \A j \in takenI : inode'[j].type = "SYMLINK" => inode'[j].size = 1
      BY <1>2, <2>4, <2>5, <3>1
    <3> QED
      BY <1>8, <2>6, <3>2 DEF NodeSizes
  <2>9. Handles'
    <3>1. off + n \in 0 .. MaxOffset
      BY <1>4, <1>8, Sizes
    <3>2. /\ \A e \in Fds : oft'[e] # None => oft[e] # None /\ oft'[e].inum = oft[e].inum
          /\ oft'[d].off = off + n /\ \A e \in Fds : e # d => oft'[e] = oft[e]
      <4>1. oft \in [Fds -> Files \cup {None}] /\ oft[d] \in Files
        BY <1>2, IInvDisk DEF DiskOK, Files
      <4>2. oft'[d] = [oft[d] EXCEPT !.off = off + n] /\ \A e \in Fds : e # d => oft'[e] = oft[e]
        BY <1>8, <4>1
      <4>3. oft'[d].off = off + n
        BY <4>1, <4>2 DEF Files
      <4> QED
        BY <1>2, <1>8, <3>1, <4>2, <4>3, OffsetTyped
    <3>3. ASSUME NEW e \in Fds, oft'[e] # None
          PROVE  Linked(oft[e].inum)' /\ inode'[oft'[e].inum].type = "FILE"
                 /\ oft'[e].off <= inode'[oft'[e].inum].size
      <4>1. PICK j \in Inodes : j = oft[e].inum
        BY <3>2, <3>3, OpenedFiles
      <4>2. Linked(j) /\ inode[j].type = "FILE" /\ oft[e].off <= inode[j].size /\ oft[e].off \in Nat
            /\ inode[j].size \in Nat
        <5>1. inode[j] \in InodeRecords
          BY <2>1
        <5>2. inode[j].size \in Nat
          BY <5>1, Sizes DEF InodeRecords
        <5>3. oft[e].off \in 0 .. MaxOffset
          BY <3>2, <3>3, OpenedFiles
        <5>4. oft[e].off \in Nat
          BY <5>3, Sizes
        <5> QED
          BY <3>2, <3>3, <4>1, <5>2, <5>4 DEF FilesKept, Handles
      <4>3. oft'[e].inum = j
        BY <3>2, <3>3, <4>1
      <4>4. Linked(oft[e].inum)' <=> Linked(j)
        BY <1>8, <4>3 DEF Linked, EntriesTo
      <4>5. inode'[j].type = "FILE"
        BY <1>2, <2>4, <2>5, <4>2
      <4>6. CASE e = d
        <5>1. j = i
          BY <1>1, <1>2, <4>1, <4>6
        <5>2. off + n <= size
          BY <2>3
        <5>3. oft'[e].off = off + n /\ inode'[j].size = size
          BY <2>5, <3>2, <4>6, <5>1
        <5>4. oft'[e].off <= inode'[j].size
          BY <5>2, <5>3
        <5> QED
          BY <4>2, <4>3, <4>4, <4>5, <5>4
      <4>7. CASE e # d
        <5>1. oft'[e].off = oft[e].off
          BY <3>2, <4>7
        <5>2. inode'[j].size >= inode[j].size
          <6>1. j = i => inode'[j].size = size /\ size >= inode[j].size
            BY <2>3, <2>5
          <6>2. j # i => inode'[j].size = inode[j].size
            BY <2>4
          <6> QED
            BY <4>2, <6>1, <6>2
        <5>3. inode'[j].size \in Nat
          BY <2>3, <2>4, <2>5, <4>2
        <5>4. oft[e].off <= inode'[j].size
          BY <4>2, <5>2, <5>3
        <5> QED
          BY <4>2, <4>3, <4>4, <4>5, <5>1, <5>4
      <4> QED
        BY <4>6, <4>7
    <3> QED
      BY <3>3 DEF Handles
  <2> QED
    BY <2>6, <2>7, <2>8, <2>9, BlankLabel DEF FilesKept, BlankLabels
<1>9. \/ \E r : WriteReturn(Main, {FdLock(d)}, r) /\ UNCHANGED disk
      \/ /\ n > 0 /\ (inode[i].size = 0 => FreeBlocks # {})
         /\ takenB' = IF inode[i].size = 0 THEN takenB \cup {b} ELSE takenB
         /\ inode' = [inode EXCEPT ![i] = [@ EXCEPT !.block = b, !.size = NewSize(i, off + n)]]
         /\ oft' = [oft EXCEPT ![d].off = off + n]
         /\ WriteReturn(Main, {FdLock(d)}, n)
         /\ UNCHANGED <<takenI, dir>>
      \/ Crash("undefined")
  BY <1>1, <1>3, <1>7 DEF WriteData
<1> QED
  BY <1>6, <1>8, <1>9, CrashFiles

\* A remainder is what it was below the modulus: to_read does not wrap around.
LEMMA ModSmall == ASSUME NEW n \in Nat, NEW w \in Nat, n < w PROVE n % w = n
  OBVIOUS

\* tfs_read finds out how much of the file there is beyond the handle.
LEMMA ReadSizeFiles == ASSUME IInv, Directory, FilesKept, ReadSize(Main) PROVE FilesKept'
<1>0. pc[Main] = "size" /\ Op(Main) = "read" /\ ~ Creating
  BY DEF ReadSize, At, Creating
<1>1. CASE Leave(Main, ReadLocks(Main)) /\ UNCHANGED disk
  <2>1. pc'[Main] = "idle"
    BY <1>1, MainLeaves
  <2> QED
    BY <1>0, <1>1, <2>1, BlankLabel, QuietFiles DEF BlankLabels, Creating
<1>2. CASE Goto(Main, "copy", [frame[Main] EXCEPT !.tmp = ToRead(Main)]) /\ UNCHANGED disk
  <2>1. PICK i \in Inodes, off \in Nat, size \in Nat :
            i = File(Main).inum /\ off = File(Main).off /\ size = inode[i].size
    BY <1>0, HandleFile, Sizes DEF WithFd, OnHandle
  <2>2. off <= size /\ size <= BlockSize
    BY <1>0, <2>1, HandleFile DEF WithFd, OnHandle
  <2>3. off + ToRead(Main) <= size
    <3>1. frame[Main].call.len \in Nat
      BY <1>0, Now, CallFields, TfsAssumption DEF Op
    <3>2. size - off \in Nat /\ size - off < Word /\ Word \in Nat
      BY <2>2, TfsAssumption, Sizes
    <3>3. (size - off) % Word = size - off
      BY <3>2, ModSmall
    <3>4. ToRead(Main) = Min2(size - off, frame[Main].call.len)
      BY <2>1, <3>3 DEF ToRead
    <3> QED
      BY <2>2, <3>1, <3>2, <3>4 DEF Min2
  <2>4. PICK n : n = ToRead(Main)
    OBVIOUS
  <2>5. pc'[Main] = "copy" /\ frame'[Main] = [frame[Main] EXCEPT !.tmp = n] /\ frame[Main] \in Frames
    BY <1>2, <2>4, MainGoes, TfsAssumption DEF IInv, Typed
  <2>6. frame'[Main].call = frame[Main].call /\ frame'[Main].tmp = n
    BY <2>5 DEF Frames
  <2>7. File(Main)' = File(Main) /\ UNCHANGED inode
    BY <1>2, <2>6 DEF File, Fd, disk
  <2>8. Reading'
    <3>1. File(Main)'.off + frame'[Main].tmp <= inode'[File(Main)'.inum].size
      BY <2>1, <2>3, <2>4, <2>6, <2>7
    <3> QED
      BY <2>5, <3>1 DEF Reading
  <2>9. Discreet' /\ Opening' /\ ~ Creating'
    BY <2>5 DEF Discreet, Opening, Creating
  <2> QED
    BY <1>0, <1>2, <2>8, <2>9, QuietFiles
<1> QED
  BY <1>1, <1>2, CrashFiles DEF ReadSize

\* The characters are copied: the handle has not moved.
LEMMA ReadCopyFiles == ASSUME IInv, FilesKept, ReadCopy(Main) PROVE FilesKept'
<1>0. pc[Main] = "copy" /\ ~ Creating /\ UNCHANGED disk
  BY DEF ReadCopy, At, Creating
<1>1. PICK off, cells : off = File(Main).off /\ pc'[Main] = "offset"
                        /\ frame'[Main] = [frame[Main] EXCEPT !.other = off, !.got = cells]
  BY MainGoes DEF ReadCopy
<1>2. frame[Main] \in Frames
  BY TfsAssumption DEF IInv, Typed
<1>3. frame'[Main].call = frame[Main].call /\ frame'[Main].tmp = frame[Main].tmp /\ frame'[Main].other = off
  BY <1>1, <1>2 DEF Frames
<1>4. File(Main)' = File(Main) /\ UNCHANGED inode
  BY <1>0, <1>3 DEF File, Fd, disk
<1>5. File(Main).off + frame[Main].tmp <= inode[File(Main).inum].size
  BY <1>0 DEF FilesKept, Reading
<1>6. Reading'
  BY <1>1, <1>3, <1>4, <1>5 DEF Reading
<1>7. Discreet' /\ Opening' /\ ~ Creating'
  BY <1>1 DEF Discreet, Opening, Creating
<1> QED
  BY <1>0, <1>6, <1>7, QuietFiles

\* The handle moves on, no further than to the end of the file.
LEMMA ReadOffsetFiles == ASSUME IInv, Directory, FilesKept, ReadOffset(Main) PROVE FilesKept'
<1>0. pc[Main] = "offset" /\ Op(Main) = "read" /\ ~ Creating /\ pc'[Main] = "idle"
  BY MainLeaves DEF ReadOffset, At, Creating
<1>1. PICK d \in Fds, i \in Inodes, off \in Nat : d = Fd(Main) /\ i = File(Main).inum /\ off = File(Main).off
  BY <1>0, HandleFile DEF WithFd, OnHandle
<1>2. oft[d] = File(Main) /\ oft[d] # None /\ inode[i].size \in 0 .. BlockSize
  BY <1>0, <1>1, HandleFile DEF WithFd, OnHandle
<1>3. PICK n \in Nat : n = frame[Main].tmp
  BY Inside, LocalTypes, TfsAssumption
<1>4. off + n <= inode[i].size /\ frame[Main].other = off
  BY <1>0, <1>1, <1>3 DEF FilesKept, Reading
<1>5. oft' = [oft EXCEPT ![d].off = off + n] /\ UNCHANGED <<inode, takenI, takenB, dir>>
  <2>1. Min2(off + n, MaxOffset) = off + n
    BY <1>2, <1>4, Sizes DEF Min2
  <2> QED
    BY <1>1, <1>3, <1>4, <2>1 DEF ReadOffset
<1>6. Handles'
  <2>1. oft \in [Fds -> Files \cup {None}] /\ oft[d] \in Files
    BY <1>2, IInvDisk DEF DiskOK, Files
  <2>2. oft'[d] = [oft[d] EXCEPT !.off = off + n] /\ \A e \in Fds : e # d => oft'[e] = oft[e]
    BY <1>5, <2>1
  <2>3. oft'[d].off = off + n /\ oft'[d].inum = i
    BY <1>1, <1>2, <2>1, <2>2 DEF Files
  <2>4. Linked(i) /\ inode[i].type = "FILE"
    BY <1>1, <1>2 DEF FilesKept, Handles
  <2>5. ASSUME NEW e \in Fds, oft'[e] # None
        PROVE  Linked(oft'[e].inum) /\ inode[oft'[e].inum].type = "FILE"
               /\ oft'[e].off <= inode[oft'[e].inum].size
    BY <1>4, <2>2, <2>3, <2>4, <2>5 DEF FilesKept, Handles
  <2> QED
    BY <1>5, <2>5 DEF Handles, Linked, EntriesTo
<1>7. BlocksUsed' /\ NodeSizes'
  BY <1>0, <1>5, BlocksStay, SizesStay DEF FilesKept, Creating
<1> QED
  BY <1>0, <1>6, <1>7, BlankLabel DEF FilesKept, BlankLabels

\* tfs_read finds its handle.
LEMMA ReadEntryFiles == ASSUME IInv, FilesKept, ReadEntry(Main) PROVE FilesKept'
<1>0. pc[Main] = "entry" /\ ~ Creating /\ UNCHANGED disk
  BY DEF ReadEntry, At, Creating, Fail
<1>1. pc'[Main] \in {"idle", "size"}
  BY MainGoes, MainLeaves DEF ReadEntry, Fail, Return
<1>2. pc'[Main] \in BlankLabels /\ ~ Creating'
  BY <1>1 DEF BlankLabels, Creating
<1> QED
  BY <1>0, <1>2, BlankLabel, QuietFiles

-----------------------------------------------------------------------------
\* Every step of every operation keeps blocks and handles.
LEMMA StepFiles ==
  ASSUME IInv, Careful, Directory, FilesKept, Step(Main) \/ Begin(Main)
  PROVE  FilesKept'
<1>1. ASSUME Open(Main) PROVE FilesKept'
  BY <1>1, OpenLookupFiles, OpenLockFiles, CrashFiles, OpenPublishFiles, OpenAddFileFiles DEF Open, OpenRelock
<1>2. ASSUME InodeCreate(Main) PROVE FilesKept'
  BY <1>2, InodeAllocFiles, InodeInitFiles, InodeFinishFiles, AbortFiles DEF InodeCreate
<1>3. ASSUME SymLink(Main) PROVE FilesKept'
  BY <1>3, SearchFiles, SymTargetFiles, SymWriteFiles, SymAddFiles DEF SymLink
<1>4. ASSUME Link(Main) PROVE FilesKept'
  BY <1>4, SearchFiles, LinkAddFiles, LinkWriteFiles DEF Link
<1>5. ASSUME Unlink(Main) PROVE FilesKept'
  BY <1>5, UnlinkLookupFiles, UnlinkClearFiles, UnlinkReadFiles, UnlinkDropFiles DEF Unlink
<1>6. ASSUME Close(Main) \/ Write(Main) \/ Read(Main) \/ Copy(Main) PROVE FilesKept'
  BY <1>6, CloseFiles, WriteEntryFiles, WriteDataFiles, ReadEntryFiles, ReadSizeFiles, ReadCopyFiles,
     ReadOffsetFiles, CopyFiles DEF Write, Read
<1>7. ASSUME Begin(Main) PROVE FilesKept'
  BY <1>7, BeginFiles
<1> QED
  BY <1>1, <1>2, <1>3, <1>4, <1>5, <1>6, <1>7 DEF Step

\* No block is in use and no file open at first.
LEMMA InitFiles == Init => FilesKept
<1> SUFFICES ASSUME Init PROVE FilesKept
  OBVIOUS
<1>1. pc[Main] = "idle" /\ takenI = {} /\ takenB = {} /\ \A d \in Fds : oft[d] = None
  BY TfsAssumption DEF Init, StateInit
<1>2. BlocksUsed
  BY <1>1 DEF BlocksUsed, Settled
<1>3. NodeSizes
  BY <1>1 DEF NodeSizes, Creating
<1>4. Handles /\ Discreet /\ Opening /\ Reading
  BY <1>1 DEF Handles, Discreet, Opening, Reading
<1> QED
  BY <1>2, <1>3, <1>4 DEF FilesKept

\* What one careful thread's steps keep, the process's steps keep.
LEMMA NextFiles ==
  ASSUME OneThread, Careful, IInv, Directory, FilesKept, [Next]_vars
  PROVE  FilesKept'
<1>1. CASE UNCHANGED vars
  BY <1>1, StaysFiles DEF vars
<1>2. ASSUME NEW t \in Threads, Step(t) \/ Begin(t) PROVE FilesKept'
  BY <1>2, StepFiles DEF OneThread
<1> QED
  BY <1>1, <1>2 DEF Next, Over

\* With one careful thread, at each step of every operation: the blocks in use
\* are those of the inodes in use, one each, and no handle is beyond the end of
\* its file.
THEOREM FilesStayKept == OneThread /\ Careful => (Spec => [](IInv /\ Directory /\ FilesKept))
<1> SUFFICES ASSUME OneThread, Careful PROVE Spec => [](IInv /\ Directory /\ FilesKept)
  OBVIOUS
<1>1. IInv /\ Directory /\ FilesKept /\ [Next]_vars => FilesKept'
  BY NextFiles
<1> QED
  BY <1>1, InitFiles, DirectoryKept, PTL DEF Spec

\* With one careful thread: between operations free_blocks and the inode table
\* agree; no block is freed twice, lost, or shared by two files (tfs_open's
\* truncation, inode_create, inode_delete, tfs_write).
THEOREM BlocksExact == OneThread /\ Careful => (Spec => []BlocksAccounted)
<1>1. IInv /\ Directory /\ FilesKept => BlocksAccounted
  <2> SUFFICES ASSUME IInv, FilesKept, Idle PROVE BlocksAccounted
    BY DEF BlocksAccounted
  <2>1. pc[Main] = "idle"
    BY TfsAssumption DEF Idle
  <2>2. Settled = takenI
    BY <2>1 DEF Settled
  <2>3. takenB = UNION {BlockOf(i) : i \in takenI}
    <3>1. ASSUME NEW b \in takenB PROVE \E i \in takenI : b \in BlockOf(i)
      BY <2>2 DEF FilesKept, BlocksUsed, HasBlock, BlockOf
    <3>2. ASSUME NEW i \in takenI, NEW b \in BlockOf(i) PROVE b \in takenB
      BY <2>2 DEF FilesKept, BlocksUsed, HasBlock, BlockOf
    <3> QED
      BY <3>1, <3>2
  <2>4. \A i, j \in takenI : i # j => BlockOf(i) \cap BlockOf(j) = {}
    BY <2>2 DEF FilesKept, BlocksUsed, HasBlock, BlockOf
  <2> QED
    BY <2>3, <2>4 DEF BlocksAccounted
<1> QED
  BY <1>1, FilesStayKept, PTL

-----------------------------------------------------------------------------
(* The assertions of state.c and operations.c *)

\* An inode that has a block has one that exists.
LEMMA BlockExists ==
  ASSUME IInv, FilesKept, pc[Main] # "init", NEW i \in takenI, inode[i].size > 0
  PROVE  inode[i].block \in Blocks /\ inode[i].block # None
<1>1. inode[i].block \in takenB
  BY DEF FilesKept, BlocksUsed, Settled, HasBlock
<1>2. inode[i].block \in Blocks
  BY <1>1, IInvDisk DEF DiskOK
<1> QED
  BY <1>2, Sizes DEF Blocks

\* No step of a careful thread ends in ALWAYS_ASSERT.
LEMMA StepAsserts ==
  ASSUME IInv, Directory, FilesKept, Step(Main) \/ Begin(Main), crashed # "assert"
  PROVE  crashed' # "assert"
<1>1. CASE OpenLock(Main)
  <2>1. pc[Main] = "lock" /\ Op(Main) = "open"
    BY <1>1 DEF OpenLock, At
  <2>2. PICK i \in Inodes : i = I(Main)
    BY <2>1, Now, TfsAssumption DEF WithInode
  <2>3. Linked(i)
    BY <2>1, <2>2 DEF FilesKept, Opening
  <2>4. i \in takenI /\ ~ Creating
    BY <2>1, <2>3, LinkedLive DEF Directory, Live, Creating
  <2>5. inode[i].type = "SYMLINK" => inode[i].block # None
    <3> SUFFICES ASSUME inode[i].type = "SYMLINK" PROVE inode[i].block # None
      OBVIOUS
    <3>1. inode[i].size > 0
      BY <2>4 DEF FilesKept, NodeSizes
    <3> QED
      BY <2>1, <2>4, <3>1, BlockExists
  <2> QED
    BY <1>1, <2>2, <2>5 DEF OpenLock, Fail, Return, Leave, Goto
<1>2. CASE Abort(Main)
  <2>1. I(Main) \in takenI
    BY <1>2 DEF Abort, Directory, NewInode, Creating
  <2> QED
    BY <1>2, <2>1 DEF Abort, Return, Leave
<1>3. CASE SymWrite(Main)
  <2>1. pc[Main] = "created" /\ Op(Main) = "symlink"
    BY <1>3 DEF SymWrite, At
  <2>2. Creating
    BY <2>1 DEF Creating
  <2>3. I(Main) \in takenI /\ inode[I(Main)].size > 0
    BY <2>1, <2>2 DEF Directory, NewInode, FilesKept, NodeSizes
  <2>4. inode[I(Main)].block # None
    BY <2>1, <2>3, BlockExists
  <2> QED
    BY <1>3, <2>4 DEF SymWrite, Goto
<1>4. CASE UnlinkDrop(Main)
  <2>1. I(Main) \in takenI
    BY <1>4 DEF UnlinkDrop, At, Directory, Found, Adjusting
  <2> QED
    BY <1>4, <2>1 DEF UnlinkDrop, Return, Leave
<1>5. CASE ReadSize(Main)
  <2>1. pc[Main] = "size" /\ Op(Main) = "read"
    BY <1>5 DEF ReadSize, At
  <2>2. PICK i \in takenI, off \in Nat, size \in Nat :
            i = File(Main).inum /\ off = File(Main).off /\ size = inode[i].size /\ off <= size
    BY <2>1, HandleFile, Sizes DEF WithFd, OnHandle, Live
  <2>3. ToRead(Main) > 0 => inode[i].block # None
    <3> SUFFICES ASSUME ToRead(Main) > 0 PROVE inode[i].block # None
      OBVIOUS
    <3>1. size # 0
      <4> SUFFICES ASSUME size = 0 PROVE FALSE
        OBVIOUS
      <4>1. size - off = 0
        BY <2>2
      <4>2. 0 % Word = 0
        BY ModSmall, TfsAssumption, Sizes
      <4>3. frame[Main].call.len \in Nat
        BY <2>1, Now, CallFields, TfsAssumption DEF Op
      <4>4. ToRead(Main) = Min2(0, frame[Main].call.len)
        BY <2>2, <4>1, <4>2 DEF ToRead
      <4>5. ToRead(Main) = 0
        BY <4>3, <4>4 DEF Min2
      <4> QED
        BY <4>5
    <3>2. inode[i].size > 0
      BY <2>2, <3>1
    <3> QED
      BY <2>1, <3>2, BlockExists
  <2> QED
    BY <1>5, <2>2, <2>3 DEF ReadSize, Leave, Goto
<1>6. ASSUME Open(Main) \/ InodeCreate(Main) \/ SymLink(Main) PROVE crashed' # "assert"
  BY <1>1, <1>2, <1>3, <1>6 DEF Open, OpenLookup, OpenRelock, OpenPublish, OpenAddFile, InodeCreate, InodeAlloc,
     InodeInit, InodeFinish, SymLink, SymLookup, SymTarget, SymAdd, Crash, Fail, Return, Leave, Goto
<1>7. ASSUME Link(Main) \/ Unlink(Main) PROVE crashed' # "assert"
  BY <1>4, <1>7 DEF Link, LinkLookup, LinkType, LinkName, LinkAdd, LinkRead, LinkWrite, Unlink, UnlinkLookup,
     UnlinkClear, UnlinkRead, Crash, Fail, Return, Leave, Goto
<1>8. ASSUME Close(Main) \/ Write(Main) \/ Read(Main) PROVE crashed' # "assert"
  BY <1>5, <1>8 DEF Close, Write, WriteEntry, WriteData, WriteReturn, Read, ReadEntry, ReadCopy, ReadOffset,
     Crash, Fail, Return, Leave, Goto
<1>9. ASSUME Copy(Main) \/ Begin(Main) PROVE crashed' # "assert"
  BY <1>9 DEF Copy, CopyStart, CopyRefused, CopyChunk, CopyClose, CopyReturn, Call, Begin, Fail, Return, Leave
<1> QED
  BY <1>6, <1>7, <1>8, <1>9 DEF Step

\* With one careful thread, no ALWAYS_ASSERT of state.c and operations.c fails:
\* not those of inode_get, inode_delete and data_block_get either.
THEOREM AssertionsKept == OneThread /\ Careful => (Spec => []AssertionsHold)
<1> SUFFICES ASSUME OneThread, Careful PROVE Spec => []AssertionsHold
  OBVIOUS
<1>1. Init => AssertionsHold
  BY NoneAssumption DEF Init, AssertionsHold
<1>2. IInv /\ Directory /\ FilesKept /\ AssertionsHold /\ [Next]_vars => AssertionsHold'
  <2> SUFFICES ASSUME IInv, Directory, FilesKept, crashed # "assert", [Next]_vars PROVE crashed' # "assert"
    BY DEF AssertionsHold
  <2>1. CASE UNCHANGED vars
    BY <2>1 DEF vars
  <2>2. ASSUME NEW t \in Threads, Step(t) \/ Begin(t) PROVE crashed' # "assert"
    BY <2>2, StepAsserts DEF OneThread
  <2> QED
    BY <2>1, <2>2 DEF Next, Over
<1> QED
  BY <1>1, <1>2, FilesStayKept, PTL DEF Spec
=============================================================================
