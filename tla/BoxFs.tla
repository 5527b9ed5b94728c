-------------------------------- MODULE BoxFs --------------------------------
(***************************************************************************)
(* Exercise-2/fs: TecnicoFS as mbroker uses it, one file for each box.     *)
(* Every tfs_ operation holds g_library_mutex from its first line to its   *)
(* return, so each is one step here; mbroker truncates nothing.            *)
(*                                                                         *)
(* tfs_init(NULL) gives more inodes (64) and blocks (1024) than the root   *)
(* directory has entries (1024 / 44 = 23): the table of inodes never fills *)
(* before the directory does.  fs_data is 1 MiB that malloc maps fresh, so *)
(* its cells are Nul at first.                                             *)
(***************************************************************************)
EXTENDS Integers, Sequences, FiniteSets

CONSTANTS Boxes,      \* names of boxes, and of their files
          Chars,      \* characters of a message, Nul excepted
          Nul,        \* '\0'
          NEntries,   \* entries of the root directory
          NBlocks,    \* blocks, the root's not counted
          NHandles,   \* max_open_files_count
          BlockSize,  \* block_size, which is also MAX_MESSAGE
          Word,       \* size_t counts modulo Word
          None

ASSUME BoxFsAssumption ==
    /\ {NEntries, NBlocks, NHandles, BlockSize} \subseteq Nat \ {0}
    /\ Nul \notin Chars
    /\ None \notin Boxes \cup Nat \cup [inum : Nat, off : Nat]
    /\ Word \in Nat /\ Word > (NBlocks + 1) * BlockSize

Inodes == 1 .. NEntries + 1
Blocks == 1 .. NBlocks
Handles == 1 .. NHandles
DataEnd == NBlocks * BlockSize

VARIABLES entry,   \* entry[n]: the inumber that name n is linked to, or None
          takenI,  \* inumbers that freeinode_ts marks TAKEN
          takenB,  \* blocks that free_blocks marks TAKEN
          node,    \* node[i]: i_size and i_data_block
          oft,     \* open_file_table, None where the entry is FREE
          data     \* fs_data, one character a cell

fsVars == <<entry, takenI, takenB, node, oft, data>>

First(S) == CHOOSE x \in S : \A y \in S : x <= y
Min2(x, y) == IF x <= y THEN x ELSE y

\* What inode_create makes of an inode.
EmptyFile == [size |-> 0, block |-> None]

FsInit == /\ entry = [n \in Boxes |-> None]
          /\ takenI = {} /\ takenB = {}
          /\ node = [i \in Inodes |-> EmptyFile]
          /\ oft = [d \in Handles |-> None]
          /\ data = [a \in 0 .. DataEnd - 1 |-> Nul]

Exists(n) == entry[n] # None
FreeHandles == {d \in Handles : oft[d] = None}
FreeBlocks == Blocks \ takenB
FullDirectory == Cardinality({n \in Boxes : Exists(n)}) = NEntries

\* Cell k of block b; the memory behind the last block is Nul.
Address(b, k) == (b - 1) * BlockSize + k
Cell(b, k) == IF Address(b, k) \in DOMAIN data THEN data[Address(b, k)] ELSE Nul

Content(i) == [k \in 1 .. node[i].size |-> Cell(node[i].block, k - 1)]

-----------------------------------------------------------------------------
\* What add_to_open_file_table returns, and what it does.
NewHandle == IF FreeHandles = {} THEN None ELSE First(FreeHandles)

AddHandle(i, off) ==
    oft' = IF NewHandle = None THEN oft
           ELSE [oft EXCEPT ![NewHandle] = [inum |-> i, off |-> off]]

\* The inumber that inode_alloc takes.
NewInode == First(Inodes \ takenI)

\* The handle that tfs_open returns.
OpenResult(n, mode) ==
    IF ~Exists(n) /\ (mode # "CREAT" \/ FullDirectory) THEN None ELSE NewHandle

\* tfs_open.  In append mode the offset is the size of the file.  A file that
\* is created while the handles are used up stays created; when the directory
\* is full its inode is deleted again.
TfsOpen(n, mode) ==
    LET i == NewInode IN
    /\ UNCHANGED <<takenB, data>>
    /\ \/ /\ Exists(n)
          /\ AddHandle(entry[n], IF mode = "APPEND" THEN node[entry[n]].size ELSE 0)
          /\ UNCHANGED <<entry, takenI, node>>
       \/ /\ ~Exists(n) /\ mode # "CREAT"
          /\ UNCHANGED <<entry, takenI, node, oft>>
       \/ /\ ~Exists(n) /\ mode = "CREAT"
          /\ node' = [node EXCEPT ![i] = EmptyFile]
          /\ \/ /\ ~FullDirectory
                /\ entry' = [entry EXCEPT ![n] = i]
                /\ takenI' = takenI \cup {i}
                /\ AddHandle(i, 0)
             \/ FullDirectory /\ UNCHANGED <<entry, takenI, oft>>

TfsClose(d) == /\ oft' = [oft EXCEPT ![d] = None]
               /\ UNCHANGED <<entry, takenI, takenB, node, data>>

\* Mutant: no cut at the end of the block.
WriteCountUncut(len, off) == len

WriteCount(len, off) == Min2(len, BlockSize - off)

\* An empty file gets a block with its first write.
NeedsBlock(d) == node[oft[d].inum].size = 0

\* What tfs_write returns: the number of cells written, or -1.
WriteResult(d, cells) ==
    LET n == WriteCount(Len(cells), oft[d].off)
    IN IF n > 0 /\ NeedsBlock(d) /\ FreeBlocks = {} THEN -1 ELSE n

TfsWrite(d, cells) ==
    LET i == oft[d].inum
        off == oft[d].off
        n == WriteResult(d, cells)
        block == IF NeedsBlock(d) THEN First(FreeBlocks) ELSE node[i].block
    IN /\ UNCHANGED <<entry, takenI>>
       /\ \/ n <= 0 /\ UNCHANGED <<takenB, node, oft, data>>
          \/ /\ n > 0
             /\ takenB' = IF NeedsBlock(d) THEN takenB \cup {block} ELSE takenB
             /\ node' = [node EXCEPT ![i] =
                           [size |-> IF off + n > @.size THEN off + n ELSE @.size,
                            block |-> block]]
             /\ oft' = [oft EXCEPT ![d].off = off + n]
             /\ data' = [a \in DOMAIN data |->
                           LET k == a - Address(block, off)
                           IN IF k \in 0 .. n - 1 THEN cells[k + 1] ELSE data[a]]

\* tfs_read skips one separator.
ReadStart(b, off) == IF Cell(b, off) = Nul THEN off + 1 ELSE off

\* to_read: i_size - of_offset in size_t, at most len.
ToRead(d) == Min2((node[oft[d].inum].size - oft[d].off) % Word, BlockSize)

\* An offset beyond an empty file: data_block_get asserts that there is a block.
ReadDies(d) == ToRead(d) > 0 /\ node[oft[d].inum].block = None

\* The message that tfs_read copies when it does not die, up to the next
\* separator; empty when it returns 0.  to_read is not lowered when a separator
\* is skipped.
ReadResult(d) ==
    LET b == node[oft[d].inum].block
        start == ReadStart(b, oft[d].off)
        ends == {k \in 0 .. ToRead(d) - 1 : Cell(b, start + k) = Nul}
        n == IF ends = {} THEN ToRead(d) ELSE First(ends)
    IN [k \in 1 .. n |-> Cell(b, start + k - 1)]

\* Mutant: the separator that was skipped is not counted.
ReadEndShort(d) == oft[d].off + Len(ReadResult(d))

ReadEnd(d) == ReadStart(node[oft[d].inum].block, oft[d].off) + Len(ReadResult(d))

\* Offsets are not followed beyond DataEnd.
TfsRead(d) ==
    /\ oft' = IF ToRead(d) = 0 THEN oft ELSE [oft EXCEPT ![d].off = Min2(ReadEnd(d), DataEnd)]
    /\ UNCHANGED <<entry, takenI, takenB, node, data>>

\* Mutant: the deleted inode's block stays TAKEN.
DeletedBlockKept(i) == {}

\* The block that inode_delete(i) frees; i_size and i_data_block stay.
DeletedBlock(i) == IF node[i].size > 0 THEN {node[i].block} ELSE {}

\* tfs_unlink, when the name exists.
TfsUnlink(n) == /\ takenI' = takenI \ {entry[n]}
                /\ takenB' = takenB \ DeletedBlock(entry[n])
                /\ entry' = [entry EXCEPT ![n] = None]
                /\ UNCHANGED <<node, oft, data>>
=============================================================================
