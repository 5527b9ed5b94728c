------------------------------ MODULE TfsState ------------------------------
(***************************************************************************)
(* Exercise-1/fs/state.c: the state of TecnicoFS (inode table, data        *)
(* blocks, root directory, open file table, read-write locks) and what     *)
(* each of its operations does to it.                                      *)
(*                                                                         *)
(* The functions of state.c that take a table-wide lock for their whole    *)
(* body (inode_alloc, inode_delete, data_block_alloc, data_block_free,     *)
(* clear_dir_entry, add_dir_entry, find_in_dir, add_to_open_file_table)    *)
(* take no other lock inside except, in inode_delete, that of the block    *)
(* bitmap, so each is one atomic change.  Inumber 0 and block 0 belong to  *)
(* the root directory from tfs_init on and are never freed: Inodes and     *)
(* Blocks are the others.                                                  *)
(***************************************************************************)
EXTENDS Integers, Sequences, FiniteSets

CONSTANTS Threads,    \* client threads
          Names,      \* path names
          Data,       \* what a cell of a file may hold
          NInodes,    \* max_inode_count, the root's not counted
          NBlocks,    \* max_block_count, the root's not counted
          NEntries,   \* entries of the root directory
          NFiles,     \* max_open_files_count
          BlockSize,  \* cells of a block
          None

ASSUME TfsStateAssumption ==
    /\ {NInodes, NBlocks, NEntries, NFiles, BlockSize} \subseteq Nat \ {0}
    /\ Names \cap Data = {}
    /\ None \notin Names \cup Data \cup Threads \cup Nat
    /\ None \notin [inum : Nat, off : Nat]

Inodes == 1 .. NInodes
Blocks == 1 .. NBlocks
Entries == 1 .. NEntries
Fds == 1 .. NFiles

VARIABLES inode,    \* inode[i]: an entry of inode_table
          takenI,   \* inumbers that freeinode_ts marks TAKEN
          takenB,   \* blocks that free_blocks marks TAKEN
          dir,      \* the entries of the root directory
          oft,      \* open_file_table, None where the entry is FREE
          data,     \* fs_data, one cell at a time
          held      \* the read-write locks held: <<thread, mode, lock>>

disk == <<inode, takenI, takenB, dir, oft, data>>

First(S) == CHOOSE x \in S : \A y \in S : x <= y

FreeEntry == [name |-> None, inum |-> None]

\* state_init, followed by the creation of the root directory.
StateInit ==
    /\ inode = [i \in Inodes |-> [state |-> "FREE", type |-> "FILE", size |-> 0,
                                  block |-> None, links |-> 0]]
    /\ takenI = {}
    /\ takenB = {}
    /\ dir = [s \in Entries |-> FreeEntry]
    /\ oft = [d \in Fds |-> None]
    /\ data = [a \in 0 .. NBlocks * BlockSize - 1 |-> None]
    /\ held = {}

-----------------------------------------------------------------------------
(* Locks.  A thread that write-locks what it has write-locked itself gets   *)
(* EDEADLK; one that write-locks what it has read-locked waits forever.     *)

InodeLock(i) == <<"inode", i>>
\* Mutant: get_link_lock returns the inode's lock.
LinkLockShared(i) == <<"inode", i>>

LinkLock(i) == <<"link", i>>
FdLock(d) == <<"fd", d>>

CanWrite(l) == \A g \in held : g[3] # l
CanRead(l) == \A g \in held : g[3] = l => g[2] = "rd"

Locked(t, mode, l) == held \cup {<<t, mode, l>>}
Unlocked(t, locks) == {g \in held : g[1] # t \/ g[3] \notin locks}

-----------------------------------------------------------------------------
(* Inodes and blocks *)

FreeInodes == Inodes \ takenI
FreeBlocks == Blocks \ takenB

\* The blocks that inode_delete(i), or truncating i, gives back.
BlockOf(i) == IF inode[i].size > 0 THEN {inode[i].block} ELSE {}

\* Mutant: the block of a deleted inode stays TAKEN.
InodeDeleteKeepsBlock(i) == /\ inode' = [inode EXCEPT ![i].state = "FREE"]
                            /\ takenI' = takenI \ {i}
                            /\ UNCHANGED takenB

\* inode_delete for an inumber that is TAKEN; i_size and i_data_block stay.
InodeDelete(i) == /\ inode' = [inode EXCEPT ![i].state = "FREE"]
                  /\ takenB' = takenB \ BlockOf(i)
                  /\ takenI' = takenI \ {i}

\* Where cell k of block b is in fs_data, and what it holds; past the last
\* block there is nothing a file was ever given.
Address(b, k) == (b - 1) * BlockSize + k
Cell(b, k) == IF Address(b, k) \in DOMAIN data THEN data[Address(b, k)] ELSE None

-----------------------------------------------------------------------------
(* The root directory *)

EntriesFor(n) == {s \in Entries : dir[s].name = n /\ dir[s].inum # None}

\* find_in_dir: the first entry of that name, unless its inode is FREE.
Lookup(n) == IF EntriesFor(n) = {} THEN None
             ELSE LET i == dir[First(EntriesFor(n))].inum IN
                  IF inode[i].state = "FREE" THEN None ELSE i

FreeEntries == {s \in Entries : dir[s].inum = None}

\* add_dir_entry, when there is a free entry.
AddDirEntry(n, i) == dir' = [dir EXCEPT ![First(FreeEntries)] = [name |-> n, inum |-> i]]

\* clear_dir_entry, when there is an entry of that name.
ClearDirEntry(n) == dir' = [dir EXCEPT ![First(EntriesFor(n))] = FreeEntry]

-----------------------------------------------------------------------------
(* The open file table *)

FreeFds == {d \in Fds : oft[d] = None}

\* add_to_open_file_table, when there is a free entry.
AddToOpenFileTable(i, off) == oft' = [oft EXCEPT ![First(FreeFds)] = [inum |-> i, off |-> off]]
=============================================================================
