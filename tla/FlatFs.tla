------------------------------- MODULE FlatFs -------------------------------
(***************************************************************************)
(* What Exercise-1/fs/operations.h promises: a flat name space of files    *)
(* and symbolic links, and open files with an offset each.  Hard links are *)
(* names of the same node.  A step is one change of these; Effect says     *)
(* which changes a call may make.  What a call returns is left out, and    *)
(* there are no inodes, blocks or locks here.                              *)
(***************************************************************************)
EXTENDS Naturals, Sequences

CONSTANTS Threads, Names, Nodes, Fds, Data, BlockSize, None

VARIABLES tree,  \* tree[n]: the node that name n is linked to, or None
          body,  \* body[i]: the contents of a linked node i, or None
          open,  \* open[d]: the node and offset of open file d, or None
          buf    \* buf[t]: what thread t read last

flatVars == <<tree, body, open, buf>>

FlatInit == /\ tree = [n \in Names |-> None]
            /\ body = [i \in Nodes |-> None]
            /\ open = [d \in Fds |-> None]
            /\ buf = [t \in Threads |-> <<>>]

FileNode(cells) == [kind |-> "FILE", cells |-> cells]
LinkNode(target) == [kind |-> "SYMLINK", target |-> target]
IsFile(i) == body[i] # None /\ body[i].kind = "FILE"

\* tfs_open with TFS_O_CREAT, tfs_sym_link: a new name for a new node.
Create(n, i, node) == /\ tree[n] = None /\ body[i] = None
                      /\ tree' = [tree EXCEPT ![n] = i]
                      /\ body' = [body EXCEPT ![i] = node]
                      /\ UNCHANGED <<open, buf>>

\* tfs_link: a new name for a file, by one of the names it has.
AddName(n, target) == /\ tree[n] = None /\ tree[target] # None /\ IsFile(tree[target])
                      /\ tree' = [tree EXCEPT ![n] = tree[target]]
                      /\ UNCHANGED <<body, open, buf>>

\* tfs_unlink: the node goes with its last name.
Remove(n) ==
    /\ tree[n] # None
    /\ tree' = [tree EXCEPT ![n] = None]
    /\ body' = IF \E m \in Names \ {n} : tree[m] = tree[n]
                 THEN body ELSE [body EXCEPT ![tree[n]] = None]
    /\ UNCHANGED <<open, buf>>

\* tfs_open with TFS_O_TRUNC.
Truncate(i) == /\ IsFile(i)
               /\ body' = [body EXCEPT ![i] = FileNode(<<>>)]
               /\ UNCHANGED <<tree, open, buf>>

\* tfs_open: at the start of the file, or at its end as it is (or, in append
\* mode, as it was while the file was being opened).
OpenFile(d, i, off) == /\ open[d] = None /\ IsFile(i)
                       /\ off \in {0, Len(body[i].cells)}
                       /\ open' = [open EXCEPT ![d] = [inum |-> i, off |-> off]]
                       /\ UNCHANGED <<tree, body, buf>>

CloseFile(d) == /\ open[d] # None
                /\ open' = [open EXCEPT ![d] = None]
                /\ UNCHANGED <<tree, body, buf>>

\* tfs_write: the cells replace what is there from the offset on.
WriteFile(d, cells) ==
    /\ open[d] # None
    /\ LET i == open[d].inum
           old == body[i].cells
           off == open[d].off
           end == off + Len(cells)
       IN /\ IsFile(i)
          /\ end <= BlockSize
          /\ off <= Len(old)
          /\ body' = [body EXCEPT ![i] =
                FileNode(SubSeq(old, 1, off) \o cells \o SubSeq(old, end + 1, Len(old)))]
          /\ open' = [open EXCEPT ![d].off = end]
    /\ UNCHANGED <<tree, buf>>

\* tfs_read: n cells of the file from the offset on, none beyond its end.
ReadFile(d, t, n) ==
    /\ open[d] # None
    /\ LET i == open[d].inum
           off == open[d].off
       IN /\ IsFile(i)
          /\ off + n <= Len(body[i].cells)
          /\ buf' = [buf EXCEPT ![t] = SubSeq(body[i].cells, off + 1, off + n)]
          /\ open' = [open EXCEPT ![d].off = off + n]
    /\ UNCHANGED <<tree, body>>

FlatNext ==
    \/ \E n \in Names :
         \/ \E i \in Nodes : Create(n, i, FileNode(<<>>))
         \/ \E i \in Nodes, m \in Names : Create(n, i, LinkNode(m))
         \/ \E m \in Names : AddName(n, m)
         \/ Remove(n)
    \/ \E i \in Nodes : Truncate(i)
    \/ \E d \in Fds :
         \/ \E i \in Nodes, off \in 0 .. BlockSize : OpenFile(d, i, off)
         \/ CloseFile(d)
         \/ \E k \in 1 .. BlockSize : \E cells \in [1 .. k -> Data] : WriteFile(d, cells)
         \/ \E t \in Threads, n \in 0 .. BlockSize : ReadFile(d, t, n)

\* The name is a file's, or leads to it by a symbolic link.
Reaches(n, i) == tree[n] # None /\ (tree[n] = i \/ ~IsFile(tree[n]))

\* The changes that call c of thread t may make.  tfs_open may make two: a file
\* is created, or truncated, and then opened, and stays created or truncated
\* when there is no room for one more open file.  The others make one.
Effect(t, c) ==
    \/ /\ c.op = "open"
       /\ \/ "CREAT" \in c.mode /\ \E i \in Nodes : Create(c.name, i, FileNode(<<>>))
          \/ "TRUNC" \in c.mode /\ \E i \in Nodes : Reaches(c.name, i) /\ Truncate(i)
          \/ \E d \in Fds, i \in Nodes, off \in 0 .. BlockSize :
               Reaches(c.name, i) /\ ("APPEND" \notin c.mode => off = 0) /\ OpenFile(d, i, off)
    \/ c.op = "symlink" /\ \E i \in Nodes : Create(c.name, i, LinkNode(c.target))
    \/ c.op = "link" /\ AddName(c.name, c.target)
    \/ c.op = "unlink" /\ Remove(c.name)
    \/ c.op = "close" /\ CloseFile(c.fd)
    \/ c.op = "write" /\ \E n \in 1 .. BlockSize : n <= Len(c.cells) /\ WriteFile(c.fd, SubSeq(c.cells, 1, n))
    \/ c.op = "read" /\ \E n \in 0 .. BlockSize : n <= c.len /\ ReadFile(c.fd, t, n)

FlatSpec == FlatInit /\ [][FlatNext]_flatVars
=============================================================================
