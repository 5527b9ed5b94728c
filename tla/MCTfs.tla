------------------------------- MODULE MCTfs -------------------------------
(* The programs that TLC runs Tfs with. *)
EXTENDS Tfs, TLC

CONSTANTS main, t1, t2,     \* threads
          f, g, s,          \* path names
          x, y              \* cells

OpenCall(n, mode) == [op |-> "open", name |-> n, mode |-> mode]
SymLinkCall(target, n) == [op |-> "symlink", target |-> target, name |-> n]
LinkCall(target, n) == [op |-> "link", target |-> target, name |-> n]
UnlinkCall(n) == [op |-> "unlink", name |-> n]
CloseCall(d) == [op |-> "close", fd |-> d]
WriteCall(d, cells) == [op |-> "write", fd |-> d, cells |-> cells]
ReadCall(d, n) == [op |-> "read", fd |-> d, len |-> n]

CopyCall(n, source) == [op |-> "copy", name |-> n, cells |-> source]

\* Every operation, on every name and handle, for ever; copies of an empty
\* source, a small one and one that does not fit into a block.
AllCalls ==
    {OpenCall(n, m) : n \in Names, m \in {{}, {"CREAT"}, {"TRUNC"}, {"APPEND"}}}
    \cup {SymLinkCall(n, m) : n \in Names, m \in Names}
    \cup {LinkCall(n, m) : n \in Names, m \in Names}
    \cup {UnlinkCall(n) : n \in Names}
    \cup {CloseCall(d) : d \in Fds}
    \cup {WriteCall(d, <<x>>) : d \in Fds}
    \cup {ReadCall(d, 2) : d \in Fds}
    \cup {CopyCall(n, source) : n \in Names, source \in {<<>>, <<x>>, <<x, x, x>>}}

OneThread == [t \in {main} |-> <<AllCalls>>]

\* No call distinguishes the names from each other.
NameSymmetry == Permutations(Names)

\* main leaves a file with one cell; then two threads use it through handles of
\* their own, while each also makes and removes names that are its own.
TwoThreads ==
    [t \in {main, t1, t2} |->
        CASE t = main -> <<{OpenCall(f, {"CREAT"})}, {WriteCall(None, <<x>>)}, {CloseCall(None)}>>
          [] t = t1 -> <<{OpenCall(f, {}), OpenCall(f, {"APPEND"}), SymLinkCall(f, g)},
                         {WriteCall(None, <<x, x>>), ReadCall(None, 1), OpenCall(g, {})},
                         {WriteCall(None, <<x>>), ReadCall(None, 2)},
                         {CloseCall(None)},
                         {LinkCall(f, g), SymLinkCall(f, g), UnlinkCall(g)},
                         {UnlinkCall(g), OpenCall(g, {"APPEND"})}>>
          [] t = t2 -> <<{OpenCall(f, {"APPEND"}), OpenCall(s, {"CREAT"})},
                         {WriteCall(None, <<y>>), ReadCall(None, 2)},
                         {CloseCall(None)},
                         {UnlinkCall(s), OpenCall(s, {"CREAT", "TRUNC"})},
                         {WriteCall(None, <<y>>), ReadCall(None, 2), LinkCall(s, s)},
                         {CloseCall(None)}>>]

\* main keeps f open, with the only block or empty; g is empty.  Then the
\* threads make and remove the same names, and use main's handle; t1's copy
\* finds the disk full, or its file or handle taken by t2.
Wild ==
    [t \in {main, t1, t2} |->
        CASE t = main -> <<{OpenCall(f, {"CREAT"})},
                           {WriteCall(None, <<x>>), ReadCall(None, 1)},
                           {OpenCall(g, {"CREAT"})}, {CloseCall(None)}>>
          [] t = t1 -> <<{UnlinkCall(g), UnlinkCall(f), OpenCall(f, {"TRUNC"}), SymLinkCall(f, f),
                          CopyCall(g, <<x, y, x>>)},
                         {LinkCall(f, g), SymLinkCall(f, s), OpenCall(s, {"CREAT"}), OpenCall(f, {})},
                         {SymLinkCall(f, s), UnlinkCall(g), OpenCall(f, {})}>>
          [] t = t2 -> <<{UnlinkCall(g), UnlinkCall(f), OpenCall(g, {}), ReadCall(1, 2),
                          CloseCall(2), WriteCall(2, <<y>>)},
                         {WriteCall(1, <<x>>), ReadCall(1, 2), OpenCall(f, {"CREAT"})},
                         {UnlinkCall(s), LinkCall(f, s)}>>]

\* custom_thread_test06.c, with two threads: each appends its cell to f.
Appenders ==
    [t \in {main, t1, t2} |->
        IF t = main THEN <<{OpenCall(f, {"CREAT"})}, {CloseCall(None)}>>
        ELSE <<{OpenCall(f, {"APPEND"})}, {WriteCall(None, <<IF t = t1 THEN x ELSE y>>)},
               {CloseCall(None)}>>]

\* custom_thread_test06.c:14, 18: after the join the file holds what every
\* thread appended.
AppendsKept ==
    Idle /\ (\A t \in Threads : todo[t] = <<>>) =>
        {Contents(Lookup(f)).cells[k] : k \in 1 .. inode[Lookup(f)].size} = {x, y}

\* Two threads give a file names and take them away.
Linkers ==
    [t \in {main, t1, t2} |->
        CASE t = main -> <<{OpenCall(f, {"CREAT"})}, {CloseCall(None)}>>
          [] t = t1 -> <<{LinkCall(f, g)}, {UnlinkCall(g)}, {UnlinkCall(f)}>>
          [] t = t2 -> <<{LinkCall(f, s)}, {UnlinkCall(s)}, {UnlinkCall(f)}>>]
=============================================================================
