SPECIFICATION Spec
CONSTANTS
    main = main
    t1 = t1
    t2 = t2
    f = f
    g = g
    s = s
    x = x
    y = y
    None = None
    Threads = {main, t1, t2}
    Main = main
    Names = {f, g, s}
    Data = {x, y}
    NInodes = 3
    NBlocks = 2
    NEntries = 3
    NFiles = 2
    BlockSize = 2
    Chunk = 1
    MaxOffset = 3
    Word = 16
    Program <- Linkers
    Repeat = FALSE
    Careful = FALSE
INVARIANT AssertionsHold
