SPECIFICATION Spec
CONSTANTS
    main = main
    t1 = t1
    t2 = t2
    f = f
    g = g
    s = s
    x = x
    y = y
    None = None
    Threads = {main}
    Main = main
    Names = {f, g, s}
    Data = {x}
    NInodes = 2
    NBlocks = 1
    NEntries = 2
    NFiles = 1
    BlockSize = 2
    Chunk = 1
    MaxOffset = 3
    Word = 16
    Program <- OneThread
    Repeat = TRUE
    Careful = TRUE
SYMMETRY NameSymmetry
INVARIANTS
    TypeOK
    BlocksAccounted
    LinksCounted
    NamesUnique
    CopyTellsTruth
    AssertionsHold
PROPERTIES
    ImplementsFlatFs
    ChangesAsAsked
