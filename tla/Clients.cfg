SPECIFICATION ClientsSpec
CONSTANTS
    main = main
    w1 = w1
    w2 = w2
    w3 = w3
    b1 = b1
    b2 = b2
    c1 = c1
    c2 = c2
    c3 = c3
    c4 = c4
    c5 = c5
    c6 = c6
    x = x
    y = y
    Nul = 0
    None = None
    Workers = {w1, w2, w3}
    Main = main
    Boxes = {b1, b2}
    Chars = {x, y}
    NEntries = 2
    NBlocks = 2
    NHandles = 3
    BlockSize = 4
    Word = 32
    NSlots = 2
    MaxPipeName = 1
    MaxBoxName = 1
    Messages <- TwoMessages
    Requests <- NoRequests
    Spaced = FALSE
    Processes = {c1, c2, c3, c4, c5, c6}
    Scenes <- AllScenes
    PipeCapacity = 1
CHECK_DEADLOCK FALSE
INVARIANTS
    ClientsTypeOK
    OkMeansBox
    PrintedWasPublished
    ListingComplete
    RequestsWhole
PROPERTIES
    
    RequestsAnswered
    RemovalEndsSubscribers
    PublishersFreed
