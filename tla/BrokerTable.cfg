SPECIFICATION Spec
CONSTANTS
    main = main
    w1 = w1
    w2 = w2
    w3 = w3
    b1 = b1
    b2 = b2
    b3 = b3
    x = x
    y = y
    Nul = Nul
    None = None
    Workers = {w1, w2, w3}
    Main = main
    Boxes = {b1, b2, b3}
    Chars = {x, y}
    NEntries = 2
    NBlocks = 1
    NHandles = 2
    BlockSize = 3
    Word = 32
    NSlots = 3
    Messages <- TwoMessages
    Requests <- FiveRequests
    MaxPipeName = 1
    MaxBoxName = 1
    Spaced = TRUE
SYMMETRY BoxAndWorkerSymmetry
INVARIANTS
    TypeOK
    PublisherKeepsBox
    SizeIsFileSize
    BlocksOwned
PROPERTY
    MessagesStay
