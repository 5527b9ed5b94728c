SPECIFICATION LiveSpec
CONSTANTS
    main = main
    w1 = w1
    w2 = w2
    w3 = w3
    b1 = b1
    b2 = b2
    b3 = b3
    x = x
    y = y
    Nul = Nul
    None = None
    Workers = {w1, w2}
    Main = main
    Boxes = {b1}
    Chars = {x, y}
    NEntries = 1
    NBlocks = 2
    NHandles = 3
    BlockSize = 4
    Word = 32
    NSlots = 1
    Messages <- ShortAndLong
    Requests <- OneBox
    MaxPipeName = 1
    MaxBoxName = 1
    Spaced = FALSE
INVARIANTS
    NoSleepOverUnread
PROPERTY
    MessagesArrive
    ImplementsPubSub
