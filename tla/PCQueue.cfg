SPECIFICATION LiveSpec
CONSTANTS
    Producers = {p1, p2}
    Consumers = {c1, c2}
    Elems = {e1, e2}
    Capacity = 2
    None = None
INVARIANTS
    TypeOK
    CheckStaysValid
    TailIsOldest
PROPERTY
    ImplementsBoundedQueue
    PastWaitReturns
