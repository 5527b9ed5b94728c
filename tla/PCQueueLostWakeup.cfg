SPECIFICATION LiveSpec
CONSTANTS
    Producers = {p1}
    Consumers = {c1, c2}
    Elems = {e1}
    Capacity = 2
    None = None
PROPERTY
    DequeueSleepsUntilElement
