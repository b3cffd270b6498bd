\* Three slots and three different items: the indices go around the end with
\* every number of items in the queue.
CONSTANTS
    a = a  b = b  c = c
    Null = Null
    Items = {a, b, c}
    Capacity = 3
SPECIFICATION Spec
INVARIANTS TypeOK RunOfItems
PROPERTY ImplementsFifo
