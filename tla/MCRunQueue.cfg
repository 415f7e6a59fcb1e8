CONSTANTS
    Capacity = 2
    Items = {x1, x2, x3}
    Thieves = {t1, t2}
    Owner = o
    BatchMax = 2
    NoItem = NoItem
    MaxIndex = 5
SPECIFICATION Spec
SYMMETRY Symmetry
INVARIANTS HandedOnce NoStaleSteal
PROPERTIES DequeSpec
