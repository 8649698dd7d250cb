\* Six timers and two timeouts in the heap, three in the list.
CONSTANTS
    t1 = t1 t2 = t2 t3 = t3 t4 = t4 t5 = t5 t6 = t6
    Timers = {t1, t2, t3, t4, t5, t6}
    Null = Null
    Dues = {0, 1}
    ListDues = {0, 1, 2}
    MaxStarts = 6
SPECIFICATION SpecBoth
INVARIANTS HeapExact ListInOrder
SYMMETRY Symmetry
CHECK_DEADLOCK FALSE
