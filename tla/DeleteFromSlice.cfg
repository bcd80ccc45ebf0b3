SPECIFICATION Spec

CONSTANT MaxLen = 6

INVARIANTS
    LoopInv
    Filtered

PROPERTIES
    EachOnce
    Terminates

\* The loop ends.
CHECK_DEADLOCK FALSE
