\* The guard store as compiled for amd64: no fence between it and the next load.
CONSTANTS
    Thread = {t1, t2}
    Node = {n1, n2, n3, n4}
    Link = {l1}
    NoThread = NoThread
    Null = Null
    MaxRec = 2
    HPCount = 1
    MaxRetired = 3
    Copies <- NoCopies
    Fenced = FALSE
SYMMETRY Symmetric
SPECIFICATION Spec
INVARIANT GuardedNotFreed
\* every thread may have died
CHECK_DEADLOCK FALSE
