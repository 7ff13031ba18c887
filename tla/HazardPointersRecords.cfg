\* Two threads, more records than threads; the array holds one pointer more
\* than two threads have slots.
CONSTANTS
    Thread = {t1, t2}
    Node = {n1, n2, n3, n4}
    Link = {l1}
    NoThread = NoThread
    Null = Null
    MaxRec = 3
    HPCount = 1
    MaxRetired = 3
    Copies <- NoCopies
    Fenced = TRUE
SYMMETRY Symmetric
SPECIFICATION PlainSpec
INVARIANTS
    TypeOK
    GuardedNotFreed
    RetiredOnce
    NoneLost
    HelpScanAdopts
    RecordExclusive
    IInv
PROPERTY Reclaims
\* every thread may have died
CHECK_DEADLOCK FALSE
