CONSTANTS
    Thread = {t1, t2, t3}
    Heap = {h1}
    Desc = {d1, d2}
    Page = {p1, p2}
    Null = Null
    Capacity = 3
    MaxCredits = 2
    MaxAllocated = 3
SYMMETRY Symmetric
SPECIFICATION PromptSpec
INVARIANT Conserved
PROPERTIES IsHeap
