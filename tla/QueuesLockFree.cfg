CONSTANTS
    Thread = {t1, t2}
    Node = {n1, n2, n3}
    Value = {v1}
    Null = Null
    None = None
    CountSize = 1
    Kinds = {"ms", "moir", "stack"}
    Patient = TRUE
SPECIFICATION QFairSpec
PROPERTY LockFree
