CONSTANTS
    Thread = {t1, t2}
    Node = {n1, n2, n3}
    Value = {v1, v2}
    Null = Null
    None = None
    CountSize = 16
    Kinds = {"ms", "moir", "lms", "stack"}
    Patient = TRUE
SYMMETRY Symmetric
SPECIFICATION QSpec
INVARIANTS TypeOK Shape NoUseAfterFree
PROPERTIES KeepsOrder KeepsContract
