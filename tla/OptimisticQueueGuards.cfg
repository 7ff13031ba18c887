\* An LMSQueue over guards as it is written: hazard pointers free what no guard blocks.
CONSTANTS
    Thread = {t1, t2}
    Node = {n1, n2, n3}
    Value = {v1, v2}
    Null = Null
    None = None
    CountSize = 16
    Kinds = {"lms"}
    Patient = FALSE
SYMMETRY Symmetric
SPECIFICATION QSpec
INVARIANT NoUseAfterFree
