CONSTANTS
    t1 = t1
    t2 = t2
    Thread = {t1, t2}
    NoKey = NoKey
    Node = {n1, n2, n3}
    Keys = {1, 2}
    Null = Null
    HeadCell = HeadCell
    TailCell = TailCell
    NoThread = NoThread
    Calls <- Roles
    TaggedCalls <- TaggedRoles
    Coincide = {FALSE}
    MapKeys = {1, 2, 3, 4, 5}
    Bits = 3
    Hash <- Hashes
    MaxExp2 = 2
    LoadFactor = 1
    CountSize = 16
    MapCalls <- MapRoles
SYMMETRY Symmetric
SPECIFICATION Spec
INVARIANTS Shape NoUseAfterFree
PROPERTIES IsSet KeepsContract
