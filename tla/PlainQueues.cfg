CONSTANTS
    Thread = {t1, t2}
    Producer = p
    Consumer = c
    Value = {v1, v2}
    None = None
    Size = 2
    Cells = 4
    BufferSize = 2
    MaxMoves = 1
    Modulus = 8
    MaxLag = 2
    Node = {n1, n2, n3}
    Null = Null
SYMMETRY Symmetric
SPECIFICATION Spec
INVARIANTS TypeOK Layout NoRace Refusals
PROPERTY Linearizable
