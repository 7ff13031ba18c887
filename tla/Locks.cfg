CONSTANTS
    Thread = {t1, t2, t3}
    NullId = none
    MaxTries = 2
    MaxUses = 2
    Readers = {t1, t2}
    Writers = {t2, t3}
    Wrap = 4
SPECIFICATION Spec
INVARIANTS TypeOK WordsAgree
PROPERTIES WriterPreference IsMutex DeadlockFree TicketServed
