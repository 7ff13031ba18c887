---------------------------- MODULE VyukovQueue ----------------------------
(***************************************************************************)
(* Vyukov's bounded queue for many producers and many consumers            *)
(* (cds/queue/vyukov_mpmc_bounded.h).                                      *)
(*                                                                         *)
(* Positions are taken by compare-and-swap; the sequence number of a cell  *)
(* says whose turn it is: pos for the enqueue at pos, pos + 1 for the      *)
(* dequeue at pos, pos + Capacity for the enqueue one lap later.           *)
(***************************************************************************)
EXTENDS Integers, Sequences

CONSTANTS Thread, Value,
          None,         \* no value
          Capacity,     \* m_nBufferMask + 1, a power of two
          Modulus,      \* positions are counted modulo this (2^64 in the code)
          MaxLag        \* bound: no call lasts while a position it has read is
                        \* left so far behind (half of 2^64 in the code)

\* What the constants must satisfy
Constants ==
    /\ None \notin Value
    /\ Capacity \in Nat \ {0, 1}
    /\ Modulus \in Nat /\ Modulus % Capacity = 0
    /\ MaxLag \in Nat \ {0} /\ 2 * (MaxLag + Capacity) <= Modulus

VARIABLES
  array,        \* m_buffer: the sequence number and the data of each cell
  posEnqueue, posDequeue,
  pc,
  pos,          \* the local of each call
  val,          \* enqueue: the argument; dequeue: the value read
  items,        \* history: the values whose enqueue has got a position, and whose
                \* dequeue has not
  saw           \* history: at some instant of the call it could be refused, see Lacks

vars == <<array, posEnqueue, posDequeue, pc, pos, val, items, saw>>

Pos == 0..(Modulus - 1)
Plus(p, n) == (p + n) % Modulus
CellOf(p) == p % Capacity
\* (intptr_t) a - (intptr_t) b
Dif(a, b) == LET d == (a - b) % Modulus IN IF 2 * d < Modulus THEN d ELSE d - Modulus

EnqPC == {"e_load", "e_seq", "e_cas"}
DeqPC == {"d_load", "d_seq", "d_cas"}
DonePC == {"e_write", "e_publish", "d_read", "d_release", "done"}

TypeOK ==
    /\ array \in [0..(Capacity - 1) -> [sequence : Pos, data : Value \cup {None}]]
    /\ posEnqueue \in Pos /\ posDequeue \in Pos
    /\ pc \in [Thread -> {"idle", "refused"} \cup EnqPC \cup DeqPC \cup DonePC]
    /\ pos \in [Thread -> Pos]
    /\ val \in [Thread -> Value \cup {None}]
    /\ items \in Seq(Value)
    /\ saw \in [Thread -> BOOLEAN]

Init ==
    /\ array = [i \in 0..(Capacity - 1) |-> [sequence |-> i, data |-> None]]
    /\ posEnqueue = 0 /\ posDequeue = 0
    /\ pc = [t \in Thread |-> "idle"]
    /\ pos = [t \in Thread |-> 0]
    /\ val = [t \in Thread |-> None]
    /\ items = <<>>
    /\ saw = [t \in Thread |-> FALSE]

Goto(t, there) == pc' = [pc EXCEPT ![t] = there]

-----------------------------------------------------------------------------
Enqueue(t, v) ==
    /\ pc[t] = "idle"
    /\ val' = [val EXCEPT ![t] = v]
    /\ Goto(t, "e_load")
    /\ UNCHANGED <<array, posEnqueue, posDequeue, pos, items>>

EnqLoad(t) ==
    /\ pc[t] = "e_load"
    /\ pos' = [pos EXCEPT ![t] = posEnqueue]
    /\ Goto(t, "e_seq")
    /\ UNCHANGED <<array, posEnqueue, posDequeue, val, items>>

\* The cell is ready, still in use, or another thread has taken the position
Refuses_Overtaken(dif) == dif # 0                                 \* mutant
Refuses(dif) == dif < 0
Turn(dif, cas, load) == IF dif = 0 THEN cas ELSE IF Refuses(dif) THEN "refused" ELSE load
EnqSeq(t) ==
    /\ pc[t] = "e_seq"
    /\ Goto(t, Turn(Dif(array[CellOf(pos[t])].sequence, pos[t]), "e_cas", "e_load"))
    /\ UNCHANGED <<array, posEnqueue, posDequeue, pos, val, items>>

\* Bound: position p is not left MaxLag behind by the step
KeepsUp(now, running) ==
    \A u \in Thread : pc[u] \in running => (now - pos[u]) % Modulus < MaxLag

EnqCas(t) ==
    /\ pc[t] = "e_cas"
    /\ IF posEnqueue = pos[t]
       THEN /\ KeepsUp(posEnqueue, {"e_seq", "e_cas"})
            /\ posEnqueue' = Plus(posEnqueue, 1)
            /\ items' = Append(items, val[t])
            /\ Goto(t, "e_write")
       ELSE /\ Goto(t, "e_seq")
            /\ UNCHANGED <<posEnqueue, items>>
    /\ UNCHANGED <<array, posDequeue, pos, val>>

EnqWrite(t) ==
    /\ pc[t] = "e_write"
    /\ array' = [array EXCEPT ![CellOf(pos[t])].data = val[t]]
    /\ Goto(t, "e_publish")
    /\ UNCHANGED <<posEnqueue, posDequeue, pos, val, items>>

EnqPublish(t) ==
    /\ pc[t] = "e_publish"
    /\ array' = [array EXCEPT ![CellOf(pos[t])].sequence = Plus(pos[t], 1)]
    /\ Goto(t, "done")
    /\ UNCHANGED <<posEnqueue, posDequeue, pos, val, items>>

-----------------------------------------------------------------------------
Dequeue(t) ==
    /\ pc[t] = "idle"
    /\ Goto(t, "d_load")
    /\ UNCHANGED <<array, posEnqueue, posDequeue, pos, val, items>>

DeqLoad(t) ==
    /\ pc[t] = "d_load"
    /\ pos' = [pos EXCEPT ![t] = posDequeue]
    /\ Goto(t, "d_seq")
    /\ UNCHANGED <<array, posEnqueue, posDequeue, val, items>>

Ready_Claimed(p) == p                                             \* mutant
Ready(p) == p + 1
DeqSeq(t) ==
    /\ pc[t] = "d_seq"
    /\ Goto(t, Turn(Dif(array[CellOf(pos[t])].sequence, Ready(pos[t])), "d_cas", "d_load"))
    /\ UNCHANGED <<array, posEnqueue, posDequeue, pos, val, items>>

DeqCas(t) ==
    /\ pc[t] = "d_cas"
    /\ IF posDequeue = pos[t]
       THEN /\ KeepsUp(posDequeue, {"d_seq", "d_cas"})
            /\ posDequeue' = Plus(posDequeue, 1)
            /\ items' = SubSeq(items, 2, Len(items))
            /\ Goto(t, "d_read")
       ELSE /\ Goto(t, "d_seq")
            /\ UNCHANGED <<posDequeue, items>>
    /\ UNCHANGED <<array, posEnqueue, pos, val>>

\* The data is copied out; the default value_cleaner does nothing
DeqRead(t) ==
    /\ pc[t] = "d_read"
    /\ val' = [val EXCEPT ![t] = array[CellOf(pos[t])].data]
    /\ Goto(t, "d_release")
    /\ UNCHANGED <<array, posEnqueue, posDequeue, pos, items>>

NextLap(p) == Plus(p, Capacity)
DeqRelease(t) ==
    /\ pc[t] = "d_release"
    /\ array' = [array EXCEPT ![CellOf(pos[t])].sequence = NextLap(pos[t])]
    /\ Goto(t, "done")
    /\ UNCHANGED <<posEnqueue, posDequeue, pos, val, items>>

Leave(t) ==
    /\ pc[t] \in {"done", "refused"}
    /\ pos' = [pos EXCEPT ![t] = 0]
    /\ val' = [val EXCEPT ![t] = None]
    /\ Goto(t, "idle")
    /\ UNCHANGED <<array, posEnqueue, posDequeue, items>>

-----------------------------------------------------------------------------
\* An enqueue finds no room, or a dequeue nothing, because the queue is full or
\* empty, or because another call is still busy with the cell that is next.
Lacks(ends) ==
    IF ends = "enq"
    THEN \/ Len(items) = Capacity
         \/ \E u \in Thread : pc[u] \in {"d_read", "d_release"} /\ CellOf(pos[u]) = CellOf(posEnqueue)
    ELSE \/ items = <<>>
         \/ \E u \in Thread : pc[u] \in {"e_write", "e_publish"} /\ pos[u] = posDequeue
Watch ==
    saw' = [t \in Thread |->
              \/ pc'[t] \in EnqPC /\ (Lacks("enq")' \/ (pc[t] \in EnqPC /\ saw[t]))
              \/ pc'[t] \in DeqPC /\ (Lacks("deq")' \/ (pc[t] \in DeqPC /\ saw[t]))
              \/ pc'[t] = "refused" /\ saw[t]]

Step(t) ==
    \/ \E v \in Value : Enqueue(t, v)
    \/ EnqLoad(t) \/ EnqSeq(t) \/ EnqCas(t) \/ EnqWrite(t) \/ EnqPublish(t)
    \/ Dequeue(t) \/ DeqLoad(t) \/ DeqSeq(t) \/ DeqCas(t) \/ DeqRead(t) \/ DeqRelease(t)
    \/ Leave(t)
Next == (\E t \in Thread : Step(t)) /\ Watch

Spec == Init /\ [][Next]_vars

-----------------------------------------------------------------------------
\* A cell between the two positions holds its item, or is being filled by the
\* enqueue that got the position; any other cell waits for the next lap, or is
\* being emptied by the dequeue that got the position a lap before.
Filling(p, u) == pc[u] \in {"e_write", "e_publish"} /\ pos[u] = p
Emptying(p, u) == pc[u] \in {"d_read", "d_release"} /\ Plus(pos[u], Capacity) = p
Layout ==
    LET n == (posEnqueue - posDequeue) % Modulus
    IN  /\ n = Len(items) /\ n <= Capacity
        /\ \A i \in 0..(Capacity - 1) :
             LET p == Plus(posDequeue, i)
                 c == array[CellOf(p)]
             IN  IF i < n
                 THEN \/ c.sequence = Plus(p, 1) /\ c.data = items[i + 1]
                      \/ c.sequence = p /\ \E u \in Thread : Filling(p, u)
                 ELSE \/ c.sequence = p
                      \/ /\ c.sequence = Plus(p, 1 - Capacity)
                         /\ \E u \in Thread : Emptying(p, u)

\* The data of a cell, which is not atomic, is accessed by one thread at a time.
NoRace ==
    \A t, u \in Thread :
        /\ pc[t] \in {"e_write", "e_publish", "d_read", "d_release"}
        /\ pc[u] \in {"e_write", "e_publish", "d_read", "d_release"}
        /\ CellOf(pos[t]) = CellOf(pos[u])
        => t = u

\* A refused call has found the queue full or empty at some instant, or another
\* call in the middle of the cell it needed.
Refusals == \A t \in Thread : pc[t] = "refused" => saw[t]

\* The state of a BoundedQueue
OpOf(t) ==
    CASE pc[t] \in EnqPC -> "enq"
      [] pc[t] \in DeqPC -> "deq"
      [] pc[t] \in DonePC -> "done"
      [] OTHER -> "idle"
ValOf(t) ==
    CASE pc[t] = "d_read" -> array[CellOf(pos[t])].data
      [] pc[t] = "refused" -> None
      [] OTHER -> val[t]
=============================================================================
