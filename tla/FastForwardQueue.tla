-------------------------- MODULE FastForwardQueue --------------------------
(***************************************************************************)
(* The FastForward queue for one producer and one consumer                 *)
(* (cds/queue/ffqueue.h and, with a sentinel in place of null,             *)
(* cds/queue/ffqueue_sentinel.h).  Neither side reads the index of the     *)
(* other: a cell that does not hold null is full.                          *)
(*                                                                         *)
(* Loads and stores take effect in program order.  The caller does not     *)
(* enqueue null (the sentinel).                                            *)
(***************************************************************************)
EXTENDS Naturals, Sequences

CONSTANTS Producer, Consumer, Value,
          None,         \* null, or SENTINEL
          Size          \* the template argument; the buffer has one cell more

\* What the constants must satisfy
Constants ==
    /\ None \notin Value
    /\ Producer # Consumer
    /\ Size \in Nat \ {0}

Side == {Producer, Consumer}
Capacity == Size + 1
Cell == 0..(Capacity - 1)

VARIABLES array,        \* buffer
          tail,         \* the consumer's index
          head,         \* the producer's index
          pc, val, items, saw   \* as in CircularFifo

vars == <<array, tail, head, pc, val, items, saw>>

EnqPC == {"p_check", "p_write"}
DeqPC == {"c_read", "c_clear"}

TypeOK ==
    /\ array \in [Cell -> Value \cup {None}]
    /\ tail \in Cell /\ head \in Cell
    /\ pc \in [Side -> {"idle", "refused", "done"} \cup EnqPC \cup DeqPC]
    /\ val \in [Side -> Value \cup {None}]
    /\ items \in Seq(Value)
    /\ saw \in [Side -> BOOLEAN]

Init ==
    /\ array = [i \in Cell |-> None]
    /\ tail = 0 /\ head = 0
    /\ pc = [t \in Side |-> "idle"]
    /\ val = [t \in Side |-> None]
    /\ items = <<>>
    /\ saw = [t \in Side |-> FALSE]

Goto(t, there) == pc' = [pc EXCEPT ![t] = there]
next(i) == (i + 1) % Capacity

Enqueue(v) ==
    /\ pc[Producer] = "idle"
    /\ val' = [val EXCEPT ![Producer] = v]
    /\ Goto(Producer, "p_check")
    /\ UNCHANGED <<array, tail, head, items>>

EnqCheck ==
    /\ pc[Producer] = "p_check"
    /\ Goto(Producer, IF array[head] = None THEN "p_write" ELSE "refused")
    /\ UNCHANGED <<array, tail, head, val, items>>

EnqWrite ==
    /\ pc[Producer] = "p_write"
    /\ array' = [array EXCEPT ![head] = val[Producer]]
    /\ head' = next(head)
    /\ items' = Append(items, val[Producer])
    /\ Goto(Producer, "done")
    /\ UNCHANGED <<tail, val>>

Dequeue ==
    /\ pc[Consumer] = "idle"
    /\ Goto(Consumer, "c_read")
    /\ UNCHANGED <<array, tail, head, val, items>>

\* The output argument is overwritten with null when the call is refused
DeqRead ==
    /\ pc[Consumer] = "c_read"
    /\ val' = [val EXCEPT ![Consumer] = array[tail]]
    /\ Goto(Consumer, IF array[tail] = None THEN "refused" ELSE "c_clear")
    /\ UNCHANGED <<array, tail, head, items>>

DeqClear ==
    /\ pc[Consumer] = "c_clear"
    /\ array' = [array EXCEPT ![tail] = None]
    /\ tail' = next(tail)
    /\ items' = SubSeq(items, 2, Len(items))
    /\ Goto(Consumer, "done")
    /\ UNCHANGED <<head, val>>

Leave(t) ==
    /\ pc[t] \in {"done", "refused"}
    /\ val' = [val EXCEPT ![t] = None]
    /\ Goto(t, "idle")
    /\ UNCHANGED <<array, tail, head, items>>

-----------------------------------------------------------------------------
Watch ==
    saw' = [t \in Side |->
              \/ pc'[t] \in EnqPC /\ (Len(items') = Capacity \/ (pc[t] \in EnqPC /\ saw[t]))
              \/ pc'[t] \in DeqPC /\ (items' = <<>> \/ (pc[t] \in DeqPC /\ saw[t]))
              \/ pc'[t] = "refused" /\ saw[t]]
Next ==
    /\ \/ \E v \in Value : Enqueue(v)
       \/ EnqCheck \/ EnqWrite
       \/ Dequeue \/ DeqRead \/ DeqClear
       \/ \E t \in Side : Leave(t)
    /\ Watch

Spec == Init /\ [][Next]_vars

-----------------------------------------------------------------------------
\* The cells from tail on hold the items, the others null.
Layout ==
    /\ Len(items) <= Capacity
    /\ head = (tail + Len(items)) % Capacity
    /\ \A i \in 1..Capacity :
          array[(tail + i - 1) % Capacity] = IF i <= Len(items) THEN items[i] ELSE None

\* The two sides never store to the same cell at the same time.
NoRace == pc[Producer] = "p_write" /\ pc[Consumer] = "c_clear" => tail # head

\* enqueue is refused only if the queue was full at some instant of the call,
\* dequeue only if it was empty.
Refusals == \A t \in Side : pc[t] = "refused" => saw[t]

\* The state of a BoundedQueue
OpOf(t) ==
    CASE pc[t] \in EnqPC -> "enq"
      [] pc[t] \in DeqPC -> "deq"
      [] pc[t] = "done" -> "done"
      [] OTHER -> "idle"
ValOf(t) == IF pc[t] \in DeqPC \cup {"refused"} THEN None ELSE val[t]
=============================================================================
