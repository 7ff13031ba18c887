---------------------------- MODULE CircularFifo ----------------------------
(***************************************************************************)
(* Lamport's circular buffer for one producer and one consumer, the class  *)
(* CircularFifo of cds/queue/csqueue.h and cds/queue/spsc_queue.h.         *)
(*                                                                         *)
(* Loads and stores take effect in program order: the indices are volatile *)
(* and amd64 keeps the order of stores; that the compiler does not move    *)
(* the plain store of the element over them is assumed.                    *)
(***************************************************************************)
EXTENDS Naturals, Sequences

CONSTANTS Producer, Consumer, Value, None,
          Size          \* the template argument; the array has one cell more

\* What the constants must satisfy
Constants ==
    /\ None \notin Value
    /\ Producer # Consumer
    /\ Size \in Nat \ {0}

Side == {Producer, Consumer}
Capacity == Size + 1
Cell == 0..(Capacity - 1)

VARIABLES array, tail, head, pc,
          val,          \* the argument of push, the value read by pop
          items, saw    \* history, as in VyukovQueue

vars == <<array, tail, head, pc, val, items, saw>>

PushPC == {"p_check", "p_write", "p_tail"}
PopPC == {"c_check", "c_read", "c_head"}

TypeOK ==
    /\ array \in [0..Size -> Value \cup {None}]
    /\ tail \in Cell /\ head \in Cell
    /\ pc \in [Side -> {"idle", "refused", "done"} \cup PushPC \cup PopPC]
    /\ val \in [Side -> Value \cup {None}]
    /\ items \in Seq(Value)
    /\ saw \in [Side -> BOOLEAN]

Init ==
    /\ array = [i \in 0..Size |-> None]
    /\ tail = 0 /\ head = 0
    /\ pc = [t \in Side |-> "idle"]
    /\ val = [t \in Side |-> None]
    /\ items = <<>>
    /\ saw = [t \in Side |-> FALSE]

Goto(t, there) == pc' = [pc EXCEPT ![t] = there]
increment_NoWrap(i) == i + 1                                      \* mutant
increment(i) == (i + 1) % Capacity

Push(v) ==
    /\ pc[Producer] = "idle"
    /\ val' = [val EXCEPT ![Producer] = v]
    /\ Goto(Producer, "p_check")
    /\ UNCHANGED <<array, tail, head, items>>

PushCheck ==
    /\ pc[Producer] = "p_check"
    /\ Goto(Producer, IF increment(tail) # head THEN "p_write" ELSE "refused")
    /\ UNCHANGED <<array, tail, head, val, items>>

PushWrite ==
    /\ pc[Producer] = "p_write"
    /\ array' = [array EXCEPT ![tail] = val[Producer]]
    /\ Goto(Producer, "p_tail")
    /\ UNCHANGED <<tail, head, val, items>>

PushTail ==
    /\ pc[Producer] = "p_tail"
    /\ tail' = increment(tail)
    /\ items' = Append(items, val[Producer])
    /\ Goto(Producer, "done")
    /\ UNCHANGED <<array, head, val>>

Pop ==
    /\ pc[Consumer] = "idle"
    /\ Goto(Consumer, "c_check")
    /\ UNCHANGED <<array, tail, head, val, items>>

PopCheck ==
    /\ pc[Consumer] = "c_check"
    /\ Goto(Consumer, IF head = tail THEN "refused" ELSE "c_read")
    /\ UNCHANGED <<array, tail, head, val, items>>

PopRead ==
    /\ pc[Consumer] = "c_read"
    /\ val' = [val EXCEPT ![Consumer] = array[head]]
    /\ Goto(Consumer, "c_head")
    /\ UNCHANGED <<array, tail, head, items>>

PopHead ==
    /\ pc[Consumer] = "c_head"
    /\ head' = increment(head)
    /\ items' = SubSeq(items, 2, Len(items))
    /\ Goto(Consumer, "done")
    /\ UNCHANGED <<array, tail, val>>

Leave(t) ==
    /\ pc[t] \in {"done", "refused"}
    /\ val' = [val EXCEPT ![t] = None]
    /\ Goto(t, "idle")
    /\ UNCHANGED <<array, tail, head, items>>

-----------------------------------------------------------------------------
Watch ==
    saw' = [t \in Side |->
              \/ pc'[t] \in PushPC /\ (Len(items') = Size \/ (pc[t] \in PushPC /\ saw[t]))
              \/ pc'[t] \in PopPC /\ (items' = <<>> \/ (pc[t] \in PopPC /\ saw[t]))
              \/ pc'[t] = "refused" /\ saw[t]]
Next ==
    /\ \/ \E v \in Value : Push(v)
       \/ PushCheck \/ PushWrite \/ PushTail
       \/ Pop \/ PopCheck \/ PopRead \/ PopHead
       \/ \E t \in Side : Leave(t)
    /\ Watch

Spec == Init /\ [][Next]_vars

-----------------------------------------------------------------------------
\* The cells from head to tail hold the items.
Layout ==
    /\ (tail + Capacity - head) % Capacity = Len(items)
    /\ \A i \in DOMAIN items : array[(head + i - 1) % Capacity] = items[i]

\* The element, a plain object, is not written and read at the same time.
NoRace ==
    pc[Producer] \in {"p_write", "p_tail"} /\ pc[Consumer] \in {"c_read", "c_head"} => tail # head

\* push is refused only if the queue was full at some instant of the call, pop
\* only if it was empty.
Refusals == \A t \in Side : pc[t] = "refused" => saw[t]

\* The state of a BoundedQueue
OpOf(t) ==
    CASE pc[t] \in PushPC -> "enq"
      [] pc[t] \in PopPC -> "deq"
      [] pc[t] = "done" -> "done"
      [] OTHER -> "idle"
ValOf(t) == IF pc[t] \in PopPC \cup {"refused"} THEN None ELSE val[t]
=============================================================================
