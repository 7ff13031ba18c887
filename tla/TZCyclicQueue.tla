--------------------------- MODULE TZCyclicQueue ---------------------------
(***************************************************************************)
(* The cyclic queue of Tsigas and Zhang (cds/queue/tz_cyclic_queue.h, the  *)
(* specialization for pointers).                                           *)
(*                                                                         *)
(* A cell holds a pointer and a mark, its lowest bit: NULL is the null     *)
(* pointer without a mark (free0), 1 the null pointer with one (free1).    *)
(* head and tail are moved only on every second operation, so both lag:    *)
(* every call walks from them to the actual head or tail.  The mark of a   *)
(* cell is to alternate from lap to lap, so that a compare-and-swap that   *)
(* comes a lap too late fails.                                             *)
(***************************************************************************)
EXTENDS Naturals, Sequences

CONSTANTS Thread, Value,
          None,         \* the null pointer
          Cells,        \* the size of m_Array, a power of two
          MaxMoves      \* bound: the operations of other threads that take effect
                        \* while one call runs

\* What the constants must satisfy
Constants ==
    /\ None \notin Value
    /\ Cells \in Nat /\ Cells >= 4 /\ Cells % 2 = 0
    /\ MaxMoves \in Nat \ {0}

Index == 0..(Cells - 1)
Pointer == (Value \cup {None}) \X BOOLEAN
free0 == <<None, FALSE>>
free1 == <<None, TRUE>>
isFree(p) == p[1] = None
succ(i) == (i + 1) % Cells

VARIABLES
  array,        \* m_Array
  head, tail,   \* m_nHead, m_nTail
  pc,
  pos,          \* the locals te and th: the tail or head this attempt began with
  at,           \* the local ate of enqueue, temp of dequeue: the cell in hand
  tt,           \* the local tt: what the cell contained
  marked,       \* the mark of the argument pNewNode
  val,          \* enqueue: the argument; dequeue: the pointer taken
  items, saw,   \* history, as in VyukovQueue
  moves         \* history: operations of others that took effect during the call

shared == <<array, head, tail, items, moves>>
locals == <<pos, at, tt, marked, val>>
vars == <<shared, locals, pc, saw>>

EnqPC == {"e_tail", "e_cell", "e_walk", "e_end", "e_tail2", "e_full", "e_room", "e_help",
          "e_tail3", "e_cas"}
DeqPC == {"d_head", "d_cell", "d_walk", "d_end", "d_head2", "d_empty", "d_help", "d_head3", "d_cas"}
DonePC == {"e_swing", "d_swing", "done"}

TypeOK ==
    /\ array \in [Index -> Pointer]
    /\ head \in Index /\ tail \in Index
    /\ pc \in [Thread -> {"idle", "refused"} \cup EnqPC \cup DeqPC \cup DonePC]
    /\ pos \in [Thread -> Index] /\ at \in [Thread -> Index]
    /\ tt \in [Thread -> Pointer]
    /\ marked \in [Thread -> BOOLEAN]
    /\ val \in [Thread -> Value \cup {None}]
    /\ items \in Seq(Value)
    /\ saw \in [Thread -> BOOLEAN]
    /\ moves \in [Thread -> 0..MaxMoves]

Init ==
    /\ array = [i \in Index |-> IF i = 0 THEN free1 ELSE free0]
    /\ head = 0 /\ tail = 1
    /\ pc = [t \in Thread |-> "idle"]
    /\ pos = [t \in Thread |-> 0]
    /\ at = [t \in Thread |-> 0]
    /\ tt = [t \in Thread |-> free0]
    /\ marked = [t \in Thread |-> FALSE]
    /\ val = [t \in Thread |-> None]
    /\ items = <<>>
    /\ saw = [t \in Thread |-> FALSE]
    /\ moves = [t \in Thread |-> 0]

Goto(t, there) == pc' = [pc EXCEPT ![t] = there]
\* A step that only looks at the shared state and branches
Branch(t, here, condition, yes, no) ==
    /\ pc[t] = here
    /\ Goto(t, IF condition THEN yes ELSE no)
    /\ UNCHANGED <<shared, locals>>

\* The operation of t takes effect; the others' calls grow older
Effect(t) ==
    LET others == {u \in Thread \ {t} : pc[u] # "idle"}
    IN  /\ \A u \in others : moves[u] < MaxMoves
        /\ moves' = [u \in Thread |-> IF u \in others THEN moves[u] + 1 ELSE moves[u]]

-----------------------------------------------------------------------------
(* enqueue *)

Enqueue(t, v) ==
    /\ pc[t] = "idle"
    /\ val' = [val EXCEPT ![t] = v]
    /\ Goto(t, "e_tail")
    /\ UNCHANGED <<shared, pos, at, tt, marked>>

EnqTail(t) ==
    /\ pc[t] = "e_tail"
    /\ pos' = [pos EXCEPT ![t] = tail]
    /\ at' = [at EXCEPT ![t] = tail]
    /\ Goto(t, "e_cell")
    /\ UNCHANGED <<shared, tt, marked, val>>

\* The walk to the actual tail: the next cell, unless the tail has moved or the
\* head is reached
EnqCell(t) ==
    /\ pc[t] = "e_cell"
    /\ tt' = [tt EXCEPT ![t] = array[at[t]]]
    /\ Goto(t, IF isFree(array[at[t]]) THEN "e_tail2" ELSE "e_walk")
    /\ UNCHANGED <<shared, pos, at, marked, val>>

EnqWalk(t) == Branch(t, "e_walk", pos[t] # tail, "e_tail", "e_end")

EnqEnd(t) ==
    /\ pc[t] = "e_end"
    /\ IF succ(at[t]) = head
       THEN Goto(t, "e_tail2") /\ UNCHANGED at
       ELSE Goto(t, "e_cell") /\ at' = [at EXCEPT ![t] = succ(@)]
    /\ UNCHANGED <<shared, pos, tt, marked, val>>

EnqTail2(t) == Branch(t, "e_tail2", pos[t] # tail, "e_tail", "e_full")

\* The pointer is marked when the cell held free1, and stays marked when the
\* attempt fails
Marks(t) == marked[t] \/ tt[t] = free1
Full_Never(t) == FALSE                                            \* mutant
Full(t) == succ(at[t]) = head
EnqFull(t) ==
    /\ pc[t] = "e_full"
    /\ IF Full(t)
       THEN Goto(t, "e_room") /\ UNCHANGED marked
       ELSE Goto(t, "e_tail3") /\ marked' = [marked EXCEPT ![t] = Marks(t)]
    /\ UNCHANGED <<shared, pos, at, tt, val>>

\* The cell after the head tells whether the queue is full or the head lags
EnqRoom(t) == Branch(t, "e_room", isFree(array[succ(succ(at[t]))]), "e_help", "refused")

EnqHelp(t) ==
    /\ pc[t] = "e_help"
    /\ head' = IF head = succ(at[t]) THEN succ(head) ELSE head
    /\ Goto(t, "e_tail")
    /\ UNCHANGED <<array, tail, items, moves, locals>>

EnqTail3(t) == Branch(t, "e_tail3", pos[t] # tail, "e_tail", "e_cas")

EnqCas(t) ==
    /\ pc[t] = "e_cas"
    /\ IF array[at[t]] = tt[t]
       THEN /\ Effect(t)
            /\ array' = [array EXCEPT ![at[t]] = <<val[t], marked[t]>>]
            /\ items' = Append(items, val[t])
            /\ Goto(t, IF succ(at[t]) % 2 = 0 THEN "e_swing" ELSE "done")
       ELSE Goto(t, "e_tail") /\ UNCHANGED <<array, items, moves>>
    /\ UNCHANGED <<head, tail, locals>>

EnqSwing(t) ==
    /\ pc[t] = "e_swing"
    /\ tail' = IF tail = pos[t] THEN succ(at[t]) ELSE tail
    /\ Goto(t, "done")
    /\ UNCHANGED <<array, head, items, moves, locals>>

-----------------------------------------------------------------------------
(* dequeue *)

Dequeue(t) ==
    /\ pc[t] = "idle"
    /\ Goto(t, "d_head")
    /\ UNCHANGED <<shared, locals>>

DeqHead(t) ==
    /\ pc[t] = "d_head"
    /\ pos' = [pos EXCEPT ![t] = head]
    /\ at' = [at EXCEPT ![t] = succ(head)]
    /\ Goto(t, "d_cell")
    /\ UNCHANGED <<shared, tt, marked, val>>

\* The walk to the actual head
DeqCell(t) ==
    /\ pc[t] = "d_cell"
    /\ tt' = [tt EXCEPT ![t] = array[at[t]]]
    /\ Goto(t, IF isFree(array[at[t]]) THEN "d_walk" ELSE "d_head2")
    /\ UNCHANGED <<shared, pos, at, marked, val>>

DeqWalk(t) == Branch(t, "d_walk", pos[t] # head, "d_head", "d_end")

DeqEnd(t) ==
    /\ pc[t] = "d_end"
    /\ IF at[t] = tail
       THEN Goto(t, "refused") /\ UNCHANGED at
       ELSE Goto(t, "d_cell") /\ at' = [at EXCEPT ![t] = succ(@)]
    /\ UNCHANGED <<shared, pos, tt, marked, val>>

HeadMoved(t) == pos[t] # head
DeqHead2(t) == Branch(t, "d_head2", HeadMoved(t), "d_head", "d_empty")

\* A lagging tail is moved before its item is taken
DeqEmpty(t) == Branch(t, "d_empty", at[t] = tail, "d_help", "d_head3")

DeqHelp(t) ==
    /\ pc[t] = "d_help"
    /\ tail' = IF tail = at[t] THEN succ(tail) ELSE tail
    /\ Goto(t, "d_head")
    /\ UNCHANGED <<array, head, items, moves, locals>>

DeqHead3(t) == Branch(t, "d_head3", HeadMoved(t), "d_head", "d_cas")

DeqCas(t) ==
    /\ pc[t] = "d_cas"
    /\ IF array[at[t]] = tt[t]
       THEN /\ Effect(t)
            /\ array' = [array EXCEPT ![at[t]] = IF tt[t][2] THEN free0 ELSE free1]
            /\ items' = SubSeq(items, 2, Len(items))
            /\ val' = [val EXCEPT ![t] = tt[t][1]]
            /\ Goto(t, IF at[t] % 2 = 0 THEN "d_swing" ELSE "done")
       ELSE Goto(t, "d_head") /\ UNCHANGED <<array, items, val, moves>>
    /\ UNCHANGED <<head, tail, pos, at, tt, marked>>

DeqSwing(t) ==
    /\ pc[t] = "d_swing"
    /\ head' = IF head = pos[t] THEN at[t] ELSE head
    /\ Goto(t, "done")
    /\ UNCHANGED <<array, tail, items, moves, locals>>

Leave(t) ==
    /\ pc[t] \in {"done", "refused"}
    /\ pos' = [pos EXCEPT ![t] = 0]
    /\ at' = [at EXCEPT ![t] = 0]
    /\ tt' = [tt EXCEPT ![t] = free0]
    /\ marked' = [marked EXCEPT ![t] = FALSE]
    /\ val' = [val EXCEPT ![t] = None]
    /\ moves' = [moves EXCEPT ![t] = 0]
    /\ Goto(t, "idle")
    /\ UNCHANGED <<array, head, tail, items>>

-----------------------------------------------------------------------------
Capacity == Cells - 2
Watch ==
    saw' = [t \in Thread |->
              \/ pc'[t] \in EnqPC /\ (Len(items') = Capacity \/ (pc[t] \in EnqPC /\ saw[t]))
              \/ pc'[t] \in DeqPC /\ (items' = <<>> \/ (pc[t] \in DeqPC /\ saw[t]))
              \/ pc'[t] = "refused" /\ saw[t]]
Step(t) ==
    \/ \E v \in Value : Enqueue(t, v)
    \/ EnqTail(t) \/ EnqCell(t) \/ EnqWalk(t) \/ EnqEnd(t) \/ EnqTail2(t) \/ EnqFull(t)
    \/ EnqRoom(t) \/ EnqHelp(t) \/ EnqTail3(t) \/ EnqCas(t) \/ EnqSwing(t)
    \/ Dequeue(t)
    \/ DeqHead(t) \/ DeqCell(t) \/ DeqWalk(t) \/ DeqEnd(t) \/ DeqHead2(t) \/ DeqEmpty(t)
    \/ DeqHelp(t) \/ DeqHead3(t) \/ DeqCas(t) \/ DeqSwing(t)
    \/ Leave(t)
Next == (\E t \in Thread : Step(t)) /\ Watch

Spec == Init /\ [][Next]_vars

-----------------------------------------------------------------------------
\* From some cell one or two after the head on, the array holds the items in
\* order and nothing else, and the tail is at most two cells before their end.
Layout ==
    LET n == Len(items)
        From(first) ==
            /\ \A i \in 0..(Cells - 1) :
                 LET p == array[(first + i) % Cells]
                 IN  IF i < n THEN p[1] = items[i + 1] ELSE isFree(p)
            /\ \E lag \in 0..2 : (tail + lag) % Cells = (first + n) % Cells
    IN  \E first \in {succ(head), succ(succ(head))} : From(first)

\* enqueue is refused only if the queue was full at some instant of the call,
\* dequeue only if it was empty.
Refusals == \A t \in Thread : pc[t] = "refused" => saw[t]

\* The state of a BoundedQueue
OpOf(t) ==
    CASE pc[t] \in EnqPC -> "enq"
      [] pc[t] \in DeqPC -> "deq"
      [] pc[t] \in DonePC -> "done"
      [] OTHER -> "idle"
ValOf(t) == IF pc[t] = "refused" THEN None ELSE val[t]
=============================================================================
