---------------------------- MODULE BoundedQueue ----------------------------
(***************************************************************************)
(* What the queues and stacks of libcds promise: every enqueue and dequeue *)
(* (push and pop) that succeeds takes effect at one instant between its    *)
(* call and its return, in first-in first-out order (a stack: last in,     *)
(* first out), and there are never more values than the capacity.  A call  *)
(* may be refused; when, differs from class to class, and is stated with   *)
(* each (Refusals).                                                        *)
(***************************************************************************)
EXTENDS Naturals, Sequences

CONSTANTS Thread, Value,
          None      \* no value: the thread is not enqueueing or dequeueing one

VARIABLES capacity, \* fixed at construction
          stack,    \* TRUE for a stack
          q,        \* the values, the next to leave first
          op,       \* what each thread is doing: idle, enq, deq, clear or done
          val       \* the value it enqueues, or has dequeued

bvars == <<capacity, stack, q, op, val>>

BInit ==
    /\ capacity \in Nat /\ stack \in BOOLEAN
    /\ q = <<>>
    /\ op = [t \in Thread |-> "idle"]
    /\ val = [t \in Thread |-> None]

CallEnqueue(t, v) ==
    /\ op[t] = "idle"
    /\ op' = [op EXCEPT ![t] = "enq"]
    /\ val' = [val EXCEPT ![t] = v]
    /\ UNCHANGED <<capacity, stack, q>>

CallDequeue(t) ==
    /\ op[t] = "idle"
    /\ op' = [op EXCEPT ![t] = "deq"]
    /\ UNCHANGED <<capacity, stack, q, val>>

Enqueue(t) ==
    /\ op[t] = "enq"
    /\ Len(q) < capacity
    /\ q' = IF stack THEN <<val[t]>> \o q ELSE Append(q, val[t])
    /\ op' = [op EXCEPT ![t] = "done"]
    /\ UNCHANGED <<capacity, stack, val>>

Dequeue(t) ==
    /\ op[t] = "deq"
    /\ q # <<>>
    /\ val' = [val EXCEPT ![t] = Head(q)]
    /\ q' = Tail(q)
    /\ op' = [op EXCEPT ![t] = "done"]
    /\ UNCHANGED <<capacity, stack>>

CallClear(t) ==
    /\ op[t] = "idle"
    /\ op' = [op EXCEPT ![t] = "clear"]
    /\ UNCHANGED <<capacity, stack, q, val>>

Clear(t) ==
    /\ op[t] = "clear"
    /\ q' = <<>>
    /\ op' = [op EXCEPT ![t] = "done"]
    /\ UNCHANGED <<capacity, stack, val>>

\* The call returns false, or has returned.
Finish(t) ==
    /\ op' = [op EXCEPT ![t] = "idle"]
    /\ val' = [val EXCEPT ![t] = None]
    /\ UNCHANGED <<capacity, stack, q>>

BNext ==
    \E t \in Thread :
        \/ \E v \in Value : CallEnqueue(t, v)
        \/ CallDequeue(t) \/ Enqueue(t) \/ Dequeue(t)
        \/ CallClear(t) \/ Clear(t) \/ Finish(t)

BSpec == BInit /\ [][BNext]_bvars
=============================================================================
