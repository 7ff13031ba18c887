---------------------------- MODULE QueueOrStack ----------------------------
(***************************************************************************)
(* What the queues and the stack of libcds promise                         *)
(* (cds/queue/details/queue_base.h): every enqueue and dequeue (push and   *)
(* pop) takes effect at one instant between its call and its return, in    *)
(* first-in first-out order (a stack: last in, first out); dequeue answers *)
(* "empty" only if there was nothing to take at some instant of the call;  *)
(* and clear takes everything at once.  A call that needs memory and gets  *)
(* none has no effect.                                                     *)
(***************************************************************************)
EXTENDS Sequences

CONSTANTS Thread, Value,
          None      \* no value: the thread is not enqueueing or dequeueing one

VARIABLES stack,    \* TRUE for a stack
          q,        \* the values, the next to leave first
          op,       \* what each thread is doing, see Op
          val,      \* the value it enqueues, or has dequeued
          saw       \* its dequeue has seen the queue empty

fvars == <<stack, q, op, val, saw>>

Op == {"idle", "enq", "deq", "clear", "done", "thrown"}

FInit ==
    /\ stack \in BOOLEAN
    /\ q = <<>>
    /\ op = [t \in Thread |-> "idle"]
    /\ val = [t \in Thread |-> None]
    /\ saw = [t \in Thread |-> FALSE]

\* Every dequeue in progress notices that the queue is empty.
Watch ==
    saw' = [t \in Thread |-> op'[t] = "deq" /\ (q' = <<>> \/ (op[t] = "deq" /\ saw[t]))]

CallEnqueue(t, v) ==
    /\ op[t] = "idle"
    /\ op' = [op EXCEPT ![t] = "enq"]
    /\ val' = [val EXCEPT ![t] = v]
    /\ UNCHANGED <<stack, q>>

CallDequeue(t) ==
    /\ op[t] = "idle"
    /\ op' = [op EXCEPT ![t] = "deq"]
    /\ UNCHANGED <<stack, q, val>>

Enqueue(t) ==
    /\ op[t] = "enq"
    /\ q' = IF stack THEN <<val[t]>> \o q ELSE Append(q, val[t])
    /\ op' = [op EXCEPT ![t] = "done"]
    /\ UNCHANGED <<stack, val>>

Dequeue(t) ==
    /\ op[t] = "deq"
    /\ q # <<>>
    /\ val' = [val EXCEPT ![t] = Head(q)]
    /\ q' = Tail(q)
    /\ op' = [op EXCEPT ![t] = "done"]
    /\ UNCHANGED stack

DequeueFails(t) ==
    /\ op[t] = "deq"
    /\ saw[t]
    /\ op' = [op EXCEPT ![t] = "idle"]
    /\ UNCHANGED <<stack, q, val>>

CallClear(t) ==
    /\ op[t] = "idle"
    /\ op' = [op EXCEPT ![t] = "clear"]
    /\ UNCHANGED <<stack, q, val>>

Clear(t) ==
    /\ op[t] = "clear"
    /\ q' = <<>>
    /\ op' = [op EXCEPT ![t] = "done"]
    /\ UNCHANGED <<stack, val>>

Throw(t) ==
    /\ op[t] = "deq"
    /\ op' = [op EXCEPT ![t] = "thrown"]
    /\ UNCHANGED <<stack, q, val>>

Return(t) ==
    /\ op[t] \in {"done", "thrown"}
    /\ op' = [op EXCEPT ![t] = "idle"]
    /\ val' = [val EXCEPT ![t] = None]
    /\ UNCHANGED <<stack, q>>

FNext ==
    /\ \E t \in Thread :
          \/ \E v \in Value : CallEnqueue(t, v)
          \/ CallDequeue(t) \/ Enqueue(t) \/ Dequeue(t) \/ DequeueFails(t)
          \/ CallClear(t) \/ Clear(t) \/ Throw(t) \/ Return(t)
    /\ Watch

FSpec == FInit /\ [][FNext]_fvars
=============================================================================
