------------------------------- MODULE KeySet -------------------------------
(***************************************************************************)
(* What the ordered lists of libcds promise (cds/ordered_list/list_base.h):*)
(* a set of keys.  insert, ensure and erase take effect at one instant of  *)
(* their call; an answer that changes nothing (the key is there, the key   *)
(* is not there, the list is empty) was true at one instant of the call.   *)
(***************************************************************************)
CONSTANTS Thread, Key,
          NoKey     \* of a thread that is not working on one

VARIABLES set,      \* the keys in the list
          op,       \* what each thread is doing, see Op
          arg,      \* the key it was called with
          sawIn,    \* its key has been in the set during the call
          sawOut    \* its key has been missing; for empty and clear: all keys

kvars == <<set, op, arg, sawIn, sawOut>>

Op == {"idle", "insert", "erase", "find", "empty", "clear", "yes", "no"}
Pending == {"insert", "erase", "find", "empty", "clear"}

KInit ==
    /\ set = {}
    /\ op = [t \in Thread |-> "idle"]
    /\ arg = [t \in Thread |-> NoKey]
    /\ sawIn = [t \in Thread |-> FALSE]
    /\ sawOut = [t \in Thread |-> FALSE]

\* What the calls in progress notice of the set.
Missing(t, s) == IF arg'[t] = NoKey THEN s = {} ELSE arg'[t] \notin s
Watch ==
    \E s \in {set'} :
       /\ sawIn' = [t \in Thread |->
             op'[t] \in Pending /\ (arg'[t] \in s \/ (op[t] \in Pending /\ sawIn[t]))]
       /\ sawOut' = [t \in Thread |->
             op'[t] \in Pending /\ (Missing(t, s) \/ (op[t] \in Pending /\ sawOut[t]))]

Answer(t, yesNo) == op' = [op EXCEPT ![t] = yesNo]

Call(t) ==
    /\ op[t] = "idle"
    /\ \/ /\ \E o \in {"insert", "erase", "find"} : op' = [op EXCEPT ![t] = o]
          /\ \E k \in Key : arg' = [arg EXCEPT ![t] = k]
       \/ /\ \E o \in {"empty", "clear"} : op' = [op EXCEPT ![t] = o]
          /\ UNCHANGED arg
    /\ UNCHANGED set

\* insert of a new key; ensure adds the key or finds it
Insert(t) ==
    /\ op[t] = "insert" /\ arg[t] \notin set
    /\ set' = set \cup {arg[t]}
    /\ Answer(t, "yes")
    /\ UNCHANGED arg
Erase(t) ==
    /\ op[t] = "erase" /\ arg[t] \in set
    /\ set' = set \ {arg[t]}
    /\ Answer(t, "yes")
    /\ UNCHANGED arg
\* clear drops the keys one by one
Drop(t) ==
    /\ op[t] = "clear"
    /\ \E k \in set : set' = set \ {k}
    /\ UNCHANGED <<op, arg>>

\* The answers that change nothing
Refuse(t) == op[t] = "insert" /\ sawIn[t] /\ Answer(t, "no") /\ UNCHANGED <<set, arg>>
Found(t) == op[t] = "find" /\ sawIn[t] /\ Answer(t, "yes") /\ UNCHANGED <<set, arg>>
NotFound(t) ==
    op[t] \in {"erase", "find"} /\ sawOut[t] /\ Answer(t, "no") /\ UNCHANGED <<set, arg>>
IsEmpty(t) ==
    op[t] \in {"empty", "clear"} /\ sawOut[t] /\ Answer(t, "yes") /\ UNCHANGED <<set, arg>>
\* "not empty" is no promise: an erased item may still be linked
NotEmpty(t) == op[t] = "empty" /\ Answer(t, "no") /\ UNCHANGED <<set, arg>>

Return(t) ==
    /\ op[t] \in {"yes", "no"}
    /\ op' = [op EXCEPT ![t] = "idle"]
    /\ arg' = [arg EXCEPT ![t] = NoKey]
    /\ UNCHANGED set

KNext ==
    /\ \E t \in Thread :
          \/ Call(t) \/ Insert(t) \/ Erase(t) \/ Drop(t) \/ Refuse(t) \/ Found(t)
          \/ NotFound(t) \/ IsEmpty(t) \/ NotEmpty(t) \/ Return(t)
    /\ Watch

KSpec == KInit /\ [][KNext]_kvars
=============================================================================
