------------------------------ MODULE ItemBag ------------------------------
(***************************************************************************)
(* What a concurrent bag promises (cds/bag/sbag.h): an item that is added  *)
(* is removed once, in no particular order; tryRemoveAny finds none only   *)
(* if there was none at one instant of the call.  Items are told apart by  *)
(* their places.                                                           *)
(***************************************************************************)
CONSTANTS Thread, Place
VARIABLES bag,      \* the places with an item
          op,       \* what each thread is doing, see Op
          sawEmpty  \* the bag has been empty during the call

ivars == <<bag, op, sawEmpty>>
Op == {"idle", "add", "remove", "yes", "no"}

IInit ==
    /\ bag = {}
    /\ op = [t \in Thread |-> "idle"]
    /\ sawEmpty = [t \in Thread |-> FALSE]

Watch ==
    sawEmpty' = [t \in Thread |->
       op'[t] = "remove" /\ (bag' = {} \/ (op[t] = "remove" /\ sawEmpty[t]))]

Call(t) ==
    /\ op[t] = "idle"
    /\ \E o \in {"add", "remove"} : op' = [op EXCEPT ![t] = o]
    /\ UNCHANGED bag
Add(t) ==
    /\ op[t] = "add"
    /\ \E p \in Place \ bag : bag' = bag \cup {p}
    /\ op' = [op EXCEPT ![t] = "yes"]
Remove(t) ==
    /\ op[t] = "remove"
    /\ \E p \in bag : bag' = bag \ {p}
    /\ op' = [op EXCEPT ![t] = "yes"]
NotFound(t) ==
    /\ op[t] = "remove" /\ sawEmpty[t]
    /\ op' = [op EXCEPT ![t] = "no"]
    /\ UNCHANGED bag
Return(t) ==
    /\ op[t] \in {"yes", "no"}
    /\ op' = [op EXCEPT ![t] = "idle"]
    /\ UNCHANGED bag

INext ==
    /\ \E t \in Thread : Call(t) \/ Add(t) \/ Remove(t) \/ NotFound(t) \/ Return(t)
    /\ Watch
ISpec == IInit /\ [][INext]_ivars
=============================================================================
