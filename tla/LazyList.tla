------------------------------ MODULE LazyList ------------------------------
(***************************************************************************)
(* The lazy list over guards (cds/ordered_list/details/lazy_list_hpgen.h). *)
(* A search takes no locks; an operation that changes the list locks the   *)
(* two nodes its search stopped at, validates that they are still in the   *)
(* list and adjacent, and searches again if not.  An erased node gets a    *)
(* link back to the head, for the searches that are standing on it.        *)
(***************************************************************************)
EXTENDS ListCommon

-----------------------------------------------------------------------------
(* search; slot 0 guards pPred, slot 1 pCur *)

\* The head needs no guard; as in MichaelList, the guards of the search before
\* are released at once.
LzSearch(t) ==
    /\ pc[t] = "search"
    /\ prev' = [prev EXCEPT ![t] = HeadCell]
    /\ cur' = [cur EXCEPT ![t] = HeadCell]
    /\ R!Release(Guards(t))
    /\ Goto(t, "load")
    /\ UNCHANGED <<listVars, callVars, nxt, nmark, items>>

LzLoad(t) ==
    /\ pc[t] = "load"
    /\ cur' = [cur EXCEPT ![t] = next[prev[t]]]
    /\ Goto(t, "cur_guard")
    /\ UNCHANGED <<listVars, reclaimVars, callVars, prev, nxt, nmark, items>>

LzGuard(t) ==
    /\ pc[t] = "cur_guard"
    /\ Guard(t, 1, cur[t])
    /\ Goto(t, "cur_check")
    /\ UNCHANGED <<listVars, callVars, posVars, items>>

\* The loop ends at the tail or at a key that is not less
Stops(t) == cur[t] = TailCell \/ (cur[t] # HeadCell /\ key[cur[t]] >= arg[t])
LzCheck(t) ==
    /\ pc[t] = "cur_check"
    /\ IF next[prev[t]] = cur[t]
       THEN /\ R!Use(<<t, 1>>)
            /\ Goto(t, IF ~Stops(t) THEN "step" ELSE IF op[t] = "find" THEN "find" ELSE "lock")
       ELSE UNCHANGED reclaimVars /\ Goto(t, "load")
    /\ UNCHANGED <<listVars, callVars, posVars, items>>

LzStep(t) ==
    /\ pc[t] = "step"
    /\ prev' = [prev EXCEPT ![t] = cur[t]]
    /\ MoveGuard(t, 1, 0, cur[t])
    /\ Goto(t, "load")
    /\ UNCHANGED <<listVars, callVars, cur, nxt, nmark, items>>

HasKey(t) == cur[t] # TailCell /\ key[cur[t]] = arg[t]

\* find reads the mark without a lock
LzFound(t) == HasKey(t) /\ ~marked[cur[t]]
LzFind(t) ==
    /\ pc[t] = "find"
    /\ Answer(t, IF LzFound(t) THEN "yes" ELSE "no")
    /\ Goto(t, IF LzFound(t) THEN "touch" ELSE "leave")
    /\ UNCHANGED <<listVars, reclaimVars, posVars, items>>
LzFunctor(t) ==
    /\ pc[t] = "touch"
    /\ Goto(t, "leave")
    /\ UNCHANGED <<listVars, reclaimVars, callVars, posVars, items>>

-----------------------------------------------------------------------------
(* position::lock and unlock: the nearer node first *)

Acquire(t, here, c, there) ==
    /\ pc[t] = here
    /\ lock[c] = NoThread
    /\ lock' = [lock EXCEPT ![c] = t]
    /\ Goto(t, there)
    /\ UNCHANGED <<next, marked, key, reclaimVars, callVars, posVars, items>>
LockPred(t) == Acquire(t, "lock", prev[t], "lock_cur")
LockCur(t) == Acquire(t, "lock_cur", cur[t], "validate")

Unlock(t, here, c, there) ==
    /\ pc[t] = here
    /\ lock' = [lock EXCEPT ![c] = NoThread]
    /\ Goto(t, there)
    /\ UNCHANGED <<next, marked, key, reclaimVars, callVars, posVars, items>>
UnlockCur(t) == Unlock(t, "unlock", cur[t], "unlock_pred")
UnlockPred(t) ==
    Unlock(t, "unlock_pred", prev[t],
           IF ans[t] = "none" THEN "search"
           ELSE IF op[t] = "erase" /\ ans[t] = "yes" THEN "retire" ELSE "leave")

Validated(t) == ~marked[prev[t]] /\ ~marked[cur[t]] /\ next[prev[t]] = cur[t]

\* With both locks held: search again, answer, or change the list
Validate(t) ==
    /\ pc[t] = "validate"
    /\ IF ~Validated(t) THEN Goto(t, "unlock") /\ UNCHANGED callVars
       ELSE CASE op[t] \in Inserts /\ HasKey(t) -> Goto(t, "unlock") /\ Answer(t, "no")
              [] op[t] \in Inserts /\ ~HasKey(t) -> Goto(t, "link") /\ UNCHANGED callVars
              [] op[t] = "emplace" ->
                    /\ Goto(t, "unlock")
                    /\ Answer(t, IF HasKey(t) THEN "yes" ELSE "no")
              [] op[t] = "erase" /\ HasKey(t) -> Goto(t, "mark") /\ UNCHANGED callVars
              [] OTHER -> Goto(t, "unlock") /\ Answer(t, "no")
    /\ UNCHANGED <<listVars, reclaimVars, posVars, items>>

\* insert links the node it allocated before it searched, ensure a new one
LzLinked(t, n) ==
    /\ next' = [next EXCEPT ![n] = cur[t], ![prev[t]] = n]
    /\ items' = items \cup {n}
    /\ Answer(t, "yes")
    /\ Goto(t, "unlock")
LzLink(t) ==
    /\ pc[t] = "link"
    /\ node[t] # Null
    /\ LzLinked(t, node[t])
    /\ UNCHANGED <<marked, key, lock, reclaimVars, posVars>>
LzEnsure(t, n) ==
    /\ pc[t] = "link"
    /\ node[t] = Null
    /\ R!Allocate(n)
    /\ key' = [key EXCEPT ![n] = arg[t]]
    /\ LzLinked(t, n)
    /\ UNCHANGED <<marked, lock, posVars>>

LzMark(t) ==
    /\ pc[t] = "mark"
    /\ marked' = [marked EXCEPT ![cur[t]] = TRUE]
    /\ items' = items \ {cur[t]}
    /\ Answer(t, "yes")
    /\ Goto(t, "unlink")
    /\ UNCHANGED <<next, key, lock, reclaimVars, posVars>>

LzUnlink(t) ==
    /\ pc[t] = "unlink"
    /\ next' = [next EXCEPT ![prev[t]] = next[cur[t]]]
    /\ R!SetStatus(cur[t], "unlinked")
    /\ Goto(t, "back_link")
    /\ UNCHANGED <<marked, key, lock, callVars, posVars, items>>

BackLink_None(t) ==                                               \* mutant
    /\ pc[t] = "back_link"
    /\ Goto(t, "unlock")
    /\ UNCHANGED <<listVars, reclaimVars, callVars, posVars, items>>
BackLink(t) ==
    /\ pc[t] = "back_link"
    /\ next' = [next EXCEPT ![cur[t]] = HeadCell]
    /\ Goto(t, "unlock")
    /\ UNCHANGED <<marked, key, lock, reclaimVars, callVars, posVars, items>>

LzRetire(t) ==
    /\ pc[t] = "retire"
    /\ R!HandOver(cur[t])
    /\ Goto(t, "leave")
    /\ UNCHANGED <<listVars, callVars, posVars, items>>

-----------------------------------------------------------------------------
LzSearching(t) ==
    LzSearch(t) \/ LzLoad(t) \/ LzGuard(t) \/ LzCheck(t) \/ LzStep(t) \/ LzFind(t) \/ LzFunctor(t)
Locking(t) == LockPred(t) \/ LockCur(t) \/ UnlockCur(t) \/ UnlockPred(t)
LzChanging(t) ==
    \/ Validate(t) \/ LzLink(t) \/ (\E n \in Node : LzEnsure(t, n))
    \/ LzMark(t) \/ LzUnlink(t) \/ BackLink(t) \/ LzRetire(t)
LazyWorking(t) == LzSearching(t) \/ Locking(t) \/ LzChanging(t) \/ Returning(t)

LazyPC == {"search", "load", "cur_guard", "cur_check", "step", "find", "touch", "lock",
           "lock_cur", "validate", "unlock", "unlock_pred", "link", "mark", "unlink",
           "back_link", "retire"}

\* The nodes whose fields t is about to read or write
LazyTouches(t) ==
    CASE pc[t] \in {"load", "lock", "unlock_pred"} -> {prev[t]}
      [] pc[t] = "cur_check" -> {prev[t]} \cup (IF next[prev[t]] = cur[t] THEN {cur[t]} ELSE {})
      [] pc[t] \in {"find", "touch", "lock_cur", "unlock", "mark", "back_link", "retire"} -> {cur[t]}
      [] pc[t] \in {"validate", "link", "unlink"} -> {prev[t], cur[t]}
      [] OTHER -> {}

\* Who holds which node.
LocksHeld ==
    \A c \in Cell, t \in Thread :
        lock[c] = t <=>
            \/ c = prev[t] /\ pc[t] \in {"lock_cur", "validate", "unlock", "unlock_pred",
                                         "link", "mark", "unlink", "back_link"}
            \/ c = cur[t] /\ pc[t] \in {"validate", "unlock", "link", "mark", "unlink",
                                        "back_link"}
=============================================================================
