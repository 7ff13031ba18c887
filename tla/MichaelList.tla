---------------------------- MODULE MichaelList ----------------------------
(***************************************************************************)
(* Michael's lock-free ordered list over guards                            *)
(* (cds/ordered_list/details/michael_list_hpgen.h).  A node is erased in   *)
(* two steps: its own link is marked, then the link before it is moved     *)
(* past it, by the eraser or by any search that meets it.                  *)
(***************************************************************************)
EXTENDS ListCommon

\* A link is compared with an unmarked pointer: *link == marked_node(p)
LinkIs(c, p) == next[c] = p /\ ~marked[c]

-----------------------------------------------------------------------------
(* search; slot 0 guards pNext, 1 pCur, 2 the node of pPrev *)

\* Where an operation goes when its search has ended
Ended(t, found) ==
    IF ans[t] # "none" THEN Goto(t, "leave") /\ UNCHANGED callVars
    ELSE CASE op[t] = "find" ->
                /\ Answer(t, IF found THEN "yes" ELSE "no")
                /\ Goto(t, IF found THEN "touch" ELSE "leave")
           [] op[t] = "erase" /\ found -> Goto(t, "mark") /\ UNCHANGED callVars
           [] op[t] = "erase" /\ ~found -> Goto(t, "leave") /\ Answer(t, "no")
           [] op[t] = "ensure" /\ found -> Goto(t, "is_marked") /\ UNCHANGED callVars
           [] op[t] \in {"insert", "insertf"} /\ found -> Goto(t, "leave") /\ Answer(t, "no")
           [] op[t] = "insert" /\ ~found -> Goto(t, "link") /\ UNCHANGED callVars
           [] OTHER -> Goto(t, "guard_new") /\ UNCHANGED callVars

\* try_again.  The guards a search leaves behind when it starts again protect
\* nothing it will use: here they are released at once, and the reclaimer is
\* only freer than in the code, which overwrites them one by one.
Search(t) ==
    /\ pc[t] = "search"
    /\ prev' = [prev EXCEPT ![t] = HeadCell]
    /\ cur' = [cur EXCEPT ![t] = next[HeadCell]]
    /\ nxt' = [nxt EXCEPT ![t] = Null]
    /\ nmark' = [nmark EXCEPT ![t] = FALSE]
    /\ R!Release(Guards(t))
    /\ Goto(t, "cur_guard")
    /\ UNCHANGED <<listVars, callVars, items>>

CurGuard(t) ==
    /\ pc[t] = "cur_guard"
    /\ Guard(t, 1, cur[t])
    /\ Goto(t, "cur_check")
    /\ UNCHANGED <<listVars, callVars, posVars, items>>

CurCheck(t) ==
    /\ pc[t] = "cur_check"
    /\ IF LinkIs(HeadCell, cur[t])
       THEN /\ R!Use(<<t, 1>>)
            /\ IF cur[t] = Null THEN Ended(t, FALSE) ELSE Goto(t, "next") /\ UNCHANGED callVars
       ELSE Goto(t, "search") /\ UNCHANGED <<reclaimVars, callVars>>
    /\ UNCHANGED <<listVars, posVars, items>>

Next_(t) ==
    /\ pc[t] = "next"
    /\ nxt' = [nxt EXCEPT ![t] = next[cur[t]]]
    /\ nmark' = [nmark EXCEPT ![t] = marked[cur[t]]]
    /\ Goto(t, "next_guard")
    /\ UNCHANGED <<listVars, reclaimVars, callVars, prev, cur, items>>

NextGuard(t) ==
    /\ pc[t] = "next_guard"
    /\ Guard(t, 0, nxt[t])
    /\ Goto(t, "next_check")
    /\ UNCHANGED <<listVars, callVars, posVars, items>>

NextUnmoved(t) == next[cur[t]] = nxt[t] /\ marked[cur[t]] = nmark[t]
NextCheck(t) ==
    /\ pc[t] = "next_check"
    /\ Goto(t, IF NextUnmoved(t) THEN "prev_check" ELSE "search")
    /\ UNCHANGED <<listVars, reclaimVars, callVars, posVars, items>>

\* pPrev must still name pCur: only then are pCur's link and mark, and the guard
\* of pNext, worth anything
PrevUnmoved_AnyMark(t) == next[prev[t]] = cur[t]                  \* mutant
PrevUnmoved_NoCheck(t) == TRUE                                    \* mutant
PrevUnmoved(t) == LinkIs(prev[t], cur[t])
PrevCheck(t) ==
    /\ pc[t] = "prev_check"
    /\ IF PrevUnmoved(t)
       THEN /\ R!Use(<<t, 0>>)
            /\ CASE nmark[t] -> Goto(t, "unlink") /\ UNCHANGED callVars
                 [] ~nmark[t] /\ key[cur[t]] >= arg[t] -> Ended(t, key[cur[t]] = arg[t])
                 [] OTHER -> Goto(t, "step") /\ UNCHANGED callVars
       ELSE Goto(t, "search") /\ UNCHANGED <<reclaimVars, callVars>>
    /\ UNCHANGED <<listVars, posVars, items>>

Step(t) ==
    /\ pc[t] = "step"
    /\ prev' = [prev EXCEPT ![t] = cur[t]]
    /\ R!Copy(<<t, 1>>, <<t, 2>>)
    /\ Goto(t, "shift")
    /\ UNCHANGED <<listVars, callVars, cur, nxt, nmark, items>>

Shift(t) ==
    /\ pc[t] = "shift"
    /\ cur' = [cur EXCEPT ![t] = nxt[t]]
    /\ MoveGuard(t, 0, 1, nxt[t])
    /\ IF nxt[t] = Null THEN Ended(t, FALSE) ELSE Goto(t, "next") /\ UNCHANGED callVars
    /\ UNCHANGED <<listVars, prev, nxt, nmark, items>>

\* physicalDeletion, by a search and by the eraser
PhysicalDeletion(t, done, lost) ==
    /\ IF PrevUnmoved(t)
       THEN /\ next' = [next EXCEPT ![prev[t]] = nxt[t]]
            /\ R!SetStatus(cur[t], "unlinked")
            /\ Goto(t, done)
       ELSE UNCHANGED <<next, reclaimVars>> /\ Goto(t, lost)
    /\ UNCHANGED <<marked, key, lock, callVars, posVars, items>>
Unlink(t) == pc[t] = "unlink" /\ PhysicalDeletion(t, "retire", "search")

Retire(t, from, to) ==
    /\ pc[t] = from
    /\ R!HandOver(cur[t])
    /\ Goto(t, to)
    /\ UNCHANGED <<listVars, callVars, posVars, items>>

-----------------------------------------------------------------------------
(* insert and ensure *)

\* "If pos.pCur is marked - try again"
IsMarked(t) ==
    /\ pc[t] = "is_marked"
    /\ IF marked[cur[t]]
       THEN Goto(t, "search") /\ UNCHANGED callVars
       ELSE Goto(t, "touch") /\ Answer(t, "no")
    /\ UNCHANGED <<listVars, reclaimVars, posVars, items>>

\* The new node is guarded: its functor is called after it is linked
GuardNew(t) ==
    /\ pc[t] = "guard_new"
    /\ Guard(t, 3, node[t])
    /\ Goto(t, "link")
    /\ UNCHANGED <<listVars, callVars, posVars, items>>

LinkNode(t) ==
    /\ pc[t] = "link"
    /\ IF PrevUnmoved(t)
       THEN /\ next' = [next EXCEPT ![node[t]] = cur[t], ![prev[t]] = node[t]]
            /\ items' = items \cup {node[t]}
            /\ R!Use(<<t, 3>>)
            /\ Answer(t, "yes")
            /\ Goto(t, IF op[t] = "insert" THEN "leave" ELSE "touch_new")
       ELSE /\ next' = [next EXCEPT ![node[t]] = cur[t]]
            /\ Guard(t, 3, Null)
            /\ Goto(t, "search")
            /\ UNCHANGED <<items, callVars>>
    /\ UNCHANGED <<marked, key, lock, posVars>>

\* A functor is called with the value of a node
Functor(t) ==
    /\ pc[t] \in {"touch", "touch_new"}
    /\ Goto(t, "leave")
    /\ UNCHANGED <<listVars, reclaimVars, callVars, posVars, items>>

-----------------------------------------------------------------------------
(* erase *)

LogicalDeletion(t) == LinkIs(cur[t], nxt[t])
Mark(t) ==
    /\ pc[t] = "mark"
    /\ IF LogicalDeletion(t)
       THEN /\ marked' = [marked EXCEPT ![cur[t]] = TRUE]
            /\ items' = items \ {cur[t]}
            /\ Answer(t, "yes")
            /\ Goto(t, "erase_unlink")
       ELSE /\ Goto(t, "search")
            /\ UNCHANGED <<marked, items, callVars>>
    /\ UNCHANGED <<next, key, lock, reclaimVars, posVars>>

EraseUnlink(t) == pc[t] = "erase_unlink" /\ PhysicalDeletion(t, "erase_retire", "search")

-----------------------------------------------------------------------------
Searching(t) ==
    \/ Search(t) \/ CurGuard(t) \/ CurCheck(t) \/ Next_(t) \/ NextGuard(t)
    \/ NextCheck(t) \/ PrevCheck(t) \/ Step(t) \/ Shift(t) \/ Unlink(t)
    \/ Retire(t, "retire", "shift")
Changing(t) ==
    \/ IsMarked(t) \/ GuardNew(t) \/ LinkNode(t) \/ Functor(t) \/ Mark(t)
    \/ EraseUnlink(t) \/ Retire(t, "erase_retire", "leave")
MichaelWorking(t) == Searching(t) \/ Changing(t) \/ Returning(t)

MichaelPC == {"search", "cur_guard", "cur_check", "next", "next_guard", "next_check",
              "prev_check", "step", "shift", "unlink", "retire", "is_marked",
              "guard_new", "link", "touch", "touch_new", "mark", "erase_unlink",
              "erase_retire"}

\* The nodes whose fields t is about to read or write
MichaelTouches(t) ==
    CASE pc[t] \in {"next", "next_check", "is_marked", "touch", "mark", "erase_retire"} -> {cur[t]}
      [] pc[t] \in {"prev_check", "unlink", "erase_unlink"} -> {prev[t], cur[t]}
      [] pc[t] = "link" -> {prev[t], node[t]}
      [] pc[t] = "touch_new" -> {node[t]}
      [] OTHER -> {}
=============================================================================
