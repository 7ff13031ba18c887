-------------------------- MODULE OptimisticQueue --------------------------
(***************************************************************************)
(* The optimistic queue of Ladan-Mozes and Shavit over guards              *)
(* (cds/queue/details/lmsqueue_hp_impl.h, LMSQueue).                       *)
(*                                                                         *)
(* next links lead from m_pTail to m_pHead and are set before a node is    *)
(* published; prev links, which a dequeue follows, are set afterwards by a *)
(* plain store, and a dequeue that finds one missing walks the next links  *)
(* from the tail and sets them all (fixList).  A dummy is appended when    *)
(* the last item is to be taken and skipped when it gets to the head.      *)
(***************************************************************************)
EXTENDS MSQueue

VARIABLES prev,       \* m_pPrev of each node
          isDummy,    \* the mark in m_pNext of each node
          cur, curNext  \* fixList's pCurNode and pCurNodeNext

lmsVars == <<prev, isDummy, cur, curNext>>
nodeVars == <<next, prev, data, isDummy>>

FixPC == {"x_head", "x_load", "x_guard", "x_check", "x_prev", "x_fix", "x_on"}
LmsDeqPC == {"l_tail", "l_guard", "l_check", "l_prev", "l_guard2", "l_recheck",
             "l_test", "l_dummy", "l_append", "l_link"}

LmsTypeOK ==
    /\ prev \in [Node -> Node \cup {Null}]
    /\ isDummy \in [Node -> BOOLEAN]
    /\ {cur, curNext} \subseteq [Thread -> Node \cup {Null}]

\* items has the dummies too
LmsInit ==
    \E dummy \in Node :
        /\ InitWith(dummy) /\ items = <<dummy>>
        /\ prev = [n \in Node |-> Null]
        /\ isDummy = [n \in Node |-> n = dummy]
        /\ cur = [t \in Thread |-> Null]
        /\ curNext = [t \in Thread |-> Null]

NoLms == prev = <<>> /\ isDummy = <<>> /\ cur = <<>> /\ curNext = <<>>

\* A node is constructed with its links null, but for next of a dummy.
Construct(n, dummy, succ) ==
    /\ prev' = [prev EXCEPT ![n] = Null]
    /\ isDummy' = [isDummy EXCEPT ![n] = dummy]
    /\ next' = [next EXCEPT ![n] = succ]

-----------------------------------------------------------------------------
(* enqueue *)

LmsEnqueue(t, v, n) ==
    /\ Enqueue(t, v, n)
    /\ Construct(n, FALSE, Null)
    /\ UNCHANGED <<cur, curNext>>

LmsEnqNext(t) ==
    /\ pc[t] = "e_next"
    /\ next' = [next EXCEPT ![node[t]] = lt[t]]
    /\ Goto(t, "e_link")
    /\ UNCHANGED <<head, tail, data, reclaimVars, localVars, count, items, lmsVars>>

LmsEnqLink(t) ==
    /\ pc[t] = "e_link"
    /\ IF TailUnmoved(t)
       THEN /\ tail' = node[t]
            /\ items' = Append(items, node[t])
            /\ Goto(t, "e_prev")
       ELSE /\ Goto(t, "e_load")
            /\ UNCHANGED <<tail, items>>
    /\ UNCHANGED <<head, nodeVars, reclaimVars, localVars, count, cur, curNext>>

LmsEnqPrev(t) ==
    /\ pc[t] = "e_prev"
    /\ prev' = [prev EXCEPT ![lt[t]] = node[t]]
    /\ Goto(t, "e_count")
    /\ UNCHANGED <<queueVars, reclaimVars, localVars, count, items, isDummy, cur, curNext>>

-----------------------------------------------------------------------------
(* dequeue: a consistent head and tail, both guarded; the code makes the two *)
(* comparisons twice and starts again if either fails.                       *)

LmsTail(t) ==
    /\ pc[t] = "l_tail"
    /\ lt' = [lt EXCEPT ![t] = tail]
    /\ Goto(t, "l_guard")
    /\ UNCHANGED <<queueVars, reclaimVars, node, lh, nxt, val, count, items, lmsVars>>

LmsGuardTail(t) ==
    /\ pc[t] = "l_guard"
    /\ R!SetSlot(<<t, 1>>, lt[t])
    /\ Goto(t, "d_check")
    /\ UNCHANGED <<queueVars, localVars, count, items, lmsVars>>

LmsCheckTail(t) ==
    /\ pc[t] = "l_check"
    /\ IF TailUnmoved(t)
       THEN R!Use(<<t, 1>>) /\ Goto(t, "l_prev")
       ELSE UNCHANGED reclaimVars /\ Goto(t, "d_load")
    /\ UNCHANGED <<queueVars, localVars, count, items, lmsVars>>

\* The queue is empty if its one node is a dummy; otherwise load pHead's prev.
LmsPrev(t) ==
    /\ pc[t] = "l_prev"
    /\ IF isDummy[lh[t]] /\ lt[t] = lh[t]
       THEN Goto(t, "leave") /\ UNCHANGED nxt
       ELSE Goto(t, "l_guard2") /\ nxt' = [nxt EXCEPT ![t] = prev[lh[t]]]
    /\ UNCHANGED <<queueVars, reclaimVars, node, lt, lh, val, count, items, lmsVars>>

LmsGuardPrev(t) ==
    /\ pc[t] = "l_guard2"
    /\ R!SetSlot(<<t, 2>>, nxt[t])
    /\ Goto(t, "l_recheck")
    /\ UNCHANGED <<queueVars, localVars, count, items, lmsVars>>

\* The link is looked at once more; the head is not.
LmsRecheck(t) ==
    /\ pc[t] = "l_recheck"
    /\ IF prev[lh[t]] = nxt[t]
       THEN R!Use(<<t, 2>>) /\ Goto(t, IF lt[t] = lh[t] THEN "l_dummy" ELSE "l_test")
       ELSE UNCHANGED reclaimVars /\ Goto(t, "d_load")
    /\ UNCHANGED <<queueVars, localVars, count, items, lmsVars>>

\* prev leads to the node whose next is pHead, or the list must be fixed.
PrevRight(t) == nxt[t] # Null /\ next[nxt[t]] = lh[t]
LmsTest(t) ==
    /\ pc[t] = "l_test"
    /\ IF PrevRight(t)
       THEN Goto(t, "d_cas") /\ UNCHANGED cur
       ELSE Goto(t, "x_head") /\ cur' = [cur EXCEPT ![t] = lt[t]]
    /\ UNCHANGED <<queueVars, reclaimVars, localVars, count, items, prev, isDummy, curNext>>

\* The last item: append a dummy.  The allocator throws when it has no memory.
LmsDummy(t) ==
    /\ pc[t] = "l_dummy"
    /\ \/ \E n \in Node :
             /\ R!Allocate(n)
             /\ Construct(n, TRUE, lt[t])
             /\ node' = [node EXCEPT ![t] = n]
             /\ Goto(t, "l_append")
       \/ /\ \A n \in Node : status[n] # "free"
          /\ Goto(t, "throw")
          /\ UNCHANGED <<reclaimVars, next, prev, isDummy, node>>
    /\ UNCHANGED <<head, tail, data, lt, lh, nxt, val, count, items, cur, curNext>>

LmsAppend(t) ==
    /\ pc[t] = "l_append"
    /\ IF TailUnmoved(t)
       THEN /\ tail' = node[t]
            /\ items' = Append(items, node[t])
            /\ Goto(t, "l_link")
            /\ UNCHANGED <<reclaimVars, node>>
       ELSE /\ R!Discard(node[t])
            /\ node' = [node EXCEPT ![t] = Null]
            /\ Goto(t, "d_load")
            /\ UNCHANGED <<tail, items>>
    /\ UNCHANGED <<head, nodeVars, lt, lh, nxt, val, count, cur, curNext>>

LmsLink(t) ==
    /\ pc[t] = "l_link"
    /\ prev' = [prev EXCEPT ![lh[t]] = node[t]]
    /\ node' = [node EXCEPT ![t] = Null]
    /\ Goto(t, "d_load")
    /\ UNCHANGED <<queueVars, reclaimVars, lt, lh, nxt, val, count, items, isDummy, cur, curNext>>

-----------------------------------------------------------------------------
(* fixList *)

FixHead(t) ==
    /\ pc[t] = "x_head"
    /\ IF HeadUnmoved(t) /\ cur[t] # lh[t]
       THEN Goto(t, "x_load") /\ UNCHANGED <<reclaimVars, cur>>
       ELSE /\ R!Release({t} \X {3, 4})
            /\ cur' = [cur EXCEPT ![t] = Null]
            /\ Goto(t, "d_load")
    /\ UNCHANGED <<queueVars, localVars, count, items, prev, isDummy, curNext>>

FixLoad(t) ==
    /\ pc[t] = "x_load"
    /\ curNext' = [curNext EXCEPT ![t] = next[cur[t]]]
    /\ Goto(t, "x_guard")
    /\ UNCHANGED <<queueVars, reclaimVars, localVars, count, items, prev, isDummy, cur>>

FixGuard(t) ==
    /\ pc[t] = "x_guard"
    /\ R!SetSlot(<<t, 3>>, curNext[t])
    /\ Goto(t, "x_check")
    /\ UNCHANGED <<queueVars, localVars, count, items, lmsVars>>

\* next of a published node never changes, whatever has become of its successor.
FixCheck(t) ==
    /\ pc[t] = "x_check"
    /\ IF next[cur[t]] = curNext[t]
       THEN R!Use(<<t, 3>>) /\ Goto(t, "x_prev")
       ELSE UNCHANGED reclaimVars /\ Goto(t, "x_load")
    /\ UNCHANGED <<queueVars, localVars, count, items, lmsVars>>

\* The last of the loads of prev; its guard, of a pointer that is only compared,
\* is left out.
FixPrev(t) ==
    /\ pc[t] = "x_prev"
    /\ Goto(t, IF prev[curNext[t]] = cur[t] THEN "x_on" ELSE "x_fix")
    /\ UNCHANGED <<queueVars, reclaimVars, localVars, count, items, lmsVars>>

FixStore(t) ==
    /\ pc[t] = "x_fix"
    /\ prev' = [prev EXCEPT ![curNext[t]] = cur[t]]
    /\ Goto(t, "x_on")
    /\ UNCHANGED <<queueVars, reclaimVars, localVars, count, items, isDummy, cur, curNext>>

FixOn(t) ==
    /\ pc[t] = "x_on"
    /\ R!Copy(<<t, 3>>, <<t, 4>>)
    /\ cur' = [cur EXCEPT ![t] = curNext[t]]
    /\ curNext' = [curNext EXCEPT ![t] = Null]
    /\ Goto(t, "x_head")
    /\ UNCHANGED <<queueVars, localVars, count, items, prev, isDummy>>

-----------------------------------------------------------------------------
LmsCall(t) ==
    \/ \E v \in Value, n \in Node : LmsEnqueue(t, v, n)
    \/ Dequeue(t) /\ UNCHANGED lmsVars
LmsEnqueueing(t) ==
    \/ (EnqLoad(t) \/ EnqGuard(t) \/ EnqCheck(t)) /\ UNCHANGED lmsVars
    \/ LmsEnqNext(t) \/ LmsEnqLink(t) \/ LmsEnqPrev(t)
    \/ EnqCount(t, "leave") /\ UNCHANGED lmsVars
Fixing(t) ==
    \/ FixHead(t) \/ FixLoad(t) \/ FixGuard(t) \/ FixCheck(t)
    \/ FixPrev(t) \/ FixStore(t) \/ FixOn(t)
\* A dequeue that has moved the head past a dummy retires it and goes on.
LmsDequeueing(t) ==
    \/ /\ \/ DeqLoad(t) \/ DeqGuard(t, "l_tail") \/ DeqCheck(t, "l_check")
          \/ DeqCas(t, IF isDummy[lh[t]] THEN "d_retire" ELSE "d_data")
          \/ DeqData(t, lh[t], "d_count") \/ DeqCount(t)
          \/ DeqRetire(t, IF isDummy[lh[t]] THEN "d_load" ELSE "leave")
       /\ UNCHANGED lmsVars
    \/ LmsTail(t) \/ LmsGuardTail(t) \/ LmsCheckTail(t)
    \/ LmsPrev(t) \/ LmsGuardPrev(t) \/ LmsRecheck(t) \/ LmsTest(t)
    \/ LmsDummy(t) \/ LmsAppend(t) \/ LmsLink(t)
LmsWorking(t) ==
    \/ LmsEnqueueing(t) \/ LmsDequeueing(t) \/ Fixing(t)
    \/ Leave(t) /\ UNCHANGED lmsVars

LmsReclaim(n) ==
    /\ Reclaim(n)
    /\ prev' = [prev EXCEPT ![n] = Null]
    /\ isDummy' = [isDummy EXCEPT ![n] = FALSE]
    /\ UNCHANGED <<cur, curNext>>

-----------------------------------------------------------------------------
\* The items lie between m_pHead and m_pTail, each one's next leads to the one
\* before it, and its prev, once set, to the one after it.
LmsChain ==
    LET last == Len(items)
    IN  /\ head = items[1] /\ tail = items[last]
        /\ \A i \in 1..last :
              /\ status[items[i]] = "linked"
              /\ i > 1 => next[items[i]] = items[i - 1]
              /\ prev[items[i]] \in {Null} \cup (IF i < last THEN {items[i + 1]} ELSE {})
              /\ \A j \in 1..last : items[i] = items[j] => i = j
        /\ Cardinality({i \in 1..last : isDummy[items[i]]}) <= 1
=============================================================================
