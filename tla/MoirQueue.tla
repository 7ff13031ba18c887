----------------------------- MODULE MoirQueue -----------------------------
(***************************************************************************)
(* The optimised variant of the Michael-Scott queue                        *)
(* (cds/queue/details/moir_queue_hp_impl.h): a dequeue does not look at    *)
(* the tail before it moves the head, so the head may pass a lagging tail; *)
(* the dequeue that did so moves the tail before it retires the node.      *)
(***************************************************************************)
EXTENDS MSQueue

MoirRecheck(t) ==
    /\ pc[t] = "d_recheck"
    /\ IF HeadUnmoved(t)
       THEN R!Use(<<t, 1>>) /\ Goto(t, IF nxt[t] = Null THEN "leave" ELSE "d_cas")
       ELSE UNCHANGED reclaimVars /\ Goto(t, "d_load")
    /\ UNCHANGED <<queueVars, localVars, count, items>>

\* After the CAS of the head: read the tail, and move it if the head passed it
TailPassed_Never(t) == FALSE                                      \* mutant
TailPassed(t) == lh[t] = tail
MoirTail(t) ==
    /\ pc[t] = "d_fix"
    /\ lt' = [lt EXCEPT ![t] = tail]
    /\ Goto(t, IF TailPassed(t) THEN "d_fix2" ELSE "d_data")
    /\ UNCHANGED <<queueVars, reclaimVars, node, lh, nxt, val, count, items>>

MoirFix(t) ==
    /\ pc[t] = "d_fix2"
    /\ AdvanceTail(lt[t], nxt[t])
    /\ Goto(t, "d_data")
    /\ UNCHANGED <<head, next, data, reclaimVars, localVars, count, items>>

MoirDequeueing(t) ==
    \/ DeqLoad(t) \/ DeqGuard(t, "d_check") \/ DeqCheck(t, "d_next")
    \/ DeqNext(t, "d_guard2") \/ DeqGuard2(t) \/ MoirRecheck(t)
    \/ DeqCas(t, "d_fix") \/ MoirTail(t) \/ MoirFix(t)
    \/ DeqData(t, nxt[t], "d_count") \/ DeqCount(t) \/ DeqRetire(t, "leave")
MoirWorking(t) == Enqueueing(t) \/ MoirDequeueing(t) \/ Leave(t)

-----------------------------------------------------------------------------
\* m_pTail may be one node behind m_pHead, but never names a node that has been
\* retired: the thread that moved the head past it moves the tail first.
TailNotRetired ==
    \/ TailInChain
    \/ next[tail] = head /\ status[tail] = "unlinked"
=============================================================================
