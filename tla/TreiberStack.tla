---------------------------- MODULE TreiberStack ----------------------------
(***************************************************************************)
(* Treiber's stack over hazard pointers (cds/stack/stack_hzp.h): m_pTop is *)
(* the head of the list, a push needs no guard, and clear takes the whole  *)
(* list with one CAS and retires its nodes one by one.                     *)
(***************************************************************************)
EXTENDS MSQueue

StackPushPC == {"e_load", "s_cas"}
StackClearPC == {"c_load", "c_guard", "c_check", "c_cas"}
StackTakenPC == {"c_next", "c_retire", "c_leave"}

StackInit == InitWith(Null) /\ items = <<>>

-----------------------------------------------------------------------------
PushLoad(t) ==
    /\ pc[t] = "e_load"
    /\ lh' = [lh EXCEPT ![t] = head]
    /\ next' = [next EXCEPT ![node[t]] = head]
    /\ Goto(t, "s_cas")
    /\ UNCHANGED <<head, tail, data, reclaimVars, node, lt, nxt, val, count, items>>

PushCas(t) ==
    /\ pc[t] = "s_cas"
    /\ IF HeadUnmoved(t)
       THEN /\ head' = node[t]
            /\ items' = <<node[t]>> \o items
            /\ Goto(t, "leave")
       ELSE /\ Goto(t, "e_load")
            /\ UNCHANGED <<head, items>>
    /\ UNCHANGED <<tail, next, data, reclaimVars, localVars, count>>

\* A pop, and a clear, loads the top; there is nothing to do if it is null.
TopLoad(t, here, there, none) ==
    /\ pc[t] = here
    /\ lh' = [lh EXCEPT ![t] = head]
    /\ Goto(t, IF head = Null THEN none ELSE there)
    /\ UNCHANGED <<queueVars, reclaimVars, node, lt, nxt, val, count, items>>

-----------------------------------------------------------------------------
Clear(t) ==
    /\ pc[t] = "idle"
    /\ Goto(t, "c_load")
    /\ UNCHANGED <<queueVars, reclaimVars, localVars, count, items>>

ClearGuard(t) ==
    /\ pc[t] = "c_guard"
    /\ R!SetSlot(<<t, 0>>, lh[t])
    /\ Goto(t, "c_check")
    /\ UNCHANGED <<queueVars, localVars, count, items>>

ClearCheck(t) ==
    /\ pc[t] = "c_check"
    /\ IF HeadUnmoved(t)
       THEN R!Use(<<t, 0>>) /\ Goto(t, "c_cas")
       ELSE UNCHANGED reclaimVars /\ Goto(t, "c_load")
    /\ UNCHANGED <<queueVars, localVars, count, items>>

ClearCas(t) ==
    /\ pc[t] = "c_cas"
    /\ IF HeadUnmoved(t)
       THEN /\ head' = Null
            /\ items' = <<>>
            /\ R!SetStatus(lh[t], "unlinked")
            /\ Goto(t, "c_next")
       ELSE /\ Goto(t, "c_load")
            /\ UNCHANGED <<head, items, reclaimVars>>
    /\ UNCHANGED <<tail, next, data, localVars, count>>

\* The list is the thread's own: pTop goes on to the next node, then p is retired.
ClearNext(t) ==
    /\ pc[t] = "c_next"
    /\ nxt' = [nxt EXCEPT ![t] = next[lh[t]]]
    /\ IF next[lh[t]] # Null THEN R!SetStatus(next[lh[t]], "unlinked")
                             ELSE UNCHANGED reclaimVars
    /\ Goto(t, "c_retire")
    /\ UNCHANGED <<queueVars, node, lt, lh, val, count, items>>

ClearRetire(t) ==
    /\ pc[t] = "c_retire"
    /\ R!HandOver(lh[t])
    /\ lh' = [lh EXCEPT ![t] = nxt[t]]
    /\ nxt' = [nxt EXCEPT ![t] = Null]
    /\ Goto(t, IF nxt[t] = Null THEN "c_leave" ELSE "c_next")
    /\ UNCHANGED <<queueVars, node, lt, val, count, items>>

-----------------------------------------------------------------------------
Pushing(t) == PushLoad(t) \/ PushCas(t)
Popping(t) ==
    \/ TopLoad(t, "d_load", "d_guard", "leave") \/ DeqGuard(t, "d_check") \/ DeqCheck(t, "d_next")
    \/ DeqNext(t, "d_cas") \/ DeqCas(t, "d_data") \/ DeqData(t, lh[t], "d_retire")
    \/ DeqRetire(t, "leave")
Clearing(t) ==
    \/ TopLoad(t, "c_load", "c_guard", "c_leave") \/ ClearGuard(t) \/ ClearCheck(t)
    \/ ClearCas(t) \/ ClearNext(t) \/ ClearRetire(t)
StackWorking(t) == Pushing(t) \/ Popping(t) \/ Clearing(t) \/ Leave(t)

-----------------------------------------------------------------------------
\* The nodes from m_pTop on are the items, the last of them linked to null.
StackChain ==
    /\ head = IF items = <<>> THEN Null ELSE items[1]
    /\ \A i \in DOMAIN items :
          /\ status[items[i]] = "linked"
          /\ next[items[i]] = IF i = Len(items) THEN Null ELSE items[i + 1]
          /\ \A j \in DOMAIN items : items[i] = items[j] => i = j
=============================================================================
