---------------------------- MODULE TaggedStack ----------------------------
(***************************************************************************)
(* Treiber's stack over tagged pointers (cds/stack/stack_tagged.h).  pop   *)
(* changes the top with its tag; push changes the pointer half only and    *)
(* leaves the tag as it is.                                                *)
(***************************************************************************)
EXTENDS TaggedFreeList

VARIABLE top          \* m_Top

PushPC == AllocPC \cup {"s_load", "s_cas"}
PopPC == {"s_get", "s_next", "s_pop"}

StackTypeOK ==
    /\ ListTypeOK
    /\ top \in Node \cup {Null}
    /\ pc \in [Thread -> {"idle", "s_data", "done", "refused"} \cup PushPC \cup PopPC \cup FreePC]

StackInit == ListInit /\ unused = Node /\ top = Null

-----------------------------------------------------------------------------
Push(t, v) ==
    /\ pc[t] = "idle" /\ Room(0)
    /\ val' = [val EXCEPT ![t] = v]
    /\ Goto(t, "f_load")
    /\ UNCHANGED <<freeVars, next, data, known, node, lh, lt, nxt, items, top>>

PushLoad(t) ==
    /\ pc[t] = "s_load"
    /\ lh' = [lh EXCEPT ![t] = top]
    /\ next' = [next EXCEPT ![node[t]] = top]
    /\ Goto(t, "s_cas")
    /\ UNCHANGED <<freeVars, data, known, node, lt, nxt, val, items, top>>

PushCas(t) ==
    /\ pc[t] = "s_cas"
    /\ IF top = lh[t]
       THEN /\ top' = node[t]
            /\ items' = <<node[t]>> \o items
            /\ Goto(t, "done")
       ELSE /\ Goto(t, "s_load")
            /\ UNCHANGED <<top, items>>
    /\ UNCHANGED <<freeVars, next, data, known, localVars>>

-----------------------------------------------------------------------------
Pop(t) ==
    /\ pc[t] = "idle"
    /\ Goto(t, "s_get")
    /\ UNCHANGED <<freeVars, next, data, known, localVars, items, top>>

PopLoad(t) ==
    /\ pc[t] = "s_get"
    /\ lh' = [lh EXCEPT ![t] = top]
    /\ Loads(t, "top")
    /\ Goto(t, IF top = Null THEN "refused" ELSE "s_next")
    /\ UNCHANGED <<freeVars, next, data, node, lt, nxt, val, items, top>>

PopNext(t) ==
    /\ pc[t] = "s_next"
    /\ nxt' = [nxt EXCEPT ![t] = next[lh[t]]]
    /\ Goto(t, "s_pop")
    /\ UNCHANGED <<freeVars, next, data, known, node, lh, lt, val, items, top>>

PopCas(t) ==
    /\ pc[t] = "s_pop"
    /\ IF Unchanged(t, "top", top, lh[t])
       THEN /\ top' = nxt[t]
            /\ Bump("top")
            /\ items' = Tail(items)
            /\ node' = [node EXCEPT ![t] = lh[t]]
            /\ Goto(t, "s_data")
       ELSE /\ Goto(t, "s_get")
            /\ UNCHANGED <<known, items, node, top>>
    /\ UNCHANGED <<freeVars, next, data, lh, lt, nxt, val>>

PopData(t) ==
    /\ pc[t] = "s_data"
    /\ val' = [val EXCEPT ![t] = data[node[t]]]
    /\ Goto(t, "p_load")
    /\ UNCHANGED <<freeVars, next, data, known, node, lh, lt, nxt, items, top>>

-----------------------------------------------------------------------------
\* The stack is empty
Watch == saw' = [t \in Thread |-> pc'[t] \in PopPC \cup {"refused"}
                                     /\ (items' = <<>> \/ (pc[t] \in PopPC \cup {"refused"} /\ saw[t]))]
StackNext ==
    /\ \E t \in Thread :
          \/ (\E v \in Value : Push(t, v)) \/ PushLoad(t) \/ PushCas(t)
          \/ Pop(t) \/ PopLoad(t) \/ PopNext(t) \/ PopCas(t) \/ PopData(t)
          \/ Listing(t, "s_load") /\ UNCHANGED top
    /\ Watch

\* The nodes from the top on are the items; no node is anywhere else as well.
StackLayout ==
    /\ LET walk == Chain(top, next, Len(items) + 1)
       IN  \A i \in DOMAIN walk : walk[i] = IF i <= Len(items) THEN items[i] ELSE Null
    /\ OnePlace({items[i] : i \in DOMAIN items},
                [t \in Thread |-> IF pc[t] = "done" THEN Null ELSE node[t]])

StackOp(t) ==
    CASE pc[t] \in PushPC -> "enq"
      [] pc[t] \in PopPC -> "deq"
      [] pc[t] \in {"s_data", "done"} \cup FreePC -> "done"
      [] OTHER -> "idle"
StackVal(t) ==
    CASE pc[t] = "s_data" -> data[node[t]] [] pc[t] = "refused" -> None [] OTHER -> val[t]
=============================================================================
