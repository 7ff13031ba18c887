---------------------------- MODULE TaggedQueue ----------------------------
(***************************************************************************)
(* The queues of Michael and Scott and of Moir over tagged pointers        *)
(* (cds/queue/msqueue_tagged.h, moir_queue_tagged.h).  Instead of guarding *)
(* a node, a thread reads what it likes of it and relies on the tags: the  *)
(* compare-and-swap fails if the word was changed since it was read.       *)
(***************************************************************************)
EXTENDS TaggedFreeList

VARIABLES kind,         \* the class of the queue: "tagged_ms" or "tagged_moir"
          head, tail    \* m_Head, m_Tail

EnqPC == AllocPC \cup {"e_null", "e_tail", "e_next", "e_check", "e_link", "e_help"}
DeqPC == {"d_head", "d_tail", "d_next", "d_check", "d_help", "d_data", "d_cas"}
FixPC == {"d_fix", "d_fix2"}

QueueTypeOK ==
    /\ ListTypeOK
    /\ head \in Node /\ tail \in Node
    /\ pc \in [Thread -> {"idle", "e_swing", "done", "refused"} \cup EnqPC \cup DeqPC \cup FixPC \cup FreePC]

QueueInit ==
    /\ ListInit
    /\ \E dummy \in Node : head = dummy /\ tail = dummy /\ unused = Node \ {dummy}

\* m_Tail goes to node n if it still is what t read
SwingTail(t, n) ==
    IF Unchanged(t, "tail", tail, lt[t]) THEN tail' = n /\ Bump("tail") ELSE UNCHANGED <<tail, known>>

-----------------------------------------------------------------------------
Enqueue(t, v) ==
    /\ pc[t] = "idle" /\ Room(1)
    /\ val' = [val EXCEPT ![t] = v]
    /\ Goto(t, "f_load")
    /\ UNCHANGED <<freeVars, next, data, known, node, lh, lt, nxt, items, head, tail>>

\* m_Next.m_data = NULL: the tag of the link stays what it was in an earlier life
EnqNull(t) ==
    /\ pc[t] = "e_null"
    /\ next' = [next EXCEPT ![node[t]] = Null]
    /\ Goto(t, "e_tail")
    /\ UNCHANGED <<freeVars, data, known, localVars, items, head, tail>>

EnqTail(t) ==
    /\ pc[t] = "e_tail"
    /\ lt' = [lt EXCEPT ![t] = tail]
    /\ Loads(t, "tail")
    /\ Goto(t, "e_next")
    /\ UNCHANGED <<freeVars, next, data, node, lh, nxt, val, items, head, tail>>

EnqNext(t) ==
    /\ pc[t] = "e_next"
    /\ nxt' = [nxt EXCEPT ![t] = next[lt[t]]]
    /\ AlsoLoads(t, lt[t])
    /\ Goto(t, "e_check")
    /\ UNCHANGED <<freeVars, next, data, node, lh, lt, val, items, head, tail>>

TailSame(t) == Unchanged(t, "tail", tail, lt[t])
EnqCheck(t) ==
    /\ pc[t] = "e_check"
    /\ Goto(t, IF ~TailSame(t) THEN "e_tail" ELSE IF nxt[t] = Null THEN "e_link" ELSE "e_help")
    /\ UNCHANGED <<freeVars, next, data, known, localVars, items, head, tail>>

EnqLink(t) ==
    /\ pc[t] = "e_link"
    /\ IF Unchanged(t, lt[t], next[lt[t]], nxt[t])
       THEN /\ next' = [next EXCEPT ![lt[t]] = node[t]]
            /\ Bump(lt[t])
            /\ items' = Append(items, node[t])
            /\ Goto(t, "e_swing")
       ELSE /\ Goto(t, "e_tail")
            /\ UNCHANGED <<next, known, items>>
    /\ UNCHANGED <<freeVars, data, localVars, head, tail>>

EnqHelp(t) ==
    /\ pc[t] = "e_help"
    /\ SwingTail(t, nxt[t])
    /\ Goto(t, "e_tail")
    /\ UNCHANGED <<freeVars, next, data, localVars, items, head>>

EnqSwing(t) ==
    /\ pc[t] = "e_swing"
    /\ SwingTail(t, node[t])
    /\ Goto(t, "done")
    /\ UNCHANGED <<freeVars, next, data, localVars, items, head>>

-----------------------------------------------------------------------------
Dequeue(t) ==
    /\ pc[t] = "idle"
    /\ Goto(t, "d_head")
    /\ UNCHANGED <<freeVars, next, data, known, localVars, items, head, tail>>

\* Moir's dequeue does not look at the tail yet
DeqHead(t) ==
    /\ pc[t] = "d_head"
    /\ lh' = [lh EXCEPT ![t] = head]
    /\ Loads(t, "head")
    /\ Goto(t, IF kind = "tagged_ms" THEN "d_tail" ELSE "d_next")
    /\ UNCHANGED <<freeVars, next, data, node, lt, nxt, val, items, head, tail>>

DeqTail(t) ==
    /\ pc[t] = "d_tail"
    /\ lt' = [lt EXCEPT ![t] = tail]
    /\ AlsoLoads(t, "tail")
    /\ Goto(t, "d_next")
    /\ UNCHANGED <<freeVars, next, data, node, lh, nxt, val, items, head, tail>>

DeqNext(t) ==
    /\ pc[t] = "d_next"
    /\ nxt' = [nxt EXCEPT ![t] = next[lh[t]]]
    /\ Goto(t, "d_check")
    /\ UNCHANGED <<freeVars, next, data, known, node, lh, lt, val, items, head, tail>>

HeadSame(t) == Unchanged(t, "head", head, lh[t])
DeqCheck(t) ==
    /\ pc[t] = "d_check"
    /\ Goto(t, IF ~HeadSame(t) THEN "d_head"
               ELSE IF nxt[t] = Null THEN (IF kind = "tagged_ms" /\ lh[t] # lt[t] THEN "d_data" ELSE "refused")
               ELSE IF kind = "tagged_ms" /\ lh[t] = lt[t] THEN "d_help" ELSE "d_data")
    /\ UNCHANGED <<freeVars, next, data, known, localVars, items, head, tail>>

DeqHelp(t) ==
    /\ pc[t] = "d_help"
    /\ SwingTail(t, nxt[t])
    /\ Goto(t, "d_head")
    /\ UNCHANGED <<freeVars, next, data, localVars, items, head>>

\* The value is read before the node is removed
DeqData(t) ==
    /\ pc[t] = "d_data"
    /\ val' = [val EXCEPT ![t] = data[nxt[t]]]
    /\ Goto(t, "d_cas")
    /\ UNCHANGED <<freeVars, next, data, known, node, lh, lt, nxt, items, head, tail>>

DeqCas(t) ==
    /\ pc[t] = "d_cas"
    /\ IF HeadSame(t)
       THEN /\ head' = nxt[t]
            /\ Bump("head")
            /\ items' = SubSeq(items, 2, Len(items))
            /\ node' = [node EXCEPT ![t] = lh[t]]
            /\ Goto(t, IF kind = "tagged_ms" THEN "p_load" ELSE "d_fix")
            /\ UNCHANGED val
       ELSE /\ Goto(t, "d_head")
            /\ val' = [val EXCEPT ![t] = None]
            /\ UNCHANGED <<head, known, items, node>>
    /\ UNCHANGED <<freeVars, next, data, lh, lt, nxt, tail>>

\* Moir's dequeue moves a tail that it has overtaken before it frees the node
DeqFix(t) ==
    /\ pc[t] = "d_fix"
    /\ lt' = [lt EXCEPT ![t] = tail]
    /\ Loads(t, "tail")
    /\ Goto(t, IF tail = lh[t] THEN "d_fix2" ELSE "p_load")
    /\ UNCHANGED <<freeVars, next, data, node, lh, nxt, val, items, head, tail>>
DeqFix2(t) ==
    /\ pc[t] = "d_fix2"
    /\ SwingTail(t, nxt[t])
    /\ Goto(t, "p_load")
    /\ UNCHANGED <<freeVars, next, data, localVars, items, head>>

-----------------------------------------------------------------------------
\* The queue is empty
QueueWatch == saw' = [t \in Thread |-> pc'[t] \in DeqPC \cup {"refused"}
                                     /\ (items' = <<>> \/ (pc[t] \in DeqPC \cup {"refused"} /\ saw[t]))]
QueueNext ==
    /\ \E t \in Thread :
          \/ (\E v \in Value : Enqueue(t, v))
          \/ EnqNull(t) \/ EnqTail(t) \/ EnqNext(t) \/ EnqCheck(t) \/ EnqLink(t) \/ EnqHelp(t) \/ EnqSwing(t)
          \/ Dequeue(t) \/ DeqHead(t) \/ DeqTail(t) \/ DeqNext(t) \/ DeqCheck(t) \/ DeqHelp(t)
          \/ DeqData(t) \/ DeqCas(t) \/ DeqFix(t) \/ DeqFix2(t)
          \/ Listing(t, "e_null") /\ UNCHANGED <<head, tail>>
    /\ QueueWatch
    /\ UNCHANGED kind

\* The nodes from m_Head on are the dummy and the items, m_Tail is one of the last
\* two (Moir: or a node that a dequeue is about to free); no node is in two places.
QueueLayout ==
    LET list == <<head>> \o items
        last == Len(list)
        walk == Chain(head, next, last + 1)
    IN  /\ \A i \in DOMAIN walk : walk[i] = IF i <= last THEN list[i] ELSE Null
        /\ \/ \E i \in DOMAIN list : tail = list[i] /\ i >= last - 1
           \/ kind = "tagged_moir" /\ \E t \in Thread : pc[t] \in FixPC /\ tail = node[t]
        /\ OnePlace({list[i] : i \in DOMAIN list},
                    [t \in Thread |-> IF pc[t] \in {"e_swing", "done"} THEN Null ELSE node[t]])

QueueOp(t) ==
    CASE pc[t] \in EnqPC -> "enq"
      [] pc[t] \in DeqPC -> "deq"
      [] pc[t] \in {"e_swing", "done"} \cup FixPC \cup FreePC -> "done"
      [] OTHER -> "idle"
QueueVal(t) == IF pc[t] \in DeqPC \cup {"refused"} THEN None ELSE val[t]
=============================================================================
