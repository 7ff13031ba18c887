------------------------------ MODULE RWQueue ------------------------------
(***************************************************************************)
(* The blocking queue with one lock for each end (cds/queue/rwqueue.h): a  *)
(* list that begins with a dummy node.  The two locks let an enqueue and a *)
(* dequeue meet at the last node.  A lock is taken in one step here.       *)
(***************************************************************************)
EXTENDS Naturals, Sequences, FiniteSets

CONSTANTS Thread, Node, Value, Null, None

VARIABLES
  head, tail, next, data,       \* m_pHead, m_pTail, and of each node m_pNext, m_data
  headLock, tailLock,           \* the thread that has m_HeadLock, m_TailLock
  unused,                       \* the memory not allocated; bound: no more nodes
  pc, node, nxt, val,           \* pNode, pNewHead, and the value
  items,                        \* history: the nodes of the items
  saw                           \* history: the queue has been empty during this call

queueVars == <<head, tail, next, data>>
lockVars == <<headLock, tailLock>>
localVars == <<node, nxt, val>>

EnqPC == {"e_lock", "e_link"}
DeqPC == {"d_lock", "d_next", "d_data", "d_move", "d_give"}
ClearPC == {"c_head", "c_tail", "c_walk"}
DonePC == {"e_tail", "e_unlock", "d_unlock", "d_free", "c_unlock", "c_unlock2", "done"}

RWTypeOK ==
    /\ head \in Node /\ tail \in Node
    /\ next \in [Node -> Node \cup {Null}] /\ data \in [Node -> Value \cup {None}]
    /\ headLock \in Thread \cup {Null} /\ tailLock \in Thread \cup {Null}
    /\ unused \subseteq Node
    /\ pc \in [Thread -> {"idle", "refused"} \cup EnqPC \cup DeqPC \cup ClearPC \cup DonePC]
    /\ node \in [Thread -> Node \cup {Null}] /\ nxt \in [Thread -> Node \cup {Null}]
    /\ val \in [Thread -> Value \cup {None}]
    /\ items \in Seq(Node) /\ saw \in [Thread -> BOOLEAN]

RWInit ==
    /\ \E dummy \in Node : head = dummy /\ tail = dummy /\ unused = Node \ {dummy}
    /\ next = [n \in Node |-> Null] /\ data = [n \in Node |-> None]
    /\ headLock = Null /\ tailLock = Null
    /\ pc = [t \in Thread |-> "idle"]
    /\ node = [t \in Thread |-> Null] /\ nxt = [t \in Thread |-> Null]
    /\ val = [t \in Thread |-> None]
    /\ items = <<>> /\ saw = [t \in Thread |-> FALSE]

Goto(t, there) == pc' = [pc EXCEPT ![t] = there]
LockHead(t, from, to) ==
    /\ pc[t] = from /\ headLock = Null /\ headLock' = t
    /\ Goto(t, to)
    /\ UNCHANGED <<queueVars, tailLock, unused, localVars, items>>
LockTail(t, from, to) ==
    /\ pc[t] = from /\ tailLock = Null /\ tailLock' = t
    /\ Goto(t, to)
    /\ UNCHANGED <<queueVars, headLock, unused, localVars, items>>
UnlockHead(t, from, to) ==
    /\ pc[t] = from /\ headLock' = Null
    /\ Goto(t, to)
    /\ UNCHANGED <<queueVars, tailLock, unused, localVars, items>>
UnlockTail(t, from, to) ==
    /\ pc[t] = from /\ tailLock' = Null
    /\ Goto(t, to)
    /\ UNCHANGED <<queueVars, headLock, unused, localVars, items>>

-----------------------------------------------------------------------------
Enqueue(t, v, n) ==
    /\ pc[t] = "idle"
    /\ n \in unused /\ unused' = unused \ {n}
    /\ next' = [next EXCEPT ![n] = Null] /\ data' = [data EXCEPT ![n] = v]
    /\ node' = [node EXCEPT ![t] = n] /\ val' = [val EXCEPT ![t] = v]
    /\ Goto(t, "e_lock")
    /\ UNCHANGED <<head, tail, lockVars, nxt, items>>

\* m_pTail = m_pTail->m_pNext = pNode: first the link, then the tail
EnqLink(t) ==
    /\ pc[t] = "e_link"
    /\ next' = [next EXCEPT ![tail] = node[t]]
    /\ items' = Append(items, node[t])
    /\ Goto(t, "e_tail")
    /\ UNCHANGED <<head, tail, data, lockVars, unused, localVars>>
EnqTail(t) ==
    /\ pc[t] = "e_tail"
    /\ tail' = node[t]
    /\ Goto(t, "e_unlock")
    /\ UNCHANGED <<head, next, data, lockVars, unused, localVars, items>>

-----------------------------------------------------------------------------
Dequeue(t) ==
    /\ pc[t] = "idle"
    /\ Goto(t, "d_lock")
    /\ UNCHANGED <<queueVars, lockVars, unused, localVars, items>>

DeqNext(t) ==
    /\ pc[t] = "d_next"
    /\ node' = [node EXCEPT ![t] = head]
    /\ nxt' = [nxt EXCEPT ![t] = next[head]]
    /\ Goto(t, IF next[head] = Null THEN "d_give" ELSE "d_data")
    /\ UNCHANGED <<queueVars, lockVars, unused, val, items>>

DeqData(t) ==
    /\ pc[t] = "d_data"
    /\ val' = [val EXCEPT ![t] = data[nxt[t]]]
    /\ Goto(t, "d_move")
    /\ UNCHANGED <<queueVars, lockVars, unused, node, nxt, items>>

DeqMove(t) ==
    /\ pc[t] = "d_move"
    /\ head' = nxt[t]
    /\ items' = Tail(items)
    /\ Goto(t, "d_unlock")
    /\ UNCHANGED <<tail, next, data, lockVars, unused, localVars>>

DeqFree(t) ==
    /\ pc[t] = "d_free"
    /\ unused' = unused \cup {node[t]}
    /\ Goto(t, "done")
    /\ UNCHANGED <<queueVars, lockVars, localVars, items>>

-----------------------------------------------------------------------------
\* clear takes both locks, so nobody sees its loop: one step frees all nodes but
\* the last.
Clear(t) ==
    /\ pc[t] = "idle"
    /\ Goto(t, "c_head")
    /\ UNCHANGED <<queueVars, lockVars, unused, localVars, items>>

ClearWalk(t) ==
    /\ pc[t] = "c_walk"
    /\ LET list == <<head>> \o items
       IN  /\ head' = list[Len(list)]
           /\ unused' = unused \cup {list[i] : i \in 1..(Len(list) - 1)}
    /\ items' = <<>>
    /\ Goto(t, "c_unlock")
    /\ UNCHANGED <<tail, next, data, lockVars, localVars>>

Leave(t) ==
    /\ pc[t] \in {"done", "refused"}
    /\ node' = [node EXCEPT ![t] = Null] /\ nxt' = [nxt EXCEPT ![t] = Null]
    /\ val' = [val EXCEPT ![t] = None]
    /\ Goto(t, "idle")
    /\ UNCHANGED <<queueVars, lockVars, unused, items>>

-----------------------------------------------------------------------------
Watch == saw' = [t \in Thread |-> pc'[t] \in DeqPC \cup {"refused"}
                                     /\ (items' = <<>> \/ (pc[t] \in DeqPC \cup {"refused"} /\ saw[t]))]
RWNext ==
    /\ \E t \in Thread :
          \/ \E v \in Value, n \in Node : Enqueue(t, v, n)
          \/ LockTail(t, "e_lock", "e_link") \/ EnqLink(t) \/ EnqTail(t)
          \/ UnlockTail(t, "e_unlock", "done")
          \/ Dequeue(t) \/ LockHead(t, "d_lock", "d_next") \/ DeqNext(t) \/ DeqData(t) \/ DeqMove(t)
          \/ UnlockHead(t, "d_unlock", "d_free") \/ UnlockHead(t, "d_give", "refused") \/ DeqFree(t)
          \/ Clear(t) \/ LockHead(t, "c_head", "c_tail") \/ LockTail(t, "c_tail", "c_walk") \/ ClearWalk(t)
          \/ UnlockTail(t, "c_unlock", "c_unlock2") \/ UnlockHead(t, "c_unlock2", "done")
          \/ Leave(t)
    /\ Watch

-----------------------------------------------------------------------------
\* The nodes from m_pHead on are the dummy and the items; m_pTail is the last, or
\* an enqueue has linked the last and is about to move it there.  No node of the
\* list is free memory, nor is one that a call will touch.
RWLayout ==
    LET list == <<head>> \o items
        last == Len(list)
    IN  /\ \A i \in 1..last : next[list[i]] = IF i = last THEN Null ELSE list[i + 1]
        /\ \A i \in 1..last : list[i] \notin unused
        /\ \A i, j \in 1..last : list[i] = list[j] => i = j
        /\ tail = list[last] \/ \E t \in Thread : pc[t] = "e_tail" /\ node[t] = list[last]
Touches(t) ==
    CASE pc[t] = "e_link" -> {tail} [] pc[t] = "d_next" -> {head} [] pc[t] = "d_data" -> {nxt[t]} [] OTHER -> {}
RWNoRace == \A t \in Thread : Touches(t) \cap unused = {}

RWOp(t) ==
    CASE pc[t] \in EnqPC -> "enq"
      [] pc[t] \in DeqPC -> "deq"
      [] pc[t] \in ClearPC -> "clear"
      [] pc[t] \in DonePC -> "done"
      [] OTHER -> "idle"
RWVal(t) == IF pc[t] \in DeqPC \cup ClearPC \cup {"refused"} THEN None ELSE val[t]
=============================================================================
