------------------------------ MODULE MSQueue ------------------------------
(***************************************************************************)
(* The Michael-Scott queue over guards that protect nodes from reclamation *)
(* (cds/queue/details/msqueue_hp_impl.h, for gc::hzp and gc::ptb), and the *)
(* steps the other containers over guards share with it.                   *)
(*                                                                         *)
(* A singly linked list from m_pHead, whose first node is a dummy, to      *)
(* m_pTail, which may lag one node behind the last.  The reclaimer is the  *)
(* abstract one of Reclamation: it may free a retired node whenever no     *)
(* guard has held it since it was retired.  Guard stores are sequentially  *)
(* consistent here (HazardPointers says what happens when they are not).   *)
(***************************************************************************)
EXTENDS Naturals, Sequences, FiniteSets

CONSTANTS Thread, Node, Value,
          Null,         \* the null pointer
          None,         \* no value
          CountSize     \* m_ItemCounter counts modulo CountSize (2^64 in the code)

ASSUME NullAssumption == Null \notin Node
ASSUME NoneAssumption == None \notin Value
ASSUME CountAssumption == CountSize \in Nat \ {0}

Guards == 0..4         \* the guards an operation has at most (OptimisticQueue)
Slot == Thread \X Guards

VARIABLES
  head, tail,   \* m_pHead, m_pTail
  next, data,   \* m_pNext and m_data of each node
  count,        \* m_ItemCounter
  status, hz, using, blockers,  \* see Reclamation
  pc,
  node,         \* enqueue: pNew
  lt, lh, nxt,  \* the locals t, h and pNext
  val,          \* enqueue: the argument; dequeue: the value read
  items,        \* history: the nodes of the items, the next to leave first
  saw           \* history: during this dequeue of t, the queue has been empty

R == INSTANCE Reclamation

queueVars == <<head, tail, next, data>>
reclaimVars == <<status, hz, using, blockers>>
localVars == <<node, lt, lh, nxt, val>>
vars == <<queueVars, reclaimVars, localVars, count, pc, items, saw>>

EnqPC == {"e_load", "e_guard", "e_check", "e_next", "e_help", "e_link", "e_count", "e_swing"}
DeqPC == {"d_load", "d_guard", "d_check", "d_tail", "d_next", "d_guard2", "d_recheck",
          "d_help", "d_cas", "d_fix", "d_fix2", "d_data", "d_count", "d_retire"}

NodeTypeOK ==
    /\ {head, tail} \subseteq Node \cup {Null}
    /\ next \in [Node -> Node \cup {Null}]
    /\ data \in [Node -> Value \cup {None}]
    /\ count \in 0..(CountSize - 1)
    /\ R!RTypeOK
    /\ \A v \in {node, lt, lh, nxt} : v \in [Thread -> Node \cup {Null}]
    /\ val \in [Thread -> Value \cup {None}]
    /\ items \in Seq(Node)
    /\ saw \in [Thread -> BOOLEAN]

\* An object that starts with one node, or (Null) with none
InitWith(first) ==
    /\ head = first /\ tail = first
    /\ next = [n \in Node |-> Null]
    /\ data = [n \in Node |-> None]
    /\ count = 0
    /\ status = [n \in Node |-> IF n = first THEN "linked" ELSE "free"]
    /\ hz = [s \in Slot |-> Null]
    /\ using = [s \in Slot |-> Null]
    /\ blockers = [n \in Node |-> {}]
    /\ pc = [t \in Thread |-> "idle"]
    /\ node = [t \in Thread |-> Null]
    /\ lt = [t \in Thread |-> Null]
    /\ lh = [t \in Thread |-> Null]
    /\ nxt = [t \in Thread |-> Null]
    /\ val = [t \in Thread |-> None]
    /\ saw = [t \in Thread |-> FALSE]

\* The queue starts with a dummy
MSInit == \E dummy \in Node : InitWith(dummy) /\ items = <<>>

Goto(t, there) == pc' = [pc EXCEPT ![t] = there]

\* A link of type atomic<node*> is changed by compare-and-swap
AdvanceTail_Store(from, to) == tail' = to                         \* mutant
AdvanceTail(from, to) == tail' = IF tail = from THEN to ELSE tail

-----------------------------------------------------------------------------
(* enqueue *)

Enqueue(t, v, n) ==
    /\ pc[t] = "idle"
    /\ R!Allocate(n)
    /\ next' = [next EXCEPT ![n] = Null]
    /\ data' = [data EXCEPT ![n] = v]
    /\ node' = [node EXCEPT ![t] = n]
    /\ val' = [val EXCEPT ![t] = v]
    /\ Goto(t, "e_load")
    /\ UNCHANGED <<head, tail, lt, lh, nxt, count, items>>

EnqLoad(t) ==
    /\ pc[t] = "e_load"
    /\ lt' = [lt EXCEPT ![t] = tail]
    /\ Goto(t, "e_guard")
    /\ UNCHANGED <<queueVars, reclaimVars, node, lh, nxt, val, count, items>>

EnqGuard(t) ==
    /\ pc[t] = "e_guard"
    /\ R!SetSlot(<<t, 0>>, lt[t])
    /\ Goto(t, "e_check")
    /\ UNCHANGED <<queueVars, localVars, count, items>>

TailUnmoved_NoRecheck(t) == TRUE                                  \* mutant
TailUnmoved(t) == tail = lt[t]
EnqCheck(t) ==
    /\ pc[t] = "e_check"
    /\ IF TailUnmoved(t)
       THEN R!Use(<<t, 0>>) /\ Goto(t, "e_next")
       ELSE UNCHANGED reclaimVars /\ Goto(t, "e_load")
    /\ UNCHANGED <<queueVars, localVars, count, items>>

TailLags_Always(t) == TRUE                                        \* mutant
TailLags(t) == next[lt[t]] # Null
EnqNext(t) ==
    /\ pc[t] = "e_next"
    /\ nxt' = [nxt EXCEPT ![t] = next[lt[t]]]
    /\ Goto(t, IF TailLags(t) THEN "e_help" ELSE "e_link")
    /\ UNCHANGED <<queueVars, reclaimVars, node, lt, lh, val, count, items>>

EnqHelp_NoCas(t) ==                                               \* mutant
    /\ pc[t] = "e_help"
    /\ Goto(t, "e_load")
    /\ UNCHANGED <<queueVars, reclaimVars, localVars, count, items>>
EnqHelp(t) ==
    /\ pc[t] = "e_help"
    /\ AdvanceTail(lt[t], nxt[t])
    /\ Goto(t, "e_load")
    /\ UNCHANGED <<head, next, data, reclaimVars, localVars, count, items>>

EnqLink(t) ==
    /\ pc[t] = "e_link"
    /\ IF next[lt[t]] = Null
       THEN /\ next' = [next EXCEPT ![lt[t]] = node[t]]
            /\ items' = Append(items, node[t])
            /\ Goto(t, "e_count")
       ELSE /\ Goto(t, "e_load")
            /\ UNCHANGED <<next, items>>
    /\ UNCHANGED <<head, tail, data, reclaimVars, localVars, count>>

EnqCount(t, there) ==
    /\ pc[t] = "e_count"
    /\ count' = (count + 1) % CountSize
    /\ Goto(t, there)
    /\ UNCHANGED <<queueVars, reclaimVars, localVars, items>>

EnqSwing(t) ==
    /\ pc[t] = "e_swing"
    /\ AdvanceTail(lt[t], node[t])
    /\ Goto(t, "leave")
    /\ UNCHANGED <<head, next, data, reclaimVars, localVars, count, items>>

-----------------------------------------------------------------------------
(* dequeue *)

Dequeue(t) ==
    /\ pc[t] = "idle"
    /\ Goto(t, "d_load")
    /\ UNCHANGED <<queueVars, reclaimVars, localVars, count, items>>

\* What an earlier attempt has read does not matter any more.
DeqLoad(t) ==
    /\ pc[t] = "d_load"
    /\ lh' = [lh EXCEPT ![t] = head]
    /\ lt' = [lt EXCEPT ![t] = Null]
    /\ nxt' = [nxt EXCEPT ![t] = Null]
    /\ Goto(t, "d_guard")
    /\ UNCHANGED <<queueVars, reclaimVars, node, val, count, items>>

DeqGuard(t, there) ==
    /\ pc[t] = "d_guard"
    /\ R!SetSlot(<<t, 0>>, lh[t])
    /\ Goto(t, there)
    /\ UNCHANGED <<queueVars, localVars, count, items>>

HeadUnmoved_NoRecheck(t) == TRUE                                  \* mutant
HeadUnmoved(t) == head = lh[t]
\* The next step of a dequeue whose first guard is set: MoirQueue skips the tail
DeqCheck(t, there) ==
    /\ pc[t] = "d_check"
    /\ IF HeadUnmoved(t)
       THEN R!Use(<<t, 0>>) /\ Goto(t, there)
       ELSE UNCHANGED reclaimVars /\ Goto(t, "d_load")
    /\ UNCHANGED <<queueVars, localVars, count, items>>

DeqTail(t) ==
    /\ pc[t] = "d_tail"
    /\ lt' = [lt EXCEPT ![t] = tail]
    /\ Goto(t, "d_next")
    /\ UNCHANGED <<queueVars, reclaimVars, node, lh, nxt, val, count, items>>

DeqNext(t, there) ==
    /\ pc[t] = "d_next"
    /\ nxt' = [nxt EXCEPT ![t] = next[lh[t]]]
    /\ Goto(t, there)
    /\ UNCHANGED <<queueVars, reclaimVars, node, lt, lh, val, count, items>>

DeqGuard2(t) ==
    /\ pc[t] = "d_guard2"
    /\ R!SetSlot(<<t, 1>>, nxt[t])
    /\ Goto(t, "d_recheck")
    /\ UNCHANGED <<queueVars, localVars, count, items>>

\* dequeue gives up on an empty queue, helps a lagging tail, or goes on
Helps(t) == lh[t] = lt[t]
DeqRecheck(t) ==
    /\ pc[t] = "d_recheck"
    /\ IF HeadUnmoved(t)
       THEN /\ R!Use(<<t, 1>>)
            /\ Goto(t, IF nxt[t] = Null THEN "leave"
                       ELSE IF Helps(t) THEN "d_help" ELSE "d_cas")
       ELSE /\ Goto(t, "d_load")
            /\ UNCHANGED reclaimVars
    /\ UNCHANGED <<queueVars, localVars, count, items>>

DeqHelp(t) ==
    /\ pc[t] = "d_help"
    /\ AdvanceTail(lt[t], nxt[t])
    /\ Goto(t, "d_load")
    /\ UNCHANGED <<head, next, data, reclaimVars, localVars, count, items>>

DeqCas(t, there) ==
    /\ pc[t] = "d_cas"
    /\ IF HeadUnmoved(t)
       THEN /\ head' = nxt[t]
            /\ items' = SubSeq(items, 2, Len(items))
            /\ R!SetStatus(lh[t], "unlinked")
            /\ Goto(t, there)
       ELSE /\ Goto(t, "d_load")
            /\ UNCHANGED <<head, items, reclaimVars>>
    /\ UNCHANGED <<tail, next, data, localVars, count>>

\* The value is in the new dummy, or in the node removed
DeqData(t, n, there) ==
    /\ pc[t] = "d_data"
    /\ val' = [val EXCEPT ![t] = data[n]]
    /\ Goto(t, there)
    /\ UNCHANGED <<queueVars, reclaimVars, node, lt, lh, nxt, count, items>>

DeqCount(t) ==
    /\ pc[t] = "d_count"
    /\ count' = (count + CountSize - 1) % CountSize
    /\ Goto(t, "d_retire")
    /\ UNCHANGED <<queueVars, reclaimVars, localVars, items>>

DeqRetire(t, there) ==
    /\ pc[t] = "d_retire"
    /\ R!HandOver(lh[t])
    /\ Goto(t, there)
    /\ UNCHANGED <<queueVars, localVars, count, items>>

-----------------------------------------------------------------------------
\* Any operation returns, or throws: its guards are destroyed
Leave(t) ==
    /\ pc[t] \in {"leave", "c_leave", "throw"}
    /\ R!Release({t} \X Guards)
    /\ node' = [node EXCEPT ![t] = Null]
    /\ lt' = [lt EXCEPT ![t] = Null]
    /\ lh' = [lh EXCEPT ![t] = Null]
    /\ nxt' = [nxt EXCEPT ![t] = Null]
    /\ val' = [val EXCEPT ![t] = None]
    /\ Goto(t, "idle")
    /\ UNCHANGED <<queueVars, count, items>>

\* The reclaimer frees a retired node; what it holds means nothing from then on
Reclaim(n) ==
    /\ R!Free({n})
    /\ next' = [next EXCEPT ![n] = Null]
    /\ data' = [data EXCEPT ![n] = None]
    /\ UNCHANGED <<head, tail, localVars, count, pc, items>>

-----------------------------------------------------------------------------
Call(t) ==
    \/ \E v \in Value, n \in Node : Enqueue(t, v, n)
    \/ Dequeue(t)
Enqueueing(t) ==
    \/ EnqLoad(t) \/ EnqGuard(t) \/ EnqCheck(t) \/ EnqNext(t) \/ EnqHelp(t)
    \/ EnqLink(t) \/ EnqCount(t, "e_swing") \/ EnqSwing(t)
Dequeueing(t) ==
    \/ DeqLoad(t) \/ DeqGuard(t, "d_check") \/ DeqCheck(t, "d_tail") \/ DeqTail(t)
    \/ DeqNext(t, "d_guard2") \/ DeqGuard2(t) \/ DeqRecheck(t) \/ DeqHelp(t)
    \/ DeqCas(t, "d_data") \/ DeqData(t, nxt[t], "d_count") \/ DeqCount(t)
    \/ DeqRetire(t, "leave")
MSWorking(t) == Enqueueing(t) \/ Dequeueing(t) \/ Leave(t)

-----------------------------------------------------------------------------
(* The shape of the list *)

\* The nodes from m_pHead on are the dummy and the items, in the order of their
\* enqueues, ending in null.
Chain == <<head>> \o items
ChainOK ==
    LET last == Len(Chain)
    IN  /\ \A i \in 1..last : status[Chain[i]] = "linked"
        /\ \A i \in 1..last : next[Chain[i]] = IF i = last THEN Null ELSE Chain[i + 1]
        /\ \A i, j \in 1..last : Chain[i] = Chain[j] => i = j

\* m_pTail is the last node or the last but one.
TailInChain == \E i \in DOMAIN Chain : tail = Chain[i] /\ i >= Len(Chain) - 1

=============================================================================
