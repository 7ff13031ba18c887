-------------------------- MODULE HPQueues_proofs --------------------------
(***************************************************************************)
(* Proofs about MSQueue, MoirQueue and the stack over guards, for every    *)
(* number of threads, nodes and values: they keep the reclamation          *)
(* contract, so that no operation touches a freed node; their lists stay   *)
(* well formed; and they implement the abstract queue, or stack.           *)
(***************************************************************************)
EXTENDS HPQueues, FiniteSetTheorems, SequenceTheorems, TLAPS

Proved == {"ms", "moir", "stack"}

(* The guards of a thread *)

H(t, i) == hz[<<t, i>>]
U(t, i) == using[<<t, i>>]

\* The guards of different threads, and different guards of a thread, are different slots.
LEMMA Slots ==
  /\ \A t \in Thread, i \in Guards : <<t, i>> \in Slot
  /\ \A t, u, i, j : <<t, i>> = <<u, j>> <=> t = u /\ i = j
  /\ \A t \in Thread, u, i \in Guards : <<u, i>> \in {t} \X Guards <=> u = t
  /\ 0 \in Guards /\ 1 \in Guards
<1>1. \A t \in Thread, i \in Guards : <<t, i>> \in Slot
  BY DEF Slot
<1>2. 0 \in Guards /\ 1 \in Guards
  BY DEF Guards
<1> QED BY <1>1, <1>2

\* What the steps of the contract do to the guards of each thread
LEMMA SlotIsSet ==
  ASSUME R!RTypeOK, NEW t \in Thread, NEW i \in Guards, NEW p \in Node \cup {Null}, R!SetSlot(<<t, i>>, p)
  PROVE  /\ \A u \in Thread, j \in Guards : /\ H(u, j)' = IF u = t /\ j = i THEN p ELSE H(u, j)
                                            /\ U(u, j)' = IF u = t /\ j = i THEN Null ELSE U(u, j)
         /\ status' = status
BY Slots DEF R!SetSlot, R!RTypeOK, H, U

LEMMA SlotIsUsed ==
  ASSUME R!RTypeOK, NEW t \in Thread, NEW i \in Guards, R!Use(<<t, i>>)
  PROVE  /\ \A u \in Thread, j \in Guards : /\ H(u, j)' = H(u, j)
                                            /\ U(u, j)' = IF u = t /\ j = i THEN H(t, i) ELSE U(u, j)
         /\ status' = status
BY Slots DEF R!Use, R!RTypeOK, H, U

LEMMA SlotsReleased ==
  ASSUME R!RTypeOK, NEW t \in Thread, R!Release({t} \X Guards)
  PROVE  /\ \A u \in Thread, j \in Guards : u # t => H(u, j)' = H(u, j) /\ U(u, j)' = U(u, j)
         /\ status' = status
BY Slots DEF R!Release, R!RTypeOK, H, U

LEMMA SlotsKept ==
  ASSUME UNCHANGED <<hz, using>>
  PROVE  \A u, j : H(u, j)' = H(u, j) /\ U(u, j)' = U(u, j)
BY DEF H, U

\* A node read through a guard is not free, and not free to be freed.
LEMMA UsedIsSafe ==
  ASSUME R!RTypeOK, R!RInv, NEW t \in Thread, NEW i \in Guards, U(t, i) \in Node
  PROVE  /\ status[U(t, i)] # "free" /\ H(t, i) = U(t, i)
         /\ status[U(t, i)] = "retired" => blockers[U(t, i)] # {}
BY Slots DEF R!RInv, R!RTypeOK, U, H

\* The end of an operation releases the guards that hold something.
LEMMA ReleaseOwn ==
  ASSUME R!RGood, NEW t \in Thread, R!Release({t} \X Guards)
  PROVE  R!RNext
<1>1. {t} \X Guards \in SUBSET Slot
  BY DEF Slot
<1> QED BY <1>1, NullAssumption, R!ReleaseAny

\* What a thread may do to a slot of its own
LEMMA SetOwn ==
  ASSUME NEW t \in Thread, NEW i \in Guards, NEW p \in Node \cup {Null}, R!SetSlot(<<t, i>>, p)
  PROVE  R!RNext
BY Slots DEF R!RNext

LEMMA UseOwn ==
  ASSUME NEW t \in Thread, NEW i \in Guards, R!Use(<<t, i>>),
         H(t, i) \in Node => status[H(t, i)] \in {"linked", "unlinked"}
  PROVE  R!RNext
BY Slots DEF R!RNext, R!Confirm, R!Protected, H

-----------------------------------------------------------------------------
(* The queues: what is where *)

\* The first node is the dummy.
At(i) == IF i = 0 THEN head ELSE items[i]
OnList(n) == \E i \in 0..Len(items) : At(i) = n

QPC == {"idle", "leave"} \cup EnqPC
       \cup (DeqPC \ (IF kind = "ms" THEN {"d_fix", "d_fix2"} ELSE {"d_tail", "d_help"}))
QTyped ==
    /\ NodeTypeOK /\ NoLms /\ kind \in {"ms", "moir"}
    /\ head \in Node /\ tail \in Node
    /\ pc \in [Thread -> QPC]

QChain ==
    /\ \A i \in 0..Len(items) : status[At(i)] = "linked"
                                /\ next[At(i)] = IF i = Len(items) THEN Null ELSE At(i + 1)
    /\ \A i, j \in 0..Len(items) : At(i) = At(j) => i = j
\* The tail is the last node or the one before it; of a MoirQueue it may be the node that
\* the head has just left.
QTail ==
    \/ tail = At(Len(items))
    \/ Len(items) > 0 /\ tail = At(Len(items) - 1)
    \/ kind = "moir" /\ items = <<>> /\ next[tail] = head /\ status[tail] = "unlinked"
\* A node that has left the list still leads to the one behind it, so that nothing is linked to it.
Gone(n) == status[n] \in {"unlinked", "retired"}
QGone == \A n \in Node : Gone(n) => next[n] # Null

\* A node not linked yet, and one already unlinked, is in the hands of one thread.
MakingPC == {"e_load", "e_guard", "e_check", "e_next", "e_help", "e_link"}
TakingPC == {"d_fix", "d_fix2", "d_data", "d_count", "d_retire"}
QOwn(t) ==
    /\ pc[t] \in MakingPC => /\ node[t] \in Node /\ status[node[t]] = "linked"
                             /\ next[node[t]] = Null /\ ~OnList(node[t])
    /\ pc[t] \in TakingPC => lh[t] \in Node /\ status[lh[t]] = "unlinked"
QApart ==
    \A t, u \in Thread : t # u => /\ pc[t] \in MakingPC /\ pc[u] \in MakingPC => node[t] # node[u]
                                  /\ pc[t] \in TakingPC /\ pc[u] \in TakingPC => lh[t] # lh[u]

\* What an enqueue knows of the nodes it has read
QEnq(t) ==
    /\ pc[t] \in {"e_guard", "e_check"} => lt[t] \in Node
    /\ pc[t] = "e_check" => H(t, 0) = lt[t]
    /\ pc[t] \in {"e_next", "e_help", "e_link", "e_count", "e_swing"} => lt[t] \in Node /\ U(t, 0) = lt[t]
    /\ pc[t] \in {"e_next", "e_link"} => (next[lt[t]] = Null => lt[t] = tail)
    /\ pc[t] = "e_help" => nxt[t] # Null /\ next[lt[t]] = nxt[t]
    /\ pc[t] \in {"e_count", "e_swing"} => node[t] \in Node /\ next[lt[t]] = node[t]

\* What a dequeue knows: it holds the node that was the head, and nothing comes back to the head or
\* to the tail.
HoldPC == {"d_tail", "d_next", "d_guard2", "d_recheck", "d_help", "d_cas"}
KnowPC == {"d_guard2", "d_recheck", "d_help", "d_cas", "d_fix", "d_fix2"}
QDeq(t) ==
    /\ pc[t] \in {"d_guard", "d_check"} => lh[t] \in Node
    /\ pc[t] = "d_check" => H(t, 0) = lh[t]
    /\ pc[t] \in HoldPC => lh[t] \in Node /\ U(t, 0) = lh[t] /\ (lh[t] = head \/ Gone(lh[t]))
    /\ pc[t] \in KnowPC => (nxt[t] # Null => next[lh[t]] = nxt[t])
    /\ pc[t] = "d_recheck" => H(t, 1) = nxt[t]
    /\ pc[t] \in {"d_help", "d_cas", "d_fix", "d_fix2", "d_data"} => nxt[t] \in Node /\ U(t, 1) = nxt[t]
    /\ kind = "ms" => /\ pc[t] = "d_help" => lt[t] = lh[t]
                      /\ pc[t] \in {"d_next", "d_guard2", "d_recheck"} => (lt[t] # lh[t] => tail # lh[t])
                      /\ pc[t] = "d_cas" => tail # lh[t]
    /\ kind = "moir" => /\ pc[t] = "d_fix2" => lt[t] = lh[t]
                        /\ pc[t] \in {"d_data", "d_count", "d_retire"} => lh[t] # tail

QKnow(t) == QOwn(t) /\ QEnq(t) /\ QDeq(t)
QInv ==
    /\ QTyped /\ R!RGood /\ QChain /\ QTail /\ QGone /\ QApart
    /\ \A t \in Thread : QKnow(t)

QStep(t) ==
    \/ Call(t)
    \/ Enqueueing(t)
    \/ kind = "ms" /\ Dequeueing(t)
    \/ kind = "moir" /\ MoirDequeueing(t)
    \/ Leave(t)
QMove ==
    /\ (\E t \in Thread : QStep(t)) \/ (\E n \in Node : Reclaim(n))
    /\ UNCHANGED <<lmsVars, kind>> /\ Watch

\* The list in terms of its nodes
LEMMA QList ==
  ASSUME QInv
  PROVE  /\ Len(items) \in Nat /\ items \in Seq(Node) /\ head \in Node /\ At(0) = head
         /\ \A i \in 0..Len(items) : At(i) \in Node
         /\ \A i \in 1..Len(items) : At(i) = items[i]
         /\ \A t \in Thread : ~ Gone(head) /\ ~ (pc[t] \in TakingPC /\ lh[t] = head)
         /\ next[tail] = Null => tail = At(Len(items))
         /\ next[tail] # Null => next[tail] = At(Len(items)) /\ next[tail] \in Node /\ status[next[tail]] = "linked"
         /\ next[tail] # Null /\ kind = "ms" => Len(items) > 0 /\ next[tail] # head
         /\ items = <<>> <=> next[head] = Null
         /\ items = <<>> <=> Len(items) = 0
<1>1. Len(items) \in Nat /\ items \in Seq(Node) /\ head \in Node /\ tail \in Node /\ At(0) = head
      /\ (items = <<>> <=> Len(items) = 0)
  BY DEF QInv, QTyped, NodeTypeOK, At
<1>2. \A i \in 1..Len(items) : At(i) = items[i] /\ items[i] \in Node
  BY <1>1 DEF At
<1>3. \A i \in 0..Len(items) : At(i) \in Node
  BY <1>1, <1>2
<1>4. /\ \A i \in 0..Len(items) : status[At(i)] = "linked"
                                  /\ next[At(i)] = IF i = Len(items) THEN Null ELSE At(i + 1)
      /\ \A i, j \in 0..Len(items) : At(i) = At(j) => i = j
  BY DEF QInv, QChain
<1>5. status[head] = "linked"
  BY <1>1, <1>4
<1>6. \A t \in Thread : ~ Gone(head) /\ ~ (pc[t] \in TakingPC /\ lh[t] = head)
  BY <1>5 DEF Gone, QInv, QKnow, QOwn
<1>7. /\ next[tail] = Null => tail = At(Len(items))
      /\ next[tail] # Null => next[tail] = At(Len(items)) /\ next[tail] \in Node /\ status[next[tail]] = "linked"
      /\ next[tail] # Null /\ kind = "ms" => Len(items) > 0 /\ next[tail] # head
  <2>1. CASE tail = At(Len(items))
    BY <1>1, <1>4, <2>1
  <2>2. CASE Len(items) > 0 /\ tail = At(Len(items) - 1)
    <3>1. next[tail] = At(Len(items)) /\ At(Len(items)) \in Node /\ At(Len(items)) # At(0)
      BY <1>1, <1>3, <1>4, <2>2
    <3> QED BY <1>1, <1>4, <2>2, <3>1, NullAssumption
  <2>3. CASE kind = "moir" /\ items = <<>> /\ next[tail] = head /\ status[tail] = "unlinked"
    BY <1>1, <1>5, <2>3, NullAssumption
  <2> QED BY <2>1, <2>2, <2>3 DEF QInv, QTail
<1>8. items = <<>> <=> next[head] = Null
  BY <1>1, <1>3, <1>4, NullAssumption
<1> QED BY <1>1, <1>2, <1>3, <1>6, <1>7, <1>8

\* Each step of the queues, one after the other
LEMMA QSteps ==
  ASSUME NEW t \in Thread, QStep(t), kind \in {"ms", "moir"}
  PROVE  \/ \E v \in Value, n \in Node : Enqueue(t, v, n)
         \/ EnqLoad(t) \/ EnqGuard(t) \/ EnqCheck(t) \/ EnqNext(t)
         \/ EnqHelp(t) \/ EnqLink(t) \/ EnqCount(t, "e_swing") \/ EnqSwing(t)
         \/ Dequeue(t) \/ DeqLoad(t) \/ DeqGuard(t, "d_check")
         \/ (kind = "ms" /\ DeqCheck(t, "d_tail")) \/ (kind = "moir" /\ DeqCheck(t, "d_next"))
         \/ (kind = "ms" /\ DeqTail(t)) \/ DeqNext(t, "d_guard2") \/ DeqGuard2(t)
         \/ (kind = "ms" /\ DeqRecheck(t)) \/ (kind = "moir" /\ MoirRecheck(t))
         \/ (kind = "ms" /\ DeqHelp(t)) \/ (kind = "ms" /\ DeqCas(t, "d_data")) \/ (kind = "moir" /\ DeqCas(t, "d_fix"))
         \/ (kind = "moir" /\ MoirTail(t)) \/ (kind = "moir" /\ MoirFix(t))
         \/ DeqData(t, nxt[t], "d_count") \/ DeqCount(t) \/ DeqRetire(t, "leave") \/ Leave(t)
<1>1. CASE Call(t) \/ Leave(t)
  BY <1>1 DEF Call
<1>2. CASE Enqueueing(t)
  BY <1>2 DEF Enqueueing
<1>3. CASE kind = "ms" /\ Dequeueing(t)
  BY <1>3 DEF Dequeueing
<1>4. CASE kind = "moir" /\ MoirDequeueing(t)
  BY <1>4 DEF MoirDequeueing
<1> QED BY <1>1, <1>2, <1>3, <1>4 DEF QStep

\* Every step keeps the types, and the program counters to those of the class.
LEMMA QTypeStep ==
  ASSUME QInv, QMove, R!RTypeOK'
  PROVE  QTyped'
<1>1. /\ kind' = kind /\ lmsVars' = lmsVars /\ saw' \in [Thread -> BOOLEAN] /\ kind \in {"ms", "moir"}
      /\ QTyped /\ NodeTypeOK /\ CountSize \in Nat \ {0} /\ NoLms'
  BY CountAssumption DEF QMove, QInv, QTyped, Watch, NoLms, lmsVars, Deciding
<1> DEFINE Rest == /\ {head', tail'} \subseteq Node
                   /\ next' \in [Node -> Node \cup {Null}]
                   /\ data' \in [Node -> Value \cup {None}]
                   /\ count' \in 0..(CountSize - 1)
                   /\ \A v \in {node', lt', lh', nxt'} : v \in [Thread -> Node \cup {Null}]
                   /\ val' \in [Thread -> Value \cup {None}]
                   /\ items' \in Seq(Node)
                   /\ pc' \in [Thread -> QPC]
<1>2. Rest => QTyped'
  BY <1>1 DEF QTyped, NodeTypeOK, QPC
<1> USE <1>1 DEF QTyped, NodeTypeOK, QPC, queueVars, localVars, reclaimVars, Goto, EnqPC, DeqPC
<1>3. ASSUME NEW n \in Node, Reclaim(n) PROVE Rest
  BY <1>3 DEF Reclaim
<1>4. ASSUME NEW t \in Thread, QStep(t) PROVE Rest
  <2>1. CASE \E v \in Value, n \in Node : Enqueue(t, v, n)
    BY <2>1 DEF Enqueue
  <2>2. CASE EnqLoad(t)
    BY <2>2 DEF EnqLoad
  <2>3. CASE EnqGuard(t)
    BY <2>3 DEF EnqGuard
  <2>4. CASE EnqCheck(t)
    BY <2>4 DEF EnqCheck
  <2>5. CASE EnqNext(t)
    <3>1. lt[t] \in Node
      BY <2>5 DEF EnqNext, QInv, QKnow, QEnq
    <3> QED BY <2>5, <3>1 DEF EnqNext
  <2>6. CASE EnqHelp(t)
    BY <2>6 DEF EnqHelp, AdvanceTail, QInv, QKnow, QEnq
  <2>7. CASE EnqLink(t)
    <3>1. node[t] \in Node
      BY <2>7 DEF EnqLink, QInv, QKnow, QOwn, MakingPC
    <3>2. Append(items, node[t]) \in Seq(Node)
      BY <3>1
    <3>3. next' \in [Node -> Node \cup {Null}]
      <4>1. next \in [Node -> Node \cup {Null}]
        OBVIOUS
      <4>2. next' = next \/ next' = [next EXCEPT ![lt[t]] = node[t]]
        BY <2>7 DEF EnqLink
      <4> QED BY ONLY <3>1, <4>1, <4>2
    <3>4. items' \in Seq(Node)
      BY <2>7, <3>2 DEF EnqLink
    <3>5. pc' \in [Thread -> QPC]
      BY <2>7 DEF EnqLink
    <3> QED BY <2>7, <3>3, <3>4, <3>5 DEF EnqLink
  <2>8. CASE EnqCount(t, "e_swing")
    <3>1. (count + 1) % CountSize \in 0..(CountSize - 1)
      OBVIOUS
    <3> QED BY <2>8, <3>1 DEF EnqCount
  <2>9. CASE EnqSwing(t)
    BY <2>9 DEF EnqSwing, AdvanceTail, QInv, QKnow, QEnq
  <2>10. CASE Dequeue(t)
    BY <2>10 DEF Dequeue
  <2>11. CASE DeqLoad(t)
    BY <2>11 DEF DeqLoad
  <2>12. CASE DeqGuard(t, "d_check")
    BY <2>12 DEF DeqGuard
  <2>13. CASE DeqGuard2(t)
    BY <2>13 DEF DeqGuard2
  <2>14. CASE DeqNext(t, "d_guard2")
    <3>1. lh[t] \in Node
      BY <2>14 DEF DeqNext, QInv, QKnow, QDeq, HoldPC
    <3> QED BY <2>14, <3>1 DEF DeqNext
  <2>15. CASE (kind = "ms" /\ DeqCheck(t, "d_tail")) \/ (kind = "moir" /\ DeqCheck(t, "d_next"))
    BY <2>15 DEF DeqCheck
  <2>16. CASE kind = "ms" /\ DeqTail(t)
    BY <2>16 DEF DeqTail
  <2>17. CASE kind = "ms" /\ DeqRecheck(t)
    BY <2>17 DEF DeqRecheck
  <2>18. CASE kind = "moir" /\ MoirRecheck(t)
    BY <2>18 DEF MoirRecheck
  <2>19. CASE kind = "ms" /\ DeqHelp(t)
    BY <2>19 DEF DeqHelp, AdvanceTail, QInv, QKnow, QDeq
  <2>20. CASE (kind = "ms" /\ DeqCas(t, "d_data")) \/ (kind = "moir" /\ DeqCas(t, "d_fix"))
    <3>1. nxt[t] \in Node
      BY <2>20 DEF DeqCas, QInv, QKnow, QDeq
    <3>2. SubSeq(items, 2, Len(items)) \in Seq(Node)
      OBVIOUS
    <3>3. head' \in Node /\ items' \in Seq(Node)
      BY <2>20, <3>1, <3>2 DEF DeqCas
    <3>4. pc' \in [Thread -> QPC]
      BY <2>20 DEF DeqCas
    <3> QED BY <2>20, <3>3, <3>4 DEF DeqCas
  <2>21. CASE (kind = "moir" /\ MoirTail(t)) \/ (kind = "moir" /\ MoirFix(t))
    <3>1. MoirFix(t) => nxt[t] \in Node
      BY DEF MoirFix, QInv, QKnow, QDeq
    <3> QED BY <2>21, <3>1 DEF MoirTail, MoirFix, AdvanceTail
  <2>22. CASE DeqData(t, nxt[t], "d_count")
    <3>1. nxt[t] \in Node
      BY <2>22 DEF DeqData, QInv, QKnow, QDeq
    <3> QED BY <2>22, <3>1 DEF DeqData
  <2>23. CASE DeqCount(t)
    <3>1. (count + CountSize - 1) % CountSize \in 0..(CountSize - 1)
      OBVIOUS
    <3> QED BY <2>23, <3>1 DEF DeqCount
  <2>24. CASE DeqRetire(t, "leave")
    BY <2>24 DEF DeqRetire
  <2>25. CASE Leave(t)
    BY <2>25 DEF Leave
  <2> HIDE DEF QTyped, NodeTypeOK, Rest
  <2> QED BY <1>4, <2>1, <2>2, <2>3, <2>4, <2>5, <2>6, <2>7, <2>8, <2>9, <2>10, <2>11, <2>12, <2>13, <2>14, <2>15,
             <2>16, <2>17, <2>18, <2>19, <2>20, <2>21, <2>22, <2>23, <2>24, <2>25, QSteps
<1> QED BY <1>2, <1>3, <1>4 DEF QMove

\* Every step of the queues keeps the reclamation contract: a guard is used only for a node that was
\* still to be reached after the guard was set, and each node is handed over once.
LEMMA QContract ==
  ASSUME QInv, QMove
  PROVE  R!RNext \/ UNCHANGED <<status, hz, using, blockers>>
<1>1. /\ R!RGood /\ R!RTypeOK /\ kind \in {"ms", "moir"} /\ tail \in Node /\ status[tail] \in {"linked", "unlinked"}
      /\ head \in Node /\ status[head] = "linked"
      /\ \A t \in Thread : QKnow(t)
      /\ \A v \in {node, lt, lh, nxt} : v \in [Thread -> Node \cup {Null}]
  <2>1. status[head] = "linked" /\ \A i \in 0..Len(items) : status[At(i)] = "linked"
    BY QList DEF QInv, QChain
  <2> QED BY <2>1, QList DEF QInv, QTyped, NodeTypeOK, R!RGood, QTail
<1>2. ASSUME NEW n \in Node, Reclaim(n) PROVE R!RNext
  BY <1>2 DEF Reclaim, R!RNext
<1>3. ASSUME NEW t \in Thread, QStep(t) PROVE R!RNext \/ UNCHANGED <<status, hz, using, blockers>>
  <2>1. CASE \E v \in Value, n \in Node : Enqueue(t, v, n)
    BY <2>1 DEF Enqueue, R!RNext
  <2>2. CASE EnqLoad(t) \/ EnqNext(t) \/ EnqHelp(t) \/ EnqLink(t) \/ EnqCount(t, "e_swing") \/ EnqSwing(t)
    BY <2>2 DEF EnqLoad, EnqNext, EnqHelp, EnqLink, EnqCount, EnqSwing, reclaimVars
  <2>3. CASE EnqGuard(t)
    BY <1>1, <2>3, SetOwn, Slots DEF EnqGuard
  <2>4. CASE EnqCheck(t)
    <3>1. TailUnmoved(t) => H(t, 0) = tail
      BY <1>1, <2>4 DEF EnqCheck, TailUnmoved, QKnow, QEnq
    <3> QED BY <1>1, <2>4, <3>1, UseOwn, Slots DEF EnqCheck, reclaimVars
  <2>5. CASE Dequeue(t) \/ DeqLoad(t) \/ (kind = "ms" /\ DeqTail(t)) \/ DeqNext(t, "d_guard2")
             \/ (kind = "ms" /\ DeqHelp(t)) \/ DeqData(t, nxt[t], "d_count") \/ DeqCount(t)
             \/ (kind = "moir" /\ MoirTail(t)) \/ (kind = "moir" /\ MoirFix(t))
    BY <2>5 DEF Dequeue, DeqLoad, DeqTail, DeqNext, DeqHelp, DeqData, DeqCount, MoirTail, MoirFix, reclaimVars
  <2>6. CASE DeqGuard(t, "d_check") \/ DeqGuard2(t)
    BY <1>1, <2>6, SetOwn, Slots DEF DeqGuard, DeqGuard2
  <2>7. ASSUME NEW there, DeqCheck(t, there) PROVE R!RNext \/ UNCHANGED <<status, hz, using, blockers>>
    <3>1. HeadUnmoved(t) => H(t, 0) = head
      BY <1>1, <2>7 DEF DeqCheck, HeadUnmoved, QKnow, QDeq
    <3> QED BY <1>1, <2>7, <3>1, UseOwn, Slots DEF DeqCheck, reclaimVars
  <2>8. CASE (kind = "ms" /\ DeqRecheck(t)) \/ (kind = "moir" /\ MoirRecheck(t))
    <3>1. pc[t] = "d_recheck" /\ IF HeadUnmoved(t) THEN R!Use(<<t, 1>>) ELSE UNCHANGED reclaimVars
      BY <2>8 DEF DeqRecheck, MoirRecheck
    <3>2. HeadUnmoved(t) /\ H(t, 1) \in Node => status[H(t, 1)] = "linked"
      <4> SUFFICES ASSUME HeadUnmoved(t), H(t, 1) \in Node PROVE status[H(t, 1)] = "linked"
        OBVIOUS
      <4>1. nxt[t] = H(t, 1) /\ nxt[t] # Null /\ next[head] = nxt[t]
        BY <1>1, <3>1, NullAssumption DEF QKnow, QDeq, KnowPC, HeadUnmoved
      <4>2. Len(items) \in Nat /\ Len(items) # 0 /\ At(0) = head /\ next[head] = At(0 + 1)
        BY <4>1, QList DEF QInv, QChain
      <4> QED BY <4>1, <4>2 DEF QInv, QChain
    <3> QED BY <1>1, <3>1, <3>2, UseOwn, Slots DEF reclaimVars
  <2>9. ASSUME NEW there, DeqCas(t, there) PROVE R!RNext \/ UNCHANGED <<status, hz, using, blockers>>
    BY <1>1, <2>9 DEF DeqCas, reclaimVars, R!RNext, R!Remove, HeadUnmoved
  <2>10. CASE DeqRetire(t, "leave")
    <3>1. lh[t] \in Node /\ status[lh[t]] = "unlinked"
      BY <1>1, <2>10 DEF DeqRetire, QKnow, QOwn, TakingPC
    <3> QED BY <2>10, <3>1 DEF DeqRetire, R!RNext, R!Surrender
  <2>11. CASE Leave(t)
    BY <1>1, <2>11, ReleaseOwn DEF Leave
  <2> QED BY <1>1, <1>3, <2>1, <2>2, <2>3, <2>4, <2>5, <2>6, <2>7, <2>8, <2>9, <2>10, <2>11, QSteps
<1> QED BY <1>2, <1>3 DEF QMove

\* No operation of a queue is about to touch a freed node.
LEMMA QTouches ==
  ASSUME QInv
  PROVE  NoUseAfterFree
<1> SUFFICES ASSUME NEW t \in Thread, NEW n \in Touches(t) PROVE status[n] # "free"
  BY DEF NoUseAfterFree
<1>1. /\ kind \in {"ms", "moir"} /\ pc[t] \in QPC /\ QKnow(t) /\ R!RTypeOK /\ R!RInv
  BY DEF QInv, QTyped, R!RGood
<1>2. \/ pc[t] \in {"e_next", "e_link"} /\ n = lt[t]
      \/ pc[t] = "d_data" /\ n = nxt[t]
      \/ pc[t] = "d_next" /\ n = lh[t]
  BY <1>1 DEF Touches, QPC, EnqPC, DeqPC
<1>3. \E i \in {0, 1} : U(t, i) = n /\ n \in Node
  BY <1>1, <1>2 DEF QKnow, QEnq, QDeq, HoldPC
<1> QED BY <1>1, <1>3, UsedIsSafe, Slots

-----------------------------------------------------------------------------
(* The queues: what a step leaves as it was *)

\* The steps of all threads: no link is changed but that of the last node, what has left the list does
\* not come back, and head and tail move along the links.
Steady ==
    /\ \A n \in Node : status[n] # "free" /\ status'[n] # "free" /\ next[n] # Null => next'[n] = next[n]
    /\ \A n \in Node : Gone(n) => status'[n] \in {"unlinked", "retired", "free"}
    /\ head' = head \/ status'[head] = "unlinked"
    /\ tail' = tail \/ (next[tail] # Null /\ tail' = next[tail])

\* The locals of u, and its guards, are unchanged.
Same(u) ==
    /\ pc'[u] = pc[u] /\ node'[u] = node[u] /\ lt'[u] = lt[u] /\ lh'[u] = lh[u] /\ nxt'[u] = nxt[u]
    /\ \A i \in {0, 1} : H(u, i)' = H(u, i) /\ U(u, i)' = U(u, i)

\* A thread goes on knowing what it knew while another takes such a step.
LEMMA OthersKnow ==
  ASSUME QInv, R!RGood', Steady, kind' = kind, NEW u \in Thread, Same(u), QOwn(u)'
  PROVE  QEnq(u)' /\ QDeq(u)'
<1>1. /\ QEnq(u) /\ QDeq(u) /\ QOwn(u) /\ R!RTypeOK /\ R!RInv /\ kind \in {"ms", "moir"} /\ tail \in Node /\ head \in Node
      /\ next \in [Node -> Node \cup {Null}]
  BY DEF QInv, QKnow, R!RGood, QTyped, NodeTypeOK
<1>2. ASSUME NEW n \in Node, NEW i \in {0, 1}, U(u, i) = n
      PROVE  status[n] # "free" /\ status'[n] # "free"
  <2>1. status[n] # "free"
    BY <1>1, <1>2, UsedIsSafe, Slots
  <2>2. <<u, i>> \in Slot /\ using'[<<u, i>>] = n
    BY <1>2, Slots DEF Same, U
  <2> QED BY <2>1, <2>2 DEF R!RGood, R!RInv
<1>3. ASSUME NEW n \in Node, status[n] # "free", status'[n] # "free", next[n] # Null PROVE next'[n] = next[n]
  BY <1>3 DEF Steady
<1>4. \A n \in Node : status'[n] # "free" /\ (n = head \/ Gone(n)) => n = head' \/ Gone(n)'
  BY DEF Steady, Gone
<1>5. tail' = tail \/ (next[tail] # Null /\ tail' = next[tail])
  BY DEF Steady
<1>6. next[tail] # Null => /\ next[tail] \in Node /\ status[next[tail]] = "linked"
                           /\ kind = "ms" => next[tail] # head
  BY QList
<1>7. QEnq(u)'
  <2> USE DEF Same
  <2>1. pc'[u] \in {"e_guard", "e_check"} => lt'[u] \in Node
    BY <1>1 DEF QEnq
  <2>2. pc'[u] = "e_check" => H(u, 0)' = lt'[u]
    BY <1>1 DEF QEnq
  <2>3. pc'[u] \in {"e_next", "e_help", "e_link", "e_count", "e_swing"}
        => lt'[u] \in Node /\ U(u, 0)' = lt'[u] /\ status[lt[u]] # "free" /\ status'[lt[u]] # "free"
    BY <1>1, <1>2 DEF QEnq
  <2>4. pc'[u] \in {"e_next", "e_link"} => (next'[lt'[u]] = Null => lt'[u] = tail')
    BY <1>1, <1>3, <1>5, <2>3 DEF QEnq
  <2>5. pc'[u] = "e_help" => nxt'[u] # Null /\ next'[lt'[u]] = nxt'[u]
    BY <1>1, <1>3, <2>3 DEF QEnq
  <2>6. pc'[u] \in {"e_count", "e_swing"} => node'[u] \in Node /\ next'[lt'[u]] = node'[u]
    BY <1>1, <1>3, <2>3, NullAssumption DEF QEnq
  <2> QED BY <2>1, <2>2, <2>3, <2>4, <2>5, <2>6 DEF QEnq
<1>8. QDeq(u)'
  <2> USE DEF Same
  <2>1. pc'[u] \in {"d_guard", "d_check"} => lh'[u] \in Node
    BY <1>1 DEF QDeq
  <2>2. pc'[u] = "d_check" => H(u, 0)' = lh'[u]
    BY <1>1 DEF QDeq
  <2>3. pc'[u] \in HoldPC => /\ lh'[u] \in Node /\ U(u, 0)' = lh'[u] /\ (lh[u] = head \/ Gone(lh[u]))
                             /\ status[lh[u]] # "free" /\ status'[lh[u]] # "free"
    BY <1>1, <1>2 DEF QDeq
  <2>4. pc'[u] \in HoldPC => lh'[u] = head' \/ Gone(lh[u])'
    BY <1>4, <2>3
  <2>5. pc'[u] \in KnowPC => (nxt'[u] # Null => next'[lh'[u]] = nxt'[u])
    <3>1. pc[u] \in KnowPC => lh[u] \in Node /\ status[lh[u]] # "free" /\ status'[lh[u]] # "free"
      BY <1>1, <2>3 DEF HoldPC, KnowPC, TakingPC, QOwn
    <3> QED BY <1>1, <1>3, <3>1 DEF QDeq
  <2>6. pc'[u] = "d_recheck" => H(u, 1)' = nxt'[u]
    BY <1>1 DEF QDeq
  <2>7. pc'[u] \in {"d_help", "d_cas", "d_fix", "d_fix2", "d_data"} => nxt'[u] \in Node /\ U(u, 1)' = nxt'[u]
    BY <1>1 DEF QDeq
  <2>8. kind' = "ms" => /\ pc'[u] = "d_help" => lt'[u] = lh'[u]
                        /\ pc'[u] \in {"d_next", "d_guard2", "d_recheck"} => (lt'[u] # lh'[u] => tail' # lh'[u])
                        /\ pc'[u] = "d_cas" => tail' # lh'[u]
    <3>1. pc[u] \in HoldPC /\ kind = "ms" /\ tail # lh[u] => tail' # lh[u]
      BY <1>1, <1>5, <1>6, <2>3 DEF Gone
    <3> QED BY <1>1, <3>1 DEF QDeq, HoldPC
  <2>9. kind' = "moir" => /\ pc'[u] = "d_fix2" => lt'[u] = lh'[u]
                          /\ pc'[u] \in {"d_data", "d_count", "d_retire"} => lh'[u] # tail'
    <3>1. pc[u] \in TakingPC /\ lh[u] # tail => lh[u] # tail'
      BY <1>1, <1>5, <1>6 DEF QOwn
    <3> QED BY <1>1, <3>1 DEF QDeq, TakingPC
  <2> QED BY <2>1, <2>2, <2>3, <2>4, <2>5, <2>6, <2>7, <2>8, <2>9 DEF QDeq, Gone
<1> QED BY <1>7, <1>8

\* A step that leaves the list alone, but perhaps for the tail, and makes and takes nothing
LEMMA QQuiet ==
  ASSUME QInv, R!RGood', QTyped', NEW t \in Thread, UNCHANGED <<head, next, status, items, kind>>,
         tail' = tail \/ (next[tail] # Null /\ tail' = next[tail]),
         \A u \in Thread : u # t => Same(u),
         pc'[t] \in MakingPC => pc[t] \in MakingPC /\ node'[t] = node[t],
         pc'[t] \in TakingPC => pc[t] \in TakingPC /\ lh'[t] = lh[t],
         QEnq(t)', QDeq(t)'
  PROVE  QInv'
<1>1. \A i : At(i)' = At(i)
  BY DEF At
<1>2. QChain' /\ QGone'
  BY <1>1 DEF QInv, QChain, QGone, Gone
<1>3. QTail'
  <2>1. CASE tail' = tail
    BY <1>1, <2>1 DEF QInv, QTail
  <2>2. CASE next[tail] # Null /\ tail' = next[tail]
    BY <1>1, <2>2, QList DEF QTail
  <2> QED BY <2>1, <2>2
<1>4. \A u \in Thread : /\ pc'[u] \in MakingPC => pc[u] \in MakingPC /\ node'[u] = node[u]
                        /\ pc'[u] \in TakingPC => pc[u] \in TakingPC /\ lh'[u] = lh[u]
  BY DEF Same
<1>5. QApart' /\ \A u \in Thread : QOwn(u)'
  BY <1>1, <1>4 DEF QInv, QKnow, QOwn, QApart, OnList
<1>6. Steady
  BY DEF Steady, Gone
<1>7. ASSUME NEW u \in Thread PROVE QKnow(u)'
  BY <1>5, <1>6, OthersKnow DEF QKnow
<1> QED BY <1>2, <1>3, <1>5, <1>7 DEF QInv

\* An enqueue reads the tail and sets its guard,
LEMMA QEnqReads ==
  ASSUME QInv, QMove, R!RGood', QTyped', NEW t \in Thread,
         EnqLoad(t) \/ EnqGuard(t) \/ EnqCheck(t) \/ EnqNext(t) \/ EnqCount(t, "e_swing")
  PROVE  QInv'
<1> USE DEF queueVars, localVars, reclaimVars
<1>1. /\ kind' = kind /\ kind \in {"ms", "moir"} /\ R!RTypeOK /\ QEnq(t) /\ QDeq(t) /\ pc \in [Thread -> QPC]
      /\ tail \in Node /\ next \in [Node -> Node \cup {Null}]
      /\ \A v \in {node, lt, lh, nxt} : v \in [Thread -> Node \cup {Null}]
  BY DEF QMove, QInv, QKnow, R!RGood, QTyped, NodeTypeOK
<1>2. UNCHANGED <<head, tail, next, items>>
  BY DEF EnqLoad, EnqGuard, EnqCheck, EnqNext, EnqCount
<1>3. CASE EnqLoad(t)
  <2>1. /\ pc[t] = "e_load" /\ pc' = [pc EXCEPT ![t] = "e_guard"] /\ lt' = [lt EXCEPT ![t] = tail]
        /\ UNCHANGED <<status, hz, using, node, lh, nxt>>
    BY <1>3 DEF EnqLoad, Goto
  <2>2. \A u \in Thread : u # t => Same(u)
    BY <1>1, <2>1, SlotsKept DEF Same
  <2>3. QEnq(t)' /\ QDeq(t)' /\ pc'[t] = "e_guard"
    BY <1>1, <1>2, <2>1 DEF QEnq, QDeq, HoldPC, KnowPC
  <2> QED BY <1>1, <1>2, <2>1, <2>2, <2>3, QQuiet DEF MakingPC, TakingPC
<1>4. CASE EnqGuard(t)
  <2>1. /\ pc[t] = "e_guard" /\ pc' = [pc EXCEPT ![t] = "e_check"] /\ R!SetSlot(<<t, 0>>, lt[t])
        /\ UNCHANGED <<node, lt, lh, nxt>>
    BY <1>4 DEF EnqGuard, Goto
  <2>2. /\ \A u \in Thread : u # t => \A i \in {0, 1} : H(u, i)' = H(u, i) /\ U(u, i)' = U(u, i)
        /\ H(t, 0)' = lt[t] /\ status' = status
    BY <1>1, <2>1, SlotIsSet, Slots
  <2>3. \A u \in Thread : u # t => Same(u)
    BY <1>1, <2>1, <2>2 DEF Same
  <2>4. QEnq(t)' /\ QDeq(t)' /\ pc'[t] = "e_check"
    BY <1>1, <1>2, <2>1, <2>2 DEF QEnq, QDeq, HoldPC, KnowPC
  <2> QED BY <1>1, <1>2, <2>1, <2>2, <2>3, <2>4, QQuiet DEF MakingPC, TakingPC
<1>5. CASE EnqCheck(t)
  <2>1. /\ pc[t] = "e_check" /\ UNCHANGED <<node, lt, lh, nxt>>
        /\ \/ tail = lt[t] /\ R!Use(<<t, 0>>) /\ pc' = [pc EXCEPT ![t] = "e_next"]
           \/ UNCHANGED <<status, hz, using>> /\ pc' = [pc EXCEPT ![t] = "e_load"]
    BY <1>5 DEF EnqCheck, Goto, TailUnmoved
  <2>2. /\ \A u \in Thread : u # t => \A i \in {0, 1} : H(u, i)' = H(u, i) /\ U(u, i)' = U(u, i)
        /\ pc'[t] = "e_next" => U(t, 0)' = H(t, 0) /\ tail = lt[t]
        /\ status' = status
    BY <1>1, <2>1, SlotIsUsed, Slots, SlotsKept
  <2>3. \A u \in Thread : u # t => Same(u)
    BY <1>1, <2>1, <2>2 DEF Same
  <2>4. QEnq(t)' /\ QDeq(t)' /\ pc'[t] \in {"e_next", "e_load"}
    BY <1>1, <1>2, <2>1, <2>2 DEF QEnq, QDeq, HoldPC, KnowPC
  <2> QED BY <1>1, <1>2, <2>1, <2>2, <2>3, <2>4, QQuiet DEF MakingPC, TakingPC
<1>6. CASE EnqNext(t)
  <2>1. /\ pc[t] = "e_next" /\ UNCHANGED <<status, hz, using, node, lt, lh>>
        /\ nxt' = [nxt EXCEPT ![t] = next[lt[t]]]
        /\ pc' = [pc EXCEPT ![t] = IF next[lt[t]] # Null THEN "e_help" ELSE "e_link"]
    BY <1>6 DEF EnqNext, Goto, TailLags
  <2>2. \A u \in Thread : Same(u) \/ u = t
    BY <1>1, <2>1, SlotsKept DEF Same
  <2>3. QEnq(t)' /\ QDeq(t)' /\ pc'[t] \in {"e_help", "e_link"}
    BY <1>1, <1>2, <2>1, SlotsKept DEF QEnq, QDeq, HoldPC, KnowPC
  <2> QED BY <1>1, <1>2, <2>1, <2>2, <2>3, QQuiet DEF MakingPC, TakingPC
<1>7. CASE EnqCount(t, "e_swing")
  <2>1. /\ pc[t] = "e_count" /\ UNCHANGED <<status, hz, using, node, lt, lh, nxt>>
        /\ pc' = [pc EXCEPT ![t] = "e_swing"]
    BY <1>7 DEF EnqCount, Goto
  <2>2. \A u \in Thread : Same(u) \/ u = t
    BY <1>1, <2>1, SlotsKept DEF Same
  <2>3. QEnq(t)' /\ QDeq(t)' /\ pc'[t] = "e_swing"
    BY <1>1, <1>2, <2>1, SlotsKept DEF QEnq, QDeq, HoldPC, KnowPC
  <2> QED BY <1>1, <1>2, <2>1, <2>2, <2>3, QQuiet DEF MakingPC, TakingPC
<1> QED BY <1>3, <1>4, <1>5, <1>6, <1>7

\* and whoever finds the tail behind moves it along the link.
LEMMA QTailMoves ==
  ASSUME QInv, QMove, R!RGood', QTyped', NEW t \in Thread,
         EnqHelp(t) \/ EnqSwing(t) \/ (kind = "ms" /\ DeqHelp(t)) \/ (kind = "moir" /\ MoirFix(t))
  PROVE  QInv'
<1> USE DEF queueVars, localVars, reclaimVars
<1>1. /\ kind' = kind /\ kind \in {"ms", "moir"} /\ R!RTypeOK /\ QEnq(t) /\ QDeq(t) /\ QOwn(t) /\ pc \in [Thread -> QPC]
      /\ tail \in Node /\ next \in [Node -> Node \cup {Null}]
      /\ \A v \in {node, lt, lh, nxt} : v \in [Thread -> Node \cup {Null}]
  BY DEF QMove, QInv, QKnow, R!RGood, QTyped, NodeTypeOK
<1>2. UNCHANGED <<head, next, status, hz, using, items, node, lt, lh, nxt>>
  BY DEF EnqHelp, EnqSwing, DeqHelp, MoirFix
<1>3. /\ \/ pc[t] = "e_help" /\ pc' = [pc EXCEPT ![t] = "e_load"] /\ tail' = IF tail = lt[t] THEN nxt[t] ELSE tail
         \/ pc[t] = "e_swing" /\ pc' = [pc EXCEPT ![t] = "leave"] /\ tail' = IF tail = lt[t] THEN node[t] ELSE tail
         \/ kind = "ms" /\ pc[t] = "d_help" /\ pc' = [pc EXCEPT ![t] = "d_load"] /\ tail' = IF tail = lt[t] THEN nxt[t] ELSE tail
         \/ kind = "moir" /\ pc[t] = "d_fix2" /\ pc' = [pc EXCEPT ![t] = "d_data"] /\ tail' = IF tail = lt[t] THEN nxt[t] ELSE tail
  BY DEF EnqHelp, EnqSwing, DeqHelp, MoirFix, Goto, AdvanceTail
<1>4. tail' = tail \/ (next[tail] # Null /\ tail' = next[tail])
  BY <1>1, <1>3, NullAssumption DEF QEnq, QDeq, KnowPC
<1>5. \A u \in Thread : u = t \/ Same(u)
  BY <1>1, <1>2, <1>3, SlotsKept DEF Same
<1>6. pc'[t] \in {"e_load", "leave", "d_load", "d_data"} /\ (pc'[t] = "d_data" => pc[t] = "d_fix2" /\ kind = "moir")
      /\ (pc'[t] = "e_load" => pc[t] = "e_help")
  BY <1>1, <1>3
<1>7. QEnq(t)'
  BY <1>6 DEF QEnq
<1>8. QDeq(t)'
  <2>1. CASE pc'[t] # "d_data"
    BY <1>6, <2>1 DEF QDeq, HoldPC, KnowPC
  <2>2. CASE pc'[t] = "d_data"
    <3>1. nxt[t] \in Node /\ U(t, 1) = nxt[t] /\ lt[t] = lh[t] /\ next[lh[t]] = nxt[t] /\ status[lh[t]] = "unlinked"
      BY <1>1, <1>6, <2>2, NullAssumption DEF QDeq, KnowPC, QOwn, TakingPC
    <3>2. lh[t] # tail'
      <4>1. tail' = IF tail = lt[t] THEN nxt[t] ELSE tail
        BY <1>1, <1>3, <1>6, <2>2
      <4>2. tail = lh[t] => status[nxt[t]] = "linked"
        BY <3>1, QList, NullAssumption
      <4> QED BY <3>1, <4>1, <4>2
    <3> QED BY <1>1, <1>2, <2>2, <3>1, <3>2, SlotsKept DEF QDeq, HoldPC, KnowPC
  <2> QED BY <2>1, <2>2
<1> QED BY <1>1, <1>2, <1>4, <1>5, <1>6, <1>7, <1>8, QQuiet DEF MakingPC, TakingPC

\* A dequeue reads the head and sets its guard,
LEMMA QDeqReads ==
  ASSUME QInv, QMove, R!RGood', QTyped', NEW t \in Thread,
         \/ Dequeue(t) \/ DeqLoad(t) \/ DeqGuard(t, "d_check")
         \/ (kind = "ms" /\ DeqCheck(t, "d_tail")) \/ (kind = "moir" /\ DeqCheck(t, "d_next"))
         \/ (kind = "ms" /\ DeqTail(t)) \/ DeqNext(t, "d_guard2") \/ DeqGuard2(t)
         \/ (kind = "ms" /\ DeqRecheck(t)) \/ (kind = "moir" /\ MoirRecheck(t))
  PROVE  QInv'
<1> USE DEF queueVars, localVars, reclaimVars
<1>1. /\ kind' = kind /\ kind \in {"ms", "moir"} /\ R!RTypeOK /\ QEnq(t) /\ QDeq(t) /\ pc \in [Thread -> QPC]
      /\ tail \in Node /\ next \in [Node -> Node \cup {Null}] /\ head \in Node
      /\ \A v \in {node, lt, lh, nxt} : v \in [Thread -> Node \cup {Null}]
  BY DEF QMove, QInv, QKnow, R!RGood, QTyped, NodeTypeOK
<1>2. UNCHANGED <<head, tail, next, items>>
  BY DEF Dequeue, DeqLoad, DeqGuard, DeqCheck, DeqTail, DeqNext, DeqGuard2, DeqRecheck, MoirRecheck
<1>3. CASE Dequeue(t)
  <2>1. pc' = [pc EXCEPT ![t] = "d_load"] /\ UNCHANGED <<status, hz, using, node, lt, lh, nxt>>
    BY <1>3 DEF Dequeue, Goto
  <2>2. \A u \in Thread : u = t \/ Same(u)
    BY <1>1, <2>1, SlotsKept DEF Same
  <2>3. QEnq(t)' /\ QDeq(t)' /\ pc'[t] = "d_load"
    BY <1>1, <2>1 DEF QEnq, QDeq, HoldPC, KnowPC
  <2> QED BY <1>1, <1>2, <2>1, <2>2, <2>3, QQuiet DEF MakingPC, TakingPC
<1>4. CASE DeqLoad(t)
  <2>1. /\ pc' = [pc EXCEPT ![t] = "d_guard"] /\ lh' = [lh EXCEPT ![t] = head] /\ lt' = [lt EXCEPT ![t] = Null]
        /\ nxt' = [nxt EXCEPT ![t] = Null] /\ UNCHANGED <<status, hz, using, node>>
    BY <1>4 DEF DeqLoad, Goto
  <2>2. \A u \in Thread : u = t \/ Same(u)
    BY <1>1, <2>1, SlotsKept DEF Same
  <2>3. QEnq(t)' /\ QDeq(t)' /\ pc'[t] = "d_guard"
    BY <1>1, <2>1 DEF QEnq, QDeq, HoldPC, KnowPC
  <2> QED BY <1>1, <1>2, <2>1, <2>2, <2>3, QQuiet DEF MakingPC, TakingPC
<1>5. CASE DeqGuard(t, "d_check")
  <2>1. /\ pc[t] = "d_guard" /\ pc' = [pc EXCEPT ![t] = "d_check"] /\ R!SetSlot(<<t, 0>>, lh[t])
        /\ UNCHANGED <<node, lt, lh, nxt>>
    BY <1>5 DEF DeqGuard, Goto
  <2>2. /\ \A u \in Thread : u # t => \A i \in {0, 1} : H(u, i)' = H(u, i) /\ U(u, i)' = U(u, i)
        /\ H(t, 0)' = lh[t] /\ status' = status
    BY <1>1, <2>1, SlotIsSet, Slots
  <2>3. \A u \in Thread : u # t => Same(u)
    BY <1>1, <2>1, <2>2 DEF Same
  <2>4. QEnq(t)' /\ QDeq(t)' /\ pc'[t] = "d_check"
    BY <1>1, <1>2, <2>1, <2>2 DEF QEnq, QDeq, HoldPC, KnowPC
  <2> QED BY <1>1, <1>2, <2>1, <2>2, <2>3, <2>4, QQuiet DEF MakingPC, TakingPC
<1>6. CASE (kind = "ms" /\ DeqCheck(t, "d_tail")) \/ (kind = "moir" /\ DeqCheck(t, "d_next"))
  <2>1. /\ pc[t] = "d_check" /\ UNCHANGED <<node, lt, lh, nxt>>
        /\ \/ head = lh[t] /\ R!Use(<<t, 0>>) /\ pc' = [pc EXCEPT ![t] = IF kind = "ms" THEN "d_tail" ELSE "d_next"]
           \/ UNCHANGED <<status, hz, using>> /\ pc' = [pc EXCEPT ![t] = "d_load"]
    BY <1>6 DEF DeqCheck, Goto, HeadUnmoved
  <2>2. /\ \A u \in Thread : u # t => \A i \in {0, 1} : H(u, i)' = H(u, i) /\ U(u, i)' = U(u, i)
        /\ pc'[t] # "d_load" => U(t, 0)' = H(t, 0) /\ head = lh[t] /\ pc'[t] = IF kind = "ms" THEN "d_tail" ELSE "d_next"
        /\ status' = status
    BY <1>1, <2>1, SlotIsUsed, Slots, SlotsKept
  <2>3. \A u \in Thread : u # t => Same(u)
    BY <1>1, <2>1, <2>2 DEF Same
  <2>4. QEnq(t)' /\ QDeq(t)' /\ pc'[t] \in {"d_load", "d_tail", "d_next"}
    BY <1>1, <1>2, <2>1, <2>2 DEF QEnq, QDeq, HoldPC, KnowPC
  <2> QED BY <1>1, <1>2, <2>1, <2>2, <2>3, <2>4, QQuiet DEF MakingPC, TakingPC
<1>7. CASE kind = "ms" /\ DeqTail(t)
  <2>1. /\ pc[t] = "d_tail" /\ pc' = [pc EXCEPT ![t] = "d_next"] /\ lt' = [lt EXCEPT ![t] = tail]
        /\ UNCHANGED <<status, hz, using, node, lh, nxt>>
    BY <1>7 DEF DeqTail, Goto
  <2>2. \A u \in Thread : u = t \/ Same(u)
    BY <1>1, <2>1, SlotsKept DEF Same
  <2>3. QEnq(t)' /\ QDeq(t)' /\ pc'[t] = "d_next"
    BY <1>1, <1>2, <1>7, <2>1, SlotsKept DEF QEnq, QDeq, HoldPC, KnowPC, Gone
  <2> QED BY <1>1, <1>2, <2>1, <2>2, <2>3, QQuiet DEF MakingPC, TakingPC
<1>8. CASE DeqNext(t, "d_guard2")
  <2>1. /\ pc[t] = "d_next" /\ pc' = [pc EXCEPT ![t] = "d_guard2"] /\ nxt' = [nxt EXCEPT ![t] = next[lh[t]]]
        /\ UNCHANGED <<status, hz, using, node, lt, lh>>
    BY <1>8 DEF DeqNext, Goto
  <2>2. \A u \in Thread : u = t \/ Same(u)
    BY <1>1, <2>1, SlotsKept DEF Same
  <2>3. QEnq(t)' /\ QDeq(t)' /\ pc'[t] = "d_guard2"
    BY <1>1, <1>2, <2>1, SlotsKept DEF QEnq, QDeq, HoldPC, KnowPC, Gone
  <2> QED BY <1>1, <1>2, <2>1, <2>2, <2>3, QQuiet DEF MakingPC, TakingPC
<1>9. CASE DeqGuard2(t)
  <2>1. /\ pc[t] = "d_guard2" /\ pc' = [pc EXCEPT ![t] = "d_recheck"] /\ R!SetSlot(<<t, 1>>, nxt[t])
        /\ UNCHANGED <<node, lt, lh, nxt>>
    BY <1>9 DEF DeqGuard2, Goto
  <2>2. /\ \A u \in Thread : u # t => \A i \in {0, 1} : H(u, i)' = H(u, i) /\ U(u, i)' = U(u, i)
        /\ H(t, 1)' = nxt[t] /\ status' = status /\ U(t, 0)' = U(t, 0)
    BY <1>1, <2>1, SlotIsSet, Slots
  <2>3. \A u \in Thread : u # t => Same(u)
    BY <1>1, <2>1, <2>2 DEF Same
  <2>4. QEnq(t)' /\ QDeq(t)' /\ pc'[t] = "d_recheck"
    BY <1>1, <1>2, <2>1, <2>2 DEF QEnq, QDeq, HoldPC, KnowPC, Gone
  <2> QED BY <1>1, <1>2, <2>1, <2>2, <2>3, <2>4, QQuiet DEF MakingPC, TakingPC
<1>10. CASE (kind = "ms" /\ DeqRecheck(t)) \/ (kind = "moir" /\ MoirRecheck(t))
  <2>1. /\ pc[t] = "d_recheck" /\ UNCHANGED <<node, lt, lh, nxt>>
        /\ \/ /\ head = lh[t] /\ R!Use(<<t, 1>>)
              /\ pc' = [pc EXCEPT ![t] = IF nxt[t] = Null THEN "leave"
                                         ELSE IF kind = "ms" /\ lh[t] = lt[t] THEN "d_help" ELSE "d_cas"]
           \/ UNCHANGED <<status, hz, using>> /\ pc' = [pc EXCEPT ![t] = "d_load"]
    BY <1>1, <1>10 DEF DeqRecheck, MoirRecheck, Goto, HeadUnmoved, Helps
  <2>2. /\ \A u \in Thread : u # t => \A i \in {0, 1} : H(u, i)' = H(u, i) /\ U(u, i)' = U(u, i)
        /\ pc'[t] \in {"d_help", "d_cas"} => /\ U(t, 1)' = H(t, 1) /\ U(t, 0)' = U(t, 0) /\ head = lh[t] /\ nxt[t] # Null
                                             /\ pc'[t] = "d_help" => kind = "ms" /\ lh[t] = lt[t]
                                             /\ pc'[t] = "d_cas" /\ kind = "ms" => lh[t] # lt[t]
        /\ status' = status /\ pc'[t] \in {"leave", "d_help", "d_cas", "d_load"}
    BY <1>1, <2>1, SlotIsUsed, Slots, SlotsKept
  <2>3. \A u \in Thread : u # t => Same(u)
    BY <1>1, <2>1, <2>2 DEF Same
  <2>4. QEnq(t)' /\ QDeq(t)'
    BY <1>1, <1>2, <2>1, <2>2 DEF QEnq, QDeq, HoldPC, KnowPC, Gone
  <2> QED BY <1>1, <1>2, <2>1, <2>2, <2>3, <2>4, QQuiet DEF MakingPC, TakingPC
<1> QED BY <1>3, <1>4, <1>5, <1>6, <1>7, <1>8, <1>9, <1>10

\* and reads the value of the node it has taken.
LEMMA QDeqEnds ==
  ASSUME QInv, QMove, R!RGood', QTyped', NEW t \in Thread,
         \/ (kind = "moir" /\ MoirTail(t)) \/ DeqData(t, nxt[t], "d_count") \/ DeqCount(t) \/ Leave(t)
  PROVE  QInv'
<1> USE DEF queueVars, localVars, reclaimVars
<1>1. /\ kind' = kind /\ kind \in {"ms", "moir"} /\ R!RTypeOK /\ QEnq(t) /\ QDeq(t) /\ QOwn(t) /\ pc \in [Thread -> QPC]
      /\ \A v \in {node, lt, lh, nxt} : v \in [Thread -> Node \cup {Null}]
  BY DEF QMove, QInv, QKnow, R!RGood, QTyped, NodeTypeOK
<1>2. UNCHANGED <<head, tail, next, items>>
  BY DEF MoirTail, DeqData, DeqCount, Leave
<1>3. CASE kind = "moir" /\ MoirTail(t)
  <2>1. /\ pc[t] = "d_fix" /\ pc' = [pc EXCEPT ![t] = IF lh[t] = tail THEN "d_fix2" ELSE "d_data"]
        /\ lt' = [lt EXCEPT ![t] = tail] /\ UNCHANGED <<status, hz, using, node, lh, nxt>>
    BY <1>3 DEF MoirTail, Goto, TailPassed
  <2>2. \A u \in Thread : u = t \/ Same(u)
    BY <1>1, <2>1, SlotsKept DEF Same
  <2>3. QEnq(t)' /\ QDeq(t)' /\ pc'[t] \in {"d_fix2", "d_data"}
    BY <1>1, <1>2, <1>3, <2>1, SlotsKept DEF QEnq, QDeq, HoldPC, KnowPC
  <2> QED BY <1>1, <1>2, <2>1, <2>2, <2>3, QQuiet DEF MakingPC, TakingPC
<1>4. CASE DeqData(t, nxt[t], "d_count") \/ DeqCount(t)
  <2>1. /\ UNCHANGED <<status, hz, using, node, lt, lh, nxt>>
        /\ \/ pc[t] = "d_data" /\ pc' = [pc EXCEPT ![t] = "d_count"]
           \/ pc[t] = "d_count" /\ pc' = [pc EXCEPT ![t] = "d_retire"]
    BY <1>4 DEF DeqData, DeqCount, Goto
  <2>2. \A u \in Thread : u = t \/ Same(u)
    BY <1>1, <2>1, SlotsKept DEF Same
  <2>3. QEnq(t)' /\ QDeq(t)' /\ pc'[t] \in {"d_count", "d_retire"}
    BY <1>1, <1>2, <2>1 DEF QEnq, QDeq, HoldPC, KnowPC
  <2> QED BY <1>1, <1>2, <2>1, <2>2, <2>3, QQuiet DEF MakingPC, TakingPC
<1>5. CASE Leave(t)
  <2>1. /\ pc' = [pc EXCEPT ![t] = "idle"] /\ R!Release({t} \X Guards)
        /\ node' = [node EXCEPT ![t] = Null] /\ lt' = [lt EXCEPT ![t] = Null]
        /\ lh' = [lh EXCEPT ![t] = Null] /\ nxt' = [nxt EXCEPT ![t] = Null]
    BY <1>5 DEF Leave, Goto
  <2>2. status' = status /\ \A u \in Thread : u # t => Same(u)
    BY <1>1, <2>1, SlotsReleased, Slots DEF Same
  <2>3. QEnq(t)' /\ QDeq(t)' /\ pc'[t] = "idle"
    BY <1>1, <1>2, <2>1 DEF QEnq, QDeq, HoldPC, KnowPC
  <2> QED BY <1>1, <1>2, <2>1, <2>2, <2>3, QQuiet DEF MakingPC, TakingPC
<1> QED BY <1>3, <1>4, <1>5

-----------------------------------------------------------------------------
(* The queues: the steps that change the list, or what is in it *)

\* A new node is nobody else's.
LEMMA QMakes ==
  ASSUME QInv, QMove, R!RGood', QTyped', NEW t \in Thread, NEW v \in Value, NEW n \in Node, Enqueue(t, v, n)
  PROVE  QInv'
<1>1. /\ kind' = kind /\ kind \in {"ms", "moir"} /\ R!RTypeOK /\ pc \in [Thread -> QPC]
      /\ \A w \in {node, lt, lh, nxt} : w \in [Thread -> Node \cup {Null}]
      /\ next \in [Node -> Node \cup {Null}] /\ status \in [Node -> R!Life] /\ tail \in Node /\ head \in Node
  BY DEF QMove, QInv, R!RGood, R!RTypeOK, QTyped, NodeTypeOK
<1>2. /\ status[n] = "free" /\ status' = [status EXCEPT ![n] = "linked"] /\ next' = [next EXCEPT ![n] = Null]
      /\ node' = [node EXCEPT ![t] = n] /\ pc' = [pc EXCEPT ![t] = "e_load"]
      /\ UNCHANGED <<head, tail, lt, lh, nxt, items, hz, using>>
  BY DEF Enqueue, R!Allocate, R!SetStatus, Goto
<1>3. \A i : At(i)' = At(i)
  BY <1>2 DEF At
<1>4. \A i \in 0..Len(items) : At(i) \in Node /\ At(i) # n
  BY <1>2, QList DEF QInv, QChain
<1>5. QChain'
  BY <1>1, <1>2, <1>3, <1>4 DEF QInv, QChain
<1>6. tail # n
  BY <1>2, <1>4, QList DEF QInv, QTail
<1>7. QTail'
  BY <1>1, <1>2, <1>3, <1>6 DEF QInv, QTail
<1>8. QGone'
  BY <1>1, <1>2 DEF QInv, QGone, Gone
<1>9. ASSUME NEW u \in Thread PROVE QOwn(u)'
  <2>1. ~OnList(n)' /\ \A m : OnList(m)' <=> OnList(m)
    BY <1>2, <1>3, <1>4 DEF OnList
  <2>2. CASE u = t
    BY <1>1, <1>2, <2>1, <2>2 DEF QOwn, MakingPC, TakingPC
  <2>3. CASE u # t
    <3>1. QOwn(u)
      BY DEF QInv, QKnow
    <3> QED BY <1>1, <1>2, <2>1, <2>3, <3>1 DEF QOwn
  <2> QED BY <2>2, <2>3
<1>10. QApart'
  <2>1. \A u \in Thread : pc[u] \in MakingPC => node[u] # n
    BY <1>2 DEF QInv, QKnow, QOwn
  <2> QED BY <1>1, <1>2, <2>1 DEF QInv, QApart, MakingPC, TakingPC
<1>11. Steady
  BY <1>1, <1>2 DEF Steady, Gone
<1>12. ASSUME NEW u \in Thread PROVE QKnow(u)'
  <2>1. CASE u # t
    <3>1. Same(u)
      BY <1>1, <1>2, <2>1, SlotsKept DEF Same
    <3> QED BY <1>1, <1>9, <1>11, <3>1, OthersKnow DEF QKnow
  <2>2. CASE u = t
    <3>1. pc'[t] = "e_load"
      BY <1>1, <1>2
    <3> QED BY <1>9, <2>2, <3>1 DEF QKnow, QEnq, QDeq, HoldPC, KnowPC
  <2> QED BY <2>1, <2>2
<1> QED BY <1>5, <1>7, <1>8, <1>10, <1>12 DEF QInv

\* The reclaimer frees only what nobody reads any more.
LEMMA QReclaims ==
  ASSUME QInv, QMove, R!RGood', QTyped', NEW n \in Node, Reclaim(n)
  PROVE  QInv'
<1>1. /\ kind' = kind /\ kind \in {"ms", "moir"} /\ R!RTypeOK /\ pc \in [Thread -> QPC]
      /\ next \in [Node -> Node \cup {Null}] /\ status \in [Node -> R!Life] /\ tail \in Node /\ head \in Node
  BY DEF QMove, QInv, R!RGood, R!RTypeOK, QTyped, NodeTypeOK
<1>2. /\ status[n] = "retired" /\ status' = [m \in Node |-> IF m = n THEN "free" ELSE status[m]]
      /\ next' = [next EXCEPT ![n] = Null] /\ UNCHANGED <<head, tail, node, lt, lh, nxt, items, hz, using, pc>>
  BY DEF Reclaim, R!Free, localVars
<1>3. \A i : At(i)' = At(i)
  BY <1>2 DEF At
<1>4. \A i \in 0..Len(items) : At(i) \in Node /\ At(i) # n
  BY <1>2, QList DEF QInv, QChain
<1>5. QChain'
  BY <1>1, <1>2, <1>3, <1>4 DEF QInv, QChain
<1>6. tail # n
  BY <1>2, <1>4, QList DEF QInv, QTail
<1>7. QTail'
  BY <1>1, <1>2, <1>3, <1>6 DEF QInv, QTail
<1>8. QGone'
  BY <1>1, <1>2 DEF QInv, QGone, Gone
<1>9. QApart' /\ \A u \in Thread : QOwn(u)'
  BY <1>1, <1>2, <1>3 DEF QInv, QKnow, QOwn, QApart, OnList
<1>10. Steady
  BY <1>1, <1>2 DEF Steady, Gone
<1>11. ASSUME NEW u \in Thread PROVE QKnow(u)'
  <2>1. Same(u)
    BY <1>1, <1>2, SlotsKept DEF Same
  <2> QED BY <1>1, <1>9, <1>10, <2>1, OthersKnow DEF QKnow
<1> QED BY <1>5, <1>7, <1>8, <1>9, <1>11 DEF QInv

\* A node is handed over by the one that took it.
LEMMA QRetires ==
  ASSUME QInv, QMove, R!RGood', QTyped', NEW t \in Thread, DeqRetire(t, "leave")
  PROVE  QInv'
<1>1. /\ kind' = kind /\ kind \in {"ms", "moir"} /\ R!RTypeOK /\ pc \in [Thread -> QPC] /\ QDeq(t) /\ QOwn(t)
      /\ next \in [Node -> Node \cup {Null}] /\ status \in [Node -> R!Life] /\ tail \in Node /\ head \in Node
  BY DEF QMove, QInv, R!RGood, R!RTypeOK, QTyped, NodeTypeOK, QKnow
<1>2. /\ pc[t] = "d_retire" /\ lh[t] \in Node /\ status[lh[t]] = "unlinked" /\ (kind = "moir" => lh[t] # tail)
      /\ status' = [status EXCEPT ![lh[t]] = "retired"] /\ pc' = [pc EXCEPT ![t] = "leave"]
      /\ UNCHANGED <<head, tail, next, node, lt, lh, nxt, items, hz, using>>
  BY <1>1 DEF DeqRetire, R!HandOver, QOwn, QDeq, TakingPC, queueVars, localVars, Goto
<1>3. \A i : At(i)' = At(i)
  BY <1>2 DEF At
<1>4. QChain'
  BY <1>1, <1>2, <1>3, QList DEF QInv, QChain
<1>5. QTail'
  BY <1>1, <1>2, <1>3 DEF QInv, QTail
<1>6. QGone'
  BY <1>1, <1>2 DEF QInv, QGone, Gone
<1>7. QApart' /\ \A u \in Thread : QOwn(u)'
  <2>1. \A u \in Thread : u # t /\ pc[u] \in TakingPC => lh[u] # lh[t]
    BY <1>2 DEF QInv, QApart, TakingPC
  <2>2. pc'[t] \notin MakingPC /\ pc'[t] \notin TakingPC /\ \A u \in Thread : u # t => pc'[u] = pc[u]
    BY <1>1, <1>2 DEF MakingPC, TakingPC
  <2>3. QApart'
    BY <1>2, <2>2 DEF QInv, QApart
  <2>4. ASSUME NEW u \in Thread, u # t PROVE QOwn(u)'
    BY <1>1, <1>2, <1>3, <2>1, <2>2, <2>4 DEF QInv, QKnow, QOwn, OnList
  <2> QED BY <2>2, <2>3, <2>4 DEF QOwn
<1>8. Steady
  BY <1>1, <1>2 DEF Steady, Gone
<1>9. ASSUME NEW u \in Thread PROVE QKnow(u)'
  <2>1. CASE u # t
    <3>1. Same(u)
      BY <1>1, <1>2, <2>1, SlotsKept DEF Same
    <3> QED BY <1>1, <1>7, <1>8, <3>1, OthersKnow DEF QKnow
  <2>2. CASE u = t
    <3>1. pc'[t] = "leave"
      BY <1>1, <1>2
    <3> QED BY <1>7, <2>2, <3>1 DEF QKnow, QEnq, QDeq, HoldPC, KnowPC
  <2> QED BY <2>1, <2>2
<1> QED BY <1>4, <1>5, <1>6, <1>7, <1>9 DEF QInv

\* An enqueue links its node behind the last, if the tail still was the last.
LEMMA QLinks ==
  ASSUME QInv, QMove, R!RGood', QTyped', NEW t \in Thread, EnqLink(t)
  PROVE  QInv'
<1>1. /\ kind' = kind /\ kind \in {"ms", "moir"} /\ R!RTypeOK /\ pc \in [Thread -> QPC] /\ QEnq(t) /\ QOwn(t)
      /\ next \in [Node -> Node \cup {Null}] /\ tail \in Node /\ head \in Node /\ items \in Seq(Node)
  BY DEF QMove, QInv, R!RGood, QTyped, NodeTypeOK, QKnow
<1>2. /\ pc[t] = "e_link" /\ UNCHANGED <<head, tail, status, hz, using, node, lt, lh, nxt>>
      /\ \/ /\ next[lt[t]] = Null /\ next' = [next EXCEPT ![lt[t]] = node[t]]
            /\ items' = Append(items, node[t]) /\ pc' = [pc EXCEPT ![t] = "e_count"]
         \/ UNCHANGED <<next, items>> /\ pc' = [pc EXCEPT ![t] = "e_load"]
  BY DEF EnqLink, queueVars, localVars, reclaimVars, Goto
<1>3. \A u \in Thread : u = t \/ Same(u)
  BY <1>1, <1>2, SlotsKept DEF Same
<1>4. CASE UNCHANGED <<next, items>> /\ pc' = [pc EXCEPT ![t] = "e_load"]
  <2>1. pc'[t] = "e_load" /\ QEnq(t)' /\ QDeq(t)'
    BY <1>1, <1>4 DEF QEnq, QDeq, HoldPC, KnowPC
  <2> QED BY <1>1, <1>2, <1>3, <1>4, <2>1, QQuiet DEF MakingPC, TakingPC
<1>5. CASE /\ next[lt[t]] = Null /\ next' = [next EXCEPT ![lt[t]] = node[t]]
           /\ items' = Append(items, node[t]) /\ pc' = [pc EXCEPT ![t] = "e_count"]
  <2>1. node[t] \in Node /\ Len(items) \in Nat
    BY <1>1, <1>2 DEF QOwn, MakingPC
  <2>2. PICK n \in Node : n = node[t]
    BY <2>1
  <2>3. PICK l \in Nat : l = Len(items)
    BY <2>1
  <2>4. /\ lt[t] = tail /\ n \in Node /\ status[n] = "linked" /\ next[n] = Null /\ ~OnList(n)
        /\ next[tail] = Null /\ tail = At(l) /\ l \in Nat /\ n # tail /\ n # Null
    <3>1. lt[t] = tail /\ n \in Node /\ status[n] = "linked" /\ next[n] = Null /\ ~OnList(n)
      BY <1>1, <1>2, <1>5, <2>2 DEF QEnq, QOwn, MakingPC
    <3>2. tail = At(l) /\ l \in Nat
      BY <1>5, <2>3, <3>1, QList
    <3> QED BY <1>5, <2>3, <3>1, <3>2, NullAssumption DEF OnList
  <2>5. Len(items') = l + 1 /\ \A i \in 0..l : At(i)' = At(i)
    BY <1>1, <1>2, <1>5, <2>2, <2>3, <2>4 DEF At
  <2>6. At(l + 1)' = n
    BY <1>1, <1>2, <1>5, <2>2, <2>3, <2>4 DEF At
  <2>7. \A i \in 0..l : At(i) \in Node /\ At(i) # n /\ status[At(i)] = "linked" /\ (At(i) = tail <=> i = l)
    BY <2>4, QList, <2>3 DEF QInv, QChain, OnList
  <2>8. QChain'
    <3>1. ASSUME NEW i \in 0..Len(items')
          PROVE  status'[At(i)'] = "linked" /\ next'[At(i)'] = IF i = Len(items') THEN Null ELSE At(i + 1)'
      <4>1. CASE i = l + 1
        BY <1>1, <1>2, <1>5, <2>4, <2>5, <2>6, <4>1
      <4>2. CASE i = l
        BY <1>1, <1>2, <1>5, <2>2, <2>4, <2>5, <2>6, <2>7, <4>2
      <4>3. CASE i < l
        <5>1. next[At(i)] = At(i + 1) /\ At(i) # tail /\ i \in 0..l /\ i + 1 \in 0..l
          BY <2>3, <2>4, <2>5, <2>7, <3>1, <4>3 DEF QInv, QChain
        <5> QED BY <1>1, <1>2, <1>5, <2>4, <2>5, <2>7, <5>1
      <4> QED BY <2>4, <2>5, <4>1, <4>2, <4>3
    <3>2. ASSUME NEW i \in 0..Len(items'), NEW j \in 0..Len(items'), At(i)' = At(j)' PROVE i = j
      <4>1. CASE i = l + 1 \/ j = l + 1
        BY <2>4, <2>5, <2>6, <2>7, <3>2, <4>1
      <4>2. CASE i # l + 1 /\ j # l + 1
        <5>1. i \in 0..l /\ j \in 0..l
          BY <2>4, <2>5, <4>2
        <5> QED BY <2>3, <2>5, <3>2, <5>1 DEF QInv, QChain
      <4> QED BY <4>1, <4>2
    <3> QED BY <3>1, <3>2 DEF QChain
  <2>9. QTail'
    <3>1. Len(items') > 0 /\ tail' = At(Len(items) - 1)'
      <4>1. Len(items') - 1 = l /\ l \in 0..l
        BY <2>4, <2>5
      <4> QED BY <1>2, <2>4, <2>5, <4>1
    <3> QED BY <3>1 DEF QTail
  <2>10. status[tail] = "linked"
    BY <2>4, <2>7
  <2>11. QGone'
    BY <1>1, <1>2, <1>5, <2>4, <2>10, NullAssumption, <2>2 DEF QInv, QGone, Gone
  <2>12. ASSUME NEW u \in Thread PROVE QOwn(u)'
    <3>1. CASE u = t
      BY <1>1, <1>5, <3>1 DEF QOwn, MakingPC, TakingPC
    <3>2. CASE u # t
      <4>1. QOwn(u) /\ pc'[u] = pc[u] /\ (pc[u] \in MakingPC => node[u] # n)
        BY <1>1, <1>2, <1>5, <2>2, <3>2 DEF QInv, QKnow, QApart, MakingPC
      <4>2. ASSUME pc[u] \in MakingPC PROVE node[u] # tail /\ ~OnList(node[u])'
        <5>1. node[u] # tail /\ node[u] # n /\ \A i \in 0..l : At(i) # node[u]
          BY <2>3, <2>4, <2>7, <4>1, <4>2 DEF QOwn, OnList
        <5>2. \A i \in 0..Len(items') : i \in 0..l \/ i = l + 1
          BY <2>4, <2>5
        <5> QED BY <1>2, <2>5, <2>6, <5>1, <5>2 DEF OnList
      <4> QED BY <1>1, <1>2, <1>5, <2>4, <4>1, <4>2 DEF QOwn
    <3> QED BY <3>1, <3>2
  <2>13. QApart'
    BY <1>1, <1>2, <1>5 DEF QInv, QApart, MakingPC, TakingPC
  <2>14. Steady
    BY <1>1, <1>2, <1>5 DEF Steady, Gone
  <2>15. ASSUME NEW u \in Thread PROVE QKnow(u)'
    <3>1. CASE u # t
      BY <1>1, <1>3, <2>12, <2>14, <3>1, OthersKnow DEF QKnow
    <3>2. CASE u = t
      <4>1. pc'[t] = "e_count" /\ lt'[t] \in Node /\ U(t, 0)' = lt'[t] /\ node'[t] \in Node /\ next'[lt'[t]] = node'[t]
        BY <1>1, <1>2, <1>5, <2>2, <2>4, SlotsKept DEF QEnq
      <4> QED BY <2>12, <3>2, <4>1 DEF QKnow, QEnq, QDeq, HoldPC, KnowPC
    <3> QED BY <3>1, <3>2
  <2> QED BY <2>8, <2>9, <2>11, <2>13, <2>15 DEF QInv
<1> QED BY <1>2, <1>4, <1>5

\* A dequeue moves the head one node on, if it still was where the dequeue had seen it.
LEMMA QTakes ==
  ASSUME QInv, QMove, R!RGood', QTyped', NEW t \in Thread,
         (kind = "ms" /\ DeqCas(t, "d_data")) \/ (kind = "moir" /\ DeqCas(t, "d_fix"))
  PROVE  QInv'
<1>1. /\ kind' = kind /\ kind \in {"ms", "moir"} /\ R!RTypeOK /\ pc \in [Thread -> QPC] /\ QDeq(t) /\ QOwn(t)
      /\ next \in [Node -> Node \cup {Null}] /\ tail \in Node /\ head \in Node /\ items \in Seq(Node)
      /\ status \in [Node -> R!Life]
  BY DEF QMove, QInv, R!RGood, R!RTypeOK, QTyped, NodeTypeOK, QKnow
<1>2. /\ pc[t] = "d_cas" /\ UNCHANGED <<tail, next, hz, using, node, lt, lh, nxt>>
      /\ \/ /\ head = lh[t] /\ head' = nxt[t] /\ items' = SubSeq(items, 2, Len(items))
            /\ status' = [status EXCEPT ![lh[t]] = "unlinked"]
            /\ pc' = [pc EXCEPT ![t] = IF kind = "ms" THEN "d_data" ELSE "d_fix"]
         \/ UNCHANGED <<head, items, status>> /\ pc' = [pc EXCEPT ![t] = "d_load"]
  BY DEF DeqCas, localVars, reclaimVars, Goto, HeadUnmoved, R!SetStatus
<1>3. \A u \in Thread : u = t \/ Same(u)
  BY <1>1, <1>2, SlotsKept DEF Same
<1>4. CASE UNCHANGED <<head, items, status>> /\ pc' = [pc EXCEPT ![t] = "d_load"]
  <2>1. pc'[t] = "d_load" /\ QEnq(t)' /\ QDeq(t)'
    BY <1>1, <1>4 DEF QEnq, QDeq, HoldPC, KnowPC
  <2> QED BY <1>1, <1>2, <1>3, <1>4, <2>1, QQuiet DEF MakingPC, TakingPC
<1>5. CASE /\ head = lh[t] /\ head' = nxt[t] /\ items' = SubSeq(items, 2, Len(items))
           /\ status' = [status EXCEPT ![lh[t]] = "unlinked"]
           /\ pc' = [pc EXCEPT ![t] = IF kind = "ms" THEN "d_data" ELSE "d_fix"]
  <2>1. PICK l \in Nat : l = Len(items)
    BY <1>1
  <2>2. /\ l \in Nat /\ l > 0 /\ nxt[t] \in Node /\ nxt[t] # Null /\ next[head] = nxt[t] /\ nxt[t] = At(1) /\ At(0) = head
        /\ U(t, 1) = nxt[t] /\ (kind = "ms" => tail # head)
    <3>1. nxt[t] \in Node /\ nxt[t] # Null /\ next[head] = nxt[t] /\ U(t, 1) = nxt[t] /\ (kind = "ms" => tail # head)
      BY <1>1, <1>2, <1>5, NullAssumption DEF QDeq, KnowPC
    <3>2. l \in Nat /\ l > 0 /\ At(0) = head
      BY <2>1, <3>1, QList
    <3>3. next[At(0)] = At(0 + 1)
      BY <2>1, <3>2 DEF QInv, QChain
    <3> QED BY <3>1, <3>2, <3>3
  <2>3. Len(items') = l - 1 /\ \A i \in 1..(l - 1) : items'[i] = items[i + 1]
    BY <1>1, <1>5, <2>1, <2>2
  <2>4. \A i \in 0..(l - 1) : At(i)' = At(i + 1)
    BY <1>5, <2>2, <2>3 DEF At
  <2>5. \A i \in 0..l : /\ At(i) \in Node /\ status[At(i)] = "linked" /\ (At(i) = head <=> i = 0)
                        /\ next[At(i)] = IF i = l THEN Null ELSE At(i + 1)
    BY <2>1, <2>2, QList DEF QInv, QChain
  <2>6. QChain'
    <3>1. ASSUME NEW i \in 0..Len(items')
          PROVE  status'[At(i)'] = "linked" /\ next'[At(i)'] = IF i = Len(items') THEN Null ELSE At(i + 1)'
      <4>1. i \in 0..(l - 1) /\ i + 1 \in 0..l /\ i + 1 # 0 /\ (i # l - 1 => i + 1 \in 0..(l - 1))
        BY <2>2, <2>3
      <4> QED BY <1>1, <1>2, <1>5, <2>2, <2>3, <2>4, <2>5, <4>1
    <3>2. ASSUME NEW i \in 0..Len(items'), NEW j \in 0..Len(items'), At(i)' = At(j)' PROVE i = j
      <4>1. i \in 0..(l - 1) /\ j \in 0..(l - 1) /\ i + 1 \in 0..l /\ j + 1 \in 0..l
        BY <2>2, <2>3
      <4>2. i + 1 = j + 1
        BY <2>1, <2>4, <3>2, <4>1 DEF QInv, QChain
      <4> QED BY <4>1, <4>2
    <3> QED BY <3>1, <3>2 DEF QChain
  <2>7. QTail'
    <3>1. Len(items') \in Nat /\ Len(items') = l - 1 /\ (items' = <<>> <=> l = 1)
      <4>1. items' \in Seq(Node)
        BY DEF QTyped, NodeTypeOK
      <4>2. items' = <<>> <=> Len(items') = 0
        BY <4>1
      <4> QED BY <2>2, <2>3, <4>2
    <3>2. CASE tail = At(l)
      <4>1. tail' = At(Len(items))'
        BY <1>2, <2>2, <2>3, <2>4, <3>2
      <4> QED BY <4>1 DEF QTail
    <3>3. CASE tail = At(l - 1) /\ l > 1
      <4>1. Len(items') > 0 /\ tail' = At(Len(items) - 1)'
        <5>1. l - 1 - 1 \in 0..(l - 1) /\ l - 1 - 1 + 1 = l - 1
          BY <2>2, <3>3
        <5> QED BY <1>2, <2>3, <2>4, <3>1, <3>3, <5>1
      <4> QED BY <4>1 DEF QTail
    <3>4. CASE tail = At(l - 1) /\ l = 1
      <4>1. tail = head /\ kind = "moir"
        BY <1>1, <2>2, <3>4
      <4>2. kind' = "moir" /\ items' = <<>> /\ next'[tail'] = head' /\ status'[tail'] = "unlinked"
        BY <1>1, <1>2, <1>5, <2>2, <3>1, <3>4, <4>1
      <4> QED BY <4>2 DEF QTail
    <3>5. CASE items = <<>>
      BY <2>1, <2>2, <3>5
    <3> QED BY <2>1, <2>2, <3>2, <3>3, <3>4, <3>5 DEF QInv, QTail
  <2>8. status[head] = "linked" /\ head # Null /\ next[head] # Null
    BY <1>1, <2>2, <2>5, NullAssumption
  <2>9. QGone'
    BY <1>1, <1>2, <1>5, <2>8 DEF QInv, QGone, Gone
  <2>10. \A n : OnList(n)' => OnList(n)
    <3>1. \A i \in 0..Len(items') : i \in 0..(l - 1) /\ i + 1 \in 0..l
      BY <2>2, <2>3
    <3> QED BY <2>1, <2>4, <3>1 DEF OnList
  <2>11. OnList(head) /\ \A u \in Thread : ~(pc[u] \in TakingPC /\ lh[u] = head)
    BY <2>1, <2>2, QList DEF OnList
  <2>12. ASSUME NEW u \in Thread PROVE QOwn(u)'
    <3>1. CASE u = t
      BY <1>1, <1>2, <1>5, <3>1 DEF QOwn, MakingPC, TakingPC
    <3>2. CASE u # t
      <4>1. QOwn(u) /\ pc'[u] = pc[u]
        BY <1>1, <1>5, <3>2 DEF QInv, QKnow
      <4> QED BY <1>1, <1>2, <1>5, <2>10, <2>11, <4>1 DEF QOwn
    <3> QED BY <3>1, <3>2
  <2>13. QApart'
    BY <1>1, <1>2, <1>5, <2>11 DEF QInv, QApart, MakingPC, TakingPC
  <2>14. Steady
    BY <1>1, <1>2, <1>5 DEF Steady, Gone
  <2>15. ASSUME NEW u \in Thread PROVE QKnow(u)'
    <3>1. CASE u # t
      BY <1>1, <1>3, <2>12, <2>14, <3>1, OthersKnow DEF QKnow
    <3>2. CASE u = t
      <4>1. /\ pc'[t] = (IF kind = "ms" THEN "d_data" ELSE "d_fix") /\ nxt'[t] \in Node /\ U(t, 1)' = nxt'[t]
            /\ next'[lh'[t]] = nxt'[t]
        BY <1>1, <1>2, <1>5, <2>2, SlotsKept
      <4> QED BY <1>1, <2>12, <3>2, <4>1 DEF QKnow, QEnq, QDeq, HoldPC, KnowPC
    <3> QED BY <3>1, <3>2
  <2> QED BY <2>6, <2>7, <2>9, <2>13, <2>15 DEF QInv
<1> QED BY <1>2, <1>4, <1>5

\* The queues keep their invariant.
LEMMA QKeeps ==
  ASSUME QInv, QMove
  PROVE  QInv'
<1>1. R!RGood'
  BY QContract, NullAssumption, R!GoodStep DEF QInv, R!rvars
<1>2. QTyped' /\ kind \in {"ms", "moir"}
  BY <1>1, QTypeStep DEF R!RGood, QInv, QTyped
<1>3. ASSUME NEW n \in Node, Reclaim(n) PROVE QInv'
  BY <1>1, <1>2, <1>3, QReclaims
<1>4. ASSUME NEW t \in Thread, QStep(t) PROVE QInv'
  <2> USE <1>1, <1>2
  <2>1. CASE \E v \in Value, n \in Node : Enqueue(t, v, n)
    BY <2>1, QMakes
  <2>2. CASE EnqLoad(t) \/ EnqGuard(t) \/ EnqCheck(t) \/ EnqNext(t) \/ EnqCount(t, "e_swing")
    BY <2>2, QEnqReads
  <2>3. CASE EnqHelp(t) \/ EnqSwing(t) \/ (kind = "ms" /\ DeqHelp(t)) \/ (kind = "moir" /\ MoirFix(t))
    BY <2>3, QTailMoves
  <2>4. CASE EnqLink(t)
    BY <2>4, QLinks
  <2>5. CASE \/ Dequeue(t) \/ DeqLoad(t) \/ DeqGuard(t, "d_check")
             \/ (kind = "ms" /\ DeqCheck(t, "d_tail")) \/ (kind = "moir" /\ DeqCheck(t, "d_next"))
             \/ (kind = "ms" /\ DeqTail(t)) \/ DeqNext(t, "d_guard2") \/ DeqGuard2(t)
             \/ (kind = "ms" /\ DeqRecheck(t)) \/ (kind = "moir" /\ MoirRecheck(t))
    BY <2>5, QDeqReads
  <2>6. CASE (kind = "ms" /\ DeqCas(t, "d_data")) \/ (kind = "moir" /\ DeqCas(t, "d_fix"))
    BY <2>6, QTakes
  <2>7. CASE (kind = "moir" /\ MoirTail(t)) \/ DeqData(t, nxt[t], "d_count") \/ DeqCount(t) \/ Leave(t)
    BY <2>7, QDeqEnds
  <2>8. CASE DeqRetire(t, "leave")
    BY <2>8, QRetires
  <2> HIDE <1>1, <1>2
  <2> QED BY <1>2, <1>4, <2>1, <2>2, <2>3, <2>4, <2>5, <2>6, <2>7, <2>8, QSteps
<1> QED BY <1>3, <1>4 DEF QMove

-----------------------------------------------------------------------------
(* The stack: what is where *)

SPC == {"idle", "leave", "d_load", "d_guard", "d_check", "d_next", "d_cas", "d_data", "d_retire"}
       \cup StackPushPC \cup StackClearPC \cup StackTakenPC
STyped ==
    /\ NodeTypeOK /\ NoLms /\ kind = "stack"
    /\ pc \in [Thread -> SPC]

OnStack(n) == \E i \in 1..Len(items) : items[i] = n
PushedBy(t, n) == pc[t] \in StackPushPC /\ node[t] = n

\* A node not pushed yet, and one popped, is in the hands of one thread.
PopPC == {"d_data", "d_retire", "c_next", "c_retire"}
SOwn(t) ==
    /\ pc[t] \in StackPushPC => /\ node[t] \in Node /\ status[node[t]] = "linked" /\ ~OnStack(node[t])
                                /\ pc[t] = "s_cas" => next[node[t]] = lh[t]
    /\ pc[t] \in PopPC => lh[t] \in Node /\ status[lh[t]] = "unlinked"
    /\ pc[t] = "c_retire" => nxt[t] = Null \/ (nxt[t] \in Node /\ status[nxt[t]] = "unlinked" /\ nxt[t] # lh[t])
SHas(t) == {n \in Node : \/ pc[t] \in PopPC /\ n = lh[t]
                         \/ pc[t] = "c_retire" /\ n = nxt[t]}
SApart ==
    \A t, u \in Thread : t # u => /\ pc[t] \in StackPushPC /\ pc[u] \in StackPushPC => node[t] # node[u]
                                  /\ \A n \in SHas(t) : n \notin SHas(u)

\* What is left of a list that t has taken: own[t].  Its first node is First(t).
First(t) == IF pc[t] = "c_next" THEN next[lh[t]] ELSE IF pc[t] = "c_retire" /\ nxt[t] # Null THEN next[nxt[t]] ELSE Null
STaken(own) ==
    /\ \A t \in Thread : First(t) = Null \/ First(t) \in own[t]
    /\ \A t \in Thread : \A n \in own[t] : /\ status[n] = "linked" /\ ~OnStack(n) /\ \A u \in Thread : ~PushedBy(u, n)
                                           /\ next[n] = Null \/ (next[n] \in own[t] /\ next[n] # First(t))
    /\ \A t \in Thread : \A m, n \in own[t] : next[m] = next[n] => m = n \/ next[m] = Null
    /\ \A t, u \in Thread : t # u => own[t] \cap own[u] = {}

\* What a pop, or a clear, knows: the node it has seen at the top is not being pushed again.
SHoldPC == {"d_next", "d_cas", "c_cas"}
SKnow(t) ==
    /\ pc[t] \in {"d_guard", "d_check", "c_guard", "c_check"} => lh[t] \in Node
    /\ pc[t] \in {"d_check", "c_check"} => H(t, 0) = lh[t]
    /\ pc[t] \in SHoldPC => lh[t] \in Node /\ U(t, 0) = lh[t] /\ \A u \in Thread : ~PushedBy(u, lh[t])
    /\ pc[t] = "d_cas" => nxt[t] = next[lh[t]]

SInv ==
    /\ STyped /\ R!RGood /\ StackChain /\ SApart
    /\ \A t \in Thread : SOwn(t) /\ SKnow(t)
    /\ \E own \in [Thread -> SUBSET Node] : STaken(own)

SStep(t) == Call(t) \/ Clear(t) \/ StackWorking(t)
SMove ==
    /\ (\E t \in Thread : SStep(t)) \/ (\E n \in Node : Reclaim(n))
    /\ UNCHANGED <<lmsVars, kind>> /\ Watch

\* The stack in terms of its nodes
LEMMA SList ==
  ASSUME SInv
  PROVE  /\ Len(items) \in Nat /\ items \in Seq(Node) /\ DOMAIN items = 1..Len(items)
         /\ items = <<>> <=> Len(items) = 0
         /\ items = <<>> => head = Null
         /\ items # <<>> => /\ head = items[1] /\ head \in Node /\ status[head] = "linked" /\ OnStack(head)
                            /\ next[head] = IF Len(items) = 1 THEN Null ELSE items[2]
         /\ \A i \in 1..Len(items) : /\ items[i] \in Node /\ status[items[i]] = "linked" /\ OnStack(items[i])
                                     /\ next[items[i]] = IF i = Len(items) THEN Null ELSE items[i + 1]
         /\ \A i, j \in 1..Len(items) : items[i] = items[j] => i = j
<1>1. /\ Len(items) \in Nat /\ items \in Seq(Node) /\ DOMAIN items = 1..Len(items)
      /\ (items = <<>> <=> Len(items) = 0)
  BY DEF SInv, STyped, NodeTypeOK
<1>2. /\ \A i \in 1..Len(items) : /\ items[i] \in Node /\ status[items[i]] = "linked" /\ OnStack(items[i])
                                  /\ next[items[i]] = IF i = Len(items) THEN Null ELSE items[i + 1]
      /\ \A i, j \in 1..Len(items) : items[i] = items[j] => i = j
  <2>1. ASSUME NEW i \in 1..Len(items) PROVE items[i] \in Node /\ OnStack(items[i])
    BY <1>1, <2>1 DEF OnStack
  <2>2. ASSUME NEW i \in 1..Len(items)
        PROVE  /\ status[items[i]] = "linked"
               /\ next[items[i]] = IF i = Len(items) THEN Null ELSE items[i + 1]
               /\ \A j \in DOMAIN items : items[i] = items[j] => i = j
    <3>1. i \in DOMAIN items /\ StackChain
      BY <1>1 DEF SInv
    <3> QED BY ONLY <3>1, Zenon DEF StackChain
  <2>3. \A i, j \in 1..Len(items) : items[i] = items[j] => i = j
    BY ONLY <1>1, <2>2, Zenon
  <2>4. \A i \in 1..Len(items) : status[items[i]] = "linked" /\ next[items[i]] = IF i = Len(items) THEN Null ELSE items[i + 1]
    BY ONLY <2>2, Zenon
  <2> QED BY ONLY <2>1, <2>3, <2>4, Zenon
<1>3. head = IF items = <<>> THEN Null ELSE items[1]
  BY DEF SInv, StackChain
<1>4. items # <<>> => 1 \in 1..Len(items) /\ 1 + 1 = 2
  BY <1>1
<1>5. items # <<>> => /\ head = items[1] /\ head \in Node /\ status[head] = "linked" /\ OnStack(head)
                      /\ next[head] = IF Len(items) = 1 THEN Null ELSE items[2]
  BY <1>2, <1>3, <1>4
<1> QED BY <1>1, <1>2, <1>3, <1>5

\* Each step of the stack, one after the other
LEMMA SSteps ==
  ASSUME NEW t \in Thread, SStep(t)
  PROVE  \/ \E v \in Value, n \in Node : Enqueue(t, v, n)
         \/ PushLoad(t) \/ PushCas(t)
         \/ Dequeue(t) \/ TopLoad(t, "d_load", "d_guard", "leave") \/ DeqGuard(t, "d_check") \/ DeqCheck(t, "d_next")
         \/ DeqNext(t, "d_cas") \/ DeqCas(t, "d_data") \/ DeqData(t, lh[t], "d_retire") \/ DeqRetire(t, "leave")
         \/ Clear(t) \/ TopLoad(t, "c_load", "c_guard", "c_leave") \/ ClearGuard(t) \/ ClearCheck(t)
         \/ ClearCas(t) \/ ClearNext(t) \/ ClearRetire(t) \/ Leave(t)
<1>1. CASE Call(t) \/ Leave(t) \/ Clear(t)
  BY <1>1 DEF Call
<1>2. CASE Pushing(t)
  BY <1>2 DEF Pushing
<1>3. CASE Popping(t)
  BY <1>3 DEF Popping
<1>4. CASE Clearing(t)
  BY <1>4 DEF Clearing
<1> QED BY <1>1, <1>2, <1>3, <1>4 DEF SStep, StackWorking

\* What a sequence is with one node more at its front
LEMMA Pushed ==
  ASSUME NEW s \in Seq(Node), NEW n \in Node
  PROVE  /\ <<n>> \o s \in Seq(Node) /\ Len(<<n>> \o s) = Len(s) + 1 /\ Len(s) \in Nat
         /\ (<<n>> \o s)[1] = n /\ \A i \in 1..Len(s) : (<<n>> \o s)[i + 1] = s[i]
OBVIOUS

\* Every step of the stack keeps the types and the program counters.
LEMMA STypeStep ==
  ASSUME SInv, SMove, R!RTypeOK'
  PROVE  STyped'
<1>1. /\ kind' = kind /\ lmsVars' = lmsVars /\ saw' \in [Thread -> BOOLEAN] /\ kind = "stack"
      /\ STyped /\ NodeTypeOK /\ NoLms'
  BY DEF SMove, SInv, STyped, Watch, NoLms, lmsVars, Deciding
<1>2. head \in Node \cup {Null} /\ tail \in Node \cup {Null}
  BY <1>1 DEF NodeTypeOK
<1> DEFINE Rest == /\ head' \in Node \cup {Null} /\ tail' \in Node \cup {Null}
                   /\ next' \in [Node -> Node \cup {Null}]
                   /\ data' \in [Node -> Value \cup {None}]
                   /\ count' = count
                   /\ \A v \in {node', lt', lh', nxt'} : v \in [Thread -> Node \cup {Null}]
                   /\ val' \in [Thread -> Value \cup {None}]
                   /\ items' \in Seq(Node)
                   /\ pc' \in [Thread -> SPC]
<1>3. Rest => STyped'
  BY <1>1 DEF STyped, NodeTypeOK, SPC
<1> USE <1>1 DEF STyped, NodeTypeOK, SPC, queueVars, localVars, reclaimVars, Goto, StackPushPC, StackClearPC, StackTakenPC
<1>4. ASSUME NEW n \in Node, Reclaim(n) PROVE Rest
  BY <1>4 DEF Reclaim
<1>5. ASSUME NEW t \in Thread, SStep(t) PROVE Rest
  <2>1. CASE \E v \in Value, n \in Node : Enqueue(t, v, n)
    BY <2>1 DEF Enqueue
  <2>2. CASE PushLoad(t)
    <3>1. node[t] \in Node
      BY <2>2 DEF PushLoad, SInv, SOwn
    <3>2. [next EXCEPT ![node[t]] = head] \in [Node -> Node \cup {Null}]
      BY <1>2, <3>1
    <3>3. [lh EXCEPT ![t] = head] \in [Thread -> Node \cup {Null}]
      BY <1>2
    <3> QED BY <1>2, <2>2, <3>2, <3>3 DEF PushLoad
  <2>3. CASE PushCas(t)
    <3>1. node[t] \in Node
      BY <2>3 DEF PushCas, SInv, SOwn
    <3>2. <<node[t]>> \o items \in Seq(Node)
      BY <3>1
    <3> QED BY <2>3, <3>1, <3>2 DEF PushCas
  <2>4. CASE Dequeue(t)
    BY <2>4 DEF Dequeue
  <2>5. CASE TopLoad(t, "d_load", "d_guard", "leave")
    BY <2>5 DEF TopLoad
  <2>6. CASE DeqGuard(t, "d_check")
    BY <2>6 DEF DeqGuard
  <2>7. CASE DeqCheck(t, "d_next")
    BY <2>7 DEF DeqCheck
  <2>8. CASE DeqNext(t, "d_cas")
    <3>1. lh[t] \in Node
      BY <2>8 DEF DeqNext, SInv, SKnow, SHoldPC
    <3> QED BY <2>8, <3>1 DEF DeqNext
  <2>9. CASE DeqCas(t, "d_data")
    <3>1. SubSeq(items, 2, Len(items)) \in Seq(Node)
      OBVIOUS
    <3>2. lh[t] \in Node \cup {Null} /\ nxt[t] \in Node \cup {Null}
      OBVIOUS
    <3>3. head' \in Node \cup {Null} /\ items' \in Seq(Node)
      BY <1>2, <2>9, <3>1, <3>2 DEF DeqCas
    <3>4. pc' \in [Thread -> SPC]
      BY <2>9 DEF DeqCas
    <3>5. UNCHANGED <<tail, next, data, localVars, count>>
      BY <2>9 DEF DeqCas
    <3> QED BY <1>2, <3>3, <3>4, <3>5
  <2>10. CASE DeqData(t, lh[t], "d_retire")
    <3>1. lh[t] \in Node
      BY <2>10 DEF DeqData, SInv, SOwn, PopPC
    <3> QED BY <2>10, <3>1 DEF DeqData
  <2>11. CASE DeqRetire(t, "leave")
    BY <2>11 DEF DeqRetire
  <2>12. CASE Clear(t)
    BY <2>12 DEF Clear
  <2>13. CASE TopLoad(t, "c_load", "c_guard", "c_leave")
    BY <2>13 DEF TopLoad
  <2>14. CASE ClearGuard(t)
    BY <2>14 DEF ClearGuard
  <2>15. CASE ClearCheck(t)
    BY <2>15 DEF ClearCheck
  <2>16. CASE ClearCas(t)
    <3>1. head' \in Node \cup {Null} /\ items' \in Seq(Node)
      <4>1. (head' = Null /\ items' = <<>>) \/ (head' = head /\ items' = items)
        BY <2>16 DEF ClearCas
      <4>2. <<>> \in Seq(Node)
        OBVIOUS
      <4> QED BY <1>2, <4>1, <4>2
    <3>2. pc' \in [Thread -> SPC]
      BY <2>16 DEF ClearCas
    <3>3. UNCHANGED <<tail, next, data, localVars, count>>
      BY <2>16 DEF ClearCas
    <3> QED BY <1>2, <3>1, <3>2, <3>3
  <2>17. CASE ClearNext(t)
    <3>1. lh[t] \in Node
      BY <2>17 DEF ClearNext, SInv, SOwn, PopPC
    <3> QED BY <2>17, <3>1 DEF ClearNext
  <2>18. CASE ClearRetire(t)
    BY <2>18 DEF ClearRetire
  <2>19. CASE Leave(t)
    BY <2>19 DEF Leave
  <2> HIDE DEF STyped, NodeTypeOK, Rest
  <2> QED BY <1>5, <2>1, <2>2, <2>3, <2>4, <2>5, <2>6, <2>7, <2>8, <2>9, <2>10, <2>11, <2>12, <2>13, <2>14, <2>15,
             <2>16, <2>17, <2>18, <2>19, SSteps
<1> QED BY <1>3, <1>4, <1>5 DEF SMove

\* Every step of the stack keeps the reclamation contract.
LEMMA SContract ==
  ASSUME SInv, SMove
  PROVE  R!RNext \/ UNCHANGED <<status, hz, using, blockers>>
<1>1. /\ R!RGood /\ R!RTypeOK /\ (head \in Node => status[head] = "linked")
      /\ \A t \in Thread : SOwn(t) /\ SKnow(t)
      /\ \A v \in {node, lt, lh, nxt} : v \in [Thread -> Node \cup {Null}]
  BY SList, NullAssumption DEF SInv, STyped, NodeTypeOK, R!RGood
<1>2. ASSUME NEW n \in Node, Reclaim(n) PROVE R!RNext
  BY <1>2 DEF Reclaim, R!RNext
<1>3. ASSUME NEW t \in Thread, SStep(t) PROVE R!RNext \/ UNCHANGED <<status, hz, using, blockers>>
  <2>1. CASE \E v \in Value, n \in Node : Enqueue(t, v, n)
    BY <2>1 DEF Enqueue, R!RNext
  <2>2. CASE PushLoad(t) \/ PushCas(t) \/ Dequeue(t) \/ TopLoad(t, "d_load", "d_guard", "leave") \/ DeqNext(t, "d_cas")
             \/ DeqData(t, lh[t], "d_retire") \/ Clear(t) \/ TopLoad(t, "c_load", "c_guard", "c_leave")
    BY <2>2 DEF PushLoad, PushCas, Dequeue, TopLoad, DeqNext, DeqData, Clear, reclaimVars
  <2>3. CASE DeqGuard(t, "d_check") \/ ClearGuard(t)
    BY <1>1, <2>3, SetOwn, Slots DEF DeqGuard, ClearGuard
  <2>4. CASE DeqCheck(t, "d_next")
    <3>1. HeadUnmoved(t) => H(t, 0) = head
      BY <1>1, <2>4 DEF DeqCheck, HeadUnmoved, SKnow
    <3> QED BY <1>1, <2>4, <3>1, UseOwn, Slots DEF DeqCheck, reclaimVars
  <2>5. CASE ClearCheck(t)
    <3>1. HeadUnmoved(t) => H(t, 0) = head
      BY <1>1, <2>5 DEF ClearCheck, HeadUnmoved, SKnow
    <3> QED BY <1>1, <2>5, <3>1, UseOwn, Slots DEF ClearCheck, reclaimVars
  <2>6. CASE DeqCas(t, "d_data") \/ ClearCas(t)
    <3>1. lh[t] \in Node
      BY <1>1, <2>6 DEF DeqCas, ClearCas, SKnow, SHoldPC
    <3> QED BY <1>1, <2>6, <3>1 DEF DeqCas, ClearCas, reclaimVars, R!RNext, R!Remove, HeadUnmoved
  <2>7. CASE DeqRetire(t, "leave")
    <3>1. lh[t] \in Node /\ status[lh[t]] = "unlinked"
      BY <1>1, <2>7 DEF DeqRetire, SOwn, PopPC
    <3> QED BY <2>7, <3>1 DEF DeqRetire, R!RNext, R!Surrender
  <2>8. CASE ClearNext(t)
    <3>1. next[lh[t]] # Null => next[lh[t]] \in Node /\ status[next[lh[t]]] = "linked"
      BY <2>8 DEF ClearNext, SInv, STaken, First
    <3> QED BY <2>8, <3>1 DEF ClearNext, reclaimVars, R!RNext, R!Remove
  <2>9. CASE ClearRetire(t)
    <3>1. lh[t] \in Node /\ status[lh[t]] = "unlinked"
      BY <1>1, <2>9 DEF ClearRetire, SOwn, PopPC
    <3> QED BY <2>9, <3>1 DEF ClearRetire, R!RNext, R!Surrender
  <2>10. CASE Leave(t)
    BY <1>1, <2>10, ReleaseOwn DEF Leave
  <2> QED BY <1>1, <1>3, <2>1, <2>2, <2>3, <2>4, <2>5, <2>6, <2>7, <2>8, <2>9, <2>10, SSteps
<1> QED BY <1>2, <1>3 DEF SMove

\* No operation of the stack is about to touch a freed node.
LEMMA STouches ==
  ASSUME SInv
  PROVE  NoUseAfterFree
<1> SUFFICES ASSUME NEW t \in Thread, NEW n \in Touches(t) PROVE status[n] # "free"
  BY DEF NoUseAfterFree
<1>1. kind = "stack" /\ pc[t] \in SPC /\ SOwn(t) /\ SKnow(t) /\ R!RTypeOK /\ R!RInv
  BY DEF SInv, STyped, R!RGood
<1>2. /\ pc[t] \in {"d_data", "c_next", "d_next"} /\ n = lh[t]
  BY <1>1 DEF Touches, SPC, StackPushPC, StackClearPC, StackTakenPC
<1>3. CASE pc[t] = "d_next"
  <2>1. U(t, 0) = n /\ n \in Node
    BY <1>1, <1>2, <1>3 DEF SKnow, SHoldPC
  <2> QED BY <1>1, <2>1, UsedIsSafe, Slots
<1>4. CASE pc[t] # "d_next"
  BY <1>1, <1>2, <1>4 DEF SOwn, PopPC
<1> QED BY <1>3, <1>4

-----------------------------------------------------------------------------
(* The stack: what a step does to the other threads *)

\* The threads of S, of which there is at most one, take a step: it writes the link only of a node it
\* is pushing, or one that is freed; it changes the life only of a node that was in nobody's hands, at
\* the top, or in its own.
Shift(S) ==
    /\ \A u \in Thread \ S : Same(u)
    /\ \A n \in Node :
          /\ \A t \in S : PushedBy(t, n)' => PushedBy(t, n) \/ status[n] = "free"
          /\ next'[n] # next[n] => status'[n] = "free" \/ \E t \in S : PushedBy(t, n)'
          /\ status'[n] # status[n] =>
                status[n] \in {"free", "retired"} \/ OnStack(n) \/ \E t \in S : n = First(t) \/ n \in SHas(t)
          /\ status'[n] = "free" => status[n] \in {"free", "retired"}
          /\ OnStack(n)' => OnStack(n) \/ \E t \in S : PushedBy(t, n)
          /\ \A t \in S : n \in SHas(t)' => n \in SHas(t) \/ status[n] = "linked"

\* The others then have what they had and know what they knew,
LEMMA SOthers ==
  ASSUME SInv, R!RGood', NEW S \in SUBSET Thread, \A t, u \in S : t = u, Shift(S),
         NEW own \in [Thread -> SUBSET Node], STaken(own)
  PROVE  /\ \A u \in Thread \ S : SOwn(u)' /\ SKnow(u)' /\ First(u)' = First(u)
         /\ \A u \in Thread : \A n \in own[u] : /\ next'[n] = next[n] /\ ~OnStack(n)'
                                                /\ \A w \in Thread : ~PushedBy(w, n)'
                                                /\ u \notin S => status'[n] = "linked"
         /\ SApart'
<1>1. /\ R!RTypeOK /\ R!RInv /\ SApart /\ \A u \in Thread : SOwn(u) /\ SKnow(u)
      /\ node \in [Thread -> Node \cup {Null}] /\ lh \in [Thread -> Node \cup {Null}]
  BY DEF SInv, STyped, NodeTypeOK, R!RGood
<1>2. \A u \in Thread \ S : /\ Same(u) /\ \A n : (PushedBy(u, n)' <=> PushedBy(u, n))
                            /\ SHas(u)' = SHas(u)
  BY DEF Shift, Same, PushedBy, SHas
<1>3. ASSUME NEW n \in Node, status[n] \notin {"free", "retired"}, \A t \in S : ~PushedBy(t, n)
      PROVE  /\ next'[n] = next[n] /\ \A t \in S : ~PushedBy(t, n)'
             /\ ~OnStack(n) => ~OnStack(n)'
             /\ ~OnStack(n) /\ (\A t \in S : n # First(t) /\ n \notin SHas(t)) => status'[n] = status[n]
  BY <1>3 DEF Shift
<1>4. \A n \in Node : OnStack(n) => status[n] = "linked"
  <2>1. \A i \in 1..Len(items) : status[items[i]] = "linked"
    BY SList
  <2> QED BY <2>1 DEF OnStack
<1>5. \A u \in Thread : \A n \in SHas(u) : n \in Node /\ status[n] = "unlinked"
  BY <1>1, NullAssumption DEF SHas, SOwn, PopPC
<1>6. \A u \in Thread : \A n : PushedBy(u, n) => n \in Node /\ status[n] = "linked" /\ ~OnStack(n) /\ n = node[u]
  BY <1>1 DEF PushedBy, SOwn
<1>7. \A t \in Thread : First(t) \in Node => status[First(t)] = "linked" /\ \A u \in Thread : ~PushedBy(u, First(t))
  BY NullAssumption DEF STaken
<1>8. ASSUME NEW u \in Thread \ S PROVE SOwn(u)'
  <2>1. ASSUME NEW n, PushedBy(u, n)
        PROVE  n \in Node /\ next'[n] = next[n] /\ ~OnStack(n)' /\ status'[n] = "linked"
    <3>1. n \in Node /\ status[n] = "linked" /\ ~OnStack(n)
      BY <1>6, <2>1
    <3>2. \A t \in S : ~PushedBy(t, n)
      BY <1>1, <2>1 DEF SApart, PushedBy
    <3>3. \A t \in S : n # First(t) /\ n \notin SHas(t)
      BY <1>5, <1>7, <2>1, <3>1
    <3> QED BY <1>3, <3>1, <3>2, <3>3
  <2>2. ASSUME NEW n \in SHas(u) PROVE n \in Node /\ status'[n] = "unlinked"
    <3>1. n \in Node /\ status[n] = "unlinked" /\ ~OnStack(n) /\ \A t \in S : ~PushedBy(t, n)
      BY <1>4, <1>5, <1>6
    <3>2. \A t \in S : n # First(t) /\ n \notin SHas(t)
      BY <1>1, <1>7, <3>1 DEF SApart
    <3> QED BY <1>3, <3>1, <3>2
  <2>3. Same(u) /\ SOwn(u)
    BY <1>1, <1>2
  <2>4. pc'[u] \in StackPushPC => /\ node'[u] \in Node /\ status'[node'[u]] = "linked" /\ ~OnStack(node[u])'
                                  /\ pc'[u] = "s_cas" => next'[node'[u]] = lh'[u]
    <3>1. PICK n : n = node[u]
      OBVIOUS
    <3>2. pc'[u] = pc[u] /\ node'[u] = n /\ lh'[u] = lh[u]
      BY <2>3, <3>1 DEF Same
    <3>3. ASSUME pc[u] \in StackPushPC
          PROVE  n \in Node /\ next'[n] = next[n] /\ ~OnStack(n)' /\ status'[n] = "linked"
      BY <2>1, <3>1, <3>3 DEF PushedBy
    <3>4. ~OnStack(n)' => ~OnStack(node[u])'
      BY <3>2 DEF OnStack
    <3> QED BY <2>3, <3>1, <3>2, <3>3, <3>4 DEF SOwn
  <2>5. pc'[u] \in PopPC => lh'[u] \in Node /\ status'[lh'[u]] = "unlinked"
    BY <2>2, <2>3 DEF Same, SOwn, SHas
  <2>6. pc'[u] = "c_retire" => nxt'[u] = Null \/ (nxt'[u] \in Node /\ status'[nxt'[u]] = "unlinked" /\ nxt'[u] # lh'[u])
    BY <2>2, <2>3 DEF Same, SOwn, SHas
  <2> QED BY <2>4, <2>5, <2>6 DEF SOwn
<1>9. ASSUME NEW u \in Thread \ S PROVE SKnow(u)'
  <2>1. Same(u) /\ SKnow(u)
    BY <1>1, <1>2
  <2>2. PICK n : n = lh[u]
    OBVIOUS
  <2>3. ASSUME pc[u] \in SHoldPC
        PROVE  /\ n \in Node /\ U(u, 0)' = n /\ \A w \in Thread : ~PushedBy(w, n)'
               /\ next'[n] = next[n]
    <3>1. n \in Node /\ U(u, 0) = n /\ U(u, 0)' = n /\ \A w \in Thread : ~PushedBy(w, n)
      BY <2>1, <2>2, <2>3 DEF Same, SKnow
    <3>2. status[n] # "free"
      BY <1>1, <3>1, UsedIsSafe, Slots
    <3>3. status'[n] # "free"
      <4>1. <<u, 0>> \in Slot /\ using'[<<u, 0>>] = n
        BY <3>1, Slots DEF U
      <4> QED BY <3>1, <4>1 DEF R!RGood, R!RInv
    <3>4. \A w \in Thread : ~PushedBy(w, n)'
      BY <1>2, <3>1, <3>2 DEF Shift
    <3> QED BY <3>1, <3>3, <3>4 DEF Shift
  <2>4. pc'[u] = pc[u] /\ lh'[u] = n /\ nxt'[u] = nxt[u] /\ H(u, 0)' = H(u, 0)
    BY <2>1, <2>2 DEF Same
  <2>5. pc'[u] \in SHoldPC => \A w \in Thread : ~PushedBy(w, lh[u])'
    BY <2>3, <2>4 DEF PushedBy
  <2> QED BY <2>1, <2>2, <2>3, <2>4, <2>5 DEF SKnow, SHoldPC
<1>10. ASSUME NEW u \in Thread \ S PROVE First(u)' = First(u)
  <2>1. \A n \in SHas(u) : next'[n] = next[n]
    BY <1>3, <1>5, <1>6
  <2>2. /\ pc[u] = "c_next" => lh[u] \in SHas(u)
        /\ pc[u] = "c_retire" => nxt[u] = Null \/ nxt[u] \in SHas(u)
    BY <1>1 DEF SHas, SOwn, PopPC
  <2> QED BY <1>2, <2>1, <2>2 DEF First, Same
<1>11. ASSUME NEW u \in Thread, NEW n \in own[u]
       PROVE  /\ next'[n] = next[n] /\ ~OnStack(n)' /\ \A w \in Thread : ~PushedBy(w, n)'
              /\ u \notin S => status'[n] = "linked"
  <2>1. n \in Node /\ status[n] = "linked" /\ ~OnStack(n) /\ \A w \in Thread : ~PushedBy(w, n)
    BY DEF STaken
  <2>2. u \notin S => \A t \in S : n # First(t) /\ n \notin SHas(t)
    BY <1>5, <2>1, NullAssumption DEF STaken
  <2> QED BY <1>2, <1>3, <2>1, <2>2
<1>12. SApart'
  <2>1. ASSUME NEW t \in Thread, NEW u \in Thread, t # u, pc'[t] \in StackPushPC, pc'[u] \in StackPushPC
        PROVE  node'[t] # node'[u]
    <3>1. CASE t \notin S /\ u \notin S
      BY <1>1, <1>2, <2>1, <3>1 DEF SApart, Same
    <3>2. ASSUME NEW v \in S, NEW w \in Thread \ S, pc'[v] \in StackPushPC, pc'[w] \in StackPushPC
          PROVE  node'[v] # node'[w]
      <4>1. pc[w] \in StackPushPC /\ node'[w] = node[w] /\ node[w] \in Node /\ status[node[w]] = "linked" /\ PushedBy(w, node[w])
        BY <1>1, <1>2, <3>2 DEF Same, SOwn, PushedBy
      <4>2. ~PushedBy(v, node[w])
        BY <1>1, <4>1 DEF SApart, PushedBy
      <4>3. ~PushedBy(v, node[w])'
        BY <4>1, <4>2 DEF Shift
      <4> QED BY <3>2, <4>1, <4>3 DEF PushedBy
    <3> QED BY <2>1, <3>1, <3>2
  <2>2. ASSUME NEW t \in Thread, NEW u \in Thread, t # u, NEW n \in SHas(t)' PROVE n \notin SHas(u)'
    <3>1. CASE t \notin S /\ u \notin S
      BY <1>1, <1>2, <2>2, <3>1 DEF SApart
    <3>2. ASSUME NEW v \in S, NEW w \in Thread \ S, NEW m \in SHas(v)' PROVE m \notin SHas(w)'
      <4>1. m \in SHas(v) \/ status[m] = "linked"
        BY <3>2 DEF Shift, SHas
      <4> QED BY <1>1, <1>2, <1>5, <4>1 DEF SApart
    <3> QED BY <2>2, <3>1, <3>2
  <2> QED BY <2>1, <2>2 DEF SApart
<1> QED BY <1>8, <1>9, <1>10, <1>11, <1>12

\* so that the invariant is kept, when what is left of the list the thread has taken is T,
LEMMA SResult ==
  ASSUME SInv, R!RGood', STyped', StackChain', NEW t \in Thread, Shift({t}), SOwn(t)', SKnow(t)',
         NEW own \in [Thread -> SUBSET Node], STaken(own), NEW T \in SUBSET Node,
         First(t)' = Null \/ First(t)' \in T,
         \A n \in T : /\ status'[n] = "linked" /\ ~OnStack(n)' /\ \A w \in Thread : ~PushedBy(w, n)'
                      /\ next'[n] = Null \/ (next'[n] \in T /\ next'[n] # First(t)'),
         \A m, n \in T : next'[m] = next'[n] => m = n \/ next'[m] = Null,
         \A u \in Thread : u # t => T \cap own[u] = {}
  PROVE  SInv'
<1>1. /\ \A u \in Thread \ {t} : SOwn(u)' /\ SKnow(u)' /\ First(u)' = First(u)
      /\ \A u \in Thread : \A n \in own[u] : /\ next'[n] = next[n] /\ ~OnStack(n)'
                                             /\ \A w \in Thread : ~PushedBy(w, n)'
                                             /\ u \notin {t} => status'[n] = "linked"
      /\ SApart'
  BY SOthers
<1>2. PICK new \in [Thread -> SUBSET Node] : new[t] = T /\ \A u \in Thread : u # t => new[u] = own[u]
  <2>1. [own EXCEPT ![t] = T] \in [Thread -> SUBSET Node]
    OBVIOUS
  <2> QED BY <2>1
<1>3. STaken(new)'
  <2>1. \A u \in Thread : First(u)' = Null \/ First(u)' \in new[u]
    BY <1>1, <1>2 DEF STaken
  <2>2. ASSUME NEW u \in Thread, NEW n \in new[u]
        PROVE  /\ status'[n] = "linked" /\ ~OnStack(n)' /\ \A w \in Thread : ~PushedBy(w, n)'
               /\ next'[n] = Null \/ (next'[n] \in new[u] /\ next'[n] # First(u)')
    <3>1. CASE u = t
      BY <1>2, <3>1
    <3>2. CASE u # t
      BY <1>1, <1>2, <3>2 DEF STaken
    <3> QED BY <3>1, <3>2
  <2>3. ASSUME NEW u \in Thread, NEW m \in new[u], NEW n \in new[u], next'[m] = next'[n] PROVE m = n \/ next'[m] = Null
    <3>1. CASE u = t
      BY <1>2, <2>3, <3>1
    <3>2. CASE u # t
      BY <1>1, <1>2, <2>3, <3>2 DEF STaken
    <3> QED BY <3>1, <3>2
  <2>4. \A v, u \in Thread : v # u => new[v] \cap new[u] = {}
    <3>1. \A v, u \in Thread : v # u => own[v] \cap own[u] = {}
      BY DEF STaken
    <3> QED BY <1>2, <3>1
  <2> QED BY <2>1, <2>2, <2>3, <2>4 DEF STaken
<1>4. \A u \in Thread : SOwn(u)' /\ SKnow(u)'
  BY <1>1
<1>5. \E o \in [Thread -> SUBSET Node] : STaken(o)'
  BY <1>3
<1> QED BY <1>1, <1>4, <1>5 DEF SInv

\* and when nothing is.
LEMMA SPlain ==
  ASSUME SInv, R!RGood', STyped', StackChain', NEW t \in Thread, Shift({t}), SOwn(t)', SKnow(t)',
         pc'[t] \notin {"c_next", "c_retire"}
  PROVE  SInv'
<1>1. PICK own \in [Thread -> SUBSET Node] : STaken(own)
  BY DEF SInv
<1>2. First(t)' = Null
  BY DEF First
<1>3. {} \in SUBSET Node
  OBVIOUS
<1> QED BY <1>1, <1>2, <1>3, SResult

\* A step that leaves the list and the nodes as they are
LEMMA SQuiet ==
  ASSUME SInv, R!RGood', STyped', NEW t \in Thread, UNCHANGED <<head, next, status, items>>,
         \A u \in Thread : u # t => Same(u),
         pc'[t] \in StackPushPC => pc[t] \in StackPushPC /\ node'[t] = node[t],
         pc'[t] = "s_cas" => pc[t] = "s_cas" /\ lh'[t] = lh[t],
         pc'[t] \in PopPC => pc[t] \in PopPC /\ lh'[t] = lh[t],
         pc'[t] \notin {"c_next", "c_retire"},
         SKnow(t)'
  PROVE  SInv'
<1>1. StackChain'
  BY DEF SInv, StackChain
<1>2. SOwn(t) /\ \A n : OnStack(n)' <=> OnStack(n)
  BY DEF SInv, OnStack
<1>3. SOwn(t)'
  <2>1. PICK n : n = node[t]
    OBVIOUS
  <2>2. pc'[t] \in StackPushPC => ~OnStack(node[t])'
    BY <1>2, <2>1 DEF SOwn, OnStack
  <2> QED BY <1>2, <2>2 DEF SOwn
<1>4. Shift({t})
  <2>1. \A n : PushedBy(t, n)' => PushedBy(t, n)
    BY DEF PushedBy
  <2>2. \A n : n \in SHas(t)' => n \in SHas(t)
    BY DEF SHas, PopPC
  <2> QED BY <1>2, <2>1, <2>2 DEF Shift
<1> QED BY <1>1, <1>3, <1>4, SPlain

\* A pop and a clear read the top and guard it, and an operation ends.
LEMMA SReads ==
  ASSUME SInv, SMove, R!RGood', STyped', NEW t \in Thread,
         \/ Dequeue(t) \/ Clear(t) \/ TopLoad(t, "d_load", "d_guard", "leave") \/ TopLoad(t, "c_load", "c_guard", "c_leave")
         \/ DeqGuard(t, "d_check") \/ ClearGuard(t) \/ DeqCheck(t, "d_next") \/ ClearCheck(t)
         \/ DeqNext(t, "d_cas") \/ DeqData(t, lh[t], "d_retire") \/ Leave(t)
  PROVE  SInv'
<1> USE DEF queueVars, localVars, reclaimVars, StackPushPC, PopPC, SHoldPC
<1>1. /\ R!RTypeOK /\ SKnow(t) /\ SOwn(t) /\ pc \in [Thread -> SPC]
      /\ next \in [Node -> Node \cup {Null}] /\ head \in Node \cup {Null}
      /\ node \in [Thread -> Node \cup {Null}] /\ lt \in [Thread -> Node \cup {Null}]
      /\ lh \in [Thread -> Node \cup {Null}] /\ nxt \in [Thread -> Node \cup {Null}]
  BY DEF SInv, R!RGood, STyped, NodeTypeOK
<1>2. UNCHANGED <<head, next, items>>
  BY DEF Dequeue, Clear, TopLoad, DeqGuard, ClearGuard, DeqCheck, ClearCheck, DeqNext, DeqData, Leave
<1>3. CASE Dequeue(t) \/ Clear(t)
  <2>1. /\ pc' = [pc EXCEPT ![t] = "d_load"] \/ pc' = [pc EXCEPT ![t] = "c_load"]
        /\ UNCHANGED <<status, hz, using, node, lt, lh, nxt>>
    BY <1>3 DEF Dequeue, Clear, Goto
  <2>2. \A u \in Thread : u = t \/ Same(u)
    BY <1>1, <2>1, SlotsKept DEF Same
  <2>3. SKnow(t)' /\ pc'[t] \in {"d_load", "c_load"}
    BY <1>1, <2>1 DEF SKnow
  <2> QED BY <1>1, <1>2, <2>1, <2>2, <2>3, SQuiet
<1>4. CASE TopLoad(t, "d_load", "d_guard", "leave") \/ TopLoad(t, "c_load", "c_guard", "c_leave")
  <2>1. /\ \/ pc' = [pc EXCEPT ![t] = IF head = Null THEN "leave" ELSE "d_guard"]
           \/ pc' = [pc EXCEPT ![t] = IF head = Null THEN "c_leave" ELSE "c_guard"]
        /\ lh' = [lh EXCEPT ![t] = head] /\ UNCHANGED <<status, hz, using, node, lt, nxt>>
    BY <1>4 DEF TopLoad, Goto
  <2>2. \A u \in Thread : u = t \/ Same(u)
    BY <1>1, <2>1, SlotsKept DEF Same
  <2>3. SKnow(t)' /\ pc'[t] \in {"leave", "d_guard", "c_leave", "c_guard"}
    BY <1>1, <2>1 DEF SKnow
  <2> QED BY <1>1, <1>2, <2>1, <2>2, <2>3, SQuiet
<1>5. CASE DeqGuard(t, "d_check") \/ ClearGuard(t)
  <2>1. /\ \/ pc[t] = "d_guard" /\ pc' = [pc EXCEPT ![t] = "d_check"]
           \/ pc[t] = "c_guard" /\ pc' = [pc EXCEPT ![t] = "c_check"]
        /\ R!SetSlot(<<t, 0>>, lh[t]) /\ UNCHANGED <<node, lt, lh, nxt>>
    BY <1>5 DEF DeqGuard, ClearGuard, Goto
  <2>2. /\ \A u \in Thread : u # t => \A i \in {0, 1} : H(u, i)' = H(u, i) /\ U(u, i)' = U(u, i)
        /\ H(t, 0)' = lh[t] /\ status' = status
    BY <1>1, <2>1, SlotIsSet, Slots
  <2>3. \A u \in Thread : u # t => Same(u)
    BY <1>1, <2>1, <2>2 DEF Same
  <2>4. SKnow(t)' /\ pc'[t] \in {"d_check", "c_check"}
    BY <1>1, <2>1, <2>2 DEF SKnow
  <2> QED BY <1>1, <1>2, <2>1, <2>2, <2>3, <2>4, SQuiet
<1>6. CASE DeqCheck(t, "d_next") \/ ClearCheck(t)
  <2>1. /\ pc[t] \in {"d_check", "c_check"} /\ UNCHANGED <<node, lt, lh, nxt>>
        /\ \/ /\ head = lh[t] /\ R!Use(<<t, 0>>)
              /\ pc' = [pc EXCEPT ![t] = "d_next"] \/ pc' = [pc EXCEPT ![t] = "c_cas"]
           \/ /\ UNCHANGED <<status, hz, using>>
              /\ pc' = [pc EXCEPT ![t] = "d_load"] \/ pc' = [pc EXCEPT ![t] = "c_load"]
    BY <1>6 DEF DeqCheck, ClearCheck, Goto, HeadUnmoved
  <2>2. /\ \A u \in Thread : u # t => \A i \in {0, 1} : H(u, i)' = H(u, i) /\ U(u, i)' = U(u, i)
        /\ pc'[t] \in {"d_next", "c_cas"} => U(t, 0)' = H(t, 0) /\ head = lh[t]
        /\ status' = status
    BY <1>1, <2>1, SlotIsUsed, Slots, SlotsKept
  <2>3. \A u \in Thread : u # t => Same(u)
    BY <1>1, <2>1, <2>2 DEF Same
  <2>4. pc'[t] \in {"d_next", "c_cas", "d_load", "c_load"} /\ lh'[t] = lh[t]
    BY <1>1, <2>1
  <2>5. SKnow(t)'
    <3>1. PICK n : n = lh[t]
      OBVIOUS
    <3>2. n \in Node /\ H(t, 0) = n
      BY <1>1, <2>1, <3>1, NullAssumption, SList DEF SKnow
    <3>3. pc'[t] \in {"d_next", "c_cas"} => n = head /\ OnStack(n)
      <4>1. head \in Node => OnStack(head)
        BY SList, NullAssumption
      <4>2. pc'[t] \in {"d_next", "c_cas"} => n = head
        BY <2>2, <3>1
      <4> QED BY <3>2, <4>1, <4>2 DEF OnStack
    <3>4. ASSUME pc'[t] \in {"d_next", "c_cas"}, NEW w \in Thread PROVE ~PushedBy(w, n)'
      <4>1. ~PushedBy(w, n)
        BY <3>3, <3>4 DEF SInv, SOwn, PushedBy
      <4> QED BY <2>3, <2>4, <4>1 DEF PushedBy, Same
    <3>5. pc'[t] \in {"d_next", "c_cas"} => \A w \in Thread : ~PushedBy(w, lh[t])'
      BY <2>4, <3>1, <3>4 DEF PushedBy
    <3> QED BY <2>2, <2>4, <3>1, <3>2, <3>5 DEF SKnow
  <2> QED BY <1>1, <1>2, <2>1, <2>2, <2>3, <2>4, <2>5, SQuiet
<1>7. CASE DeqNext(t, "d_cas")
  <2>1. /\ pc[t] = "d_next" /\ pc' = [pc EXCEPT ![t] = "d_cas"] /\ nxt' = [nxt EXCEPT ![t] = next[lh[t]]]
        /\ UNCHANGED <<status, hz, using, node, lt, lh>>
    BY <1>7 DEF DeqNext, Goto
  <2>2. \A u \in Thread : u = t \/ Same(u)
    BY <1>1, <2>1, SlotsKept DEF Same
  <2>3. pc'[t] = "d_cas" /\ lh'[t] = lh[t] /\ nxt'[t] = next'[lh'[t]]
    BY <1>1, <1>2, <2>1
  <2>4. SKnow(t)'
    <3>1. \A w \in Thread : ~PushedBy(w, lh[t])'
      BY <1>1, <2>1 DEF SKnow, PushedBy
    <3> QED BY <1>1, <2>1, <2>3, <3>1, SlotsKept DEF SKnow
  <2> QED BY <1>1, <1>2, <2>1, <2>2, <2>3, <2>4, SQuiet
<1>8. CASE DeqData(t, lh[t], "d_retire")
  <2>1. /\ pc[t] = "d_data" /\ pc' = [pc EXCEPT ![t] = "d_retire"]
        /\ UNCHANGED <<status, hz, using, node, lt, lh, nxt>>
    BY <1>8 DEF DeqData, Goto
  <2>2. \A u \in Thread : u = t \/ Same(u)
    BY <1>1, <2>1, SlotsKept DEF Same
  <2>3. SKnow(t)' /\ pc'[t] = "d_retire"
    BY <1>1, <2>1 DEF SKnow
  <2> QED BY <1>1, <1>2, <2>1, <2>2, <2>3, SQuiet
<1>9. CASE Leave(t)
  <2>1. /\ pc' = [pc EXCEPT ![t] = "idle"] /\ R!Release({t} \X Guards)
        /\ node' = [node EXCEPT ![t] = Null] /\ lt' = [lt EXCEPT ![t] = Null]
        /\ lh' = [lh EXCEPT ![t] = Null] /\ nxt' = [nxt EXCEPT ![t] = Null]
    BY <1>9 DEF Leave, Goto
  <2>2. /\ \A u \in Thread, j \in Guards : u # t => H(u, j)' = H(u, j) /\ U(u, j)' = U(u, j)
        /\ status' = status
    BY <1>1, <2>1, SlotsReleased
  <2>3. \A u \in Thread : u = t \/ Same(u)
    BY <1>1, <2>1, <2>2, Slots DEF Same
  <2>4. SKnow(t)' /\ pc'[t] = "idle"
    BY <1>1, <2>1 DEF SKnow
  <2> QED BY <1>1, <1>2, <2>1, <2>2, <2>3, <2>4, SQuiet
<1> QED BY <1>3, <1>4, <1>5, <1>6, <1>7, <1>8, <1>9

\* A node freed by the reclaimer
LEMMA SReclaims ==
  ASSUME SInv, SMove, R!RGood', STyped', NEW m \in Node, Reclaim(m)
  PROVE  SInv'
<1> USE DEF queueVars, localVars
<1>1. /\ R!RTypeOK /\ \A u \in Thread : SOwn(u) /\ SKnow(u)
      /\ next \in [Node -> Node \cup {Null}]
  BY DEF SInv, R!RGood, STyped, NodeTypeOK
<1>2. /\ status[m] = "retired" /\ status' = [n \in Node |-> IF n = m THEN "free" ELSE status[n]]
      /\ next' = [next EXCEPT ![m] = Null] /\ UNCHANGED <<head, items, hz, using, node, lt, lh, nxt, pc>>
  BY DEF Reclaim, R!Free
<1>3. Shift({})
  <2>1. \A u \in Thread : Same(u)
    BY <1>2, SlotsKept DEF Same
  <2>2. \A n \in Node : /\ n # m => status'[n] = status[n] /\ next'[n] = next[n]
                        /\ status'[m] = "free"
    BY <1>1, <1>2
  <2>3. \A n : OnStack(n)' <=> OnStack(n)
    BY <1>2 DEF OnStack
  <2> QED BY <1>2, <2>1, <2>2, <2>3 DEF Shift
<1>4. StackChain'
  <2>1. \A i \in DOMAIN items : items[i] \in Node /\ items[i] # m
    BY <1>2, SList
  <2>2. \A i \in DOMAIN items : status'[items[i]] = status[items[i]] /\ next'[items[i]] = next[items[i]]
    BY <1>1, <1>2, <2>1
  <2> QED BY <1>2, <2>2 DEF SInv, StackChain
<1>5. PICK own \in [Thread -> SUBSET Node] : STaken(own)
  BY DEF SInv
<1>6. /\ \A u \in Thread : SOwn(u)' /\ SKnow(u)' /\ First(u)' = First(u)
      /\ \A u \in Thread : \A n \in own[u] : /\ next'[n] = next[n] /\ ~OnStack(n)'
                                             /\ \A w \in Thread : ~PushedBy(w, n)'
                                             /\ status'[n] = "linked"
      /\ SApart'
  BY <1>3, <1>5, SOthers
<1>7. STaken(own)'
  BY <1>5, <1>6 DEF STaken
<1> QED BY <1>4, <1>6, <1>7 DEF SInv

\* A push makes a node and links it to the top,
LEMMA SMakes ==
  ASSUME SInv, SMove, R!RGood', STyped', NEW t \in Thread, NEW v \in Value, NEW m \in Node, Enqueue(t, v, m)
  PROVE  SInv'
<1> USE DEF queueVars, localVars
<1>1. /\ R!RTypeOK /\ SOwn(t) /\ SKnow(t) /\ pc \in [Thread -> SPC]
      /\ next \in [Node -> Node \cup {Null}] /\ node \in [Thread -> Node \cup {Null}]
  BY DEF SInv, R!RGood, STyped, NodeTypeOK
<1>2. /\ status[m] = "free" /\ status' = [status EXCEPT ![m] = "linked"] /\ next' = [next EXCEPT ![m] = Null]
      /\ node' = [node EXCEPT ![t] = m] /\ pc[t] = "idle" /\ pc' = [pc EXCEPT ![t] = "e_load"]
      /\ UNCHANGED <<head, items, hz, using, lt, lh, nxt>>
  BY DEF Enqueue, R!Allocate, R!SetStatus, Goto
<1>3. /\ \A n \in Node : n # m => status'[n] = status[n] /\ next'[n] = next[n]
      /\ status'[m] = "linked" /\ pc'[t] = "e_load" /\ node'[t] = m
      /\ \A n : (OnStack(n)' <=> OnStack(n)) /\ (PushedBy(t, n)' <=> n = m)
      /\ SHas(t)' = {} /\ ~OnStack(m)
  <2>1. \A i \in 1..Len(items) : status[items[i]] = "linked"
    BY SList
  <2> QED BY <1>1, <1>2, <2>1 DEF R!RTypeOK, OnStack, PushedBy, SHas, PopPC, StackPushPC
<1>4. Shift({t})
  <2>1. \A u \in Thread \ {t} : Same(u)
    BY <1>1, <1>2, SlotsKept DEF Same
  <2> QED BY <1>2, <1>3, <2>1 DEF Shift
<1>5. StackChain'
  <2>1. \A i \in DOMAIN items : items[i] \in Node /\ items[i] # m
    BY <1>2, SList
  <2>2. \A i \in DOMAIN items : status'[items[i]] = status[items[i]] /\ next'[items[i]] = next[items[i]]
    BY <1>3, <2>1
  <2> QED BY <1>2, <2>2 DEF SInv, StackChain
<1>6. SOwn(t)' /\ SKnow(t)'
  BY <1>2, <1>3 DEF SOwn, SKnow, OnStack, StackPushPC, PopPC, SHoldPC
<1> QED BY <1>3, <1>4, <1>5, <1>6, SPlain

\* A push, a pop and a clear load the top.
LEMMA SLoads ==
  ASSUME SInv, SMove, R!RGood', STyped', NEW t \in Thread, PushLoad(t)
  PROVE  SInv'
<1> USE DEF queueVars, localVars, reclaimVars
<1>1. /\ R!RTypeOK /\ SOwn(t) /\ SKnow(t) /\ pc \in [Thread -> SPC] /\ pc[t] = "e_load"
      /\ next \in [Node -> Node \cup {Null}] /\ lh \in [Thread -> Node \cup {Null}]
  BY DEF SInv, R!RGood, STyped, NodeTypeOK, PushLoad
<1>2. PICK m \in Node : m = node[t]
  BY <1>1 DEF SOwn, StackPushPC
<1>3. /\ status[m] = "linked" /\ ~OnStack(m)
      /\ lh' = [lh EXCEPT ![t] = head] /\ next' = [next EXCEPT ![m] = head] /\ pc' = [pc EXCEPT ![t] = "s_cas"]
      /\ UNCHANGED <<head, items, status, hz, using, node, lt, nxt>>
  BY <1>1, <1>2 DEF PushLoad, Goto, SOwn, StackPushPC
<1>4. /\ \A n \in Node : n # m => next'[n] = next[n]
      /\ next'[m] = head /\ pc'[t] = "s_cas" /\ node'[t] = m /\ lh'[t] = head
      /\ \A n : (OnStack(n)' <=> OnStack(n)) /\ (PushedBy(t, n)' <=> n = m) /\ (PushedBy(t, n) <=> n = m)
      /\ SHas(t)' = {}
  BY <1>1, <1>2, <1>3 DEF OnStack, PushedBy, SHas, PopPC, StackPushPC
<1>5. Shift({t})
  <2>1. \A u \in Thread \ {t} : Same(u)
    BY <1>1, <1>3, SlotsKept DEF Same
  <2> QED BY <1>3, <1>4, <2>1 DEF Shift
<1>6. StackChain'
  <2>1. \A i \in DOMAIN items : items[i] \in Node /\ items[i] # m
    BY <1>3, SList DEF OnStack
  <2>2. \A i \in DOMAIN items : next'[items[i]] = next[items[i]]
    BY <1>4, <2>1
  <2> QED BY <1>3, <2>2 DEF SInv, StackChain
<1>7. SOwn(t)' /\ SKnow(t)'
  BY <1>3, <1>4 DEF SOwn, SKnow, OnStack, StackPushPC, PopPC, SHoldPC
<1> QED BY <1>4, <1>5, <1>6, <1>7, SPlain

\* and then makes it the top.
LEMMA SPushes ==
  ASSUME SInv, SMove, R!RGood', STyped', NEW t \in Thread, PushCas(t)
  PROVE  SInv'
<1> USE DEF queueVars, localVars, reclaimVars
<1>1. /\ R!RTypeOK /\ SOwn(t) /\ SKnow(t) /\ pc \in [Thread -> SPC] /\ pc[t] = "s_cas" /\ items \in Seq(Node)
      /\ next \in [Node -> Node \cup {Null}]
  BY DEF SInv, R!RGood, STyped, NodeTypeOK, PushCas
<1>2. PICK m \in Node : m = node[t]
  BY <1>1 DEF SOwn, StackPushPC
<1>3. /\ status[m] = "linked" /\ ~OnStack(m) /\ next[m] = lh[t] /\ PushedBy(t, m)
      /\ UNCHANGED <<next, status, hz, using, node, lt, lh, nxt>>
      /\ \/ head = lh[t] /\ head' = m /\ items' = <<m>> \o items /\ pc' = [pc EXCEPT ![t] = "leave"]
         \/ pc' = [pc EXCEPT ![t] = "e_load"] /\ UNCHANGED <<head, items>>
  BY <1>1, <1>2 DEF PushCas, Goto, SOwn, StackPushPC, HeadUnmoved, PushedBy
<1>4. \A u \in Thread : u = t \/ Same(u)
  BY <1>1, <1>3, SlotsKept DEF Same
<1>5. SKnow(t)' /\ pc'[t] \in {"leave", "e_load"}
  BY <1>1, <1>3 DEF SKnow, SHoldPC
<1>6. CASE pc' = [pc EXCEPT ![t] = "e_load"] /\ UNCHANGED <<head, items>>
  BY <1>1, <1>3, <1>4, <1>5, <1>6, SQuiet DEF StackPushPC, PopPC
<1>7. CASE head = lh[t] /\ head' = m /\ items' = <<m>> \o items /\ pc' = [pc EXCEPT ![t] = "leave"]
  <2>1. PICK l \in Nat : l = Len(items)
    BY SList
  <2>2. /\ Len(items') = l + 1 /\ items'[1] = m /\ \A i \in 1..l : items'[i + 1] = items[i]
        /\ items' \in Seq(Node) /\ DOMAIN items' = 1..(l + 1)
    BY <1>1, <1>7, <2>1, Pushed
  <2>3. \A i \in 1..(l + 1) : i = 1 \/ (i - 1 \in 1..l /\ items'[i] = items[i - 1])
    <3>1. ASSUME NEW i \in 1..(l + 1), i # 1 PROVE i - 1 \in 1..l /\ items'[i] = items[i - 1]
      <4>1. i - 1 \in 1..l /\ (i - 1) + 1 = i
        BY <2>1, <3>1
      <4> QED BY <2>2, <4>1
    <3> QED BY <3>1
  <2>4. \A n : OnStack(n)' => n = m \/ OnStack(n)
    BY <2>1, <2>2, <2>3 DEF OnStack
  <2>5. StackChain'
    <3>1. /\ \A i \in 1..l : /\ items[i] \in Node /\ status[items[i]] = "linked" /\ OnStack(items[i]) /\ items[i] # m
                             /\ next[items[i]] = IF i = l THEN Null ELSE items[i + 1]
          /\ \A i, j \in 1..l : items[i] = items[j] => i = j
      BY <1>3, <2>1, SList DEF OnStack
    <3>2. next[m] = IF l = 0 THEN Null ELSE items[1]
      BY <1>3, <1>7, <2>1, SList
    <3>3. head' = IF items' = <<>> THEN Null ELSE items'[1]
      BY <1>7, <2>1, <2>2
    <3>4. ASSUME NEW i \in 1..(l + 1)
          PROVE  /\ status'[items'[i]] = "linked"
                 /\ next'[items'[i]] = IF i = l + 1 THEN Null ELSE items'[i + 1]
                 /\ \A j \in 1..(l + 1) : items'[i] = items'[j] => i = j
      <4>1. CASE i = 1
        <5>1. status'[items'[i]] = "linked" /\ \A j \in 1..(l + 1) : items'[i] = items'[j] => i = j
          BY <1>3, <2>2, <2>3, <3>1, <4>1
        <5>2. next'[items'[i]] = IF i = l + 1 THEN Null ELSE items'[i + 1]
          BY <1>3, <2>1, <2>2, <3>2, <4>1
        <5> QED BY <5>1, <5>2
      <4>2. CASE i # 1
        <5>1. PICK k \in 1..l : i = k + 1 /\ items'[i] = items[k]
          BY <2>1, <2>3, <4>2
        <5>2. status'[items'[i]] = "linked"
          BY <1>3, <3>1, <5>1
        <5>3. next'[items'[i]] = IF i = l + 1 THEN Null ELSE items'[i + 1]
          <6>1. CASE k = l
            BY <1>3, <2>1, <3>1, <5>1, <6>1
          <6>2. CASE k # l
            <7>1. k + 1 \in 1..l
              BY <2>1, <5>1, <6>2
            <7>2. items'[i + 1] = items[k + 1] /\ i # l + 1
              BY <2>1, <2>2, <5>1, <7>1
            <7> QED BY <1>3, <3>1, <5>1, <6>2, <7>2
          <6> QED BY <6>1, <6>2
        <5>4. \A j \in 1..(l + 1) : items'[i] = items'[j] => i = j
          <6>1. ASSUME NEW j \in 1..(l + 1), items'[i] = items'[j] PROVE i = j
            <7>1. CASE j = 1
              BY <2>2, <3>1, <5>1, <6>1, <7>1
            <7>2. CASE j # 1
              <8>1. PICK h \in 1..l : j = h + 1 /\ items'[j] = items[h]
                <9>1. j - 1 \in 1..l /\ items'[j] = items[j - 1] /\ j = (j - 1) + 1
                  BY <2>1, <2>3, <7>2
                <9> QED BY <9>1
              <8> QED BY <3>1, <5>1, <6>1, <8>1
            <7> QED BY <7>1, <7>2
          <6> QED BY <6>1
        <5> QED BY <5>2, <5>3, <5>4
      <4> QED BY <4>1, <4>2
    <3> QED BY <2>2, <3>3, <3>4 DEF StackChain
  <2>6. Shift({t})
    <3>1. \A n : ~PushedBy(t, n)'
      BY <1>1, <1>7 DEF PushedBy, StackPushPC
    <3>2. SHas(t)' = {}
      BY <1>1, <1>7 DEF SHas, PopPC
    <3> QED BY <1>3, <1>4, <2>4, <3>1, <3>2 DEF Shift
  <2>7. SOwn(t)'
    BY <1>1, <1>7 DEF SOwn, StackPushPC, PopPC
  <2> QED BY <1>1, <1>5, <1>7, <2>5, <2>6, <2>7, SPlain
<1> QED BY <1>3, <1>6, <1>7

\* What a sequence is without its first
LEMMA Popped ==
  ASSUME NEW s \in Seq(Node), NEW l \in Nat, Len(s) = l + 1
  PROVE  /\ SubSeq(s, 2, Len(s)) \in Seq(Node) /\ Len(SubSeq(s, 2, Len(s))) = l
         /\ \A i \in 1..l : SubSeq(s, 2, Len(s))[i] = s[i + 1]
OBVIOUS

\* A pop takes the node at the top: its link is still what the pop has read.
LEMMA SPops ==
  ASSUME SInv, SMove, R!RGood', STyped', NEW t \in Thread, DeqCas(t, "d_data")
  PROVE  SInv'
<1> USE DEF queueVars, localVars, reclaimVars
<1>1. /\ R!RTypeOK /\ SOwn(t) /\ SKnow(t) /\ pc \in [Thread -> SPC] /\ pc[t] = "d_cas" /\ items \in Seq(Node)
      /\ next \in [Node -> Node \cup {Null}] /\ status \in [Node -> R!Life]
  BY DEF SInv, R!RGood, R!RTypeOK, STyped, NodeTypeOK, DeqCas
<1>2. PICK m \in Node : m = lh[t] /\ nxt[t] = next[m] /\ \A u \in Thread : ~PushedBy(u, m)
  BY <1>1 DEF SKnow, SHoldPC
<1>3. /\ UNCHANGED <<next, hz, using, node, lt, lh, nxt>>
      /\ \/ /\ head = m /\ head' = next[m] /\ items' = SubSeq(items, 2, Len(items)) /\ pc' = [pc EXCEPT ![t] = "d_data"]
            /\ status' = [status EXCEPT ![m] = "unlinked"]
         \/ pc' = [pc EXCEPT ![t] = "d_load"] /\ UNCHANGED <<head, items, status>>
  BY <1>1, <1>2 DEF DeqCas, Goto, HeadUnmoved, R!SetStatus
<1>4. \A u \in Thread : u = t \/ Same(u)
  BY <1>1, <1>3, SlotsKept DEF Same
<1>5. SKnow(t)' /\ pc'[t] \in {"d_data", "d_load"}
  BY <1>1, <1>3 DEF SKnow, SHoldPC
<1>6. CASE pc' = [pc EXCEPT ![t] = "d_load"] /\ UNCHANGED <<head, items, status>>
  BY <1>1, <1>3, <1>4, <1>5, <1>6, SQuiet DEF StackPushPC, PopPC
<1>7. CASE /\ head = m /\ head' = next[m] /\ items' = SubSeq(items, 2, Len(items)) /\ pc' = [pc EXCEPT ![t] = "d_data"]
           /\ status' = [status EXCEPT ![m] = "unlinked"]
  <2>1. PICK l \in Nat : Len(items) = l + 1
    <3>1. Len(items) \in Nat /\ Len(items) # 0
      BY <1>7, SList, NullAssumption
    <3>2. Len(items) - 1 \in Nat /\ Len(items) = (Len(items) - 1) + 1
      BY <3>1
    <3> QED BY <3>2
  <2>2. /\ items' \in Seq(Node) /\ Len(items') = l /\ DOMAIN items' = 1..l
        /\ \A i \in 1..l : items'[i] = items[i + 1] /\ i + 1 \in 1..(l + 1)
    BY <1>1, <1>7, <2>1, Popped
  <2>3. /\ \A i \in 1..(l + 1) : /\ items[i] \in Node /\ status[items[i]] = "linked" /\ OnStack(items[i])
                                 /\ next[items[i]] = IF i = l + 1 THEN Null ELSE items[i + 1]
        /\ \A i, j \in 1..(l + 1) : items[i] = items[j] => i = j
        /\ m = items[1] /\ next[m] = (IF l = 0 THEN Null ELSE items[2]) /\ status[m] = "linked" /\ OnStack(m)
    <3>1. /\ \A i \in 1..(l + 1) : /\ items[i] \in Node /\ status[items[i]] = "linked" /\ OnStack(items[i])
                                   /\ next[items[i]] = IF i = l + 1 THEN Null ELSE items[i + 1]
          /\ \A i, j \in 1..(l + 1) : items[i] = items[j] => i = j
      BY <2>1, SList
    <3>2. m = items[1] /\ 1 \in 1..(l + 1)
      BY <1>7, <2>1, SList, NullAssumption
    <3> QED BY <3>1, <3>2
  <2>4. \A n : OnStack(n)' => OnStack(n)
    BY <2>1, <2>2 DEF OnStack
  <2>5. \A i \in 1..l : items'[i] # m
    <3>1. ASSUME NEW i \in 1..l PROVE items[i + 1] # m
      <4>1. i + 1 \in 1..(l + 1) /\ 1 \in 1..(l + 1) /\ i + 1 # 1
        BY <2>1
      <4> QED BY <2>3, <4>1
    <3> QED BY <2>2, <3>1
  <2>6. StackChain'
    <3>1. head' = IF items' = <<>> THEN Null ELSE items'[1]
      <4>1. (items' = <<>> <=> l = 0) /\ (l # 0 => items'[1] = items[2])
        BY <2>1, <2>2
      <4> QED BY <1>7, <2>3, <4>1
    <3>2. ASSUME NEW i \in 1..l
          PROVE  /\ status'[items'[i]] = "linked"
                 /\ next'[items'[i]] = IF i = l THEN Null ELSE items'[i + 1]
                 /\ \A j \in 1..l : items'[i] = items'[j] => i = j
      <4>1. PICK k \in 1..(l + 1) : k = i + 1 /\ items'[i] = items[k] /\ items[k] # m
        BY <2>2, <2>5
      <4>2. status'[items'[i]] = "linked"
        BY <1>1, <1>7, <2>3, <4>1
      <4>3. next'[items'[i]] = IF i = l THEN Null ELSE items'[i + 1]
        <5>1. CASE i = l
          BY <1>3, <2>3, <4>1, <5>1
        <5>2. CASE i # l
          <6>1. i + 1 \in 1..l /\ k # l + 1
            BY <2>1, <4>1, <5>2
          <6>2. items'[i + 1] = items[k + 1]
            BY <2>2, <4>1, <6>1
          <6> QED BY <1>3, <2>3, <4>1, <5>2, <6>1, <6>2
        <5> QED BY <5>1, <5>2
      <4>4. \A j \in 1..l : items'[i] = items'[j] => i = j
        <5>1. ASSUME NEW j \in 1..l, items'[i] = items'[j] PROVE i + 1 = j + 1
          BY <2>2, <2>3, <5>1
        <5> QED BY <5>1
      <4> QED BY <4>2, <4>3, <4>4
    <3> QED BY <2>2, <3>1, <3>2 DEF StackChain
  <2>7. \A n : ~PushedBy(t, n)' /\ (n \in SHas(t)' => n = m)
    BY <1>1, <1>2, <1>3, <1>7 DEF PushedBy, StackPushPC, SHas, PopPC
  <2>8. Shift({t})
    <3>1. \A u \in Thread \ {t} : Same(u)
      BY <1>4
    <3>2. \A n \in Node : (status'[n] # status[n] => n = m) /\ status'[m] = "unlinked"
      BY <1>1, <1>7
    <3> QED BY <1>3, <2>3, <2>4, <2>7, <3>1, <3>2 DEF Shift
  <2>9. SOwn(t)'
    BY <1>1, <1>2, <1>3, <1>7 DEF SOwn, StackPushPC, PopPC
  <2> QED BY <1>1, <1>5, <1>7, <2>6, <2>8, <2>9, SPlain
<1> QED BY <1>3, <1>6, <1>7

\* A pop hands the node over,
LEMMA SRetires ==
  ASSUME SInv, SMove, R!RGood', STyped', NEW t \in Thread, DeqRetire(t, "leave")
  PROVE  SInv'
<1> USE DEF queueVars, localVars, reclaimVars
<1>1. /\ R!RTypeOK /\ SOwn(t) /\ SKnow(t) /\ pc \in [Thread -> SPC] /\ pc[t] = "d_retire"
      /\ status \in [Node -> R!Life]
  BY DEF SInv, R!RGood, R!RTypeOK, STyped, NodeTypeOK, DeqRetire
<1>2. PICK m \in Node : m = lh[t] /\ status[m] = "unlinked" /\ m \in SHas(t)
  BY <1>1 DEF SOwn, PopPC, SHas
<1>3. /\ UNCHANGED <<head, items, next, hz, using, node, lt, lh, nxt>>
      /\ pc' = [pc EXCEPT ![t] = "leave"] /\ status' = [status EXCEPT ![m] = "retired"]
  BY <1>1, <1>2 DEF DeqRetire, Goto, R!HandOver
<1>4. /\ pc'[t] = "leave" /\ \A n \in Node : (status'[n] # status[n] => n = m) /\ status'[m] = "retired"
      /\ \A n : ~PushedBy(t, n)' /\ (OnStack(n)' <=> OnStack(n))
      /\ SHas(t)' = {}
  BY <1>1, <1>3 DEF PushedBy, StackPushPC, SHas, PopPC, OnStack
<1>5. Shift({t})
  <2>1. \A u \in Thread \ {t} : Same(u)
    BY <1>1, <1>3, SlotsKept DEF Same
  <2> QED BY <1>2, <1>3, <1>4, <2>1 DEF Shift
<1>6. StackChain'
  <2>1. \A i \in DOMAIN items : items[i] \in Node /\ items[i] # m
    BY <1>2, SList
  <2>2. \A i \in DOMAIN items : status'[items[i]] = status[items[i]]
    BY <1>4, <2>1
  <2> QED BY <1>3, <2>2 DEF SInv, StackChain
<1>7. SOwn(t)' /\ SKnow(t)'
  BY <1>4 DEF SOwn, SKnow, StackPushPC, PopPC, SHoldPC
<1> QED BY <1>4, <1>5, <1>6, <1>7, SPlain

\* A clear takes the whole list: the first node is in its hands, the others are left of the list,
LEMMA SClears ==
  ASSUME SInv, SMove, R!RGood', STyped', NEW t \in Thread, ClearCas(t)
  PROVE  SInv'
<1> USE DEF queueVars, localVars, reclaimVars
<1>1. /\ R!RTypeOK /\ SOwn(t) /\ SKnow(t) /\ pc \in [Thread -> SPC] /\ pc[t] = "c_cas" /\ items \in Seq(Node)
      /\ next \in [Node -> Node \cup {Null}] /\ status \in [Node -> R!Life]
  BY DEF SInv, R!RGood, R!RTypeOK, STyped, NodeTypeOK, ClearCas
<1>2. PICK m \in Node : m = lh[t] /\ \A u \in Thread : ~PushedBy(u, m)
  BY <1>1 DEF SKnow, SHoldPC
<1>3. /\ UNCHANGED <<next, hz, using, node, lt, lh, nxt>>
      /\ \/ /\ head = m /\ head' = Null /\ items' = <<>> /\ pc' = [pc EXCEPT ![t] = "c_next"]
            /\ status' = [status EXCEPT ![m] = "unlinked"]
         \/ pc' = [pc EXCEPT ![t] = "c_load"] /\ UNCHANGED <<head, items, status>>
  BY <1>1, <1>2 DEF ClearCas, Goto, HeadUnmoved, R!SetStatus
<1>4. \A u \in Thread : u = t \/ Same(u)
  BY <1>1, <1>3, SlotsKept DEF Same
<1>5. SKnow(t)' /\ pc'[t] \in {"c_next", "c_load"}
  BY <1>1, <1>3 DEF SKnow, SHoldPC
<1>6. CASE pc' = [pc EXCEPT ![t] = "c_load"] /\ UNCHANGED <<head, items, status>>
  BY <1>1, <1>3, <1>4, <1>5, <1>6, SQuiet DEF StackPushPC, PopPC
<1>7. CASE /\ head = m /\ head' = Null /\ items' = <<>> /\ pc' = [pc EXCEPT ![t] = "c_next"]
           /\ status' = [status EXCEPT ![m] = "unlinked"]
  <2>1. PICK l \in Nat : Len(items) = l /\ l > 0
    <3>1. Len(items) \in Nat /\ Len(items) # 0
      BY <1>7, SList, NullAssumption
    <3> QED BY <3>1
  <2>2. /\ \A i \in 1..l : /\ items[i] \in Node /\ status[items[i]] = "linked" /\ OnStack(items[i])
                           /\ next[items[i]] = IF i = l THEN Null ELSE items[i + 1]
        /\ \A i, j \in 1..l : items[i] = items[j] => i = j
        /\ m = items[1] /\ 1 \in 1..l /\ next[m] = (IF l = 1 THEN Null ELSE items[2]) /\ status[m] = "linked" /\ OnStack(m)
    <3>1. /\ \A i \in 1..l : /\ items[i] \in Node /\ status[items[i]] = "linked" /\ OnStack(items[i])
                             /\ next[items[i]] = IF i = l THEN Null ELSE items[i + 1]
          /\ \A i, j \in 1..l : items[i] = items[j] => i = j
      BY <2>1, SList
    <3>2. m = items[1] /\ 1 \in 1..l
      BY <1>7, <2>1, SList
    <3> QED BY <3>1, <3>2
  <2>3. PICK T \in SUBSET Node : \A n \in Node : n \in T <=> \E i \in 2..l : items[i] = n
    <3>1. {n \in Node : \E i \in 2..l : items[i] = n} \in SUBSET Node
      OBVIOUS
    <3> QED BY <3>1
  <2>4. /\ \A n \in Node : status'[n] # status[n] => n = m
        /\ status'[m] = "unlinked" /\ \A n \in Node : n # m => status'[n] = status[n]
        /\ pc'[t] = "c_next" /\ lh'[t] = m /\ next' = next /\ \A n : ~OnStack(n)'
    <3>1. Len(<<>>) = 0
      OBVIOUS
    <3> QED BY <1>1, <1>2, <1>3, <1>7, <3>1 DEF OnStack
  <2>5. StackChain'
    BY <1>7 DEF StackChain
  <2>6. \A n \in Node : ~PushedBy(t, n)' /\ (n \in SHas(t)' => n = m)
    BY <2>4 DEF PushedBy, StackPushPC, SHas, PopPC
  <2>7. Shift({t})
    <3>1. \A u \in Thread \ {t} : Same(u)
      BY <1>4
    <3> QED BY <2>2, <2>4, <2>6, <3>1 DEF Shift
  <2>8. SOwn(t)'
    BY <2>4 DEF SOwn, StackPushPC, PopPC
  <2>9. PICK own \in [Thread -> SUBSET Node] : STaken(own)
    BY DEF SInv
  <2>10. First(t)' = next[m]
    BY <2>4 DEF First
  <2>11. next[m] = Null \/ next[m] \in T
    <3>1. CASE l = 1
      BY <2>2, <3>1
    <3>2. CASE l # 1
      <4>1. 2 \in 1..l /\ 2 \in 2..l
        BY <2>1, <3>2
      <4> QED BY <2>2, <2>3, <3>2, <4>1
    <3> QED BY <3>1, <3>2
  <2>12. ASSUME NEW n \in T
         PROVE  /\ status'[n] = "linked" /\ ~OnStack(n)' /\ \A w \in Thread : ~PushedBy(w, n)'
                /\ next'[n] = Null \/ (next'[n] \in T /\ next'[n] # next[m])
                /\ OnStack(n)
    <3>1. PICK i \in 2..l : items[i] = n
      BY <2>3
    <3>2. i \in 1..l /\ 1 \in 1..l /\ i # 1
      BY <2>1
    <3>3. n \in Node /\ n # m /\ status[n] = "linked" /\ OnStack(n) /\ next[n] = IF i = l THEN Null ELSE items[i + 1]
      BY <2>2, <3>1, <3>2
    <3>4. \A w \in Thread : ~PushedBy(w, n)'
      <4>1. \A w \in Thread : ~PushedBy(w, n)
        BY <3>3 DEF SInv, SOwn, PushedBy
      <4> QED BY <1>4, <2>6, <3>3, <4>1 DEF PushedBy, Same
    <3>5. next[n] = Null \/ (next[n] \in T /\ next[n] # next[m])
      <4>1. CASE i = l
        BY <3>3, <4>1
      <4>2. CASE i # l
        <5>1. i + 1 \in 2..l /\ i + 1 \in 1..l /\ 2 \in 1..l /\ i + 1 # 2 /\ l # 1
          BY <2>1, <3>2, <4>2
        <5>2. items[i + 1] \in Node /\ items[i + 1] # items[2]
          BY <2>2, <5>1
        <5>3. items[i + 1] \in T
          BY <2>3, <5>1, <5>2
        <5> QED BY <2>2, <3>3, <4>2, <5>1, <5>2, <5>3
      <4> QED BY <4>1, <4>2
    <3> QED BY <2>4, <3>3, <3>4, <3>5
  <2>13. \A a, b \in T : next'[a] = next'[b] => a = b \/ next'[a] = Null
    <3>1. ASSUME NEW a \in T, NEW b \in T, next[a] = next[b], next[a] # Null PROVE a = b
      <4>1. PICK i \in 2..l, j \in 2..l : items[i] = a /\ items[j] = b
        BY <2>3
      <4>2. i \in 1..l /\ j \in 1..l
        BY <2>1
      <4>3. i # l /\ j # l /\ items[i + 1] = items[j + 1]
        BY <2>2, <3>1, <4>1, <4>2
      <4>4. i + 1 \in 1..l /\ j + 1 \in 1..l
        BY <2>1, <4>3
      <4>5. i + 1 = j + 1
        BY <2>2, <4>3, <4>4
      <4> QED BY <4>1, <4>5
    <3> QED BY <2>4, <3>1
  <2>14. \A u \in Thread : u # t => T \cap own[u] = {}
    BY <2>9, <2>12 DEF STaken
  <2> QED BY <1>5, <2>5, <2>7, <2>8, <2>9, <2>10, <2>11, <2>12, <2>13, <2>14, SResult
<1> QED BY <1>3, <1>6, <1>7

\* goes on to the next of them,
LEMMA SNexts ==
  ASSUME SInv, SMove, R!RGood', STyped', NEW t \in Thread, ClearNext(t)
  PROVE  SInv'
<1> USE DEF queueVars, localVars, reclaimVars
<1>1. /\ R!RTypeOK /\ SOwn(t) /\ SKnow(t) /\ pc \in [Thread -> SPC] /\ pc[t] = "c_next"
      /\ next \in [Node -> Node \cup {Null}] /\ status \in [Node -> R!Life] /\ nxt \in [Thread -> Node \cup {Null}]
  BY DEF SInv, R!RGood, R!RTypeOK, STyped, NodeTypeOK, ClearNext
<1>2. PICK m \in Node : m = lh[t] /\ status[m] = "unlinked" /\ m \in SHas(t)
  BY <1>1 DEF SOwn, PopPC, SHas
<1>3. PICK f \in Node \cup {Null} : f = next[m] /\ First(t) = f
  BY <1>1, <1>2 DEF First
<1>4. /\ UNCHANGED <<head, items, next, hz, using, node, lt, lh>>
      /\ pc' = [pc EXCEPT ![t] = "c_retire"] /\ nxt' = [nxt EXCEPT ![t] = f]
      /\ f # Null => status' = [status EXCEPT ![f] = "unlinked"]
      /\ f = Null => status' = status
  BY <1>1, <1>2, <1>3 DEF ClearNext, Goto, R!SetStatus
<1>5. PICK own \in [Thread -> SUBSET Node] : STaken(own)
  BY DEF SInv
<1>6. f # Null => f \in Node /\ f \in own[t] /\ status[f] = "linked" /\ ~OnStack(f)
  BY <1>3, <1>5 DEF STaken
<1>7. /\ pc'[t] = "c_retire" /\ lh'[t] = m /\ nxt'[t] = f
      /\ \A n \in Node : (status'[n] # status[n] => n = f) /\ (f # Null => status'[f] = "unlinked")
      /\ \A n : ~PushedBy(t, n)' /\ (OnStack(n)' <=> OnStack(n))
      /\ \A n \in SHas(t)' : n = m \/ n = f
  BY <1>1, <1>2, <1>4, <1>6 DEF PushedBy, StackPushPC, SHas, PopPC, OnStack
<1>8. Shift({t})
  <2>1. \A u \in Thread \ {t} : Same(u)
    BY <1>1, <1>4, SlotsKept DEF Same
  <2>2. \A n : n \in SHas(t)' => n \in Node
    BY DEF SHas
  <2> QED BY <1>2, <1>3, <1>4, <1>6, <1>7, <2>1, NullAssumption DEF Shift
<1>9. StackChain'
  <2>1. \A i \in DOMAIN items : items[i] \in Node /\ OnStack(items[i])
    BY SList
  <2>2. \A i \in DOMAIN items : items[i] \in Node /\ items[i] # f
    BY <1>6, <2>1, NullAssumption DEF OnStack
  <2>3. \A i \in DOMAIN items : status'[items[i]] = status[items[i]]
    BY <1>7, <2>2
  <2> QED BY <1>4, <2>3 DEF SInv, StackChain
<1>10. SOwn(t)' /\ SKnow(t)'
  <2>1. status'[m] = "unlinked" /\ (f # Null => f # m /\ f \in Node)
    <3>1. f = Null \/ (f \in Node /\ f # m)
      BY <1>2, <1>6
    <3>2. m # f => status'[m] = status[m]
      BY <1>7
    <3> QED BY <1>2, <1>7, <3>1, <3>2, NullAssumption
  <2> QED BY <1>7, <2>1 DEF SOwn, SKnow, StackPushPC, PopPC, SHoldPC
<1>11. PICK T \in SUBSET Node : T = own[t] \ {f}
  OBVIOUS
<1>12. First(t)' = IF f = Null THEN Null ELSE next[f]
  BY <1>4, <1>7 DEF First
<1>13. First(t)' = Null \/ First(t)' \in T
  BY <1>3, <1>5, <1>6, <1>11, <1>12 DEF STaken
<1>14. ASSUME NEW n \in T
       PROVE  /\ status'[n] = "linked" /\ ~OnStack(n)' /\ \A w \in Thread : ~PushedBy(w, n)'
              /\ next'[n] = Null \/ (next'[n] \in T /\ next'[n] # First(t)')
  <2>1. n \in own[t] /\ n # f /\ n \in Node
    BY <1>11
  <2>2. status[n] = "linked" /\ (next[n] = Null \/ (next[n] \in own[t] /\ next[n] # f))
    BY <1>3, <1>5, <2>1 DEF STaken
  <2>3. f # Null => next[n] # next[f] \/ next[n] = Null
    BY <1>5, <1>6, <2>1 DEF STaken
  <2>4. ~OnStack(n)' /\ \A w \in Thread : ~PushedBy(w, n)'
    BY <1>5, <1>8, <2>1, SOthers
  <2> QED BY <1>4, <1>7, <1>11, <1>12, <2>1, <2>2, <2>3, <2>4
<1>15. \A a, b \in T : next'[a] = next'[b] => a = b \/ next'[a] = Null
  BY <1>4, <1>5, <1>11 DEF STaken
<1>16. \A u \in Thread : u # t => T \cap own[u] = {}
  BY <1>5, <1>11 DEF STaken
<1> QED BY <1>5, <1>8, <1>9, <1>10, <1>13, <1>14, <1>15, <1>16, SResult

\* and hands over the one before.
LEMMA SDrops ==
  ASSUME SInv, SMove, R!RGood', STyped', NEW t \in Thread, ClearRetire(t)
  PROVE  SInv'
<1> USE DEF queueVars, localVars, reclaimVars
<1>1. /\ R!RTypeOK /\ SOwn(t) /\ SKnow(t) /\ pc \in [Thread -> SPC] /\ pc[t] = "c_retire"
      /\ next \in [Node -> Node \cup {Null}] /\ status \in [Node -> R!Life]
      /\ nxt \in [Thread -> Node \cup {Null}] /\ lh \in [Thread -> Node \cup {Null}]
  BY DEF SInv, R!RGood, R!RTypeOK, STyped, NodeTypeOK, ClearRetire
<1>2. PICK m \in Node : m = lh[t] /\ status[m] = "unlinked" /\ m \in SHas(t)
  BY <1>1 DEF SOwn, PopPC, SHas
<1>3. PICK f \in Node \cup {Null} : f = nxt[t] /\ (f # Null => f \in SHas(t) /\ status[f] = "unlinked" /\ f # m)
  BY <1>1, <1>2 DEF SOwn, SHas
<1>4. /\ UNCHANGED <<head, items, next, hz, using, node, lt>>
      /\ pc' = [pc EXCEPT ![t] = IF f = Null THEN "c_leave" ELSE "c_next"]
      /\ lh' = [lh EXCEPT ![t] = f] /\ nxt' = [nxt EXCEPT ![t] = Null]
      /\ status' = [status EXCEPT ![m] = "retired"]
  BY <1>1, <1>2, <1>3 DEF ClearRetire, Goto, R!HandOver
<1>5. PICK own \in [Thread -> SUBSET Node] : STaken(own)
  BY DEF SInv
<1>6. /\ pc'[t] = (IF f = Null THEN "c_leave" ELSE "c_next") /\ lh'[t] = f /\ nxt'[t] = Null
      /\ \A n \in Node : (n # m => status'[n] = status[n]) /\ status'[m] = "retired"
      /\ \A n : ~PushedBy(t, n)' /\ (OnStack(n)' <=> OnStack(n))
      /\ \A n \in SHas(t)' : n = f /\ f # Null
  BY <1>1, <1>4 DEF PushedBy, StackPushPC, SHas, PopPC, OnStack
<1>7. Shift({t})
  <2>1. \A u \in Thread \ {t} : Same(u)
    BY <1>1, <1>4, SlotsKept DEF Same
  <2> QED BY <1>2, <1>3, <1>4, <1>6, <2>1 DEF Shift
<1>8. StackChain'
  <2>1. \A i \in DOMAIN items : items[i] \in Node /\ items[i] # m
    BY <1>2, SList
  <2>2. \A i \in DOMAIN items : status'[items[i]] = status[items[i]]
    BY <1>6, <2>1
  <2> QED BY <1>4, <2>2 DEF SInv, StackChain
<1>9. SOwn(t)' /\ SKnow(t)'
  <2>1. f # Null => status'[f] = "unlinked" /\ f \in Node
    BY <1>3, <1>6
  <2> QED BY <1>6, <2>1 DEF SOwn, SKnow, StackPushPC, PopPC, SHoldPC
<1>10. First(t)' = First(t) /\ (First(t) = Null \/ First(t) \in own[t])
  BY <1>1, <1>3, <1>4, <1>5, <1>6 DEF First, STaken
<1>11. ASSUME NEW n \in own[t]
       PROVE  /\ status'[n] = "linked" /\ ~OnStack(n)' /\ \A w \in Thread : ~PushedBy(w, n)'
              /\ next'[n] = Null \/ (next'[n] \in own[t] /\ next'[n] # First(t)')
  <2>1. n \in Node /\ status[n] = "linked" /\ n # m
    BY <1>2, <1>5 DEF STaken
  <2>2. ~OnStack(n)' /\ \A w \in Thread : ~PushedBy(w, n)'
    BY <1>5, <1>7, SOthers
  <2> QED BY <1>4, <1>5, <1>6, <1>10, <2>1, <2>2 DEF STaken
<1>12. \A a, b \in own[t] : next'[a] = next'[b] => a = b \/ next'[a] = Null
  BY <1>4, <1>5 DEF STaken
<1>13. own[t] \in SUBSET Node /\ \A u \in Thread : u # t => own[t] \cap own[u] = {}
  BY <1>5 DEF STaken
<1> QED BY <1>5, <1>7, <1>8, <1>9, <1>10, <1>11, <1>12, <1>13, SResult

\* The stack keeps its invariant.
LEMMA SKeeps ==
  ASSUME SInv, SMove
  PROVE  SInv'
<1>1. R!RGood'
  BY SContract, NullAssumption, R!GoodStep DEF SInv, R!rvars
<1>2. STyped'
  BY <1>1, STypeStep DEF R!RGood
<1>3. ASSUME NEW n \in Node, Reclaim(n) PROVE SInv'
  BY <1>1, <1>2, <1>3, SReclaims
<1>4. ASSUME NEW t \in Thread, SStep(t) PROVE SInv'
  <2> USE <1>1, <1>2
  <2>1. CASE \E v \in Value, n \in Node : Enqueue(t, v, n)
    BY <2>1, SMakes
  <2>2. CASE PushLoad(t)
    BY <2>2, SLoads
  <2>3. CASE PushCas(t)
    BY <2>3, SPushes
  <2>4. CASE \/ Dequeue(t) \/ Clear(t) \/ TopLoad(t, "d_load", "d_guard", "leave") \/ TopLoad(t, "c_load", "c_guard", "c_leave")
             \/ DeqGuard(t, "d_check") \/ ClearGuard(t) \/ DeqCheck(t, "d_next") \/ ClearCheck(t)
             \/ DeqNext(t, "d_cas") \/ DeqData(t, lh[t], "d_retire") \/ Leave(t)
    BY <2>4, SReads
  <2>5. CASE DeqCas(t, "d_data")
    BY <2>5, SPops
  <2>6. CASE DeqRetire(t, "leave")
    BY <2>6, SRetires
  <2>7. CASE ClearCas(t)
    BY <2>7, SClears
  <2>8. CASE ClearNext(t)
    BY <2>8, SNexts
  <2>9. CASE ClearRetire(t)
    BY <2>9, SDrops
  <2> HIDE <1>1, <1>2
  <2> QED BY <1>4, <2>1, <2>2, <2>3, <2>4, <2>5, <2>6, <2>7, <2>8, <2>9, SSteps
<1> QED BY <1>3, <1>4 DEF SMove

-----------------------------------------------------------------------------
(* All three *)

Inv == (kind \in {"ms", "moir"} => QInv) /\ (kind = "stack" => SInv)

\* A new object satisfies the invariant,
LEMMA Begins == QInit => Inv
<1> SUFFICES ASSUME QInit PROVE Inv
  OBVIOUS
<1>1. kind \in {"ms", "moir", "lms", "stack"}
  BY KindsAssumption DEF QInit
<1>2. ASSUME NEW first \in Node \cup {Null}, InitWith(first), items = <<>>, NoLms
      PROVE  NodeTypeOK /\ R!RGood
  <2>1. <<>> \in Seq(Node) /\ 0 \in 0..(CountSize - 1)
    BY CountAssumption
  <2>2. R!RTypeOK
    BY <1>2 DEF InitWith, R!RTypeOK, R!Life
  <2>3. R!RInv /\ R!Unblocked /\ R!RHolds
    BY <1>2, NullAssumption DEF InitWith, R!RInv, R!Unblocked, R!RHolds
  <2>4. NodeTypeOK
    BY <1>2, <2>1, <2>2 DEF InitWith, NodeTypeOK
  <2> QED BY <2>2, <2>3, <2>4 DEF R!RGood
<1>3. CASE kind \in {"ms", "moir"}
  <2>1. PICK dummy \in Node : InitWith(dummy) /\ items = <<>> /\ NoLms
    BY <1>3 DEF QInit, MSInit
  <2>2. QTyped /\ R!RGood
    BY <1>2, <1>3, <2>1 DEF QTyped, QPC, InitWith
  <2>3. Len(items) = 0 /\ At(0) = dummy /\ tail = dummy /\ status[dummy] = "linked" /\ next[dummy] = Null
    BY <2>1 DEF InitWith, At
  <2>4. QChain
    <3>1. \A i \in 0..Len(items) : i = 0
      BY <2>3
    <3> QED BY <2>3, <3>1 DEF QChain
  <2>5. QTail
    BY <2>3 DEF QTail
  <2>6. QGone /\ QApart
    BY <2>1 DEF InitWith, QGone, Gone, QApart, MakingPC, TakingPC
  <2>7. \A t \in Thread : QKnow(t)
    BY <2>1 DEF InitWith, QKnow, QOwn, QEnq, QDeq, MakingPC, TakingPC, HoldPC, KnowPC
  <2> QED BY <1>3, <2>2, <2>4, <2>5, <2>6, <2>7 DEF QInv, Inv
<1>4. CASE kind = "stack"
  <2>1. InitWith(Null) /\ items = <<>> /\ NoLms
    BY <1>4 DEF QInit, StackInit
  <2>2. STyped /\ R!RGood
    BY <1>2, <1>4, <2>1 DEF STyped, SPC, InitWith
  <2>3. StackChain
    BY <2>1 DEF StackChain, InitWith
  <2>4. \A t \in Thread : pc[t] = "idle"
    BY <2>1 DEF InitWith
  <2>5. SApart /\ \A t \in Thread : SOwn(t) /\ SKnow(t)
    BY <2>4 DEF SApart, SOwn, SKnow, SHas, StackPushPC, PopPC, SHoldPC
  <2>6. STaken([t \in Thread |-> {}])
    BY <2>4 DEF STaken, First
  <2>7. [t \in Thread |-> {}] \in [Thread -> SUBSET Node]
    OBVIOUS
  <2>8. \E own \in [Thread -> SUBSET Node] : STaken(own)
    BY <2>6, <2>7
  <2> QED BY <1>4, <2>2, <2>3, <2>5, <2>8 DEF SInv, Inv
<1>5. CASE kind = "lms"
  BY <1>5 DEF Inv
<1> QED BY <1>1, <1>3, <1>4, <1>5

\* a step of it is one of its class,
LEMMA Moves ==
  ASSUME QNext
  PROVE  (kind \in {"ms", "moir"} => QMove) /\ (kind = "stack" => SMove)
<1>1. ASSUME kind \in {"ms", "moir"} PROVE QMove
  BY <1>1 DEF QNext, QMove, QStep, QCall, QWorking, QReclaim, MSWorking, MoirWorking
<1>2. ASSUME kind = "stack" PROVE SMove
  BY <1>2 DEF QNext, SMove, SStep, QCall, QWorking, QReclaim, StackWorking
<1> QED BY <1>1, <1>2

\* and every step keeps the invariant.
LEMMA Keeps == Inv /\ [QNext]_qvars => Inv'
<1> SUFFICES ASSUME Inv, [QNext]_qvars PROVE Inv'
  OBVIOUS
<1>1. CASE QNext
  <2>1. kind' = kind
    BY <1>1 DEF QNext
  <2> QED BY <1>1, <2>1, Moves, QKeeps, SKeeps DEF Inv
<1>2. CASE UNCHANGED qvars
  <2> USE DEF qvars, vars, lmsVars, queueVars, reclaimVars, localVars
  <2>1. QInv' <=> QInv
    BY <1>2 DEF QInv, QTyped, NodeTypeOK, NoLms, R!RGood, R!RTypeOK, R!RInv, R!Unblocked, R!RHolds, QChain, QTail, QGone, Gone,
                QApart, QKnow, QOwn, QEnq, QDeq, At, OnList, H, U, QPC
  <2>2. SInv' <=> SInv
    BY <1>2 DEF SInv, STyped, NodeTypeOK, NoLms, R!RGood, R!RTypeOK, R!RInv, R!Unblocked, R!RHolds, StackChain, SApart, SHas,
                SOwn, SKnow, STaken, First, OnStack, PushedBy, H, U
  <2> QED BY <1>2, <2>1, <2>2 DEF Inv
<1> QED BY <1>1, <1>2

\* Inv is an inductive invariant of the queues and the stack.
THEOREM Always == QSpec => []Inv
BY Begins, Keeps, PTL DEF QSpec

-----------------------------------------------------------------------------
(* The counter of a queue *)

Late(here) == Cardinality({t \in Thread : pc[t] \in here})
Added == {"e_count", "e_prev"}
Taken == {"d_fix", "d_fix2", "d_data", "d_count"}
Counted == \E k \in Int : count + Late(Added) = Len(items) + Late(Taken) + CountSize * k

\* What the step of one thread does to the number of threads that are at some place
LEMMA LateMoves ==
  ASSUME IsFiniteSet(Thread), NEW t \in Thread, NEW here, \A u \in Thread : u # t => pc'[u] = pc[u]
  PROVE  /\ Late(here) \in Nat /\ Late(here)' \in Nat
         /\ (pc[t] \in here <=> pc'[t] \in here) => Late(here)' = Late(here)
         /\ pc[t] \notin here /\ pc'[t] \in here => Late(here)' = Late(here) + 1
         /\ pc[t] \in here /\ pc'[t] \notin here => Late(here)' = Late(here) - 1
<1>1. PICK A : A = {u \in Thread : pc[u] \in here}
  OBVIOUS
<1>2. PICK B : B = {u \in Thread : pc'[u] \in here}
  OBVIOUS
<1>3. Late(here) = Cardinality(A) /\ Late(here)' = Cardinality(B)
  BY <1>1, <1>2 DEF Late
<1>4. IsFiniteSet(A) /\ IsFiniteSet(B)
  BY <1>1, <1>2, FS_Subset
<1>5. Cardinality(A) \in Nat /\ Cardinality(B) \in Nat
  BY <1>4, FS_CardinalityType
<1>6. (pc[t] \in here <=> pc'[t] \in here) => A = B
  BY <1>1, <1>2
<1>7. ASSUME pc[t] \notin here, pc'[t] \in here PROVE Cardinality(B) = Cardinality(A) + 1
  <2>1. B = A \cup {t} /\ t \notin A
    BY <1>1, <1>2, <1>7
  <2> QED BY <1>4, <2>1, FS_AddElement
<1>8. ASSUME pc[t] \in here, pc'[t] \notin here PROVE Cardinality(B) = Cardinality(A) - 1
  <2>1. B = A \ {t} /\ t \in A
    BY <1>1, <1>2, <1>8
  <2> QED BY <1>4, <2>1, FS_RemoveElement
<1> QED BY <1>3, <1>5, <1>6, <1>7, <1>8

\* A step that changes the list, or the counter, moves its thread to, or from, those who are late.
LEMMA QCountStep ==
  ASSUME QInv, QMove, NEW t \in Thread, QStep(t)
  PROVE  /\ \A u \in Thread : u # t => pc'[u] = pc[u]
         /\ \/ /\ count' = count /\ Len(items') = Len(items)
               /\ (pc[t] \in Added <=> pc'[t] \in Added) /\ (pc[t] \in Taken <=> pc'[t] \in Taken)
            \/ /\ count' = count /\ Len(items') = Len(items) + 1
               /\ pc[t] \notin Added /\ pc'[t] \in Added /\ pc[t] \notin Taken /\ pc'[t] \notin Taken
            \/ /\ count' = (count + 1) % CountSize /\ Len(items') = Len(items)
               /\ pc[t] \in Added /\ pc'[t] \notin Added /\ pc[t] \notin Taken /\ pc'[t] \notin Taken
            \/ /\ count' = count /\ Len(items') = Len(items) - 1
               /\ pc[t] \notin Added /\ pc'[t] \notin Added /\ pc[t] \notin Taken /\ pc'[t] \in Taken
            \/ /\ count' = (count + CountSize - 1) % CountSize /\ Len(items') = Len(items)
               /\ pc[t] \notin Added /\ pc'[t] \notin Added /\ pc[t] \in Taken /\ pc'[t] \notin Taken
<1>1. kind \in {"ms", "moir"} /\ pc \in [Thread -> QPC] /\ items \in Seq(Node) /\ QDeq(t) /\ QOwn(t)
  BY DEF QInv, QTyped, NodeTypeOK, QKnow
<1> USE DEF Goto, Added, Taken
<1>2. CASE \E v \in Value, n \in Node : Enqueue(t, v, n)
  BY <1>1, <1>2 DEF Enqueue
<1>3. CASE EnqLoad(t) \/ EnqGuard(t) \/ EnqCheck(t) \/ EnqNext(t) \/ EnqHelp(t) \/ EnqSwing(t)
  BY <1>1, <1>3 DEF EnqLoad, EnqGuard, EnqCheck, EnqNext, EnqHelp, EnqSwing
<1>4. CASE EnqLink(t)
  <2>1. CASE next[lt[t]] = Null
    <3>1. node[t] \in Node
      BY <1>1, <1>4 DEF EnqLink, QOwn, MakingPC
    <3>2. Len(Append(items, node[t])) = Len(items) + 1
      BY <1>1, <3>1
    <3> QED BY <1>1, <1>4, <2>1, <3>2 DEF EnqLink
  <2>2. CASE next[lt[t]] # Null
    BY <1>1, <1>4, <2>2 DEF EnqLink
  <2> QED BY <2>1, <2>2
<1>5. CASE EnqCount(t, "e_swing")
  BY <1>1, <1>5 DEF EnqCount
<1>6. CASE Dequeue(t) \/ DeqLoad(t) \/ DeqGuard(t, "d_check") \/ DeqNext(t, "d_guard2") \/ DeqGuard2(t)
  BY <1>1, <1>6 DEF Dequeue, DeqLoad, DeqGuard, DeqNext, DeqGuard2
<1>7. CASE (kind = "ms" /\ DeqCheck(t, "d_tail")) \/ (kind = "moir" /\ DeqCheck(t, "d_next")) \/ (kind = "ms" /\ DeqTail(t))
  BY <1>1, <1>7 DEF DeqCheck, DeqTail
<1>8. CASE (kind = "ms" /\ DeqRecheck(t)) \/ (kind = "moir" /\ MoirRecheck(t)) \/ (kind = "ms" /\ DeqHelp(t))
  BY <1>1, <1>8 DEF DeqRecheck, MoirRecheck, DeqHelp
<1>9. CASE (kind = "ms" /\ DeqCas(t, "d_data")) \/ (kind = "moir" /\ DeqCas(t, "d_fix"))
  <2>1. pc[t] = "d_cas" /\ count' = count
    BY <1>9 DEF DeqCas
  <2>2. CASE head = lh[t]
    <3>1. next[head] # Null
      BY <1>1, <2>1, <2>2, NullAssumption DEF QDeq, KnowPC
    <3>2. PICK l \in Nat : Len(items) = l + 1
      <4>1. Len(items) \in Nat /\ Len(items) # 0
        BY <3>1, QList
      <4>2. Len(items) - 1 \in Nat /\ Len(items) = (Len(items) - 1) + 1
        BY <4>1
      <4> QED BY <4>2
    <3>3. Len(SubSeq(items, 2, Len(items))) = Len(items) - 1
      BY <1>1, <3>2, Popped
    <3>4. items' = SubSeq(items, 2, Len(items)) /\ pc' = [pc EXCEPT ![t] = IF kind = "ms" THEN "d_data" ELSE "d_fix"]
      BY <1>9, <2>2 DEF DeqCas, HeadUnmoved
    <3> QED BY <1>1, <2>1, <3>3, <3>4
  <2>3. CASE head # lh[t]
    BY <1>1, <1>9, <2>3 DEF DeqCas, HeadUnmoved
  <2> QED BY <2>2, <2>3
<1>10. CASE (kind = "moir" /\ MoirTail(t)) \/ (kind = "moir" /\ MoirFix(t)) \/ DeqData(t, nxt[t], "d_count")
  BY <1>1, <1>10 DEF MoirTail, MoirFix, DeqData
<1>11. CASE DeqCount(t)
  BY <1>1, <1>11 DEF DeqCount
<1>12. CASE DeqRetire(t, "leave") \/ Leave(t)
  BY <1>1, <1>12 DEF DeqRetire, Leave
<1> QED BY <1>1, <1>2, <1>3, <1>4, <1>5, <1>6, <1>7, <1>8, <1>9, <1>10, <1>11, <1>12, QSteps

\* Every step of a queue keeps the count.
LEMMA QCountKeeps ==
  ASSUME IsFiniteSet(Thread), QInv, QInv', QMove, Counted
  PROVE  Counted'
<1>1. PICK k \in Int : count + Late(Added) = Len(items) + Late(Taken) + CountSize * k
  BY DEF Counted
<1>2. /\ CountSize \in Nat \ {0} /\ count \in 0..(CountSize - 1) /\ Len(items) \in Nat /\ Len(items') \in Nat
      /\ CountSize * k \in Int /\ CountSize * (k - 1) = CountSize * k - CountSize
      /\ CountSize * (k + 1) = CountSize * k + CountSize /\ k - 1 \in Int /\ k + 1 \in Int
  BY CountAssumption DEF QInv, QTyped, NodeTypeOK
<1>3. ASSUME NEW n \in Node, Reclaim(n) PROVE Counted'
  <2>1. Late(Added)' = Late(Added) /\ Late(Taken)' = Late(Taken) /\ count' = count /\ items' = items
    BY <1>3 DEF Reclaim, Late
  <2> QED BY <1>1, <2>1 DEF Counted
<1>4. ASSUME NEW t \in Thread, QStep(t) PROVE Counted'
  <2>1. \A u \in Thread : u # t => pc'[u] = pc[u]
    BY <1>4, QCountStep
  <2>2. /\ Late(Added) \in Nat /\ Late(Added)' \in Nat
        /\ (pc[t] \in Added <=> pc'[t] \in Added) => Late(Added)' = Late(Added)
        /\ pc[t] \notin Added /\ pc'[t] \in Added => Late(Added)' = Late(Added) + 1
        /\ pc[t] \in Added /\ pc'[t] \notin Added => Late(Added)' = Late(Added) - 1
    BY <2>1, LateMoves
  <2>3. /\ Late(Taken) \in Nat /\ Late(Taken)' \in Nat
        /\ (pc[t] \in Taken <=> pc'[t] \in Taken) => Late(Taken)' = Late(Taken)
        /\ pc[t] \notin Taken /\ pc'[t] \in Taken => Late(Taken)' = Late(Taken) + 1
        /\ pc[t] \in Taken /\ pc'[t] \notin Taken => Late(Taken)' = Late(Taken) - 1
    BY <2>1, LateMoves
  <2>4. PICK c \in Nat, d \in Nat, a \in Nat, b \in Nat, e \in Nat, f \in Nat :
             /\ c = Len(items) /\ d = Len(items') /\ a = Late(Added) /\ b = Late(Added)' /\ e = Late(Taken) /\ f = Late(Taken)'
    BY <1>2, <2>2, <2>3
  <2>5. PICK z \in Int : z = CountSize * k /\ count + a = c + e + z
    BY <1>1, <1>2, <2>4
  <2>6. \/ count' = count /\ d + f + a = c + e + b
        \/ count' = (count + 1) % CountSize /\ d = c /\ b = a - 1 /\ e = f
        \/ count' = (count + CountSize - 1) % CountSize /\ d = c /\ b = a /\ f = e - 1
    <3> USE <2>2, <2>3, <2>4
    <3>1. CASE /\ count' = count /\ Len(items') = Len(items)
               /\ (pc[t] \in Added <=> pc'[t] \in Added) /\ (pc[t] \in Taken <=> pc'[t] \in Taken)
      <4>1. d = c /\ a = b /\ e = f
        BY <3>1
      <4> QED BY <3>1, <4>1
    <3>2. CASE /\ count' = count /\ Len(items') = Len(items) + 1
               /\ pc[t] \notin Added /\ pc'[t] \in Added /\ pc[t] \notin Taken /\ pc'[t] \notin Taken
      <4>1. d = c + 1 /\ b = a + 1 /\ e = f
        BY <3>2
      <4> QED BY <3>2, <4>1
    <3>3. CASE /\ count' = (count + 1) % CountSize /\ Len(items') = Len(items)
               /\ pc[t] \in Added /\ pc'[t] \notin Added /\ pc[t] \notin Taken /\ pc'[t] \notin Taken
      <4>1. d = c /\ b = a - 1 /\ e = f
        BY <3>3
      <4> QED BY <3>3, <4>1
    <3>4. CASE /\ count' = count /\ Len(items') = Len(items) - 1
               /\ pc[t] \notin Added /\ pc'[t] \notin Added /\ pc[t] \notin Taken /\ pc'[t] \in Taken
      <4>1. d = c - 1 /\ b = a /\ f = e + 1
        BY <3>4
      <4> QED BY <3>4, <4>1
    <3>5. CASE /\ count' = (count + CountSize - 1) % CountSize /\ Len(items') = Len(items)
               /\ pc[t] \notin Added /\ pc'[t] \notin Added /\ pc[t] \in Taken /\ pc'[t] \notin Taken
      <4>1. d = c /\ b = a /\ f = e - 1
        BY <3>5
      <4> QED BY <3>5, <4>1
    <3> QED BY <1>4, <3>1, <3>2, <3>3, <3>4, <3>5, QCountStep
  <2>7. /\ count \in Nat /\ count < CountSize
        /\ (count + 1) % CountSize = IF count + 1 = CountSize THEN 0 ELSE count + 1
        /\ (count + CountSize - 1) % CountSize = IF count = 0 THEN CountSize - 1 ELSE count - 1
    BY <1>2
  <2>8. count' + b = d + f + z \/ count' + b = d + f + (z - CountSize) \/ count' + b = d + f + (z + CountSize)
    <3>1. CASE count' = count /\ d + f + a = c + e + b
      <4>1. PICK x \in Nat : x = count /\ x = count'
        BY <2>7, <3>1
      <4>2. x + a = c + e + z /\ d + f + a = c + e + b
        BY <2>5, <3>1, <4>1
      <4>3. x + b = d + f + z
        BY <4>2
      <4> QED BY <4>1, <4>3
    <3>2. CASE count' = (count + 1) % CountSize /\ d = c /\ b = a - 1 /\ e = f
      <4>1. (count' = 0 /\ count + 1 = CountSize) \/ count' = count + 1
        BY <2>7, <3>2
      <4> QED BY <1>2, <2>5, <2>7, <3>2, <4>1
    <3>3. CASE count' = (count + CountSize - 1) % CountSize /\ d = c /\ b = a /\ f = e - 1
      <4>1. (count' = CountSize - 1 /\ count = 0) \/ count' = count - 1
        BY <2>7, <3>3
      <4> QED BY <1>2, <2>5, <2>7, <3>3, <4>1
    <3> QED BY <2>6, <3>1, <3>2, <3>3
  <2>9. \E m \in Int : count' + b = d + f + CountSize * m
    BY <1>2, <2>5, <2>8
  <2> QED BY <2>4, <2>9 DEF Counted
<1> QED BY <1>3, <1>4 DEF QMove

\* Numbers a multiple of c apart have the same remainder.
LEMMA SameRemainder ==
  ASSUME NEW c \in Nat \ {0}, NEW x \in Int, NEW y \in Int, NEW k \in Int, x = y + c * k
  PROVE  x % c = y % c
<1>1. PICK p \in Int, r \in 0..(c - 1) : x = c * p + r /\ r = x % c
  <2>1. x % c \in 0..(c - 1) /\ x \div c \in Int /\ x = c * (x \div c) + (x % c)
    OBVIOUS
  <2> QED BY <2>1
<1>2. PICK q \in Int, s \in 0..(c - 1) : y = c * q + s /\ s = y % c
  <2>1. y % c \in 0..(c - 1) /\ y \div c \in Int /\ y = c * (y \div c) + (y % c)
    OBVIOUS
  <2> QED BY <2>1
<1>3. PICK d \in Int : d = q + k - p
  OBVIOUS
<1>4. c * d = c * q + c * k - c * p /\ c * d \in Int /\ c * q \in Int /\ c * k \in Int /\ c * p \in Int
  BY <1>3
<1>5. c * d = r - s
  <2>1. PICK f \in Int, g \in Int, h \in Int : f = c * p /\ g = c * q /\ h = c * k
    BY <1>4
  <2>2. x = f + r /\ y = g + s /\ x = y + h /\ c * d = g + h - f
    BY <1>1, <1>2, <1>4, <2>1
  <2> QED BY <2>2
<1>6. CASE d > 0
  <2>1. c * d >= c
    BY <1>6
  <2> QED BY <1>5, <2>1
<1>7. CASE d < 0
  <2>1. c * d <= -c
    BY <1>7
  <2> QED BY <1>5, <2>1
<1>8. CASE d = 0
  <2>1. c * d = 0
    BY <1>8
  <2>2. r = s
    BY <1>5, <2>1
  <2> QED BY ONLY <1>1, <1>2, <2>2, Zenon
<1> QED BY <1>6, <1>7, <1>8

\* The invariant and the count tell the shape.
LEMMA QShape ==
  ASSUME IsFiniteSet(Thread), QInv, Counted
  PROVE  Shape
<1>1. /\ kind \in {"ms", "moir"} /\ items \in Seq(Node) /\ head \in Node /\ tail \in Node /\ Contents = items
      /\ CountSize \in Nat \ {0} /\ count \in Nat
  BY CountAssumption DEF QInv, QTyped, NodeTypeOK, Contents
<1>2. PICK l \in Nat : l = Len(items)
  BY <1>1
<1>3. /\ Len(Chain) = l + 1 /\ Chain[1] = head /\ \A i \in 1..l : Chain[i + 1] = items[i]
      /\ Chain \in Seq(Node)
  BY <1>1, <1>2, Pushed DEF Chain
<1>4. \A i \in 0..l : Chain[i + 1] = At(i)
  <2>1. ASSUME NEW i \in 0..l PROVE Chain[i + 1] = At(i)
    <3>1. CASE i = 0
      BY <1>3, <3>1 DEF At
    <3>2. CASE i # 0
      <4>1. i \in 1..l
        BY <1>2, <3>2
      <4> QED BY <1>3, <3>2, <4>1 DEF At
    <3> QED BY <3>1, <3>2
  <2> QED BY <2>1
<1>5. \A i \in 1..(l + 1) : i - 1 \in 0..l /\ Chain[i] = At(i - 1)
  <2>1. ASSUME NEW i \in 1..(l + 1) PROVE i - 1 \in 0..l /\ Chain[i] = At(i - 1)
    <3>1. i - 1 \in 0..l /\ (i - 1) + 1 = i
      BY <1>2
    <3> QED BY <1>4, <3>1
  <2> QED BY <2>1
<1>6. /\ \A i \in 0..l : status[At(i)] = "linked" /\ next[At(i)] = IF i = l THEN Null ELSE At(i + 1)
      /\ \A i, j \in 0..l : At(i) = At(j) => i = j
  BY <1>2 DEF QInv, QChain
<1>7. ChainOK
  <2>1. ASSUME NEW i \in 1..(l + 1)
        PROVE  /\ status[Chain[i]] = "linked" /\ next[Chain[i]] = IF i = l + 1 THEN Null ELSE Chain[i + 1]
               /\ \A j \in 1..(l + 1) : Chain[i] = Chain[j] => i = j
    <3>1. PICK k \in 0..l : k = i - 1 /\ Chain[i] = At(k) /\ i = k + 1
      BY <1>2, <1>5
    <3>2. status[Chain[i]] = "linked"
      BY <1>6, <3>1
    <3>3. next[Chain[i]] = IF i = l + 1 THEN Null ELSE Chain[i + 1]
      <4>1. CASE k = l
        BY <1>6, <3>1, <4>1
      <4>2. CASE k # l
        <5>1. k + 1 \in 0..l /\ i # l + 1 /\ i + 1 = (k + 1) + 1
          BY <3>1, <4>2
        <5> QED BY <1>4, <1>6, <3>1, <4>2, <5>1
      <4> QED BY <4>1, <4>2
    <3>4. ASSUME NEW j \in 1..(l + 1), Chain[i] = Chain[j] PROVE i = j
      <4>1. PICK h \in 0..l : h = j - 1 /\ Chain[j] = At(h) /\ j = h + 1
        BY <1>2, <1>5
      <4> QED BY <1>6, <3>1, <3>4, <4>1
    <3> QED BY <3>2, <3>3, <3>4
  <2> QED BY <1>3, <2>1 DEF ChainOK
<1>8. tail = At(l) \/ (l > 0 /\ tail = At(l - 1)) => TailInChain
  <2>1. CASE tail = At(l)
    <3>1. l + 1 \in 1..(l + 1) /\ tail = Chain[l + 1]
      BY <1>2, <1>4, <2>1
    <3> QED BY <1>3, <3>1 DEF TailInChain
  <2>2. CASE l > 0 /\ tail = At(l - 1)
    <3>1. l - 1 \in 0..l /\ (l - 1) + 1 = l /\ l \in 1..(l + 1)
      BY <2>2
    <3>2. tail = Chain[l]
      BY <1>4, <2>2, <3>1
    <3> QED BY <1>3, <3>1, <3>2 DEF TailInChain
  <2> QED BY <2>1, <2>2
<1>9. IF kind = "ms" THEN TailInChain ELSE TailNotRetired
  BY <1>1, <1>2, <1>8 DEF QInv, QTail, TailNotRetired
<1>10. CountAgrees
  <2>1. PICK k \in Int : count + Late(Added) = l + Late(Taken) + CountSize * k
    BY <1>2 DEF Counted
  <2>2. Late(Added) \in Nat /\ Late(Taken) \in Nat
    <3>1. ASSUME NEW S PROVE Late(S) \in Nat
      <4>1. IsFiniteSet({t \in Thread : pc[t] \in S})
        BY FS_Subset
      <4> QED BY <4>1, FS_CardinalityType DEF Late
    <3> QED BY <3>1
  <2>3. (count + Late(Added)) % CountSize = (l + Late(Taken)) % CountSize
    <3>1. PICK x \in Int, y \in Int : x = count + Late(Added) /\ y = l + Late(Taken) /\ x = y + CountSize * k
      BY <1>1, <2>1, <2>2
    <3>2. x % CountSize = y % CountSize
      BY <1>1, <3>1, SameRemainder
    <3> QED BY <3>1, <3>2
  <2> QED BY <1>1, <1>2, <2>3 DEF CountAgrees, Late, Added, Taken
<1> QED BY <1>1, <1>7, <1>9, <1>10 DEF Shape

\* A stack has no counter.
LEMMA SShape == SInv => Shape
<1> SUFFICES ASSUME SInv PROVE Shape
  OBVIOUS
<1>1. kind = "stack" /\ StackChain
  BY DEF SInv, STyped
<1> QED BY <1>1 DEF Shape, CountAgrees

-----------------------------------------------------------------------------
(* What follows from it *)

\* The variables keep their types, and a pointer that is never null is not.
THEOREM WellTyped == QSpec => [](kind \in Proved => TypeOK)
<1>1. Inv => (kind \in Proved => TypeOK)
  <2>1. ASSUME QInv PROVE TypeOK
    <3>1. QTyped
      BY <2>1 DEF QInv
    <3>2. pc \in [Thread -> {"idle", "leave", "throw", "e_prev"} \cup EnqPC \cup DeqPC \cup FixPC
                              \cup LmsDeqPC \cup StackPushPC \cup StackClearPC \cup StackTakenPC]
      BY <3>1 DEF QTyped, QPC, DeqPC
    <3>3. head # Null /\ tail # Null /\ kind # "lms" /\ kind # "stack"
      BY <3>1, NullAssumption DEF QTyped
    <3> QED BY <3>1, <3>2, <3>3 DEF QTyped, TypeOK
  <2>2. ASSUME SInv PROVE TypeOK
    <3>1. STyped
      BY <2>2 DEF SInv
    <3>2. pc \in [Thread -> {"idle", "leave", "throw", "e_prev"} \cup EnqPC \cup DeqPC \cup FixPC
                              \cup LmsDeqPC \cup StackPushPC \cup StackClearPC \cup StackTakenPC]
      BY <3>1 DEF STyped, SPC, DeqPC
    <3> QED BY <3>1, <3>2 DEF STyped, TypeOK
  <2> QED BY <2>1, <2>2 DEF Inv, Proved
<1> QED BY <1>1, Always, PTL

\* No operation of these classes touches a freed node.
THEOREM Safe == QSpec => [](kind \in Proved => NoUseAfterFree)
<1>1. Inv => (kind \in Proved => NoUseAfterFree)
  BY QTouches, STouches DEF Inv, Proved
<1> QED BY <1>1, Always, PTL

\* They keep their side of the reclamation contract.
THEOREM ContractKept == QSpec => KeepsContract
<1>1. QInit => kind \in Kinds
  BY DEF QInit
<1>2. kind \in Kinds /\ [QNext]_qvars => (kind \in Kinds)'
  BY DEF QNext, qvars
<1>3. kind \in Kinds /\ Inv /\ [QNext]_qvars => [kind # "lms" => R!RNext]_(R!rvars)
  <2> SUFFICES ASSUME kind \in Kinds, Inv, [QNext]_qvars, kind # "lms"
               PROVE  R!RNext \/ UNCHANGED <<status, hz, using, blockers>>
    BY DEF R!rvars
  <2>1. CASE QNext
    BY <2>1, KindsAssumption, Moves, QContract, SContract DEF Inv
  <2>2. CASE UNCHANGED qvars
    BY <2>2 DEF qvars, vars, reclaimVars
  <2> QED BY <2>1, <2>2
<1>4. QSpec => [](kind \in Kinds)
  BY <1>1, <1>2, PTL DEF QSpec
<1> QED BY <1>3, <1>4, Always, PTL DEF QSpec, KeepsContract

\* The list is a chain of live nodes with the tail at its end, as near as the class promises, and the
\* counter counts it, but for the operations on their way.
THEOREM ListInShape == IsFiniteSet(Thread) => (QSpec => [](kind \in Proved => Shape))
<1> SUFFICES ASSUME IsFiniteSet(Thread) PROVE QSpec => [](kind \in Proved => Shape)
  OBVIOUS
<1> DEFINE Count == kind \in {"ms", "moir"} => Counted
<1>1. QInit => Count
  <2> SUFFICES ASSUME QInit, kind \in {"ms", "moir"} PROVE Counted
    OBVIOUS
  <2>1. PICK dummy \in Node : InitWith(dummy) /\ items = <<>>
    BY DEF QInit, MSInit
  <2>2. count = 0 /\ Len(items) = 0 /\ CountSize * 0 = 0 /\ 0 \in Int
    BY <2>1, CountAssumption DEF InitWith
  <2>3. Late(Added) = 0 /\ Late(Taken) = 0
    <3>1. {t \in Thread : pc[t] \in Added} = {} /\ {t \in Thread : pc[t] \in Taken} = {}
      BY <2>1 DEF InitWith, Added, Taken
    <3> QED BY <3>1, FS_EmptySet DEF Late
  <2>4. count + Late(Added) = Len(items) + Late(Taken) + CountSize * 0
    BY <2>2, <2>3
  <2> QED BY <2>2, <2>4 DEF Counted
<1>2. Inv /\ Count /\ Inv' /\ [QNext]_qvars => Count'
  <2> SUFFICES ASSUME Inv, Inv', Count, [QNext]_qvars PROVE Count'
    OBVIOUS
  <2>1. CASE QNext
    <3>1. kind' = kind
      BY <2>1 DEF QNext
    <3> QED BY <2>1, <3>1, Moves, QCountKeeps DEF Inv
  <2>2. CASE UNCHANGED qvars
    BY <2>2 DEF qvars, vars, Counted, Late
  <2> QED BY <2>1, <2>2
<1>3. Inv /\ Count => (kind \in Proved => Shape)
  BY QShape, SShape DEF Inv, Proved
<1> HIDE DEF Count
<1>4. QSpec => []Count
  BY <1>1, <1>2, Always, PTL DEF QSpec
<1> QED BY <1>3, <1>4, Always, PTL

-----------------------------------------------------------------------------
(* What the steps do to the values *)

\* The node whose value a dequeue, or a pop, has taken
Src(t) == IF kind = "stack" THEN lh[t] ELSE nxt[t]
MakePC == MakingPC \cup {"s_cas"}
EmptyPC == {"d_guard2", "d_recheck"}

Still == UNCHANGED <<items, data, node, val>>
Alone(t) ==
    \A u \in Thread : u # t => /\ pc'[u] = pc[u] /\ node'[u] = node[u] /\ val'[u] = val[u]
                               /\ lh'[u] = lh[u] /\ nxt'[u] = nxt[u]
EMake(t) == pc[t] \in MakePC /\ pc'[t] \in MakePC /\ Still
ELink(t) ==
    /\ pc[t] \in MakePC /\ pc'[t] = (IF kind = "stack" THEN "leave" ELSE "e_count")
    /\ items' = IF kind = "stack" THEN <<node[t]>> \o items ELSE Append(items, node[t])
    /\ UNCHANGED <<data, node, val>>
EAfter(t) == pc[t] \in {"e_count", "e_swing"} /\ pc'[t] \in {"e_swing", "leave"} /\ Still
ECall(t) ==
    \E v \in Value, n \in Node :
       /\ pc[t] = "idle" /\ pc'[t] = "e_load" /\ status[n] = "free"
       /\ data' = [data EXCEPT ![n] = v] /\ node'[t] = n /\ val'[t] = v /\ items' = items
EAsk(t) == pc[t] = "idle" /\ pc'[t] \in {"d_load", "c_load"} /\ Still
ELook(t) ==
    /\ pc[t] \in DequeuePC /\ pc'[t] \in DequeuePC /\ Still
    /\ pc'[t] \in EmptyPC /\ nxt'[t] = Null => items = <<>> \/ (pc[t] \in EmptyPC /\ nxt[t] = Null)
EFail(t) ==
    /\ pc[t] \in DequeuePC /\ pc'[t] = "leave" /\ Still
    /\ items = <<>> \/ (pc[t] \in EmptyPC /\ nxt[t] = Null)
ETake(t) ==
    /\ pc[t] = "d_cas" /\ pc'[t] \in {"d_fix", "d_data"} /\ nxt'[t] = nxt[t] /\ lh'[t] = lh[t]
    /\ items # <<>> /\ Src(t) = items[1] /\ items' = SubSeq(items, 2, Len(items))
    /\ UNCHANGED <<data, node, val>>
EFix(t) ==
    /\ pc[t] \in {"d_fix", "d_fix2"} /\ pc'[t] \in {"d_fix2", "d_data"} /\ nxt'[t] = nxt[t] /\ lh'[t] = lh[t] /\ Still
ERead(t) ==
    /\ pc[t] = "d_data" /\ pc'[t] \in {"d_count", "d_retire"} /\ val'[t] = data[Src(t)]
    /\ UNCHANGED <<items, data, node>>
EEnd(t) == pc[t] \in {"d_count", "d_retire"} /\ pc'[t] \in {"d_retire", "leave"} /\ Still
EClear(t) == pc[t] \in StackClearPC /\ pc'[t] \in StackClearPC /\ Still
EAll(t) == pc[t] \in StackClearPC /\ pc'[t] \in StackTakenPC /\ items' = <<>> /\ UNCHANGED <<data, node, val>>
EDrop(t) == pc[t] \in StackTakenPC /\ pc'[t] \in StackTakenPC /\ Still
ELeave(t) == pc[t] \in {"leave", "c_leave"} /\ pc'[t] = "idle" /\ val'[t] = None /\ UNCHANGED <<items, data>>
Effect(t) ==
    \/ EMake(t) \/ ELink(t) \/ EAfter(t) \/ ECall(t) \/ EAsk(t) \/ ELook(t) \/ EFail(t) \/ ETake(t)
    \/ EFix(t) \/ ERead(t) \/ EEnd(t) \/ EClear(t) \/ EAll(t) \/ EDrop(t) \/ ELeave(t)

\* What a step of a queue does to the values
LEMMA QEffect ==
  ASSUME QInv, NEW t \in Thread, QStep(t)
  PROVE  Alone(t) /\ Effect(t)
<1>1. /\ kind \in {"ms", "moir"} /\ pc \in [Thread -> QPC] /\ items \in Seq(Node) /\ QDeq(t) /\ QOwn(t) /\ data \in [Node -> Value \cup {None}]
      /\ node \in [Thread -> Node \cup {Null}] /\ lh \in [Thread -> Node \cup {Null}]
      /\ nxt \in [Thread -> Node \cup {Null}] /\ val \in [Thread -> Value \cup {None}]
  BY DEF QInv, QTyped, NodeTypeOK, QKnow
<1> USE DEF Goto, queueVars, localVars, reclaimVars, Still, Alone
<1>2. CASE \E v \in Value, n \in Node : Enqueue(t, v, n)
  <2>1. Alone(t) /\ ECall(t)
    BY <1>1, <1>2 DEF Enqueue, ECall, R!Allocate
  <2> QED BY <2>1 DEF Effect
<1>3. CASE EnqLoad(t) \/ EnqGuard(t) \/ EnqCheck(t) \/ EnqNext(t) \/ EnqHelp(t)
  <2>1. Alone(t) /\ EMake(t)
    BY <1>1, <1>3 DEF EnqLoad, EnqGuard, EnqCheck, EnqNext, EnqHelp, EMake, MakePC, MakingPC
  <2> QED BY <2>1 DEF Effect
<1>4. CASE EnqLink(t)
  <2>1. Alone(t) /\ (EMake(t) \/ ELink(t))
    BY <1>1, <1>4 DEF EnqLink, EMake, ELink, MakePC, MakingPC
  <2> QED BY <2>1 DEF Effect
<1>5. CASE EnqCount(t, "e_swing") \/ EnqSwing(t)
  <2>1. Alone(t) /\ EAfter(t)
    BY <1>1, <1>5 DEF EnqCount, EnqSwing, EAfter
  <2> QED BY <2>1 DEF Effect
<1>6. CASE Dequeue(t)
  <2>1. Alone(t) /\ EAsk(t)
    BY <1>1, <1>6 DEF Dequeue, EAsk
  <2> QED BY <2>1 DEF Effect
<1> USE DEF DequeuePC, DeqPC, EmptyPC
<1>7. CASE DeqLoad(t) \/ DeqGuard(t, "d_check") \/ DeqGuard2(t) \/ (kind = "ms" /\ DeqTail(t)) \/ (kind = "ms" /\ DeqHelp(t))
  <2>1. Alone(t) /\ ELook(t)
    BY <1>1, <1>7 DEF DeqLoad, DeqGuard, DeqGuard2, DeqTail, DeqHelp, ELook
  <2> QED BY <2>1 DEF Effect
<1>8. CASE (kind = "ms" /\ DeqCheck(t, "d_tail")) \/ (kind = "moir" /\ DeqCheck(t, "d_next"))
  <2>1. Alone(t) /\ ELook(t)
    BY <1>1, <1>8 DEF DeqCheck, ELook
  <2> QED BY <2>1 DEF Effect
<1>9. CASE DeqNext(t, "d_guard2")
  <2>1. lh[t] \in Node /\ (lh[t] = head \/ Gone(lh[t]))
    BY <1>1, <1>9 DEF DeqNext, QDeq, HoldPC
  <2>2. next[lh[t]] = Null => items = <<>>
    BY <2>1, QList DEF QInv, QGone
  <2>3. Alone(t) /\ ELook(t)
    BY <1>1, <1>9, <2>2 DEF DeqNext, ELook
  <2> QED BY <2>3 DEF Effect
<1>10. CASE (kind = "ms" /\ DeqRecheck(t)) \/ (kind = "moir" /\ MoirRecheck(t))
  <2>1. Alone(t) /\ (ELook(t) \/ EFail(t))
    BY <1>1, <1>10 DEF DeqRecheck, MoirRecheck, ELook, EFail
  <2> QED BY <2>1 DEF Effect
<1>11. CASE (kind = "ms" /\ DeqCas(t, "d_data")) \/ (kind = "moir" /\ DeqCas(t, "d_fix"))
  <2>1. pc[t] = "d_cas" /\ Alone(t) /\ nxt' = nxt /\ lh' = lh /\ UNCHANGED <<data, node, val>>
    BY <1>1, <1>11 DEF DeqCas
  <2>2. CASE head = lh[t]
    <3>1. nxt[t] # Null /\ next[head] = nxt[t]
      BY <1>1, <2>1, <2>2, NullAssumption DEF QDeq, KnowPC
    <3>2. Len(items) \in Nat /\ Len(items) # 0 /\ items # <<>>
      BY <3>1, QList
    <3>3. 0 \in 0..Len(items) /\ 0 # Len(items) /\ At(0) = head /\ At(1) = items[1]
      BY <3>2 DEF At
    <3>4. next[At(0)] = At(0 + 1)
      BY <3>3 DEF QInv, QChain
    <3>5. Src(t) = items[1]
      BY <1>1, <3>1, <3>3, <3>4 DEF Src
    <3>6. ETake(t)
      BY <1>1, <1>11, <2>1, <2>2, <3>2, <3>5 DEF DeqCas, HeadUnmoved, ETake
    <3> QED BY <2>1, <3>6 DEF Effect
  <2>3. CASE head # lh[t]
    <3>1. ELook(t)
      BY <1>1, <1>11, <2>1, <2>3 DEF DeqCas, HeadUnmoved, ELook
    <3> QED BY <2>1, <3>1 DEF Effect
  <2> QED BY <2>2, <2>3
<1>12. CASE (kind = "moir" /\ MoirTail(t)) \/ (kind = "moir" /\ MoirFix(t))
  <2>1. Alone(t) /\ EFix(t)
    BY <1>1, <1>12 DEF MoirTail, MoirFix, EFix
  <2> QED BY <2>1 DEF Effect
<1>13. CASE DeqData(t, nxt[t], "d_count")
  <2>1. Alone(t) /\ ERead(t)
    BY <1>1, <1>13 DEF DeqData, ERead, Src
  <2> QED BY <2>1 DEF Effect
<1>14. CASE DeqCount(t) \/ DeqRetire(t, "leave")
  <2>1. Alone(t) /\ EEnd(t)
    BY <1>1, <1>14 DEF DeqCount, DeqRetire, EEnd
  <2> QED BY <2>1 DEF Effect
<1>15. CASE Leave(t)
  <2>1. Alone(t) /\ ELeave(t)
    BY <1>1, <1>15 DEF Leave, ELeave, QPC, EnqPC
  <2> QED BY <2>1 DEF Effect
<1> QED BY <1>1, <1>2, <1>3, <1>4, <1>5, <1>6, <1>7, <1>8, <1>9, <1>10, <1>11, <1>12, <1>13, <1>14, <1>15, QSteps

\* What a step of the stack does to the values
LEMMA SEffect ==
  ASSUME SInv, NEW t \in Thread, SStep(t)
  PROVE  Alone(t) /\ Effect(t)
<1>1. /\ kind = "stack" /\ pc \in [Thread -> SPC] /\ items \in Seq(Node) /\ SKnow(t) /\ SOwn(t) /\ data \in [Node -> Value \cup {None}]
      /\ node \in [Thread -> Node \cup {Null}] /\ lh \in [Thread -> Node \cup {Null}]
      /\ nxt \in [Thread -> Node \cup {Null}] /\ val \in [Thread -> Value \cup {None}]
  BY DEF SInv, STyped, NodeTypeOK
<1>2. items # <<>> => head = items[1] /\ head \in Node
  BY SList
<1> USE DEF Goto, queueVars, localVars, reclaimVars, Still, Alone
<1>3. CASE \E v \in Value, n \in Node : Enqueue(t, v, n)
  <2>1. Alone(t) /\ ECall(t)
    BY <1>1, <1>3 DEF Enqueue, ECall, R!Allocate
  <2> QED BY <2>1 DEF Effect
<1>4. CASE PushLoad(t)
  <2>1. Alone(t) /\ EMake(t)
    BY <1>1, <1>4 DEF PushLoad, EMake, MakePC, MakingPC
  <2> QED BY <2>1 DEF Effect
<1>5. CASE PushCas(t)
  <2>1. Alone(t) /\ (EMake(t) \/ ELink(t))
    BY <1>1, <1>5 DEF PushCas, EMake, ELink, MakePC, MakingPC
  <2> QED BY <2>1 DEF Effect
<1>6. CASE Dequeue(t) \/ Clear(t)
  <2>1. Alone(t) /\ EAsk(t)
    BY <1>1, <1>6 DEF Dequeue, Clear, EAsk
  <2> QED BY <2>1 DEF Effect
<1> USE DEF DequeuePC, DeqPC, EmptyPC
<1>7. CASE TopLoad(t, "d_load", "d_guard", "leave")
  <2>1. Alone(t) /\ (ELook(t) \/ EFail(t))
    BY <1>1, <1>2, <1>7, NullAssumption DEF TopLoad, ELook, EFail
  <2> QED BY <2>1 DEF Effect
<1>8. CASE DeqGuard(t, "d_check") \/ DeqCheck(t, "d_next") \/ DeqNext(t, "d_cas")
  <2>1. Alone(t) /\ ELook(t)
    BY <1>1, <1>8 DEF DeqGuard, DeqCheck, DeqNext, ELook
  <2> QED BY <2>1 DEF Effect
<1>9. CASE DeqCas(t, "d_data")
  <2>1. pc[t] = "d_cas" /\ Alone(t) /\ nxt' = nxt /\ lh' = lh /\ UNCHANGED <<data, node, val>>
    BY <1>1, <1>9 DEF DeqCas
  <2>2. CASE head = lh[t]
    <3>1. items # <<>> /\ Src(t) = items[1]
      BY <1>1, <1>2, <2>1, <2>2, NullAssumption, SList DEF SKnow, SHoldPC, Src
    <3>2. ETake(t)
      BY <1>1, <1>9, <2>1, <2>2, <3>1 DEF DeqCas, HeadUnmoved, ETake
    <3> QED BY <2>1, <3>2 DEF Effect
  <2>3. CASE head # lh[t]
    <3>1. ELook(t)
      BY <1>1, <1>9, <2>1, <2>3 DEF DeqCas, HeadUnmoved, ELook
    <3> QED BY <2>1, <3>1 DEF Effect
  <2> QED BY <2>2, <2>3
<1>10. CASE DeqData(t, lh[t], "d_retire")
  <2>1. Alone(t) /\ ERead(t)
    BY <1>1, <1>10 DEF DeqData, ERead, Src
  <2> QED BY <2>1 DEF Effect
<1>11. CASE DeqRetire(t, "leave")
  <2>1. Alone(t) /\ EEnd(t)
    BY <1>1, <1>11 DEF DeqRetire, EEnd
  <2> QED BY <2>1 DEF Effect
<1> USE DEF StackClearPC, StackTakenPC
<1>12. CASE TopLoad(t, "c_load", "c_guard", "c_leave")
  <2>1. Alone(t) /\ (EClear(t) \/ EAll(t))
    BY <1>1, <1>2, <1>12, NullAssumption DEF TopLoad, EClear, EAll
  <2> QED BY <2>1 DEF Effect
<1>13. CASE ClearGuard(t) \/ ClearCheck(t)
  <2>1. Alone(t) /\ EClear(t)
    BY <1>1, <1>13 DEF ClearGuard, ClearCheck, EClear
  <2> QED BY <2>1 DEF Effect
<1>14. CASE ClearCas(t)
  <2>1. Alone(t) /\ (EClear(t) \/ EAll(t))
    BY <1>1, <1>14 DEF ClearCas, EClear, EAll
  <2> QED BY <2>1 DEF Effect
<1>15. CASE ClearNext(t) \/ ClearRetire(t)
  <2>1. Alone(t) /\ EDrop(t)
    BY <1>1, <1>15 DEF ClearNext, ClearRetire, EDrop
  <2> QED BY <2>1 DEF Effect
<1>16. CASE Leave(t)
  <2>1. Alone(t) /\ ELeave(t)
    BY <1>1, <1>16 DEF Leave, ELeave, SPC, StackPushPC
  <2> QED BY <2>1 DEF Effect
<1> QED BY <1>1, <1>3, <1>4, <1>5, <1>6, <1>7, <1>8, <1>9, <1>10, <1>11, <1>12, <1>13, <1>14, <1>15, <1>16, SSteps

-----------------------------------------------------------------------------
(* The values *)

Vals(t) ==
    /\ pc[t] \in MakePC => data[node[t]] = val[t]
    /\ pc[t] \in EnqPC \cup {"s_cas"} => val[t] \in Value
    /\ pc[t] \in {"d_fix", "d_fix2", "d_data"} => data[Src(t)] \in Value
    /\ pc[t] \in {"d_count", "d_retire"} => val[t] \in Value
    /\ pc[t] \in {"idle"} \cup DequeuePC => val[t] = None
    /\ pc[t] \in EmptyPC /\ nxt[t] = Null => saw[t]
Saws ==
    \A t \in Thread : /\ saw[t] => pc[t] \in DequeuePC
                      /\ pc[t] \in DequeuePC /\ items = <<>> => saw[t]
VInv ==
    /\ \A i \in 1..Len(items) : data[items[i]] \in Value
    /\ Saws
    /\ \A t \in Thread : Vals(t)

\* The nodes whose values matter are not free, so that they keep them.
Live ==
    /\ items \in Seq(Node) /\ data \in [Node -> Value \cup {None}] /\ Len(items) \in Nat
    /\ \A i \in 1..Len(items) : items[i] \in Node /\ status[items[i]] = "linked"
    /\ \A t \in Thread : /\ pc[t] \in MakePC => node[t] \in Node /\ status[node[t]] = "linked"
                         /\ pc[t] \in {"d_fix", "d_fix2", "d_data"} => Src(t) \in Node /\ status[Src(t)] # "free"

\* The invariant says so.
LEMMA Alive ==
  ASSUME Inv, kind \in Proved
  PROVE  Live
<1>1. CASE QInv
  <2>1. kind \in {"ms", "moir"} /\ R!RTypeOK /\ R!RInv /\ NodeTypeOK /\ pc \in [Thread -> QPC]
    BY <1>1 DEF QInv, QTyped, R!RGood
  <2>2. \A i \in 1..Len(items) : items[i] \in Node /\ status[items[i]] = "linked"
    <3>1. ASSUME NEW i \in 1..Len(items) PROVE items[i] \in Node /\ status[items[i]] = "linked"
      <4>1. Len(items) \in Nat /\ At(i) = items[i] /\ i \in 0..Len(items) /\ At(i) \in Node
        BY <1>1, QList
      <4> QED BY <1>1, <4>1 DEF QInv, QChain
    <3> QED BY <3>1
  <2>3. ASSUME NEW t \in Thread
        PROVE  /\ pc[t] \in MakePC => node[t] \in Node /\ status[node[t]] = "linked"
               /\ pc[t] \in {"d_fix", "d_fix2", "d_data"} => Src(t) \in Node /\ status[Src(t)] # "free"
    <3>1. QOwn(t) /\ QDeq(t) /\ pc[t] # "s_cas"
      BY <1>1, <2>1 DEF QInv, QKnow, QPC, EnqPC, DeqPC
    <3>2. pc[t] \in {"d_fix", "d_fix2", "d_data"} => nxt[t] \in Node /\ U(t, 1) = nxt[t]
      BY <3>1 DEF QDeq
    <3>3. pc[t] \in {"d_fix", "d_fix2", "d_data"} => status[nxt[t]] # "free"
      BY <2>1, <3>2, UsedIsSafe, Slots
    <3> QED BY <2>1, <3>1, <3>2, <3>3 DEF QOwn, MakePC, Src
  <2> QED BY <1>1, <2>1, <2>2, <2>3, QList DEF NodeTypeOK, Live
<1>2. CASE SInv
  <2>1. kind = "stack" /\ NodeTypeOK /\ pc \in [Thread -> SPC]
    BY <1>2 DEF SInv, STyped
  <2>2. ASSUME NEW t \in Thread
        PROVE  /\ pc[t] \in MakePC => node[t] \in Node /\ status[node[t]] = "linked"
               /\ pc[t] \in {"d_fix", "d_fix2", "d_data"} => Src(t) \in Node /\ status[Src(t)] # "free"
    BY <1>2, <2>1 DEF SInv, SOwn, SPC, StackPushPC, StackClearPC, StackTakenPC, MakePC, MakingPC, PopPC, Src
  <2> QED BY <1>2, <2>1, <2>2, SList DEF NodeTypeOK, Live
<1> QED BY <1>1, <1>2 DEF Inv, Proved

\* A step of one thread or of the reclaimer
LEMMA Moved ==
  ASSUME Inv, kind \in Proved, QNext
  PROVE  /\ kind' = kind /\ Watch
         /\ \/ \E t \in Thread : Alone(t) /\ Effect(t)
            \/ \E n \in Node : /\ status[n] = "retired" /\ status'[n] = "free" /\ data' = [data EXCEPT ![n] = None]
                               /\ UNCHANGED <<items, pc, node, val, lh, nxt>>
<1>1. kind' = kind /\ Watch
  BY DEF QNext
<1>2. ASSUME NEW n \in Node, Reclaim(n)
      PROVE  /\ status[n] = "retired" /\ status'[n] = "free" /\ data' = [data EXCEPT ![n] = None]
             /\ UNCHANGED <<items, pc, node, val, lh, nxt>>
  BY <1>2 DEF Reclaim, R!Free, localVars
<1>3. CASE kind \in {"ms", "moir"}
  BY <1>1, <1>2, <1>3, Moves, QEffect DEF QMove, Inv
<1>4. CASE kind = "stack"
  BY <1>1, <1>2, <1>4, Moves, SEffect DEF SMove, Inv
<1> QED BY <1>1, <1>3, <1>4 DEF Proved

\* A node that is not free keeps its value unless it is freed.
LEMMA DataStays ==
  ASSUME Inv, kind \in Proved, QNext, NEW m \in Node, status[m] # "free", status[m] = "retired" => status'[m] # "free"
  PROVE  data'[m] = data[m]
<1>1. data \in [Node -> Value \cup {None}]
  BY Alive DEF Live
<1>2. ASSUME NEW n \in Node, status[n] = "retired", status'[n] = "free", data' = [data EXCEPT ![n] = None] PROVE data'[m] = data[m]
  BY <1>1, <1>2
<1>3. ASSUME NEW t \in Thread, Effect(t) PROVE data'[m] = data[m]
  <2>1. CASE ECall(t)
    BY <1>1, <2>1 DEF ECall
  <2>2. CASE ~ECall(t)
    BY <1>3, <2>2 DEF Effect, EMake, ELink, EAfter, EAsk, ELook, EFail, ETake, EFix, ERead, EEnd, EClear, EAll, EDrop, ELeave, Still
  <2> QED BY <2>1, <2>2
<1> QED BY <1>2, <1>3, Moved

\* Every step keeps what is known of the values.
LEMMA VKeeps ==
  ASSUME Inv, kind \in Proved, Live, Live', QNext, VInv
  PROVE  VInv'
<1>1. kind' = kind /\ Watch /\ Saws /\ \A t \in Thread : Vals(t)
  BY Moved DEF VInv
<1>2. \A m \in Node : status[m] # "free" /\ (status[m] = "retired" => status'[m] # "free") => data'[m] = data[m]
  BY DataStays
<1>3. \A i \in 1..Len(items) : items[i] \in Node /\ data'[items[i]] = data[items[i]] /\ data[items[i]] \in Value
  BY <1>2 DEF Live, VInv
<1>4. Saws'
  <2>1. \A t \in Thread : /\ saw'[t] = (Deciding(t)' /\ (Contents' = <<>> \/ (Deciding(t) /\ saw[t])))
                          /\ Deciding(t)' <=> pc'[t] \in DequeuePC
    BY <1>1 DEF Watch, Deciding, Proved
  <2>2. Contents' = items'
    BY <1>1 DEF Contents, Proved
  <2> QED BY <2>1, <2>2 DEF Saws
<1>5. ASSUME NEW u \in Thread, pc'[u] = pc[u], node'[u] = node[u], val'[u] = val[u], lh'[u] = lh[u], nxt'[u] = nxt[u]
      PROVE  Vals(u)'
  <2>1. Vals(u)
    BY <1>1
  <2>2. pc[u] \in MakePC => data'[node[u]] = data[node[u]]
    BY <1>2 DEF Live
  <2>3. Src(u)' = Src(u)
    BY <1>1, <1>5 DEF Src
  <2>4. PICK n : n = Src(u)
    OBVIOUS
  <2>5. pc[u] \in {"d_fix", "d_fix2", "d_data"} => data'[n] = data[n]
    BY <1>2, <1>5, <2>3, <2>4 DEF Live
  <2>6. pc[u] \in EmptyPC /\ saw[u] => saw'[u]
    <3>1. pc[u] \in EmptyPC => pc[u] \in DequeuePC
      BY DEF EmptyPC, DequeuePC, DeqPC
    <3> QED BY <1>1, <1>5, <3>1 DEF Watch, Deciding
  <2> QED BY <1>5, <2>1, <2>2, <2>3, <2>4, <2>5, <2>6 DEF Vals
<1>6. ASSUME NEW n \in Node, UNCHANGED <<items, pc, node, val, lh, nxt>> PROVE VInv'
  BY <1>3, <1>4, <1>5, <1>6 DEF VInv
<1>7. ASSUME NEW t \in Thread, Alone(t), Effect(t) PROVE VInv'
  <2>1. \A u \in Thread : u # t => Vals(u)'
    BY <1>5, <1>7 DEF Alone
  <2>2. Vals(t) /\ None \notin Value
    BY <1>1, NoneAssumption
  <2> USE DEF MakePC, MakingPC, EnqPC, DequeuePC, DeqPC, FixPC, LmsDeqPC, EmptyPC, StackPushPC, StackClearPC, StackTakenPC
  <2>3. Vals(t)'
    <3>1. CASE EMake(t)
      BY <2>2, <3>1 DEF EMake, Still, Vals
    <3>2. CASE ELink(t) \/ EAfter(t)
      BY <2>2, <3>2 DEF ELink, EAfter, Still, Vals
    <3>3. CASE ECall(t)
      BY <3>3 DEF ECall, Vals, Live
    <3>4. CASE EAsk(t) \/ EClear(t) \/ EAll(t) \/ EDrop(t) \/ ELeave(t)
      BY <2>2, <3>4 DEF EAsk, EClear, EAll, EDrop, ELeave, Still, Vals
    <3>5. CASE ELook(t)
      <4>1. pc'[t] \in EmptyPC /\ nxt'[t] = Null => saw[t]
        BY <1>1, <2>2, <3>5 DEF ELook, Vals, Saws
      <4>2. saw[t] => saw'[t]
        BY <1>1, <3>5 DEF ELook, Watch, Deciding
      <4> QED BY <2>2, <3>5, <4>1, <4>2 DEF ELook, Still, Vals
    <3>6. CASE EFail(t)
      BY <2>2, <3>6 DEF EFail, Still, Vals
    <3>7. CASE ETake(t)
      <4>1. Src(t)' = Src(t)
        BY <1>1, <3>7 DEF ETake, Src
      <4>2. 1 \in 1..Len(items)
        BY <3>7 DEF ETake, Live
      <4>3. data'[Src(t)'] \in Value
        BY <1>3, <3>7, <4>1, <4>2 DEF ETake
      <4> QED BY <3>7, <4>3 DEF ETake, Vals
    <3>8. CASE EFix(t)
      <4>1. Src(t)' = Src(t)
        BY <1>1, <3>8 DEF EFix, Src
      <4> QED BY <2>2, <3>8, <4>1 DEF EFix, Still, Vals
    <3>9. CASE ERead(t)
      BY <2>2, <3>9 DEF ERead, Vals
    <3>10. CASE EEnd(t)
      BY <2>2, <3>10 DEF EEnd, Still, Vals
    <3> QED BY <1>7, <3>1, <3>2, <3>3, <3>4, <3>5, <3>6, <3>7, <3>8, <3>9, <3>10 DEF Effect
  <2>4. \A i \in 1..Len(items') : data'[items'[i]] \in Value
    <3>1. CASE items' = items
      BY <1>3, <3>1
    <3>2. CASE ELink(t)
      <4>1. /\ node[t] \in Node /\ data'[node[t]] \in Value
        BY <2>2, <3>2 DEF ELink, Vals, Live
      <4>2. \A i \in 1..Len(items') : items'[i] = node[t] \/ \E j \in 1..Len(items) : items'[i] = items[j]
        <5>1. items \in Seq(Node)
          BY DEF Live
        <5>2. CASE items' = Append(items, node[t])
          BY <4>1, <5>1, <5>2
        <5>3. CASE items' = <<node[t]>> \o items
          BY <4>1, <5>1, <5>3
        <5> QED BY <3>2, <5>2, <5>3 DEF ELink
      <4> QED BY <1>3, <4>1, <4>2
    <3>3. CASE ETake(t)
      <4>1. PICK l \in Nat : Len(items) = l + 1
        <5>1. Len(items) \in Nat /\ Len(items) # 0
          BY <3>3 DEF ETake, Live
        <5>2. Len(items) - 1 \in Nat /\ Len(items) = (Len(items) - 1) + 1
          BY <5>1
        <5> QED BY <5>2
      <4>2. Len(items') = l /\ \A i \in 1..l : items'[i] = items[i + 1] /\ i + 1 \in 1..Len(items)
        BY <3>3, <4>1, Popped DEF ETake, Live
      <4> QED BY <1>3, <4>2
    <3>4. CASE EAll(t)
      <4>1. Len(items') = 0
        BY <3>4 DEF EAll
      <4> QED BY <4>1
    <3> QED BY <1>7, <3>1, <3>2, <3>3, <3>4
          DEF Effect, EMake, EAfter, ECall, EAsk, ELook, EFail, EFix, ERead, EEnd, EClear, EDrop, ELeave, Still
  <2> QED BY <1>4, <2>1, <2>3, <2>4 DEF VInv
<1> QED BY <1>6, <1>7, Moved

-----------------------------------------------------------------------------
(* The queue, or stack, that they implement *)

Held == [i \in DOMAIN items |-> data[items[i]]]
Doing == [t \in Thread |-> OpOf(t)]
Bringing == [t \in Thread |-> ValOf(t)]

\* What a step of thread t is to the abstract queue
Appears(t) ==
    \/ OpOf(t) = "idle" /\ OpOf(t)' = "enq" /\ ValOf(t)' \in Value /\ Held' = Held
    \/ OpOf(t) = "idle" /\ OpOf(t)' \in {"deq", "clear"} /\ ValOf(t)' = ValOf(t) /\ Held' = Held
    \/ /\ OpOf(t) = "enq" /\ OpOf(t)' = "done" /\ ValOf(t)' = ValOf(t)
       /\ Held' = IF kind = "stack" THEN <<ValOf(t)>> \o Held ELSE Append(Held, ValOf(t))
    \/ /\ OpOf(t) = "deq" /\ OpOf(t)' = "done" /\ Held # <<>>
       /\ ValOf(t)' = Head(Held) /\ Held' = Tail(Held)
    \/ OpOf(t) = "deq" /\ saw[t] /\ OpOf(t)' = "idle" /\ ValOf(t)' = ValOf(t) /\ Held' = Held
    \/ OpOf(t) = "clear" /\ OpOf(t)' = "done" /\ ValOf(t)' = ValOf(t) /\ Held' = <<>>
    \/ OpOf(t) = "done" /\ OpOf(t)' = "idle" /\ ValOf(t)' = None /\ Held' = Held
Nothing(t) == OpOf(t)' = OpOf(t) /\ ValOf(t)' = ValOf(t) /\ Held' = Held

\* Where a thread is tells what it is doing.
Table(t) ==
    /\ OpOf(t) = "deq" <=> pc[t] \in DequeuePC
    /\ Deciding(t) <=> pc[t] \in DequeuePC
    /\ pc[t] \in MakePC => OpOf(t) = "enq"
    /\ pc[t] = "idle" => OpOf(t) = "idle"
    /\ pc[t] \in StackClearPC => OpOf(t) = "clear"
    /\ pc[t] = "leave" => OpOf(t) = IF val[t] = None THEN "idle" ELSE "done"
    /\ pc[t] \in {"e_count", "e_swing"} \cup TakingPC \cup StackTakenPC => OpOf(t) = "done"
    /\ ValOf(t) = IF pc[t] \in {"d_fix", "d_fix2", "d_data"} THEN data[Src(t)] ELSE val[t]

\* The table, before and after a step
LEMMA Tables ==
  ASSUME Inv, Inv', kind \in Proved, kind' = kind, NEW t \in Thread
  PROVE  Table(t) /\ Table(t)'
<1>1. kind \in Proved /\ kind' \in Proved
  OBVIOUS
<1>2. kind = "stack" => pc[t] \notin {"d_fix", "d_fix2"} /\ pc'[t] \notin {"d_fix", "d_fix2"}
  BY DEF Inv, SInv, STyped, SPC, StackPushPC, StackClearPC, StackTakenPC
<1> USE DEF DequeuePC, DeqPC, FixPC, LmsDeqPC, EnqPC, MakePC, MakingPC, StackPushPC, StackClearPC, StackTakenPC, TakingPC
<1>3. (Deciding(t) <=> pc[t] \in DequeuePC) /\ (Deciding(t)' <=> pc'[t] \in DequeuePC)
  BY <1>1 DEF Deciding, Proved
<1>4. ValOf(t) = IF pc[t] \in {"d_fix", "d_fix2", "d_data"} THEN data[Src(t)] ELSE val[t]
  BY <1>1, <1>2 DEF ValOf, Src, Proved
<1>5. ValOf(t)' = IF pc'[t] \in {"d_fix", "d_fix2", "d_data"} THEN data'[Src(t)'] ELSE val'[t]
  BY <1>1, <1>2 DEF ValOf, Src, Proved
<1>6. Table(t)
  BY <1>3, <1>4 DEF OpOf, Table
<1>7. Table(t)'
  BY <1>3, <1>5 DEF OpOf, Table
<1> QED BY <1>6, <1>7

\* A step that changes nothing of that is none of the abstract queue.
LEMMA Unseen ==
  ASSUME kind \in Proved, kind' = kind, Watch, Saws, Saws', saw \in [Thread -> BOOLEAN],
         \A u \in Thread : Table(u) /\ Table(u)',
         \A u \in Thread : OpOf(u)' = OpOf(u) /\ ValOf(u)' = ValOf(u), Held' = Held
  PROVE  UNCHANGED F!fvars
<1>1. Contents = items /\ Contents' = items'
  BY DEF Contents, Proved
<1>2. /\ Held = [i \in DOMAIN Contents |-> data[Contents[i]]]
      /\ Held' = [i \in DOMAIN Contents' |-> data'[Contents'[i]]]
  BY <1>1 DEF Held
<1>3. Doing' = Doing /\ Bringing' = Bringing
  BY DEF Doing, Bringing
<1>4. \A u \in Thread : saw'[u] = saw[u]
  <2>1. items = <<>> <=> Held = <<>>
    BY DEF Held
  <2>2. items' = <<>> <=> Held' = <<>>
    BY DEF Held
  <2>3. \A u \in Thread : Deciding(u)' <=> Deciding(u)
    BY DEF Table
  <2>4. \A u \in Thread : saw'[u] = (Deciding(u)' /\ (items' = <<>> \/ (Deciding(u) /\ saw[u])))
    BY <1>1 DEF Watch
  <2>5. \A u \in Thread : /\ saw[u] \in BOOLEAN
                          /\ saw[u] => Deciding(u)
                          /\ Deciding(u) /\ items = <<>> => saw[u]
    BY DEF Table, Saws
  <2> QED BY <2>1, <2>2, <2>3, <2>4, <2>5
<1>5. saw' = saw
  BY <1>4 DEF Watch
<1> QED BY <1>2, <1>3, <1>5 DEF F!fvars, Doing, Bringing

\* A step that changes what one thread is doing is a step of the abstract queue.
LEMMA Abstractly ==
  ASSUME kind \in Proved, kind' = kind, Watch, Saws, Saws', saw \in [Thread -> BOOLEAN],
         \A u \in Thread : Table(u) /\ Table(u)',
         NEW t \in Thread, \A u \in Thread : u # t => OpOf(u)' = OpOf(u) /\ ValOf(u)' = ValOf(u),
         Nothing(t) \/ Appears(t)
  PROVE  F!FNext \/ UNCHANGED F!fvars
<1>1. Contents = items /\ Contents' = items'
  BY DEF Contents, Proved
<1>2. /\ Held = [i \in DOMAIN Contents |-> data[Contents[i]]]
      /\ Held' = [i \in DOMAIN Contents' |-> data'[Contents'[i]]]
  BY <1>1 DEF Held
<1>3. (kind = "stack")' = (kind = "stack")
  OBVIOUS
<1>4. F!Watch
  <2>1. \A u \in Thread : /\ OpOf(u) = "deq" <=> Deciding(u)
                          /\ OpOf(u)' = "deq" <=> Deciding(u)'
    BY DEF Table
  <2>2. Held' = <<>> <=> Contents' = <<>>
    BY <1>1 DEF Held
  <2> QED BY <1>2, <2>1, <2>2 DEF F!Watch, Watch
<1>5. CASE Nothing(t)
  <2>1. \A u \in Thread : OpOf(u)' = OpOf(u) /\ ValOf(u)' = ValOf(u)
    BY <1>5 DEF Nothing
  <2> QED BY <1>5, <2>1, Unseen DEF Nothing
<1>6. CASE Appears(t)
  <2>1. /\ Doing' = [Doing EXCEPT ![t] = OpOf(t)'] /\ Doing[t] = OpOf(t)
        /\ Bringing' = [Bringing EXCEPT ![t] = ValOf(t)'] /\ Bringing[t] = ValOf(t)
        /\ ValOf(t)' = ValOf(t) => Bringing' = Bringing
    BY DEF Doing, Bringing
  <2>2. CASE OpOf(t) = "idle" /\ OpOf(t)' = "enq" /\ ValOf(t)' \in Value /\ Held' = Held
    <3>1. F!CallEnqueue(t, ValOf(t)')
      BY <1>2, <1>3, <2>1, <2>2 DEF F!CallEnqueue, Doing, Bringing
    <3> QED BY <1>4, <2>2, <3>1 DEF F!FNext
  <2>3. CASE OpOf(t) = "idle" /\ OpOf(t)' \in {"deq", "clear"} /\ ValOf(t)' = ValOf(t) /\ Held' = Held
    <3>1. F!CallDequeue(t) \/ F!CallClear(t)
      BY <1>2, <1>3, <2>1, <2>3 DEF F!CallDequeue, F!CallClear, Doing, Bringing
    <3> QED BY <1>4, <3>1 DEF F!FNext
  <2>4. CASE /\ OpOf(t) = "enq" /\ OpOf(t)' = "done" /\ ValOf(t)' = ValOf(t)
             /\ Held' = IF kind = "stack" THEN <<ValOf(t)>> \o Held ELSE Append(Held, ValOf(t))
    <3>1. F!Enqueue(t)
      BY <1>2, <1>3, <2>1, <2>4 DEF F!Enqueue, Doing, Bringing
    <3> QED BY <1>4, <3>1 DEF F!FNext
  <2>5. CASE /\ OpOf(t) = "deq" /\ OpOf(t)' = "done" /\ Held # <<>>
             /\ ValOf(t)' = Head(Held) /\ Held' = Tail(Held)
    <3>1. F!Dequeue(t)
      BY <1>2, <1>3, <2>1, <2>5 DEF F!Dequeue, Doing, Bringing
    <3> QED BY <1>4, <3>1 DEF F!FNext
  <2>6. CASE OpOf(t) = "deq" /\ saw[t] /\ OpOf(t)' = "idle" /\ ValOf(t)' = ValOf(t) /\ Held' = Held
    <3>1. F!DequeueFails(t)
      BY <1>2, <1>3, <2>1, <2>6 DEF F!DequeueFails, Doing, Bringing
    <3> QED BY <1>4, <3>1 DEF F!FNext
  <2>7. CASE OpOf(t) = "clear" /\ OpOf(t)' = "done" /\ ValOf(t)' = ValOf(t) /\ Held' = <<>>
    <3>1. F!Clear(t)
      BY <1>2, <1>3, <2>1, <2>7 DEF F!Clear, Doing, Bringing
    <3> QED BY <1>4, <3>1 DEF F!FNext
  <2>8. CASE OpOf(t) = "done" /\ OpOf(t)' = "idle" /\ ValOf(t)' = None /\ Held' = Held
    <3>1. F!Return(t)
      BY <1>2, <1>3, <2>1, <2>8 DEF F!Return, Doing, Bringing
    <3> QED BY <1>4, <3>1 DEF F!FNext
  <2> QED BY <1>6, <2>2, <2>3, <2>4, <2>5, <2>6, <2>7, <2>8 DEF Appears
<1> QED BY <1>5, <1>6

\* The values of the nodes of a list
ValuesOf(d, s) == [i \in DOMAIN s |-> d[s[i]]]

\* They change with the list when its nodes keep their values.
LEMMA Mapped ==
  ASSUME NEW V, NEW d \in [Node -> V], NEW e \in [Node -> V], NEW s \in Seq(Node),
         \A i \in 1..Len(s) : e[s[i]] = d[s[i]]
  PROVE  /\ ValuesOf(e, s) = ValuesOf(d, s)
         /\ \A n \in Node : /\ ValuesOf(e, Append(s, n)) = Append(ValuesOf(d, s), e[n])
                         /\ ValuesOf(e, <<n>> \o s) = <<e[n]>> \o ValuesOf(d, s)
         /\ s # <<>> => /\ ValuesOf(d, s) # <<>> /\ Head(ValuesOf(d, s)) = d[s[1]]
                        /\ ValuesOf(e, SubSeq(s, 2, Len(s))) = Tail(ValuesOf(d, s))
<1>1. PICK l \in Nat : l = Len(s)
  OBVIOUS
<1>2. DOMAIN s = 1..l /\ \A i \in 1..l : s[i] \in Node
  BY <1>1
<1>3. /\ ValuesOf(d, s) \in Seq(V) /\ Len(ValuesOf(d, s)) = l
      /\ \A i \in 1..l : ValuesOf(d, s)[i] = d[s[i]] /\ ValuesOf(e, s)[i] = d[s[i]]
  <2>1. ValuesOf(d, s) = [i \in 1..l |-> d[s[i]]]
    BY <1>2 DEF ValuesOf
  <2>2. \A i \in 1..l : d[s[i]] \in V
    BY <1>2
  <2> QED BY <1>1, <1>2, <2>1, <2>2 DEF ValuesOf
<1>4. ValuesOf(e, s) = ValuesOf(d, s)
  BY <1>1, <1>2 DEF ValuesOf
<1>5. ASSUME NEW n \in Node PROVE ValuesOf(e, Append(s, n)) = Append(ValuesOf(d, s), e[n])
  <2>1. /\ Append(s, n) \in Seq(Node) /\ Len(Append(s, n)) = l + 1 /\ DOMAIN Append(s, n) = 1..(l + 1)
        /\ \A i \in 1..(l + 1) : Append(s, n)[i] = IF i = l + 1 THEN n ELSE s[i]
    BY <1>1
  <2>2. e[n] \in V /\ Append(ValuesOf(d, s), e[n]) = [i \in 1..(l + 1) |-> IF i = l + 1 THEN e[n] ELSE d[s[i]]]
    BY <1>3
  <2>3. ValuesOf(e, Append(s, n)) = [i \in 1..(l + 1) |-> IF i = l + 1 THEN e[n] ELSE d[s[i]]]
    BY <1>1, <2>1 DEF ValuesOf
  <2> QED BY <2>2, <2>3
<1>6. ASSUME NEW n \in Node PROVE ValuesOf(e, <<n>> \o s) = <<e[n]>> \o ValuesOf(d, s)
  <2>1. /\ <<n>> \o s \in Seq(Node) /\ Len(<<n>> \o s) = l + 1 /\ DOMAIN (<<n>> \o s) = 1..(l + 1)
        /\ \A i \in 1..(l + 1) : (<<n>> \o s)[i] = IF i = 1 THEN n ELSE s[i - 1]
    BY <1>1
  <2>2. e[n] \in V /\ <<e[n]>> \o ValuesOf(d, s) = [i \in 1..(l + 1) |-> IF i = 1 THEN e[n] ELSE d[s[i - 1]]]
    BY <1>3
  <2>3. \A i \in 1..(l + 1) : i # 1 => i - 1 \in 1..l
    BY <1>1
  <2>4. ValuesOf(e, <<n>> \o s) = [i \in 1..(l + 1) |-> IF i = 1 THEN e[n] ELSE d[s[i - 1]]]
    BY <1>1, <2>1, <2>3 DEF ValuesOf
  <2> QED BY <2>2, <2>4
<1>7. ASSUME s # <<>>
      PROVE  /\ ValuesOf(d, s) # <<>> /\ Head(ValuesOf(d, s)) = d[s[1]]
             /\ ValuesOf(e, SubSeq(s, 2, Len(s))) = Tail(ValuesOf(d, s))
  <2>1. PICK k \in Nat : l = k + 1
    <3>1. l # 0
      BY <1>1, <1>7
    <3>2. l - 1 \in Nat /\ l = (l - 1) + 1
      BY <3>1
    <3> QED BY <3>2
  <2>2. ValuesOf(d, s) # <<>> /\ Head(ValuesOf(d, s)) = d[s[1]]
    BY <1>3, <2>1
  <2>3. /\ SubSeq(s, 2, Len(s)) \in Seq(Node) /\ Len(SubSeq(s, 2, Len(s))) = k
        /\ \A i \in 1..k : SubSeq(s, 2, Len(s))[i] = s[i + 1]
    <3>1. Len(s) = k + 1
      BY <1>1, <2>1
    <3> QED BY <3>1, Popped
  <2>4. Tail(ValuesOf(d, s)) = [i \in 1..k |-> d[s[i + 1]]]
    <3>1. \A i \in 1..k : i + 1 \in 1..l
      BY <2>1
    <3>2. PICK v \in Seq(V) : v = ValuesOf(d, s)
      BY <1>3
    <3>3. Len(v) = k + 1 /\ v # <<>> /\ \A i \in 1..k : v[i + 1] = d[s[i + 1]]
      BY <1>3, <2>1, <2>2, <3>1, <3>2
    <3>4. Tail(v) \in Seq(V) /\ Len(Tail(v)) = k /\ \A i \in 1..k : Tail(v)[i] = v[i + 1]
      BY <3>3
    <3>5. Tail(v) \in [1..k -> V]
      BY <3>4, LenProperties
    <3>6. Tail(v) = [i \in 1..k |-> d[s[i + 1]]]
      BY <3>3, <3>4, <3>5
    <3> QED BY <3>2, <3>6
  <2>5. ValuesOf(e, SubSeq(s, 2, Len(s))) = [i \in 1..k |-> d[s[i + 1]]]
    <3>1. \A i \in 1..k : i + 1 \in 1..l
      BY <2>1
    <3>2. DOMAIN SubSeq(s, 2, Len(s)) = 1..k
      BY <2>3
    <3> QED BY <1>1, <2>3, <3>1, <3>2 DEF ValuesOf
  <2> QED BY <2>2, <2>4, <2>5
<1> QED BY <1>4, <1>5, <1>6, <1>7

\* Each step changes the abstract queue as the contents and the place of its thread tell.
LEMMA Implements ==
  ASSUME Inv, Inv', kind \in Proved, Live, Live', VInv, VInv', QNext
  PROVE  F!FNext \/ UNCHANGED F!fvars
<1>1. kind' = kind /\ Watch /\ Saws /\ Saws' /\ saw \in [Thread -> BOOLEAN] /\ \A t \in Thread : Vals(t) /\ Vals(t)'
  BY Moved DEF VInv, Inv, QInv, QTyped, SInv, STyped, NodeTypeOK, Proved
<1>2. \A t \in Thread : Table(t) /\ Table(t)'
  BY <1>1, Tables
<1>3. \A m \in Node : status[m] # "free" /\ (status[m] = "retired" => status'[m] # "free") => data'[m] = data[m]
  BY DataStays
<1>4. /\ items \in Seq(Node) /\ data \in [Node -> Value \cup {None}] /\ data' \in [Node -> Value \cup {None}]
      /\ \A i \in 1..Len(items) : items[i] \in Node /\ data'[items[i]] = data[items[i]]
  BY <1>3 DEF Live
<1>5. Held = ValuesOf(data, items) /\ Held' = ValuesOf(data', items')
  BY DEF Held, ValuesOf
<1>6. /\ items' = items => Held' = Held
      /\ \A n \in Node : /\ items' = Append(items, n) => Held' = Append(Held, data'[n])
                         /\ items' = <<n>> \o items => Held' = <<data'[n]>> \o Held
      /\ items # <<>> => /\ Held # <<>> /\ Head(Held) = data[items[1]]
                         /\ items' = SubSeq(items, 2, Len(items)) => Held' = Tail(Held)
  <2> DEFINE V == Value \cup {None}
  <2>1. PICK d \in [Node -> V], e \in [Node -> V], s \in Seq(Node) : d = data /\ e = data' /\ s = items
    BY <1>4
  <2>2. \A i \in 1..Len(s) : e[s[i]] = d[s[i]]
    BY <1>4, <2>1
  <2> HIDE DEF V
  <2>3. /\ ValuesOf(e, s) = ValuesOf(d, s)
        /\ \A n \in Node : /\ ValuesOf(e, Append(s, n)) = Append(ValuesOf(d, s), e[n])
                           /\ ValuesOf(e, <<n>> \o s) = <<e[n]>> \o ValuesOf(d, s)
        /\ s # <<>> => /\ ValuesOf(d, s) # <<>> /\ Head(ValuesOf(d, s)) = d[s[1]]
                       /\ ValuesOf(e, SubSeq(s, 2, Len(s))) = Tail(ValuesOf(d, s))
    BY <2>2, Mapped
  <2> QED BY <1>5, <2>1, <2>3
<1>7. items' = items => Held' = Held
  BY <1>6
<1>8. ASSUME NEW u \in Thread, pc'[u] = pc[u], val'[u] = val[u], lh'[u] = lh[u], nxt'[u] = nxt[u]
      PROVE  OpOf(u)' = OpOf(u) /\ ValOf(u)' = ValOf(u)
  <2>1. OpOf(u)' = OpOf(u)
    BY <1>1, <1>8 DEF OpOf, Deciding, Proved
  <2>2. PICK n : n = Src(u)
    OBVIOUS
  <2>3. Src(u)' = n
    BY <1>1, <1>8, <2>2 DEF Src
  <2>4. pc[u] \in {"d_fix", "d_fix2", "d_data"} => data'[n] = data[n]
    BY <1>3, <1>8, <2>2, <2>3 DEF Live
  <2>5. ValOf(u)' = ValOf(u)
    BY <1>2, <1>8, <2>2, <2>3, <2>4 DEF Table
  <2> QED BY <2>1, <2>5
<1>9. ASSUME NEW n \in Node, UNCHANGED <<items, pc, node, val, lh, nxt>> PROVE F!FNext \/ UNCHANGED F!fvars
  <2>1. \A u \in Thread : OpOf(u)' = OpOf(u) /\ ValOf(u)' = ValOf(u)
    BY <1>8, <1>9
  <2> QED BY <1>1, <1>2, <1>7, <1>9, <2>1, Unseen
<1>10. ASSUME NEW t \in Thread, Alone(t), Effect(t) PROVE F!FNext \/ UNCHANGED F!fvars
  <2>1. \A u \in Thread : u # t => OpOf(u)' = OpOf(u) /\ ValOf(u)' = ValOf(u)
    BY <1>8, <1>10 DEF Alone
  <2>2. Vals(t) /\ Vals(t)' /\ Table(t) /\ Table(t)' /\ None \notin Value
    BY <1>1, <1>2, NoneAssumption
  <2> USE DEF MakePC, MakingPC, EnqPC, TakingPC, StackPushPC, StackClearPC, StackTakenPC
  <2>3. CASE EMake(t)
    <3>1. Nothing(t)
      BY <1>7, <2>2, <2>3 DEF EMake, Still, Table, Nothing
    <3> QED BY <1>1, <1>2, <2>1, <3>1, Abstractly
  <2>4. CASE ELink(t)
    <3>1. OpOf(t) = "enq" /\ OpOf(t)' = "done" /\ ValOf(t) = val[t] /\ ValOf(t)' = val[t]
      BY <2>2, <2>4 DEF ELink, Table, Vals
    <3>2. node[t] \in Node /\ data'[node[t]] = val[t]
      BY <2>2, <2>4 DEF ELink, Vals, Live
    <3>3. Held' = IF kind = "stack" THEN <<val[t]>> \o Held ELSE Append(Held, val[t])
      BY <1>6, <2>4, <3>2 DEF ELink
    <3>4. Appears(t)
      BY <3>1, <3>3 DEF Appears
    <3> QED BY <1>1, <1>2, <2>1, <3>4, Abstractly
  <2>5. CASE EAfter(t)
    <3>1. Nothing(t)
      BY <1>7, <2>2, <2>5 DEF EAfter, Still, Table, Nothing, Vals
    <3> QED BY <1>1, <1>2, <2>1, <3>1, Abstractly
  <2>6. CASE ECall(t)
    <3>1. OpOf(t) = "idle" /\ OpOf(t)' = "enq" /\ ValOf(t)' \in Value
      BY <2>2, <2>6 DEF ECall, Table, Vals
    <3>2. Appears(t)
      BY <1>7, <2>6, <3>1 DEF ECall, Appears
    <3> QED BY <1>1, <1>2, <2>1, <3>2, Abstractly
  <2>7. CASE EAsk(t)
    <3>1. pc'[t] \in DequeuePC \/ pc'[t] \in StackClearPC
      BY <2>7 DEF EAsk, DequeuePC, DeqPC
    <3>2. Appears(t)
      BY <1>7, <2>2, <2>7, <3>1 DEF EAsk, Still, Table, Appears
    <3> QED BY <1>1, <1>2, <2>1, <3>2, Abstractly
  <2>8. CASE ELook(t)
    <3>1. pc[t] \notin {"d_fix", "d_fix2", "d_data"} /\ pc'[t] \notin {"d_fix", "d_fix2", "d_data"}
      BY <2>8 DEF ELook, DequeuePC, DeqPC, FixPC, LmsDeqPC
    <3>2. Nothing(t)
      BY <1>7, <2>2, <2>8, <3>1 DEF ELook, Still, Table, Nothing
    <3> QED BY <1>1, <1>2, <2>1, <3>2, Abstractly
  <2>9. CASE EFail(t)
    <3>1. pc[t] \notin {"d_fix", "d_fix2", "d_data"} /\ pc'[t] \notin {"d_fix", "d_fix2", "d_data"}
      BY <2>9 DEF EFail, DequeuePC, DeqPC, FixPC, LmsDeqPC
    <3>2. saw[t] /\ val[t] = None /\ val'[t] = None
      BY <1>1, <2>2, <2>9 DEF EFail, Still, Vals, Saws
    <3>3. Appears(t)
      BY <1>7, <2>2, <2>9, <3>1, <3>2 DEF EFail, Still, Table, Appears
    <3> QED BY <1>1, <1>2, <2>1, <3>3, Abstractly
  <2>10. CASE ETake(t)
    <3>1. OpOf(t) = "deq" /\ OpOf(t)' = "done" /\ ValOf(t)' = data'[Src(t)']
      BY <2>2, <2>10 DEF ETake, Table, DequeuePC, DeqPC
    <3>2. PICK n : n = Src(t)
      OBVIOUS
    <3>3. Src(t)' = n /\ n = items[1] /\ items # <<>>
      BY <1>1, <2>10, <3>2 DEF ETake, Src
    <3>4. 1 \in 1..Len(items)
      BY <3>3 DEF Live
    <3>5. ValOf(t)' = data[items[1]]
      BY <1>4, <3>1, <3>3, <3>4
    <3>6. Held # <<>> /\ Head(Held) = data[items[1]] /\ Held' = Tail(Held)
      BY <1>6, <2>10, <3>3 DEF ETake
    <3>7. Appears(t)
      BY <3>1, <3>5, <3>6 DEF Appears
    <3> QED BY <1>1, <1>2, <2>1, <3>7, Abstractly
  <2>11. CASE EFix(t)
    <3>1. PICK n : n = Src(t)
      OBVIOUS
    <3>2. Src(t)' = n
      BY <1>1, <2>11, <3>1 DEF EFix, Src
    <3>3. Nothing(t)
      BY <1>7, <2>2, <2>11, <3>1, <3>2 DEF EFix, Still, Table, Nothing
    <3> QED BY <1>1, <1>2, <2>1, <3>3, Abstractly
  <2>12. CASE ERead(t)
    <3>1. Nothing(t)
      BY <1>7, <2>2, <2>12 DEF ERead, Table, Nothing
    <3> QED BY <1>1, <1>2, <2>1, <3>1, Abstractly
  <2>13. CASE EEnd(t)
    <3>1. Nothing(t)
      BY <1>7, <2>2, <2>13 DEF EEnd, Still, Table, Nothing, Vals
    <3> QED BY <1>1, <1>2, <2>1, <3>1, Abstractly
  <2>14. CASE EClear(t) \/ EDrop(t)
    <3>1. Nothing(t)
      BY <1>7, <2>2, <2>14 DEF EClear, EDrop, Still, Table, Nothing
    <3> QED BY <1>1, <1>2, <2>1, <3>1, Abstractly
  <2>15. CASE EAll(t)
    <3>1. Held' = <<>>
      BY <2>15 DEF EAll, Held
    <3>2. Appears(t)
      BY <2>2, <2>15, <3>1 DEF EAll, Table, Appears
    <3> QED BY <1>1, <1>2, <2>1, <3>2, Abstractly
  <2>16. CASE ELeave(t)
    <3>1. Nothing(t) \/ Appears(t)
      BY <1>7, <2>2, <2>16 DEF ELeave, Table, Nothing, Appears
    <3> QED BY <1>1, <1>2, <2>1, <3>1, Abstractly
  <2> QED BY <1>10, <2>3, <2>4, <2>5, <2>6, <2>7, <2>8, <2>9, <2>10, <2>11, <2>12, <2>13, <2>14, <2>15, <2>16 DEF Effect
<1> QED BY <1>9, <1>10, Moved

\* A new object is empty, and nobody is at it.
LEMMA BeginsEmpty ==
  ASSUME QInit, kind \in Proved
  PROVE  VInv /\ F!FInit
<1>1. items = <<>> /\ kind # "lms" /\ \E n : InitWith(n)
  BY DEF QInit, MSInit, StackInit, Proved
<1>2. \A t \in Thread : pc[t] = "idle" /\ val[t] = None /\ ~saw[t]
  BY <1>1 DEF InitWith
<1>3. VInv
  <2>1. Saws
    BY <1>2 DEF Saws, DequeuePC, DeqPC, FixPC, LmsDeqPC
  <2>2. \A t \in Thread : Vals(t)
    BY <1>2 DEF Vals, MakePC, MakingPC, EnqPC, EmptyPC
  <2>3. Len(items) = 0
    BY <1>1
  <2> QED BY <2>1, <2>2, <2>3 DEF VInv
<1>4. \A t \in Thread : OpOf(t) = "idle" /\ ValOf(t) = None
  BY <1>1, <1>2 DEF OpOf, ValOf, Deciding, DequeuePC, DeqPC, FixPC, LmsDeqPC, EnqPC, StackPushPC, StackClearPC
<1>5. Contents = <<>> /\ [i \in DOMAIN Contents |-> data[Contents[i]]] = <<>>
  BY <1>1 DEF Contents
<1>6. Doing = [t \in Thread |-> "idle"] /\ Bringing = [t \in Thread |-> None]
  BY <1>4 DEF Doing, Bringing
<1>7. saw = [t \in Thread |-> FALSE]
  BY <1>1 DEF InitWith
<1> QED BY <1>3, <1>5, <1>6, <1>7 DEF F!FInit, Doing, Bringing

\* MSQueue and MoirQueue are first-in first-out queues, the stack is last in, first out: each call
\* takes effect at one instant, and "empty" is answered only if it was empty during the call.
THEOREM TakesEffectAtOnce == QSpec /\ kind \in Proved => KeepsOrder
<1>1. QInit /\ kind \in Proved => VInv /\ F!FInit
  BY BeginsEmpty
<1>2. Inv /\ kind \in Proved => Live
  BY Alive
<1>3. kind \in Proved /\ [QNext]_qvars => (kind \in Proved)'
  BY DEF QNext, qvars
<1>4. Inv /\ Inv' /\ Live /\ Live' /\ VInv /\ kind \in Proved /\ [QNext]_qvars
        => VInv' /\ [F!FNext]_F!fvars
  <2> SUFFICES ASSUME Inv, Inv', Live, Live', VInv, kind \in Proved, [QNext]_qvars
               PROVE  VInv' /\ (F!FNext \/ UNCHANGED F!fvars)
    OBVIOUS
  <2>1. CASE QNext
    <3>1. VInv'
      BY <2>1, VKeeps
    <3> QED BY <2>1, <3>1, Implements
  <2>2. CASE UNCHANGED qvars
    <3>1. \A t \in Thread : OpOf(t)' = OpOf(t) /\ ValOf(t)' = ValOf(t)
      BY <2>2 DEF qvars, vars, queueVars, localVars, lmsVars, OpOf, ValOf, Deciding
    <3>2. Doing' = Doing /\ Bringing' = Bringing /\ Contents' = Contents /\ data' = data /\ kind' = kind /\ saw' = saw
      BY <2>2, <3>1 DEF qvars, vars, queueVars, localVars, lmsVars, Doing, Bringing, Contents, Proved
    <3>3. VInv'
      BY <2>2 DEF qvars, vars, queueVars, localVars, VInv, Saws, Vals, Src
    <3> QED BY <3>2, <3>3 DEF F!fvars, Doing, Bringing
  <2> QED BY <2>1, <2>2
<1> QED BY <1>1, <1>2, <1>3, <1>4, Always, PTL DEF QSpec, KeepsOrder, F!FSpec
=============================================================================
