----------------------------- MODULE ListCommon -----------------------------
(***************************************************************************)
(* What Michael's list and the lazy list share                             *)
(* (cds/ordered_list/details/michael_list_hpgen.h, lazy_list_hpgen.h):     *)
(* nodes in ascending order of their keys, a deletion mark on each, the    *)
(* calls and returns of the operations, and the reclaimer, which is the    *)
(* abstract one of Reclamation: it frees a retired node whenever no guard  *)
(* has held it since it was retired.                                       *)
(***************************************************************************)
EXTENDS Naturals, FiniteSets

CONSTANTS Thread, Node,
          Keys,         \* the keys, integers: m_Cmp is their order
          NoKey,        \* the key of a cell that is not in use
          Null,         \* the null pointer
          HeadCell,     \* m_pHead: a link of Michael's list, a node of the lazy one
          TailCell,     \* &m_Tail, the last node of the lazy list
          NoThread,     \* an unlocked node
          Calls         \* a bound: <<t, o, k>>, thread t may call operation o with key k

\* insertf is insert with a functor; find is the find that calls one, which the
\* other find only lacks, and emplace of Michael's list
KeyOps == {"insert", "insertf", "ensure", "emplace", "find", "erase"}
Ops == KeyOps \cup {"empty", "clear"}
Inserts == {"insert", "insertf", "ensure"}
ListConstants ==
    /\ Keys \subseteq Nat /\ NoKey \notin Keys
    /\ IsFiniteSet(Node) /\ Null \notin Node /\ HeadCell \notin Node /\ TailCell \notin Node
    /\ Null # HeadCell /\ Null # TailCell /\ HeadCell # TailCell
    /\ NoThread \notin Thread
    /\ Calls \subseteq Thread \X Ops \X Keys

\* AutoHPArray hpArr, and the guard of a node to be linked
Slot == Thread \X (0..3)
Guards(t) == {t} \X (0..3)
Cell == Node \cup {HeadCell, TailCell}
Pointer == Cell \cup {Null}

VARIABLES
  kind,         \* the class of the list
  next, marked, \* m_pNext and its mark (one word in Michael's list) or m_bMarked
  key,          \* m_key of each node
  lock,         \* m_Lock of each cell of the lazy list: who holds it
  status, hz, using, blockers,  \* see Reclamation
  pc,
  op, arg,      \* the operation of each thread, and its key
  ans,          \* what it will answer, once that is decided
  node,         \* the node it wants to insert
  prev, cur,    \* pPrev (pPred) and pCur
  nxt, nmark,   \* pNext of Michael's list, and its mark
  items,        \* history: the nodes whose keys are in the set
  sawIn, sawOut \* history, see KeySet

R == INSTANCE Reclamation

listVars == <<next, marked, key, lock>>
reclaimVars == <<status, hz, using, blockers>>
callVars == <<op, arg, ans, node>>
posVars == <<prev, cur, nxt, nmark>>

NothingSeen ==
    /\ sawIn = [t \in Thread |-> FALSE]
    /\ sawOut = [t \in Thread |-> FALSE]
ListInit ==
    /\ kind \in {"michael", "lazy"}
    /\ next = [c \in Cell |-> IF c = HeadCell /\ kind = "lazy" THEN TailCell ELSE Null]
    /\ marked = [c \in Cell |-> FALSE]
    /\ key = [n \in Node |-> NoKey]
    /\ lock = [c \in Cell |-> NoThread]
    /\ R!RInit
    /\ pc = [t \in Thread |-> "idle"]
    /\ op = [t \in Thread |-> "none"]
    /\ arg = [t \in Thread |-> NoKey]
    /\ ans = [t \in Thread |-> "none"]
    /\ node = [t \in Thread |-> Null]
    /\ prev = [t \in Thread |-> Null]
    /\ cur = [t \in Thread |-> Null]
    /\ nxt = [t \in Thread |-> Null]
    /\ nmark = [t \in Thread |-> FALSE]
    /\ items = {}
    /\ NothingSeen

Goto(t, there) == pc' = [pc EXCEPT ![t] = there]
Answer(t, yesNo) == ans' = [ans EXCEPT ![t] = yesNo] /\ UNCHANGED <<op, arg, node>>
End == IF kind = "lazy" THEN TailCell ELSE Null

\* A slot holds p, of which the reclaimer knows only the nodes of the heap.
Guard(t, i, p) == R!SetSlot(<<t, i>>, IF p \in Node THEN p ELSE Null)
\* The guard in slot i is copied to slot j, or p, which needs none, is stored.
MoveGuard(t, i, j, p) ==
    IF p \in Node THEN R!Copy(<<t, i>>, <<t, j>>) ELSE Guard(t, j, p)

-----------------------------------------------------------------------------
(* Calls and returns *)

Clearing(t) == op[t] = "clear"
\* ensure of the lazy list allocates late, under its locks: a bound, it is called
\* only when a cell will be left for it
Reserved == Cardinality({t \in Thread : op[t] = "ensure" /\ node[t] = Null})
Room == Cardinality({n \in Node : status[n] = "free"}) > Reserved
AllocatesFirst(o) == o \in {"insert", "insertf"} \/ (o = "ensure" /\ kind = "michael")

CallKeyed(t, o, k) ==
    /\ <<t, o, k>> \in Calls
    /\ o \in Inserts => Room
    /\ o = "emplace" => kind = "lazy"
    /\ op' = [op EXCEPT ![t] = o]
    /\ arg' = [arg EXCEPT ![t] = k]
    /\ IF AllocatesFirst(o)
       THEN \E n \in Node :
               /\ R!Allocate(n)
               /\ key' = [key EXCEPT ![n] = k]
               /\ node' = [node EXCEPT ![t] = n]
       ELSE UNCHANGED <<key, reclaimVars, node>>
    /\ prev' = [prev EXCEPT ![t] = HeadCell]
    /\ Goto(t, "search")
    /\ UNCHANGED <<next, marked, lock, ans, cur, nxt, nmark, items>>

CallEmpty(t) ==
    /\ \E k \in Keys : <<t, "empty", k>> \in Calls
    /\ op' = [op EXCEPT ![t] = "empty"]
    /\ Goto(t, "empty")
    /\ UNCHANGED <<listVars, reclaimVars, arg, ans, node, posVars, items>>

\* "For many list implementation this function is not thread safe": clear runs
\* alone
CallClear(t) ==
    /\ \E k \in Keys : <<t, "clear", k>> \in Calls
    /\ \A u \in Thread : pc[u] = "idle"
    /\ op' = [op EXCEPT ![t] = "clear"]
    /\ Goto(t, "clear")
    /\ UNCHANGED <<listVars, reclaimVars, arg, ans, node, posVars, items>>

Call(t) ==
    /\ pc[t] = "idle"
    /\ \A u \in Thread : ~Clearing(u)
    /\ (\E o \in KeyOps, k \in Keys : CallKeyed(t, o, k)) \/ CallEmpty(t) \/ CallClear(t)

\* empty: one load of the first link
Empty(t) ==
    /\ pc[t] = "empty"
    /\ Answer(t, IF next[HeadCell] = End THEN "yes" ELSE "no")
    /\ Goto(t, "leave")
    /\ UNCHANGED <<listVars, reclaimVars, posVars, items>>

\* clear: the first node is marked and unlinked, then retired, until none is left
Clear(t) ==
    /\ pc[t] = "clear"
    /\ LET first == next[HeadCell]
       IN  IF first = End
           THEN /\ Answer(t, "yes")
                /\ Goto(t, "leave")
                /\ UNCHANGED <<listVars, reclaimVars, cur, items>>
           ELSE /\ marked' = [marked EXCEPT ![first] = TRUE]
                /\ next' = [next EXCEPT ![HeadCell] = next[first]]
                /\ items' = items \ {first}
                /\ cur' = [cur EXCEPT ![t] = first]
                /\ R!SetStatus(first, "unlinked")
                /\ Goto(t, "clear_retire")
                /\ UNCHANGED <<key, lock, callVars>>
    /\ UNCHANGED <<prev, nxt, nmark>>
ClearRetire(t) ==
    /\ pc[t] = "clear_retire"
    /\ R!HandOver(cur[t])
    /\ Goto(t, "clear")
    /\ UNCHANGED <<listVars, callVars, posVars, items>>

\* The position and its guards are destroyed; a node that was not linked is freed
Idle(t) ==
    /\ op' = [op EXCEPT ![t] = "none"]
    /\ arg' = [arg EXCEPT ![t] = NoKey]
    /\ ans' = [ans EXCEPT ![t] = "none"]
    /\ node' = [node EXCEPT ![t] = Null]
    /\ Goto(t, "idle")
NotLinked(t) == node[t] # Null /\ ans[t] = "no"
Leave(t) ==
    /\ pc[t] = "leave"
    /\ R!Release(Guards(t))
    /\ prev' = [prev EXCEPT ![t] = Null]
    /\ cur' = [cur EXCEPT ![t] = Null]
    /\ nxt' = [nxt EXCEPT ![t] = Null]
    /\ nmark' = [nmark EXCEPT ![t] = FALSE]
    /\ IF NotLinked(t) THEN Goto(t, "free") /\ UNCHANGED callVars ELSE Idle(t)
    /\ UNCHANGED <<listVars, items>>

\* What a freed cell holds is nobody's business: its old content is forgotten
Forget(n) ==
    /\ key' = [key EXCEPT ![n] = NoKey]
    /\ next' = [next EXCEPT ![n] = Null]
    /\ marked' = [marked EXCEPT ![n] = FALSE]
    /\ UNCHANGED lock
FreeNode(t) ==
    /\ pc[t] = "free"
    /\ R!Discard(node[t])
    /\ Forget(node[t])
    /\ Idle(t)
    /\ UNCHANGED <<posVars, items>>

\* The reclaimer frees a retired node.  A bound: it does so before anyone takes
\* another step.  The sooner a cell is freed the more can go wrong: until then it
\* keeps its content and cannot be handed out again.
Reclaimable(n) == status[n] = "retired" /\ blockers[n] = {}
Reclaim(n) ==
    /\ R!Free({n})
    /\ Forget(n)
    /\ UNCHANGED <<callVars, posVars, pc, items>>

Returning(t) == Empty(t) \/ Clear(t) \/ ClearRetire(t) \/ Leave(t) \/ FreeNode(t)
=============================================================================
