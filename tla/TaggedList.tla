----------------------------- MODULE TaggedList -----------------------------
(***************************************************************************)
(* Michael's ordered list over tagged pointers                             *)
(* (cds/ordered_list/michael_list_tagged.h).  A link is a tagged word that *)
(* holds a pointer and two bits about the node it belongs to: Deleted, and *)
(* Changing while a functor works on the value of the node, which must not *)
(* be deleted then.  There are no guards: nodes go to the free list at     *)
(* once, and only the tags tell one life of a node from the next.          *)
(*                                                                         *)
(* Of a tag only matters whether it still is what a thread read: known[t]  *)
(* is the set of words of which it is, as in TaggedFreeList, which also    *)
(* is the free list; here that is a set, and a node is freed as soon as it *)
(* is unlinked.                                                            *)
(***************************************************************************)
EXTENDS Naturals, FiniteSets

CONSTANTS Thread, Node, Keys, NoKey, Null, HeadCell,
          Calls,     \* a bound: <<t, o, k>>, thread t may call operation o with key k
          Coincide   \* a subset of BOOLEAN: may tags of two words be equal by chance

VARIABLES
  free,              \* the nodes in the free list, or not yet allocated
  next,              \* m_pHead and m_pNext of each node, with its bits
  key,               \* m_key of each node
  known,             \* the words whose tag each thread has read and is up to date
  pc, op, arg,       \* the operation of each thread, and its key
  ans,               \* its answer, once that is decided
  node,              \* the node it wants to insert
  prev,              \* pPrev: the node whose link it is, or HeadCell
  cur, nxt,          \* pCur and pNext, with their bits
  items              \* history: the nodes whose keys are in the set

posVars == <<prev, cur, nxt>>
callVars == <<op, ans, node>>

\* find is the one without functor; findf the one with a functor, and emplace.  The
\* functors of insert and erase change nothing that is modelled.
Ops == {"insert", "ensure", "find", "findf", "erase", "empty", "clear"}
TaggedListConstants ==
    /\ Calls \subseteq Thread \X Ops \X Keys
    /\ Coincide \subseteq BOOLEAN /\ Coincide # {}

Word == Node \cup {HeadCell}
Link == [to : Node \cup {Null}, bits : SUBSET {"Deleted", "Changing"}]
Marked(p, bits) == [to |-> p, bits |-> bits]
Clean(p) == Marked(p, {})
getMarked(link, mask) == Marked(link.to, link.bits \cap mask)

Init ==
    /\ free = Node
    /\ next = [w \in Word |-> Clean(Null)]
    /\ key = [n \in Node |-> NoKey]
    /\ known = [t \in Thread |-> {}]
    /\ pc = [t \in Thread |-> "idle"]
    /\ op = [t \in Thread |-> "none"]
    /\ arg = [t \in Thread |-> NoKey]
    /\ ans = [t \in Thread |-> "none"]
    /\ node = [t \in Thread |-> Null]
    /\ prev = [t \in Thread |-> HeadCell]
    /\ cur = [t \in Thread |-> Clean(Null)]
    /\ nxt = [t \in Thread |-> Clean(Null)]
    /\ items = {}

Goto(t, there) == pc' = [pc EXCEPT ![t] = there]
Answer(t, yesNo) == ans' = [ans EXCEPT ![t] = yesNo] /\ UNCHANGED <<op, node>>

\* cas_tagged of a link: its tag and its content are as expected, or else the
\* operation starts again.
Bump(w) == known' = [t \in Thread |-> known[t] \ {w}]
AsExpected(t, w, expected) == w \in known[t] /\ next[w] = expected
Cas(t, w, expected, new) ==
    /\ AsExpected(t, w, expected)
    /\ next' = [next EXCEPT ![w] = new]
    /\ Bump(w)
Fails(t, w, expected) ==
    /\ ~AsExpected(t, w, expected)
    /\ Goto(t, "search")
    /\ UNCHANGED <<next, known>>

-----------------------------------------------------------------------------
(* search *)

\* Where an operation goes when its search has ended
Ended(t, found) ==
    IF ans[t] # "none" THEN Goto(t, "done") /\ UNCHANGED callVars
    ELSE CASE op[t] \in {"insert", "ensure"} /\ ~found ->
                Goto(t, IF node[t] = Null THEN "alloc" ELSE "set") /\ UNCHANGED callVars
           [] op[t] = "insert" /\ found -> Goto(t, "done") /\ Answer(t, "no")
           [] op[t] \in {"ensure", "findf"} /\ found -> Goto(t, "change") /\ UNCHANGED callVars
           [] op[t] = "erase" /\ found -> Goto(t, "mark") /\ UNCHANGED callVars
           [] OTHER -> Goto(t, "done") /\ Answer(t, IF found THEN "yes" ELSE "no")
\* pCur is link, the content of pPrev
GoOn(t, link) ==
    /\ cur' = [cur EXCEPT ![t] = link]
    /\ nxt' = [nxt EXCEPT ![t] = Clean(Null)]
    /\ IF link.to = Null THEN Ended(t, FALSE) ELSE Goto(t, "next") /\ UNCHANGED callVars

\* try_again
Search(t) ==
    /\ pc[t] = "search"
    /\ prev' = [prev EXCEPT ![t] = HeadCell]
    /\ known' = [known EXCEPT ![t] = {HeadCell}]
    /\ GoOn(t, next[HeadCell])
    /\ UNCHANGED <<free, next, key, arg, items>>

LoadNext(t) ==
    /\ pc[t] = "next"
    /\ nxt' = [nxt EXCEPT ![t] = next[cur[t].to]]
    /\ known' = [known EXCEPT ![t] = (@ \cap {prev[t]}) \cup {cur[t].to}]
    /\ Goto(t, "check")
    /\ UNCHANGED <<free, next, key, arg, callVars, prev, cur, items>>

\* The pointers are compared, not the tags.
PrevUnmoved(t) == next[prev[t]] = cur[t] /\ "Deleted" \notin cur[t].bits
CheckPrev(t) ==
    /\ pc[t] = "check"
    /\ Goto(t, IF ~PrevUnmoved(t) THEN "search"
               ELSE IF "Deleted" \notin nxt[t].bits THEN "compare"
               ELSE IF "Changing" \in nxt[t].bits THEN "search" ELSE "unlink")
    /\ UNCHANGED <<free, next, key, known, arg, callVars, posVars, items>>

\* ckey is a reference: the key is read now.
Compare(t) ==
    /\ pc[t] = "compare"
    /\ LET ckey == key[cur[t].to]
       IN  IF ckey >= arg[t]
           THEN Ended(t, ckey = arg[t]) /\ UNCHANGED posVars
           ELSE prev' = [prev EXCEPT ![t] = cur[t].to] /\ GoOn(t, nxt[t])
    /\ UNCHANGED <<free, next, key, known, arg, items>>

\* A deleted node that the search meets is unlinked and freed.  Then pCur = pNext,
\* with the Deleted bit, and with a tag that was read from the link of that
\* node, not from the link before it.
Unlink(t) ==
    /\ pc[t] = "unlink"
    /\ LET expected == getMarked(cur[t], {"Deleted"})
       IN  \/ /\ AsExpected(t, prev[t], expected)
              /\ next' = [next EXCEPT ![prev[t]] = Clean(nxt[t].to)]
              /\ \E same \in Coincide :
                    known' = [u \in Thread |-> IF u = t THEN IF same THEN {prev[t]} ELSE {}
                                               ELSE known[u] \ {prev[t]}]
              /\ free' = free \cup {cur[t].to}
              /\ GoOn(t, nxt[t])
           \/ Fails(t, prev[t], expected) /\ UNCHANGED <<free, callVars, cur, nxt>>
    /\ UNCHANGED <<key, arg, prev, items>>

-----------------------------------------------------------------------------
(* insert and ensure *)

Allocate(t, k) ==
    \E n \in free :
       /\ free' = free \ {n}
       /\ key' = [key EXCEPT ![n] = k]
       /\ node' = [node EXCEPT ![t] = n]
AllocNode(t) ==
    /\ pc[t] = "alloc"
    /\ Allocate(t, arg[t])
    /\ Goto(t, "set")
    /\ UNCHANGED <<next, known, arg, op, ans, posVars, items>>

\* insertAt: the link of the new node is set, then the node is linked
SetNext(t) ==
    /\ pc[t] = "set"
    /\ next' = [next EXCEPT ![node[t]] = cur[t]]
    /\ Bump(node[t])
    /\ Goto(t, "link")
    /\ UNCHANGED <<free, key, arg, callVars, posVars, items>>
LinkNode(t) ==
    /\ pc[t] = "link"
    /\ \/ /\ Cas(t, prev[t], Clean(cur[t].to), Clean(node[t]))
          /\ items' = items \cup {node[t]}
          /\ Answer(t, "yes")
          /\ Goto(t, "done")
       \/ Fails(t, prev[t], Clean(cur[t].to)) /\ UNCHANGED <<items, callVars>>
    /\ UNCHANGED <<free, key, arg, posVars>>

-----------------------------------------------------------------------------
(* A functor changes the value of a node: ensure, emplace, find *)

Change(t) ==
    /\ pc[t] = "change"
    /\ LET expected == Clean(nxt[t].to)
       IN  \/ /\ Cas(t, cur[t].to, expected, Marked(nxt[t].to, {"Changing"}))
              /\ Answer(t, IF op[t] = "ensure" THEN "no" ELSE "yes")
              /\ Goto(t, "functor")
           \/ Fails(t, cur[t].to, expected) /\ UNCHANGED callVars
    /\ UNCHANGED <<free, key, arg, posVars, items>>

\* The functor has returned.  ~auto_clear_mark repeats its compare-and-swap until it
\* succeeds.
ClearMark(t) ==
    /\ pc[t] = "functor"
    /\ next' = [next EXCEPT ![cur[t].to].bits = @ \ {"Changing"}]
    /\ Bump(cur[t].to)
    /\ Goto(t, "done")
    /\ UNCHANGED <<free, key, arg, callVars, posVars, items>>

-----------------------------------------------------------------------------
(* erase *)

\* Logical deletion; a node that is changing is not deleted
Mark(t) ==
    /\ pc[t] = "mark"
    /\ LET expected == Clean(nxt[t].to)
       IN  \/ /\ Cas(t, cur[t].to, expected, Marked(nxt[t].to, {"Deleted"}))
              /\ items' = items \ {cur[t].to}
              /\ Answer(t, "yes")
              /\ Goto(t, "remove")
           \/ Fails(t, cur[t].to, expected) /\ UNCHANGED <<items, callVars>>
    /\ UNCHANGED <<free, key, arg, posVars>>

\* Physical deletion.  The Changing bit of the link before the node is expected
\* as it was read, and not kept.
Remove(t) ==
    /\ pc[t] = "remove"
    /\ LET expected == getMarked(cur[t], {"Changing"})
       IN  \/ /\ Cas(t, prev[t], expected, Clean(nxt[t].to))
              /\ free' = free \cup {cur[t].to}
              /\ Goto(t, "done")
           \/ Fails(t, prev[t], expected) /\ UNCHANGED free
    /\ UNCHANGED <<key, arg, callVars, posVars, items>>

-----------------------------------------------------------------------------
(* Calls and returns *)

\* Bound: a call that may need a node is made only if one is left for it.
NodeLeft ==
    Cardinality(free)
      > Cardinality({t \in Thread : op[t] = "ensure" /\ node[t] = Null /\ ans[t] = "none"})

\* clear is documented as not thread safe: it runs alone.
Call(t) ==
    /\ pc[t] = "idle"
    /\ \A u \in Thread : op[u] # "clear"
    /\ \E o \in Ops, k \in Keys :
          /\ <<t, o, k>> \in Calls
          /\ o \in {"insert", "ensure"} => NodeLeft
          /\ o = "clear" => \A u \in Thread : pc[u] = "idle"
          /\ op' = [op EXCEPT ![t] = o]
          /\ IF o \in {"empty", "clear"}
             THEN UNCHANGED arg /\ Goto(t, o)
             ELSE arg' = [arg EXCEPT ![t] = k] /\ Goto(t, "search")
          /\ IF o = "insert" THEN Allocate(t, k) ELSE UNCHANGED <<free, key, node>>
    /\ UNCHANGED <<next, known, ans, posVars, items>>

Empty(t) ==
    /\ pc[t] = "empty"
    /\ Answer(t, IF next[HeadCell].to = Null THEN "yes" ELSE "no")
    /\ Goto(t, "done")
    /\ UNCHANGED <<free, next, key, known, arg, posVars, items>>

\* destroy erases the first node until there is none
Clear(t) ==
    /\ pc[t] = "clear"
    /\ LET first == next[HeadCell].to
       IN  IF first = Null
           THEN Answer(t, "yes") /\ Goto(t, "done") /\ UNCHANGED <<free, next, items>>
           ELSE /\ next' = [next EXCEPT ![HeadCell] = Clean(next[first].to),
                                        ![first].bits = {"Deleted"}]
                /\ items' = items \ {first}
                /\ free' = free \cup {first}
                /\ UNCHANGED <<pc, callVars>>
    /\ UNCHANGED <<key, known, arg, posVars>>

\* A node that was not linked is freed.  What a free node holds, to which no thread
\* has a pointer, is nobody's business: it is forgotten.
Held(t) == {prev[t], cur[t].to, nxt[t].to}
Return(t) ==
    /\ pc[t] = "done"
    /\ free' = IF ans[t] = "no" THEN free \cup ({node[t]} \ {Null}) ELSE free
    /\ LET forgotten == free' \ UNION {Held(u) : u \in Thread \ {t}}
       IN  /\ key' = [n \in Node |-> IF n \in forgotten THEN NoKey ELSE key[n]]
           /\ next' = [w \in Word |-> IF w \in forgotten THEN Clean(Null) ELSE next[w]]
    /\ op' = [op EXCEPT ![t] = "none"]
    /\ arg' = [arg EXCEPT ![t] = NoKey]
    /\ ans' = [ans EXCEPT ![t] = "none"]
    /\ node' = [node EXCEPT ![t] = Null]
    /\ known' = [known EXCEPT ![t] = {}]
    /\ prev' = [prev EXCEPT ![t] = HeadCell]
    /\ cur' = [cur EXCEPT ![t] = Clean(Null)]
    /\ nxt' = [nxt EXCEPT ![t] = Clean(Null)]
    /\ Goto(t, "idle")
    /\ UNCHANGED items

TaggedWorking(t) ==
    \/ Call(t) \/ Empty(t) \/ Clear(t) \/ Return(t)
    \/ Search(t) \/ LoadNext(t) \/ CheckPrev(t) \/ Compare(t) \/ Unlink(t)
    \/ AllocNode(t) \/ SetNext(t) \/ LinkNode(t)
    \/ Change(t) \/ ClearMark(t) \/ Mark(t) \/ Remove(t)
Next == \E t \in Thread : TaggedWorking(t)

-----------------------------------------------------------------------------
TypeOK ==
    /\ free \subseteq Node
    /\ next \in [Word -> Link]
    /\ key \in [Node -> Keys \cup {NoKey}]
    /\ known \in [Thread -> SUBSET Word]
    /\ op \in [Thread -> Ops \cup {"none"}]
    /\ arg \in [Thread -> Keys \cup {NoKey}]
    /\ ans \in [Thread -> {"none", "yes", "no"}]
    /\ node \in [Thread -> Node \cup {Null}]
    /\ prev \in [Thread -> Word]
    /\ cur \in [Thread -> Link] /\ nxt \in [Thread -> Link]
    /\ items \subseteq Node

\* The nodes that can be reached have ascending keys and are the items and the
\* deleted nodes that are not yet unlinked; every node is in one place.
Shape ==
    LET k == Cardinality(Node) + 1
        walk[i \in 1..k] == IF i = 1 THEN next[HeadCell].to
                            ELSE IF walk[i - 1] = Null THEN Null ELSE next[walk[i - 1]].to
        inList == {walk[i] : i \in 1..k} \ {Null}
        New == {t \in Thread : node[t] # Null /\ ans[t] # "yes"}
    IN  /\ walk[k] = Null
        /\ \A i \in 2..k : walk[i] # Null => key[walk[i - 1]] < key[walk[i]]
        /\ items = {n \in inList : "Deleted" \notin next[n].bits}
        /\ next[HeadCell].bits = {}
        /\ (\A t \in Thread : pc[t] = "idle") => items = inList
        /\ Node = free \cup inList \cup {node[t] : t \in New}
        /\ Cardinality(free) + Cardinality(inList) + Cardinality(New) = Cardinality(Node)

\* While a functor works on a node, the node is not deleted, let alone freed.
FunctorsSafe ==
    \A t \in Thread : pc[t] = "functor" =>
        cur[t].to \in items /\ "Changing" \in next[cur[t].to].bits
=============================================================================
