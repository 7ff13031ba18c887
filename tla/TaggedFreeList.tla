--------------------------- MODULE TaggedFreeList ---------------------------
(***************************************************************************)
(* Pointers with a version tag and the free list of nodes made of them     *)
(* (cds/gc/tagged/tagged_type.h, details/free_list.h), with the state that *)
(* the containers built on them share.                                     *)
(*                                                                         *)
(* A tagged word is changed by a double-word compare-and-swap that adds    *)
(* one to its tag.  A tag is 64 bits wide and does not wrap during a call, *)
(* so all that matters of it is whether it still is what a thread read:    *)
(* known[t] is the set of words of which it is.  The words are "free",     *)
(* "top", "head", "tail" and, for the link of a node, the node.            *)
(*                                                                         *)
(* A node is never returned to the system, so any thread may read one at   *)
(* any time; what it reads may belong to another life of the node.         *)
(***************************************************************************)
EXTENDS Naturals, Sequences, FiniteSets

CONSTANTS Thread, Node, Value, Null, None

TaggedConstants == Null \notin Node /\ None \notin Value /\ IsFiniteSet(Node)

VARIABLES
  free,         \* m_Top of the free list
  nextFree,     \* m_pNextFree of each node
  unused,       \* nodes the allocator has not given out; bound: there are no more
  next, data,   \* m_Next and m_data of each node
  known,        \* the words whose tag each thread has read and is up to date
  pc,
  node,         \* the node that a push or enqueue has, or that a pop gives back
  lh, lt, nxt,  \* locals: the pointers read from the head or top, the tail, a link
  val,          \* the argument, or the value read
  items,        \* history: the nodes of the items, first the one to leave first
  saw           \* history: the container has been empty during this call

freeVars == <<free, nextFree, unused>>
localVars == <<node, lh, lt, nxt, val>>

Word == Node \cup {"free", "top", "head", "tail"}
AllocPC == {"f_load", "f_next", "f_cas"}
FreePC == {"p_load", "p_set", "p_cas"}

ListTypeOK ==
    /\ free \in Node \cup {Null}
    /\ nextFree \in [Node -> Node \cup {Null}]
    /\ unused \subseteq Node
    /\ next \in [Node -> Node \cup {Null}]
    /\ data \in [Node -> Value \cup {None}]
    /\ known \in [Thread -> SUBSET Word]
    /\ \A v \in {node, lh, lt, nxt} : v \in [Thread -> Node \cup {Null}]
    /\ val \in [Thread -> Value \cup {None}]
    /\ items \in Seq(Node)
    /\ saw \in [Thread -> BOOLEAN]

ListInit ==
    /\ free = Null
    /\ nextFree = [n \in Node |-> Null]
    /\ next = [n \in Node |-> Null]
    /\ data = [n \in Node |-> None]
    /\ known = [t \in Thread |-> {}]
    /\ pc = [t \in Thread |-> "idle"]
    /\ node = [t \in Thread |-> Null]
    /\ lh = [t \in Thread |-> Null]
    /\ lt = [t \in Thread |-> Null]
    /\ nxt = [t \in Thread |-> Null]
    /\ val = [t \in Thread |-> None]
    /\ items = <<>>
    /\ saw = [t \in Thread |-> FALSE]

Goto(t, there) == pc' = [pc EXCEPT ![t] = there]

\* Reading word w, the first of a loop or a later one; what thread t knows of it
\* is up to date until someone changes the tag.
Loads(t, w) == known' = [known EXCEPT ![t] = {w}]
AlsoLoads(t, w) == known' = [known EXCEPT ![t] = @ \cup {w}]
\* cas_tagged succeeds if the word holds the pointer and the tag that t read.
Unchanged_PointerOnly(t, w, now, read) == now = read              \* mutant
Unchanged(t, w, now, read) == now = read /\ w \in known[t]
Bump(w) == known' = [t \in Thread |-> known[t] \ {w}]

-----------------------------------------------------------------------------
(* alloc: a node from the free list, or a new one; there is where it ends *)

AllocLoad(t, there) ==
    /\ pc[t] = "f_load"
    /\ IF free = Null
       THEN \E n \in unused :
              /\ unused' = unused \ {n}
              /\ node' = [node EXCEPT ![t] = n]
              /\ data' = [data EXCEPT ![n] = val[t]]
              /\ Goto(t, there)
              /\ UNCHANGED <<known, lh>>
       ELSE /\ lh' = [lh EXCEPT ![t] = free]
            /\ Loads(t, "free")
            /\ Goto(t, "f_next")
            /\ UNCHANGED <<unused, node, data>>
    /\ UNCHANGED <<free, nextFree, next, lt, nxt, val, items>>

AllocNext(t) ==
    /\ pc[t] = "f_next"
    /\ nxt' = [nxt EXCEPT ![t] = nextFree[lh[t]]]
    /\ Goto(t, "f_cas")
    /\ UNCHANGED <<freeVars, next, data, known, node, lh, lt, val, items>>

AllocCas(t, there) ==
    /\ pc[t] = "f_cas"
    /\ IF Unchanged(t, "free", free, lh[t])
       THEN /\ free' = nxt[t]
            /\ Bump("free")
            /\ nextFree' = [nextFree EXCEPT ![lh[t]] = Null]
            /\ data' = [data EXCEPT ![lh[t]] = val[t]]
            /\ node' = [node EXCEPT ![t] = lh[t]]
            /\ lh' = [lh EXCEPT ![t] = Null] /\ nxt' = [nxt EXCEPT ![t] = Null]
            /\ Goto(t, there)
       ELSE /\ Goto(t, "f_load")
            /\ UNCHANGED <<free, nextFree, data, known, node, lh, nxt>>
    /\ UNCHANGED <<unused, next, lt, val, items>>

(* free: the node goes to the top of the free list *)

FreeLoad(t) ==
    /\ pc[t] = "p_load"
    /\ lh' = [lh EXCEPT ![t] = free]
    /\ Loads(t, "free")
    /\ Goto(t, "p_set")
    /\ UNCHANGED <<freeVars, next, data, node, lt, nxt, val, items>>

FreeSet(t) ==
    /\ pc[t] = "p_set"
    /\ nextFree' = [nextFree EXCEPT ![node[t]] = lh[t]]
    /\ Goto(t, "p_cas")
    /\ UNCHANGED <<free, unused, next, data, known, localVars, items>>

FreeCas(t) ==
    /\ pc[t] = "p_cas"
    /\ IF Unchanged(t, "free", free, lh[t])
       THEN free' = node[t] /\ Bump("free") /\ Goto(t, "done")
       ELSE UNCHANGED <<free, known>> /\ Goto(t, "p_load")
    /\ UNCHANGED <<nextFree, unused, next, data, localVars, items>>

Leave(t) ==
    /\ pc[t] \in {"done", "refused"}
    /\ known' = [known EXCEPT ![t] = {}]
    /\ node' = [node EXCEPT ![t] = Null]
    /\ lh' = [lh EXCEPT ![t] = Null]
    /\ lt' = [lt EXCEPT ![t] = Null]
    /\ nxt' = [nxt EXCEPT ![t] = Null]
    /\ val' = [val EXCEPT ![t] = None]
    /\ Goto(t, "idle")
    /\ UNCHANGED <<freeVars, next, data, items>>

Listing(t, there) ==
    \/ AllocLoad(t, there) \/ AllocNext(t) \/ AllocCas(t, there)
    \/ FreeLoad(t) \/ FreeSet(t) \/ FreeCas(t) \/ Leave(t)

\* Bound: a call that will need a node is made only if one is left for it.
Room(dummies) ==
    Len(items) + dummies + Cardinality({t \in Thread : pc[t] # "idle"}) < Cardinality(Node)

-----------------------------------------------------------------------------
\* The first k nodes reached from p
Chain(p, link, k) ==
    LET walk[i \in 1..k] == IF i = 1 THEN p
                            ELSE LET before == walk[i - 1]
                                 IN  IF before = Null THEN Null ELSE link[before]
    IN  walk
FreeNodes ==
    LET walk == Chain(free, nextFree, Cardinality(Node) + 1)
    IN  {walk[i] : i \in DOMAIN walk} \ {Null}

\* Every node is in one place: not yet allocated, in the free list, which ends, in
\* the container, or with one thread, before it is linked or after it is removed.
OnePlace(contents, holds) ==
    LET held == {holds[t] : t \in Thread} \ {Null}
        walk == Chain(free, nextFree, Cardinality(Node) + 1)
    IN  /\ walk[Cardinality(Node) + 1] = Null
        /\ Node = unused \cup FreeNodes \cup contents \cup held
        /\ Cardinality(unused) + Cardinality(FreeNodes) + Cardinality(contents)
              + Cardinality({t \in Thread : holds[t] # Null}) = Cardinality(Node)
=============================================================================
