---------------------------- MODULE PlainQueues ----------------------------
(***************************************************************************)
(* One queue or stack of the classes that need no collector: four array    *)
(* queues, two queues and a stack over tagged pointers, and the two-lock   *)
(* queue; and the specification that all of them implement.  The classes   *)
(* share the names of their state.                                         *)
(***************************************************************************)
EXTENDS Integers, Sequences, FiniteSets, TLC

CONSTANTS Thread, Producer, Consumer, Value, None,
          Size, Cells, MaxMoves,          \* of the array queues that have them
          BufferSize, Modulus, MaxLag,
          Node, Null                      \* of the classes that allocate nodes

VARIABLES kind,         \* the class of the object
          array, posEnqueue, posDequeue, pos, at, tt, marked, moves,    \* arrays
          free, nextFree, unused, next, data, known, node, lh, lt, nxt, top,
          headLock, tailLock,                                           \* nodes
          head, tail, pc, val, items, saw                               \* both

arrayVars == <<array, posEnqueue, posDequeue, pos, at, tt, marked, moves>>
tagVars == <<free, nextFree, known, lh, lt>>
nodeVars == <<tagVars, unused, next, data, node, nxt, top, headLock, tailLock>>
vars == <<kind, arrayVars, nodeVars, head, tail, pc, val, items, saw>>

V == INSTANCE VyukovQueue WITH Capacity <- BufferSize
T == INSTANCE TZCyclicQueue
C == INSTANCE CircularFifo
F == INSTANCE FastForwardQueue
L == INSTANCE TaggedStack
G == INSTANCE TaggedQueue
R == INSTANCE RWQueue

ASSUME ConstantsAssumption ==
    /\ V!Constants /\ T!Constants /\ C!Constants /\ F!Constants
    /\ L!TaggedConstants
    /\ Null \notin Thread             \* nobody: a lock that is free

Tagged == {"tagged_ms", "tagged_moir"}
Linked == Tagged \cup {"tagged_stack", "two_lock"}

\* The variables a class does not have
NotV == <<nodeVars, head, tail, at, tt, marked, moves>>
NotT == <<nodeVars, posEnqueue, posDequeue>>
NotC == <<NotT, pos, at, tt, marked, moves>>
NoNodes ==
    /\ free = Null /\ nextFree = <<>> /\ unused = {} /\ next = <<>> /\ data = <<>> /\ known = <<>>
    /\ node = <<>> /\ lh = <<>> /\ lt = <<>> /\ nxt = <<>>
    /\ top = Null /\ headLock = Null /\ tailLock = Null
NoArray ==
    /\ array = <<>> /\ posEnqueue = 0 /\ posDequeue = 0
    /\ pos = 0 /\ at = 0 /\ tt = 0 /\ marked = 0 /\ moves = 0

Init ==
    \/ /\ kind = "vyukov" /\ V!Init /\ NoNodes
       /\ head = 0 /\ tail = 0 /\ at = 0 /\ tt = 0 /\ marked = 0 /\ moves = 0
    \/ /\ kind = "tz" /\ T!Init /\ NoNodes
       /\ posEnqueue = 0 /\ posDequeue = 0
    \/ /\ \/ kind = "circular" /\ C!Init
          \/ kind = "fastforward" /\ F!Init
       /\ NoNodes
       /\ posEnqueue = 0 /\ posDequeue = 0
       /\ pos = 0 /\ at = 0 /\ tt = 0 /\ marked = 0 /\ moves = 0
    \/ /\ kind = "tagged_stack" /\ L!StackInit /\ NoArray
       /\ head = Null /\ tail = Null /\ headLock = Null /\ tailLock = Null
    \/ /\ kind \in Tagged /\ G!QueueInit /\ NoArray
       /\ top = Null /\ headLock = Null /\ tailLock = Null
    \/ /\ kind = "two_lock" /\ R!RWInit /\ NoArray
       /\ free = Null /\ nextFree = <<>> /\ known = <<>> /\ lh = <<>> /\ lt = <<>> /\ top = Null

Next ==
    /\ \/ kind = "vyukov" /\ V!Next /\ UNCHANGED NotV
       \/ kind = "tz" /\ T!Next /\ UNCHANGED NotT
       \/ kind = "circular" /\ C!Next /\ UNCHANGED NotC
       \/ kind = "fastforward" /\ F!Next /\ UNCHANGED NotC
       \/ kind = "tagged_stack" /\ L!StackNext /\ UNCHANGED <<arrayVars, head, tail, headLock, tailLock>>
       \/ kind \in Tagged /\ G!QueueNext /\ UNCHANGED <<arrayVars, top, headLock, tailLock>>
       \/ kind = "two_lock" /\ R!RWNext /\ UNCHANGED <<arrayVars, tagVars, top>>
    /\ UNCHANGED kind

Spec == Init /\ [][Next]_vars

-----------------------------------------------------------------------------
Choose(v, t, c, f, l, g, r) ==
    CASE kind = "vyukov" -> v
      [] kind = "tz" -> t
      [] kind = "circular" -> c
      [] kind = "fastforward" -> f
      [] kind = "tagged_stack" -> l
      [] kind \in Tagged -> g
      [] OTHER -> r

\* The state has the type of its class; indices stay inside the array, although they
\* are advanced without a bound check.
TypeOK ==
    /\ kind \in {"vyukov", "tz", "circular", "fastforward"} \cup Linked
    /\ Choose(V!TypeOK, T!TypeOK, C!TypeOK, F!TypeOK, L!StackTypeOK, G!QueueTypeOK, R!RWTypeOK)

\* An array holds the items in order, from the head to the tail, but for cells
\* that a call which has taken effect has yet to fill or to empty; a list is a chain
\* of the items, and a node is in it, in the free list, or nowhere, but never in two
\* places.
Layout ==
    Choose(V!Layout, T!Layout, C!Layout, F!Layout, L!StackLayout, G!QueueLayout, R!RWLayout)

\* No two calls access the plain data of one cell at the same time (the cells of
\* TZCyclicQueue are atomic), and none touches a node that has been freed (the nodes
\* of the tagged containers are never given back).
NoRace == Choose(V!NoRace, TRUE, C!NoRace, F!NoRace, TRUE, TRUE, R!RWNoRace)

\* An operation returns false only if, at some instant of the call, the queue was
\* full or empty (or, Vyukov's, the cell in question was in use by another call).
Refusals ==
    /\ kind = "vyukov" => V!Refusals
    /\ kind = "tz" => T!Refusals
    /\ kind \in {"circular", "fastforward"} => C!Refusals
    /\ kind \in Linked => \A t \in Thread : pc[t] = "refused" => saw[t]

\* The state, as a BoundedQueue sees it
AllThreads == Thread \cup {Producer, Consumer}
OpAt(t) ==
    IF t \notin DOMAIN pc THEN "idle"
    ELSE Choose(V!OpOf(t), T!OpOf(t), C!OpOf(t), F!OpOf(t), L!StackOp(t), G!QueueOp(t), R!RWOp(t))
ValAt(t) ==
    IF t \notin DOMAIN pc THEN None
    ELSE Choose(V!ValOf(t), T!ValOf(t), C!ValOf(t), F!ValOf(t), L!StackVal(t), G!QueueVal(t), R!RWVal(t))
Room == IF kind \in Linked THEN Cardinality(Node)
        ELSE Choose(BufferSize, T!Capacity, Size, F!Capacity, 0, 0, 0)
Contents == IF kind \in Linked THEN [i \in DOMAIN items |-> data[items[i]]] ELSE items
Ops == [t \in AllThreads |-> OpAt(t)]
Vals == [t \in AllThreads |-> ValAt(t)]
B == INSTANCE BoundedQueue WITH
        Thread <- AllThreads, stack <- kind = "tagged_stack",
        capacity <- Room, q <- Contents, op <- Ops, val <- Vals
\* All the classes are first-in first-out queues, and the stack a last-in first-out
\* one: each call that returns true takes effect at one instant.
Linearizable == B!BSpec

\* For TLC: threads, nodes and values are interchangeable.
Symmetric == Permutations(Thread) \cup Permutations(Value) \cup Permutations(Node)
=============================================================================
