------------------------------ MODULE HPQueues ------------------------------
(***************************************************************************)
(* The containers over guards: an MSQueue or a MoirQueue, whose classes    *)
(* share enqueue and size and differ in do_dequeue (MoirQueue derives from *)
(* MSQueue in moir_queue_hp_impl.h), an LMSQueue, or a Stack.              *)
(***************************************************************************)
EXTENDS MoirQueue, OptimisticQueue, TreiberStack, TLC

CONSTANTS
  Kinds,        \* the classes looked at: "ms", "moir", "lms", "stack"
  Patient       \* TRUE: an LMSQueue is given a collector that frees a node only
                \* when no call is running; FALSE: it has guards like the others

ASSUME KindsAssumption == Kinds \subseteq {"ms", "moir", "lms", "stack"}
ASSUME PatientAssumption == Patient \in BOOLEAN

VARIABLE kind         \* the class of the object

qvars == <<vars, lmsVars, kind>>

QInit ==
    /\ kind \in Kinds
    /\ CASE kind = "lms" -> LmsInit
         [] kind = "stack" -> StackInit /\ NoLms
         [] OTHER -> MSInit /\ NoLms

AllIdle == \A t \in Thread : pc[t] = "idle"

\* The nodes of the values in the container, the next to leave first
Regular(n) == ~isDummy[n]
Contents == IF kind = "lms" THEN SelectSeq(items, Regular) ELSE items

\* dequeue, or pop, from the call to the step that takes an item
DequeuePC ==
    FixPC \cup LmsDeqPC \cup (DeqPC \ {"d_fix", "d_fix2", "d_data", "d_count", "d_retire"})
Deciding(t) == pc[t] \in DequeuePC \/ (kind = "lms" /\ pc[t] = "d_retire" /\ isDummy[lh[t]])
Watch ==
    saw' = [t \in Thread |-> Deciding(t)' /\ (Contents' = <<>> \/ (Deciding(t) /\ saw[t]))]

QCall(t) ==
    \/ kind = "lms" /\ LmsCall(t)
    \/ kind # "lms" /\ Call(t) /\ UNCHANGED lmsVars
    \/ kind = "stack" /\ Clear(t) /\ UNCHANGED lmsVars
QWorking(t) ==
    \/ kind = "ms" /\ MSWorking(t) /\ UNCHANGED lmsVars
    \/ kind = "moir" /\ MoirWorking(t) /\ UNCHANGED lmsVars
    \/ kind = "lms" /\ LmsWorking(t)
    \/ kind = "stack" /\ StackWorking(t) /\ UNCHANGED lmsVars
QReclaim(n) ==
    \/ kind # "lms" /\ Reclaim(n) /\ UNCHANGED lmsVars
    \/ kind = "lms" /\ (Patient => AllIdle) /\ LmsReclaim(n)
QNext ==
    /\ \/ \E t \in Thread : QCall(t) \/ QWorking(t)
       \/ \E n \in Node : QReclaim(n)
    /\ UNCHANGED kind
    /\ Watch

QSpec == QInit /\ [][QNext]_qvars

-----------------------------------------------------------------------------
TypeOK ==
    /\ NodeTypeOK
    /\ kind # "stack" => head # Null /\ tail # Null
    /\ pc \in [Thread -> {"idle", "leave", "throw", "e_prev"} \cup EnqPC \cup DeqPC \cup FixPC
                           \cup LmsDeqPC \cup StackPushPC \cup StackClearPC \cup StackTakenPC]
    /\ IF kind = "lms" THEN LmsTypeOK ELSE NoLms

\* size() counts the items but for the operations that have changed the list and
\* not yet the counter; it wraps below zero when an item is taken before its
\* enqueue has counted it.  A stack has no counter.
CountAgrees ==
    LET Late(here) == Cardinality({t \in Thread : pc[t] \in here})
    IN  kind # "stack" =>
          (count + Late({"e_count", "e_prev"})) % CountSize
            = (Len(Contents) + Late({"d_fix", "d_fix2", "d_data", "d_count"})) % CountSize

\* The list is a chain of live nodes, and the pointer to its other end is near
\* that end, as near as the class promises; an LMSQueue is linked both ways but
\* for prev links not yet set, and has at most one dummy.  The counter agrees.
Shape ==
    /\ CASE kind = "ms" -> ChainOK /\ TailInChain
         [] kind = "moir" -> ChainOK /\ TailNotRetired
         [] kind = "lms" -> LmsChain
         [] OTHER -> StackChain
    /\ CountAgrees

\* The nodes whose fields t is about to read or write
Touches(t) ==
    CASE kind = "lms" /\ pc[t] = "e_prev" -> {lt[t]}
      [] kind = "lms" /\ pc[t] \in {"l_prev", "l_recheck", "l_link", "d_data"} -> {lh[t]}
      [] kind = "lms" /\ pc[t] = "l_test" -> {nxt[t]} \ {Null}
      [] pc[t] \in {"x_load", "x_check"} -> {cur[t]}
      [] pc[t] \in {"x_prev", "x_fix"} -> {curNext[t]}
      [] kind \in {"ms", "moir"} /\ pc[t] \in {"e_next", "e_link"} -> {lt[t]}
      [] kind \in {"ms", "moir"} /\ pc[t] = "d_data" -> {nxt[t]}
      [] kind = "stack" /\ pc[t] \in {"d_data", "c_next"} -> {lh[t]}
      [] kind # "lms" /\ pc[t] = "d_next" -> {lh[t]}
      [] OTHER -> {}

\* No operation touches a node that has been freed: each one is guarded, and was
\* seen in the container after it was guarded.
NoUseAfterFree == \A t \in Thread : \A n \in Touches(t) : status[n] # "free"

\* A container keeps its side of the reclamation contract: it confirms a guard
\* only on nodes not yet retired, and retires each node it removes once.
KeepsContract == [][kind # "lms" => R!RNext]_(R!rvars)

\* enqueue takes effect when the link is set (LMSQueue: when the tail moves, a
\* stack: when the top moves) and dequeue when the head moves, in the order of the
\* container; "empty" is answered only if it was empty.
OpOf(t) ==
    CASE pc[t] \in (EnqPC \ {"e_count", "e_swing"}) \cup StackPushPC -> "enq"
      [] Deciding(t) -> "deq"
      [] pc[t] = "idle" -> "idle"
      [] pc[t] \in StackClearPC -> "clear"
      [] pc[t] = "throw" -> "thrown"
      [] pc[t] = "leave" /\ val[t] = None -> "idle"
      [] OTHER -> "done"
ValOf(t) ==
    CASE pc[t] \in {"d_fix", "d_fix2"} -> data[nxt[t]]
      [] pc[t] = "d_data" -> data[IF kind \in {"ms", "moir"} THEN nxt[t] ELSE lh[t]]
      [] OTHER -> val[t]
F == INSTANCE QueueOrStack WITH
        stack <- kind = "stack",
        q <- [i \in DOMAIN Contents |-> data[Contents[i]]],
        op <- [t \in Thread |-> OpOf(t)],
        val <- [t \in Thread |-> ValOf(t)]
KeepsOrder == F!FSpec

-----------------------------------------------------------------------------
\* Lock-freedom: as long as some thread that has called an operation is
\* scheduled, operations keep returning, whichever threads are suspended.
SchedulerFairness == WF_qvars(\E t \in Thread : QWorking(t) /\ UNCHANGED kind /\ Watch)
QFairSpec == QSpec /\ SchedulerFairness
SomeReturn == \E t \in Thread : pc[t] # "idle" /\ pc'[t] = "idle"
LockFree == []<>AllIdle \/ []<><<SomeReturn>>_qvars

\* For TLC: threads, nodes and values are interchangeable.
Symmetric == Permutations(Node) \cup Permutations(Thread) \cup Permutations(Value)
=============================================================================
