----------------------------- MODULE HRCQueues -----------------------------
(***************************************************************************)
(* The queues over gc::hrc: MSQueue<hrc_gc> (cds/queue/msqueue_hrc.h) and  *)
(* MoirQueue<hrc_gc>, which has a dequeue of its own (moir_queue_hrc.h).   *)
(* An enqueue walks from m_pTail to the last node, along nodes that may    *)
(* have been dequeued; the tail is moved only by compare-and-swap from the *)
(* node the walk began at, so it may stay behind the head.                 *)
(***************************************************************************)
EXTENDS HRC, Functions, TLC

CONSTANTS
  Value,
  Setups    \* a bound: the class of the queue and what each thread does, one call
            \* after the other: <<"enqueue", v>>, <<"dequeue">>, <<"attach">>, <<"detach">>

Calls == {<<"dequeue">>, <<"attach">>, <<"detach">>} \cup {<<"enqueue", v>> : v \in Value}
ASSUME SetupsAssumption ==
    \A s \in Setups : /\ s.kind \in {"ms", "moir"}
                      /\ DOMAIN s.todo = Thread
                      /\ \A t \in Thread : s.todo[t] \in Seq(Calls)
ASSUME GuardsAssumption == HPCount >= 5     \* three of an operation, two of cleanUp

VARIABLES
  kind,     \* the class
  todo,     \* the calls each thread has yet to make
  items,    \* history: the nodes of the items, the next to leave first
  op,       \* history: what the call of each thread has come to, see QueueOrStack
  saw       \* history: during this dequeue, the queue has been empty

vars == <<hrcVars, kind, todo, items, op, saw>>

\* The queue holds the values of the setup, put there by the constructor and by
\* threads that have left: a chain counted by its links, and twice at the end
InitWith(s, chain) ==
    /\ kind = s.kind
    /\ todo = s.todo
    /\ items = Tail(chain)
    /\ root = ("head" :> chain[1]) @@ ("tail" :> chain[Len(chain)])
    /\ heap = [n \in Node |->
          IF n \notin Range(chain) THEN Fresh
          ELSE LET k == CHOOSE j \in DOMAIN chain : chain[j] = n
                   last == k = Len(chain)
               IN  [Fresh EXCEPT !.live = TRUE,
                                 !.rc = IF last THEN 2 ELSE 1,
                                 !.next = IF last THEN Null ELSE chain[k + 1],
                                 !.data = IF k = 1 THEN None ELSE s.filled[k - 1]]]
    /\ recs = [r \in DOMAIN s.attached |-> NewRecord(s.attached[r])]
    /\ loc = [t \in Thread |->
          IF t \in Range(s.attached)
          THEN [Outside EXCEPT !.rec = CHOOSE r \in DOMAIN s.attached : s.attached[r] = t]
          ELSE Outside]
\* Any nodes; which ones makes no difference
Chain(k) == CHOOSE c \in [1..k -> Node] : IsInjective(c)
Init ==
    /\ \E s \in Setups : InitWith(s, Chain(Len(s.filled) + 1))
    /\ op = [t \in Thread |-> "idle"]
    /\ saw = [t \in Thread |-> FALSE]

Quiet == UNCHANGED <<items, op>>
Becomes(t, o) == op' = [op EXCEPT ![t] = o]

-----------------------------------------------------------------------------
Begin(t, call) ==
    /\ todo[t] # <<>> /\ Head(todo[t]) = call
    /\ todo' = [todo EXCEPT ![t] = Tail(@)]
    /\ UNCHANGED <<kind, items>>

CallEnqueue(t, v) ==
    /\ At(t, "idle") /\ loc[t].rec # 0
    /\ Begin(t, <<"enqueue", v>>)
    /\ \E n \in Node :
          /\ ~heap[n].live
          /\ heap' = [heap EXCEPT ![n] = [Fresh EXCEPT !.live = TRUE, !.data = v]]
          /\ recs' = [recs EXCEPT ![loc[t].rec].hz[HPCount - 2] = n]
          /\ Step(t, [loc[t] EXCEPT !.pc = "e_tail", !.held = 3, !.node = n, !.val = v])
    /\ Becomes(t, "enq")
    /\ UNCHANGED root
EnqTail(t) == At(t, "e_tail") /\ Deref(t, "tail", Guard(t, 1), "e_prev") /\ Quiet
EnqPrev(t) ==
    /\ At(t, "e_prev")
    /\ Step(t, Loading([loc[t] EXCEPT !.tl = loc[t].p, !.prev = loc[t].p],
                       loc[t].p, Guard(t, 2), "e_walk"))
    /\ Local /\ Quiet
EnqWalk(t) ==
    /\ At(t, "e_walk")
    /\ loc[t].p # Null
    /\ Step(t, Loading([loc[t] EXCEPT !.prev = loc[t].p], loc[t].p, Guard(t, 2), "e_walk"))
    /\ Local /\ Quiet
EnqLink(t) ==
    /\ At(t, "e_walk")
    /\ loc[t].p = Null
    /\ CASRef(t, loc[t].prev, Null, loc[t].node, "e_swing", "e_again")
    /\ IF Ref(loc[t].prev) = Null
       THEN items' = Append(items, loc[t].node) /\ Becomes(t, "done")
       ELSE Quiet
EnqAgain(t) == At(t, "e_again") /\ Deref(t, loc[t].prev, Guard(t, 2), "e_walk") /\ Quiet
EnqSwing(t) ==
    /\ At(t, "e_swing")
    /\ CASRef(t, "tail", loc[t].tl, loc[t].node, "leave", "leave")
    /\ Quiet

-----------------------------------------------------------------------------
CallDequeue(t) ==
    /\ At(t, "idle") /\ loc[t].rec # 0
    /\ Begin(t, <<"dequeue">>)
    /\ Step(t, [loc[t] EXCEPT !.pc = "d_head", !.held = IF kind = "ms" THEN 2 ELSE 3])
    /\ Becomes(t, "deq")
    /\ Local
DeqHead(t) ==
    /\ At(t, "d_head")
    /\ Deref(t, "head", Guard(t, 0), IF kind = "ms" THEN "d_next" ELSE "m_check")
    /\ Quiet
MoirCheck(t) ==
    /\ At(t, "m_check")
    /\ Goto(t, IF root["head"] = loc[t].p THEN "d_next" ELSE "d_head")
    /\ Local /\ Quiet
DeqNext(t) ==
    /\ At(t, "d_next")
    /\ Step(t, Loading([loc[t] EXCEPT !.h = loc[t].p], loc[t].p, Guard(t, 1),
                       IF kind = "ms" THEN "d_swing" ELSE "m_recheck"))
    /\ Local /\ Quiet
MoirRecheck(t) ==
    /\ At(t, "m_recheck")
    /\ Goto(t, IF root["head"] = loc[t].h THEN "d_swing" ELSE "d_head")
    /\ Local /\ Quiet
DeqEmpty(t) ==
    /\ At(t, "d_swing")
    /\ loc[t].p = Null
    /\ Goto(t, "leave")
    /\ Becomes(t, "idle")
    /\ Local /\ UNCHANGED items
DeqSwing(t) ==
    /\ At(t, "d_swing")
    /\ loc[t].p # Null
    /\ LET l == [loc[t] EXCEPT !.nxt = loc[t].p]
       IN  IF root["head"] = l.h
           THEN /\ root' = [root EXCEPT !["head"] = l.nxt]
                /\ Step(t, Counting(l, l.h, l.nxt, IF kind = "ms" THEN "d_retire" ELSE "m_tail"))
                /\ items' = Tail(items)
                /\ Becomes(t, "done")
                /\ UNCHANGED <<heap, recs>>
           ELSE Goto(t, "d_head") /\ Local /\ Quiet
MoirTail(t) == At(t, "m_tail") /\ Deref(t, "tail", Guard(t, 2), "m_fix") /\ Quiet
MoirFix(t) ==
    /\ At(t, "m_fix")
    /\ IF loc[t].p = loc[t].h THEN CASRef(t, "tail", loc[t].p, loc[t].nxt, "d_data", "d_data")
       ELSE Goto(t, "d_data") /\ Local
    /\ Quiet
\* MSQueue retires the node before it reads the data of the next, MoirQueue after
DeqData(t) ==
    /\ At(t, "d_data")
    /\ Step(t, [loc[t] EXCEPT !.val = heap[loc[t].nxt].data,
                              !.pc = IF kind = "ms" THEN "leave" ELSE "d_retire"])
    /\ Local /\ Quiet
DeqRetire(t) ==
    /\ At(t, "d_retire")
    /\ Step(t, Retiring(loc[t], loc[t].h))
    /\ Local /\ Quiet
DeqRelease(t) ==
    /\ At(t, "retired")
    /\ recs' = [recs EXCEPT ![loc[t].rec].hz[Guard(t, 0)] = Null]
    /\ Step(t, [loc[t] EXCEPT !.who = "", !.pc = IF kind = "ms" THEN "d_data" ELSE "leave"])
    /\ RecsOnly /\ Quiet

\* The guards are freed with their array.
Leave(t) ==
    /\ At(t, "leave")
    /\ recs' = [recs EXCEPT ![loc[t].rec].hz = [i \in 1..HPCount |-> Null]]
    /\ Step(t, [Outside EXCEPT !.rec = loc[t].rec])
    /\ Becomes(t, "idle")
    /\ RecsOnly /\ UNCHANGED items

CallAttach(t) ==
    /\ At(t, "idle") /\ loc[t].rec = 0
    /\ Begin(t, <<"attach">>)
    /\ Attach(t)
    /\ UNCHANGED op
CallDetach(t) ==
    /\ At(t, "idle") /\ loc[t].rec # 0
    /\ Begin(t, <<"detach">>)
    /\ Detach(t)
    /\ UNCHANGED op

-----------------------------------------------------------------------------
Call(t) ==
    (\E v \in Value : CallEnqueue(t, v)) \/ CallDequeue(t) \/ CallAttach(t) \/ CallDetach(t)
Enqueueing(t) ==
    EnqTail(t) \/ EnqPrev(t) \/ EnqWalk(t) \/ EnqLink(t) \/ EnqAgain(t) \/ EnqSwing(t)
Dequeueing(t) ==
    \/ DeqHead(t) \/ DeqNext(t) \/ DeqEmpty(t) \/ DeqSwing(t) \/ DeqData(t)
    \/ MoirCheck(t) \/ MoirRecheck(t) \/ MoirTail(t) \/ MoirFix(t)
    \/ DeqRetire(t) \/ DeqRelease(t)
Watch ==
    saw' = [t \in Thread |-> op'[t] = "deq" /\ (items' = <<>> \/ (op[t] = "deq" /\ saw[t]))]
\* All calls made and returned
Finished == (\A t \in Thread : At(t, "idle") /\ todo[t] = <<>>) /\ UNCHANGED vars

Next ==
    \/ /\ \E t \in Thread :
             \/ Call(t)
             \/ (Enqueueing(t) \/ Dequeueing(t) \/ Leave(t)) /\ UNCHANGED <<kind, todo>>
             \/ HRCStep(t) /\ UNCHANGED <<kind, todo, items, op>>
       /\ Watch
    \/ Finished

Spec == Init /\ [][Next]_vars

-----------------------------------------------------------------------------
\* The types of the fields.
TypeOK ==
    /\ \A n \in Node :
          /\ heap[n].next \in Ptr
          /\ heap[n].rc \in (-Cardinality(Thread))..(Cardinality(Node) + 2)
          /\ {heap[n].trace, heap[n].deleted, heap[n].live} \subseteq BOOLEAN
          /\ heap[n].data \in Value \cup {None}
    /\ root \in [Roots -> Node]
    /\ \A r \in DOMAIN recs :
          /\ recs[r].owner \in Thread \cup {Null}
          /\ recs[r].bFree \in BOOLEAN
          /\ recs[r].hz \in [1..HPCount -> Ptr]
          /\ \A i \in Idx : /\ recs[r].arr[i].node \in Ptr
                            /\ recs[r].arr[i].claim \in (-Cardinality(Thread))..Cardinality(Thread)
                            /\ recs[r].arr[i].done \in BOOLEAN
          /\ recs[r].free \in Seq(Idx)
    /\ \A t \in Thread : loc[t].rec \in 0..Len(recs)
    /\ items \in Seq(Node)

\* The counter of a node is the number of links to it, but for the changes that
\* a CASRef or storeRef in progress has made to the links and not yet to it.
CountsLinks ==
    \A n \in Node : heap[n].live =>
        LET links == {l \in Links : (l \in Node => heap[l].live) /\ Ref(l) = n}
            toCome == {t \in Thread : loc[t].pc = "inc" /\ loc[t].new = n}
            toGo == {t \in Thread : loc[t].pc \in {"inc", "untrace", "dec"} /\ loc[t].old = n}
        IN  heap[n].rc + Cardinality(toCome) = Cardinality(links) + Cardinality(toGo)

Cells(n) == {<<r, i>> \in (DOMAIN recs) \X Idx : recs[r].arr[i].node = n}
\* What t holds between a link and a list: a node not yet linked, one it has
\* unlinked, one Scan has taken out
Hand(t) ==
    LET l == loc[t]
    IN  (IF op[t] = "enq" THEN {l.node} ELSE {})
        \cup (IF op[t] = "done" /\ l.h # Null /\ l.who = "" THEN {l.h} ELSE {})
        \cup {l.pn}
        \cup (IF l.pc \in {"s_done", "s_claim", "s_undone", "s_untake", "s_back", "t_load", "t_store",
                           "s_destroy"} \/ l.cont = "s_destroy" THEN {l.cn} ELSE {})

\* No node is lost and none is retired twice: each one is in the queue, in somebody's
\* hand, or waits in one cell (two while HelpScan moves it) of a list that somebody
\* owns or HelpScan will not pass over.
Accounted ==
    /\ TypeOK
    /\ CountsLinks
    /\ \A n \in Node :
          /\ heap[n].live <=> \/ n = root["head"] \/ (\E k \in DOMAIN items : items[k] = n)
                              \/ \E t \in Thread : n \in Hand(t)
                              \/ Cells(n) # {}
          /\ \A c, d \in Cells(n) : c # d =>
                \E t \in Thread : /\ At(t, "h_pop")
                                  /\ <<loc[t].hc, loc[t].hj>> \in {c, d} /\ loc[t].rec \in {c[1], d[1]}
          /\ \A c \in Cells(n) : heap[n].deleted /\ (recs[c[1]].bFree => recs[c[1]].owner # Null)

\* The nodes whose fields t is about to read or write
Touches(t) ==
    LET l == loc[t]
    IN  CASE l.pc \in {"recheck", "reload"} -> {l.lk} \ Roots
          [] l.pc \in {"inc", "untrace"} -> {l.new}
          [] l.pc = "dec" -> {l.old}
          [] l.pc \in {"c_test", "e_prev", "d_next"} -> {l.p} \ {Null}
          [] l.pc = "c_next" -> {l.nx}
          [] l.pc \in {"c_swing", "c_again", "s_untake", "t_load", "t_store", "s_destroy"} -> {l.cn}
          [] l.pc \in {"s_count", "s_trace", "s_recount", "s_untrace", "s_delete", "s_traced", "s_keep"} ->
                IF AtEnd(t) THEN {} ELSE {Item(t)}
          [] l.pc \in {"r_deleted", "r_trace"} -> {l.pn}
          [] l.pc = "a_clean" -> {l.an}
          [] l.pc = "e_walk" -> {IF l.p = Null THEN l.prev ELSE l.p}
          [] l.pc = "e_again" -> {l.prev}
          [] l.pc = "d_data" -> {l.nxt}
          [] OTHER -> {}

\* "Hazard pointers are used for guaranteeing the safety of local references and
\* reference counts for guaranteeing the safety of internal links" (msqueue_hrc.h):
\* no thread touches a node that has been destroyed.
NoUseAfterFree == \A t \in Thread : \A n \in Touches(t) : heap[n].live

\* push: assert( m_arr[n].m_nClaim == 0 )
ClaimsAreOver == \A t \in Thread : At(t, "p_done") => Own(t).arr[FreeCell(t)].claim = 0

\* Each enqueue takes effect when its node is linked, and each dequeue when the head
\* moves, first in, first out; "empty" is answered only if the queue was empty.
F == INSTANCE QueueOrStack WITH
        stack <- FALSE,
        q <- [k \in DOMAIN items |-> heap[items[k]].data],
        val <- [t \in Thread |-> IF op[t] = "done" /\ loc[t].val = None
                                 THEN heap[loc[t].nxt].data ELSE loc[t].val]
KeepsOrder == [][F!FNext]_(F!fvars)
=============================================================================
