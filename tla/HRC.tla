-------------------------------- MODULE HRC --------------------------------
(***************************************************************************)
(* Gidenstam's collector (cds/gc/hrc/hrc.h, src/hrc_gc.cpp): hazard        *)
(* pointers guard local references, and each node counts the links to it.  *)
(* A node in a list of retired nodes is destroyed by its owner's Scan when *)
(* nothing counts or guards it and no other thread has claimed it.         *)
(*                                                                         *)
(* Links between retired nodes keep each other alive.  cleanUp moves the   *)
(* link of a retired node past retired successors; a thread whose list is  *)
(* full does this for its own nodes (cleanUpLocal) and, if that does not   *)
(* help, for those of all threads (CleanUpAll), claiming each meanwhile.   *)
(*                                                                         *)
(* A container gives its nodes their links, cleanUp and terminate; here a  *)
(* node has one link, as in both queues (HRCQueues).  One shared access is *)
(* one step.  A procedure ends by going to the label in cont, in or who.   *)
(***************************************************************************)
EXTENDS Integers, Sequences, FiniteSets, FiniteSetsExt

CONSTANTS Thread, Node, Null, None,
          HPCount,      \* m_nHazardPointerCount
          MaxRetired    \* m_nMaxRetiredPtrCount

ASSUME NullAssumption == Null \notin Node
ASSUME CountAssumption == HPCount \in Nat \ {0} /\ MaxRetired \in Nat \ {0}

Roots == {"head", "tail"}       \* the links of the container itself
Links == Roots \cup Node        \* ... and that of each node
Idx == 1..MaxRetired
Ptr == Node \cup {Null}

VARIABLES
  heap,     \* of each node: m_pNext, m_RC, m_bTrace, m_bDeleted, m_data; live: allocated
  root,     \* the container's links
  recs,     \* the thread records, oldest first; m_pListHead is the last
  loc       \* of each thread: the program counter and the locals

hrcVars == <<heap, root, recs, loc>>

Fresh == [next |-> Null, rc |-> 0, trace |-> FALSE, deleted |-> FALSE,
          live |-> FALSE, data |-> None]
EmptyCell == [node |-> Null, claim |-> 0, done |-> FALSE]
NewRecord(t) == [owner |-> t, bFree |-> FALSE, hz |-> [i \in 1..HPCount |-> Null],
                 arr |-> [i \in Idx |-> EmptyCell], free |-> [i \in Idx |-> i]]
\* The locals of a thread that is in no procedure; held: guards of the operation
Outside == [pc |-> "idle", rec |-> 0, held |-> 0,
            lk |-> Null, sl |-> 0, p |-> Null, cont |-> "",           \* derefLink
            old |-> Null, new |-> Null,                               \* CASRef
            cn |-> Null, nx |-> Null, in |-> "",                      \* cleanUp
            who |-> "", i |-> 0, hr |-> 0, hi |-> 0, plist |-> {},    \* Scan
            hc |-> 0, hj |-> 0,                                       \* HelpScan
            ar |-> 0, ai |-> 0, an |-> Null,                          \* CleanUpAll
            pn |-> Null,                                              \* push
            node |-> Null, prev |-> Null, tl |-> Null, h |-> Null, nxt |-> Null,
            val |-> None]                                             \* the queue

At(t, here) == loc[t].pc = here
Step(t, l) == loc' = [loc EXCEPT ![t] = l]
Goto(t, there) == Step(t, [loc[t] EXCEPT !.pc = there])
Own(t) == recs[loc[t].rec]
Guard(t, k) == HPCount - loc[t].held + 1 + k      \* HPArray::alloc takes from the top
Inner(t, k) == Guard(t, k) - 2                    \* the two of cleanUp
Full(r) == recs[r].free = <<>>
NextFull(r, i) ==
    LET S == {j \in i..MaxRetired : recs[r].arr[j].node # Null}
    IN  IF S = {} THEN MaxRetired + 1 ELSE Min(S)
Local == UNCHANGED <<heap, root, recs>>
HeapOnly == UNCHANGED <<root, recs>>
RecsOnly == UNCHANGED <<heap, root>>

-----------------------------------------------------------------------------
\* derefLink: load, guard, load again

Ref(link) == IF link \in Node THEN heap[link].next ELSE root[link]
SetRef(link, n) ==
    IF link \in Node
    THEN heap' = [heap EXCEPT ![link].next = n] /\ UNCHANGED root
    ELSE root' = [root EXCEPT ![link] = n] /\ UNCHANGED heap

Loading(l, link, slot, cont) ==
    [l EXCEPT !.pc = "guard", !.p = Ref(link), !.lk = link, !.sl = slot, !.cont = cont]
Deref(t, link, slot, cont) == Step(t, Loading(loc[t], link, slot, cont)) /\ Local

StoreGuard(t) ==
    /\ At(t, "guard")
    /\ recs' = [recs EXCEPT ![loc[t].rec].hz[loc[t].sl] = loc[t].p]
    /\ Goto(t, "recheck")
    /\ RecsOnly
StillLinked_NoRecheck(t) == TRUE                                       \* mutant
StillLinked(t) == Ref(loc[t].lk) = loc[t].p
Recheck(t) ==
    /\ At(t, "recheck")
    /\ IF StillLinked(t)
       THEN Step(t, [loc[t] EXCEPT !.pc = loc[t].cont, !.lk = Null, !.sl = 0, !.cont = ""])
       ELSE Goto(t, "reload")
    /\ Local
Reload(t) == At(t, "reload") /\ Deref(t, loc[t].lk, loc[t].sl, loc[t].cont)

-----------------------------------------------------------------------------
\* CASRef: after the link, the count and trace of its new node, the count of the old

Counting(l, old, new, cont) ==
    [l EXCEPT !.pc = IF new # Null THEN "inc" ELSE IF old # Null THEN "dec" ELSE cont,
              !.old = old, !.new = new, !.cont = cont]
CASRef(t, link, old, new, yes, no) ==
    /\ IF Ref(link) = old
       THEN SetRef(link, new) /\ Step(t, Counting(loc[t], old, new, yes))
       ELSE Goto(t, no) /\ UNCHANGED <<heap, root>>
    /\ UNCHANGED recs

Counted(l) == [l EXCEPT !.pc = l.cont, !.old = Null, !.new = Null, !.cont = ""]
Increment(t) ==
    /\ At(t, "inc")
    /\ heap' = [heap EXCEPT ![loc[t].new].rc = @ + 1]
    /\ Goto(t, "untrace")
    /\ HeapOnly
Untrace(t) ==
    /\ At(t, "untrace")
    /\ heap' = [heap EXCEPT ![loc[t].new].trace = FALSE]
    /\ Step(t, IF loc[t].old # Null THEN [loc[t] EXCEPT !.pc = "dec"] ELSE Counted(loc[t]))
    /\ HeapOnly
Decrement(t) ==
    /\ At(t, "dec")
    /\ heap' = [heap EXCEPT ![loc[t].old].rc = @ - 1]
    /\ Step(t, Counted(loc[t]))
    /\ HeapOnly

-----------------------------------------------------------------------------
\* Node::cleanUp of a retired node cn, called from cleanUpLocal or CleanUpAll

CleaningUp(l, n, caller) ==
    Loading([l EXCEPT !.cn = n, !.in = caller], n, HPCount - l.held - 1, "c_test")
CleanTest(t) ==
    /\ At(t, "c_test")
    /\ IF loc[t].p # Null /\ heap[loc[t].p].deleted
       THEN Step(t, [loc[t] EXCEPT !.pc = "c_next", !.nx = loc[t].p]) /\ UNCHANGED recs
       ELSE /\ recs' = [recs EXCEPT ![loc[t].rec].hz[Inner(t, 0)] = Null,
                                    ![loc[t].rec].hz[Inner(t, 1)] = Null]
            /\ Step(t, [loc[t] EXCEPT !.pc = loc[t].in, !.in = "", !.p = Null,
                                      !.cn = Null, !.nx = Null])
    /\ RecsOnly
CleanNext(t) == At(t, "c_next") /\ Deref(t, loc[t].nx, Inner(t, 1), "c_swing")
CleanSwing(t) ==
    /\ At(t, "c_swing")
    /\ CASRef(t, loc[t].cn, loc[t].nx, loc[t].p, "c_again", "c_again")
CleanAgain(t) == At(t, "c_again") /\ Deref(t, loc[t].cn, Inner(t, 0), "c_test")

\* cleanUpLocal; every caller goes on with a Scan
CleanUpLocal(t) ==
    /\ At(t, "local")
    /\ LET j == NextFull(loc[t].rec, loc[t].i)
           n == Own(t).arr[j].node
       IN  IF j > MaxRetired
           THEN Step(t, [loc[t] EXCEPT !.pc = "s_count", !.i = 1])
           ELSE Step(t, CleaningUp([loc[t] EXCEPT !.i = j + 1], n, "local"))
    /\ Local

-----------------------------------------------------------------------------
\* Scan: trace, collect the guards, destroy what is neither counted nor guarded

\* The next retired node of t, or the end of the list
Cell(t) == NextFull(loc[t].rec, loc[t].i)
Item(t) == Own(t).arr[Cell(t)].node
AtEnd(t) == Cell(t) > MaxRetired
GoAt(t, there, i) == Step(t, [loc[t] EXCEPT !.pc = there, !.i = i])
SetTrace(t, n, b) == heap' = [heap EXCEPT ![n].trace = b] /\ HeapOnly

ScanCount(t) ==
    /\ At(t, "s_count")
    /\ \/ AtEnd(t) /\ Step(t, [loc[t] EXCEPT !.pc = "s_hazards", !.hr = Len(recs), !.hi = 1])
       \/ ~AtEnd(t) /\ heap[Item(t)].rc = 0 /\ GoAt(t, "s_trace", Cell(t))
       \/ ~AtEnd(t) /\ heap[Item(t)].rc # 0 /\ GoAt(t, "s_count", Cell(t) + 1)
    /\ Local
ScanTrace(t) ==
    /\ At(t, "s_trace")
    /\ IF heap[Item(t)].trace THEN GoAt(t, "s_count", Cell(t) + 1) /\ Local
       ELSE Goto(t, "s_recount") /\ SetTrace(t, Item(t), TRUE)
ScanRecount(t) ==
    /\ At(t, "s_recount")
    /\ IF heap[Item(t)].rc = 0 THEN GoAt(t, "s_count", Cell(t) + 1) ELSE Goto(t, "s_untrace")
    /\ Local
ScanUntrace(t) ==
    /\ At(t, "s_untrace")
    /\ GoAt(t, "s_count", Cell(t) + 1)
    /\ SetTrace(t, Item(t), FALSE)

ScanHazards(t) ==
    /\ At(t, "s_hazards")
    /\ LET l == loc[t]
       IN  Step(t, CASE l.hr = 0 -> [l EXCEPT !.pc = "s_delete", !.i = 1, !.hi = 0]
                     [] l.hr # 0 /\ l.hi = HPCount ->
                          [l EXCEPT !.plist = @ \cup {recs[l.hr].hz[l.hi]}, !.hr = @ - 1, !.hi = 1]
                     [] OTHER -> [l EXCEPT !.plist = @ \cup {recs[l.hr].hz[l.hi]}, !.hi = @ + 1])
    /\ Local

ScanDelete(t) ==
    /\ At(t, "s_delete")
    /\ \/ AtEnd(t) /\ Step(t, [loc[t] EXCEPT !.pc = "scanned", !.i = 0, !.plist = {}])
       \/ ~AtEnd(t) /\ GoAt(t, IF heap[Item(t)].rc = 0 THEN "s_traced" ELSE "s_keep", Cell(t))
    /\ Local
ScanTraced(t) ==
    /\ At(t, "s_traced")
    /\ Goto(t, IF heap[Item(t)].trace /\ Item(t) \notin loc[t].plist THEN "s_take" ELSE "s_keep")
    /\ Local
ScanKeep(t) ==
    /\ At(t, "s_keep")
    /\ GoAt(t, "s_delete", Cell(t) + 1)
    /\ SetTrace(t, Item(t), FALSE)

\* The node cn is taken out of its cell i, which is then closed to new claims
SetCell(t, i, c) == recs' = [recs EXCEPT ![loc[t].rec].arr[i] = c] /\ RecsOnly
MyCell(t) == Own(t).arr[loc[t].i]
ScanTake(t) ==
    /\ At(t, "s_take")
    /\ Step(t, [loc[t] EXCEPT !.pc = "s_done", !.cn = Item(t)])
    /\ SetCell(t, loc[t].i, [MyCell(t) EXCEPT !.node = Null])
ScanDone(t) ==
    /\ At(t, "s_done")
    /\ Goto(t, IF MyCell(t).done THEN "s_untake" ELSE "s_claim")
    /\ SetCell(t, loc[t].i, [MyCell(t) EXCEPT !.done = TRUE])
Unclaimed_Always(t) == TRUE                                            \* mutant
Unclaimed(t) == MyCell(t).claim = 0
ScanClaim(t) ==
    /\ At(t, "s_claim")
    /\ Goto(t, IF Unclaimed(t) THEN "t_load" ELSE "s_undone")
    /\ Local
ScanUndone(t) ==
    /\ At(t, "s_undone")
    /\ Goto(t, "s_untake")
    /\ SetCell(t, loc[t].i, [MyCell(t) EXCEPT !.done = FALSE])
ScanUntake(t) ==
    /\ At(t, "s_untake")
    /\ Goto(t, "s_back")
    /\ SetTrace(t, loc[t].cn, FALSE)
ScanBack(t) ==
    /\ At(t, "s_back")
    /\ Step(t, [loc[t] EXCEPT !.pc = "s_delete", !.i = @ + 1, !.cn = Null])
    /\ SetCell(t, loc[t].i, [MyCell(t) EXCEPT !.node = loc[t].cn])

\* Node::terminate with storeRef, then destroy and pop
TerminateLoad(t) ==
    /\ At(t, "t_load")
    /\ Step(t, [loc[t] EXCEPT !.pc = "t_store", !.p = heap[loc[t].cn].next])
    /\ Local
TerminateStore(t) ==
    /\ At(t, "t_store")
    /\ heap' = [heap EXCEPT ![loc[t].cn].next = Null]
    /\ Step(t, Counting([loc[t] EXCEPT !.p = Null], loc[t].p, Null, "s_destroy"))
    /\ HeapOnly
Popped_NotCleared(rec, i) == [rec EXCEPT !.free = <<i>> \o @]         \* mutant
Popped(rec, i) == [rec EXCEPT !.arr[i].node = Null, !.free = <<i>> \o @]
ScanDestroy(t) ==
    /\ At(t, "s_destroy")
    /\ heap' = [heap EXCEPT ![loc[t].cn] = Fresh]
    /\ recs' = [recs EXCEPT ![loc[t].rec] = Popped(@, loc[t].i)]
    /\ Step(t, [loc[t] EXCEPT !.pc = "s_delete", !.i = @ + 1, !.cn = Null])
    /\ UNCHANGED root

ScanStep(t) ==
    \/ ScanCount(t) \/ ScanTrace(t) \/ ScanRecount(t) \/ ScanUntrace(t) \/ ScanHazards(t)
    \/ ScanDelete(t) \/ ScanTraced(t) \/ ScanKeep(t) \/ ScanTake(t) \/ ScanDone(t)
    \/ ScanClaim(t) \/ ScanUndone(t) \/ ScanUntake(t) \/ ScanBack(t)
    \/ TerminateLoad(t) \/ TerminateStore(t) \/ ScanDestroy(t)
-----------------------------------------------------------------------------
\* retireNode: mark, push, and make room until the list is not full

Retiring(l, n) == [l EXCEPT !.pc = "r_deleted", !.pn = n, !.who = "retire", !.p = Null]
RetireDeleted(t) ==
    /\ At(t, "r_deleted")
    /\ heap' = [heap EXCEPT ![loc[t].pn].deleted = TRUE]
    /\ Goto(t, "r_trace")
    /\ HeapOnly
RetireTrace(t) ==
    /\ At(t, "r_trace")
    /\ Goto(t, "p_done")
    /\ SetTrace(t, loc[t].pn, FALSE)

\* retired_vector::push of pn; the cell is used before it is off the free list here
FreeCell(t) == Head(Own(t).free)
PushDone(t) ==
    /\ At(t, "p_done")
    /\ Goto(t, "p_claim")
    /\ SetCell(t, FreeCell(t), [Own(t).arr[FreeCell(t)] EXCEPT !.done = FALSE])
PushClaim(t) ==
    /\ At(t, "p_claim")
    /\ Goto(t, "p_node")
    /\ SetCell(t, FreeCell(t), [Own(t).arr[FreeCell(t)] EXCEPT !.claim = 0])
PushNode(t) ==
    /\ At(t, "p_node")
    /\ recs' = [recs EXCEPT ![loc[t].rec].arr[FreeCell(t)].node = loc[t].pn,
                            ![loc[t].rec].free = Tail(@)]
    /\ Step(t, [loc[t] EXCEPT !.pn = Null, !.i = 1,
                              !.pc = CASE loc[t].who = "help" -> "h_pop"
                                       [] Len(Own(t).free) = 1 -> "local"
                                       [] OTHER -> "retired"])
    /\ RecsOnly

\* What a Scan is followed by.  HelpScan returns at once if the list is full; then
\* CleanUpAll is tried, and the loop begun again
Scanned(t) ==
    /\ At(t, "scanned")
    /\ LET l == loc[t]
       IN  Step(t, CASE l.who = "fini" -> [l EXCEPT !.pc = "f_clear"]
                     [] l.who # "fini" /\ Full(l.rec) ->
                          [l EXCEPT !.pc = "a_node", !.ar = Len(recs), !.ai = 1]
                     [] l.who = "retire" /\ ~Full(l.rec) ->
                          [l EXCEPT !.pc = "h_owner", !.who = "help", !.hc = Len(recs)]
                     [] OTHER -> [l EXCEPT !.pc = "h_move"])
    /\ Local

-----------------------------------------------------------------------------
\* CleanUpAll, from the newest record to the oldest; ar, ai: the cell

TheCell(t) == recs[loc[t].ar].arr[loc[t].ai]
NextCell(l) ==
    IF l.ai < MaxRetired THEN [l EXCEPT !.pc = "a_node", !.ai = @ + 1, !.an = Null]
    ELSE [l EXCEPT !.pc = "a_node", !.ar = @ - 1, !.ai = 1, !.an = Null]
AllNode(t) ==
    /\ At(t, "a_node")
    /\ Step(t, IF loc[t].ar = 0 THEN [loc[t] EXCEPT !.pc = "local", !.i = 1, !.ai = 0]
               ELSE IF TheCell(t).node = Null THEN NextCell(loc[t])
               ELSE [loc[t] EXCEPT !.pc = "a_done", !.an = TheCell(t).node])
    /\ Local
AllDone(t) ==
    /\ At(t, "a_done")
    /\ Step(t, IF TheCell(t).done THEN NextCell(loc[t]) ELSE [loc[t] EXCEPT !.pc = "a_claim"])
    /\ Local
AddClaim(t, k) == recs' = [recs EXCEPT ![loc[t].ar].arr[loc[t].ai].claim = @ + k] /\ RecsOnly
AllClaim(t) == At(t, "a_claim") /\ Goto(t, "a_redone") /\ AddClaim(t, 1)
AllRedone(t) ==
    /\ At(t, "a_redone")
    /\ Goto(t, IF TheCell(t).done THEN "a_unclaim" ELSE "a_same")
    /\ Local
AllSame(t) ==
    /\ At(t, "a_same")
    /\ Goto(t, IF TheCell(t).node = loc[t].an THEN "a_clean" ELSE "a_unclaim")
    /\ Local
AllClean(t) ==
    /\ At(t, "a_clean")
    /\ Step(t, CleaningUp(loc[t], loc[t].an, "a_unclaim"))
    /\ Local
AllUnclaim(t) == At(t, "a_unclaim") /\ Step(t, NextCell(loc[t])) /\ AddClaim(t, -1)

CleanUpAllStep(t) ==
    \/ AllNode(t) \/ AllDone(t) \/ AllClaim(t) \/ AllRedone(t) \/ AllSame(t) \/ AllClean(t)
    \/ AllUnclaim(t)

-----------------------------------------------------------------------------
\* HelpScan: adopt the nodes of the records without an owner

HelpOwner(t) ==
    /\ At(t, "h_owner")
    /\ LET l == loc[t]
       IN  Step(t, CASE l.hc = 0 -> [l EXCEPT !.pc = "retired", !.i = 0]
                     [] l.hc # 0 /\ recs[l.hc].owner # Null -> [l EXCEPT !.hc = @ - 1]
                     [] OTHER -> [l EXCEPT !.pc = "h_cas"])
    /\ Local
HelpCas(t) ==
    /\ At(t, "h_cas")
    /\ IF recs[loc[t].hc].owner = Null
       THEN /\ recs' = [recs EXCEPT ![loc[t].hc].owner = t]
            /\ Step(t, IF recs[loc[t].hc].bFree THEN [loc[t] EXCEPT !.pc = "h_release"]
                       ELSE [loc[t] EXCEPT !.pc = "h_move", !.hj = 1])
       ELSE Step(t, [loc[t] EXCEPT !.pc = "h_owner", !.hc = @ - 1]) /\ UNCHANGED recs
    /\ RecsOnly
HelpMove(t) ==
    /\ At(t, "h_move")
    /\ LET j == NextFull(loc[t].hc, loc[t].hj)
       IN  IF j > MaxRetired
           THEN /\ recs' = [recs EXCEPT ![loc[t].hc].bFree = TRUE]
                /\ Step(t, [loc[t] EXCEPT !.pc = "h_release", !.hj = 0])
           ELSE /\ Step(t, [loc[t] EXCEPT !.pc = "p_done", !.hj = j,
                                          !.pn = recs[loc[t].hc].arr[j].node])
                /\ UNCHANGED recs
    /\ RecsOnly
HelpPop(t) ==
    /\ At(t, "h_pop")
    /\ recs' = [recs EXCEPT ![loc[t].hc] = Popped(@, loc[t].hj)]
    /\ Step(t, [loc[t] EXCEPT !.pc = IF Full(loc[t].rec) THEN "local" ELSE "h_move", !.hj = @ + 1])
    /\ RecsOnly
HelpRelease(t) ==
    /\ At(t, "h_release")
    /\ recs' = [recs EXCEPT ![loc[t].hc].owner = Null]
    /\ Step(t, [loc[t] EXCEPT !.pc = "h_owner", !.hc = @ - 1])
    /\ RecsOnly

HelpScanStep(t) ==
    HelpOwner(t) \/ HelpCas(t) \/ HelpMove(t) \/ HelpPop(t) \/ HelpRelease(t)

-----------------------------------------------------------------------------
\* ThreadGC::init takes a record without an owner, from the newest on, or adds one;
\* fini cleans up, scans once and gives the record back with what is left in it

Attach(t) == Step(t, [loc[t] EXCEPT !.pc = "i_cas", !.hc = Len(recs)]) /\ Local
InitCas(t) ==
    /\ At(t, "i_cas")
    /\ LET r == loc[t].hc
       IN  CASE r = 0 -> /\ recs' = Append(recs, NewRecord(t))
                         /\ Step(t, [loc[t] EXCEPT !.pc = "idle", !.rec = Len(recs) + 1])
             [] r # 0 /\ recs[r].owner = Null ->
                         /\ recs' = [recs EXCEPT ![r].owner = t, ![r].bFree = FALSE]
                         /\ Step(t, [loc[t] EXCEPT !.pc = "idle", !.rec = r, !.hc = 0])
             [] OTHER -> Step(t, [loc[t] EXCEPT !.hc = @ - 1]) /\ UNCHANGED recs
    /\ RecsOnly

Detach(t) == Step(t, [loc[t] EXCEPT !.pc = "local", !.who = "fini", !.i = 1]) /\ Local
FiniClear(t) ==
    /\ At(t, "f_clear")
    /\ recs' = [recs EXCEPT ![loc[t].rec].hz = [i \in 1..HPCount |-> Null]]
    /\ Goto(t, "f_owner")
    /\ RecsOnly
FiniOwner(t) ==
    /\ At(t, "f_owner")
    /\ recs' = [recs EXCEPT ![loc[t].rec].owner = Null]
    /\ Step(t, Outside)
    /\ RecsOnly

HRCStep(t) ==
    \/ StoreGuard(t) \/ Recheck(t) \/ Reload(t)
    \/ Increment(t) \/ Untrace(t) \/ Decrement(t)
    \/ CleanTest(t) \/ CleanNext(t) \/ CleanSwing(t) \/ CleanAgain(t) \/ CleanUpLocal(t)
    \/ ScanStep(t) \/ Scanned(t) \/ CleanUpAllStep(t) \/ HelpScanStep(t)
    \/ RetireDeleted(t) \/ RetireTrace(t) \/ PushDone(t) \/ PushClaim(t) \/ PushNode(t)
    \/ InitCas(t) \/ FiniClear(t) \/ FiniOwner(t)
=============================================================================
