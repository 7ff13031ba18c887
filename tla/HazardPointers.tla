--------------------------- MODULE HazardPointers ---------------------------
(***************************************************************************)
(* Michael's hazard pointers as libcds implements them: gc/hzp/hzp.h,      *)
(* gc/hzp/details/{hp_alloc,hp_retired}.h and src/hzp_gc.cpp.              *)
(*                                                                         *)
(* Threads attach to and detach from the collector, protect nodes with     *)
(* guards, unlink nodes from a container and retire them, scan the hazard  *)
(* slots of all records when their array of retired pointers is full, and  *)
(* adopt the retired pointers of records whose owner left or died.         *)
(*                                                                         *)
(* Records form a list that only grows at its head; record r is the r-th   *)
(* pushed, so m_pListHead is nRec and m_pNext of r is r - 1 (0 is NULL).   *)
(* The container is a set of shared links, each null or naming one node.   *)
(***************************************************************************)
EXTENDS Naturals, FiniteSets

CONSTANTS Thread, Node, Link,
          NoThread,     \* OS::nullThreadId()
          Null,         \* the null pointer
          MaxRec,       \* bound on the records ever allocated
          HPCount,      \* m_nHazardPointerCount
          MaxRetired,   \* m_nMaxRetiredPtrCount, capacity of retired_vector
          Copies,       \* <<i, j>>: a container copies its slot i to its slot j
          Fenced        \* TRUE: a guard store is visible to every thread before
                        \* the guard's owner reads memory again (sequential
                        \* consistency); FALSE: it may wait in a store buffer

ASSUME NoThreadAssumption == NoThread \notin Thread
ASSUME NullAssumption == Null \notin Node
ASSUME BoundAssumption == MaxRec \in Nat /\ HPCount \in Nat \ {0} /\ MaxRetired \in Nat
ASSUME FencedAssumption == Fenced \in BOOLEAN

Rec == 1..MaxRec
Idx == 0..(HPCount - 1)
ASSUME CopiesAssumption == Copies \subseteq Idx \X Idx
Slot == Rec \X Idx
NoStore == <<>>                       \* nothing in a thread's store buffer

VARIABLES
  \* the record list (hplist_node), shared
  nRec,         \* records pushed so far
  owner,        \* m_idOwner
  bFree,        \* m_bFree
  hzp,          \* HPAllocator::m_arrHazardPtr of each record
  top,          \* HPAllocator::m_nTop: slots top..HPCount-1 are in use
  arrRetired,   \* m_arrRetired, a set: the order of the array never matters
  \* the container and the heap
  link,         \* the shared links
  status,       \* life cycle of each heap cell
  \* one entry per thread
  pc, alive,
  rec,          \* ThreadGC::m_pHzpRec, 0 when not attached
  ptr,          \* the node in hand: being dereferenced, or about to be retired
  guard, src,   \* derefLink: the guard's slot index and the link it reads
  pend,         \* the store buffer: NoStore or <<slot, pointer>>
  cur, idx,     \* cursor of a walk over the records, and over their slots
  plist,        \* hazard pointers a scan has seen
  hcur,         \* record HelpScan is at, 0 outside HelpScan
  own,          \* the owner HelpScan's CAS expects
  todo,         \* entries of the adopted array not yet moved
  \* history
  lost,         \* records with pointers that had no live owner when the HelpScan
                \* of t began, and have had none since
  using,        \* what each slot's owner may dereference
  blockers      \* slots that have held n without a break since n was retired

R == INSTANCE Reclamation WITH hz <- hzp

recVars == <<nRec, owner, bFree, top, arrRetired>>
heapVars == <<link, status>>
hazVars == <<hzp, using, blockers, pend>>
derefVars == <<ptr, guard, src>>
scanVars == <<cur, idx, plist>>
helpVars == <<hcur, own, todo, lost>>
vars == <<recVars, heapVars, hazVars, derefVars, scanVars, helpVars,
          pc, alive, rec>>

PC == {"detached", "attach", "attachSet", "idle", "deref", "store", "check",
       "retire", "scan0", "scan", "help0", "help", "helpOwner", "helpCas",
       "move", "release"}

TypeOK ==
    /\ nRec \in 0..MaxRec
    /\ owner \in [Rec -> Thread \cup {NoThread}]
    /\ bFree \in [Rec -> BOOLEAN]
    /\ hzp \in [Slot -> Node \cup {Null}]
    /\ top \in [Rec -> 0..HPCount]
    /\ arrRetired \in [Rec -> SUBSET Node]
    /\ link \in [Link -> Node \cup {Null}]
    /\ status \in [Node -> {"free", "linked", "unlinked", "retired"}]
    /\ pc \in [Thread -> PC]
    /\ alive \in [Thread -> BOOLEAN]
    /\ rec \in [Thread -> 0..MaxRec]
    /\ ptr \in [Thread -> Node \cup {Null}]
    /\ guard \in [Thread -> Idx]
    /\ src \in [Thread -> Link]
    /\ pend \in [Thread -> {NoStore} \cup (Slot \X (Node \cup {Null}))]
    /\ cur \in [Thread -> 0..MaxRec]
    /\ idx \in [Thread -> Idx]
    /\ plist \in [Thread -> SUBSET Node]
    /\ hcur \in [Thread -> 0..MaxRec]
    /\ own \in [Thread -> Thread \cup {NoThread}]
    /\ todo \in [Thread -> SUBSET Node]
    /\ lost \in [Thread -> SUBSET Rec]
    /\ using \in [Slot -> Node \cup {Null}]
    /\ blockers \in [Node -> SUBSET Slot]

Init ==
    /\ nRec = 0
    /\ owner = [r \in Rec |-> NoThread]
    /\ bFree = [r \in Rec |-> TRUE]
    /\ hzp = [s \in Slot |-> Null]
    /\ top = [r \in Rec |-> HPCount]
    /\ arrRetired = [r \in Rec |-> {}]
    /\ link = [l \in Link |-> Null]
    /\ status = [n \in Node |-> "free"]
    /\ pc = [t \in Thread |-> "detached"]
    /\ alive = [t \in Thread |-> TRUE]
    /\ rec = [t \in Thread |-> 0]
    /\ ptr = [t \in Thread |-> Null]
    /\ guard = [t \in Thread |-> 0]
    /\ src \in [Thread -> Link]
    /\ pend = [t \in Thread |-> NoStore]
    /\ cur = [t \in Thread |-> 0]
    /\ idx = [t \in Thread |-> 0]
    /\ plist = [t \in Thread |-> {}]
    /\ hcur = [t \in Thread |-> 0]
    /\ own = [t \in Thread |-> NoThread]
    /\ todo = [t \in Thread |-> {}]
    /\ lost = [t \in Thread |-> {}]
    /\ using = [s \in Slot |-> Null]
    /\ blockers = [n \in Node |-> {}]

At(t, here) == pc[t] = here /\ alive[t]
Goto(t, there) == pc' = [pc EXCEPT ![t] = there]
Abandoned(r) == owner[r] = NoThread \/ ~alive[owner[r]]
Claim(r) == lost' = [t \in Thread |-> lost[t] \ {r}]
Drained(t) == pend[t] = NoStore      \* a locked instruction waits for this

-----------------------------------------------------------------------------
(* ThreadGC::init -> AllocateHPRec: take the first record nobody owns, or   *)
(* push a new one.                                                          *)

AttachBegin(t) ==
    /\ At(t, "detached")
    /\ cur' = [cur EXCEPT ![t] = nRec]
    /\ Goto(t, "attach")
    /\ UNCHANGED <<recVars, heapVars, hazVars, derefVars, idx, plist,
                   helpVars, alive, rec>>

AttachTry(t) ==
    /\ At(t, "attach")
    /\ cur[t] > 0
    /\ IF owner[cur[t]] = NoThread
       THEN /\ owner' = [owner EXCEPT ![cur[t]] = t]
            /\ rec' = [rec EXCEPT ![t] = cur[t]]
            /\ cur' = [cur EXCEPT ![t] = 0]
            /\ Claim(cur[t])
            /\ Goto(t, "attachSet")
       ELSE /\ cur' = [cur EXCEPT ![t] = @ - 1]
            /\ UNCHANGED <<owner, rec, pc, lost>>
    /\ UNCHANGED <<nRec, bFree, top, arrRetired, heapVars, hazVars, derefVars,
                   idx, plist, hcur, own, todo, alive>>

AttachSet(t) ==
    /\ At(t, "attachSet")
    /\ bFree' = [bFree EXCEPT ![rec[t]] = FALSE]
    /\ Goto(t, "idle")
    /\ UNCHANGED <<nRec, owner, top, arrRetired, heapVars, hazVars, derefVars,
                   scanVars, helpVars, alive, rec>>

\* The record is initialised before the CAS that makes it the head publishes it.
AttachNew(t) ==
    /\ At(t, "attach")
    /\ cur[t] = 0
    /\ nRec < MaxRec
    /\ nRec' = nRec + 1
    /\ owner' = [owner EXCEPT ![nRec + 1] = t]
    /\ bFree' = [bFree EXCEPT ![nRec + 1] = FALSE]
    /\ rec' = [rec EXCEPT ![t] = nRec + 1]
    /\ Goto(t, "idle")
    /\ UNCHANGED <<top, arrRetired, heapVars, hazVars, derefVars, scanVars,
                   helpVars, alive>>

\* ThreadGC::fini -> RetireHPRec.  The guards of the thread are gone by now.
Detach(t) ==
    /\ At(t, "idle")
    /\ Drained(t)
    /\ top[rec[t]] = HPCount
    /\ hzp' = [s \in Slot |-> IF s[1] = rec[t] THEN Null ELSE hzp[s]]
    /\ owner' = [owner EXCEPT ![rec[t]] = NoThread]
    /\ rec' = [rec EXCEPT ![t] = 0]
    /\ Goto(t, "detached")
    /\ UNCHANGED <<nRec, bFree, top, arrRetired, heapVars, using, blockers,
                   pend, derefVars, scanVars, helpVars, alive>>

\* The thread ends without detaching: OS::isThreadAlive turns false for it.
Die(t) ==
    /\ At(t, "idle")
    /\ Drained(t)
    /\ top[rec[t]] = HPCount
    /\ alive' = [alive EXCEPT ![t] = FALSE]
    /\ UNCHANGED <<recVars, heapVars, hazVars, derefVars, scanVars, helpVars,
                   pc, rec>>

-----------------------------------------------------------------------------
(* Guards and derefLink.                                                    *)

\* Pointer p becomes visible in slot s; what s protected before is let go.
Expose(s, p) ==
    /\ hzp' = [hzp EXCEPT ![s] = p]
    /\ blockers' = [n \in Node |-> IF n = p THEN blockers[n]
                                            ELSE blockers[n] \ {s}]

\* A store to a hazard slot: visible at once, or left in the store buffer.
StoreSlot(t, s, p) ==
    /\ Drained(t)
    /\ using' = [using EXCEPT ![s] = Null]
    /\ IF Fenced
       THEN Expose(s, p) /\ UNCHANGED pend
       ELSE pend' = [pend EXCEPT ![t] = <<s, p>>] /\ UNCHANGED <<hzp, blockers>>

Drain(t) ==
    /\ pend[t] # NoStore
    /\ Expose(pend[t][1], pend[t][2])
    /\ pend' = [pend EXCEPT ![t] = NoStore]
    /\ UNCHANGED <<recVars, heapVars, using, derefVars, scanVars, helpVars,
                   pc, alive, rec>>

GuardAlloc(t) ==
    /\ At(t, "idle")
    /\ top[rec[t]] > 0
    /\ top' = [top EXCEPT ![rec[t]] = @ - 1]
    /\ UNCHANGED <<nRec, owner, bFree, arrRetired, heapVars, hazVars,
                   derefVars, scanVars, helpVars, pc, alive, rec>>

\* HPAllocator::free zeroes the slot at m_nTop, whichever guard is destroyed.
FreedSlot_OffByOne(t) == <<rec[t], top[rec[t]] - 1>>              \* mutant
FreedSlot(t) == <<rec[t], top[rec[t]]>>
GuardFree(t) ==
    /\ At(t, "idle")
    /\ top[rec[t]] < HPCount
    /\ StoreSlot(t, FreedSlot(t), Null)
    /\ top' = [top EXCEPT ![rec[t]] = @ + 1]
    /\ UNCHANGED <<nRec, owner, bFree, arrRetired, heapVars, derefVars,
                   scanVars, helpVars, pc, alive, rec>>

\* derefLink, first load
Deref(t, i, l) ==
    /\ \/ At(t, "idle")
       \/ At(t, "deref") /\ guard[t] = i /\ src[t] = l
    /\ top[rec[t]] <= i
    /\ ptr' = [ptr EXCEPT ![t] = link[l]]
    /\ guard' = [guard EXCEPT ![t] = i]
    /\ src' = [src EXCEPT ![t] = l]
    /\ Goto(t, "store")
    /\ UNCHANGED <<recVars, heapVars, hazVars, scanVars, helpVars, alive, rec>>

\* derefLink, store to the hazard pointer
StoreHP(t) ==
    /\ At(t, "store")
    /\ StoreSlot(t, <<rec[t], guard[t]>>, ptr[t])
    /\ Goto(t, "check")
    /\ UNCHANGED <<recVars, heapVars, derefVars, scanVars, helpVars, alive, rec>>

\* derefLink, second load: done when the link still has the same value
StillLinked_NoRecheck(t) == TRUE                                  \* mutant
StillLinked(t) == link[src[t]] = ptr[t]
CheckLink(t) ==
    /\ At(t, "check")
    /\ IF StillLinked(t)
       THEN /\ using' = [using EXCEPT ![<<rec[t], guard[t]>>] = ptr[t]]
            /\ guard' = [guard EXCEPT ![t] = 0]
            /\ Goto(t, "idle")
       ELSE /\ Goto(t, "deref")
            /\ UNCHANGED <<using, guard>>
    /\ ptr' = [ptr EXCEPT ![t] = Null]
    /\ UNCHANGED <<recVars, heapVars, hzp, blockers, pend, src,
                   scanVars, helpVars, alive, rec>>

\* A walk over a list goes from hand to hand: the pointer in slot i of the guard
\* array is stored to slot j as well, and slot i is used for the next node.
GuardCopy(t, i, j) ==
    LET s == <<rec[t], i>>
        d == <<rec[t], j>>
    IN  /\ At(t, "idle")
        /\ Drained(t)
        /\ <<i, j>> \in Copies
        /\ top[rec[t]] <= i /\ top[rec[t]] <= j
        /\ using[s] \in Node
        /\ IF Fenced
           THEN /\ R!Copy(s, d)
                /\ UNCHANGED pend
           ELSE /\ pend' = [pend EXCEPT ![t] = <<d, using[s]>>]
                /\ using' = [using EXCEPT ![d] = using[s]]
                /\ UNCHANGED <<hzp, blockers, status>>
        /\ UNCHANGED <<recVars, link, derefVars, scanVars, helpVars, pc, alive, rec>>

-----------------------------------------------------------------------------
(* The container: TreiberStack push and pop on a stack of height one.       *)

Insert(t, l, n) ==
    /\ At(t, "idle")
    /\ Drained(t)
    /\ link[l] = Null
    /\ status[n] = "free"
    /\ link' = [link EXCEPT ![l] = n]
    /\ status' = [status EXCEPT ![n] = "linked"]
    /\ UNCHANGED <<recVars, hazVars, derefVars, scanVars, helpVars, pc, alive, rec>>

Unlink(t, l) ==
    /\ At(t, "idle")
    /\ Drained(t)
    /\ link[l] # Null
    /\ link' = [link EXCEPT ![l] = Null]
    /\ status' = [status EXCEPT ![link[l]] = "unlinked"]
    /\ ptr' = [ptr EXCEPT ![t] = link[l]]
    /\ Goto(t, "retire")
    /\ UNCHANGED <<recVars, hazVars, guard, src, scanVars, helpVars, alive, rec>>

-----------------------------------------------------------------------------
(* ThreadGC::retirePtr, Scan and HelpScan.                                  *)

IsFull(S) == Cardinality(S) >= MaxRetired

RetirePtr(t) ==
    LET r == rec[t]
        n == ptr[t]
    IN  /\ At(t, "retire")
        /\ arrRetired' = [arrRetired EXCEPT ![r] = @ \cup {n}]
        /\ status' = [status EXCEPT ![n] = "retired"]
        /\ blockers' = [blockers EXCEPT ![n] = {s \in Slot : hzp[s] = n}]
        /\ ptr' = [ptr EXCEPT ![t] = Null]
        /\ Goto(t, IF IsFull(arrRetired'[r]) THEN "scan0" ELSE "idle")
        /\ UNCHANGED <<nRec, owner, bFree, top, link, hzp, using, pend, guard,
                       src, scanVars, helpVars, alive, rec>>

\* Stage 1 of a scan, beginning: load m_pListHead
ScanHead(t) ==
    /\ At(t, "scan0")
    /\ cur' = [cur EXCEPT ![t] = nRec]
    /\ idx' = [idx EXCEPT ![t] = 0]
    /\ plist' = [plist EXCEPT ![t] = {}]
    /\ Goto(t, "scan")
    /\ UNCHANGED <<recVars, heapVars, hazVars, derefVars, helpVars, alive, rec>>

\* Stage 1: read one hazard slot.  classic_scan collects the pointer,
\* inplace_scan marks it in the retired array: the same set, met with the array.
SeenIn_WithNull(s) == {hzp[s]}                                    \* mutant
SeenIn(s) == {hzp[s]} \ {Null}
ScanSlot(t) ==
    /\ At(t, "scan")
    /\ cur[t] > 0
    /\ plist' = [plist EXCEPT ![t] = @ \cup SeenIn(<<cur[t], idx[t]>>)]
    /\ IF idx[t] + 1 < HPCount
       THEN /\ idx' = [idx EXCEPT ![t] = @ + 1]
            /\ UNCHANGED cur
       ELSE /\ idx' = [idx EXCEPT ![t] = 0]
            /\ cur' = [cur EXCEPT ![t] = @ - 1]
    /\ UNCHANGED <<recVars, heapVars, hazVars, derefVars, helpVars, pc, alive, rec>>

\* Stage 2: keep the retired pointers that were seen in a slot, free the others.
\* retirePtr then runs HelpScan; a scan HelpScan asked for returns to its loop.
Unguarded_All(t) == arrRetired[rec[t]]                            \* mutant
Unguarded(t) == arrRetired[rec[t]] \ plist[t]
Deferred_Dropped(t) == {}                                         \* mutant
Deferred(t) == arrRetired[rec[t]] \cap plist[t]
Sweep(t) ==
    /\ At(t, "scan")
    /\ cur[t] = 0
    /\ arrRetired' = [arrRetired EXCEPT ![rec[t]] = Deferred(t)]
    /\ status' = [n \in Node |-> IF n \in Unguarded(t) THEN "free" ELSE status[n]]
    /\ plist' = [plist EXCEPT ![t] = {}]
    /\ Goto(t, IF hcur[t] = 0 THEN "help0" ELSE "move")
    /\ UNCHANGED <<nRec, owner, bFree, top, link, hazVars, derefVars, cur,
                   idx, helpVars, alive, rec>>

HelpHead(t) ==
    /\ At(t, "help0")
    /\ hcur' = [hcur EXCEPT ![t] = nRec]
    /\ lost' = [lost EXCEPT ![t] = {r \in Rec : Abandoned(r) /\ arrRetired[r] # {}}]
    /\ Goto(t, "help")
    /\ UNCHANGED <<recVars, heapVars, hazVars, derefVars, scanVars, own, todo,
                   alive, rec>>

\* Records marked free have nothing to adopt
HelpRead(t) ==
    /\ At(t, "help")
    /\ hcur[t] > 0
    /\ IF bFree[hcur[t]]
       THEN hcur' = [hcur EXCEPT ![t] = @ - 1] /\ UNCHANGED pc
       ELSE Goto(t, "helpOwner") /\ UNCHANGED hcur
    /\ UNCHANGED <<recVars, heapVars, hazVars, derefVars, scanVars, own, todo,
                   lost, alive, rec>>

HelpDone(t) ==
    /\ At(t, "help")
    /\ hcur[t] = 0
    /\ lost' = [lost EXCEPT ![t] = {}]
    /\ Goto(t, "idle")
    /\ UNCHANGED <<recVars, heapVars, hazVars, derefVars, scanVars, hcur, own,
                   todo, alive, rec>>

Orphaned_Any(id) == TRUE                                          \* mutant
Orphaned_OnlyUnowned(id) == id = NoThread                         \* mutant
Orphaned(id) == id = NoThread \/ ~alive[id]

HelpOwner(t) ==
    /\ At(t, "helpOwner")
    /\ own' = [own EXCEPT ![t] = IF Orphaned(owner[hcur[t]])
                                 THEN owner[hcur[t]] ELSE NoThread]
    /\ Goto(t, "helpCas")
    /\ UNCHANGED <<recVars, heapVars, hazVars, derefVars, scanVars, hcur, todo,
                   lost, alive, rec>>

HelpCas(t) ==
    LET h == hcur[t]
    IN  /\ At(t, "helpCas")
        /\ IF owner[h] = own[t]
           THEN /\ owner' = [owner EXCEPT ![h] = t]
                /\ todo' = [todo EXCEPT ![t] = arrRetired[h]]
                /\ Claim(h)
                /\ Goto(t, "move")
                /\ UNCHANGED hcur
           ELSE /\ hcur' = [hcur EXCEPT ![t] = h - 1]
                /\ Goto(t, "help")
                /\ UNCHANGED <<owner, todo, lost>>
        /\ own' = [own EXCEPT ![t] = NoThread]
        /\ UNCHANGED <<nRec, bFree, top, arrRetired, heapVars, hazVars,
                       derefVars, scanVars, alive, rec>>

\* One entry of the adopted array is pushed to the thread's own
HelpMove(t, n) ==
    LET r == rec[t]
    IN  /\ At(t, "move")
        /\ n \in todo[t]
        /\ todo' = [todo EXCEPT ![t] = @ \ {n}]
        /\ arrRetired' = [arrRetired EXCEPT ![r] = @ \cup {n}]
        /\ IF IsFull(arrRetired'[r]) THEN Goto(t, "scan0") ELSE UNCHANGED pc
        /\ UNCHANGED <<nRec, owner, bFree, top, heapVars, hazVars, derefVars,
                       scanVars, hcur, own, lost, alive, rec>>

Emptied_NotCleared(r) == arrRetired[r]                            \* mutant
Emptied(r) == {}
HelpClear(t) ==
    /\ At(t, "move")
    /\ todo[t] = {}
    /\ arrRetired' = [arrRetired EXCEPT ![hcur[t]] = Emptied(hcur[t])]
    /\ bFree' = [bFree EXCEPT ![hcur[t]] = TRUE]
    /\ Goto(t, "release")
    /\ UNCHANGED <<nRec, owner, top, heapVars, hazVars, derefVars, scanVars,
                   helpVars, alive, rec>>

HelpRelease(t) ==
    /\ At(t, "release")
    /\ owner' = [owner EXCEPT ![hcur[t]] = NoThread]
    /\ hcur' = [hcur EXCEPT ![t] = @ - 1]
    /\ Goto(t, "help")
    /\ UNCHANGED <<nRec, bFree, top, arrRetired, heapVars, hazVars, derefVars,
                   scanVars, own, todo, lost, alive, rec>>

-----------------------------------------------------------------------------
Attaching(t) == AttachBegin(t) \/ AttachTry(t) \/ AttachSet(t) \/ AttachNew(t)
Guarding(t) ==
    \/ GuardAlloc(t) \/ GuardFree(t) \/ StoreHP(t) \/ CheckLink(t)
    \/ \E i \in Idx, l \in Link : Deref(t, i, l)
Copying(t) == \E i, j \in Idx : GuardCopy(t, i, j)
Scanning(t) == ScanHead(t) \/ ScanSlot(t) \/ Sweep(t)
Helping(t) ==
    \/ HelpHead(t) \/ HelpRead(t) \/ HelpDone(t) \/ HelpOwner(t) \/ HelpCas(t)
    \/ HelpClear(t) \/ HelpRelease(t)
    \/ \E n \in Node : HelpMove(t, n)
Mutating(t) == \E l \in Link : Unlink(t, l) \/ \E n \in Node : Insert(t, l, n)

PlainStep(t) ==
    \/ Attaching(t) \/ Detach(t) \/ Die(t)
    \/ Guarding(t)
    \/ Mutating(t) \/ RetirePtr(t)
    \/ Scanning(t) \/ Helping(t)

Step(t) == PlainStep(t) \/ Copying(t) \/ Drain(t)

Next == \E t \in Thread : Step(t)

Spec == Init /\ [][Next]_vars

\* Where guard stores are fenced and no guard is copied, Copying and Drain are never
\* enabled, and this is the same specification.
PlainSpec == Init /\ [][\E t \in Thread : PlainStep(t)]_vars

-----------------------------------------------------------------------------
(* Properties.                                                              *)

HasRecord(t) == alive[t] /\ pc[t] \notin {"detached", "attach"}
\* t owns the record HelpScan is at, besides its own
Adopting(t) == hcur[t] # 0 /\ pc[t] \in {"move", "scan0", "scan", "release"}
Adopted(r) == owner[r] # NoThread /\ Adopting(owner[r]) /\ hcur[owner[r]] = r
\* the entries of record r that are still to be freed: an adopter has already
\* moved, and may have freed, the others
Pending(r) == IF Adopted(r) THEN todo[owner[r]] ELSE arrRetired[r]

\* A pointer obtained through derefLink is not freed while its guard keeps it:
\* the purpose of the whole scheme (HPGuardT::operator=, ThreadGC::derefLink).
GuardedNotFreed == \A s \in Slot : using[s] \in Node => status[using[s]] # "free"

\* Scan calls the deleter once for a retired pointer: each pointer waiting in an
\* array is a retired cell, and waits in one array only, also while HelpScan
\* has it in two (the source array is cleared last).
RetiredOnce ==
    /\ \A r \in Rec : \A n \in Pending(r) : status[n] = "retired"
    /\ \A r, q \in Rec : r # q => Pending(r) \cap Pending(q) = {}

\* No retired pointer is lost, whatever threads leave or die: each one waits in
\* the array of a record that HelpScan will not skip: "If m_bFree == true then
\* hprec->m_arrRetired is empty - we don't need to see it" (hzp_gc.cpp).  And none
\* is pushed past the end of an array, the asserts of retired_vector::push and of
\* HelpScan (!dest.isFull()): a scan always makes room, also in the middle of
\* HelpScan's move, and however many records guards have been left in.
Findable ==
    \A n \in Node : status[n] = "retired" => \E r \in Rec : n \in Pending(r) /\ ~bFree[r]
NoOverflow ==
    \A t \in Thread : At(t, "retire") \/ At(t, "move") =>
                          Cardinality(arrRetired[rec[t]]) < MaxRetired
NoneLost == Findable /\ NoOverflow

\* HelpScan "checks every HP record. If an HP record is inactive, the thread
\* moves all lost reclaimed pointers to thread's list": when it is done, no record
\* with pointers that lacked a live owner from its beginning on is left.
HelpScanAdopts == \A t \in Thread : At(t, "help") /\ hcur[t] = 0 => lost[t] = {}

\* A record has one user: its thread, or the thread that adopts its pointers.
RecordExclusive ==
    \A t, u \in Thread :
        /\ HasRecord(t) => owner[rec[t]] = t
        /\ HasRecord(t) /\ HasRecord(u) /\ t # u => rec[t] # rec[u]
        /\ HasRecord(t) /\ Adopting(u) => rec[t] # hcur[u]
        /\ Adopting(t) /\ Adopting(u) /\ t # u => hcur[t] # hcur[u]

\* The scheme implements the abstract reclamation contract.
Reclaims == R!RSpec

-----------------------------------------------------------------------------
(* The inductive invariant of the proofs, in three layers: what holds with or   *)
(* without fences, what needs Fenced, and what needs CopiesAscend as well.      *)

\* A scan reads the slots of a record in ascending order, so a pointer that is
\* copied upwards is met in one of the two slots.
CopiesAscend == \A c \in Copies : c[1] < c[2]

\* Who owns which record.
OwnerOf(t) ==
    /\ HasRecord(t) => rec[t] \in 1..nRec /\ owner[rec[t]] = t
    /\ hcur[t] <= nRec
    /\ cur[t] <= nRec
    /\ pc[t] \notin {"scan0", "scan", "help", "helpOwner", "helpCas", "move", "release"}
          => hcur[t] = 0
    /\ pc[t] \in {"helpOwner", "helpCas", "move", "release"} => hcur[t] # 0
    /\ Adopting(t) => owner[hcur[t]] = t /\ hcur[t] # rec[t]
    /\ pc[t] = "helpCas" => own[t] = NoThread \/ ~alive[own[t]]
    /\ ~alive[t] => pc[t] = "idle"
IOwner == \A t \in Thread : OwnerOf(t)

\* HelpScan releases a record it has emptied.
ICleared ==
    \A t \in Thread : pc[t] = "release" => todo[t] = {} /\ arrRetired[hcur[t]] = {}

\* Where the retired pointers are.
IHome ==
    /\ \A r \in Rec : \A n \in Pending(r) : status[n] = "retired"
    /\ \A r, q \in Rec : r # q => Pending(r) \cap Pending(q) = {}
    /\ ICleared

\* Where the other cells are.
ILink ==
    /\ \A l \in Link : link[l] # Null => status[link[l]] = "linked"
    /\ \A l, m \in Link : l # m /\ link[l] # Null => link[l] # link[m]
    /\ \A t \in Thread : pc[t] = "retire" => ptr[t] \in Node /\ status[ptr[t]] = "unlinked"
    /\ \A t, u \in Thread :
          t # u /\ pc[t] = "retire" /\ pc[u] = "retire" => ptr[t] # ptr[u]

\* Any memory order, any adoption, any copying: together inductive.
IBase ==
    /\ TypeOK
    /\ IOwner
    /\ IHome
    /\ ILink

\* With fences no store waits in a buffer.
IStore == \A t \in Thread : pend[t] = NoStore

\* What the slots hold and protect.
ISlot ==
    /\ \A r \in Rec, i \in Idx : i < top[r] => hzp[<<r, i>>] = Null
    /\ \A r \in Rec, i \in Idx : nRec < r => hzp[<<r, i>>] = Null
    /\ \A t \in Thread : pc[t] \in {"deref", "store", "check"} => top[rec[t]] <= guard[t]
    /\ \A t \in Thread : pc[t] = "check" => hzp[<<rec[t], guard[t]>>] = ptr[t]
    /\ \A n \in Node : \A s \in blockers[n] : hzp[s] = n

\* A slot an unfinished scan has passed hides no pointer from it: it held the
\* pointer when it was read, or does not block it.
Passed(t, r, i) == cur[t] < r \/ (cur[t] = r /\ i < idx[t])
IScan ==
    \A t \in Thread : pc[t] = "scan" =>
        \A n \in arrRetired[rec[t]], r \in Rec, i \in Idx :
            Passed(t, r, i) /\ <<r, i>> \in blockers[n] => n \in plist[t]

\* Any unfinished scan and any guard in use: together inductive.
IInv ==
    /\ IBase
    /\ IStore
    /\ ISlot
    /\ IScan
    /\ R!RInv
=============================================================================
