---------------------------- MODULE PassTheBuck ----------------------------
(***************************************************************************)
(* The Pass-the-Buck collector of libcds: gc/ptb/ptb.h, gc/ptb/gc.h and    *)
(* src/ptb_gc.cpp.                                                         *)
(*                                                                         *)
(* Threads borrow guards from a common pool, protect nodes with them,      *)
(* unlink nodes from a container and retire them to one common buffer.     *)
(* The thread whose retirement reaches the threshold liberates: it steals  *)
(* the buffer, walks all guards, leaves each retired node that a guard     *)
(* posts with that guard (the hand-off), takes back hand-offs no guard     *)
(* posts any more, and frees what is left.                                 *)
(*                                                                         *)
(* Guards form a list that only grows at its head; guard g is the g-th     *)
(* pushed, so m_GuardList is nGuard and pGlobalNext of g is g - 1.  Loads  *)
(* and stores are sequentially consistent here; what the store buffers of  *)
(* amd64 change is the subject of HazardPointers.                          *)
(***************************************************************************)
EXTENDS Naturals, Sequences, TLC

CONSTANTS Thread, Node, Link,
          Null,           \* the null pointer
          MaxGuard,       \* bound on the guards ever allocated
          InitialGuards,  \* m_nInitialThreadGuardCount
          Threshold,      \* m_nLiberateThreshold
          Copies          \* <<g, h>>: a container may copy guard g to guard h

ASSUME NullAssumption == Null \notin Node
ASSUME BoundAssumption == MaxGuard \in Nat /\ InitialGuards \in Nat \ {0} /\ Threshold \in Nat

Guard == 1..MaxGuard
ASSUME CopiesAssumption == Copies \subseteq Guard \X Guard
Elements(s) == {s[i] : i \in DOMAIN s}

VARIABLES
  \* the guard pool, shared
  nGuard,       \* guards pushed so far
  post,         \* guard_data::pPost
  handoff,      \* guard_data::pHandOff
  freeGuards,   \* m_FreeGuardList, a set: which free guard is taken never matters
  \* the retired pointers, shared
  buffer,       \* m_RetiredBuffer, a set: every use of it takes all
  nItem,        \* retired_ptr_buffer::m_nItemCount
  locked,       \* m_lockLiberate
  \* the locals of liberate, which one thread runs at a time
  set,          \* the liberate_set
  done,         \* doneGuardSet: what the guards already examined post
  at,           \* the guard examined next, 0 at the end of the list
  \* the container and the heap
  link, status,
  \* one entry per thread
  pc,
  list,         \* ThreadGC::m_pList
  avail,        \* ThreadGC::m_pFree, those of list that guard nothing
  ptr, guard, src, \* the node in hand; the guard and the link of a protect loop
  upto,          \* how far fini has cleared the list
  \* history
  using, blockers, \* see Reclamation
  stray         \* nodes waiting when the liberate began that no guard has posted

R == INSTANCE Reclamation WITH Slot <- Guard, hz <- post

rvars == <<status, post, using, blockers>>
poolVars == <<nGuard, handoff, freeGuards>>
bufferVars == <<buffer, nItem>>
libVars == <<locked, set, done, at>>
listVars == <<list, avail, upto>>
protectVars == <<ptr, guard, src>>
vars == <<rvars, poolVars, bufferVars, libVars, listVars, protectVars,
          link, pc, stray>>

PC == {"detached", "attach", "fini", "idle", "load", "store", "check", "retire", "count",
       "try", "steal", "reset", "scan", "recount"}

TypeOK ==
    /\ R!RTypeOK
    /\ nGuard \in 0..MaxGuard
    /\ handoff \in [Guard -> Node \cup {Null}]
    /\ freeGuards \subseteq Guard
    /\ buffer \subseteq Node
    /\ nItem \in Nat
    /\ locked \in BOOLEAN
    /\ set \subseteq Node
    /\ done \subseteq Node
    /\ at \in 0..MaxGuard
    /\ link \in [Link -> Node \cup {Null}]
    /\ pc \in [Thread -> PC]
    /\ list \in [Thread -> Seq(Guard)]
    /\ avail \in [Thread -> SUBSET Guard]
    /\ ptr \in [Thread -> Node \cup {Null}]
    /\ guard \in [Thread -> 0..MaxGuard]
    /\ src \in [Thread -> Link]
    /\ upto \in [Thread -> Nat]
    /\ stray \subseteq Node

Init ==
    /\ R!RInit
    /\ nGuard = 0
    /\ handoff = [g \in Guard |-> Null]
    /\ freeGuards = {}
    /\ buffer = {}
    /\ nItem = 0
    /\ locked = FALSE
    /\ set = {}
    /\ done = {}
    /\ at = 0
    /\ link = [l \in Link |-> Null]
    /\ pc = [t \in Thread |-> "detached"]
    /\ list = [t \in Thread |-> <<>>]
    /\ avail = [t \in Thread |-> {}]
    /\ ptr = [t \in Thread |-> Null]
    /\ guard = [t \in Thread |-> 0]
    /\ src \in [Thread -> Link]
    /\ upto = [t \in Thread |-> 0]
    /\ stray = {}

At(t, here) == pc[t] = here
Goto(t, there) == pc' = [pc EXCEPT ![t] = there]
Held(t) == Elements(list[t]) \ avail[t]

-----------------------------------------------------------------------------
(* The guard pool.                                                          *)

\* guard_allocator::alloc: a free guard, or a new one when none is free; the
\* pop is made under m_freeListLock, and the guard is then cleared by its owner.
\* Only liberate reads a guard in between, as it did before the pop.
Rest(g) == freeGuards \ {g}
TakeGuard(g) ==
    /\ \/ g \in freeGuards /\ UNCHANGED nGuard
       \/ freeGuards = {} /\ nGuard < MaxGuard /\ g = nGuard + 1 /\ nGuard' = g
    /\ freeGuards' = Rest(g)
    /\ R!SetSlot(g, Null)
    /\ UNCHANGED handoff

\* ThreadGC::init -> allocList, one guard at a time
AttachGuard(t, g) ==
    /\ At(t, "detached") \/ At(t, "attach")
    /\ TakeGuard(g)
    /\ list' = [list EXCEPT ![t] = Append(@, g)]
    /\ IF Len(list'[t]) = InitialGuards
       THEN /\ avail' = [avail EXCEPT ![t] = Elements(list'[t])]
            /\ Goto(t, "idle")
       ELSE /\ UNCHANGED avail
            /\ Goto(t, "attach")
    /\ UNCHANGED <<bufferVars, libVars, protectVars, link, upto, stray>>

\* ThreadGC::fini -> freeList.  The Guard objects of the thread are gone by now.
FiniBegin(t) ==
    /\ At(t, "idle")
    /\ Held(t) = {}
    /\ upto' = [upto EXCEPT ![t] = 1]
    /\ Goto(t, "fini")
    /\ UNCHANGED <<rvars, poolVars, bufferVars, libVars, list, avail,
                   protectVars, link, stray>>

\* The loop clears each guard that has a successor in the list ...
FiniClear(t) ==
    /\ At(t, "fini")
    /\ upto[t] < Len(list[t])
    /\ R!SetSlot(list[t][upto[t]], Null)
    /\ upto' = [upto EXCEPT ![t] = @ + 1]
    /\ UNCHANGED <<poolVars, bufferVars, libVars, list, avail, protectVars,
                   link, pc, stray>>

\* ... and not the last one, which goes to the pool as it is.
FiniReturn(t) ==
    /\ At(t, "fini")
    /\ upto[t] = Len(list[t])
    /\ freeGuards' = freeGuards \cup Elements(list[t])
    /\ list' = [list EXCEPT ![t] = <<>>]
    /\ avail' = [avail EXCEPT ![t] = {}]
    /\ upto' = [upto EXCEPT ![t] = 0]
    /\ Goto(t, "detached")
    /\ UNCHANGED <<rvars, nGuard, handoff, bufferVars, libVars, protectVars,
                   link, stray>>

-----------------------------------------------------------------------------
(* Guards.                                                                  *)

\* ThreadGC::allocGuard: a guard of the thread's own, with whatever it posted
\* last, or one more from the pool
GuardReuse(t, g) ==
    /\ At(t, "idle")
    /\ g \in avail[t]
    /\ avail' = [avail EXCEPT ![t] = @ \ {g}]
    /\ UNCHANGED <<rvars, poolVars, bufferVars, libVars, list, upto,
                   protectVars, link, pc, stray>>

GuardGrow(t, g) ==
    /\ At(t, "idle")
    /\ avail[t] = {}
    /\ TakeGuard(g)
    /\ list' = [list EXCEPT ![t] = <<g>> \o @]
    /\ UNCHANGED <<bufferVars, libVars, avail, upto, protectVars, link, pc, stray>>

\* ThreadGC::freeGuard leaves pPost as it is: the guard still posts its pointer.
GuardFree(t, g) ==
    /\ At(t, "idle")
    /\ g \in Held(t)
    /\ avail' = [avail EXCEPT ![t] = @ \cup {g}]
    /\ R!SetSlot(g, post[g])
    /\ UNCHANGED <<poolVars, bufferVars, libVars, list, upto, protectVars, link,
                   pc, stray>>

GuardClear(t, g) ==
    /\ At(t, "idle")
    /\ g \in Held(t)
    /\ R!SetSlot(g, Null)
    /\ UNCHANGED <<poolVars, bufferVars, libVars, listVars, protectVars, link,
                   pc, stray>>

\* Guard::guard: load the link, post the pointer, load the link again
Protect(t, g, l) ==
    /\ At(t, "idle")
    /\ g \in Held(t)
    /\ guard' = [guard EXCEPT ![t] = g]
    /\ src' = [src EXCEPT ![t] = l]
    /\ Goto(t, "load")
    /\ UNCHANGED <<rvars, poolVars, bufferVars, libVars, listVars, ptr, link, stray>>

Load(t) ==
    /\ At(t, "load")
    /\ ptr' = [ptr EXCEPT ![t] = link[src[t]]]
    /\ Goto(t, "store")
    /\ UNCHANGED <<rvars, poolVars, bufferVars, libVars, listVars, guard, src,
                   link, stray>>

PostGuard(t) ==
    /\ At(t, "store")
    /\ R!SetSlot(guard[t], ptr[t])
    /\ stray' = stray \ {ptr[t]}
    /\ Goto(t, "check")
    /\ UNCHANGED <<poolVars, bufferVars, libVars, listVars, protectVars, link>>

StillLinked(t) == link[src[t]] = ptr[t]
CheckLink(t) ==
    /\ At(t, "check")
    /\ IF StillLinked(t)
       THEN /\ R!Use(guard[t])
            /\ guard' = [guard EXCEPT ![t] = 0]
            /\ Goto(t, "idle")
       ELSE /\ UNCHANGED <<rvars, guard>>
            /\ Goto(t, "load")
    /\ ptr' = [ptr EXCEPT ![t] = Null]
    /\ UNCHANGED <<poolVars, bufferVars, libVars, listVars, src, link, stray>>

\* A walk over a list goes from hand to hand: the pointer guard g posts is posted
\* by h as well, and g is used for the next node.
GuardCopy(t, g, h) ==
    /\ At(t, "idle")
    /\ {g, h} \subseteq Held(t) /\ <<g, h>> \in Copies
    /\ using[g] \in Node
    /\ R!Copy(g, h)
    /\ stray' = stray \ {using[g]}
    /\ UNCHANGED <<poolVars, bufferVars, libVars, listVars, protectVars, link, pc>>

-----------------------------------------------------------------------------
(* The container: a shared link is set to a new node, or the node it names  *)
(* is unlinked and then retired.                                            *)

Insert(t, l, n) ==
    /\ At(t, "idle")
    /\ link[l] = Null
    /\ status[n] = "free"
    /\ link' = [link EXCEPT ![l] = n]
    /\ R!SetStatus(n, "linked")
    /\ UNCHANGED <<poolVars, bufferVars, libVars, listVars, protectVars, pc, stray>>

Unlink(t, l) ==
    /\ At(t, "idle")
    /\ link[l] # Null
    /\ link' = [link EXCEPT ![l] = Null]
    /\ R!SetStatus(link[l], "unlinked")
    /\ ptr' = [ptr EXCEPT ![t] = link[l]]
    /\ Goto(t, "retire")
    /\ UNCHANGED <<poolVars, bufferVars, libVars, listVars, guard, src, stray>>

-----------------------------------------------------------------------------
(* retirePtr, try_liberate and liberate.                                    *)

\* retired_ptr_buffer::push: the node enters the list, then the counter moves
Retire(t) ==
    /\ At(t, "retire")
    /\ R!HandOver(ptr[t])
    /\ buffer' = buffer \cup {ptr[t]}
    /\ ptr' = [ptr EXCEPT ![t] = Null]
    /\ Goto(t, "count")
    /\ UNCHANGED <<poolVars, nItem, libVars, listVars, guard, src, link, stray>>

Count(t) ==
    /\ At(t, "count")
    /\ nItem' = nItem + 1
    /\ Goto(t, IF nItem' >= Threshold THEN "try" ELSE "idle")
    /\ UNCHANGED <<rvars, poolVars, buffer, libVars, listVars, protectVars,
                   link, stray>>

MayLiberate == ~locked
TryLiberate(t) ==
    /\ At(t, "try")
    /\ IF MayLiberate
       THEN locked' = TRUE /\ Goto(t, "steal")
       ELSE UNCHANGED locked /\ Goto(t, "idle")
    /\ UNCHANGED <<rvars, poolVars, bufferVars, set, done, at, listVars,
                   protectVars, link, stray>>

Posted == {post[g] : g \in Guard}
Steal(t) ==
    /\ At(t, "steal")
    /\ set' = buffer
    /\ buffer' = {}
    /\ stray' = (buffer \cup {handoff[g] : g \in Guard}) \ (Posted \cup {Null})
    /\ Goto(t, "reset")
    /\ UNCHANGED <<rvars, poolVars, nItem, locked, done, at, listVars,
                   protectVars, link>>

\* The counter is cleared after the list, and the walk begins at m_GuardList
Reset(t) ==
    /\ At(t, "reset")
    /\ nItem' = 0
    /\ at' = nGuard
    /\ Goto(t, "scan")
    /\ UNCHANGED <<rvars, poolVars, buffer, locked, set, done, listVars,
                   protectVars, link, stray>>

\* One guard.  A hand-off h it posts no more goes back to the set, unless a
\* guard already examined posts it.  If the guard posts a retired node, that
\* becomes the new hand-off, and an h that may not be freed yet is pushed back.
MayFree(h) == h \notin done
Kept_Guarded(S, g) == S                                           \* mutant
Kept(S, g) == S \ {post[g]}
Evicted_NullSkipped(g) == handoff[g] \notin {Null, post[g]} /\ post[g] # Null \* mutant
Evicted(g) == handoff[g] \notin {Null, post[g]}
Repushed_Dropped(g) == {}                                         \* mutant
Repushed(g) == {handoff[g]}
Examined_WithNull(g) == {post[g]}                                 \* mutant
Examined(g) == {post[g]} \ {Null}
ScanGuard(t) ==
    /\ At(t, "scan")
    /\ at > 0
    /\ LET traps == post[at] \in set
           taken == IF Evicted(at) /\ MayFree(handoff[at]) THEN {handoff[at]} ELSE {}
           again == IF traps /\ Evicted(at) /\ ~MayFree(handoff[at])
                    THEN Repushed(at) ELSE {}
       IN  /\ set' = Kept(set, at) \cup taken
           /\ buffer' = buffer \cup again
           /\ handoff' = [handoff EXCEPT ![at] =
                             IF traps THEN post[at]
                             ELSE IF taken # {} THEN Null ELSE @]
           /\ IF again # {} THEN Goto(t, "recount") ELSE UNCHANGED pc
    /\ done' = done \cup Examined(at)
    /\ at' = at - 1
    /\ UNCHANGED <<rvars, nGuard, freeGuards, nItem, locked, listVars,
                   protectVars, link, stray>>

Recount(t) ==
    /\ At(t, "recount")
    /\ nItem' = nItem + 1
    /\ Goto(t, "scan")
    /\ UNCHANGED <<rvars, poolVars, buffer, libVars, listVars, protectVars,
                   link, stray>>

\* free_liberated: the deleters of the nodes left in the set are called
FreeOne(t, n) ==
    /\ At(t, "scan")
    /\ at = 0
    /\ n \in set
    /\ R!SetStatus(n, "free")
    /\ set' = set \ {n}
    /\ stray' = stray \ {n}
    /\ UNCHANGED <<poolVars, bufferVars, locked, done, at, listVars,
                   protectVars, link, pc>>

LiberateDone(t) == At(t, "scan") /\ at = 0 /\ set = {}
Unlock(t) ==
    /\ LiberateDone(t)
    /\ locked' = FALSE
    /\ done' = {}
    /\ stray' = {}
    /\ Goto(t, "idle")
    /\ UNCHANGED <<rvars, poolVars, bufferVars, set, at, listVars, protectVars,
                   link>>

-----------------------------------------------------------------------------
Pooling(t) ==
    \/ FiniBegin(t) \/ FiniClear(t) \/ FiniReturn(t)
    \/ \E g \in Guard : AttachGuard(t, g) \/ GuardReuse(t, g) \/ GuardGrow(t, g)
                        \/ GuardFree(t, g)
Guarding(t) ==
    \/ \E g \in Guard : GuardClear(t, g) \/ \E l \in Link : Protect(t, g, l)
    \/ \E g, h \in Guard : GuardCopy(t, g, h)
    \/ Load(t) \/ PostGuard(t) \/ CheckLink(t)
Mutating(t) == \E l \in Link : Unlink(t, l) \/ \E n \in Node : Insert(t, l, n)
Retiring(t) == Retire(t) \/ Count(t) \/ TryLiberate(t)
Liberating(t) ==
    \/ Steal(t) \/ Reset(t) \/ ScanGuard(t) \/ Recount(t) \/ Unlock(t)
    \/ \E n \in Node : FreeOne(t, n)

Next ==
    \E t \in Thread :
        Pooling(t) \/ Guarding(t) \/ Mutating(t) \/ Retiring(t) \/ Liberating(t)

Spec == Init /\ [][Next]_vars

-----------------------------------------------------------------------------
(* Properties.                                                              *)

\* Each retired node waits in exactly one place, the buffer, the set of the
\* running liberate or the hand-off of one guard: it is neither lost nor freed
\* twice, whatever guards change hands while liberate passes the buck.  And so is each
\* guard: free, or once in the list of one thread, though a guard given back may still
\* post a pointer and trap nodes.
OnePlace ==
    /\ \A n \in Node :
       LET guards == {g \in Guard : handoff[g] = n}
       IN  /\ status[n] = "retired" <=> n \in buffer \cup set \/ guards # {}
           /\ n \notin buffer \cap set
           /\ n \in buffer \cup set => guards = {}
           /\ \A g, h \in guards : g = h
    /\ \A t \in Thread :
       /\ Elements(list[t]) \cap freeGuards = {}
       /\ \A i, j \in DOMAIN list[t] : list[t][i] = list[t][j] => i = j
       /\ \A u \in Thread \ {t} : Elements(list[t]) \cap Elements(list[u]) = {}

\* "It tries to free retired pointers if they are not trapped by any guard":
\* when liberate ends, nothing waits that was waiting when it stole the buffer
\* and that no guard has posted at any time since.
LiberateComplete == \A t \in Thread : LiberateDone(t) => stray = {}

\* A pointer obtained through Guard::guard is not freed while the guard posts it.
GuardedNotFreed == R!UsedNotFreed

\* The collector implements the abstract reclamation contract.
Reclaims == R!RSpec

-----------------------------------------------------------------------------
\* For TLC: threads and nodes are interchangeable; guards are copied downwards or upwards.
Symmetric == Permutations(Thread) \cup Permutations(Node)
Down == {c \in Guard \X Guard : c[2] < c[1]}
Up == {c \in Guard \X Guard : c[1] < c[2]}
=============================================================================
