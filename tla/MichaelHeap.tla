---------------------------- MODULE MichaelHeap ----------------------------
(***************************************************************************)
(* Michael's lock-free allocator (cds/memory/michael/allocator.h, class    *)
(* Heap), for the blocks of one size class: a heap per processor, whose    *)
(* superblocks are pages cut into blocks.  A superblock is active (the     *)
(* heap hands out its blocks against credits), full, partial or empty.     *)
(*                                                                         *)
(* The anchor of a superblock is one word changed by compare-and-swap.     *)
(* Its 40-bit tag does not wrap during a call, so all that matters of it   *)
(* is whether it still is what a thread read; what it read is Stale if     *)
(* not.  The two lists of descriptors are guarded by a spin lock (see      *)
(* SpinLocks): each of their operations is one step.                       *)
(***************************************************************************)
EXTENDS Naturals, Sequences, FiniteSets, FiniteSetsExt, SequencesExt, TLC

CONSTANTS Thread,
          Heap,             \* the processors, each with its processor_heap
          Desc, Page,       \* bounds: the descriptors and pages the system has
          Null,
          Capacity,         \* nCapacity: the blocks of a superblock
          MaxCredits,       \* active_tag::c_nMaxCredits
          MaxAllocated      \* a bound: the blocks in use at a time

ASSUME HeapAssumption ==
    /\ Capacity \in Nat /\ Capacity >= 2
    /\ MaxCredits \in Nat \ {0}
    /\ MaxAllocated \in Nat
    /\ Null \notin Desc \cup Page

Index == 0..(Capacity - 1)
Block == Page \X Index
NoBlock == <<Null, 0>>
States == {"active", "full", "partial", "empty"}
Anchor == [avail : Index, count : Index, state : States]
Active == [desc : Desc \cup {Null}, credits : 0..(MaxCredits - 1)]
NotActive == [desc |-> Null, credits |-> 0]
Fewer(m, n) == IF m < n THEN m ELSE n

VARIABLES
  made,         \* m_arrProcDesc[h] is not null
  active,       \* active of each heap: a superblock and its credits, less one
  slot,         \* pPartial of each heap
  partial,      \* partialList of each heap
  descFree,     \* listSBDescFree of each processor
  fresh,        \* the descriptors the system has
  anchor,       \* anchor of each superblock_desc
  home,         \* its pProcHeap
  pSB,          \* its page
  nextFree,     \* nNextFree of each block
  pages,        \* the pages the page heaps and the system have
  allocated,    \* history: the blocks in use
  pc,
  op,           \* the call of each thread
  heap, desc,   \* pProcHeap, pDesc
  act,          \* oldActive, of alloc_from_active
  seen,         \* oldAnchor, or Stale when it is out of date or no longer needed
  more,         \* nMoreCredits
  block         \* the block to return or to free

poolVars == <<descFree, fresh, home, pSB, pages>>
blockVars == <<nextFree, allocated>>
heapVars == <<made, active, slot, partial>>
anchorVars == <<anchor, seen>>
callVars == <<op, heap, desc, act, more, block>>
vars == <<heapVars, poolVars, blockVars, anchorVars, callVars, pc>>

NoAnchor == [avail |-> 0, count |-> 0, state |-> "empty"]
Stale == [avail |-> 0, count |-> 0, state |-> "stale"]

Init ==
    /\ made = [h \in Heap |-> FALSE]
    /\ active = [h \in Heap |-> NotActive]
    /\ slot = [h \in Heap |-> Null]
    /\ partial = [h \in Heap |-> <<>>]
    /\ descFree = [h \in Heap |-> <<>>]
    /\ fresh = Desc
    /\ anchor = [d \in Desc |-> NoAnchor]
    /\ home = [d \in Desc |-> Null]
    /\ pSB = [d \in Desc |-> Null]
    /\ nextFree = [b \in Block |-> 0]
    /\ pages = Page
    /\ allocated = {}
    /\ pc = [t \in Thread |-> "idle"]
    /\ op = [t \in Thread |-> "none"]
    /\ heap = [t \in Thread |-> Null]
    /\ desc = [t \in Thread |-> Null]
    /\ act = [t \in Thread |-> NotActive]
    /\ seen = [t \in Thread |-> Stale]
    /\ more = [t \in Thread |-> 0]
    /\ block = [t \in Thread |-> NoBlock]

Goto(t, there) == pc' = [pc EXCEPT ![t] = there]

\* The call returns: its locals are gone
Return(t) ==
    /\ Goto(t, "idle")
    /\ op' = [op EXCEPT ![t] = "none"]
    /\ heap' = [heap EXCEPT ![t] = Null]
    /\ desc' = [desc EXCEPT ![t] = Null]
    /\ act' = [act EXCEPT ![t] = NotActive]
    /\ more' = [more EXCEPT ![t] = 0]
    /\ block' = [block EXCEPT ![t] = NoBlock]

-----------------------------------------------------------------------------
(* The anchor of desc[t] *)

Same(t) == seen[t] = anchor[desc[t]]
\* A store that adds one to the tag: whoever has read the anchor has to read it again
Tagged(d, a) ==
    /\ anchor' = [anchor EXCEPT ![d] = a]
    /\ seen' = [u \in Thread |-> IF desc[u] = d THEN Stale ELSE seen[u]]
Load(t, here, there) ==
    /\ pc[t] = here
    /\ seen' = [seen EXCEPT ![t] = anchor[desc[t]]]
    /\ Goto(t, there)
    /\ UNCHANGED <<heapVars, poolVars, allocated, anchor, callVars>>
\* The compare-and-swap failed
Again(t, here, there) ==
    /\ pc[t] = here
    /\ ~Same(t)
    /\ Goto(t, there)
    /\ seen' = [seen EXCEPT ![t] = Stale]
    /\ UNCHANGED <<heapVars, poolVars, blockVars, anchor, callVars>>

-----------------------------------------------------------------------------
(* int_alloc: find_heap, then alloc_from_active, _partial, _new_superblock *)

Allocating == {t \in Thread : op[t] = "alloc" /\ block[t] = NoBlock}
CallAlloc(t) ==
    /\ pc[t] = "idle"
    /\ Cardinality(allocated) + Cardinality(Allocating) < MaxAllocated
    /\ op' = [op EXCEPT ![t] = "alloc"]
    /\ Goto(t, "find")
    /\ UNCHANGED <<heapVars, poolVars, blockVars, anchorVars, heap, desc, act, more, block>>

\* The processor a thread runs on may be another at each turn
FindHeap(t) ==
    /\ pc[t] = "find"
    /\ \E h \in Heap :
          /\ heap' = [heap EXCEPT ![t] = h]
          /\ Goto(t, IF made[h] THEN "active" ELSE "make")
    /\ UNCHANGED <<heapVars, poolVars, blockVars, anchorVars, op, desc, act, more, block>>
\* A processor_desc is made; one made by another thread meanwhile is used instead
MakeHeap(t) ==
    /\ pc[t] = "make"
    /\ made' = [made EXCEPT ![heap[t]] = TRUE]
    /\ Goto(t, "active")
    /\ UNCHANGED <<active, slot, partial, poolVars, blockVars, anchorVars, callVars>>

ActiveLoad(t) ==
    /\ pc[t] = "active"
    /\ act' = [act EXCEPT ![t] = active[heap[t]]]
    /\ Goto(t, IF active[heap[t]].desc = Null THEN "partial" ELSE "reserve")
    /\ UNCHANGED <<heapVars, poolVars, blockVars, anchorVars, op, heap, desc, more, block>>

\* A credit is taken; the last one takes the superblock out of the active field
Reserve(t) ==
    /\ pc[t] = "reserve"
    /\ LET h == heap[t] IN
       IF active[h] = act[t]
       THEN /\ active' = [active EXCEPT ![h] = IF act[t].credits = 0 THEN NotActive
                                               ELSE [@ EXCEPT !.credits = @ - 1]]
            /\ desc' = [desc EXCEPT ![t] = act[t].desc]
            /\ Goto(t, "pop")
       ELSE Goto(t, "active") /\ UNCHANGED <<active, desc>>
    /\ UNCHANGED <<made, slot, partial, poolVars, blockVars, anchorVars, op, heap, act,
                   more, block>>

PopLoad(t) == Load(t, "pop", "pop_cas") /\ UNCHANGED nextFree
PopAgain(t) == Again(t, "pop_cas", "pop")

\* The block reserved is popped, and its link overwritten by its user.  Who took the last credit takes more, as many as
\* there are, or finds the superblock full.
LastCredit(t) == act[t].desc # Null /\ act[t].credits = 0
Popped(t) ==
    LET a == seen[t]
        m == IF LastCredit(t) THEN Fewer(a.count, MaxCredits) ELSE 0
    IN  [avail |-> nextFree[<<pSB[desc[t]], a.avail>>],
         count |-> a.count - m,
         state |-> IF LastCredit(t) /\ a.count = 0 THEN "full" ELSE a.state]
Pop(t) ==
    /\ pc[t] = "pop_cas"
    /\ Same(t)
    /\ LET b == <<pSB[desc[t]], seen[t].avail>>
           m == IF LastCredit(t) THEN seen[t].count - Popped(t).count ELSE more[t]
       IN  /\ Tagged(desc[t], Popped(t))
           /\ allocated' = allocated \cup {b}
           /\ nextFree' = [nextFree EXCEPT ![b] = 0]
           /\ IF m = 0 THEN Return(t)
              ELSE /\ block' = [block EXCEPT ![t] = b]
                   /\ more' = [more EXCEPT ![t] = m]
                   /\ Goto(t, "install")
                   /\ UNCHANGED <<op, heap, desc, act>>
    /\ UNCHANGED <<heapVars, poolVars>>

\* get_partial: pPartial, or else the first of the list
PartialLoad(t) ==
    /\ pc[t] = "partial"
    /\ desc' = [desc EXCEPT ![t] = slot[heap[t]]]
    /\ act' = [act EXCEPT ![t] = NotActive]
    /\ Goto(t, IF slot[heap[t]] = Null THEN "partial_pop" ELSE "partial_cas")
    /\ UNCHANGED <<heapVars, poolVars, blockVars, anchorVars, op, heap, more, block>>
PartialCas(t) ==
    /\ pc[t] = "partial_cas"
    /\ IF slot[heap[t]] = desc[t]
       THEN slot' = [slot EXCEPT ![heap[t]] = Null] /\ Goto(t, "open")
       ELSE Goto(t, "partial") /\ UNCHANGED slot
    /\ UNCHANGED <<made, active, partial, poolVars, blockVars, anchorVars, callVars>>
PartialPop(t) ==
    /\ pc[t] = "partial_pop"
    /\ LET list == partial[heap[t]] IN
       IF list = <<>> THEN Goto(t, "new") /\ UNCHANGED <<partial, desc>>
       ELSE /\ partial' = [partial EXCEPT ![heap[t]] = Tail(list)]
            /\ desc' = [desc EXCEPT ![t] = Head(list)]
            /\ Goto(t, "open")
    /\ UNCHANGED <<made, active, slot, poolVars, blockVars, anchorVars, op, heap, act, more,
                   block>>

\* An empty superblock is freed; of another one a block is reserved, and credits
OpenLoad(t) ==
    /\ Load(t, "open", "open_cas")
    /\ anchor[desc[t]].state # "empty"
    /\ UNCHANGED nextFree
OpenEmpty(t) ==
    /\ pc[t] = "open"
    /\ anchor[desc[t]].state = "empty"
    /\ Goto(t, "drop_page")
    /\ UNCHANGED <<heapVars, poolVars, blockVars, anchorVars, callVars>>
OpenAgain(t) == Again(t, "open_cas", "open")
Open(t) ==
    /\ pc[t] = "open_cas"
    /\ Same(t)
    /\ LET m == Fewer(seen[t].count - 1, MaxCredits)
       IN  /\ Tagged(desc[t], [seen[t] EXCEPT !.count = @ - (m + 1),
                                              !.state = IF m > 0 THEN "active" ELSE "full"])
           /\ more' = [more EXCEPT ![t] = m]
    /\ Goto(t, "pop")
    /\ UNCHANGED <<heapVars, poolVars, blockVars, op, heap, desc, act, block>>

\* new_superblock_desc and new_superblock_buffer
NewDesc(t) ==
    /\ pc[t] = "new"
    /\ LET list == descFree[heap[t]] IN
       \E d \in Desc :
          /\ IF list = <<>>
             THEN d \in fresh /\ fresh' = fresh \ {d} /\ UNCHANGED descFree
             ELSE /\ d = Head(list)
                  /\ descFree' = [descFree EXCEPT ![heap[t]] = Tail(list)]
                  /\ UNCHANGED fresh
          /\ desc' = [desc EXCEPT ![t] = d]
          /\ home' = [home EXCEPT ![d] = heap[t]]
          /\ anchor' = [anchor EXCEPT ![d].avail = 1]
    /\ Goto(t, "new_page")
    /\ UNCHANGED <<heapVars, pSB, pages, blockVars, seen, op, heap, act, more, block>>

FirstCredits == Fewer(Capacity - 1, MaxCredits) - 1
NewPage(t) ==
    /\ pc[t] = "new_page"
    /\ \E p \in pages :
          /\ pages' = pages \ {p}
          /\ pSB' = [pSB EXCEPT ![desc[t]] = p]
          /\ nextFree' = [b \in Block |-> IF b[1] = p THEN (b[2] + 1) % Capacity ELSE nextFree[b]]
    /\ Tagged(desc[t], [anchor[desc[t]] EXCEPT !.count = Capacity - 1 - (FirstCredits + 1),
                                               !.state = "active"])
    /\ Goto(t, "publish")
    /\ UNCHANGED <<heapVars, descFree, fresh, home, allocated, callVars>>

\* The superblock becomes the active one of the heap, unless it has got another
Publish(t) ==
    /\ pc[t] = "publish"
    /\ IF active[heap[t]] = NotActive
       THEN /\ active' = [active EXCEPT ![heap[t]] = [desc |-> desc[t], credits |-> FirstCredits]]
            /\ allocated' = allocated \cup {<<pSB[desc[t]], 0>>}
            /\ Return(t)
       ELSE Goto(t, "drop_page") /\ UNCHANGED <<active, allocated, callVars>>
    /\ UNCHANGED <<made, slot, partial, poolVars, nextFree, anchorVars>>

-----------------------------------------------------------------------------
(* update_active, and add_partial, which free calls too *)

Install(t) ==
    /\ pc[t] = "install"
    /\ IF active[heap[t]] = NotActive
       THEN /\ active' = [active EXCEPT ![heap[t]] =
                             [desc |-> desc[t], credits |-> more[t] - 1]]
            /\ Return(t)
       ELSE Goto(t, "give") /\ UNCHANGED <<active, callVars>>
    /\ UNCHANGED <<made, slot, partial, poolVars, blockVars, anchorVars>>

\* The heap has got another active superblock: the credits are given back
GiveLoad(t) == Load(t, "give", "give_cas") /\ UNCHANGED nextFree
GiveAgain(t) == Again(t, "give_cas", "give")
Given_Less(t) ==                                                  \* mutant
    [seen[t] EXCEPT !.count = @ + more[t] - 1, !.state = "partial"]
Given(t) == [seen[t] EXCEPT !.count = @ + more[t], !.state = "partial"]
Give(t) ==
    /\ pc[t] = "give_cas"
    /\ Same(t)
    /\ anchor' = [anchor EXCEPT ![desc[t]] = Given(t)]
    /\ seen' = [seen EXCEPT ![t] = Stale]
    /\ Goto(t, "add")
    /\ UNCHANGED <<heapVars, poolVars, blockVars, callVars>>

AddPartial(t) ==
    /\ pc[t] = "add"
    /\ LET h == home[desc[t]] IN
       IF slot[h] = Null
       THEN slot' = [slot EXCEPT ![h] = desc[t]] /\ Return(t)
       ELSE Goto(t, "push") /\ UNCHANGED <<slot, callVars>>
    /\ UNCHANGED <<made, active, partial, poolVars, blockVars, anchorVars>>
PushPartial(t) ==
    /\ pc[t] = "push"
    /\ partial' = [partial EXCEPT ![home[desc[t]]] = Append(@, desc[t])]
    /\ Return(t)
    /\ UNCHANGED <<made, active, slot, poolVars, blockVars, anchorVars>>

-----------------------------------------------------------------------------
(* free_superblock: the page, then the descriptor; what is left on them is     *)
(* nobody's business and forgotten                                             *)

DropPage(t) ==
    /\ pc[t] = "drop_page"
    /\ pages' = pages \cup {pSB[desc[t]]}
    /\ nextFree' = [b \in Block |-> IF b[1] = pSB[desc[t]] THEN 0 ELSE nextFree[b]]
    /\ pSB' = [pSB EXCEPT ![desc[t]] = Null]
    /\ Goto(t, "drop_desc")
    /\ UNCHANGED <<heapVars, descFree, fresh, home, allocated, anchorVars, callVars>>
\* Then free returns; an allocation that found an empty superblock looks for
\* another one, and one that failed to publish its own begins again
DropDesc(t) ==
    /\ pc[t] = "drop_desc"
    /\ descFree' = [descFree EXCEPT ![home[desc[t]]] = Append(@, desc[t])]
    /\ anchor' = [anchor EXCEPT ![desc[t]] = NoAnchor]
    /\ IF op[t] = "free" THEN Return(t)
       ELSE /\ Goto(t, IF anchor[desc[t]].state = "empty" THEN "partial" ELSE "find")
            /\ desc' = [desc EXCEPT ![t] = Null]
            /\ UNCHANGED <<op, heap, act, more, block>>
    /\ UNCHANGED <<heapVars, fresh, home, pSB, pages, blockVars, seen>>

-----------------------------------------------------------------------------
(* free, of a block that no call is about to return or free *)

CallFree(t) ==
    /\ pc[t] = "idle"
    /\ \E b \in allocated, d \in Desc :
          /\ \A u \in Thread : block[u] # b
          /\ pSB[d] = b[1]
          /\ op' = [op EXCEPT ![t] = "free"]
          /\ block' = [block EXCEPT ![t] = b]
          /\ desc' = [desc EXCEPT ![t] = d]
    /\ Goto(t, "free")
    /\ UNCHANGED <<heapVars, poolVars, blockVars, anchorVars, heap, act, more>>

\* The block is linked to the first free one, which it is to precede
FreeLoad(t) ==
    /\ Load(t, "free", "free_cas")
    /\ nextFree' = [nextFree EXCEPT ![block[t]] = anchor[desc[t]].avail]
FreeAgain(t) == Again(t, "free_cas", "free")

\* The last block makes the superblock empty, one of a full one makes it partial
Freed_EmptyEarly(t) ==                                            \* mutant
    LET a == seen[t]
    IN  [avail |-> block[t][2],
         count |-> IF a.count = Capacity - 2 THEN a.count ELSE a.count + 1,
         state |-> IF a.count = Capacity - 2 THEN "empty"
                   ELSE IF a.state = "full" THEN "partial" ELSE a.state]
Freed(t) ==
    LET a == seen[t]
    IN  [avail |-> block[t][2],
         count |-> IF a.count = Capacity - 1 THEN a.count ELSE a.count + 1,
         state |-> IF a.count = Capacity - 1 THEN "empty"
                   ELSE IF a.state = "full" THEN "partial" ELSE a.state]
FreeCas(t) ==
    /\ pc[t] = "free_cas"
    /\ Same(t)
    /\ Tagged(desc[t], Freed(t))
    /\ allocated' = allocated \ {block[t]}
    /\ IF Freed(t).state = "empty" \/ seen[t].state = "full"
       THEN /\ Goto(t, IF Freed(t).state = "empty" THEN "unlink" ELSE "add")
            /\ UNCHANGED callVars
       ELSE Return(t)
    /\ UNCHANGED <<heapVars, poolVars, nextFree>>

\* unlink_partial: an empty superblock that is in the list is freed at once; one
\* in pPartial, or on its way there, by the allocation that finds it
Unlink(t) ==
    /\ pc[t] = "unlink"
    /\ LET h == home[desc[t]] IN
       IF desc[t] \in Range(partial[h])
       THEN /\ partial' = [partial EXCEPT ![h] = Remove(@, desc[t])]
            /\ Goto(t, "drop_page")
            /\ UNCHANGED callVars
       ELSE Return(t) /\ UNCHANGED partial
    /\ UNCHANGED <<made, active, slot, poolVars, blockVars, anchorVars>>

-----------------------------------------------------------------------------
AllocFromActive(t) == ActiveLoad(t) \/ Reserve(t) \/ PopLoad(t) \/ PopAgain(t) \/ Pop(t)
AllocFromPartial(t) ==
    \/ PartialLoad(t) \/ PartialCas(t) \/ PartialPop(t) \/ OpenLoad(t) \/ OpenEmpty(t) \/ OpenAgain(t) \/ Open(t)
FillNew(t) == NewPage(t) \/ Publish(t)
UpdateActive(t) == Install(t) \/ GiveLoad(t) \/ GiveAgain(t) \/ Give(t)
AddingPartial(t) == AddPartial(t) \/ PushPartial(t)
FreeSuperblock(t) == DropPage(t) \/ DropDesc(t)
Freeing(t) == FreeLoad(t) \/ FreeAgain(t) \/ FreeCas(t) \/ Unlink(t)

\* Every step but that of new_superblock_desc
OtherStep(t) ==
    \/ CallAlloc(t) \/ FindHeap(t) \/ MakeHeap(t)
    \/ AllocFromActive(t) \/ AllocFromPartial(t) \/ FillNew(t) \/ UpdateActive(t)
    \/ AddingPartial(t) \/ FreeSuperblock(t) \/ CallFree(t) \/ Freeing(t)

Next == \E t \in Thread : OtherStep(t) \/ NewDesc(t)
Spec == Init /\ [][Next]_vars

\* The code where every free is prompt: a bound on its behaviours, which nothing in the
\* code enforces.  Between the step that empties a superblock and unlink_partial, the
\* descriptor is not used again.
AboutToUnlink(d) == \E u \in Thread : pc[u] = "unlink" /\ desc[u] = d
PromptNewDesc(t) == NewDesc(t) /\ ~AboutToUnlink(desc'[t])
PromptNext == \E t \in Thread : OtherStep(t) \/ PromptNewDesc(t)
PromptSpec == Init /\ [][PromptNext]_vars

-----------------------------------------------------------------------------
(* Properties *)

TypeOK ==
    /\ made \in [Heap -> BOOLEAN]
    /\ active \in [Heap -> Active]
    /\ slot \in [Heap -> Desc \cup {Null}]
    /\ partial \in [Heap -> Seq(Desc)] /\ descFree \in [Heap -> Seq(Desc)]
    /\ fresh \subseteq Desc
    /\ anchor \in [Desc -> Anchor] /\ seen \in [Thread -> Anchor \cup {Stale}]
    /\ home \in [Desc -> Heap \cup {Null}]
    /\ pSB \in [Desc -> Page \cup {Null}]
    /\ nextFree \in [Block -> Index]
    /\ pages \subseteq Page
    /\ allocated \subseteq Block
    /\ op \in [Thread -> {"none", "alloc", "free"}]
    /\ heap \in [Thread -> Heap \cup {Null}]
    /\ desc \in [Thread -> Desc \cup {Null}]
    /\ act \in [Thread -> Active]
    /\ more \in [Thread -> 0..MaxCredits]
    /\ block \in [Thread -> Block \cup {NoBlock}]

\* What calls are doing with superblock d: building or dropping it, which is the
\* business of one; holding it with nothing reserved, having taken it from the
\* partial ones or about to give it back; or holding reserved blocks of it.
Dropping == {"new_page", "publish", "drop_page", "drop_desc"}
Moving == {"open", "open_cas", "add", "push"}
Popping == {"pop", "pop_cas"}
Installing == {"install", "give", "give_cas"}
Having(d, where) == {t \in Thread : desc[t] = d /\ pc[t] \in where}
InUse == {d \in Desc : pSB[d] # Null /\ Having(d, Dropping) = {}}

\* Its reserved blocks: those of the active field, those calls are to pop, and those
\* they are to install in the active field.
Reserved(d) ==
    LET lent(h) == IF active[h].desc = d THEN active[h].credits + 1 ELSE 0
        owed(t) == more[t] + IF pc[t] \in Popping THEN 1 ELSE 0
    IN  MapThenSumSet(lent, Heap) + MapThenSumSet(owed, Having(d, Popping \cup Installing))

\* The free blocks of a superblock are chained from avail on, one for each block
\* that is reserved or counted (an empty superblock counts one less); all the
\* others are in use: no block is lost, and none is both free and in use.
FreeChain(d) ==
    LET length == Reserved(d) + anchor[d].count + IF anchor[d].state = "empty" THEN 1 ELSE 0
        c[i \in Index] == IF i = 0 THEN anchor[d].avail ELSE nextFree[<<pSB[d], c[i - 1]>>]
    IN  [i \in {j \in Index : j < length} |-> c[i]]
AllBlocks ==
    \A d \in InUse :
       LET free == Range(FreeChain(d))
           used == {i \in Index : <<pSB[d], i>> \in allocated}
       IN  /\ IsInjective(FreeChain(d))
           /\ free \cap used = {}
           /\ free \cup used = Index

IsActive(d) == \E h \in Heap : active[h].desc = d
IsPartial(d) == \E h \in Heap : slot[h] = d \/ d \in Range(partial[h])
IsSpare(d) == \E h \in Heap : d \in Range(descFree[h])
Places(d) ==
    LET at(h) == {n \in 1..4 : d \in <<{active[h].desc}, {slot[h]}, Range(partial[h]),
                                       Range(descFree[h])>>[n]}
    IN  UNION {{h} \X at(h) : h \in Heap}

\* No block is lost and none is given twice.  A superblock is in one place at most,
\* the one its state says; when no call holds it, it can be found unless it is full:
\* no free block is lost to the heap.  Of PromptSpec: under Spec, what violates IsHeap
\* violates this too.
Conserved ==
    /\ TypeOK
    /\ AllBlocks
    /\ \A d \in Desc \ fresh :
       /\ Cardinality(Places(d)) <= 1
       /\ \A h \in Heap : IsInjective(partial[h]) /\ IsInjective(descFree[h])
       /\ IsActive(d) => anchor[d].state = "active"
       /\ IsPartial(d) => anchor[d].state \in {"partial", "empty"}
       /\ Having(d, Dropping \cup Moving \cup Popping \cup Installing) = {} =>
             /\ IsSpare(d) <=> pSB[d] = Null
             /\ Places(d) = {} <=> anchor[d].state = "full"

\* A block has one user, and a page is not given back while it has blocks in use: true
\* of PromptSpec.  Under Spec a free that comes late to unlink_partial finds the descriptor
\* in the list with a new page, and gives that back with the blocks in use on it.
H == INSTANCE BlockHeap WITH pages <- Page \ pages
IsHeap == H!HSpec

\* For TLC: threads, descriptors and pages are interchangeable.
Symmetric == Permutations(Thread) \cup Permutations(Desc) \cup Permutations(Page)
=============================================================================
