---------------------- MODULE HazardPointers_proofs ----------------------
(***************************************************************************)
(* Proofs about the hazard pointer collector, for every set of threads,    *)
(* nodes and links and every number of records, slots and retired          *)
(* pointers.  IInv of HazardPointers is shown inductive part by part.  Its *)
(* base, who owns which record and where each retired pointer waits, needs *)
(* no assumption, whatever the memory order.  The safety of guarded nodes  *)
(* and the refinement assume Fenced: a guard store is visible before its   *)
(* owner reads memory again; and CopiesAscend: guards are copied only to   *)
(* slots a scan reads later.                                               *)
(*                                                                         *)
(* In the lemmas about Next each step of level <1> is one action of Step:  *)
(*    1 AttachBegin   2 AttachTry   3 AttachSet   4 AttachNew   5 Detach   *)
(*    6 Die           7 GuardAlloc  8 GuardFree   9 Deref      10 StoreHP  *)
(*   11 CheckLink    12 Drain      13 Insert     14 Unlink     15 RetirePtr*)
(*   16 ScanHead     17 ScanSlot   18 Sweep      19 HelpHead   20 HelpRead *)
(*   21 HelpDone     22 HelpOwner  23 HelpCas    24 HelpMove   25 HelpClear*)
(*   26 HelpRelease  27 GuardCopy                                          *)
(***************************************************************************)
EXTENDS HazardPointers, FiniteSetTheorems, TLAPS

\* A hazard slot takes a node or null: HPAllocator's slots stay well typed.
LEMMA ExposeType ==
  ASSUME TypeOK, NEW s \in Slot, NEW p \in Node \cup {Null}, Expose(s, p)
  PROVE  hzp' \in [Slot -> Node \cup {Null}] /\ blockers' \in [Node -> SUBSET Slot]
BY DEF TypeOK, Expose

\* So do the store buffer and the ghost of what a slot protects.
LEMMA StoreType ==
  ASSUME TypeOK, NEW t \in Thread, NEW s \in Slot, NEW p \in Node \cup {Null}, StoreSlot(t, s, p)
  PROVE  /\ hzp' \in [Slot -> Node \cup {Null}] /\ blockers' \in [Node -> SUBSET Slot]
         /\ using' \in [Slot -> Node \cup {Null}]
         /\ pend' \in [Thread -> {NoStore} \cup (Slot \X (Node \cup {Null}))]
<1>1. using' \in [Slot -> Node \cup {Null}]
  BY DEF StoreSlot, TypeOK
<1>2. CASE Fenced
  BY <1>1, <1>2, ExposeType DEF StoreSlot, TypeOK
<1>3. CASE ~Fenced
  BY <1>1, <1>3 DEF StoreSlot, TypeOK
<1> QED
  BY <1>2, <1>3

\* The record numbers a thread holds (its own, the one HelpScan is at, the one a
\* walk is at) are records of the list or the null pointer.
LEMMA OwnsRecord ==
  ASSUME TypeOK, IOwner, NEW t \in Thread
  PROVE  /\ HasRecord(t) => rec[t] \in Rec /\ rec[t] <= nRec /\ owner[rec[t]] = t
         /\ hcur[t] # 0 => hcur[t] \in Rec /\ hcur[t] - 1 \in 0..MaxRec
         /\ cur[t] # 0 => cur[t] \in Rec /\ cur[t] - 1 \in 0..MaxRec
<1>1. nRec \in 0..MaxRec /\ rec[t] \in 0..MaxRec /\ hcur[t] \in 0..MaxRec /\ cur[t] \in 0..MaxRec
  BY DEF TypeOK
<1>2. HasRecord(t) => rec[t] \in 1..nRec /\ owner[rec[t]] = t
  BY DEF IOwner, OwnerOf
<1> QED
  BY <1>1, <1>2, BoundAssumption DEF Rec

\* Every step of every thread keeps the types.
LEMMA StepType == TypeOK /\ IOwner /\ ILink /\ Next => TypeOK'
<1> SUFFICES ASSUME TypeOK, IOwner, ILink, NEW t \in Thread, Step(t) PROVE TypeOK'
  BY DEF Next
<1> USE DEF recVars, heapVars, hazVars, derefVars, scanVars, helpVars
<1>1. CASE AttachBegin(t)
  <2>1. cur' \in [Thread -> 0..MaxRec]
    BY <1>1 DEF AttachBegin, TypeOK
  <2>2. pc' \in [Thread -> PC]
    BY <1>1 DEF AttachBegin, TypeOK, Goto, PC
  <2>. UNCHANGED <<nRec, owner, bFree, hzp, top, arrRetired, link, status, alive, rec, ptr, guard, src, pend, idx, plist, hcur, own, todo, using, blockers, lost>>
    BY <1>1 DEF AttachBegin
  <2>. QED
    BY <2>1, <2>2 DEF TypeOK
<1>2. CASE AttachTry(t)
  <2>a. cur[t] \in Rec /\ cur[t] - 1 \in 0..MaxRec
    BY <1>2, OwnsRecord DEF AttachTry, At
  <2>z. 0 \in Idx /\ 0 \in 0..MaxRec
    BY BoundAssumption DEF Idx
  <2>1. owner' \in [Rec -> Thread \cup {NoThread}]
    <3>1. owner' = [owner EXCEPT ![cur[t]] = t] \/ owner' = owner
      BY <1>2 DEF AttachTry
    <3> QED
      BY <2>a, <3>1 DEF TypeOK
  <2>2. rec' \in [Thread -> 0..MaxRec]
    BY <1>2, <2>a, <2>z DEF AttachTry, TypeOK
  <2>3. cur' \in [Thread -> 0..MaxRec]
    BY <1>2, <2>a, <2>z DEF AttachTry, TypeOK
  <2>4. pc' \in [Thread -> PC]
    BY <1>2, <2>a, <2>z DEF AttachTry, TypeOK, Goto, PC
  <2>l. lost' \in [Thread -> SUBSET Rec]
    BY <1>2 DEF AttachTry, Claim, TypeOK
  <2>. UNCHANGED <<nRec, bFree, hzp, top, arrRetired, link, status, alive, ptr, guard, src, pend, idx, plist, hcur, own, todo, using, blockers>>
    BY <1>2 DEF AttachTry
  <2>. QED
    BY <2>l, <2>1, <2>2, <2>3, <2>4 DEF TypeOK
<1>3. CASE AttachSet(t)
  <2>a. rec[t] \in Rec
    BY <1>3, OwnsRecord DEF AttachSet, At, HasRecord
  <2>1. bFree' \in [Rec -> BOOLEAN]
    BY <1>3, <2>a DEF AttachSet, TypeOK
  <2>2. pc' \in [Thread -> PC]
    BY <1>3, <2>a DEF AttachSet, TypeOK, Goto, PC
  <2>. UNCHANGED <<nRec, owner, hzp, top, arrRetired, link, status, alive, rec, ptr, guard, src, pend, cur, idx, plist, hcur, own, todo, using, blockers, lost>>
    BY <1>3 DEF AttachSet
  <2>. QED
    BY <2>1, <2>2 DEF TypeOK
<1>4. CASE AttachNew(t)
  <2>a. nRec + 1 \in Rec /\ nRec + 1 \in 0..MaxRec
    BY <1>4, BoundAssumption DEF AttachNew, Rec, TypeOK
  <2>1. nRec' \in 0..MaxRec
    BY <1>4, <2>a DEF AttachNew, TypeOK
  <2>2. owner' \in [Rec -> Thread \cup {NoThread}]
    BY <1>4, <2>a DEF AttachNew, TypeOK
  <2>3. bFree' \in [Rec -> BOOLEAN]
    BY <1>4, <2>a DEF AttachNew, TypeOK
  <2>4. rec' \in [Thread -> 0..MaxRec]
    BY <1>4, <2>a DEF AttachNew, TypeOK
  <2>5. pc' \in [Thread -> PC]
    BY <1>4, <2>a DEF AttachNew, TypeOK, Goto, PC
  <2>. UNCHANGED <<hzp, top, arrRetired, link, status, alive, ptr, guard, src, pend, cur, idx, plist, hcur, own, todo, using, blockers, lost>>
    BY <1>4 DEF AttachNew
  <2>. QED
    BY <2>1, <2>2, <2>3, <2>4, <2>5 DEF TypeOK
<1>5. CASE Detach(t)
  <2>a. rec[t] \in Rec
    BY <1>5, OwnsRecord DEF Detach, At, HasRecord
  <2>z. 0 \in Idx /\ 0 \in 0..MaxRec
    BY BoundAssumption DEF Idx
  <2>1. hzp' \in [Slot -> Node \cup {Null}]
    BY <1>5, <2>a, <2>z DEF Detach, TypeOK
  <2>2. owner' \in [Rec -> Thread \cup {NoThread}]
    BY <1>5, <2>a, <2>z DEF Detach, TypeOK
  <2>3. rec' \in [Thread -> 0..MaxRec]
    BY <1>5, <2>a, <2>z DEF Detach, TypeOK
  <2>4. pc' \in [Thread -> PC]
    BY <1>5, <2>a, <2>z DEF Detach, TypeOK, Goto, PC
  <2>. UNCHANGED <<nRec, bFree, top, arrRetired, link, status, alive, ptr, guard, src, pend, cur, idx, plist, hcur, own, todo, using, blockers, lost>>
    BY <1>5 DEF Detach
  <2>. QED
    BY <2>1, <2>2, <2>3, <2>4 DEF TypeOK
<1>6. CASE Die(t)
  <2>1. alive' \in [Thread -> BOOLEAN]
    BY <1>6 DEF Die, TypeOK
  <2>. UNCHANGED <<nRec, owner, bFree, hzp, top, arrRetired, link, status, pc, rec, ptr, guard, src, pend, cur, idx, plist, hcur, own, todo, using, blockers, lost>>
    BY <1>6 DEF Die
  <2>. QED
    BY <2>1 DEF TypeOK
<1>7. CASE GuardAlloc(t)
  <2>a. rec[t] \in Rec
    BY <1>7, OwnsRecord DEF GuardAlloc, At, HasRecord
  <2>b. top[rec[t]] - 1 \in 0..HPCount
    BY <1>7, <2>a, BoundAssumption DEF GuardAlloc, TypeOK
  <2>1. top' \in [Rec -> 0..HPCount]
    BY <1>7, <2>a, <2>b DEF GuardAlloc, TypeOK
  <2>. UNCHANGED <<nRec, owner, bFree, hzp, arrRetired, link, status, pc, alive, rec, ptr, guard, src, pend, cur, idx, plist, hcur, own, todo, using, blockers, lost>>
    BY <1>7 DEF GuardAlloc
  <2>. QED
    BY <2>1 DEF TypeOK
<1>8. CASE GuardFree(t)
  <2>a. rec[t] \in Rec
    BY <1>8, OwnsRecord DEF GuardFree, At, HasRecord
  <2>b. top[rec[t]] + 1 \in 0..HPCount /\ FreedSlot(t) \in Slot
    BY <1>8, <2>a, BoundAssumption DEF GuardFree, FreedSlot, Slot, Idx, TypeOK
  <2>c. StoreSlot(t, FreedSlot(t), Null)
    BY <1>8 DEF GuardFree
  <2>1. top' \in [Rec -> 0..HPCount]
    BY <1>8, <2>a, <2>b, <2>c DEF GuardFree, TypeOK
  <2>2. hzp' \in [Slot -> Node \cup {Null}]
    BY <2>b, <2>c, StoreType
  <2>3. blockers' \in [Node -> SUBSET Slot]
    BY <2>b, <2>c, StoreType
  <2>4. using' \in [Slot -> Node \cup {Null}]
    BY <2>b, <2>c, StoreType
  <2>5. pend' \in [Thread -> {NoStore} \cup (Slot \X (Node \cup {Null}))]
    BY <2>b, <2>c, StoreType
  <2>. UNCHANGED <<nRec, owner, bFree, arrRetired, link, status, pc, alive, rec, ptr, guard, src, cur, idx, plist, hcur, own, todo, lost>>
    BY <1>8 DEF GuardFree
  <2>. QED
    BY <2>1, <2>2, <2>3, <2>4, <2>5 DEF TypeOK
<1>9. ASSUME NEW i \in Idx, NEW l \in Link, Deref(t, i, l) PROVE TypeOK'
  <2>1. ptr' \in [Thread -> Node \cup {Null}]
    BY <1>9 DEF Deref, TypeOK
  <2>2. guard' \in [Thread -> Idx]
    BY <1>9 DEF Deref, TypeOK
  <2>3. src' \in [Thread -> Link]
    BY <1>9 DEF Deref, TypeOK
  <2>4. pc' \in [Thread -> PC]
    BY <1>9 DEF Deref, TypeOK, Goto, PC
  <2>. UNCHANGED <<nRec, owner, bFree, hzp, top, arrRetired, link, status, alive, rec, pend, cur, idx, plist, hcur, own, todo, using, blockers, lost>>
    BY <1>9 DEF Deref
  <2>. QED
    BY <2>1, <2>2, <2>3, <2>4 DEF TypeOK
<1>10. CASE StoreHP(t)
  <2>a. rec[t] \in Rec
    BY <1>10, OwnsRecord DEF StoreHP, At, HasRecord
  <2>b. <<rec[t], guard[t]>> \in Slot /\ ptr[t] \in Node \cup {Null}
    BY <2>a DEF Slot, TypeOK
  <2>c. StoreSlot(t, <<rec[t], guard[t]>>, ptr[t])
    BY <1>10 DEF StoreHP
  <2>1. pc' \in [Thread -> PC]
    BY <1>10, <2>a, <2>b, <2>c DEF StoreHP, TypeOK, Goto, PC
  <2>2. hzp' \in [Slot -> Node \cup {Null}]
    BY <2>b, <2>c, StoreType
  <2>3. blockers' \in [Node -> SUBSET Slot]
    BY <2>b, <2>c, StoreType
  <2>4. using' \in [Slot -> Node \cup {Null}]
    BY <2>b, <2>c, StoreType
  <2>5. pend' \in [Thread -> {NoStore} \cup (Slot \X (Node \cup {Null}))]
    BY <2>b, <2>c, StoreType
  <2>. UNCHANGED <<nRec, owner, bFree, top, arrRetired, link, status, alive, rec, ptr, guard, src, cur, idx, plist, hcur, own, todo, lost>>
    BY <1>10 DEF StoreHP
  <2>. QED
    BY <2>1, <2>2, <2>3, <2>4, <2>5 DEF TypeOK
<1>11. CASE CheckLink(t)
  <2>a. rec[t] \in Rec
    BY <1>11, OwnsRecord DEF CheckLink, At, HasRecord
  <2>b. <<rec[t], guard[t]>> \in Slot /\ ptr[t] \in Node \cup {Null}
    BY <2>a DEF Slot, TypeOK
  <2>1. using' \in [Slot -> Node \cup {Null}]
    BY <1>11, <2>a, <2>b DEF CheckLink, TypeOK
  <2>2. ptr' \in [Thread -> Node \cup {Null}]
    BY <1>11, <2>a, <2>b DEF CheckLink, TypeOK
  <2>3. pc' \in [Thread -> PC]
    BY <1>11, <2>a, <2>b DEF CheckLink, TypeOK, Goto, PC
  <2>z. 0 \in Idx
    BY BoundAssumption DEF Idx
  <2>g. guard \in [Thread -> Idx]
    BY DEF TypeOK
  <2>h. guard' = guard \/ guard' = [guard EXCEPT ![t] = 0]
    BY <1>11 DEF CheckLink
  <2>4. guard' \in [Thread -> Idx]
    BY <2>z, <2>g, <2>h
  <2>. UNCHANGED <<nRec, owner, bFree, hzp, top, arrRetired, link, status, alive, rec, src, pend, cur, idx, plist, hcur, own, todo, blockers, lost>>
    BY <1>11 DEF CheckLink
  <2>. QED
    BY <2>1, <2>2, <2>3, <2>4 DEF TypeOK
<1>12. CASE Drain(t)
  <2>a. pend[t][1] \in Slot /\ pend[t][2] \in Node \cup {Null}
    BY <1>12 DEF Drain, TypeOK, NoStore
  <2>1. hzp' \in [Slot -> Node \cup {Null}]
    BY <1>12, <2>a, ExposeType DEF Drain
  <2>2. blockers' \in [Node -> SUBSET Slot]
    BY <1>12, <2>a, ExposeType DEF Drain
  <2>3. pend' \in [Thread -> {NoStore} \cup (Slot \X (Node \cup {Null}))]
    BY <1>12 DEF Drain, TypeOK
  <2>. UNCHANGED <<nRec, owner, bFree, top, arrRetired, link, status, pc, alive, rec, ptr, guard, src, cur, idx, plist, hcur, own, todo, using, lost>>
    BY <1>12 DEF Drain
  <2>. QED
    BY <2>1, <2>2, <2>3 DEF TypeOK
<1>13. ASSUME NEW l \in Link, NEW n \in Node, Insert(t, l, n) PROVE TypeOK'
  <2>1. link' \in [Link -> Node \cup {Null}]
    BY <1>13 DEF Insert, TypeOK
  <2>2. status' \in [Node -> {"free", "linked", "unlinked", "retired"}]
    BY <1>13 DEF Insert, TypeOK
  <2>. UNCHANGED <<nRec, owner, bFree, hzp, top, arrRetired, pc, alive, rec, ptr, guard, src, pend, cur, idx, plist, hcur, own, todo, using, blockers, lost>>
    BY <1>13 DEF Insert
  <2>. QED
    BY <2>1, <2>2 DEF TypeOK
<1>14. ASSUME NEW l \in Link, Unlink(t, l) PROVE TypeOK'
  <2>a. link[l] \in Node
    BY <1>14 DEF Unlink, TypeOK
  <2>1. link' \in [Link -> Node \cup {Null}]
    BY <1>14, <2>a DEF Unlink, TypeOK
  <2>2. status' \in [Node -> {"free", "linked", "unlinked", "retired"}]
    BY <1>14, <2>a DEF Unlink, TypeOK
  <2>3. ptr' \in [Thread -> Node \cup {Null}]
    BY <1>14, <2>a DEF Unlink, TypeOK
  <2>4. pc' \in [Thread -> PC]
    BY <1>14, <2>a DEF Unlink, TypeOK, Goto, PC
  <2>. UNCHANGED <<nRec, owner, bFree, hzp, top, arrRetired, alive, rec, guard, src, pend, cur, idx, plist, hcur, own, todo, using, blockers, lost>>
    BY <1>14 DEF Unlink
  <2>. QED
    BY <2>1, <2>2, <2>3, <2>4 DEF TypeOK
<1>15. CASE RetirePtr(t)
  <2>a. rec[t] \in Rec
    BY <1>15, OwnsRecord DEF RetirePtr, At, HasRecord
  <2>b. ptr[t] \in Node
    BY <1>15 DEF RetirePtr, At, ILink
  <2>c. pc'[t] \in {"scan0", "idle"}
    BY <1>15 DEF RetirePtr, Goto, TypeOK
  <2>1. arrRetired' \in [Rec -> SUBSET Node]
    BY <1>15, <2>a, <2>b, <2>c DEF RetirePtr, TypeOK
  <2>2. status' \in [Node -> {"free", "linked", "unlinked", "retired"}]
    BY <1>15, <2>a, <2>b, <2>c DEF RetirePtr, TypeOK
  <2>3. blockers' \in [Node -> SUBSET Slot]
    BY <1>15, <2>a, <2>b, <2>c DEF RetirePtr, TypeOK
  <2>4. ptr' \in [Thread -> Node \cup {Null}]
    BY <1>15, <2>a, <2>b, <2>c DEF RetirePtr, TypeOK
  <2>5. pc' \in [Thread -> PC]
    BY <1>15, <2>a, <2>b, <2>c DEF RetirePtr, TypeOK, Goto, PC
  <2>. UNCHANGED <<nRec, owner, bFree, hzp, top, link, alive, rec, guard, src, pend, cur, idx, plist, hcur, own, todo, using, lost>>
    BY <1>15 DEF RetirePtr
  <2>. QED
    BY <2>1, <2>2, <2>3, <2>4, <2>5 DEF TypeOK
<1>16. CASE ScanHead(t)
  <2>z. 0 \in Idx /\ 0 \in 0..MaxRec
    BY BoundAssumption DEF Idx
  <2>1. cur' \in [Thread -> 0..MaxRec]
    BY <1>16, <2>z DEF ScanHead, TypeOK
  <2>2. idx' \in [Thread -> Idx]
    BY <1>16, <2>z DEF ScanHead, TypeOK
  <2>3. plist' \in [Thread -> SUBSET Node]
    BY <1>16, <2>z DEF ScanHead, TypeOK
  <2>4. pc' \in [Thread -> PC]
    BY <1>16, <2>z DEF ScanHead, TypeOK, Goto, PC
  <2>. UNCHANGED <<nRec, owner, bFree, hzp, top, arrRetired, link, status, alive, rec, ptr, guard, src, pend, hcur, own, todo, using, blockers, lost>>
    BY <1>16 DEF ScanHead
  <2>. QED
    BY <2>1, <2>2, <2>3, <2>4 DEF TypeOK
<1>17. CASE ScanSlot(t)
  <2>a. cur[t] \in Rec /\ cur[t] - 1 \in 0..MaxRec
    BY <1>17, OwnsRecord DEF ScanSlot, At
  <2>z. 0 \in Idx /\ 0 \in 0..MaxRec
    BY BoundAssumption DEF Idx
  <2>1. plist' \in [Thread -> SUBSET Node]
    BY <1>17, <2>a, <2>z DEF ScanSlot, TypeOK, SeenIn, Slot
  <2>2. cur' \in [Thread -> 0..MaxRec]
    BY <1>17, <2>a, <2>z DEF ScanSlot, TypeOK
  <2>3. idx' \in [Thread -> Idx]
    <3>1. CASE idx[t] + 1 < HPCount
      <4>1. idx[t] + 1 \in Idx /\ idx' = [idx EXCEPT ![t] = idx[t] + 1]
        BY <1>17, <3>1, BoundAssumption DEF ScanSlot, TypeOK, Idx
      <4> QED
        BY <4>1 DEF TypeOK
    <3>2. CASE ~(idx[t] + 1 < HPCount)
      <4>1. idx' = [idx EXCEPT ![t] = 0]
        BY <1>17, <3>2 DEF ScanSlot
      <4> QED
        BY <2>z, <4>1 DEF TypeOK
    <3> QED
      BY <3>1, <3>2
  <2>. UNCHANGED <<nRec, owner, bFree, hzp, top, arrRetired, link, status, pc, alive, rec, ptr, guard, src, pend, hcur, own, todo, using, blockers, lost>>
    BY <1>17 DEF ScanSlot
  <2>. QED
    BY <2>1, <2>2, <2>3 DEF TypeOK
<1>18. CASE Sweep(t)
  <2>a. rec[t] \in Rec
    BY <1>18, OwnsRecord DEF Sweep, At, HasRecord
  <2>1. arrRetired' \in [Rec -> SUBSET Node]
    BY <1>18, <2>a DEF Sweep, TypeOK, Deferred
  <2>2. status' \in [Node -> {"free", "linked", "unlinked", "retired"}]
    BY <1>18, <2>a DEF Sweep, TypeOK
  <2>3. plist' \in [Thread -> SUBSET Node]
    BY <1>18, <2>a DEF Sweep, TypeOK
  <2>4. pc' \in [Thread -> PC]
    BY <1>18, <2>a DEF Sweep, TypeOK, Goto, PC
  <2>. UNCHANGED <<nRec, owner, bFree, hzp, top, link, alive, rec, ptr, guard, src, pend, cur, idx, hcur, own, todo, using, blockers, lost>>
    BY <1>18 DEF Sweep
  <2>. QED
    BY <2>1, <2>2, <2>3, <2>4 DEF TypeOK
<1>19. CASE HelpHead(t)
  <2>1. hcur' \in [Thread -> 0..MaxRec]
    BY <1>19 DEF HelpHead, TypeOK
  <2>2. pc' \in [Thread -> PC]
    BY <1>19 DEF HelpHead, TypeOK, Goto, PC
  <2>l. lost' \in [Thread -> SUBSET Rec]
    BY <1>19 DEF HelpHead, Claim, TypeOK
  <2>. UNCHANGED <<nRec, owner, bFree, hzp, top, arrRetired, link, status, alive, rec, ptr, guard, src, pend, cur, idx, plist, own, todo, using, blockers>>
    BY <1>19 DEF HelpHead
  <2>. QED
    BY <2>l, <2>1, <2>2 DEF TypeOK
<1>20. CASE HelpRead(t)
  <2>a. hcur[t] \in Rec /\ hcur[t] - 1 \in 0..MaxRec
    BY <1>20, OwnsRecord DEF HelpRead, At, IOwner, OwnerOf
  <2>1. hcur' \in [Thread -> 0..MaxRec]
    BY <1>20, <2>a DEF HelpRead, TypeOK
  <2>2. pc' \in [Thread -> PC]
    BY <1>20, <2>a DEF HelpRead, TypeOK, Goto, PC
  <2>. UNCHANGED <<nRec, owner, bFree, hzp, top, arrRetired, link, status, alive, rec, ptr, guard, src, pend, cur, idx, plist, own, todo, using, blockers, lost>>
    BY <1>20 DEF HelpRead
  <2>. QED
    BY <2>1, <2>2 DEF TypeOK
<1>21. CASE HelpDone(t)
  <2>1. pc' \in [Thread -> PC]
    BY <1>21 DEF HelpDone, TypeOK, Goto, PC
  <2>l. lost' \in [Thread -> SUBSET Rec]
    BY <1>21 DEF HelpDone, Claim, TypeOK
  <2>. UNCHANGED <<nRec, owner, bFree, hzp, top, arrRetired, link, status, alive, rec, ptr, guard, src, pend, cur, idx, plist, hcur, own, todo, using, blockers>>
    BY <1>21 DEF HelpDone
  <2>. QED
    BY <2>l, <2>1 DEF TypeOK
<1>22. CASE HelpOwner(t)
  <2>a. owner[hcur[t]] \in Thread \cup {NoThread}
    BY <1>22, OwnsRecord DEF HelpOwner, At, IOwner, OwnerOf, TypeOK
  <2>1. own' \in [Thread -> Thread \cup {NoThread}]
    BY <1>22, <2>a DEF HelpOwner, TypeOK
  <2>2. pc' \in [Thread -> PC]
    BY <1>22, <2>a DEF HelpOwner, TypeOK, Goto, PC
  <2>. UNCHANGED <<nRec, owner, bFree, hzp, top, arrRetired, link, status, alive, rec, ptr, guard, src, pend, cur, idx, plist, hcur, todo, using, blockers, lost>>
    BY <1>22 DEF HelpOwner
  <2>. QED
    BY <2>1, <2>2 DEF TypeOK
<1>23. CASE HelpCas(t)
  <2>a. hcur[t] \in Rec /\ hcur[t] - 1 \in 0..MaxRec
    BY <1>23, OwnsRecord DEF HelpCas, At, IOwner, OwnerOf
  <2>1. owner' \in [Rec -> Thread \cup {NoThread}]
    BY <1>23, <2>a DEF HelpCas, TypeOK
  <2>2. todo' \in [Thread -> SUBSET Node]
    BY <1>23, <2>a DEF HelpCas, TypeOK
  <2>3. pc' \in [Thread -> PC]
    BY <1>23, <2>a DEF HelpCas, TypeOK, Goto, PC
  <2>4. hcur' \in [Thread -> 0..MaxRec]
    BY <1>23, <2>a DEF HelpCas, TypeOK
  <2>5. own' \in [Thread -> Thread \cup {NoThread}]
    BY <1>23, <2>a DEF HelpCas, TypeOK
  <2>l. lost' \in [Thread -> SUBSET Rec]
    BY <1>23 DEF HelpCas, Claim, TypeOK
  <2>. UNCHANGED <<nRec, bFree, hzp, top, arrRetired, link, status, alive, rec, ptr, guard, src, pend, cur, idx, plist, using, blockers>>
    BY <1>23 DEF HelpCas
  <2>. QED
    BY <2>l, <2>1, <2>2, <2>3, <2>4, <2>5 DEF TypeOK
<1>24. ASSUME NEW n \in Node, HelpMove(t, n) PROVE TypeOK'
  <2>a. rec[t] \in Rec
    BY <1>24, OwnsRecord DEF HelpMove, At, HasRecord
  <2>1. todo' \in [Thread -> SUBSET Node]
    BY <1>24, <2>a DEF HelpMove, TypeOK
  <2>2. arrRetired' \in [Rec -> SUBSET Node]
    BY <1>24, <2>a DEF HelpMove, TypeOK
  <2>3. pc' \in [Thread -> PC]
    BY <1>24, <2>a DEF HelpMove, TypeOK, Goto, PC
  <2>. UNCHANGED <<nRec, owner, bFree, hzp, top, link, status, alive, rec, ptr, guard, src, pend, cur, idx, plist, hcur, own, using, blockers, lost>>
    BY <1>24 DEF HelpMove
  <2>. QED
    BY <2>1, <2>2, <2>3 DEF TypeOK
<1>25. CASE HelpClear(t)
  <2>a. hcur[t] \in Rec /\ hcur[t] - 1 \in 0..MaxRec
    BY <1>25, OwnsRecord DEF HelpClear, At, IOwner, OwnerOf
  <2>1. arrRetired' \in [Rec -> SUBSET Node]
    BY <1>25, <2>a DEF HelpClear, TypeOK, Emptied
  <2>2. bFree' \in [Rec -> BOOLEAN]
    BY <1>25, <2>a DEF HelpClear, TypeOK
  <2>3. pc' \in [Thread -> PC]
    BY <1>25, <2>a DEF HelpClear, TypeOK, Goto, PC
  <2>. UNCHANGED <<nRec, owner, hzp, top, link, status, alive, rec, ptr, guard, src, pend, cur, idx, plist, hcur, own, todo, using, blockers, lost>>
    BY <1>25 DEF HelpClear
  <2>. QED
    BY <2>1, <2>2, <2>3 DEF TypeOK
<1>26. CASE HelpRelease(t)
  <2>a. hcur[t] \in Rec /\ hcur[t] - 1 \in 0..MaxRec
    BY <1>26, OwnsRecord DEF HelpRelease, At, IOwner, OwnerOf
  <2>1. owner' \in [Rec -> Thread \cup {NoThread}]
    BY <1>26, <2>a DEF HelpRelease, TypeOK
  <2>2. hcur' \in [Thread -> 0..MaxRec]
    BY <1>26, <2>a DEF HelpRelease, TypeOK
  <2>3. pc' \in [Thread -> PC]
    BY <1>26, <2>a DEF HelpRelease, TypeOK, Goto, PC
  <2>. UNCHANGED <<nRec, bFree, hzp, top, arrRetired, link, status, alive, rec, ptr, guard, src, pend, cur, idx, plist, own, todo, using, blockers, lost>>
    BY <1>26 DEF HelpRelease
  <2>. QED
    BY <2>1, <2>2, <2>3 DEF TypeOK
<1>27. ASSUME NEW i \in Idx, NEW j \in Idx, GuardCopy(t, i, j) PROVE TypeOK'
  <2>a. /\ rec[t] \in Rec /\ HasRecord(t) /\ pc[t] = "idle" /\ <<i, j>> \in Copies
        /\ top[rec[t]] <= i /\ top[rec[t]] <= j
    BY <1>27, OwnsRecord DEF GuardCopy, At, HasRecord
  <2> DEFINE s == <<rec[t], i>>
             d == <<rec[t], j>>
  <2>b. s \in Slot /\ d \in Slot /\ using[s] \in Node
    BY <1>27, <2>a DEF GuardCopy, Slot
  <2>e. ASSUME Fenced
        PROVE  /\ hzp' \in [Slot -> Node \cup {Null}] /\ blockers' \in [Node -> SUBSET Slot]
               /\ pend' \in [Thread -> {NoStore} \cup (Slot \X (Node \cup {Null}))]
    <3>1. /\ hzp' = [hzp EXCEPT ![d] = using[s]] /\ UNCHANGED pend
          /\ blockers' = [n \in Node |->
                IF n # using[s] THEN blockers[n] \ {d}
                ELSE IF s \in blockers[n] THEN blockers[n] \cup {d} ELSE blockers[n]]
      BY <1>27, <2>e DEF GuardCopy, R!Copy
    <3> QED
      BY <2>b, <3>1 DEF TypeOK
  <2>f. ASSUME ~Fenced
        PROVE  /\ hzp' \in [Slot -> Node \cup {Null}] /\ blockers' \in [Node -> SUBSET Slot]
               /\ pend' \in [Thread -> {NoStore} \cup (Slot \X (Node \cup {Null}))]
    <3>1. pend' = [pend EXCEPT ![t] = <<d, using[s]>>] /\ UNCHANGED <<hzp, blockers>>
      BY <1>27, <2>f DEF GuardCopy
    <3> QED
      BY <2>b, <3>1 DEF TypeOK
  <2>1. using' \in [Slot -> Node \cup {Null}]
    BY <1>27, <2>b DEF GuardCopy, R!Copy, TypeOK
  <2>. UNCHANGED <<nRec, owner, bFree, top, arrRetired, link, status, pc, alive, rec, ptr, guard, src, cur, idx, plist, hcur, own, todo, lost>>
    BY <1>27 DEF GuardCopy, R!Copy
  <2>. QED
    BY <2>e, <2>f, <2>1 DEF TypeOK
<1> QED
  BY <1>1, <1>2, <1>3, <1>4, <1>5, <1>6, <1>7, <1>8, <1>9, <1>10, <1>11, <1>12, <1>13, <1>14, <1>15, <1>16, <1>17, <1>18, <1>19, <1>20, <1>21, <1>22, <1>23, <1>24, <1>25, <1>26, <1>27 DEF Step, PlainStep, Copying, Attaching, Guarding, Scanning, Helping, Mutating

\* Every step keeps who owns which record: the CAS on m_idOwner in
\* AllocateHPRec and HelpScan hands a record to one thread at a time.
LEMMA StepOwner == TypeOK /\ IOwner /\ Next => IOwner'
<1> SUFFICES ASSUME TypeOK, IOwner, NEW t \in Thread, Step(t), NEW u \in Thread PROVE OwnerOf(u)'
  BY DEF Next, IOwner
<1>o. OwnerOf(t) /\ OwnerOf(u)
  BY DEF IOwner
<1>r. /\ \A v \in {t, u} : HasRecord(v) => rec[v] \in Rec
      /\ \A v \in {t, u} : hcur[v] # 0 => hcur[v] \in Rec
      /\ \A v \in {t, u} : cur[v] # 0 => cur[v] \in Rec
  BY OwnsRecord
<1> USE DEF recVars, heapVars, hazVars, derefVars, scanVars, helpVars
<1>1. CASE AttachBegin(t)
  BY <1>1, <1>o, <1>r, NoThreadAssumption DEF AttachBegin, OwnerOf, Adopting, HasRecord, At, Goto, TypeOK, StoreSlot
<1>2. CASE AttachTry(t)
  <2>1. cur[t] \in Rec /\ cur[t] \in 1..nRec /\ cur[t] - 1 \in 0..nRec
    <3>1. cur[t] > 0 /\ cur[t] \in Nat /\ nRec \in Nat
      BY <1>2 DEF AttachTry, TypeOK
    <3>2. cur[t] <= nRec
      BY <1>o DEF OwnerOf
    <3>3. cur[t] \in Rec
      BY <1>r, <3>1
    <3> QED
      BY <3>1, <3>2, <3>3
  <2>2. CASE owner[cur[t]] = NoThread
    <3>1. /\ owner' = [owner EXCEPT ![cur[t]] = t] /\ rec' = [rec EXCEPT ![t] = cur[t]]
          /\ cur' = [cur EXCEPT ![t] = 0] /\ pc' = [pc EXCEPT ![t] = "attachSet"]
          /\ UNCHANGED <<nRec, alive, pend, hcur, own>>
      BY <1>2, <2>2 DEF AttachTry, Goto
    <3>2. CASE u = t
      BY <1>2, <1>o, <2>1, <3>1, <3>2 DEF OwnerOf, Adopting, HasRecord, At, Goto, TypeOK, AttachTry
    <3>3. CASE u # t
      BY <1>o, <1>r, <2>1, <2>2, <3>1, <3>3, NoThreadAssumption DEF OwnerOf, Adopting, HasRecord, At, Goto, TypeOK
    <3> QED
      BY <3>2, <3>3
  <2>3. CASE owner[cur[t]] # NoThread
    <3>1. cur' = [cur EXCEPT ![t] = cur[t] - 1] /\ UNCHANGED <<nRec, owner, rec, pc, alive, pend, hcur, own>>
      BY <1>2, <2>3 DEF AttachTry
    <3> QED
      BY <1>o, <2>1, <3>1 DEF OwnerOf, Adopting, HasRecord, At, Goto, TypeOK
  <2> QED
    BY <2>2, <2>3
<1>3. CASE AttachSet(t)
  BY <1>3, <1>o, <1>r, NoThreadAssumption DEF AttachSet, OwnerOf, Adopting, HasRecord, At, Goto, TypeOK, StoreSlot
<1>4. CASE AttachNew(t)
  <2>1. nRec \in Nat /\ nRec + 1 \in Rec /\ rec[u] \in Nat /\ hcur[u] \in Nat /\ cur[u] \in Nat
    BY <1>4, BoundAssumption DEF AttachNew, TypeOK, Rec
  <2>2. /\ nRec' = nRec + 1 /\ owner' = [owner EXCEPT ![nRec + 1] = t]
        /\ rec' = [rec EXCEPT ![t] = nRec + 1] /\ pc' = [pc EXCEPT ![t] = "idle"]
        /\ UNCHANGED <<alive, pend, hcur, cur, own>>
    BY <1>4 DEF AttachNew, Goto
  <2>3. CASE u = t
    BY <1>4, <1>o, <2>1, <2>2, <2>3 DEF OwnerOf, Adopting, HasRecord, At, Goto, TypeOK, AttachNew
  <2>4. CASE u # t
    <3>1. hcur[u] # nRec + 1 /\ (HasRecord(u) => rec[u] # nRec + 1)
      BY <1>o, <2>1 DEF OwnerOf
    <3>2. nRec + 1 >= nRec /\ \A k \in Nat : k <= nRec => k <= nRec + 1
      BY <2>1
    <3>3. UNCHANGED <<rec[u], hcur[u], cur[u], pc[u], own[u], alive[u], pend[u]>>
      BY <2>2, <2>4 DEF TypeOK
    <3>4. (rec[u] \in Rec /\ rec[u] # nRec + 1 => owner'[rec[u]] = owner[rec[u]])
          /\ (hcur[u] \in Rec /\ hcur[u] # nRec + 1 => owner'[hcur[u]] = owner[hcur[u]])
      BY <2>2 DEF TypeOK
    <3>5. hcur'[u] <= nRec' /\ cur'[u] <= nRec'
      BY <1>o, <2>1, <2>2, <3>3 DEF OwnerOf
    <3>6. HasRecord(u)' => rec'[u] \in 1..nRec' /\ owner'[rec'[u]] = u
      BY <1>o, <1>r, <2>1, <2>2, <3>1, <3>3, <3>4 DEF OwnerOf, HasRecord
    <3>7. Adopting(u)' => owner'[hcur'[u]] = u /\ hcur'[u] # rec'[u]
      BY <1>o, <1>r, <3>1, <3>3, <3>4 DEF OwnerOf, Adopting
    <3>8. own'[u] = NoThread \/ ~alive'[own'[u]] \/ ~(own[u] = NoThread \/ ~alive[own[u]])
      BY <2>2
    <3> QED
      BY <1>o, <3>3, <3>5, <3>6, <3>7, <3>8 DEF OwnerOf
  <2> QED
    BY <2>3, <2>4
<1>5. CASE Detach(t)
  BY <1>5, <1>o, <1>r, NoThreadAssumption DEF Detach, OwnerOf, Adopting, HasRecord, At, Goto, TypeOK, StoreSlot
<1>6. CASE Die(t)
  BY <1>6, <1>o, <1>r, NoThreadAssumption DEF Die, OwnerOf, Adopting, HasRecord, At, Goto, TypeOK, StoreSlot
<1>7. CASE GuardAlloc(t)
  BY <1>7, <1>o, <1>r, NoThreadAssumption DEF GuardAlloc, OwnerOf, Adopting, HasRecord, At, Goto, TypeOK, StoreSlot
<1>8. CASE GuardFree(t)
  BY <1>8, <1>o, <1>r, NoThreadAssumption DEF GuardFree, OwnerOf, Adopting, HasRecord, At, Goto, TypeOK, StoreSlot
<1>9. ASSUME NEW i \in Idx, NEW l \in Link, Deref(t, i, l) PROVE OwnerOf(u)'
  BY <1>9, <1>o, <1>r, NoThreadAssumption DEF Deref, OwnerOf, Adopting, HasRecord, At, Goto, TypeOK, StoreSlot
<1>10. CASE StoreHP(t)
  BY <1>10, <1>o, <1>r, NoThreadAssumption DEF StoreHP, OwnerOf, Adopting, HasRecord, At, Goto, TypeOK, StoreSlot
<1>11. CASE CheckLink(t)
  BY <1>11, <1>o, <1>r, NoThreadAssumption DEF CheckLink, OwnerOf, Adopting, HasRecord, At, Goto, TypeOK, StoreSlot
<1>12. CASE Drain(t)
  BY <1>12, <1>o, <1>r, NoThreadAssumption DEF Drain, OwnerOf, Adopting, HasRecord, At, Goto, TypeOK, StoreSlot
<1>13. ASSUME NEW l \in Link, NEW n \in Node, Insert(t, l, n) PROVE OwnerOf(u)'
  BY <1>13, <1>o, <1>r, NoThreadAssumption DEF Insert, OwnerOf, Adopting, HasRecord, At, Goto, TypeOK, StoreSlot
<1>14. ASSUME NEW l \in Link, Unlink(t, l) PROVE OwnerOf(u)'
  BY <1>14, <1>o, <1>r, NoThreadAssumption DEF Unlink, OwnerOf, Adopting, HasRecord, At, Goto, TypeOK, StoreSlot
<1>15. CASE RetirePtr(t)
  BY <1>15, <1>o, <1>r, NoThreadAssumption DEF RetirePtr, OwnerOf, Adopting, HasRecord, At, Goto, TypeOK, StoreSlot
<1>16. CASE ScanHead(t)
  BY <1>16, <1>o, <1>r, NoThreadAssumption DEF ScanHead, OwnerOf, Adopting, HasRecord, At, Goto, TypeOK, StoreSlot
<1>17. CASE ScanSlot(t)
  <2>1. cur[t] - 1 \in Nat /\ cur[t] - 1 <= nRec
    BY <1>17, <1>o, OwnsRecord DEF ScanSlot, OwnerOf, TypeOK, Rec
  <2>2. cur' = [cur EXCEPT ![t] = cur[t] - 1] \/ cur' = cur
    BY <1>17 DEF ScanSlot
  <2>3. UNCHANGED <<nRec, owner, rec, pc, alive, pend, hcur, own>>
    BY <1>17 DEF ScanSlot
  <2> QED
    BY <1>o, <2>1, <2>2, <2>3 DEF OwnerOf, Adopting, HasRecord, At, Goto, TypeOK
<1>18. CASE Sweep(t)
  BY <1>18, <1>o, <1>r, NoThreadAssumption DEF Sweep, OwnerOf, Adopting, HasRecord, At, Goto, TypeOK, StoreSlot
<1>19. CASE HelpHead(t)
  BY <1>19, <1>o, <1>r, NoThreadAssumption DEF HelpHead, OwnerOf, Adopting, HasRecord, At, Goto, TypeOK, StoreSlot
<1>20. CASE HelpRead(t)
  <2>1. hcur[t] - 1 \in Nat /\ hcur[t] - 1 <= nRec
    BY <1>20, <1>o, OwnsRecord DEF HelpRead, OwnerOf, TypeOK, Rec
  <2>2. \/ hcur' = [hcur EXCEPT ![t] = hcur[t] - 1] /\ pc' = pc
        \/ hcur' = hcur /\ pc' = [pc EXCEPT ![t] = "helpOwner"]
    BY <1>20 DEF HelpRead, Goto
  <2>3. UNCHANGED <<nRec, owner, rec, alive, pend, cur, own>>
    BY <1>20 DEF HelpRead
  <2> QED
    BY <1>20, <1>o, <2>1, <2>2, <2>3 DEF OwnerOf, Adopting, HasRecord, At, Goto, TypeOK, HelpRead
<1>21. CASE HelpDone(t)
  BY <1>21, <1>o, <1>r, NoThreadAssumption DEF HelpDone, OwnerOf, Adopting, HasRecord, At, Goto, TypeOK, StoreSlot
<1>22. CASE HelpOwner(t)
  <2>1. own' = [own EXCEPT ![t] = own'[t]] /\ (own'[t] = NoThread \/ ~alive[own'[t]])
    BY <1>22 DEF HelpOwner, Orphaned, TypeOK
  <2>2. pc' = [pc EXCEPT ![t] = "helpCas"] /\ UNCHANGED <<nRec, owner, rec, alive, pend, cur, hcur>>
    BY <1>22 DEF HelpOwner, Goto
  <2>3. CASE u = t
    BY <1>22, <1>o, <2>1, <2>2, <2>3 DEF OwnerOf, Adopting, HasRecord, At, Goto, TypeOK, HelpOwner
  <2>4. CASE u # t
    <3>1. pc'[u] = pc[u] /\ own'[u] = own[u]
      BY <2>1, <2>2, <2>4 DEF TypeOK
    <3> QED
      BY <1>o, <2>2, <3>1 DEF OwnerOf, Adopting, HasRecord
  <2> QED
    BY <2>3, <2>4
<1>23. CASE HelpCas(t)
  <2>1. /\ hcur[t] # 0 /\ hcur[t] \in Rec /\ hcur[t] <= nRec
        /\ hcur[t] - 1 \in Nat /\ hcur[t] - 1 <= nRec
    BY <1>23, <1>o, OwnsRecord, SMTT(20) DEF HelpCas, At, OwnerOf, TypeOK, Rec
  <2>2. UNCHANGED <<nRec, rec, alive, pend, cur>> /\ own' = [own EXCEPT ![t] = NoThread]
    BY <1>23 DEF HelpCas
  <2>3. alive[t] /\ pc[t] = "helpCas"
    BY <1>23 DEF HelpCas, At
  <2>4. CASE owner[hcur[t]] = own[t]
    <3>1. /\ owner' = [owner EXCEPT ![hcur[t]] = t] /\ hcur' = hcur
          /\ pc' = [pc EXCEPT ![t] = "move"]
      BY <1>23, <2>4 DEF HelpCas, Goto
    <3>2. \A v \in Thread : alive[v] => owner[hcur[t]] # v
      BY <1>o, <2>3, <2>4, NoThreadAssumption DEF OwnerOf
    <3>3. CASE u = t
      <4>1. hcur[t] # rec[t]
        BY <1>o, <2>3, <3>2 DEF OwnerOf, HasRecord
      <4> QED
        BY <1>o, <1>r, <2>1, <2>2, <2>3, <3>1, <3>3, <4>1 DEF OwnerOf, Adopting, HasRecord, At, Goto, TypeOK
    <3>4. CASE u # t
      <4>1. UNCHANGED <<rec[u], hcur[u], cur[u], pc[u], own[u], alive[u], pend[u]>>
        BY <2>2, <3>1, <3>4 DEF TypeOK
      <4>2. HasRecord(u) => rec[u] # hcur[t] /\ owner'[rec[u]] = u
        BY <1>o, <1>r, <3>1, <3>2, <3>4 DEF OwnerOf, HasRecord, TypeOK
      <4>3. Adopting(u) => hcur[u] # hcur[t] /\ owner'[hcur[u]] = u
        <5>1. Adopting(u) => alive[u]
          BY <1>o DEF OwnerOf, Adopting
        <5> QED
          BY <1>o, <1>r, <3>1, <3>2, <5>1 DEF OwnerOf, Adopting, TypeOK
      <4> QED
        BY <1>o, <2>2, <4>1, <4>2, <4>3 DEF OwnerOf, HasRecord, Adopting
    <3> QED
      BY <3>3, <3>4
  <2>5. CASE owner[hcur[t]] # own[t]
    <3>1. /\ hcur' = [hcur EXCEPT ![t] = hcur[t] - 1] /\ owner' = owner
          /\ pc' = [pc EXCEPT ![t] = "help"]
      BY <1>23, <2>5 DEF HelpCas, Goto
    <3> QED
      BY <1>o, <2>1, <2>2, <2>3, <3>1 DEF OwnerOf, Adopting, HasRecord, At, Goto, TypeOK
  <2> QED
    BY <2>4, <2>5
<1>24. ASSUME NEW n \in Node, HelpMove(t, n) PROVE OwnerOf(u)'
  BY <1>24, <1>o, <1>r, NoThreadAssumption DEF HelpMove, OwnerOf, Adopting, HasRecord, At, Goto, TypeOK, StoreSlot
<1>25. CASE HelpClear(t)
  BY <1>25, <1>o, <1>r, NoThreadAssumption DEF HelpClear, OwnerOf, Adopting, HasRecord, At, Goto, TypeOK, StoreSlot
<1>26. CASE HelpRelease(t)
  BY <1>26, <1>o, <1>r, NoThreadAssumption DEF HelpRelease, OwnerOf, Adopting, HasRecord, At, Goto, TypeOK, StoreSlot
<1>27. ASSUME NEW i \in Idx, NEW j \in Idx, GuardCopy(t, i, j) PROVE OwnerOf(u)'
  BY <1>27, <1>o, <1>r DEF GuardCopy, OwnerOf, Adopting, HasRecord, At
<1> QED
  BY <1>1, <1>2, <1>3, <1>4, <1>5, <1>6, <1>7, <1>8, <1>9, <1>10, <1>11, <1>12, <1>13, <1>14, <1>15, <1>16, <1>17, <1>18, <1>19, <1>20, <1>21, <1>22, <1>23, <1>24, <1>25, <1>26, <1>27 DEF Step, PlainStep, Copying, Attaching, Guarding, Scanning, Helping, Mutating

\* What waits in a record depends only on its owner, on that thread's adoption
\* and on the array.
LEMMA PendingSame ==
  ASSUME NEW r \in Rec, owner'[r] = owner[r], Adopted(r)' <=> Adopted(r),
         Adopted(r) => todo'[owner[r]] = todo[owner[r]],
         ~Adopted(r) => arrRetired'[r] = arrRetired[r]
  PROVE  Pending(r)' = Pending(r)
BY DEF Pending

\* What waits in a record is a set of nodes.
LEMMA PendingNode ==
  ASSUME TypeOK, NEW r \in Rec
  PROVE  Pending(r) \subseteq Node
BY DEF Pending, Adopted, TypeOK

\* What a step may do to the retired pointers that wait: nothing; retirePtr adds one
\* to the thread's array; Scan keeps those that were seen; HelpScan moves one.
PendingKept ==
    /\ \A r \in Rec : Pending(r)' = Pending(r)
    /\ \A n \in Node : status'[n] = "retired" <=> status[n] = "retired"
PendingAdded(t) ==
    /\ RetirePtr(t)
    /\ rec[t] \in Rec /\ ptr[t] \in Node /\ status[ptr[t]] = "unlinked"
    /\ \A r \in Rec : Pending(r)' = IF r = rec[t] THEN Pending(r) \cup {ptr[t]} ELSE Pending(r)
PendingSwept(t) ==
    /\ Sweep(t)
    /\ rec[t] \in Rec /\ Pending(rec[t]) = arrRetired[rec[t]]
    /\ \A r \in Rec : Pending(r)' = IF r = rec[t] THEN Deferred(t) ELSE Pending(r)
PendingMoved(t, n) ==
    /\ HelpMove(t, n)
    /\ rec[t] \in Rec /\ hcur[t] \in Rec /\ hcur[t] # rec[t] /\ n \in Pending(hcur[t])
    /\ \A r \in Rec : Pending(r)' = IF r = rec[t] THEN Pending(r) \cup {n}
                                    ELSE IF r = hcur[t] THEN Pending(r) \ {n} ELSE Pending(r)

LEMMA StepPending ==
  ASSUME TypeOK, IOwner, IHome, ILink, NEW t \in Thread, Step(t)
  PROVE  PendingKept \/ PendingAdded(t) \/ PendingSwept(t) \/ \E n \in Node : PendingMoved(t, n)
<1>o. OwnerOf(t) /\ (HasRecord(t) => rec[t] \in Rec) /\ (hcur[t] # 0 => hcur[t] \in Rec)
  BY OwnsRecord DEF IOwner
<1> USE DEF recVars, heapVars, hazVars, derefVars, scanVars, helpVars
<1>1. CASE AttachBegin(t)
  <2>1. \A r \in Rec : Pending(r)' = Pending(r)
    BY <1>1, <1>o, NoThreadAssumption DEF AttachBegin, Pending, Adopted, Adopting, At, Goto, TypeOK, OwnerOf, HasRecord
  <2>2. UNCHANGED status
    BY <1>1 DEF AttachBegin
  <2> QED
    BY <2>1, <2>2 DEF PendingKept
<1>2. CASE AttachTry(t)
  <2>1. \A r \in Rec : Pending(r)' = Pending(r)
    <3>1. ~Adopting(t) /\ (\A v \in Thread : Adopting(v)' <=> Adopting(v))
      BY <1>2, <1>o DEF AttachTry, Adopting, At, Goto, OwnerOf, TypeOK
    <3>2. UNCHANGED <<hcur, todo, arrRetired>>
      BY <1>2 DEF AttachTry
    <3>3. CASE owner[cur[t]] = NoThread
      <4>1. owner' = [owner EXCEPT ![cur[t]] = t]
        BY <1>2, <3>3 DEF AttachTry
      <4> QED
        BY <3>1, <3>2, <3>3, <4>1, NoThreadAssumption DEF Pending, Adopted, TypeOK
    <3>4. CASE owner[cur[t]] # NoThread
      <4>1. owner' = owner
        BY <1>2, <3>4 DEF AttachTry
      <4> QED
        BY <3>1, <3>2, <4>1, NoThreadAssumption DEF Pending, Adopted, TypeOK
    <3> QED
      BY <3>3, <3>4
  <2>2. UNCHANGED status
    BY <1>2 DEF AttachTry
  <2> QED
    BY <2>1, <2>2 DEF PendingKept
<1>3. CASE AttachSet(t)
  <2>1. \A r \in Rec : Pending(r)' = Pending(r)
    BY <1>3, <1>o, NoThreadAssumption DEF AttachSet, Pending, Adopted, Adopting, At, Goto, TypeOK, OwnerOf, HasRecord
  <2>2. UNCHANGED status
    BY <1>3 DEF AttachSet
  <2> QED
    BY <2>1, <2>2 DEF PendingKept
<1>4. CASE AttachNew(t)
  <2>1. \A r \in Rec : Pending(r)' = Pending(r)
    <3>1. nRec + 1 \in Rec /\ nRec \in Nat
      BY <1>4, BoundAssumption DEF AttachNew, TypeOK, Rec
    <3>2. \A v \in Thread : Adopting(v) => hcur[v] # nRec + 1
      BY <3>1 DEF IOwner, OwnerOf, TypeOK
    <3>3. ~Adopting(t) /\ \A v \in Thread : Adopting(v)' <=> Adopting(v)
      BY <1>4, <1>o DEF AttachNew, Adopting, At, Goto, OwnerOf, TypeOK
    <3>4. owner' = [owner EXCEPT ![nRec + 1] = t] /\ UNCHANGED <<hcur, todo, arrRetired>>
      BY <1>4 DEF AttachNew
    <3> QED
      BY <3>1, <3>2, <3>3, <3>4 DEF Pending, Adopted, TypeOK
  <2>2. UNCHANGED status
    BY <1>4 DEF AttachNew
  <2> QED
    BY <2>1, <2>2 DEF PendingKept
<1>5. CASE Detach(t)
  <2>1. \A r \in Rec : Pending(r)' = Pending(r)
    BY <1>5, <1>o, NoThreadAssumption DEF Detach, Pending, Adopted, Adopting, At, Goto, TypeOK, OwnerOf, HasRecord
  <2>2. UNCHANGED status
    BY <1>5 DEF Detach
  <2> QED
    BY <2>1, <2>2 DEF PendingKept
<1>6. CASE Die(t)
  <2>1. \A r \in Rec : Pending(r)' = Pending(r)
    BY <1>6, <1>o, NoThreadAssumption DEF Die, Pending, Adopted, Adopting, At, Goto, TypeOK, OwnerOf, HasRecord
  <2>2. UNCHANGED status
    BY <1>6 DEF Die
  <2> QED
    BY <2>1, <2>2 DEF PendingKept
<1>7. CASE GuardAlloc(t)
  <2>1. \A r \in Rec : Pending(r)' = Pending(r)
    BY <1>7, <1>o, NoThreadAssumption DEF GuardAlloc, Pending, Adopted, Adopting, At, Goto, TypeOK, OwnerOf, HasRecord
  <2>2. UNCHANGED status
    BY <1>7 DEF GuardAlloc
  <2> QED
    BY <2>1, <2>2 DEF PendingKept
<1>8. CASE GuardFree(t)
  <2>1. \A r \in Rec : Pending(r)' = Pending(r)
    BY <1>8, <1>o, NoThreadAssumption DEF GuardFree, Pending, Adopted, Adopting, At, Goto, TypeOK, OwnerOf, HasRecord
  <2>2. UNCHANGED status
    BY <1>8 DEF GuardFree
  <2> QED
    BY <2>1, <2>2 DEF PendingKept
<1>9. ASSUME NEW i \in Idx, NEW l \in Link, Deref(t, i, l) PROVE PendingKept
  <2>1. \A r \in Rec : Pending(r)' = Pending(r)
    BY <1>9, <1>o, NoThreadAssumption DEF Deref, Pending, Adopted, Adopting, At, Goto, TypeOK, OwnerOf, HasRecord
  <2>2. UNCHANGED status
    BY <1>9 DEF Deref
  <2> QED
    BY <2>1, <2>2 DEF PendingKept
<1>10. CASE StoreHP(t)
  <2>1. \A r \in Rec : Pending(r)' = Pending(r)
    BY <1>10, <1>o, NoThreadAssumption DEF StoreHP, Pending, Adopted, Adopting, At, Goto, TypeOK, OwnerOf, HasRecord
  <2>2. UNCHANGED status
    BY <1>10 DEF StoreHP
  <2> QED
    BY <2>1, <2>2 DEF PendingKept
<1>11. CASE CheckLink(t)
  <2>1. \A r \in Rec : Pending(r)' = Pending(r)
    BY <1>11, <1>o, NoThreadAssumption DEF CheckLink, Pending, Adopted, Adopting, At, Goto, TypeOK, OwnerOf, HasRecord
  <2>2. UNCHANGED status
    BY <1>11 DEF CheckLink
  <2> QED
    BY <2>1, <2>2 DEF PendingKept
<1>12. CASE Drain(t)
  <2>1. \A r \in Rec : Pending(r)' = Pending(r)
    BY <1>12, <1>o, NoThreadAssumption DEF Drain, Pending, Adopted, Adopting, At, Goto, TypeOK, OwnerOf, HasRecord
  <2>2. UNCHANGED status
    BY <1>12 DEF Drain
  <2> QED
    BY <2>1, <2>2 DEF PendingKept
<1>13. ASSUME NEW l \in Link, NEW n \in Node, Insert(t, l, n) PROVE PendingKept
  <2>1. \A r \in Rec : Pending(r)' = Pending(r)
    BY <1>13, <1>o, NoThreadAssumption DEF Insert, Pending, Adopted, Adopting, At, Goto, TypeOK, OwnerOf, HasRecord
  <2>2. \A m \in Node : status'[m] = "retired" <=> status[m] = "retired"
    BY <1>13 DEF Insert, ILink, TypeOK
  <2> QED
    BY <2>1, <2>2 DEF PendingKept
<1>14. ASSUME NEW l \in Link, Unlink(t, l) PROVE PendingKept
  <2>1. \A r \in Rec : Pending(r)' = Pending(r)
    BY <1>14, <1>o, NoThreadAssumption DEF Unlink, Pending, Adopted, Adopting, At, Goto, TypeOK, OwnerOf, HasRecord
  <2>2. \A m \in Node : status'[m] = "retired" <=> status[m] = "retired"
    BY <1>14 DEF Unlink, ILink, TypeOK
  <2> QED
    BY <2>1, <2>2 DEF PendingKept
<1>15. ASSUME RetirePtr(t) PROVE PendingAdded(t)
  <2>1. /\ rec[t] \in Rec /\ owner[rec[t]] = t /\ ~Adopting(t) /\ pc[t] = "retire"
        /\ ptr[t] \in Node /\ status[ptr[t]] = "unlinked"
    BY <1>15, <1>o DEF RetirePtr, At, OwnerOf, HasRecord, Adopting, ILink
  <2>2. /\ arrRetired' = [arrRetired EXCEPT ![rec[t]] = arrRetired[rec[t]] \cup {ptr[t]}]
        /\ status' = [status EXCEPT ![ptr[t]] = "retired"] /\ UNCHANGED <<owner, hcur, todo>>
        /\ \A v \in Thread : v # t => pc'[v] = pc[v]
    BY <1>15 DEF RetirePtr, Goto, TypeOK
  <2>3. ~Adopting(t)' /\ pc'[t] # "release"
    BY <1>15, <1>o, <2>1 DEF RetirePtr, OwnerOf, Adopting, Goto, TypeOK
  <2>4. ASSUME NEW r \in Rec, r = rec[t] PROVE Pending(r)' = Pending(r) \cup {ptr[t]}
    BY <2>1, <2>2, <2>3, <2>4 DEF Pending, Adopted, TypeOK
  <2>5. ASSUME NEW r \in Rec, r # rec[t] PROVE Pending(r)' = Pending(r)
    <3>1. owner'[r] = owner[r] /\ arrRetired'[r] = arrRetired[r]
      BY <2>1, <2>2, <2>5 DEF TypeOK
    <3>2. Adopted(r)' <=> Adopted(r)
      BY <2>1, <2>2, <2>3, <2>5, <3>1 DEF Adopted, Adopting, TypeOK
    <3>3. Adopted(r) => todo'[owner[r]] = todo[owner[r]]
      BY <2>2, <2>5 DEF Adopted, TypeOK
    <3> QED
      BY <3>1, <3>2, <3>3, PendingSame
  <2> QED
    BY <1>15, <2>1, <2>4, <2>5 DEF PendingAdded
<1>16. CASE ScanHead(t)
  <2>1. \A r \in Rec : Pending(r)' = Pending(r)
    BY <1>16, <1>o, NoThreadAssumption DEF ScanHead, Pending, Adopted, Adopting, At, Goto, TypeOK, OwnerOf, HasRecord
  <2>2. UNCHANGED status
    BY <1>16 DEF ScanHead
  <2> QED
    BY <2>1, <2>2 DEF PendingKept
<1>17. CASE ScanSlot(t)
  <2>1. \A r \in Rec : Pending(r)' = Pending(r)
    BY <1>17, <1>o, NoThreadAssumption DEF ScanSlot, Pending, Adopted, Adopting, At, Goto, TypeOK, OwnerOf, HasRecord
  <2>2. UNCHANGED status
    BY <1>17 DEF ScanSlot
  <2> QED
    BY <2>1, <2>2 DEF PendingKept
<1>18. ASSUME Sweep(t) PROVE PendingSwept(t)
  <2>1. /\ rec[t] \in Rec /\ owner[rec[t]] = t /\ pc[t] = "scan"
        /\ Adopting(t) => hcur[t] # rec[t]
    BY <1>18, <1>o DEF Sweep, At, OwnerOf, HasRecord
  <2>2. /\ arrRetired' = [arrRetired EXCEPT ![rec[t]] = Deferred(t)]
        /\ status' = [n \in Node |-> IF n \in Unguarded(t) THEN "free" ELSE status[n]]
        /\ UNCHANGED <<owner, hcur, todo>>
        /\ \A v \in Thread : v # t => pc'[v] = pc[v]
    BY <1>18 DEF Sweep, Goto, TypeOK
  <2>3. (Adopting(t)' <=> Adopting(t)) /\ pc'[t] # "release"
    BY <1>18, <2>1 DEF Sweep, Adopting, Goto, TypeOK
  <2>4. ASSUME NEW r \in Rec, r = rec[t]
        PROVE  Pending(r)' = Deferred(t) /\ Pending(r) = arrRetired[rec[t]]
    <3>1. ~Adopted(r) /\ ~Adopted(r)'
      BY <2>1, <2>2, <2>3, <2>4 DEF Adopted
    <3> QED
      BY <2>1, <2>2, <2>4, <3>1 DEF Pending, TypeOK
  <2>5. ASSUME NEW r \in Rec, r # rec[t] PROVE Pending(r)' = Pending(r)
    <3>1. owner'[r] = owner[r] /\ arrRetired'[r] = arrRetired[r]
      BY <2>1, <2>2, <2>5 DEF TypeOK
    <3>2. Adopted(r)' <=> Adopted(r)
      BY <2>1, <2>2, <2>3, <2>5, <3>1 DEF Adopted, Adopting, TypeOK
    <3>3. Adopted(r) => todo'[owner[r]] = todo[owner[r]]
      BY <2>2, <2>5 DEF Adopted, TypeOK
    <3> QED
      BY <3>1, <3>2, <3>3, PendingSame
  <2> QED
    BY <1>18, <2>1, <2>4, <2>5 DEF PendingSwept
<1>19. CASE HelpHead(t)
  <2>1. \A r \in Rec : Pending(r)' = Pending(r)
    BY <1>19, <1>o, NoThreadAssumption DEF HelpHead, Pending, Adopted, Adopting, At, Goto, TypeOK, OwnerOf, HasRecord
  <2>2. UNCHANGED status
    BY <1>19 DEF HelpHead
  <2> QED
    BY <2>1, <2>2 DEF PendingKept
<1>20. CASE HelpRead(t)
  <2>1. \A r \in Rec : Pending(r)' = Pending(r)
    BY <1>20, <1>o, NoThreadAssumption DEF HelpRead, Pending, Adopted, Adopting, At, Goto, TypeOK, OwnerOf, HasRecord
  <2>2. UNCHANGED status
    BY <1>20 DEF HelpRead
  <2> QED
    BY <2>1, <2>2 DEF PendingKept
<1>21. CASE HelpDone(t)
  <2>1. \A r \in Rec : Pending(r)' = Pending(r)
    BY <1>21, <1>o, NoThreadAssumption DEF HelpDone, Pending, Adopted, Adopting, At, Goto, TypeOK, OwnerOf, HasRecord
  <2>2. UNCHANGED status
    BY <1>21 DEF HelpDone
  <2> QED
    BY <2>1, <2>2 DEF PendingKept
<1>22. CASE HelpOwner(t)
  <2>1. \A r \in Rec : Pending(r)' = Pending(r)
    BY <1>22, <1>o, NoThreadAssumption DEF HelpOwner, Pending, Adopted, Adopting, At, Goto, TypeOK, OwnerOf, HasRecord
  <2>2. UNCHANGED status
    BY <1>22 DEF HelpOwner
  <2> QED
    BY <2>1, <2>2 DEF PendingKept
<1>23. CASE HelpCas(t)
  <2>1. \A r \in Rec : Pending(r)' = Pending(r)
    <3>1. hcur[t] \in Rec /\ alive[t] /\ pc[t] = "helpCas"
      BY <1>23, <1>o DEF HelpCas, At, OwnerOf
    <3>2. CASE owner[hcur[t]] = own[t]
      <4>1. /\ owner' = [owner EXCEPT ![hcur[t]] = t] /\ pc' = [pc EXCEPT ![t] = "move"]
            /\ todo' = [todo EXCEPT ![t] = arrRetired[hcur[t]]] /\ UNCHANGED <<hcur, arrRetired>>
        BY <1>23, <3>2 DEF HelpCas, Goto
      <4>2. ~Adopted(hcur[t])
        BY <1>o, <3>1, <3>2 DEF IOwner, OwnerOf, Adopted, Adopting, TypeOK
      <4>3. ASSUME NEW r \in Rec, r = hcur[t] PROVE Pending(r)' = Pending(r)
        <5>1. Pending(r) = arrRetired[r]
          BY <4>2, <4>3 DEF Pending
        <5>2. owner'[r] = t /\ hcur'[t] = r /\ pc'[t] = "move" /\ todo'[t] = arrRetired[r] /\ r # 0
          BY <1>o, <3>1, <4>1, <4>3 DEF OwnerOf, TypeOK
        <5> QED
          BY <5>1, <5>2, NoThreadAssumption DEF Pending, Adopted, Adopting
      <4>4. ASSUME NEW r \in Rec, r # hcur[t] PROVE Pending(r)' = Pending(r)
        <5>1. owner'[r] = owner[r] /\ (owner[r] = t => hcur[t] # r)
          BY <3>1, <4>1, <4>4 DEF TypeOK
        <5>2. Adopted(r)' <=> Adopted(r)
          BY <4>1, <4>4, <5>1 DEF Adopted, Adopting, TypeOK
        <5>3. Adopted(r) => todo'[owner[r]] = todo[owner[r]]
          BY <4>1, <4>4, <5>1 DEF Adopted, TypeOK
        <5> QED
          BY <4>1, <5>1, <5>2, <5>3, PendingSame
      <4> QED
        BY <4>3, <4>4
    <3>3. CASE owner[hcur[t]] # own[t]
      <4>1. /\ hcur' = [hcur EXCEPT ![t] = hcur[t] - 1] /\ pc' = [pc EXCEPT ![t] = "help"]
            /\ UNCHANGED <<owner, todo, arrRetired>>
        BY <1>23, <3>3 DEF HelpCas, Goto
      <4> QED
        BY <3>1, <4>1 DEF Pending, Adopted, Adopting, TypeOK
    <3> QED
      BY <3>2, <3>3
  <2>2. UNCHANGED status
    BY <1>23 DEF HelpCas
  <2> QED
    BY <2>1, <2>2 DEF PendingKept
<1>24. ASSUME NEW n \in Node, HelpMove(t, n) PROVE PendingMoved(t, n)
  <2>1. /\ rec[t] \in Rec /\ owner[rec[t]] = t /\ pc[t] = "move" /\ Adopting(t)
        /\ hcur[t] \in Rec /\ hcur[t] # rec[t] /\ owner[hcur[t]] = t
    BY <1>24, <1>o DEF HelpMove, At, OwnerOf, HasRecord, Adopting
  <2>2. /\ arrRetired' = [arrRetired EXCEPT ![rec[t]] = arrRetired[rec[t]] \cup {n}]
        /\ todo' = [todo EXCEPT ![t] = todo[t] \ {n}] /\ n \in todo[t]
        /\ UNCHANGED <<owner, hcur, status>>
        /\ \A v \in Thread : v # t => pc'[v] = pc[v]
    BY <1>24 DEF HelpMove, Goto, TypeOK
  <2>3. Adopting(t)' /\ pc'[t] # "release"
    BY <1>24, <2>1 DEF HelpMove, Adopting, Goto, TypeOK
  <2>4. ASSUME NEW r \in Rec, r = rec[t]
        PROVE  Pending(r)' = Pending(r) \cup {n}
    <3>1. ~Adopted(r) /\ ~Adopted(r)'
      BY <2>1, <2>2, <2>3, <2>4 DEF Adopted
    <3> QED
      BY <2>1, <2>2, <2>4, <3>1 DEF Pending, TypeOK
  <2>5. ASSUME NEW r \in Rec, r # rec[t] /\ r # hcur[t] PROVE Pending(r)' = Pending(r)
    <3>1. owner'[r] = owner[r] /\ arrRetired'[r] = arrRetired[r]
      BY <2>1, <2>2, <2>5 DEF TypeOK
    <3>2. Adopted(r)' <=> Adopted(r)
      BY <2>1, <2>2, <2>3, <2>5, <3>1 DEF Adopted, Adopting, TypeOK
    <3>3. Adopted(r) => todo'[owner[r]] = todo[owner[r]]
      BY <2>2, <2>5 DEF Adopted, TypeOK
    <3> QED
      BY <3>1, <3>2, <3>3, PendingSame
  <2>6. ASSUME NEW r \in Rec, r = hcur[t]
        PROVE  Pending(r)' = Pending(r) \ {n} /\ n \in Pending(r)
    <3>1. Adopted(r) /\ Adopted(r)' /\ owner[r] = t /\ owner'[r] = t
      BY <2>1, <2>2, <2>3, <2>6, NoThreadAssumption DEF Adopted
    <3> QED
      BY <2>1, <2>2, <2>6, <3>1 DEF Pending, TypeOK
  <2> QED
    BY <1>24, <2>1, <2>4, <2>5, <2>6 DEF PendingMoved
<1>25. CASE HelpClear(t)
  <2>1. \A r \in Rec : Pending(r)' = Pending(r)
    BY <1>25, <1>o, NoThreadAssumption DEF HelpClear, Pending, Adopted, Adopting, At, Goto, TypeOK, OwnerOf, HasRecord
  <2>2. UNCHANGED status
    BY <1>25 DEF HelpClear
  <2> QED
    BY <2>1, <2>2 DEF PendingKept
<1>26. CASE HelpRelease(t)
  <2>1. \A r \in Rec : Pending(r)' = Pending(r)
    <3>1. /\ hcur[t] \in Rec /\ pc[t] = "release" /\ owner[hcur[t]] = t /\ Adopting(t)
          /\ hcur[t] # 0 /\ todo[t] = {} /\ arrRetired[hcur[t]] = {}
      BY <1>26, <1>o DEF HelpRelease, At, OwnerOf, Adopting, IHome, ICleared
    <3>2. /\ owner' = [owner EXCEPT ![hcur[t]] = NoThread] /\ pc' = [pc EXCEPT ![t] = "help"]
          /\ hcur' = [hcur EXCEPT ![t] = hcur[t] - 1] /\ UNCHANGED <<todo, arrRetired>>
      BY <1>26 DEF HelpRelease, Goto
    <3>3. ASSUME NEW r \in Rec, r = hcur[t] PROVE Pending(r)' = Pending(r)
      <4>1. Pending(r) = {}
        BY <3>1, <3>3, NoThreadAssumption DEF Pending, Adopted
      <4>2. owner'[r] = NoThread /\ arrRetired'[r] = {}
        BY <3>1, <3>2, <3>3 DEF TypeOK
      <4> QED
        BY <4>1, <4>2 DEF Pending, Adopted
    <3>4. ASSUME NEW r \in Rec, r # hcur[t] PROVE Pending(r)' = Pending(r)
      <4>1. owner'[r] = owner[r]
        BY <3>1, <3>2, <3>4 DEF TypeOK
      <4>2. Adopted(r)' <=> Adopted(r)
        BY <3>2, <3>4, <4>1 DEF Adopted, Adopting, TypeOK
      <4> QED
        BY <3>2, <4>1, <4>2, PendingSame
    <3> QED
      BY <3>3, <3>4
  <2>2. UNCHANGED status
    BY <1>26 DEF HelpRelease
  <2> QED
    BY <2>1, <2>2 DEF PendingKept
<1>27. ASSUME NEW i \in Idx, NEW j \in Idx, GuardCopy(t, i, j) PROVE PendingKept
  <2>1. UNCHANGED <<recVars, status, pc, alive, rec, helpVars>>
    BY <1>27 DEF GuardCopy, R!Copy
  <2> QED
    BY <2>1 DEF PendingKept, Pending, Adopted, Adopting
<1> QED
  BY <1>1, <1>2, <1>3, <1>4, <1>5, <1>6, <1>7, <1>8, <1>9, <1>10, <1>11, <1>12, <1>13, <1>14, <1>15, <1>16, <1>17, <1>18, <1>19, <1>20, <1>21, <1>22, <1>23, <1>24, <1>25, <1>26, <1>27 DEF Step, PlainStep, Copying, Attaching, Guarding, Scanning, Helping, Mutating

LEMMA StepCleared == TypeOK /\ IOwner /\ ICleared /\ Next => ICleared'
<1> SUFFICES ASSUME TypeOK, IOwner, ICleared, NEW t \in Thread, Step(t) PROVE ICleared'
  BY DEF Next
<1>o. OwnerOf(t) /\ (HasRecord(t) => rec[t] \in Rec) /\ (hcur[t] # 0 => hcur[t] \in Rec)
  BY OwnsRecord DEF IOwner
<1>a. \A u \in Thread : pc[u] = "release" => Adopting(u) /\ owner[hcur[u]] = u
  BY DEF IOwner, OwnerOf, Adopting
<1> USE DEF recVars, heapVars, hazVars, derefVars, scanVars, helpVars
<1>1. CASE AttachBegin(t)
  BY <1>1, <1>o DEF AttachBegin, ICleared, At, Goto, TypeOK
<1>2. CASE AttachTry(t)
  BY <1>2, <1>o DEF AttachTry, ICleared, At, Goto, TypeOK
<1>3. CASE AttachSet(t)
  BY <1>3, <1>o DEF AttachSet, ICleared, At, Goto, TypeOK
<1>4. CASE AttachNew(t)
  BY <1>4, <1>o DEF AttachNew, ICleared, At, Goto, TypeOK
<1>5. CASE Detach(t)
  BY <1>5, <1>o DEF Detach, ICleared, At, Goto, TypeOK
<1>6. CASE Die(t)
  BY <1>6, <1>o DEF Die, ICleared, At, Goto, TypeOK
<1>7. CASE GuardAlloc(t)
  BY <1>7, <1>o DEF GuardAlloc, ICleared, At, Goto, TypeOK
<1>8. CASE GuardFree(t)
  BY <1>8, <1>o DEF GuardFree, ICleared, At, Goto, TypeOK
<1>9. ASSUME NEW i \in Idx, NEW l \in Link, Deref(t, i, l) PROVE ICleared'
  BY <1>9, <1>o DEF Deref, ICleared, At, Goto, TypeOK
<1>10. CASE StoreHP(t)
  BY <1>10, <1>o DEF StoreHP, ICleared, At, Goto, TypeOK
<1>11. CASE CheckLink(t)
  BY <1>11, <1>o, SMTT(20) DEF CheckLink, ICleared, At, Goto, TypeOK
<1>12. CASE Drain(t)
  BY <1>12, <1>o DEF Drain, ICleared, At, Goto, TypeOK
<1>13. ASSUME NEW l \in Link, NEW n \in Node, Insert(t, l, n) PROVE ICleared'
  BY <1>13, <1>o DEF Insert, ICleared, At, Goto, TypeOK
<1>14. ASSUME NEW l \in Link, Unlink(t, l) PROVE ICleared'
  BY <1>14, <1>o DEF Unlink, ICleared, At, Goto, TypeOK
<1>15. CASE RetirePtr(t)
  <2>1. /\ rec[t] \in Rec /\ owner[rec[t]] = t /\ ~Adopting(t) /\ pc[t] = "retire"
    BY <1>15, <1>o DEF RetirePtr, At, OwnerOf, HasRecord, Adopting
  <2>2. /\ arrRetired' = [arrRetired EXCEPT ![rec[t]] = arrRetired[rec[t]] \cup {ptr[t]}]
        /\ status' = [status EXCEPT ![ptr[t]] = "retired"] /\ UNCHANGED <<owner, hcur, todo>>
        /\ \A v \in Thread : v # t => pc'[v] = pc[v]
    BY <1>15 DEF RetirePtr, Goto, TypeOK
  <2>3. ~Adopting(t)' /\ pc'[t] # "release"
    BY <1>15, <1>o, <2>1 DEF RetirePtr, OwnerOf, Adopting, Goto, TypeOK
  <2>4. \A u \in Thread : pc'[u] = "release" => pc[u] = "release" /\ u # t
    BY <2>2, <2>3
  <2>5. \A u \in Thread : pc[u] = "release" => arrRetired'[hcur[u]] = arrRetired[hcur[u]] \/ u = t
    BY <2>1, <2>2, <1>a DEF TypeOK
  <2> QED
    BY <2>2, <1>a, <2>4, <2>5 DEF ICleared, TypeOK
<1>16. CASE ScanHead(t)
  BY <1>16, <1>o DEF ScanHead, ICleared, At, Goto, TypeOK
<1>17. CASE ScanSlot(t)
  BY <1>17, <1>o DEF ScanSlot, ICleared, At, Goto, TypeOK
<1>18. CASE Sweep(t)
  <2>1. /\ rec[t] \in Rec /\ owner[rec[t]] = t /\ pc[t] = "scan"
        /\ Adopting(t) => hcur[t] # rec[t]
    BY <1>18, <1>o DEF Sweep, At, OwnerOf, HasRecord
  <2>2. /\ arrRetired' = [arrRetired EXCEPT ![rec[t]] = Deferred(t)]
        /\ status' = [n \in Node |-> IF n \in Unguarded(t) THEN "free" ELSE status[n]]
        /\ UNCHANGED <<owner, hcur, todo>>
        /\ \A v \in Thread : v # t => pc'[v] = pc[v]
    BY <1>18 DEF Sweep, Goto, TypeOK
  <2>3. (Adopting(t)' <=> Adopting(t)) /\ pc'[t] # "release"
    BY <1>18, <2>1 DEF Sweep, Adopting, Goto, TypeOK
  <2>4. \A u \in Thread : pc'[u] = "release" => pc[u] = "release" /\ u # t
    BY <2>2, <2>3
  <2>5. \A u \in Thread : pc[u] = "release" => arrRetired'[hcur[u]] = arrRetired[hcur[u]] \/ u = t
    BY <2>1, <2>2, <1>a DEF TypeOK
  <2> QED
    BY <2>2, <1>a, <2>4, <2>5 DEF ICleared, TypeOK
<1>19. CASE HelpHead(t)
  BY <1>19, <1>o DEF HelpHead, ICleared, At, Goto, TypeOK
<1>20. CASE HelpRead(t)
  BY <1>20, <1>o DEF HelpRead, ICleared, At, Goto, TypeOK
<1>21. CASE HelpDone(t)
  BY <1>21, <1>o DEF HelpDone, ICleared, At, Goto, TypeOK
<1>22. CASE HelpOwner(t)
  BY <1>22, <1>o DEF HelpOwner, ICleared, At, Goto, TypeOK
<1>23. CASE HelpCas(t)
  BY <1>23, <1>o DEF HelpCas, ICleared, At, Goto, TypeOK
<1>24. ASSUME NEW n \in Node, HelpMove(t, n) PROVE ICleared'
  <2>1. /\ rec[t] \in Rec /\ owner[rec[t]] = t /\ pc[t] = "move" /\ Adopting(t)
        /\ hcur[t] \in Rec /\ hcur[t] # rec[t] /\ owner[hcur[t]] = t
    BY <1>24, <1>o DEF HelpMove, At, OwnerOf, HasRecord, Adopting
  <2>2. /\ arrRetired' = [arrRetired EXCEPT ![rec[t]] = arrRetired[rec[t]] \cup {n}]
        /\ todo' = [todo EXCEPT ![t] = todo[t] \ {n}] /\ n \in todo[t]
        /\ UNCHANGED <<owner, hcur, status>>
        /\ \A v \in Thread : v # t => pc'[v] = pc[v]
    BY <1>24 DEF HelpMove, Goto, TypeOK
  <2>3. Adopting(t)' /\ pc'[t] # "release"
    BY <1>24, <2>1 DEF HelpMove, Adopting, Goto, TypeOK
  <2>4. \A u \in Thread : pc'[u] = "release" => pc[u] = "release" /\ u # t
    BY <2>2, <2>3
  <2>5. \A u \in Thread : pc[u] = "release" /\ u # t =>
          arrRetired'[hcur[u]] = arrRetired[hcur[u]] /\ todo'[u] = todo[u]
    BY <2>1, <2>2, <1>a DEF TypeOK
  <2> QED
    BY <2>2, <1>a, <2>4, <2>5 DEF ICleared, TypeOK
<1>25. CASE HelpClear(t)
  BY <1>25, <1>o DEF HelpClear, ICleared, At, Goto, TypeOK, Emptied, OwnerOf
<1>26. CASE HelpRelease(t)
  BY <1>26, <1>o DEF HelpRelease, ICleared, At, Goto, TypeOK
<1>27. ASSUME NEW i \in Idx, NEW j \in Idx, GuardCopy(t, i, j) PROVE ICleared'
  BY <1>27 DEF GuardCopy, ICleared
<1> QED
  BY <1>1, <1>2, <1>3, <1>4, <1>5, <1>6, <1>7, <1>8, <1>9, <1>10, <1>11, <1>12, <1>13, <1>14, <1>15, <1>16, <1>17, <1>18, <1>19, <1>20, <1>21, <1>22, <1>23, <1>24, <1>25, <1>26, <1>27 DEF Step, PlainStep, Copying, Attaching, Guarding, Scanning, Helping, Mutating

\* Every step keeps each retired pointer in one place: HelpScan's moves and the
\* sweep of Scan neither duplicate nor forget an entry.
LEMMA StepHome == TypeOK /\ IOwner /\ IHome /\ ILink /\ Next => IHome'
<1> SUFFICES ASSUME TypeOK, IOwner, IHome, ILink, NEW t \in Thread, Step(t)
             PROVE  /\ \A r \in Rec : \A n \in Pending(r)' : status'[n] = "retired"
                    /\ \A r, q \in Rec : r # q => Pending(r)' \cap Pending(q)' = {}
  BY StepCleared DEF Next, IHome
<1>n. \A r \in Rec : Pending(r) \subseteq Node
  BY PendingNode
<1>1. CASE PendingKept
  BY <1>n, <1>1 DEF PendingKept, IHome
<1>2. CASE PendingAdded(t)
  <2>1. status' = [status EXCEPT ![ptr[t]] = "retired"] /\ \A r \in Rec : ptr[t] \notin Pending(r)
    BY <1>2 DEF PendingAdded, RetirePtr, IHome
  <2>2. \A r \in Rec : /\ Pending(r)' \subseteq Pending(r) \cup {ptr[t]}
                       /\ ptr[t] \in Pending(r)' => r = rec[t]
    BY <1>2, <2>1 DEF PendingAdded
  <2>3. \A n \in Node : status[n] = "retired" \/ n = ptr[t] => status'[n] = "retired"
    BY <2>1 DEF TypeOK
  <2>4. ASSUME NEW r \in Rec, NEW n \in Pending(r)' PROVE status'[n] = "retired"
    BY <1>n, <1>2, <2>2, <2>3 DEF IHome, PendingAdded
  <2> QED
    BY <2>2, <2>4 DEF IHome
<1>3. CASE PendingSwept(t)
  <2>1. \A r \in Rec : Pending(r)' \subseteq Pending(r) /\ Pending(r)' \cap Unguarded(t) = {}
    BY <1>3 DEF PendingSwept, Deferred, Unguarded, IHome
  <2>2. status' = [n \in Node |-> IF n \in Unguarded(t) THEN "free" ELSE status[n]]
    BY <1>3 DEF PendingSwept, Sweep
  <2> QED
    BY <1>n, <2>1, <2>2 DEF IHome
<1>4. ASSUME NEW n \in Node, PendingMoved(t, n)
      PROVE  /\ \A r \in Rec : \A m \in Pending(r)' : status'[m] = "retired"
             /\ \A r, q \in Rec : r # q => Pending(r)' \cap Pending(q)' = {}
  <2>1. UNCHANGED status /\ status[n] = "retired" /\ \A r \in Rec : n \in Pending(r) => r = hcur[t]
    BY <1>4 DEF PendingMoved, HelpMove, heapVars, IHome
  <2>2. \A r \in Rec : /\ Pending(r)' \subseteq Pending(r) \cup {n}
                       /\ n \in Pending(r)' => r = rec[t]
    BY <1>4, <2>1 DEF PendingMoved
  <2> QED
    BY <2>1, <2>2 DEF IHome
<1> QED
  BY <1>1, <1>2, <1>3, <1>4, StepPending

\* Every step keeps the cells of the container apart from those being retired.
LEMMA StepLink == TypeOK /\ IOwner /\ IHome /\ ILink /\ Next => ILink'
<1> SUFFICES ASSUME TypeOK, IOwner, IHome, ILink, NEW t \in Thread, Step(t) PROVE ILink'
  BY DEF Next
<1>o. OwnerOf(t) /\ (HasRecord(t) => rec[t] \in Rec) /\ (hcur[t] # 0 => hcur[t] \in Rec) /\ (cur[t] # 0 => cur[t] \in Rec)
  BY OwnsRecord DEF IOwner
<1> USE DEF recVars, heapVars, hazVars, derefVars, scanVars, helpVars
<1>1. CASE AttachBegin(t)
  BY <1>1, <1>o, NullAssumption DEF AttachBegin, ILink, At, Goto, TypeOK
<1>2. CASE AttachTry(t)
  BY <1>2, <1>o, NullAssumption, ZenonT(30) DEF AttachTry, ILink, At, Goto, TypeOK
<1>3. CASE AttachSet(t)
  BY <1>3, <1>o, NullAssumption DEF AttachSet, ILink, At, Goto, TypeOK
<1>4. CASE AttachNew(t)
  BY <1>4, <1>o, NullAssumption DEF AttachNew, ILink, At, Goto, TypeOK
<1>5. CASE Detach(t)
  BY <1>5, <1>o, NullAssumption DEF Detach, ILink, At, Goto, TypeOK
<1>6. CASE Die(t)
  BY <1>6, <1>o, NullAssumption DEF Die, ILink, At, Goto, TypeOK
<1>7. CASE GuardAlloc(t)
  BY <1>7, <1>o, NullAssumption DEF GuardAlloc, ILink, At, Goto, TypeOK
<1>8. CASE GuardFree(t)
  BY <1>8, <1>o, NullAssumption DEF GuardFree, ILink, At, Goto, TypeOK
<1>9. ASSUME NEW i \in Idx, NEW l \in Link, Deref(t, i, l) PROVE ILink'
  BY <1>9, <1>o, NullAssumption DEF Deref, ILink, At, Goto, TypeOK
<1>10. CASE StoreHP(t)
  BY <1>10, <1>o, NullAssumption DEF StoreHP, ILink, At, Goto, TypeOK
<1>11. CASE CheckLink(t)
  BY <1>11, <1>o, NullAssumption DEF CheckLink, ILink, At, Goto, TypeOK
<1>12. CASE Drain(t)
  BY <1>12, <1>o, NullAssumption DEF Drain, ILink, At, Goto, TypeOK
<1>13. ASSUME NEW l \in Link, NEW n \in Node, Insert(t, l, n) PROVE ILink'
  BY <1>13, <1>o, NullAssumption DEF Insert, ILink, At, Goto, TypeOK
<1>14. ASSUME NEW l \in Link, Unlink(t, l) PROVE ILink'
  BY <1>14, <1>o, NullAssumption DEF Unlink, ILink, At, Goto, TypeOK
<1>15. CASE RetirePtr(t)
  BY <1>15, <1>o, NullAssumption DEF RetirePtr, ILink, At, Goto, TypeOK
<1>16. CASE ScanHead(t)
  BY <1>16, <1>o, NullAssumption DEF ScanHead, ILink, At, Goto, TypeOK
<1>17. CASE ScanSlot(t)
  BY <1>17, <1>o, NullAssumption DEF ScanSlot, ILink, At, Goto, TypeOK
<1>18. CASE Sweep(t)
  <2>1. \A n \in Node : status[n] # "retired" => status'[n] = status[n]
    <3>1. rec[t] \in Rec /\ Pending(rec[t]) = arrRetired[rec[t]]
      BY <1>18, <1>o DEF Sweep, At, OwnerOf, HasRecord, Pending, Adopted
    <3>2. \A n \in Unguarded(t) : status[n] = "retired"
      BY <3>1 DEF IHome, Unguarded
    <3> QED
      BY <1>18, <3>2 DEF Sweep
  <2>2. UNCHANGED <<link, ptr>> /\ \A u \in Thread : pc'[u] = "retire" => pc[u] = "retire"
    BY <1>18 DEF Sweep, Goto, TypeOK
  <2> QED
    BY <2>1, <2>2 DEF ILink, TypeOK
<1>19. CASE HelpHead(t)
  BY <1>19, <1>o, NullAssumption DEF HelpHead, ILink, At, Goto, TypeOK
<1>20. CASE HelpRead(t)
  BY <1>20, <1>o, NullAssumption DEF HelpRead, ILink, At, Goto, TypeOK
<1>21. CASE HelpDone(t)
  BY <1>21, <1>o, NullAssumption DEF HelpDone, ILink, At, Goto, TypeOK
<1>22. CASE HelpOwner(t)
  BY <1>22, <1>o, NullAssumption DEF HelpOwner, ILink, At, Goto, TypeOK
<1>23. CASE HelpCas(t)
  <2>1. UNCHANGED <<link, status, ptr>>
    BY <1>23 DEF HelpCas
  <2>2. \A u \in Thread : pc'[u] = "retire" => pc[u] = "retire"
    BY <1>23 DEF HelpCas, Goto, TypeOK
  <2> QED
    BY <2>1, <2>2 DEF ILink
<1>24. ASSUME NEW n \in Node, HelpMove(t, n) PROVE ILink'
  BY <1>24, <1>o, NullAssumption DEF HelpMove, ILink, At, Goto, TypeOK
<1>25. CASE HelpClear(t)
  BY <1>25, <1>o, NullAssumption DEF HelpClear, ILink, At, Goto, TypeOK
<1>26. CASE HelpRelease(t)
  BY <1>26, <1>o, NullAssumption DEF HelpRelease, ILink, At, Goto, TypeOK
<1>27. ASSUME NEW i \in Idx, NEW j \in Idx, GuardCopy(t, i, j) PROVE ILink'
  <2>1. UNCHANGED <<link, status, pc, ptr>>
    BY <1>27 DEF GuardCopy, R!Copy
  <2> QED
    BY <2>1 DEF ILink
<1> QED
  BY <1>1, <1>2, <1>3, <1>4, <1>5, <1>6, <1>7, <1>8, <1>9, <1>10, <1>11, <1>12, <1>13, <1>14, <1>15, <1>16, <1>17, <1>18, <1>19, <1>20, <1>21, <1>22, <1>23, <1>24, <1>25, <1>26, <1>27 DEF Step, PlainStep, Copying, Attaching, Guarding, Scanning, Helping, Mutating

\* RetireHPRec clears the slots of the record it gives up, and no others.
LEMMA DetachKeepsSlots ==
  ASSUME TypeOK, IOwner, ISlot, NEW t \in Thread, Detach(t)
  PROVE  hzp' = hzp
<1>1. rec[t] \in Rec /\ top[rec[t]] = HPCount
  BY OwnsRecord DEF Detach, At, HasRecord
<1>2. \A i \in Idx : hzp[<<rec[t], i>>] = Null
  BY <1>1, BoundAssumption DEF ISlot, Idx
<1>3. \A s \in Slot : s[1] = rec[t] => hzp[s] = Null
  BY <1>2 DEF Slot
<1> QED
  BY <1>3 DEF Detach, TypeOK

\* Two attached threads have different records.
LEMMA RecordsDiffer ==
  ASSUME TypeOK, IOwner, NEW t \in Thread, NEW u \in Thread, t # u, HasRecord(t), HasRecord(u)
  PROVE  rec[t] # rec[u]
BY OwnsRecord

\* Every step keeps the slots: unused ones are null, and a guard being checked
\* holds the pointer that derefLink read.
LEMMA StepSlot == Fenced /\ TypeOK /\ IOwner /\ ILink /\ IStore /\ ISlot /\ Next => ISlot'
<1> SUFFICES ASSUME Fenced, TypeOK, IOwner, ILink, IStore, ISlot, NEW t \in Thread, Step(t) PROVE ISlot'
  BY DEF Next
<1>o. OwnerOf(t) /\ (HasRecord(t) => rec[t] \in Rec) /\ (hcur[t] # 0 => hcur[t] \in Rec) /\ (cur[t] # 0 => cur[t] \in Rec)
  BY OwnsRecord DEF IOwner
<1> USE DEF recVars, heapVars, hazVars, derefVars, scanVars, helpVars
<1>1. CASE AttachBegin(t)
  BY <1>1, <1>o, NullAssumption DEF AttachBegin, ISlot, At, Goto, TypeOK
<1>2. CASE AttachTry(t)
  <2>1. UNCHANGED <<hzp, top, blockers, nRec, guard, ptr>>
    BY <1>2 DEF AttachTry
  <2>2. \A u \in Thread : pc'[u] \in {"deref", "store", "check"} => pc[u] = pc'[u] /\ rec[u] = rec'[u]
    BY <1>2 DEF AttachTry, At, Goto, TypeOK
  <2> QED
    BY <2>1, <2>2 DEF ISlot
<1>3. CASE AttachSet(t)
  BY <1>3, <1>o, NullAssumption DEF AttachSet, ISlot, At, Goto, TypeOK
<1>4. CASE AttachNew(t)
  <2>1. UNCHANGED <<hzp, top, blockers, guard, ptr>> /\ nRec \in Nat /\ nRec' = nRec + 1
    BY <1>4, BoundAssumption DEF AttachNew, TypeOK
  <2>2. \A u \in Thread : pc'[u] \in {"deref", "store", "check"} => pc[u] = pc'[u] /\ rec[u] = rec'[u]
    BY <1>4 DEF AttachNew, At, Goto, TypeOK
  <2>3. \A r \in Rec : nRec' < r => nRec < r
    BY <2>1, BoundAssumption DEF Rec
  <2> QED
    BY <2>1, <2>2, <2>3 DEF ISlot
<1>5. CASE Detach(t)
  <2>1. UNCHANGED <<hzp, top, blockers, nRec, guard, ptr>>
    BY <1>5, DetachKeepsSlots DEF Detach
  <2>2. \A u \in Thread : pc'[u] \in {"deref", "store", "check"} => pc[u] = pc'[u] /\ rec[u] = rec'[u]
    BY <1>5 DEF Detach, At, Goto, TypeOK
  <2> QED
    BY <2>1, <2>2 DEF ISlot
<1>6. CASE Die(t)
  BY <1>6, <1>o, NullAssumption DEF Die, ISlot, At, Goto, TypeOK
<1>7. CASE GuardAlloc(t)
  <2>1. /\ rec[t] \in Rec /\ top[rec[t]] \in Nat \ {0} /\ HasRecord(t)
        /\ top' = [top EXCEPT ![rec[t]] = top[rec[t]] - 1]
        /\ UNCHANGED <<hzp, blockers, nRec, guard, ptr, pc, rec>>
    BY <1>7, <1>o, BoundAssumption DEF GuardAlloc, At, HasRecord, TypeOK
  <2>2. \A r \in Rec : top'[r] \in Nat /\ top[r] \in Nat /\ top'[r] <= top[r]
    <3>1. \A r \in Rec : top[r] \in Nat
      BY BoundAssumption DEF TypeOK
    <3>2. top'[rec[t]] = top[rec[t]] - 1 /\ \A r \in Rec : r # rec[t] => top'[r] = top[r]
      BY <2>1 DEF TypeOK
    <3> QED
      BY <2>1, <3>1, <3>2
  <2>3. \A r \in Rec, i \in Idx : i < top'[r] => i < top[r]
    BY <2>2, BoundAssumption DEF Idx
  <2>4. ASSUME NEW u \in Thread, pc[u] \in {"deref", "store", "check"}
        PROVE  top'[rec[u]] <= guard[u]
    <3>1. HasRecord(u) /\ rec[u] \in Rec /\ u # t
      BY <1>7, <2>4, OwnsRecord DEF GuardAlloc, At, HasRecord, IOwner, OwnerOf
    <3>2. top'[rec[u]] = top[rec[u]]
      BY <2>1, <3>1, RecordsDiffer DEF TypeOK
    <3> QED
      BY <2>4, <3>2 DEF ISlot
  <2> QED
    BY <2>1, <2>3, <2>4 DEF ISlot
<1>8. CASE GuardFree(t)
  <2>1. /\ rec[t] \in Rec /\ top[rec[t]] \in Nat /\ top[rec[t]] \in Idx /\ HasRecord(t) /\ pc[t] = "idle"
        /\ rec[t] <= nRec /\ nRec \in Nat
        /\ top' = [top EXCEPT ![rec[t]] = top[rec[t]] + 1]
        /\ UNCHANGED <<nRec, guard, ptr, pc, rec>>
    <3>1. rec[t] \in Rec /\ rec[t] <= nRec /\ HasRecord(t) /\ pc[t] = "idle"
      BY <1>8, OwnsRecord DEF GuardFree, At, HasRecord
    <3>2. top[rec[t]] \in 0..HPCount /\ top[rec[t]] < HPCount /\ nRec \in 0..MaxRec
      BY <1>8, <3>1 DEF GuardFree, TypeOK
    <3>3. top[rec[t]] \in Nat /\ top[rec[t]] \in Idx /\ nRec \in Nat
      BY <3>2, BoundAssumption DEF Idx
    <3>4. /\ top' = [top EXCEPT ![rec[t]] = top[rec[t]] + 1]
          /\ UNCHANGED <<nRec, guard, ptr, pc, rec>>
      BY <1>8 DEF GuardFree
    <3> QED
      BY <3>1, <3>3, <3>4
  <2>2. /\ FreedSlot(t) = <<rec[t], top[rec[t]]>> /\ FreedSlot(t) \in Slot
        /\ hzp' = [hzp EXCEPT ![FreedSlot(t)] = Null]
        /\ blockers' = [n \in Node |-> IF n = Null THEN blockers[n] ELSE blockers[n] \ {FreedSlot(t)}]
    BY <1>8, <2>1 DEF GuardFree, StoreSlot, Expose, FreedSlot, Slot
  <2>3. ASSUME NEW r \in Rec, NEW i \in Idx, i < top'[r] PROVE hzp'[<<r, i>>] = Null
    <3>1. CASE i < top[r]
      BY <2>2, <3>1 DEF ISlot, Slot, TypeOK
    <3>2. CASE ~(i < top[r])
      <4>1. r = rec[t]
        BY <2>1, <2>3, <3>2 DEF TypeOK
      <4>2. i = top[rec[t]]
        <5>1. top'[r] = top[r] + 1 /\ i \in Nat /\ top[r] \in Nat
          BY <2>1, <4>1, BoundAssumption DEF TypeOK, Idx
        <5> QED
          BY <2>3, <3>2, <4>1, <5>1
      <4> QED
        BY <2>2, <4>1, <4>2 DEF TypeOK, Slot
    <3> QED
      BY <3>1, <3>2
  <2>4. \A r \in Rec, i \in Idx : nRec' < r => hzp'[<<r, i>>] = Null
    BY <2>1, <2>2 DEF ISlot, Slot, TypeOK
  <2>5. ASSUME NEW u \in Thread, pc'[u] \in {"deref", "store", "check"}
        PROVE  /\ top'[rec'[u]] <= guard'[u]
               /\ pc'[u] = "check" => hzp'[<<rec'[u], guard'[u]>>] = ptr'[u]
    <3>1. HasRecord(u) /\ rec[u] \in Rec /\ u # t /\ guard[u] \in Idx
      BY <2>1, <2>5, OwnsRecord DEF HasRecord, IOwner, OwnerOf, TypeOK
    <3>2. rec[u] # rec[t]
      BY <2>1, <3>1, RecordsDiffer
    <3>3. top'[rec[u]] = top[rec[u]] /\ <<rec[u], guard[u]>> # FreedSlot(t) /\ <<rec[u], guard[u]>> \in Slot
      BY <2>1, <2>2, <3>1, <3>2 DEF TypeOK, Slot
    <3> QED
      BY <2>1, <2>2, <2>5, <3>3 DEF ISlot, TypeOK
  <2>6. \A n \in Node : \A s \in blockers'[n] : hzp'[s] = n
    BY <2>2, NullAssumption DEF ISlot, TypeOK
  <2> QED
    BY <2>3, <2>4, <2>5, <2>6 DEF ISlot
<1>9. ASSUME NEW i \in Idx, NEW l \in Link, Deref(t, i, l) PROVE ISlot'
  BY <1>9, <1>o, NullAssumption DEF Deref, ISlot, At, Goto, TypeOK
<1>10. CASE StoreHP(t)
  <2>1. /\ rec[t] \in Rec /\ guard[t] \in Idx /\ HasRecord(t) /\ pc[t] = "store"
        /\ rec[t] <= nRec /\ nRec \in Nat /\ top[rec[t]] <= guard[t]
        /\ UNCHANGED <<nRec, top, guard, ptr, rec>> /\ pc' = [pc EXCEPT ![t] = "check"]
    <3>1. rec[t] \in Rec /\ rec[t] <= nRec /\ HasRecord(t) /\ pc[t] = "store"
      BY <1>10, OwnsRecord DEF StoreHP, At, HasRecord
    <3>2. guard[t] \in Idx /\ nRec \in Nat /\ top[rec[t]] <= guard[t]
      BY <3>1, BoundAssumption DEF TypeOK, ISlot
    <3>3. UNCHANGED <<nRec, top, guard, ptr, rec>> /\ pc' = [pc EXCEPT ![t] = "check"]
      BY <1>10 DEF StoreHP, Goto
    <3> QED
      BY <3>1, <3>2, <3>3
  <2> DEFINE s == <<rec[t], guard[t]>>
  <2>2. /\ s \in Slot /\ ptr[t] \in Node \cup {Null} /\ hzp' = [hzp EXCEPT ![s] = ptr[t]]
        /\ blockers' = [n \in Node |-> IF n = ptr[t] THEN blockers[n] ELSE blockers[n] \ {s}]
    BY <1>10, <2>1 DEF StoreHP, StoreSlot, Expose, Slot, TypeOK
  <2>3. ASSUME NEW r \in Rec, NEW i \in Idx, <<r, i>> = s PROVE ~(i < top[r]) /\ ~(nRec < r)
    BY <2>1, <2>3, BoundAssumption DEF TypeOK, Idx, Rec
  <2>4. \A r \in Rec, i \in Idx : <<r, i>> \in Slot /\ (<<r, i>> # s => hzp'[<<r, i>>] = hzp[<<r, i>>])
    BY <2>2 DEF Slot, TypeOK
  <2>5. ASSUME NEW u \in Thread, pc'[u] \in {"deref", "store", "check"}
        PROVE  /\ top'[rec'[u]] <= guard'[u]
               /\ pc'[u] = "check" => hzp'[<<rec'[u], guard'[u]>>] = ptr'[u]
    <3>1. CASE u = t
      BY <2>1, <2>2, <3>1 DEF TypeOK
    <3>2. CASE u # t
      <4>1. HasRecord(u) /\ rec[u] \in Rec /\ guard[u] \in Idx /\ pc'[u] = pc[u]
        BY <2>1, <2>5, <3>2, OwnsRecord DEF HasRecord, IOwner, OwnerOf, TypeOK
      <4>2. rec[u] # rec[t]
        BY <2>1, <3>2, <4>1, RecordsDiffer
      <4>3. hzp'[<<rec[u], guard[u]>>] = hzp[<<rec[u], guard[u]>>]
        BY <2>4, <4>1, <4>2
      <4> QED
        BY <2>1, <2>5, <4>1, <4>3 DEF ISlot
    <3> QED
      BY <3>1, <3>2
  <2>6. ASSUME NEW n \in Node, NEW q \in blockers'[n] PROVE hzp'[q] = n
    <3>1. q \in Slot /\ q \in blockers[n] /\ hzp[q] = n /\ (q = s => n = ptr[t])
      BY <2>2, <2>6 DEF ISlot, TypeOK
    <3> QED
      BY <2>2, <3>1 DEF TypeOK
  <2> QED
    BY <2>1, <2>3, <2>4, <2>5, <2>6 DEF ISlot
<1>11. CASE CheckLink(t)
  BY <1>11, <1>o, NullAssumption DEF CheckLink, ISlot, At, Goto, TypeOK
<1>12. CASE Drain(t)
  BY <1>12 DEF Drain, IStore
<1>13. ASSUME NEW l \in Link, NEW n \in Node, Insert(t, l, n) PROVE ISlot'
  BY <1>13, <1>o, NullAssumption DEF Insert, ISlot, At, Goto, TypeOK
<1>14. ASSUME NEW l \in Link, Unlink(t, l) PROVE ISlot'
  BY <1>14, <1>o, NullAssumption DEF Unlink, ISlot, At, Goto, TypeOK
<1>15. CASE RetirePtr(t)
  BY <1>15, <1>o, NullAssumption DEF RetirePtr, ISlot, At, Goto, TypeOK
<1>16. CASE ScanHead(t)
  BY <1>16, <1>o, NullAssumption DEF ScanHead, ISlot, At, Goto, TypeOK
<1>17. CASE ScanSlot(t)
  BY <1>17, <1>o, NullAssumption DEF ScanSlot, ISlot, At, Goto, TypeOK
<1>18. CASE Sweep(t)
  BY <1>18, <1>o, NullAssumption DEF Sweep, ISlot, At, Goto, TypeOK
<1>19. CASE HelpHead(t)
  BY <1>19, <1>o, NullAssumption DEF HelpHead, ISlot, At, Goto, TypeOK
<1>20. CASE HelpRead(t)
  BY <1>20, <1>o, NullAssumption DEF HelpRead, ISlot, At, Goto, TypeOK
<1>21. CASE HelpDone(t)
  BY <1>21, <1>o, NullAssumption DEF HelpDone, ISlot, At, Goto, TypeOK
<1>22. CASE HelpOwner(t)
  BY <1>22, <1>o, NullAssumption DEF HelpOwner, ISlot, At, Goto, TypeOK
<1>23. CASE HelpCas(t)
  BY <1>23, <1>o, NullAssumption DEF HelpCas, ISlot, At, Goto, TypeOK
<1>24. ASSUME NEW n \in Node, HelpMove(t, n) PROVE ISlot'
  BY <1>24, <1>o, NullAssumption DEF HelpMove, ISlot, At, Goto, TypeOK
<1>25. CASE HelpClear(t)
  BY <1>25, <1>o, NullAssumption DEF HelpClear, ISlot, At, Goto, TypeOK
<1>26. CASE HelpRelease(t)
  BY <1>26, <1>o, NullAssumption DEF HelpRelease, ISlot, At, Goto, TypeOK
<1>27. ASSUME NEW i \in Idx, NEW j \in Idx, GuardCopy(t, i, j) PROVE ISlot'
  <2>a. /\ rec[t] \in Rec /\ HasRecord(t) /\ pc[t] = "idle" /\ Fenced /\ <<i, j>> \in Copies
        /\ top[rec[t]] <= i /\ top[rec[t]] <= j
    BY <1>27, OwnsRecord DEF GuardCopy, At, HasRecord
  <2> DEFINE s == <<rec[t], i>>
             d == <<rec[t], j>>
  <2>b. s \in Slot /\ d \in Slot /\ using[s] \in Node
    BY <1>27, <2>a DEF GuardCopy, Slot
  <2>c. /\ hzp' = [hzp EXCEPT ![d] = using[s]] /\ using' = [using EXCEPT ![d] = using[s]]
        /\ blockers' = [n \in Node |->
              IF n # using[s] THEN blockers[n] \ {d}
              ELSE IF s \in blockers[n] THEN blockers[n] \cup {d} ELSE blockers[n]]
        /\ UNCHANGED <<status, pend>>
    BY <1>27 DEF GuardCopy, R!Copy
  <2>d. rec[t] <= nRec /\ nRec \in Nat /\ UNCHANGED <<nRec, top, pc, rec, guard, ptr>>
    BY <1>27, <2>a, OwnsRecord, BoundAssumption DEF GuardCopy, TypeOK
  <2>1. ASSUME NEW r \in Rec, NEW k \in Idx, <<r, k>> = d PROVE ~(k < top[r]) /\ ~(nRec < r)
    BY <2>1, <2>a, <2>d, BoundAssumption DEF TypeOK, Idx, Rec
  <2>2. \A r \in Rec, k \in Idx : <<r, k>> \in Slot /\ (<<r, k>> # d => hzp'[<<r, k>>] = hzp[<<r, k>>])
    BY <2>b, <2>c DEF Slot, TypeOK
  <2>3. ASSUME NEW u \in Thread, pc[u] \in {"deref", "store", "check"}
        PROVE  hzp'[<<rec[u], guard[u]>>] = hzp[<<rec[u], guard[u]>>]
    <3>1. u # t /\ HasRecord(u) /\ rec[u] \in Rec /\ guard[u] \in Idx
      BY <2>3, <2>a, OwnsRecord DEF HasRecord, IOwner, OwnerOf, TypeOK
    <3>2. rec[u] # rec[t]
      BY <2>a, <3>1, RecordsDiffer
    <3> QED
      BY <2>2, <3>1, <3>2
  <2>4. ASSUME NEW n \in Node, NEW q \in blockers'[n] PROVE hzp'[q] = n
    <3>1. q \in Slot /\ (q = d => n = using[s]) /\ (q # d => q \in blockers[n])
      BY <2>4, <2>b, <2>c DEF TypeOK
    <3>2. CASE q = d
      BY <2>b, <2>c, <3>1, <3>2 DEF TypeOK
    <3>3. CASE q # d
      BY <2>b, <2>c, <3>1, <3>3 DEF ISlot, TypeOK
    <3> QED
      BY <3>2, <3>3
  <2>5. /\ \A r \in Rec, k \in Idx : k < top[r] => hzp'[<<r, k>>] = Null
        /\ \A r \in Rec, k \in Idx : nRec < r => hzp'[<<r, k>>] = Null
    BY <2>1, <2>2 DEF ISlot
  <2> QED
    BY <2>d, <2>3, <2>4, <2>5 DEF ISlot
<1> QED
  BY <1>1, <1>2, <1>3, <1>4, <1>5, <1>6, <1>7, <1>8, <1>9, <1>10, <1>11, <1>12, <1>13, <1>14, <1>15, <1>16, <1>17, <1>18, <1>19, <1>20, <1>21, <1>22, <1>23, <1>24, <1>25, <1>26, <1>27 DEF Step, PlainStep, Copying, Attaching, Guarding, Scanning, Helping, Mutating

\* A step that leaves a scan alone, and shows it no new blocker, keeps the
\* invariant of that scan.
LEMMA ScanFrame ==
  ASSUME IScan, NEW t \in Thread,
         \A u \in Thread : pc'[u] = "scan" /\ u # t =>
            /\ pc[u] = "scan" /\ UNCHANGED <<cur[u], idx[u], plist[u], rec[u]>>
            /\ \A n \in arrRetired'[rec[u]] : n \in arrRetired[rec[u]] /\ blockers'[n] \subseteq blockers[n],
         pc'[t] # "scan"
  PROVE  IScan'
BY DEF IScan, Passed

\* The same for a step that adds neither retired pointers nor blockers.
LEMMA ScanFrameAll ==
  ASSUME TypeOK, IScan, NEW t \in Thread,
         pc'[t] # "scan" /\ \A u \in Thread : pc'[u] = "scan" =>
            pc[u] = "scan" /\ u # t /\ UNCHANGED <<cur[u], idx[u], plist[u], rec[u]>>,
         \A r \in Rec : arrRetired'[r] \subseteq arrRetired[r],
         \A n \in Node : blockers'[n] \subseteq blockers[n],
         \A u \in Thread : pc[u] = "scan" => rec[u] \in Rec
  PROVE  IScan'
<1>1. arrRetired \in [Rec -> SUBSET Node]
  BY DEF TypeOK
<1>2. \A u \in Thread : pc'[u] = "scan" /\ u # t =>
        /\ pc[u] = "scan" /\ UNCHANGED <<cur[u], idx[u], plist[u], rec[u]>>
        /\ \A n \in arrRetired'[rec[u]] : n \in arrRetired[rec[u]] /\ blockers'[n] \subseteq blockers[n]
  BY <1>1
<1> QED
  BY <1>2, ScanFrame

\* Every step keeps the promise of a scan under way: of the slots it has passed,
\* those that block a retired pointer of its thread are in plist.
LEMMA StepScan == Fenced /\ CopiesAscend /\ TypeOK /\ IOwner /\ IHome /\ ILink /\ IStore /\ ISlot /\ IScan /\ Next => IScan'
<1> SUFFICES ASSUME Fenced, CopiesAscend, TypeOK, IOwner, IHome, ILink, IStore, ISlot, IScan, NEW t \in Thread, Step(t) PROVE IScan'
  BY DEF Next
<1>o. OwnerOf(t) /\ (HasRecord(t) => rec[t] \in Rec) /\ (hcur[t] # 0 => hcur[t] \in Rec) /\ (cur[t] # 0 => cur[t] \in Rec)
  BY OwnsRecord DEF IOwner
<1> USE DEF recVars, heapVars, hazVars, derefVars, scanVars, helpVars
<1>1. CASE AttachBegin(t)
  BY <1>1, <1>o DEF AttachBegin, IScan, Passed, At, Goto, TypeOK
<1>2. CASE AttachTry(t)
  <2>1. pc'[t] # "scan" /\ \A u \in Thread : pc'[u] = "scan" => pc[u] = "scan" /\ u # t /\ UNCHANGED <<cur[u], idx[u], plist[u], rec[u]>>
    BY <1>2 DEF AttachTry, At, Goto, TypeOK
  <2>2. \A r \in Rec : arrRetired'[r] \subseteq arrRetired[r]
    BY <1>2 DEF AttachTry, TypeOK
  <2>3. \A n \in Node : blockers'[n] \subseteq blockers[n]
    BY <1>2 DEF AttachTry, TypeOK, StoreSlot, Expose
  <2>4. \A u \in Thread : pc[u] = "scan" => rec[u] \in Rec
    BY OwnsRecord DEF HasRecord, IOwner, OwnerOf
  <2> QED
    BY <2>1, <2>2, <2>3, <2>4, ScanFrameAll
<1>3. CASE AttachSet(t)
  BY <1>3, <1>o DEF AttachSet, IScan, Passed, At, Goto, TypeOK
<1>4. CASE AttachNew(t)
  BY <1>4, <1>o DEF AttachNew, IScan, Passed, At, Goto, TypeOK
<1>5. CASE Detach(t)
  BY <1>5, <1>o DEF Detach, IScan, Passed, At, Goto, TypeOK
<1>6. CASE Die(t)
  BY <1>6, <1>o DEF Die, IScan, Passed, At, Goto, TypeOK
<1>7. CASE GuardAlloc(t)
  BY <1>7, <1>o DEF GuardAlloc, IScan, Passed, At, Goto, TypeOK
<1>8. CASE GuardFree(t)
  <2>1. pc'[t] # "scan" /\ \A u \in Thread : pc'[u] = "scan" => pc[u] = "scan" /\ u # t /\ UNCHANGED <<cur[u], idx[u], plist[u], rec[u]>>
    BY <1>8 DEF GuardFree, At, Goto, TypeOK
  <2>2. \A r \in Rec : arrRetired'[r] \subseteq arrRetired[r]
    BY <1>8 DEF GuardFree, TypeOK
  <2>3. \A n \in Node : blockers'[n] \subseteq blockers[n]
    <3>1. blockers' = [n \in Node |-> IF n = Null THEN blockers[n] ELSE blockers[n] \ {FreedSlot(t)}]
      BY <1>8 DEF GuardFree, StoreSlot, Expose
    <3> QED
      BY <3>1
  <2>4. \A u \in Thread : pc[u] = "scan" => rec[u] \in Rec
    BY OwnsRecord DEF HasRecord, IOwner, OwnerOf
  <2> QED
    BY <2>1, <2>2, <2>3, <2>4, ScanFrameAll
<1>9. ASSUME NEW i \in Idx, NEW l \in Link, Deref(t, i, l) PROVE IScan'
  BY <1>9, <1>o DEF Deref, IScan, Passed, At, Goto, TypeOK
<1>10. CASE StoreHP(t)
  <2>1. pc'[t] # "scan" /\ \A u \in Thread : pc'[u] = "scan" => pc[u] = "scan" /\ u # t /\ UNCHANGED <<cur[u], idx[u], plist[u], rec[u]>>
    BY <1>10 DEF StoreHP, At, Goto, TypeOK
  <2>2. \A r \in Rec : arrRetired'[r] \subseteq arrRetired[r]
    BY <1>10 DEF StoreHP, TypeOK
  <2>3. \A n \in Node : blockers'[n] \subseteq blockers[n]
    BY <1>10 DEF StoreHP, TypeOK, StoreSlot, Expose
  <2>4. \A u \in Thread : pc[u] = "scan" => rec[u] \in Rec
    BY OwnsRecord DEF HasRecord, IOwner, OwnerOf
  <2> QED
    BY <2>1, <2>2, <2>3, <2>4, ScanFrameAll
<1>11. CASE CheckLink(t)
  <2>1. pc'[t] # "scan" /\ \A u \in Thread : pc'[u] = "scan" => pc[u] = "scan" /\ u # t /\ UNCHANGED <<cur[u], idx[u], plist[u], rec[u]>>
    BY <1>11 DEF CheckLink, At, Goto, TypeOK
  <2>2. \A r \in Rec : arrRetired'[r] \subseteq arrRetired[r]
    BY <1>11 DEF CheckLink, TypeOK
  <2>3. \A n \in Node : blockers'[n] \subseteq blockers[n]
    BY <1>11 DEF CheckLink, TypeOK, StoreSlot, Expose
  <2>4. \A u \in Thread : pc[u] = "scan" => rec[u] \in Rec
    BY OwnsRecord DEF HasRecord, IOwner, OwnerOf
  <2> QED
    BY <2>1, <2>2, <2>3, <2>4, ScanFrameAll
<1>12. CASE Drain(t)
  BY <1>12 DEF Drain, IStore
<1>13. ASSUME NEW l \in Link, NEW n \in Node, Insert(t, l, n) PROVE IScan'
  BY <1>13, <1>o DEF Insert, IScan, Passed, At, Goto, TypeOK
<1>14. ASSUME NEW l \in Link, Unlink(t, l) PROVE IScan'
  BY <1>14, <1>o DEF Unlink, IScan, Passed, At, Goto, TypeOK
<1>15. CASE RetirePtr(t)
  <2>1. HasRecord(t) /\ pc'[t] # "scan"
    BY <1>15 DEF RetirePtr, At, HasRecord, Goto, TypeOK
  <2>2. ASSUME NEW u \in Thread, pc'[u] = "scan", u # t
        PROVE  /\ pc[u] = "scan" /\ UNCHANGED <<cur[u], idx[u], plist[u], rec[u]>>
               /\ \A n \in arrRetired'[rec[u]] : n \in arrRetired[rec[u]] /\ blockers'[n] \subseteq blockers[n]
    <3>1. pc[u] = "scan" /\ UNCHANGED <<cur[u], idx[u], plist[u], rec[u]>>
      BY <1>15, <2>2 DEF RetirePtr, At, Goto, TypeOK
    <3>2. HasRecord(u) /\ rec[u] \in Rec /\ rec[u] # rec[t]
      BY <2>1, <2>2, <3>1, OwnsRecord, RecordsDiffer DEF HasRecord, IOwner, OwnerOf
    <3>3. arrRetired'[rec[u]] = arrRetired[rec[u]]
      BY <1>15, <3>2 DEF RetirePtr, TypeOK
    <3>4. \A n \in arrRetired[rec[u]] : n \in Node /\ status[n] = "retired"
      <4>1. Pending(rec[u]) = arrRetired[rec[u]]
        BY <3>1, <3>2, OwnsRecord DEF Pending, Adopted, IOwner, OwnerOf
      <4> QED
        BY <3>2, <4>1 DEF IHome, TypeOK
    <3> QED
      BY <1>15, <2>1, <3>1, <3>3, <3>4 DEF RetirePtr, At, ILink, TypeOK
  <2> QED
    BY <2>1, <2>2, ScanFrame
<1>16. CASE ScanHead(t)
  <2>1. /\ cur' = [cur EXCEPT ![t] = nRec] /\ idx' = [idx EXCEPT ![t] = 0] /\ plist' = [plist EXCEPT ![t] = {}]
        /\ pc' = [pc EXCEPT ![t] = "scan"] /\ UNCHANGED <<arrRetired, blockers, rec>>
    BY <1>16 DEF ScanHead, Goto
  <2>2. ASSUME NEW u \in Thread, pc'[u] = "scan", NEW n \in arrRetired'[rec'[u]],
               NEW r \in Rec, NEW i \in Idx, Passed(u, r, i)', <<r, i>> \in blockers'[n]
        PROVE  n \in plist'[u]
    <3>1. CASE u = t
      <4>1. nRec < r
        BY <2>1, <2>2, <3>1, BoundAssumption DEF Passed, TypeOK, Idx
      <4>2. rec[t] \in Rec /\ n \in Node
        BY <1>16, <1>o, <2>1, <2>2, <3>1 DEF ScanHead, At, HasRecord, TypeOK
      <4>3. hzp[<<r, i>>] = Null /\ hzp[<<r, i>>] = n
        BY <2>1, <2>2, <4>1, <4>2 DEF ISlot
      <4> QED
        BY <4>2, <4>3, NullAssumption
    <3>2. CASE u # t
      BY <2>1, <2>2, <3>2 DEF IScan, Passed, TypeOK
    <3> QED
      BY <3>1, <3>2
  <2> QED
    BY <2>2 DEF IScan
<1>17. CASE ScanSlot(t)
  <2>1. /\ plist' = [plist EXCEPT ![t] = plist[t] \cup SeenIn(<<cur[t], idx[t]>>)]
        /\ UNCHANGED <<arrRetired, blockers, rec, pc>> /\ pc[t] = "scan"
    BY <1>17 DEF ScanSlot, At
  <2>2. cur[t] \in Rec /\ idx[t] \in Idx /\ rec[t] \in Rec
    BY <1>17, <1>o DEF ScanSlot, At, HasRecord, TypeOK
  <2>3. ASSUME NEW r \in Rec, NEW i \in Idx, Passed(t, r, i)'
        PROVE  Passed(t, r, i) \/ (r = cur[t] /\ i = idx[t])
    <3>1. CASE idx[t] + 1 < HPCount
      <4>1. cur'[t] = cur[t] /\ idx'[t] = idx[t] + 1
        BY <1>17, <3>1 DEF ScanSlot, TypeOK
      <4> QED
        BY <2>2, <2>3, <4>1, BoundAssumption DEF Passed, Idx, Rec
    <3>2. CASE ~(idx[t] + 1 < HPCount)
      <4>1. cur'[t] = cur[t] - 1 /\ idx'[t] = 0
        BY <1>17, <3>2 DEF ScanSlot, TypeOK
      <4> QED
        BY <2>2, <2>3, <3>2, <4>1, BoundAssumption DEF Passed, Idx, Rec
    <3> QED
      BY <3>1, <3>2
  <2>4. ASSUME NEW u \in Thread, pc'[u] = "scan", NEW n \in arrRetired'[rec'[u]],
               NEW r \in Rec, NEW i \in Idx, Passed(u, r, i)', <<r, i>> \in blockers'[n]
        PROVE  n \in plist'[u]
    <3>1. CASE u = t
      <4>1. n \in Node
        BY <2>1, <2>2, <2>4, <3>1 DEF TypeOK
      <4>2. CASE Passed(t, r, i)
        BY <2>1, <2>4, <3>1, <4>2 DEF IScan, TypeOK
      <4>3. CASE r = cur[t] /\ i = idx[t]
        <5>1. hzp[<<r, i>>] = n
          BY <2>1, <2>4, <4>1 DEF ISlot
        <5>2. n \in SeenIn(<<cur[t], idx[t]>>)
          BY <4>1, <4>3, <5>1, NullAssumption DEF SeenIn
        <5> QED
          BY <2>1, <3>1, <5>2 DEF TypeOK
      <4> QED
        BY <2>3, <2>4, <3>1, <4>2, <4>3
    <3>2. CASE u # t
      <4>1. cur'[u] = cur[u] /\ idx'[u] = idx[u] /\ plist'[u] = plist[u]
        BY <1>17, <3>2 DEF ScanSlot, TypeOK
      <4> QED
        BY <2>1, <2>4, <4>1 DEF IScan, Passed
    <3> QED
      BY <3>1, <3>2
  <2> QED
    BY <2>4 DEF IScan
<1>18. CASE Sweep(t)
  <2>1. pc'[t] # "scan" /\ \A u \in Thread : pc'[u] = "scan" => pc[u] = "scan" /\ u # t /\ UNCHANGED <<cur[u], idx[u], plist[u], rec[u]>>
    BY <1>18 DEF Sweep, At, Goto, TypeOK
  <2>2. \A r \in Rec : arrRetired'[r] \subseteq arrRetired[r]
    BY <1>18 DEF Sweep, TypeOK, Deferred
  <2>3. \A n \in Node : blockers'[n] \subseteq blockers[n]
    BY <1>18 DEF Sweep, TypeOK, StoreSlot, Expose
  <2>4. \A u \in Thread : pc[u] = "scan" => rec[u] \in Rec
    BY OwnsRecord DEF HasRecord, IOwner, OwnerOf
  <2> QED
    BY <2>1, <2>2, <2>3, <2>4, ScanFrameAll
<1>19. CASE HelpHead(t)
  BY <1>19, <1>o DEF HelpHead, IScan, Passed, At, Goto, TypeOK
<1>20. CASE HelpRead(t)
  BY <1>20, <1>o DEF HelpRead, IScan, Passed, At, Goto, TypeOK
<1>21. CASE HelpDone(t)
  BY <1>21, <1>o DEF HelpDone, IScan, Passed, At, Goto, TypeOK
<1>22. CASE HelpOwner(t)
  BY <1>22, <1>o DEF HelpOwner, IScan, Passed, At, Goto, TypeOK
<1>23. CASE HelpCas(t)
  BY <1>23, <1>o DEF HelpCas, IScan, Passed, At, Goto, TypeOK
<1>24. ASSUME NEW n \in Node, HelpMove(t, n) PROVE IScan'
  <2>1. HasRecord(t) /\ pc'[t] # "scan"
    BY <1>24 DEF HelpMove, At, HasRecord, Goto, TypeOK
  <2>2. ASSUME NEW u \in Thread, pc'[u] = "scan", u # t
        PROVE  /\ pc[u] = "scan" /\ UNCHANGED <<cur[u], idx[u], plist[u], rec[u]>>
               /\ \A m \in arrRetired'[rec[u]] : m \in arrRetired[rec[u]] /\ blockers'[m] \subseteq blockers[m]
    <3>1. pc[u] = "scan" /\ UNCHANGED <<cur[u], idx[u], plist[u], rec[u]>>
      BY <1>24, <2>2 DEF HelpMove, At, Goto, TypeOK
    <3>2. HasRecord(u) /\ rec[u] \in Rec /\ rec[u] # rec[t]
      BY <2>1, <2>2, <3>1, OwnsRecord, RecordsDiffer DEF HasRecord, IOwner, OwnerOf
    <3>3. arrRetired'[rec[u]] = arrRetired[rec[u]]
      BY <1>24, <3>2 DEF HelpMove, TypeOK
    <3>4. \A m \in arrRetired[rec[u]] : m \in Node /\ status[m] = "retired"
      <4>1. Pending(rec[u]) = arrRetired[rec[u]]
        BY <3>1, <3>2, OwnsRecord DEF Pending, Adopted, IOwner, OwnerOf
      <4> QED
        BY <3>2, <4>1 DEF IHome, TypeOK
    <3> QED
      BY <1>24, <2>1, <3>1, <3>3, <3>4 DEF HelpMove, ILink, TypeOK
  <2> QED
    BY <2>1, <2>2, ScanFrame
<1>25. CASE HelpClear(t)
  <2>1. pc'[t] # "scan" /\ \A u \in Thread : pc'[u] = "scan" => pc[u] = "scan" /\ u # t /\ UNCHANGED <<cur[u], idx[u], plist[u], rec[u]>>
    BY <1>25 DEF HelpClear, At, Goto, TypeOK
  <2>2. \A r \in Rec : arrRetired'[r] \subseteq arrRetired[r]
    BY <1>25 DEF HelpClear, TypeOK, Emptied
  <2>3. \A n \in Node : blockers'[n] \subseteq blockers[n]
    BY <1>25 DEF HelpClear, TypeOK, StoreSlot, Expose
  <2>4. \A u \in Thread : pc[u] = "scan" => rec[u] \in Rec
    BY OwnsRecord DEF HasRecord, IOwner, OwnerOf
  <2> QED
    BY <2>1, <2>2, <2>3, <2>4, ScanFrameAll
<1>26. CASE HelpRelease(t)
  BY <1>26, <1>o DEF HelpRelease, IScan, Passed, At, Goto, TypeOK
<1>27. ASSUME NEW i \in Idx, NEW j \in Idx, GuardCopy(t, i, j) PROVE IScan'
  <2>a. /\ rec[t] \in Rec /\ HasRecord(t) /\ pc[t] = "idle" /\ Fenced /\ <<i, j>> \in Copies
        /\ top[rec[t]] <= i /\ top[rec[t]] <= j
    BY <1>27, OwnsRecord DEF GuardCopy, At, HasRecord
  <2> DEFINE s == <<rec[t], i>>
             d == <<rec[t], j>>
  <2>b. s \in Slot /\ d \in Slot /\ using[s] \in Node
    BY <1>27, <2>a DEF GuardCopy, Slot
  <2>c. /\ hzp' = [hzp EXCEPT ![d] = using[s]] /\ using' = [using EXCEPT ![d] = using[s]]
        /\ blockers' = [n \in Node |->
              IF n # using[s] THEN blockers[n] \ {d}
              ELSE IF s \in blockers[n] THEN blockers[n] \cup {d} ELSE blockers[n]]
        /\ UNCHANGED <<status, pend>>
    BY <1>27 DEF GuardCopy, R!Copy
  <2>1. UNCHANGED <<arrRetired, pc, rec, cur, idx, plist>>
    BY <1>27 DEF GuardCopy
  <2>2. ASSUME NEW u \in Thread, pc[u] = "scan", NEW n \in arrRetired[rec[u]], NEW r \in Rec, NEW k \in Idx,
               Passed(u, r, k), <<r, k>> \in blockers'[n]
        PROVE  n \in plist[u]
    <3>0. rec[u] \in Rec
      BY <2>2, OwnsRecord DEF HasRecord, IOwner, OwnerOf
    <3>1. rec[u] \in Rec /\ n \in Node
      BY <2>2, <3>0 DEF TypeOK
    <3>2. CASE <<r, k>> \in blockers[n]
      BY <2>2, <3>2 DEF IScan
    <3>3. CASE <<r, k>> \notin blockers[n]
      <4>1. n = using[s] /\ s \in blockers[n] /\ r = rec[t] /\ k = j
        BY <2>2, <2>c, <3>1, <3>3 DEF TypeOK
      <4>2. i < j
        BY <2>a DEF CopiesAscend
      <4>3. Passed(u, rec[t], i)
        BY <2>2, <2>a, <4>1, <4>2, BoundAssumption DEF Passed, TypeOK, Idx, Rec
      <4> QED
        BY <2>2, <2>a, <4>1, <4>3 DEF IScan
    <3> QED
      BY <3>2, <3>3
  <2> QED
    BY <2>1, <2>2 DEF IScan, Passed
<1> QED
  BY <1>1, <1>2, <1>3, <1>4, <1>5, <1>6, <1>7, <1>8, <1>9, <1>10, <1>11, <1>12, <1>13, <1>14, <1>15, <1>16, <1>17, <1>18, <1>19, <1>20, <1>21, <1>22, <1>23, <1>24, <1>25, <1>26, <1>27 DEF Step, PlainStep, Copying, Attaching, Guarding, Scanning, Helping, Mutating

\* What a scan frees is retired and blocked by no slot.
\* Stage 2 of Scan frees only pointers that no slot has held since they
\* were retired.
LEMMA SweepFreesUnblocked ==
  ASSUME TypeOK, IOwner, IHome, IScan, NEW t \in Thread, Sweep(t)
  PROVE  \A n \in Unguarded(t) : n \in Node /\ status[n] = "retired" /\ blockers[n] = {}
<1>1. rec[t] \in Rec /\ owner[rec[t]] = t /\ pc[t] = "scan" /\ cur[t] = 0
  BY OwnsRecord DEF Sweep, At, HasRecord
<1>2. Pending(rec[t]) = arrRetired[rec[t]]
  BY <1>1 DEF Pending, Adopted, IOwner, OwnerOf
<1>3. \A n \in Unguarded(t) : n \in arrRetired[rec[t]] /\ n \notin plist[t] /\ n \in Node
  BY <1>1 DEF Unguarded, TypeOK
<1>4. ASSUME NEW n \in Unguarded(t), NEW s \in blockers[n] PROVE FALSE
  <2>1. PICK r \in Rec, i \in Idx : s = <<r, i>>
    BY <1>3, <1>4 DEF TypeOK, Slot
  <2>2. Passed(t, r, i)
    BY <1>1, BoundAssumption DEF Passed, Rec
  <2> QED
    BY <1>1, <1>3, <1>4, <2>1, <2>2 DEF IScan
<1> QED
  BY <1>1, <1>2, <1>3, <1>4 DEF IHome

\* Every step keeps the abstract invariant: a pointer in use is linked or blocked
\* by the slot that guards it.
LEMMA StepUsing == Fenced /\ TypeOK /\ IOwner /\ IHome /\ ILink /\ IStore /\ ISlot /\ IScan /\ R!RInv /\ Next => R!RInv'
<1> SUFFICES ASSUME Fenced, TypeOK, IOwner, IHome, ILink, IStore, ISlot, IScan, R!RInv, NEW t \in Thread, Step(t) PROVE R!RInv'
  BY DEF Next
<1>o. OwnerOf(t) /\ (HasRecord(t) => rec[t] \in Rec) /\ (hcur[t] # 0 => hcur[t] \in Rec) /\ (cur[t] # 0 => cur[t] \in Rec)
  BY OwnsRecord DEF IOwner
<1> USE DEF recVars, heapVars, hazVars, derefVars, scanVars, helpVars
<1>1. CASE AttachBegin(t)
  BY <1>1, <1>o, NullAssumption DEF AttachBegin, R!RInv, At, Goto, TypeOK
<1>2. CASE AttachTry(t)
  BY <1>2, <1>o, NullAssumption DEF AttachTry, R!RInv, At, Goto, TypeOK
<1>3. CASE AttachSet(t)
  BY <1>3, <1>o, NullAssumption DEF AttachSet, R!RInv, At, Goto, TypeOK
<1>4. CASE AttachNew(t)
  BY <1>4, <1>o, NullAssumption DEF AttachNew, R!RInv, At, Goto, TypeOK
<1>5. CASE Detach(t)
  <2>1. UNCHANGED <<hzp, using, status, blockers>>
    BY <1>5, DetachKeepsSlots DEF Detach
  <2> QED
    BY <2>1 DEF R!RInv
<1>6. CASE Die(t)
  BY <1>6, <1>o, NullAssumption DEF Die, R!RInv, At, Goto, TypeOK
<1>7. CASE GuardAlloc(t)
  BY <1>7, <1>o, NullAssumption DEF GuardAlloc, R!RInv, At, Goto, TypeOK
<1>8. CASE GuardFree(t)
  <2> DEFINE s == FreedSlot(t)
  <2>1. /\ hzp' = [hzp EXCEPT ![s] = Null] /\ using' = [using EXCEPT ![s] = Null]
        /\ blockers' = [n \in Node |-> IF n = Null THEN blockers[n] ELSE blockers[n] \ {s}]
        /\ UNCHANGED status
    BY <1>8 DEF GuardFree, StoreSlot, Expose
  <2>2. ASSUME NEW q \in Slot, using'[q] \in Node
        PROVE  /\ hzp'[q] = using'[q] /\ status'[using'[q]] # "free"
               /\ status'[using'[q]] = "retired" => q \in blockers'[using'[q]]
    <3>1. q # s /\ using'[q] = using[q] /\ hzp'[q] = hzp[q]
      BY <2>1, <2>2, NullAssumption DEF TypeOK
    <3>2. q \in blockers[using[q]] => q \in blockers'[using[q]]
      BY <2>1, <2>2, <3>1 DEF TypeOK
    <3> QED
      BY <2>1, <2>2, <3>1, <3>2 DEF R!RInv
  <2> QED
    BY <2>2 DEF R!RInv
<1>9. ASSUME NEW i \in Idx, NEW l \in Link, Deref(t, i, l) PROVE R!RInv'
  BY <1>9, <1>o, NullAssumption DEF Deref, R!RInv, At, Goto, TypeOK
<1>10. CASE StoreHP(t)
  <2> DEFINE s == <<rec[t], guard[t]>>
  <2>1. /\ hzp' = [hzp EXCEPT ![s] = ptr[t]] /\ using' = [using EXCEPT ![s] = Null]
        /\ blockers' = [n \in Node |-> IF n = ptr[t] THEN blockers[n] ELSE blockers[n] \ {s}]
        /\ UNCHANGED status
    BY <1>10 DEF StoreHP, StoreSlot, Expose
  <2>2. ASSUME NEW q \in Slot, using'[q] \in Node
        PROVE  /\ hzp'[q] = using'[q] /\ status'[using'[q]] # "free"
               /\ status'[using'[q]] = "retired" => q \in blockers'[using'[q]]
    <3>1. q # s /\ using'[q] = using[q] /\ hzp'[q] = hzp[q]
      BY <2>1, <2>2, NullAssumption DEF TypeOK
    <3>2. q \in blockers[using[q]] => q \in blockers'[using[q]]
      BY <2>1, <2>2, <3>1 DEF TypeOK
    <3> QED
      BY <2>1, <2>2, <3>1, <3>2 DEF R!RInv
  <2> QED
    BY <2>2 DEF R!RInv
<1>11. CASE CheckLink(t)
  <2>1. /\ rec[t] \in Rec /\ hzp[<<rec[t], guard[t]>>] = ptr[t]
        /\ link[src[t]] = ptr[t] => ptr[t] = Null \/ status[ptr[t]] = "linked"
        /\ ptr[t] \in Node \cup {Null} /\ UNCHANGED <<hzp, status, blockers>>
    BY <1>11, <1>o DEF CheckLink, At, HasRecord, ISlot, ILink, TypeOK
  <2>2. using' = using \/ (link[src[t]] = ptr[t] /\ using' = [using EXCEPT ![<<rec[t], guard[t]>>] = ptr[t]])
    BY <1>11 DEF CheckLink, StillLinked
  <2>3. using \in [Slot -> Node \cup {Null}]
    BY DEF TypeOK
  <2> QED
    BY <2>1, <2>2, <2>3, NullAssumption DEF R!RInv
<1>12. CASE Drain(t)
  BY <1>12 DEF Drain, IStore
<1>13. ASSUME NEW l \in Link, NEW n \in Node, Insert(t, l, n) PROVE R!RInv'
  BY <1>13, <1>o, NullAssumption DEF Insert, R!RInv, At, Goto, TypeOK
<1>14. ASSUME NEW l \in Link, Unlink(t, l) PROVE R!RInv'
  BY <1>14, <1>o, NullAssumption DEF Unlink, R!RInv, At, Goto, TypeOK
<1>15. CASE RetirePtr(t)
  BY <1>15, <1>o, NullAssumption DEF RetirePtr, R!RInv, At, Goto, TypeOK
<1>16. CASE ScanHead(t)
  BY <1>16, <1>o, NullAssumption DEF ScanHead, R!RInv, At, Goto, TypeOK
<1>17. CASE ScanSlot(t)
  BY <1>17, <1>o, NullAssumption DEF ScanSlot, R!RInv, At, Goto, TypeOK
<1>18. CASE Sweep(t)
  <2>1. \A n \in Unguarded(t) : n \in Node /\ status[n] = "retired" /\ blockers[n] = {}
    BY <1>18, SweepFreesUnblocked
  <2>2. /\ status' = [n \in Node |-> IF n \in Unguarded(t) THEN "free" ELSE status[n]]
        /\ UNCHANGED <<hzp, using, blockers>>
    BY <1>18 DEF Sweep
  <2> QED
    BY <2>1, <2>2 DEF R!RInv, TypeOK
<1>19. CASE HelpHead(t)
  BY <1>19, <1>o, NullAssumption DEF HelpHead, R!RInv, At, Goto, TypeOK
<1>20. CASE HelpRead(t)
  BY <1>20, <1>o, NullAssumption DEF HelpRead, R!RInv, At, Goto, TypeOK
<1>21. CASE HelpDone(t)
  BY <1>21, <1>o, NullAssumption DEF HelpDone, R!RInv, At, Goto, TypeOK
<1>22. CASE HelpOwner(t)
  BY <1>22, <1>o, NullAssumption DEF HelpOwner, R!RInv, At, Goto, TypeOK
<1>23. CASE HelpCas(t)
  BY <1>23, <1>o, NullAssumption DEF HelpCas, R!RInv, At, Goto, TypeOK
<1>24. ASSUME NEW n \in Node, HelpMove(t, n) PROVE R!RInv'
  BY <1>24, <1>o, NullAssumption DEF HelpMove, R!RInv, At, Goto, TypeOK
<1>25. CASE HelpClear(t)
  BY <1>25, <1>o, NullAssumption DEF HelpClear, R!RInv, At, Goto, TypeOK
<1>26. CASE HelpRelease(t)
  BY <1>26, <1>o, NullAssumption DEF HelpRelease, R!RInv, At, Goto, TypeOK
<1>27. ASSUME NEW i \in Idx, NEW j \in Idx, GuardCopy(t, i, j) PROVE R!RInv'
  <2>a. /\ rec[t] \in Rec /\ HasRecord(t) /\ pc[t] = "idle" /\ Fenced /\ <<i, j>> \in Copies
        /\ top[rec[t]] <= i /\ top[rec[t]] <= j
    BY <1>27, OwnsRecord DEF GuardCopy, At, HasRecord
  <2> DEFINE s == <<rec[t], i>>
             d == <<rec[t], j>>
  <2>b. s \in Slot /\ d \in Slot /\ using[s] \in Node
    BY <1>27, <2>a DEF GuardCopy, Slot
  <2>c. /\ hzp' = [hzp EXCEPT ![d] = using[s]] /\ using' = [using EXCEPT ![d] = using[s]]
        /\ blockers' = [n \in Node |->
              IF n # using[s] THEN blockers[n] \ {d}
              ELSE IF s \in blockers[n] THEN blockers[n] \cup {d} ELSE blockers[n]]
        /\ UNCHANGED <<status, pend>>
    BY <1>27 DEF GuardCopy, R!Copy
  <2>1. ASSUME NEW q \in Slot, using'[q] \in Node
        PROVE  /\ hzp'[q] = using'[q] /\ status'[using'[q]] # "free"
               /\ status'[using'[q]] = "retired" => q \in blockers'[using'[q]]
    <3>1. CASE q = d
      BY <2>1, <2>b, <2>c, <3>1 DEF R!RInv, TypeOK
    <3>2. CASE q # d
      <4>1. using'[q] = using[q] /\ hzp'[q] = hzp[q]
        BY <2>b, <2>c, <3>2 DEF TypeOK
      <4>2. q \in blockers[using[q]] => q \in blockers'[using[q]]
        BY <2>1, <2>c, <3>2, <4>1 DEF TypeOK
      <4> QED
        BY <2>1, <2>c, <4>1, <4>2 DEF R!RInv
    <3> QED
      BY <3>1, <3>2
  <2> QED
    BY <2>1 DEF R!RInv
<1> QED
  BY <1>1, <1>2, <1>3, <1>4, <1>5, <1>6, <1>7, <1>8, <1>9, <1>10, <1>11, <1>12, <1>13, <1>14, <1>15, <1>16, <1>17, <1>18, <1>19, <1>20, <1>21, <1>22, <1>23, <1>24, <1>25, <1>26, <1>27 DEF Step, PlainStep, Copying, Attaching, Guarding, Scanning, Helping, Mutating

\* No step leaves a guard store in a buffer when stores are fenced.
LEMMA StepStore == Fenced /\ IStore /\ Next => IStore'
<1> SUFFICES ASSUME Fenced, IStore, NEW t \in Thread, Step(t) PROVE IStore'
  BY DEF Next
<1> USE DEF recVars, heapVars, hazVars, derefVars, scanVars, helpVars
<1>1. pend' = pend
  BY DEF Step, PlainStep, Copying, Attaching, Guarding, Scanning, Helping, Mutating,
         AttachBegin, AttachTry, AttachSet, AttachNew, Detach, Die, GuardAlloc, GuardFree,
         StoreSlot, Deref, StoreHP, CheckLink, Drain, Insert, Unlink, RetirePtr, ScanHead,
         ScanSlot, Sweep, HelpHead, HelpRead, HelpDone, HelpOwner, HelpCas, HelpMove,
         HelpClear, HelpRelease, GuardCopy, IStore
<1> QED
  BY <1>1 DEF IStore

\* The state before any thread attaches satisfies the invariant.
LEMMA InitBase == Init => IBase
<1> SUFFICES ASSUME Init PROVE IBase
  OBVIOUS
<1>1. TypeOK
  <2>1. 0 \in Idx /\ 0 \in 0..MaxRec /\ HPCount \in 0..HPCount
    BY BoundAssumption DEF Idx
  <2> QED
    BY <2>1 DEF Init, TypeOK, PC, NoStore
<1>2. IOwner
  BY BoundAssumption DEF Init, IOwner, OwnerOf, HasRecord, Adopting
<1>3. IHome
  BY DEF Init, IHome, ICleared, Pending, Adopted
<1>4. ILink
  BY DEF Init, ILink
<1> QED
  BY <1>1, <1>2, <1>3, <1>4 DEF IBase

LEMMA InitInv == Init => IInv
<1> SUFFICES ASSUME Init PROVE IInv
  OBVIOUS
<1>1. IStore
  BY DEF Init, IStore
<1>2. ISlot
  BY BoundAssumption DEF Init, ISlot, Slot, Idx
<1>3. IScan
  BY DEF Init, IScan
<1>4. R!RInv
  BY NullAssumption DEF Init, R!RInv
<1> QED
  BY InitBase, <1>1, <1>2, <1>3, <1>4 DEF IInv

\* The invariant is inductive: its base by itself, the rest upon it.
LEMMA StepBase == IBase /\ [Next]_vars => IBase'
<1> SUFFICES ASSUME IBase, [Next]_vars PROVE IBase'
  OBVIOUS
<1>1. CASE Next
  BY <1>1, StepType, StepOwner, StepHome, StepLink DEF IBase
<1>2. CASE UNCHANGED vars
  <2> USE <1>2 DEF vars, recVars, heapVars, hazVars, derefVars, scanVars, helpVars
  <2>1. TypeOK'
    BY DEF IBase, TypeOK
  <2>2. IOwner'
    BY DEF IBase, IOwner, OwnerOf, HasRecord, Adopting
  <2>3. IHome'
    BY DEF IBase, IHome, ICleared, Pending, Adopted, Adopting
  <2>4. ILink'
    BY DEF IBase, ILink
  <2> QED
    BY <2>1, <2>2, <2>3, <2>4 DEF IBase
<1> QED
  BY <1>1, <1>2

LEMMA StepInv == Fenced /\ CopiesAscend /\ IInv /\ [Next]_vars => IInv'
<1> SUFFICES ASSUME Fenced, CopiesAscend, IInv, [Next]_vars PROVE IInv'
  OBVIOUS
<1>1. CASE Next
  BY <1>1, StepBase, StepStore, StepSlot, StepScan, StepUsing DEF IInv, IBase
<1>2. CASE UNCHANGED vars
  <2> USE <1>2 DEF vars, recVars, heapVars, hazVars, derefVars, scanVars, helpVars
  <2>1. IBase'
    BY <1>2, StepBase DEF IInv
  <2>2. IStore'
    BY DEF IInv, IStore
  <2>3. ISlot'
    BY DEF IInv, ISlot
  <2>4. IScan'
    BY DEF IInv, IScan, Passed
  <2>5. R!RInv'
    BY DEF IInv, R!RInv
  <2> QED
    BY <2>1, <2>2, <2>3, <2>4, <2>5 DEF IInv
<1> QED
  BY <1>1, <1>2

\* The inductive invariant holds in every reachable state: its base however stores
\* are delayed and guards are copied, all of it under the two assumptions.
THEOREM BaseInvariance == Spec => []IBase
  BY InitBase, StepBase, PTL DEF Spec

THEOREM Invariance == Fenced /\ CopiesAscend /\ Spec => []IInv
<1> SUFFICES ASSUME Fenced, CopiesAscend PROVE Spec => []IInv
  OBVIOUS
<1>1. Init => IInv
  BY InitInv
<1>2. IInv /\ [Next]_vars => IInv'
  BY StepInv
<1> QED
  BY <1>1, <1>2, PTL DEF Spec

\* The variables of the collector keep their types.
THEOREM TypeCorrect == Spec => []TypeOK
<1>1. IBase => TypeOK
  BY DEF IBase
<1> QED
  BY BaseInvariance, <1>1, PTL

\* A pointer returned by derefLink is not freed while its guard keeps it, however
\* attaching, scanning, adopting and retiring threads interleave.
THEOREM Safety == Fenced /\ CopiesAscend /\ Spec => []GuardedNotFreed
<1>1. IInv => GuardedNotFreed
  BY DEF IInv, R!RInv, GuardedNotFreed
<1> QED
  BY Invariance, <1>1, PTL

\* A retired pointer waits in one array only, so no scan passes it to the deleter
\* twice, even while HelpScan copies it from a dead thread's record.
THEOREM FreesOnce == Spec => []RetiredOnce
<1>1. IBase => RetiredOnce
  BY DEF IBase, IHome, RetiredOnce
<1> QED
  BY BaseInvariance, <1>1, PTL

\* No two threads work with one record: neither two attached threads, nor a
\* thread and the HelpScan that adopts what it left.
THEOREM Exclusive == Spec => []RecordExclusive
<1>1. IBase => RecordExclusive
  <2> SUFFICES ASSUME IBase, NEW t \in Thread, NEW u \in Thread
               PROVE  /\ HasRecord(t) => owner[rec[t]] = t
                      /\ HasRecord(t) /\ HasRecord(u) /\ t # u => rec[t] # rec[u]
                      /\ HasRecord(t) /\ Adopting(u) => rec[t] # hcur[u]
                      /\ Adopting(t) /\ Adopting(u) /\ t # u => hcur[t] # hcur[u]
    BY DEF RecordExclusive
  <2> QED
    BY DEF IBase, IOwner, OwnerOf, HasRecord
<1> QED
  BY BaseInvariance, <1>1, PTL

\* Each step of the collector is a step of the abstract reclamation contract, or
\* leaves its state alone.
LEMMA StepRefines == Fenced /\ CopiesAscend /\ IInv /\ [Next]_vars => [R!RNext]_(R!rvars)
<1> SUFFICES ASSUME Fenced, TypeOK, IOwner, IHome, ILink, IStore, ISlot, IScan, NEW t \in Thread, Step(t)
             PROVE  [R!RNext]_(R!rvars)
  <2>1. UNCHANGED vars => UNCHANGED R!rvars
    BY DEF vars, heapVars, hazVars, R!rvars
  <2> QED
    BY <2>1 DEF Next, IInv, IBase
<1> USE DEF recVars, heapVars, hazVars, derefVars, scanVars, helpVars
<1>1. CASE AttachBegin(t)
  BY <1>1 DEF AttachBegin, R!rvars
<1>2. CASE AttachTry(t)
  BY <1>2 DEF AttachTry, R!rvars
<1>3. CASE AttachSet(t)
  BY <1>3 DEF AttachSet, R!rvars
<1>4. CASE AttachNew(t)
  BY <1>4 DEF AttachNew, R!rvars
<1>5. CASE Detach(t)
  <2>1. hzp' = hzp
    BY <1>5, DetachKeepsSlots
  <2> QED
    BY <1>5, <2>1 DEF Detach, R!rvars
<1>6. CASE Die(t)
  BY <1>6 DEF Die, R!rvars
<1>7. CASE GuardAlloc(t)
  BY <1>7 DEF GuardAlloc, R!rvars
<1>8. CASE GuardFree(t)
  <2>1. rec[t] \in Rec
    BY <1>8, OwnsRecord DEF GuardFree, At, HasRecord
  <2>2. top[rec[t]] \in Idx
    BY <1>8, <2>1, BoundAssumption DEF GuardFree, TypeOK, Idx
  <2>3. FreedSlot(t) \in Slot
    BY <2>1, <2>2 DEF FreedSlot, Slot
  <2>4. R!SetSlot(FreedSlot(t), Null)
    BY <1>8 DEF GuardFree, StoreSlot, Expose, R!SetSlot
  <2> QED
    BY <2>3, <2>4 DEF R!RNext
<1>9. ASSUME NEW i \in Idx, NEW l \in Link, Deref(t, i, l) PROVE [R!RNext]_(R!rvars)
  BY <1>9 DEF Deref, R!rvars
<1>10. CASE StoreHP(t)
  <2>1. rec[t] \in Rec /\ guard[t] \in Idx /\ ptr[t] \in Node \cup {Null}
    BY <1>10, OwnsRecord DEF StoreHP, At, HasRecord, TypeOK
  <2>2. <<rec[t], guard[t]>> \in Slot
    BY <2>1 DEF Slot
  <2>3. R!SetSlot(<<rec[t], guard[t]>>, ptr[t])
    BY <1>10 DEF StoreHP, StoreSlot, Expose, R!SetSlot
  <2> QED
    BY <2>1, <2>2, <2>3 DEF R!RNext
<1>11. CASE CheckLink(t)
  <2>1. rec[t] \in Rec /\ guard[t] \in Idx
    BY <1>11, OwnsRecord DEF CheckLink, At, HasRecord, TypeOK
  <2>2. <<rec[t], guard[t]>> \in Slot /\ hzp[<<rec[t], guard[t]>>] = ptr[t]
    BY <1>11, <2>1 DEF CheckLink, At, Slot, ISlot
  <2>3. CASE StillLinked(t)
    <3>1. ptr[t] \in Node => status[ptr[t]] = "linked"
      BY <2>3, NullAssumption DEF StillLinked, ILink, TypeOK
    <3>2. R!Confirm(<<rec[t], guard[t]>>)
      BY <1>11, <2>2, <2>3, <3>1 DEF CheckLink, R!Confirm, R!Protected, R!Use
    <3> QED
      BY <2>2, <3>2 DEF R!RNext
  <2>4. CASE ~StillLinked(t)
    BY <1>11, <2>4 DEF CheckLink, R!rvars
  <2> QED
    BY <2>3, <2>4
<1>12. CASE Drain(t)
  BY <1>12 DEF Drain, IStore
<1>13. ASSUME NEW l \in Link, NEW n \in Node, Insert(t, l, n) PROVE [R!RNext]_(R!rvars)
  BY <1>13 DEF Insert, R!Allocate, R!SetStatus, R!RNext
<1>14. ASSUME NEW l \in Link, Unlink(t, l) PROVE [R!RNext]_(R!rvars)
  <2>1. link[l] \in Node /\ status[link[l]] = "linked"
    BY <1>14 DEF Unlink, ILink, TypeOK
  <2>2. R!Remove(link[l])
    BY <1>14, <2>1 DEF Unlink, R!Remove, R!SetStatus
  <2> QED
    BY <2>1, <2>2 DEF R!RNext
<1>15. CASE RetirePtr(t)
  <2>1. ptr[t] \in Node /\ status[ptr[t]] = "unlinked"
    BY <1>15 DEF RetirePtr, At, ILink
  <2>2. R!Surrender(ptr[t])
    BY <1>15, <2>1 DEF RetirePtr, R!Surrender, R!HandOver, R!Holders
  <2> QED
    BY <2>1, <2>2 DEF R!RNext
<1>16. CASE ScanHead(t)
  BY <1>16 DEF ScanHead, R!rvars
<1>17. CASE ScanSlot(t)
  BY <1>17 DEF ScanSlot, R!rvars
<1>18. CASE Sweep(t)
  <2>1. \A n \in Unguarded(t) : n \in Node /\ status[n] = "retired" /\ blockers[n] = {}
    BY <1>18, SweepFreesUnblocked
  <2>2. R!Free(Unguarded(t))
    BY <1>18, <2>1 DEF Sweep, R!Free
  <2>3. Unguarded(t) \in SUBSET Node
    BY <2>1
  <2> QED
    BY <2>2, <2>3 DEF R!RNext
<1>19. CASE HelpHead(t)
  BY <1>19 DEF HelpHead, R!rvars
<1>20. CASE HelpRead(t)
  BY <1>20 DEF HelpRead, R!rvars
<1>21. CASE HelpDone(t)
  BY <1>21 DEF HelpDone, R!rvars
<1>22. CASE HelpOwner(t)
  BY <1>22 DEF HelpOwner, R!rvars
<1>23. CASE HelpCas(t)
  BY <1>23 DEF HelpCas, R!rvars
<1>24. ASSUME NEW n \in Node, HelpMove(t, n) PROVE [R!RNext]_(R!rvars)
  BY <1>24 DEF HelpMove, R!rvars
<1>25. CASE HelpClear(t)
  BY <1>25 DEF HelpClear, R!rvars
<1>26. CASE HelpRelease(t)
  BY <1>26 DEF HelpRelease, R!rvars
<1>27. ASSUME NEW i \in Idx, NEW j \in Idx, GuardCopy(t, i, j) PROVE [R!RNext]_(R!rvars)
  <2>1. /\ rec[t] \in Rec /\ using[<<rec[t], i>>] \in Node
        /\ R!Copy(<<rec[t], i>>, <<rec[t], j>>)
    BY <1>27, OwnsRecord DEF GuardCopy, At, HasRecord
  <2>2. <<rec[t], i>> \in Slot /\ <<rec[t], j>> \in Slot
    BY <2>1 DEF Slot
  <2> QED
    BY <2>1, <2>2 DEF R!RNext
<1> QED
  BY <1>1, <1>2, <1>3, <1>4, <1>5, <1>6, <1>7, <1>8, <1>9, <1>10, <1>11, <1>12, <1>13, <1>14, <1>15, <1>16, <1>17, <1>18, <1>19, <1>20, <1>21, <1>22, <1>23, <1>24, <1>25, <1>26, <1>27 DEF Step, PlainStep, Copying, Attaching, Guarding, Scanning, Helping, Mutating

\* The collector of hzp_gc.cpp implements the reclamation contract: it frees a
\* retired node only when no slot has guarded it continuously since it was retired.
THEOREM Refinement == Fenced /\ CopiesAscend /\ Spec => Reclaims
<1> SUFFICES ASSUME Fenced, CopiesAscend PROVE Spec => Reclaims
  OBVIOUS
<1>1. Init => R!RInit
  BY DEF Init, R!RInit
<1>2. IInv /\ [Next]_vars => [R!RNext]_(R!rvars)
  BY StepRefines
<1> QED
  BY <1>1, <1>2, Invariance, PTL DEF Spec, Reclaims, R!RSpec

-----------------------------------------------------------------------------
(***************************************************************************)
(* The retired pointers: none is forgotten, whoever leaves or dies         *)
(* (Findable); HelpScan adopts what was abandoned before it began          *)
(* (HelpScanAdopts); and no array overflows (NoOverflow).  The first two   *)
(* hold whatever the memory order and however guards are copied; the third *)
(* needs Fenced and an array with more room than all threads have hazard   *)
(* slots, which is what hzp.h asks of the user: "Must be greater than      *)
(* nHazardPtrCount * nMaxThreadCount".                                     *)
(***************************************************************************)

\* m_bFree means what HelpScan takes it for, and an adopted entry stays in the
\* source array until that is cleared.
IFree ==
    /\ \A r \in Rec : bFree[r] => arrRetired[r] = {}
    /\ \A r \in Rec : nRec < r => bFree[r]
    /\ \A t \in Thread : HasRecord(t) /\ pc[t] # "attachSet" => ~bFree[rec[t]]
    /\ \A t \in Thread : Adopting(t) => todo[t] \subseteq arrRetired[hcur[t]]

\* Every retired pointer waits somewhere.
IKept == \A n \in Node : status[n] = "retired" => \E r \in Rec : n \in Pending(r)

\* A record that was abandoned when t's HelpScan began, and still is, lies ahead of
\* the scan; if it is the one the scan is at, the CAS on its owner cannot fail.
InHelp(t) ==
    \/ pc[t] \in {"help", "helpOwner", "helpCas", "move", "release"}
    \/ pc[t] \in {"scan0", "scan"} /\ hcur[t] # 0
Awaited(t, r) ==
    /\ InHelp(t)
    /\ r <= hcur[t] /\ Abandoned(r) /\ arrRetired[r] # {}
    /\ r = hcur[t] => ~Adopting(t) /\ (pc[t] = "helpCas" => own[t] = owner[r])
IHelp == \A t \in Thread : \A r \in lost[t] : Awaited(t, r)

\* What needs no assumption, together inductive.
IRetired == IBase /\ IFree /\ IKept /\ IHelp

\* A slot in use holds what it protects.
IUse == \A s \in Slot : using[s] \in Node => hzp[s] = using[s]

\* A record nobody works with has all its slots free.
IUnused == \A r \in Rec : (\A u \in Thread : HasRecord(u) => rec[u] # r) => top[r] = HPCount

\* An array is full only while its owner scans to make room.
IFull ==
    \A r \in Rec :
        /\ IsFiniteSet(arrRetired[r]) /\ Cardinality(arrRetired[r]) <= MaxRetired
        /\ Cardinality(arrRetired[r]) = MaxRetired =>
              \E t \in Thread : HasRecord(t) /\ rec[t] = r /\ pc[t] \in {"scan0", "scan"}

\* The entries of its array t's scan has met in a slot so far, and must keep.
Seen(t) == arrRetired[rec[t]] \cap plist[t]

\* u holds a pointer of S in a slot, or is about to store one there.
Tainted(u, S) ==
    \/ \E i \in Idx : hzp[<<rec[u], i>>] \in S
    \/ pc[u] = "store" /\ ptr[u] \in S

\* The slots in which t's scan may still meet an entry of its array.  An entry can
\* move from slot to slot of a thread that holds one, but to no other thread: it is
\* no longer linked.  So meeting one more entry costs the scan one of these slots.
Open(t) == {c \in Thread \X Idx : /\ HasRecord(c[1]) /\ Tainted(c[1], arrRetired[rec[t]])
                                  /\ ~Passed(t, rec[c[1]], c[2])}
IRoom ==
    \A t \in Thread : pc[t] = "scan" =>
        Cardinality(Seen(t)) + Cardinality(Open(t)) <= Cardinality(Thread \X Idx)

\* What bounds the arrays, together inductive under Fenced and Roomy.
IArrays == IBase /\ IStore /\ ISlot /\ IUse /\ IUnused /\ IFull /\ IRoom

\* hzp.h: the array is larger than all threads have slots.
Roomy == IsFiniteSet(Thread \X Idx) /\ Cardinality(Thread \X Idx) < MaxRetired

-----------------------------------------------------------------------------
\* Every step keeps m_bFree true to its meaning: attaching clears it before anything is
\* retired, HelpScan sets it after the array is emptied.
LEMMA StepFree == IBase /\ IFree /\ Next => IFree'
<1> SUFFICES ASSUME TypeOK, IOwner, ILink, IFree, NEW t \in Thread, Step(t), NEW u \in Thread
             PROVE  /\ \A r \in Rec : bFree'[r] => arrRetired'[r] = {}
                    /\ \A r \in Rec : nRec' < r => bFree'[r]
                    /\ HasRecord(u)' /\ pc'[u] # "attachSet" => ~bFree'[rec'[u]]
                    /\ Adopting(u)' => todo'[u] \subseteq arrRetired'[hcur'[u]]
  BY DEF Next, IBase, IFree
<1>o. \A v \in {t, u} : /\ OwnerOf(v)
                        /\ HasRecord(v) => rec[v] \in Rec
                        /\ hcur[v] # 0 => hcur[v] \in Rec
                        /\ cur[v] # 0 => cur[v] \in Rec
  BY OwnsRecord DEF IOwner
<1>f. /\ \A r \in Rec : bFree[r] => arrRetired[r] = {}
      /\ \A r \in Rec : nRec < r => bFree[r]
      /\ \A v \in {t, u} : /\ HasRecord(v) /\ pc[v] # "attachSet" => ~bFree[rec[v]]
                           /\ Adopting(v) => todo[v] \subseteq arrRetired[hcur[v]]
  BY DEF IFree
<1> USE DEF recVars, heapVars, hazVars, derefVars, scanVars, helpVars
<1> DEFINE Goal == /\ \A r \in Rec : bFree'[r] => arrRetired'[r] = {}
                   /\ \A r \in Rec : nRec' < r => bFree'[r]
                   /\ HasRecord(u)' /\ pc'[u] # "attachSet" => ~bFree'[rec'[u]]
                   /\ Adopting(u)' => todo'[u] \subseteq arrRetired'[hcur'[u]]
<1>1. CASE AttachBegin(t)
  BY <1>1, <1>o, <1>f DEF AttachBegin, OwnerOf, HasRecord, Adopting, At, Goto, TypeOK
<1>2. CASE AttachTry(t)
  BY <1>2, <1>o, <1>f DEF AttachTry, OwnerOf, HasRecord, Adopting, At, Goto, TypeOK
<1>3. CASE AttachSet(t)
  BY <1>3, <1>o, <1>f DEF AttachSet, OwnerOf, HasRecord, Adopting, At, Goto, TypeOK
<1>4. CASE AttachNew(t)
  <2>1. nRec \in Nat /\ nRec + 1 \in Rec
    BY <1>4, BoundAssumption DEF AttachNew, TypeOK, Rec
  <2>2. /\ nRec' = nRec + 1 /\ bFree' = [bFree EXCEPT ![nRec + 1] = FALSE]
        /\ rec' = [rec EXCEPT ![t] = nRec + 1] /\ pc' = [pc EXCEPT ![t] = "idle"]
        /\ UNCHANGED <<arrRetired, alive, hcur, todo>> /\ pc[t] = "attach"
    BY <1>4 DEF AttachNew, Goto, At
  <2>3. \A r \in Rec : bFree'[r] => bFree[r]
    BY <2>1, <2>2 DEF TypeOK
  <2>4. \A r \in Rec : nRec' < r => bFree'[r]
    BY <1>f, <2>1, <2>2 DEF TypeOK, Rec
  <2>5. HasRecord(u)' => ~bFree'[rec'[u]] \/ pc'[u] = "attachSet"
    <3>1. CASE u = t
      BY <2>1, <2>2, <3>1 DEF TypeOK
    <3>2. CASE u # t
      BY <1>o, <1>f, <2>2, <2>3, <3>2 DEF HasRecord, TypeOK
    <3> QED
      BY <3>1, <3>2
  <2>6. Adopting(u)' => todo'[u] \subseteq arrRetired'[hcur'[u]]
    BY <1>f, <2>2 DEF Adopting, TypeOK
  <2> QED
    BY <1>f, <2>2, <2>3, <2>4, <2>5, <2>6
<1>5. CASE Detach(t)
  BY <1>5, <1>o, <1>f DEF Detach, OwnerOf, HasRecord, Adopting, At, Goto, TypeOK
<1>6. CASE Die(t)
  BY <1>6, <1>o, <1>f DEF Die, OwnerOf, HasRecord, Adopting, At, Goto, TypeOK
<1>7. CASE GuardAlloc(t)
  BY <1>7, <1>o, <1>f DEF GuardAlloc, OwnerOf, HasRecord, Adopting, At, Goto, TypeOK
<1>8. CASE GuardFree(t)
  BY <1>8, <1>o, <1>f DEF GuardFree, StoreSlot, Expose, OwnerOf, HasRecord, Adopting, At, Goto, TypeOK
<1>9. ASSUME NEW i \in Idx, NEW l \in Link, Deref(t, i, l) PROVE Goal
  BY <1>9, <1>o, <1>f DEF Deref, OwnerOf, HasRecord, Adopting, At, Goto, TypeOK
<1>10. CASE StoreHP(t)
  BY <1>10, <1>o, <1>f DEF StoreHP, StoreSlot, Expose, OwnerOf, HasRecord, Adopting, At, Goto, TypeOK
<1>11. CASE CheckLink(t)
  BY <1>11, <1>o, <1>f DEF CheckLink, OwnerOf, HasRecord, Adopting, At, Goto, TypeOK
<1>12. CASE Drain(t)
  BY <1>12, <1>o, <1>f DEF Drain, OwnerOf, HasRecord, Adopting, At, Goto, TypeOK
<1>13. ASSUME NEW l \in Link, NEW n \in Node, Insert(t, l, n) PROVE Goal
  BY <1>13, <1>o, <1>f DEF Insert, OwnerOf, HasRecord, Adopting, At, Goto, TypeOK
<1>14. ASSUME NEW l \in Link, Unlink(t, l) PROVE Goal
  BY <1>14, <1>o, <1>f DEF Unlink, OwnerOf, HasRecord, Adopting, At, Goto, TypeOK
<1>15. CASE RetirePtr(t)
  BY <1>15, <1>o, <1>f DEF RetirePtr, OwnerOf, HasRecord, Adopting, At, Goto, TypeOK
<1>16. CASE ScanHead(t)
  BY <1>16, <1>o, <1>f DEF ScanHead, OwnerOf, HasRecord, Adopting, At, Goto, TypeOK
<1>17. CASE ScanSlot(t)
  BY <1>17, <1>o, <1>f DEF ScanSlot, OwnerOf, HasRecord, Adopting, At, Goto, TypeOK
<1>18. CASE Sweep(t)
  BY <1>18, <1>o, <1>f DEF Sweep, Deferred, OwnerOf, HasRecord, Adopting, At, Goto, TypeOK
<1>19. CASE HelpHead(t)
  BY <1>19, <1>o, <1>f DEF HelpHead, OwnerOf, HasRecord, Adopting, At, Goto, TypeOK
<1>20. CASE HelpRead(t)
  <2>1. UNCHANGED <<nRec, bFree, arrRetired, alive, rec, todo>>
    BY <1>20 DEF HelpRead
  <2>2. HasRecord(u)' /\ pc'[u] # "attachSet" => HasRecord(u) /\ pc[u] # "attachSet"
    BY <1>20 DEF HelpRead, HasRecord, At, Goto, TypeOK
  <2>3. Adopting(u)' => Adopting(u) /\ hcur'[u] = hcur[u]
    BY <1>20 DEF HelpRead, Adopting, At, Goto, TypeOK
  <2> QED
    BY <1>f, <2>1, <2>2, <2>3
<1>21. CASE HelpDone(t)
  BY <1>21, <1>o, <1>f DEF HelpDone, OwnerOf, HasRecord, Adopting, At, Goto, TypeOK
<1>22. CASE HelpOwner(t)
  BY <1>22, <1>o, <1>f DEF HelpOwner, OwnerOf, HasRecord, Adopting, At, Goto, TypeOK
<1>23. CASE HelpCas(t)
  BY <1>23, <1>o, <1>f DEF HelpCas, OwnerOf, HasRecord, Adopting, At, Goto, TypeOK
<1>24. ASSUME NEW n \in Node, HelpMove(t, n) PROVE Goal
  BY <1>24, <1>o, <1>f DEF HelpMove, OwnerOf, HasRecord, Adopting, At, Goto, TypeOK
<1>25. CASE HelpClear(t)
  BY <1>25, <1>o, <1>f DEF HelpClear, Emptied, OwnerOf, HasRecord, Adopting, At, Goto, TypeOK
<1>26. CASE HelpRelease(t)
  BY <1>26, <1>o, <1>f DEF HelpRelease, OwnerOf, HasRecord, Adopting, At, Goto, TypeOK
<1>27. ASSUME NEW i \in Idx, NEW j \in Idx, GuardCopy(t, i, j) PROVE Goal
  BY <1>27, <1>o, <1>f DEF GuardCopy, R!Copy, OwnerOf, HasRecord, Adopting, At, Goto, TypeOK
<1> QED
  BY <1>1, <1>2, <1>3, <1>4, <1>5, <1>6, <1>7, <1>8, <1>9, <1>10, <1>11, <1>12, <1>13, <1>14, <1>15, <1>16, <1>17, <1>18, <1>19, <1>20, <1>21, <1>22, <1>23, <1>24, <1>25, <1>26, <1>27
  DEF Step, PlainStep, Copying, Attaching, Guarding, Scanning, Helping, Mutating

\* No step forgets a retired pointer.
LEMMA StepKept == IBase /\ IKept /\ Next => IKept'
<1> SUFFICES ASSUME TypeOK, IOwner, IHome, ILink, IKept, NEW t \in Thread, Step(t),
                    NEW m \in Node, status'[m] = "retired"
             PROVE  \E r \in Rec : m \in Pending(r)'
  BY DEF Next, IBase, IKept
<1>1. CASE PendingKept
  BY <1>1 DEF PendingKept, IKept
<1>2. CASE PendingAdded(t)
  <2>1. m = ptr[t] \/ status[m] = "retired"
    BY <1>2 DEF PendingAdded, RetirePtr, TypeOK
  <2> QED
    BY <1>2, <2>1 DEF PendingAdded, IKept
<1>3. CASE PendingSwept(t)
  <2>1. m \notin Unguarded(t) /\ status[m] = "retired"
    BY <1>3 DEF PendingSwept, Sweep
  <2>2. PICK r \in Rec : m \in Pending(r)
    BY <2>1 DEF IKept
  <2> QED
    BY <1>3, <2>1, <2>2 DEF PendingSwept, Unguarded, Deferred
<1>4. ASSUME NEW n \in Node, PendingMoved(t, n) PROVE \E r \in Rec : m \in Pending(r)'
  <2>1. status[m] = "retired"
    BY <1>4 DEF PendingMoved, HelpMove, heapVars
  <2>2. PICK r \in Rec : m \in Pending(r)
    BY <2>1 DEF IKept
  <2>3. CASE m = n
    BY <1>4, <2>3 DEF PendingMoved
  <2>4. CASE m # n
    BY <1>4, <2>2, <2>4 DEF PendingMoved
  <2> QED
    BY <2>3, <2>4
<1> QED
  BY <1>1, <1>2, <1>3, <1>4, StepPending

\* No step of HelpScan passes an abandoned record by, and a record that another thread
\* claims meanwhile is no longer awaited.
LEMMA StepHelp == IBase /\ IFree /\ IHelp /\ Next => IHelp'
<1> SUFFICES ASSUME TypeOK, IOwner, ILink, IFree, IHelp, NEW t \in Thread, Step(t),
                    NEW u \in Thread, NEW r \in lost'[u]
             PROVE  Awaited(u, r)'
  BY DEF Next, IBase, IHelp
<1>o. \A v \in {t, u} : /\ OwnerOf(v)
                        /\ HasRecord(v) => rec[v] \in Rec
                        /\ hcur[v] # 0 => hcur[v] \in Rec
                        /\ cur[v] # 0 => cur[v] \in Rec
  BY OwnsRecord DEF IOwner
<1>h. r \in lost[u] => /\ Awaited(u, r) /\ r \in Rec
                       /\ HasRecord(t) => r # rec[t]
                       /\ Adopting(t) => r # hcur[t]
  BY <1>o, NoThreadAssumption DEF IHelp, Awaited, Abandoned, OwnerOf, HasRecord, Adopting, TypeOK
<1> USE DEF recVars, heapVars, hazVars, derefVars, scanVars, helpVars
<1>1. CASE AttachBegin(t)
  BY <1>1, <1>o, <1>h DEF AttachBegin, Awaited, InHelp, Abandoned, OwnerOf, HasRecord, Adopting, At, Goto, TypeOK
<1>2. CASE AttachTry(t)
  <2>1. CASE owner[cur[t]] = NoThread
    <3>1. /\ owner' = [owner EXCEPT ![cur[t]] = t] /\ pc' = [pc EXCEPT ![t] = "attachSet"]
          /\ lost' = [v \in Thread |-> lost[v] \ {cur[t]}] /\ pc[t] = "attach"
          /\ UNCHANGED <<arrRetired, alive, hcur, own>>
      BY <1>2, <2>1 DEF AttachTry, Claim, Goto, At
    <3>2. r \in lost[u] /\ r # cur[t] /\ r \in Rec
      BY <1>h, <3>1
    <3>3. u # t /\ pc'[u] = pc[u] /\ owner'[r] = owner[r]
      BY <1>o, <1>h, <3>1, <3>2 DEF Awaited, InHelp, TypeOK
    <3> QED
      BY <1>h, <3>1, <3>2, <3>3 DEF Awaited, InHelp, Abandoned, Adopting
  <2>2. CASE owner[cur[t]] # NoThread
    BY <1>2, <1>h, <2>2 DEF AttachTry, Awaited, InHelp, Abandoned, Adopting
  <2> QED
    BY <2>1, <2>2
<1>3. CASE AttachSet(t)
  BY <1>3, <1>o, <1>h DEF AttachSet, Awaited, InHelp, Abandoned, OwnerOf, HasRecord, Adopting, At, Goto, TypeOK
<1>4. CASE AttachNew(t)
  BY <1>4, <1>o, <1>h DEF AttachNew, Awaited, InHelp, Abandoned, OwnerOf, HasRecord, Adopting, At, Goto, TypeOK
<1>5. CASE Detach(t)
  BY <1>5, <1>o, <1>h DEF Detach, Awaited, InHelp, Abandoned, OwnerOf, HasRecord, Adopting, At, Goto, TypeOK
<1>6. CASE Die(t)
  BY <1>6, <1>o, <1>h DEF Die, Awaited, InHelp, Abandoned, OwnerOf, HasRecord, Adopting, At, Goto, TypeOK
<1>7. CASE GuardAlloc(t)
  BY <1>7, <1>o, <1>h DEF GuardAlloc, Awaited, InHelp, Abandoned, OwnerOf, HasRecord, Adopting, At, Goto, TypeOK
<1>8. CASE GuardFree(t)
  BY <1>8, <1>o, <1>h DEF GuardFree, StoreSlot, Expose, Awaited, InHelp, Abandoned, OwnerOf, HasRecord, Adopting, At, Goto, TypeOK
<1>9. ASSUME NEW i \in Idx, NEW l \in Link, Deref(t, i, l) PROVE Awaited(u, r)'
  BY <1>9, <1>o, <1>h DEF Deref, Awaited, InHelp, Abandoned, OwnerOf, HasRecord, Adopting, At, Goto, TypeOK
<1>10. CASE StoreHP(t)
  BY <1>10, <1>o, <1>h DEF StoreHP, StoreSlot, Expose, Awaited, InHelp, Abandoned, OwnerOf, HasRecord, Adopting, At, Goto, TypeOK
<1>11. CASE CheckLink(t)
  BY <1>11, <1>o, <1>h DEF CheckLink, Awaited, InHelp, Abandoned, OwnerOf, HasRecord, Adopting, At, Goto, TypeOK
<1>12. CASE Drain(t)
  BY <1>12, <1>o, <1>h DEF Drain, Awaited, InHelp, Abandoned, OwnerOf, HasRecord, Adopting, At, Goto, TypeOK
<1>13. ASSUME NEW l \in Link, NEW n \in Node, Insert(t, l, n) PROVE Awaited(u, r)'
  BY <1>13, <1>o, <1>h DEF Insert, Awaited, InHelp, Abandoned, OwnerOf, HasRecord, Adopting, At, Goto, TypeOK
<1>14. ASSUME NEW l \in Link, Unlink(t, l) PROVE Awaited(u, r)'
  BY <1>14, <1>o, <1>h DEF Unlink, Awaited, InHelp, Abandoned, OwnerOf, HasRecord, Adopting, At, Goto, TypeOK
<1>15. CASE RetirePtr(t)
  BY <1>15, <1>o, <1>h DEF RetirePtr, Awaited, InHelp, Abandoned, OwnerOf, HasRecord, Adopting, At, Goto, TypeOK
<1>16. CASE ScanHead(t)
  BY <1>16, <1>o, <1>h DEF ScanHead, Awaited, InHelp, Abandoned, OwnerOf, HasRecord, Adopting, At, Goto, TypeOK
<1>17. CASE ScanSlot(t)
  BY <1>17, <1>o, <1>h DEF ScanSlot, Awaited, InHelp, Abandoned, OwnerOf, HasRecord, Adopting, At, Goto, TypeOK
<1>18. CASE Sweep(t)
  BY <1>18, <1>o, <1>h DEF Sweep, Deferred, Awaited, InHelp, Abandoned, OwnerOf, HasRecord, Adopting, At, Goto, TypeOK
<1>19. CASE HelpHead(t)
  <2>1. /\ hcur' = [hcur EXCEPT ![t] = nRec] /\ pc' = [pc EXCEPT ![t] = "help"]
        /\ lost' = [lost EXCEPT ![t] = {q \in Rec : Abandoned(q) /\ arrRetired[q] # {}}]
        /\ UNCHANGED <<owner, arrRetired, alive, own>>
    BY <1>19 DEF HelpHead, Goto
  <2>2. CASE u = t
    <3>1. r \in Rec /\ Abandoned(r) /\ arrRetired[r] # {} /\ r <= nRec
      BY <2>1, <2>2 DEF IFree, TypeOK, Rec
    <3> QED
      BY <2>1, <2>2, <3>1 DEF Awaited, InHelp, Abandoned, Adopting, TypeOK
  <2>3. CASE u # t
    BY <1>h, <2>1, <2>3 DEF Awaited, InHelp, Abandoned, Adopting, TypeOK
  <2> QED
    BY <2>2, <2>3
<1>20. CASE HelpRead(t)
  <2>1. r \in lost[u] /\ UNCHANGED <<owner, arrRetired, alive, own>> /\ pc[t] = "help" /\ hcur[t] \in Rec
    BY <1>20, <1>o DEF HelpRead, At
  <2>2. CASE u = t /\ bFree[hcur[t]]
    <3>1. hcur' = [hcur EXCEPT ![t] = hcur[t] - 1] /\ pc' = pc /\ arrRetired[hcur[t]] = {}
      BY <1>20, <2>1, <2>2 DEF HelpRead, IFree
    <3>2. r # hcur[t] /\ r <= hcur[t] /\ r \in Rec
      BY <1>h, <2>1, <2>2, <3>1 DEF Awaited
    <3>3. r <= hcur'[t] /\ hcur'[t] = hcur[t] - 1
      BY <2>1, <3>1, <3>2 DEF TypeOK, Rec
    <3> QED
      BY <1>h, <2>1, <2>2, <3>1, <3>3 DEF Awaited, InHelp, Abandoned, Adopting
  <2>3. CASE u = t /\ ~bFree[hcur[t]]
    BY <1>20, <1>h, <2>1, <2>3 DEF HelpRead, Goto, Awaited, InHelp, Abandoned, Adopting, TypeOK
  <2>4. CASE u # t
    <3>1. hcur'[u] = hcur[u] /\ pc'[u] = pc[u]
      BY <1>20, <2>4 DEF HelpRead, Goto, TypeOK
    <3> QED
      BY <1>h, <2>1, <3>1 DEF Awaited, InHelp, Abandoned, Adopting
  <2> QED
    BY <2>2, <2>3, <2>4
<1>21. CASE HelpDone(t)
  BY <1>21, <1>o, <1>h DEF HelpDone, Awaited, InHelp, Abandoned, OwnerOf, HasRecord, Adopting, At, Goto, TypeOK
<1>22. CASE HelpOwner(t)
  <2>1. /\ own' = [own EXCEPT ![t] = IF Orphaned(owner[hcur[t]]) THEN owner[hcur[t]] ELSE NoThread]
        /\ pc' = [pc EXCEPT ![t] = "helpCas"] /\ pc[t] = "helpOwner"
        /\ r \in lost[u] /\ UNCHANGED <<owner, arrRetired, alive, hcur>>
    BY <1>22 DEF HelpOwner, Goto, At
  <2>2. CASE u = t
    <3>1. r = hcur[t] => own'[t] = owner[r]
      BY <1>h, <2>1, <2>2 DEF Awaited, Abandoned, Orphaned, TypeOK
    <3> QED
      BY <1>h, <2>1, <2>2, <3>1 DEF Awaited, InHelp, Abandoned, Adopting, TypeOK
  <2>3. CASE u # t
    <3>1. own'[u] = own[u] /\ pc'[u] = pc[u]
      BY <2>1, <2>3 DEF TypeOK
    <3> QED
      BY <1>h, <2>1, <3>1 DEF Awaited, InHelp, Abandoned, Adopting
  <2> QED
    BY <2>2, <2>3
<1>23. CASE HelpCas(t)
  <2>1. /\ pc[t] = "helpCas" /\ UNCHANGED <<arrRetired, alive>> /\ own' = [own EXCEPT ![t] = NoThread]
        /\ hcur[t] \in Rec
    BY <1>23, <1>o DEF HelpCas, At, OwnerOf
  <2>2. CASE owner[hcur[t]] = own[t]
    <3>1. /\ owner' = [owner EXCEPT ![hcur[t]] = t] /\ pc' = [pc EXCEPT ![t] = "move"]
          /\ lost' = [v \in Thread |-> lost[v] \ {hcur[t]}] /\ UNCHANGED hcur
      BY <1>23, <2>2 DEF HelpCas, Claim, Goto
    <3>2. r \in lost[u] /\ r # hcur[t] /\ owner'[r] = owner[r]
      BY <1>h, <3>1 DEF TypeOK
    <3>3. CASE u = t
      BY <1>h, <2>1, <3>1, <3>2, <3>3 DEF Awaited, InHelp, Abandoned, TypeOK
    <3>4. CASE u # t
      BY <1>h, <2>1, <3>1, <3>2, <3>4 DEF Awaited, InHelp, Abandoned, Adopting, TypeOK
    <3> QED
      BY <3>3, <3>4
  <2>3. CASE owner[hcur[t]] # own[t]
    <3>1. /\ hcur' = [hcur EXCEPT ![t] = hcur[t] - 1] /\ pc' = [pc EXCEPT ![t] = "help"]
          /\ r \in lost[u] /\ UNCHANGED owner
      BY <1>23, <2>3 DEF HelpCas, Goto
    <3>2. CASE u = t
      <4>1. r # hcur[t] /\ r <= hcur[t] /\ r \in Rec
        BY <1>h, <2>1, <2>3, <3>1, <3>2 DEF Awaited
      <4>2. r <= hcur'[t]
        BY <2>1, <3>1, <4>1 DEF TypeOK, Rec
      <4> QED
        BY <1>h, <2>1, <3>1, <3>2, <4>2 DEF Awaited, InHelp, Abandoned, Adopting, TypeOK
    <3>3. CASE u # t
      BY <1>h, <2>1, <3>1, <3>3 DEF Awaited, InHelp, Abandoned, Adopting, TypeOK
    <3> QED
      BY <3>2, <3>3
  <2> QED
    BY <2>2, <2>3
<1>24. ASSUME NEW n \in Node, HelpMove(t, n) PROVE Awaited(u, r)'
  BY <1>24, <1>o, <1>h DEF HelpMove, Awaited, InHelp, Abandoned, OwnerOf, HasRecord, Adopting, At, Goto, TypeOK
<1>25. CASE HelpClear(t)
  BY <1>25, <1>o, <1>h DEF HelpClear, Emptied, Awaited, InHelp, Abandoned, OwnerOf, HasRecord, Adopting, At, Goto, TypeOK
<1>26. CASE HelpRelease(t)
  <2>1. /\ owner' = [owner EXCEPT ![hcur[t]] = NoThread] /\ pc' = [pc EXCEPT ![t] = "help"]
        /\ hcur' = [hcur EXCEPT ![t] = hcur[t] - 1] /\ pc[t] = "release" /\ Adopting(t)
        /\ r \in lost[u] /\ hcur[t] \in Rec /\ UNCHANGED <<arrRetired, alive, own>>
    BY <1>26, <1>o DEF HelpRelease, Goto, At, OwnerOf, Adopting
  <2>2. r # hcur[t] /\ owner'[r] = owner[r]
    BY <1>h, <2>1 DEF TypeOK
  <2>3. CASE u = t
    <3>1. r <= hcur'[t]
      BY <1>h, <2>1, <2>2, <2>3 DEF Awaited, TypeOK, Rec
    <3> QED
      BY <1>h, <2>1, <2>2, <2>3, <3>1 DEF Awaited, InHelp, Abandoned, Adopting, TypeOK
  <2>4. CASE u # t
    BY <1>h, <2>1, <2>2, <2>4 DEF Awaited, InHelp, Abandoned, Adopting, TypeOK
  <2> QED
    BY <2>3, <2>4
<1>27. ASSUME NEW i \in Idx, NEW j \in Idx, GuardCopy(t, i, j) PROVE Awaited(u, r)'
  BY <1>27, <1>o, <1>h DEF GuardCopy, R!Copy, Awaited, InHelp, Abandoned, OwnerOf, HasRecord, Adopting, At, Goto, TypeOK
<1> QED
  BY <1>1, <1>2, <1>3, <1>4, <1>5, <1>6, <1>7, <1>8, <1>9, <1>10, <1>11, <1>12, <1>13, <1>14, <1>15, <1>16, <1>17, <1>18, <1>19, <1>20, <1>21, <1>22, <1>23, <1>24, <1>25, <1>26, <1>27
  DEF Step, PlainStep, Copying, Attaching, Guarding, Scanning, Helping, Mutating

\* A thread frees its guards before it detaches or ends.
LEMMA StepUnused == IBase /\ IUnused /\ Next => IUnused'
<1> SUFFICES ASSUME TypeOK, IOwner, IUnused, NEW t \in Thread, Step(t), NEW r \in Rec,
                    \A u \in Thread : HasRecord(u)' => rec'[u] # r
             PROVE  top'[r] = HPCount
  BY DEF Next, IBase, IUnused
<1>o. /\ OwnerOf(t)
      /\ HasRecord(t) => rec[t] \in Rec
  BY OwnsRecord DEF IOwner
<1> USE DEF recVars, heapVars, hazVars, derefVars, scanVars, helpVars
<1>1. CASE AttachBegin(t)
  BY <1>1, <1>o DEF AttachBegin, IUnused, OwnerOf, HasRecord, At, Goto, TypeOK
<1>2. CASE AttachTry(t)
  BY <1>2, <1>o DEF AttachTry, IUnused, OwnerOf, HasRecord, At, Goto, TypeOK
<1>3. CASE AttachSet(t)
  BY <1>3, <1>o DEF AttachSet, IUnused, OwnerOf, HasRecord, At, Goto, TypeOK
<1>4. CASE AttachNew(t)
  BY <1>4, <1>o DEF AttachNew, IUnused, OwnerOf, HasRecord, At, Goto, TypeOK
<1>5. CASE Detach(t)
  BY <1>5, <1>o DEF Detach, IUnused, OwnerOf, HasRecord, At, Goto, TypeOK
<1>6. CASE Die(t)
  BY <1>6, <1>o DEF Die, IUnused, OwnerOf, HasRecord, At, Goto, TypeOK
<1>7. CASE GuardAlloc(t)
  BY <1>7, <1>o DEF GuardAlloc, IUnused, OwnerOf, HasRecord, At, Goto, TypeOK
<1>8. CASE GuardFree(t)
  BY <1>8, <1>o DEF GuardFree, StoreSlot, Expose, IUnused, OwnerOf, HasRecord, At, Goto, TypeOK
<1>9. ASSUME NEW i \in Idx, NEW l \in Link, Deref(t, i, l) PROVE top'[r] = HPCount
  BY <1>9, <1>o DEF Deref, IUnused, OwnerOf, HasRecord, At, Goto, TypeOK
<1>10. CASE StoreHP(t)
  BY <1>10, <1>o DEF StoreHP, StoreSlot, Expose, IUnused, OwnerOf, HasRecord, At, Goto, TypeOK
<1>11. CASE CheckLink(t)
  BY <1>11, <1>o DEF CheckLink, IUnused, OwnerOf, HasRecord, At, Goto, TypeOK
<1>12. CASE Drain(t)
  BY <1>12, <1>o DEF Drain, IUnused, OwnerOf, HasRecord, At, Goto, TypeOK
<1>13. ASSUME NEW l \in Link, NEW n \in Node, Insert(t, l, n) PROVE top'[r] = HPCount
  BY <1>13, <1>o DEF Insert, IUnused, OwnerOf, HasRecord, At, Goto, TypeOK
<1>14. ASSUME NEW l \in Link, Unlink(t, l) PROVE top'[r] = HPCount
  BY <1>14, <1>o DEF Unlink, IUnused, OwnerOf, HasRecord, At, Goto, TypeOK
<1>15. CASE RetirePtr(t)
  BY <1>15, <1>o DEF RetirePtr, IUnused, OwnerOf, HasRecord, At, Goto, TypeOK
<1>16. CASE ScanHead(t)
  BY <1>16, <1>o DEF ScanHead, IUnused, OwnerOf, HasRecord, At, Goto, TypeOK
<1>17. CASE ScanSlot(t)
  BY <1>17, <1>o DEF ScanSlot, IUnused, OwnerOf, HasRecord, At, Goto, TypeOK
<1>18. CASE Sweep(t)
  BY <1>18, <1>o DEF Sweep, Deferred, IUnused, OwnerOf, HasRecord, At, Goto, TypeOK
<1>19. CASE HelpHead(t)
  BY <1>19, <1>o DEF HelpHead, IUnused, OwnerOf, HasRecord, At, Goto, TypeOK
<1>20. CASE HelpRead(t)
  BY <1>20, <1>o DEF HelpRead, IUnused, OwnerOf, HasRecord, At, Goto, TypeOK
<1>21. CASE HelpDone(t)
  BY <1>21, <1>o DEF HelpDone, IUnused, OwnerOf, HasRecord, At, Goto, TypeOK
<1>22. CASE HelpOwner(t)
  BY <1>22, <1>o DEF HelpOwner, IUnused, OwnerOf, HasRecord, At, Goto, TypeOK
<1>23. CASE HelpCas(t)
  BY <1>23, <1>o DEF HelpCas, IUnused, OwnerOf, HasRecord, At, Goto, TypeOK
<1>24. ASSUME NEW n \in Node, HelpMove(t, n) PROVE top'[r] = HPCount
  BY <1>24, <1>o DEF HelpMove, IUnused, OwnerOf, HasRecord, At, Goto, TypeOK
<1>25. CASE HelpClear(t)
  BY <1>25, <1>o DEF HelpClear, Emptied, IUnused, OwnerOf, HasRecord, At, Goto, TypeOK
<1>26. CASE HelpRelease(t)
  BY <1>26, <1>o DEF HelpRelease, IUnused, OwnerOf, HasRecord, At, Goto, TypeOK
<1>27. ASSUME NEW i \in Idx, NEW j \in Idx, GuardCopy(t, i, j) PROVE top'[r] = HPCount
  BY <1>27, <1>o DEF GuardCopy, R!Copy, IUnused, OwnerOf, HasRecord, At, Goto, TypeOK
<1> QED
  BY <1>1, <1>2, <1>3, <1>4, <1>5, <1>6, <1>7, <1>8, <1>9, <1>10, <1>11, <1>12, <1>13, <1>14, <1>15, <1>16, <1>17, <1>18, <1>19, <1>20, <1>21, <1>22, <1>23, <1>24, <1>25, <1>26, <1>27
  DEF Step, PlainStep, Copying, Attaching, Guarding, Scanning, Helping, Mutating

\* Every step keeps what a slot protects in the slot.
LEMMA StepUse == Fenced /\ IBase /\ IStore /\ ISlot /\ IUse /\ Next => IUse'
<1> SUFFICES ASSUME Fenced, TypeOK, IOwner, IStore, ISlot, IUse, NEW t \in Thread, Step(t),
                    NEW q \in Slot, using'[q] \in Node
             PROVE  hzp'[q] = using'[q]
  BY DEF Next, IBase, IUse
<1>o. HasRecord(t) => rec[t] \in Rec
  BY OwnsRecord
<1> USE DEF recVars, heapVars, hazVars, derefVars, scanVars, helpVars
<1>1. CASE AttachBegin(t)
  BY <1>1, <1>o, NullAssumption DEF AttachBegin, IUse, TypeOK
<1>2. CASE AttachTry(t)
  BY <1>2, <1>o, NullAssumption DEF AttachTry, IUse, TypeOK
<1>3. CASE AttachSet(t)
  BY <1>3, <1>o, NullAssumption DEF AttachSet, IUse, TypeOK
<1>4. CASE AttachNew(t)
  BY <1>4, <1>o, NullAssumption DEF AttachNew, IUse, TypeOK
<1>5. CASE Detach(t)
  <2>1. hzp' = hzp /\ using' = using
    BY <1>5, DetachKeepsSlots DEF Detach
  <2> QED
    BY <2>1 DEF IUse
<1>6. CASE Die(t)
  BY <1>6, <1>o, NullAssumption DEF Die, IUse, TypeOK
<1>7. CASE GuardAlloc(t)
  BY <1>7, <1>o, NullAssumption DEF GuardAlloc, IUse, TypeOK
<1>8. CASE GuardFree(t)
  BY <1>8, <1>o, NullAssumption DEF GuardFree, StoreSlot, Expose, IUse, TypeOK
<1>9. ASSUME NEW i \in Idx, NEW l \in Link, Deref(t, i, l) PROVE hzp'[q] = using'[q]
  BY <1>9, <1>o, NullAssumption DEF Deref, IUse, TypeOK
<1>10. CASE StoreHP(t)
  BY <1>10, <1>o, NullAssumption DEF StoreHP, StoreSlot, Expose, IUse, TypeOK
<1>11. CASE CheckLink(t)
  <2>1. /\ rec[t] \in Rec /\ hzp[<<rec[t], guard[t]>>] = ptr[t] /\ hzp' = hzp
        /\ using' = using \/ using' = [using EXCEPT ![<<rec[t], guard[t]>>] = ptr[t]]
    BY <1>11, <1>o DEF CheckLink, At, HasRecord, ISlot
  <2> QED
    BY <2>1 DEF IUse, TypeOK
<1>12. CASE Drain(t)
  BY <1>12 DEF Drain, IStore
<1>13. ASSUME NEW l \in Link, NEW n \in Node, Insert(t, l, n) PROVE hzp'[q] = using'[q]
  BY <1>13, <1>o, NullAssumption DEF Insert, IUse, TypeOK
<1>14. ASSUME NEW l \in Link, Unlink(t, l) PROVE hzp'[q] = using'[q]
  BY <1>14, <1>o, NullAssumption DEF Unlink, IUse, TypeOK
<1>15. CASE RetirePtr(t)
  BY <1>15, <1>o, NullAssumption DEF RetirePtr, IUse, TypeOK
<1>16. CASE ScanHead(t)
  BY <1>16, <1>o, NullAssumption DEF ScanHead, IUse, TypeOK
<1>17. CASE ScanSlot(t)
  BY <1>17, <1>o, NullAssumption DEF ScanSlot, IUse, TypeOK
<1>18. CASE Sweep(t)
  BY <1>18, <1>o, NullAssumption DEF Sweep, Deferred, IUse, TypeOK
<1>19. CASE HelpHead(t)
  BY <1>19, <1>o, NullAssumption DEF HelpHead, IUse, TypeOK
<1>20. CASE HelpRead(t)
  BY <1>20, <1>o, NullAssumption DEF HelpRead, IUse, TypeOK
<1>21. CASE HelpDone(t)
  BY <1>21, <1>o, NullAssumption DEF HelpDone, IUse, TypeOK
<1>22. CASE HelpOwner(t)
  BY <1>22, <1>o, NullAssumption DEF HelpOwner, IUse, TypeOK
<1>23. CASE HelpCas(t)
  BY <1>23, <1>o, NullAssumption DEF HelpCas, IUse, TypeOK
<1>24. ASSUME NEW n \in Node, HelpMove(t, n) PROVE hzp'[q] = using'[q]
  BY <1>24, <1>o, NullAssumption DEF HelpMove, IUse, TypeOK
<1>25. CASE HelpClear(t)
  BY <1>25, <1>o, NullAssumption DEF HelpClear, Emptied, IUse, TypeOK
<1>26. CASE HelpRelease(t)
  BY <1>26, <1>o, NullAssumption DEF HelpRelease, IUse, TypeOK
<1>27. ASSUME NEW i \in Idx, NEW j \in Idx, GuardCopy(t, i, j) PROVE hzp'[q] = using'[q]
  <2>1. /\ hzp' = [hzp EXCEPT ![<<rec[t], j>>] = using[<<rec[t], i>>]]
        /\ using' = [using EXCEPT ![<<rec[t], j>>] = using[<<rec[t], i>>]]
    BY <1>27 DEF GuardCopy, R!Copy
  <2> QED
    BY <2>1 DEF IUse, TypeOK
<1> QED
  BY <1>1, <1>2, <1>3, <1>4, <1>5, <1>6, <1>7, <1>8, <1>9, <1>10, <1>11, <1>12, <1>13, <1>14, <1>15, <1>16, <1>17, <1>18, <1>19, <1>20, <1>21, <1>22, <1>23, <1>24, <1>25, <1>26, <1>27
  DEF Step, PlainStep, Copying, Attaching, Guarding, Scanning, Helping, Mutating

\* A thread that holds no pointer of a set of retired nodes does not come to hold one:
\* derefLink loads linked nodes only, and a copy stays with its thread.
LEMMA TaintFades ==
  ASSUME TypeOK, IOwner, ILink, IStore, ISlot, IUse, IUnused, Fenced, NEW t \in Thread, Step(t),
         NEW S \in SUBSET Node, \A n \in S : status[n] = "retired",
         NEW u \in Thread, HasRecord(u)', Tainted(u, S)'
  PROVE  HasRecord(u) /\ Tainted(u, S) /\ rec'[u] = rec[u]
<1>o. \A v \in {t, u} : /\ OwnerOf(v)
                        /\ HasRecord(v) => rec[v] \in Rec
                        /\ hcur[v] # 0 => hcur[v] \in Rec
                        /\ cur[v] # 0 => cur[v] \in Rec
  BY OwnsRecord DEF IOwner
<1> USE DEF recVars, heapVars, hazVars, derefVars, scanVars, helpVars
<1> DEFINE Goal == HasRecord(u) /\ Tainted(u, S) /\ rec'[u] = rec[u]
<1>k. ASSUME HasRecord(u), rec'[u] = rec[u],
             \A i \in Idx : hzp'[<<rec[u], i>>] \in S => hzp[<<rec[u], i>>] \in S,
             pc'[u] = "store" => pc[u] = "store" /\ ptr'[u] = ptr[u]
      PROVE  Goal
  BY <1>k DEF Tainted
<1>1. CASE AttachBegin(t)
  BY <1>1, <1>o DEF AttachBegin, Tainted, OwnerOf, HasRecord, At, Goto, TypeOK
<1>2. CASE AttachTry(t)
  <2>1. CASE owner[cur[t]] = NoThread
    <3>1. /\ rec' = [rec EXCEPT ![t] = cur[t]] /\ pc' = [pc EXCEPT ![t] = "attachSet"]
          /\ UNCHANGED <<hzp, ptr, alive>> /\ cur[t] \in Rec
      BY <1>2, <1>o, <2>1 DEF AttachTry, Goto
    <3>2. CASE u = t
      <4>1. \A v \in Thread : HasRecord(v) => rec[v] # cur[t]
        BY <2>1, OwnsRecord, NoThreadAssumption
      <4>2. top[cur[t]] = HPCount
        BY <3>1, <4>1 DEF IUnused
      <4>3. \A i \in Idx : hzp[<<cur[t], i>>] = Null
        BY <3>1, <4>2, BoundAssumption DEF ISlot, Idx
      <4>4. ~Tainted(u, S)'
        BY <3>1, <3>2, <4>3, NullAssumption DEF Tainted, TypeOK
      <4> QED
        BY <4>4
    <3>3. CASE u # t
      BY <3>1, <3>3, <1>k DEF HasRecord, TypeOK
    <3> QED
      BY <3>2, <3>3
  <2>2. CASE owner[cur[t]] # NoThread
    BY <1>2, <1>k, <2>2 DEF AttachTry, HasRecord
  <2> QED
    BY <2>1, <2>2
<1>3. CASE AttachSet(t)
  BY <1>3, <1>o DEF AttachSet, Tainted, OwnerOf, HasRecord, At, Goto, TypeOK
<1>4. CASE AttachNew(t)
  <2>1. /\ rec' = [rec EXCEPT ![t] = nRec + 1] /\ pc' = [pc EXCEPT ![t] = "idle"]
        /\ UNCHANGED <<hzp, ptr, alive>> /\ nRec + 1 \in Rec /\ nRec < nRec + 1
    BY <1>4, BoundAssumption DEF AttachNew, Goto, TypeOK, Rec
  <2>2. CASE u = t
    <3>1. \A i \in Idx : hzp[<<nRec + 1, i>>] = Null
      BY <2>1 DEF ISlot
    <3>2. ~Tainted(u, S)'
      BY <2>1, <2>2, <3>1, NullAssumption DEF Tainted, TypeOK
    <3> QED
      BY <3>2
  <2>3. CASE u # t
    BY <2>1, <2>3, <1>k DEF HasRecord, TypeOK
  <2> QED
    BY <2>2, <2>3
<1>5. CASE Detach(t)
  <2>1. /\ hzp' = hzp /\ rec' = [rec EXCEPT ![t] = 0] /\ pc' = [pc EXCEPT ![t] = "detached"]
        /\ UNCHANGED <<ptr, alive>>
    BY <1>5, DetachKeepsSlots DEF Detach, Goto
  <2>2. u # t
    BY <2>1 DEF HasRecord, TypeOK
  <2> QED
    BY <2>1, <2>2, <1>k DEF HasRecord, TypeOK
<1>6. CASE Die(t)
  BY <1>6, <1>o DEF Die, Tainted, OwnerOf, HasRecord, At, Goto, TypeOK
<1>7. CASE GuardAlloc(t)
  BY <1>7, <1>o DEF GuardAlloc, Tainted, OwnerOf, HasRecord, At, Goto, TypeOK
<1>8. CASE GuardFree(t)
  <2>1. hzp' = [hzp EXCEPT ![FreedSlot(t)] = Null] /\ UNCHANGED <<rec, pc, ptr, alive>>
    BY <1>8 DEF GuardFree, StoreSlot, Expose
  <2>2. HasRecord(u) /\ rec[u] \in Rec
    BY <1>o, <2>1 DEF HasRecord
  <2>3. ASSUME NEW i \in Idx, hzp'[<<rec[u], i>>] \in S PROVE hzp[<<rec[u], i>>] \in S
    BY <2>1, <2>2, <2>3, NullAssumption DEF TypeOK, Slot
  <2> QED
    BY <2>1, <2>2, <2>3, <1>k
<1>9. ASSUME NEW i \in Idx, NEW l \in Link, Deref(t, i, l) PROVE Goal
  <2>1. /\ link[l] \notin S /\ ptr' = [ptr EXCEPT ![t] = link[l]] /\ pc' = [pc EXCEPT ![t] = "store"]
        /\ UNCHANGED <<hzp, rec, alive>>
    BY <1>9, NullAssumption DEF Deref, Goto, ILink
  <2>2. HasRecord(u)
    BY <1>9, <2>1 DEF Deref, HasRecord, At, TypeOK
  <2>3. pc'[u] = "store" => u = t \/ (pc[u] = "store" /\ ptr'[u] = ptr[u])
    BY <2>1 DEF TypeOK
  <2> QED
    BY <2>1, <2>2, <2>3 DEF Tainted, TypeOK
<1>10. CASE StoreHP(t)
  <2>1. /\ hzp' = [hzp EXCEPT ![<<rec[t], guard[t]>>] = ptr[t]] /\ pc' = [pc EXCEPT ![t] = "check"]
        /\ UNCHANGED <<ptr, rec, alive>> /\ pc[t] = "store" /\ HasRecord(t) /\ rec[t] \in Rec
    BY <1>10, <1>o DEF StoreHP, StoreSlot, Expose, Goto, At, HasRecord
  <2>2. HasRecord(u) /\ rec[u] \in Rec
    BY <1>o, <2>1 DEF HasRecord, TypeOK
  <2>3. CASE u = t
    BY <2>1, <2>2, <2>3 DEF Tainted, TypeOK, Slot
  <2>4. CASE u # t
    <3>1. \A i \in Idx : hzp'[<<rec[u], i>>] = hzp[<<rec[u], i>>]
      BY <2>1, <2>2, <2>4, RecordsDiffer DEF TypeOK, Slot
    <3> QED
      BY <2>1, <2>2, <2>4, <3>1, <1>k DEF TypeOK
  <2> QED
    BY <2>3, <2>4
<1>11. CASE CheckLink(t)
  <2>1. UNCHANGED <<hzp, rec, alive>> /\ pc'[t] \in {"idle", "deref"} /\ pc[t] = "check"
    BY <1>11 DEF CheckLink, At, Goto, TypeOK
  <2>2. u # t => pc'[u] = pc[u] /\ ptr'[u] = ptr[u]
    BY <1>11 DEF CheckLink, Goto, TypeOK
  <2>3. HasRecord(u)
    BY <2>1, <2>2 DEF HasRecord
  <2> QED
    BY <2>1, <2>2, <2>3, <1>k
<1>12. CASE Drain(t)
  BY <1>12 DEF Drain, IStore
<1>13. ASSUME NEW l \in Link, NEW n \in Node, Insert(t, l, n) PROVE Goal
  BY <1>13, <1>o DEF Insert, Tainted, OwnerOf, HasRecord, At, Goto, TypeOK
<1>14. ASSUME NEW l \in Link, Unlink(t, l) PROVE Goal
  BY <1>14, <1>o DEF Unlink, Tainted, OwnerOf, HasRecord, At, Goto, TypeOK
<1>15. CASE RetirePtr(t)
  BY <1>15, <1>o DEF RetirePtr, Tainted, OwnerOf, HasRecord, At, Goto, TypeOK
<1>16. CASE ScanHead(t)
  BY <1>16, <1>o DEF ScanHead, Tainted, OwnerOf, HasRecord, At, Goto, TypeOK
<1>17. CASE ScanSlot(t)
  BY <1>17, <1>o DEF ScanSlot, Tainted, OwnerOf, HasRecord, At, Goto, TypeOK
<1>18. CASE Sweep(t)
  BY <1>18, <1>o DEF Sweep, Deferred, Tainted, OwnerOf, HasRecord, At, Goto, TypeOK
<1>19. CASE HelpHead(t)
  BY <1>19, <1>o DEF HelpHead, Tainted, OwnerOf, HasRecord, At, Goto, TypeOK
<1>20. CASE HelpRead(t)
  <2>1. UNCHANGED <<hzp, ptr, rec, alive>> /\ (pc'[u] = "store" => pc[u] = "store") /\ HasRecord(u)
    BY <1>20 DEF HelpRead, HasRecord, At, Goto, TypeOK
  <2> QED
    BY <2>1, <1>k
<1>21. CASE HelpDone(t)
  BY <1>21, <1>o DEF HelpDone, Tainted, OwnerOf, HasRecord, At, Goto, TypeOK
<1>22. CASE HelpOwner(t)
  BY <1>22, <1>o DEF HelpOwner, Tainted, OwnerOf, HasRecord, At, Goto, TypeOK
<1>23. CASE HelpCas(t)
  <2>1. UNCHANGED <<hzp, ptr, rec, alive>> /\ (pc'[u] = "store" => pc[u] = "store") /\ HasRecord(u)
    BY <1>23 DEF HelpCas, HasRecord, At, Goto, TypeOK
  <2> QED
    BY <2>1, <1>k
<1>24. ASSUME NEW n \in Node, HelpMove(t, n) PROVE Goal
  <2>1. UNCHANGED <<hzp, ptr, rec, alive>> /\ (pc'[u] = "store" => pc[u] = "store") /\ HasRecord(u)
    BY <1>24 DEF HelpMove, HasRecord, At, Goto, TypeOK
  <2> QED
    BY <2>1, <1>k
<1>25. CASE HelpClear(t)
  BY <1>25, <1>o DEF HelpClear, Emptied, Tainted, OwnerOf, HasRecord, At, Goto, TypeOK
<1>26. CASE HelpRelease(t)
  BY <1>26, <1>o DEF HelpRelease, Tainted, OwnerOf, HasRecord, At, Goto, TypeOK
<1>27. ASSUME NEW i \in Idx, NEW j \in Idx, GuardCopy(t, i, j) PROVE Goal
  <2>1. /\ hzp' = [hzp EXCEPT ![<<rec[t], j>>] = using[<<rec[t], i>>]]
        /\ using[<<rec[t], i>>] \in Node /\ rec[t] \in Rec /\ HasRecord(t)
        /\ UNCHANGED <<ptr, rec, pc, alive>>
    BY <1>27, <1>o DEF GuardCopy, R!Copy, At, HasRecord
  <2>2. HasRecord(u) /\ rec[u] \in Rec
    BY <1>o, <2>1 DEF HasRecord
  <2>3. hzp[<<rec[t], i>>] = using[<<rec[t], i>>]
    BY <2>1 DEF IUse, Slot
  <2>4. ASSUME NEW k \in Idx, hzp'[<<rec[u], k>>] \in S
        PROVE  \E m \in Idx : hzp[<<rec[u], m>>] \in S
    <3>1. CASE u = t /\ k = j
      BY <2>1, <2>3, <2>4, <3>1 DEF TypeOK, Slot
    <3>2. CASE ~(u = t /\ k = j)
      <4>1. <<rec[u], k>> # <<rec[t], j>>
        BY <2>1, <2>2, <3>2, RecordsDiffer
      <4> QED
        BY <2>1, <2>2, <2>4, <4>1 DEF TypeOK, Slot
    <3> QED
      BY <3>1, <3>2
  <2> QED
    BY <2>1, <2>2, <2>4 DEF Tainted
<1> QED
  BY <1>1, <1>2, <1>3, <1>4, <1>5, <1>6, <1>7, <1>8, <1>9, <1>10, <1>11, <1>12, <1>13, <1>14, <1>15, <1>16, <1>17, <1>18, <1>19, <1>20, <1>21, <1>22, <1>23, <1>24, <1>25, <1>26, <1>27
  DEF Step, PlainStep, Copying, Attaching, Guarding, Scanning, Helping, Mutating

\* A thread that is not scanning has room in its array.
LEMMA HasRoom ==
  ASSUME TypeOK, IOwner, IFull, NEW t \in Thread, HasRecord(t), pc[t] \notin {"scan0", "scan"}
  PROVE  /\ rec[t] \in Rec /\ IsFiniteSet(arrRetired[rec[t]])
         /\ Cardinality(arrRetired[rec[t]]) < MaxRetired /\ Cardinality(arrRetired[rec[t]]) \in Nat
<1>1. rec[t] \in Rec
  BY OwnsRecord
<1>2. Cardinality(arrRetired[rec[t]]) # MaxRetired
  BY <1>1, RecordsDiffer DEF IFull
<1>3. Cardinality(arrRetired[rec[t]]) \in Nat
  BY <1>1, FS_CardinalityType DEF IFull
<1> QED
  BY <1>1, <1>2, <1>3, BoundAssumption DEF IFull

\* Every step keeps the arrays within bounds: a push that fills one leads to a scan,
\* and a sweep leaves at most as many entries as there are slots.
LEMMA StepFull == Roomy /\ IBase /\ IFull /\ IRoom /\ Next => IFull'
<1> SUFFICES ASSUME Roomy, TypeOK, IOwner, IFull, IRoom, NEW t \in Thread, Step(t), NEW r \in Rec
             PROVE  /\ IsFiniteSet(arrRetired'[r]) /\ Cardinality(arrRetired'[r]) <= MaxRetired
                    /\ Cardinality(arrRetired'[r]) = MaxRetired =>
                          \E v \in Thread : HasRecord(v)' /\ rec'[v] = r /\ pc'[v] \in {"scan0", "scan"}
  BY DEF Next, IBase, IFull
<1> DEFINE Goal == /\ IsFiniteSet(arrRetired'[r]) /\ Cardinality(arrRetired'[r]) <= MaxRetired
                   /\ Cardinality(arrRetired'[r]) = MaxRetired =>
                         \E v \in Thread : HasRecord(v)' /\ rec'[v] = r /\ pc'[v] \in {"scan0", "scan"}
           Stays == \A v \in Thread : HasRecord(v) /\ pc[v] \in {"scan0", "scan"} =>
                       HasRecord(v)' /\ rec'[v] = rec[v] /\ pc'[v] \in {"scan0", "scan"}
<1> SUFFICES Goal
  OBVIOUS
<1>k. arrRetired'[r] = arrRetired[r] /\ Stays => Goal
  <2> SUFFICES ASSUME arrRetired'[r] = arrRetired[r], Stays PROVE Goal
    OBVIOUS
  <2>1. IsFiniteSet(arrRetired'[r]) /\ Cardinality(arrRetired'[r]) <= MaxRetired
    BY DEF IFull
  <2>2. ASSUME Cardinality(arrRetired'[r]) = MaxRetired
        PROVE  \E v \in Thread : HasRecord(v)' /\ rec'[v] = r /\ pc'[v] \in {"scan0", "scan"}
    <3>1. PICK v \in Thread : HasRecord(v) /\ rec[v] = r /\ pc[v] \in {"scan0", "scan"}
      BY <2>2 DEF IFull
    <3> QED
      BY <3>1
  <2> QED
    BY <2>1, <2>2
<1>e. Cardinality(Thread \X Idx) \in Nat /\ 0 < MaxRetired
  BY FS_CardinalityType, BoundAssumption DEF Roomy
<1>o. OwnerOf(t) /\ (HasRecord(t) => rec[t] \in Rec) /\ (hcur[t] # 0 => hcur[t] \in Rec) /\ (cur[t] # 0 => cur[t] \in Rec)
  BY OwnsRecord DEF IOwner
<1>p. ASSUME NEW n, NEW there, HasRecord(t), pc[t] \notin {"scan0", "scan"}, UNCHANGED <<rec, alive>>,
             arrRetired' = [arrRetired EXCEPT ![rec[t]] = arrRetired[rec[t]] \cup {n}],
             pc' = [pc EXCEPT ![t] = IF IsFull(arrRetired'[rec[t]]) THEN "scan0" ELSE there]
      PROVE  Goal
  <2>1. /\ rec[t] \in Rec /\ IsFiniteSet(arrRetired[rec[t]])
        /\ Cardinality(arrRetired[rec[t]]) < MaxRetired /\ Cardinality(arrRetired[rec[t]]) \in Nat
    BY <1>p, HasRoom
  <2>2. CASE r = rec[t]
    <3>1. arrRetired'[r] = arrRetired[r] \cup {n}
      BY <1>p, <2>1, <2>2 DEF TypeOK
    <3>2. IsFiniteSet(arrRetired'[r]) /\ Cardinality(arrRetired'[r]) <= MaxRetired
      <4>1. IsFiniteSet(arrRetired[r]) /\ Cardinality(arrRetired[r]) < MaxRetired /\ Cardinality(arrRetired[r]) \in Nat
        BY <2>1, <2>2
      <4>2. /\ IsFiniteSet(arrRetired[r] \cup {n})
            /\ Cardinality(arrRetired[r] \cup {n}) \in {Cardinality(arrRetired[r]), Cardinality(arrRetired[r]) + 1}
        BY <4>1, FS_AddElement
      <4> QED
        BY <3>1, <4>1, <4>2, BoundAssumption
    <3>3. Cardinality(arrRetired'[r]) = MaxRetired => HasRecord(t)' /\ rec'[t] = r /\ pc'[t] = "scan0"
      BY <1>p, <2>2, BoundAssumption DEF IsFull, HasRecord, TypeOK
    <3> QED
      BY <3>2, <3>3
  <2>3. CASE r # rec[t]
    <3>1. arrRetired'[r] = arrRetired[r] /\ Stays
      BY <1>p, <2>3 DEF HasRecord, TypeOK
    <3> QED
      BY <1>k, <3>1
  <2> QED
    BY <2>2, <2>3
<1> HIDE DEF Goal
<1> USE DEF recVars, heapVars, hazVars, derefVars, scanVars, helpVars
<1>1. CASE AttachBegin(t)
  <2>1. arrRetired'[r] = arrRetired[r] /\ Stays
    BY <1>1, <1>o DEF AttachBegin, HasRecord, At, Goto, TypeOK
  <2> QED
    BY <1>k, <2>1
<1>2. CASE AttachTry(t)
  <2>1. arrRetired'[r] = arrRetired[r] /\ Stays
    BY <1>2, <1>o DEF AttachTry, HasRecord, At, Goto, TypeOK
  <2> QED
    BY <1>k, <2>1
<1>3. CASE AttachSet(t)
  <2>1. arrRetired'[r] = arrRetired[r] /\ Stays
    BY <1>3, <1>o DEF AttachSet, HasRecord, At, Goto, TypeOK
  <2> QED
    BY <1>k, <2>1
<1>4. CASE AttachNew(t)
  <2>1. arrRetired'[r] = arrRetired[r] /\ Stays
    BY <1>4, <1>o DEF AttachNew, HasRecord, At, Goto, TypeOK
  <2> QED
    BY <1>k, <2>1
<1>5. CASE Detach(t)
  <2>1. arrRetired'[r] = arrRetired[r] /\ Stays
    BY <1>5, <1>o DEF Detach, HasRecord, At, Goto, TypeOK
  <2> QED
    BY <1>k, <2>1
<1>6. CASE Die(t)
  <2>1. arrRetired'[r] = arrRetired[r] /\ Stays
    BY <1>6, <1>o DEF Die, HasRecord, At, Goto, TypeOK
  <2> QED
    BY <1>k, <2>1
<1>7. CASE GuardAlloc(t)
  <2>1. arrRetired'[r] = arrRetired[r] /\ Stays
    BY <1>7, <1>o DEF GuardAlloc, HasRecord, At, Goto, TypeOK
  <2> QED
    BY <1>k, <2>1
<1>8. CASE GuardFree(t)
  <2>1. arrRetired'[r] = arrRetired[r] /\ Stays
    BY <1>8, <1>o DEF GuardFree, StoreSlot, Expose, HasRecord, At, Goto, TypeOK
  <2> QED
    BY <1>k, <2>1
<1>9. ASSUME NEW i \in Idx, NEW l \in Link, Deref(t, i, l) PROVE Goal
  <2>1. arrRetired'[r] = arrRetired[r] /\ Stays
    BY <1>9, <1>o DEF Deref, HasRecord, At, Goto, TypeOK
  <2> QED
    BY <1>k, <2>1
<1>10. CASE StoreHP(t)
  <2>1. arrRetired'[r] = arrRetired[r] /\ Stays
    BY <1>10, <1>o DEF StoreHP, StoreSlot, Expose, HasRecord, At, Goto, TypeOK
  <2> QED
    BY <1>k, <2>1
<1>11. CASE CheckLink(t)
  <2>1. arrRetired'[r] = arrRetired[r] /\ Stays
    BY <1>11, <1>o DEF CheckLink, HasRecord, At, Goto, TypeOK
  <2> QED
    BY <1>k, <2>1
<1>12. CASE Drain(t)
  <2>1. arrRetired'[r] = arrRetired[r] /\ Stays
    BY <1>12, <1>o DEF Drain, HasRecord, At, Goto, TypeOK
  <2> QED
    BY <1>k, <2>1
<1>13. ASSUME NEW l \in Link, NEW n \in Node, Insert(t, l, n) PROVE Goal
  <2>1. arrRetired'[r] = arrRetired[r] /\ Stays
    BY <1>13, <1>o DEF Insert, HasRecord, At, Goto, TypeOK
  <2> QED
    BY <1>k, <2>1
<1>14. ASSUME NEW l \in Link, Unlink(t, l) PROVE Goal
  <2>1. arrRetired'[r] = arrRetired[r] /\ Stays
    BY <1>14, <1>o DEF Unlink, HasRecord, At, Goto, TypeOK
  <2> QED
    BY <1>k, <2>1
<1>15. CASE RetirePtr(t)
  <2>1. /\ arrRetired' = [arrRetired EXCEPT ![rec[t]] = arrRetired[rec[t]] \cup {ptr[t]}]
        /\ pc' = [pc EXCEPT ![t] = IF IsFull(arrRetired'[rec[t]]) THEN "scan0" ELSE "idle"]
        /\ UNCHANGED <<rec, alive>> /\ HasRecord(t) /\ pc[t] \notin {"scan0", "scan"}
    BY <1>15 DEF RetirePtr, Goto, At, HasRecord
  <2> QED
    BY <1>p, <2>1
<1>16. CASE ScanHead(t)
  <2>1. arrRetired'[r] = arrRetired[r] /\ Stays
    BY <1>16, <1>o DEF ScanHead, HasRecord, At, Goto, TypeOK
  <2> QED
    BY <1>k, <2>1
<1>17. CASE ScanSlot(t)
  <2>1. arrRetired'[r] = arrRetired[r] /\ Stays
    BY <1>17, <1>o DEF ScanSlot, HasRecord, At, Goto, TypeOK
  <2> QED
    BY <1>k, <2>1
<1>18. CASE Sweep(t)
  <2>1. /\ arrRetired' = [arrRetired EXCEPT ![rec[t]] = Seen(t)] /\ pc[t] = "scan"
        /\ UNCHANGED <<rec, alive>> /\ HasRecord(t) /\ rec[t] \in Rec /\ pc' = [pc EXCEPT ![t] = pc'[t]]
    BY <1>18, <1>o DEF Sweep, Deferred, Seen, Goto, At, HasRecord, TypeOK
  <2>2. CASE r = rec[t]
    <3>1. Cardinality(Open(t)) \in Nat
      <4>1. Open(t) \in SUBSET (Thread \X Idx)
        BY DEF Open
      <4> QED
        BY <4>1, FS_Subset, FS_CardinalityType DEF Roomy
    <3>2. IsFiniteSet(Seen(t)) /\ Cardinality(Seen(t)) \in Nat
      <4>1. Seen(t) \in SUBSET arrRetired[r]
        BY <2>2 DEF Seen
      <4> QED
        BY <4>1, FS_Subset, FS_CardinalityType DEF IFull
    <3>3. Cardinality(Seen(t)) < MaxRetired
      <4>1. Cardinality(Seen(t)) + Cardinality(Open(t)) <= Cardinality(Thread \X Idx)
        BY <2>1 DEF IRoom
      <4> QED
        BY <1>e, <3>1, <3>2, <4>1, BoundAssumption DEF Roomy
    <3>4. arrRetired'[r] = Seen(t)
      BY <2>1, <2>2 DEF TypeOK
    <3> QED
      BY <3>2, <3>3, <3>4, BoundAssumption DEF Goal
  <2>3. CASE r # rec[t]
    <3>1. arrRetired'[r] = arrRetired[r]
      BY <2>1, <2>3
    <3>2. \A v \in Thread : v # t => pc'[v] = pc[v]
      BY <2>1 DEF TypeOK
    <3>3. \A v \in Thread : HasRecord(v) /\ v # t /\ pc[v] \in {"scan0", "scan"} =>
             HasRecord(v)' /\ rec'[v] = rec[v] /\ pc'[v] \in {"scan0", "scan"}
      BY <2>1, <3>2 DEF HasRecord
    <3>4. Cardinality(arrRetired'[r]) = MaxRetired =>
             \E v \in Thread : HasRecord(v) /\ v # t /\ rec[v] = r /\ pc[v] \in {"scan0", "scan"}
      BY <2>3, <3>1 DEF IFull
    <3> QED
      BY <3>1, <3>3, <3>4 DEF IFull, Goal
  <2> QED
    BY <2>2, <2>3
<1>19. CASE HelpHead(t)
  <2>1. arrRetired'[r] = arrRetired[r] /\ Stays
    BY <1>19, <1>o DEF HelpHead, HasRecord, At, Goto, TypeOK
  <2> QED
    BY <1>k, <2>1
<1>20. CASE HelpRead(t)
  <2>1. arrRetired'[r] = arrRetired[r] /\ Stays
    BY <1>20, <1>o DEF HelpRead, HasRecord, At, Goto, TypeOK
  <2> QED
    BY <1>k, <2>1
<1>21. CASE HelpDone(t)
  <2>1. arrRetired'[r] = arrRetired[r] /\ Stays
    BY <1>21, <1>o DEF HelpDone, HasRecord, At, Goto, TypeOK
  <2> QED
    BY <1>k, <2>1
<1>22. CASE HelpOwner(t)
  <2>1. arrRetired'[r] = arrRetired[r] /\ Stays
    BY <1>22, <1>o DEF HelpOwner, HasRecord, At, Goto, TypeOK
  <2> QED
    BY <1>k, <2>1
<1>23. CASE HelpCas(t)
  <2>1. arrRetired'[r] = arrRetired[r] /\ Stays
    BY <1>23, <1>o DEF HelpCas, HasRecord, At, Goto, TypeOK
  <2> QED
    BY <1>k, <2>1
<1>24. ASSUME NEW n \in Node, HelpMove(t, n) PROVE Goal
  <2>1. /\ arrRetired' = [arrRetired EXCEPT ![rec[t]] = arrRetired[rec[t]] \cup {n}]
        /\ pc' = [pc EXCEPT ![t] = IF IsFull(arrRetired'[rec[t]]) THEN "scan0" ELSE "move"]
        /\ UNCHANGED <<rec, alive>> /\ HasRecord(t) /\ pc[t] \notin {"scan0", "scan"}
    BY <1>24 DEF HelpMove, Goto, At, HasRecord, TypeOK
  <2> QED
    BY <1>p, <2>1
<1>25. CASE HelpClear(t)
  <2>1. /\ arrRetired' = [arrRetired EXCEPT ![hcur[t]] = {}] /\ pc[t] = "move"
        /\ UNCHANGED <<rec, alive>> /\ pc' = [pc EXCEPT ![t] = "release"]
    BY <1>25 DEF HelpClear, Emptied, Goto, At
  <2>2. CASE r = hcur[t]
    <3>1. arrRetired'[r] = {}
      BY <2>1, <2>2 DEF TypeOK
    <3>2. IsFiniteSet(arrRetired'[r]) /\ Cardinality(arrRetired'[r]) = 0
      BY <3>1, FS_EmptySet
    <3> QED
      BY <1>e, <3>2, BoundAssumption DEF Goal
  <2>3. CASE r # hcur[t]
    <3>1. arrRetired'[r] = arrRetired[r] /\ Stays
      BY <2>1, <2>3 DEF HasRecord, TypeOK
    <3> QED
      BY <1>k, <3>1
  <2> QED
    BY <2>2, <2>3
<1>26. CASE HelpRelease(t)
  <2>1. arrRetired'[r] = arrRetired[r] /\ Stays
    BY <1>26, <1>o DEF HelpRelease, HasRecord, At, Goto, TypeOK
  <2> QED
    BY <1>k, <2>1
<1>27. ASSUME NEW i \in Idx, NEW j \in Idx, GuardCopy(t, i, j) PROVE Goal
  <2>1. arrRetired'[r] = arrRetired[r] /\ Stays
    BY <1>27, <1>o DEF GuardCopy, R!Copy, HasRecord, At, Goto, TypeOK
  <2> QED
    BY <1>k, <2>1
<1> QED
  BY <1>1, <1>2, <1>3, <1>4, <1>5, <1>6, <1>7, <1>8, <1>9, <1>10, <1>11, <1>12, <1>13, <1>14, <1>15, <1>16, <1>17, <1>18, <1>19, <1>20, <1>21, <1>22, <1>23, <1>24, <1>25, <1>26, <1>27
  DEF Step, PlainStep, Copying, Attaching, Guarding, Scanning, Helping, Mutating

\* A scan is advanced by its own thread only, and its array does not change meanwhile.
LEMMA Bystander ==
  ASSUME TypeOK, IOwner, IStore, NEW t \in Thread, Step(t), NEW v \in Thread, pc'[v] = "scan"
  PROVE  \/ v = t /\ (ScanHead(t) \/ ScanSlot(t))
         \/ /\ v # t /\ pc[v] = "scan"
            /\ UNCHANGED <<rec[v], cur[v], idx[v], plist[v], arrRetired[rec[v]]>>
<1>o. /\ \A w \in {t, v} : /\ OwnerOf(w)
                           /\ HasRecord(w) => rec[w] \in Rec
                           /\ hcur[w] # 0 => hcur[w] \in Rec
                           /\ cur[w] # 0 => cur[w] \in Rec
      /\ HasRecord(v) /\ HasRecord(t) /\ v # t => rec[v] # rec[t]
  BY OwnsRecord, RecordsDiffer DEF IOwner
<1> USE DEF recVars, heapVars, hazVars, derefVars, scanVars, helpVars
<1> DEFINE Goal == \/ v = t /\ (ScanHead(t) \/ ScanSlot(t))
                   \/ /\ v # t /\ pc[v] = "scan"
                      /\ UNCHANGED <<rec[v], cur[v], idx[v], plist[v], arrRetired[rec[v]]>>
<1>1. CASE AttachBegin(t)
  BY <1>1, <1>o DEF AttachBegin, OwnerOf, HasRecord, Adopting, At, Goto, TypeOK
<1>2. CASE AttachTry(t)
  BY <1>2, <1>o DEF AttachTry, OwnerOf, HasRecord, Adopting, At, Goto, TypeOK
<1>3. CASE AttachSet(t)
  BY <1>3, <1>o DEF AttachSet, OwnerOf, HasRecord, Adopting, At, Goto, TypeOK
<1>4. CASE AttachNew(t)
  BY <1>4, <1>o DEF AttachNew, OwnerOf, HasRecord, Adopting, At, Goto, TypeOK
<1>5. CASE Detach(t)
  BY <1>5, <1>o DEF Detach, OwnerOf, HasRecord, Adopting, At, Goto, TypeOK
<1>6. CASE Die(t)
  BY <1>6, <1>o DEF Die, OwnerOf, HasRecord, Adopting, At, Goto, TypeOK
<1>7. CASE GuardAlloc(t)
  BY <1>7, <1>o DEF GuardAlloc, OwnerOf, HasRecord, Adopting, At, Goto, TypeOK
<1>8. CASE GuardFree(t)
  BY <1>8, <1>o DEF GuardFree, StoreSlot, Expose, OwnerOf, HasRecord, Adopting, At, Goto, TypeOK
<1>9. ASSUME NEW i \in Idx, NEW l \in Link, Deref(t, i, l) PROVE Goal
  BY <1>9, <1>o DEF Deref, OwnerOf, HasRecord, Adopting, At, Goto, TypeOK
<1>10. CASE StoreHP(t)
  BY <1>10, <1>o DEF StoreHP, StoreSlot, Expose, OwnerOf, HasRecord, Adopting, At, Goto, TypeOK
<1>11. CASE CheckLink(t)
  BY <1>11, <1>o DEF CheckLink, OwnerOf, HasRecord, Adopting, At, Goto, TypeOK
<1>12. CASE Drain(t)
  BY <1>12 DEF Drain, IStore
<1>13. ASSUME NEW l \in Link, NEW n \in Node, Insert(t, l, n) PROVE Goal
  BY <1>13, <1>o DEF Insert, OwnerOf, HasRecord, Adopting, At, Goto, TypeOK
<1>14. ASSUME NEW l \in Link, Unlink(t, l) PROVE Goal
  BY <1>14, <1>o DEF Unlink, OwnerOf, HasRecord, Adopting, At, Goto, TypeOK
<1>15. CASE RetirePtr(t)
  BY <1>15, <1>o DEF RetirePtr, OwnerOf, HasRecord, Adopting, At, Goto, TypeOK
<1>16. CASE ScanHead(t)
  BY <1>16, <1>o DEF ScanHead, OwnerOf, HasRecord, Adopting, At, Goto, TypeOK
<1>17. CASE ScanSlot(t)
  BY <1>17, <1>o DEF ScanSlot, OwnerOf, HasRecord, Adopting, At, Goto, TypeOK
<1>18. CASE Sweep(t)
  BY <1>18, <1>o DEF Sweep, Deferred, OwnerOf, HasRecord, Adopting, At, Goto, TypeOK
<1>19. CASE HelpHead(t)
  BY <1>19, <1>o DEF HelpHead, OwnerOf, HasRecord, Adopting, At, Goto, TypeOK
<1>20. CASE HelpRead(t)
  BY <1>20, <1>o DEF HelpRead, OwnerOf, HasRecord, Adopting, At, Goto, TypeOK
<1>21. CASE HelpDone(t)
  BY <1>21, <1>o DEF HelpDone, OwnerOf, HasRecord, Adopting, At, Goto, TypeOK
<1>22. CASE HelpOwner(t)
  BY <1>22, <1>o DEF HelpOwner, OwnerOf, HasRecord, Adopting, At, Goto, TypeOK
<1>23. CASE HelpCas(t)
  BY <1>23, <1>o DEF HelpCas, OwnerOf, HasRecord, Adopting, At, Goto, TypeOK
<1>24. ASSUME NEW n \in Node, HelpMove(t, n) PROVE Goal
  BY <1>24, <1>o DEF HelpMove, OwnerOf, HasRecord, Adopting, At, Goto, TypeOK
<1>25. CASE HelpClear(t)
  BY <1>25, <1>o DEF HelpClear, Emptied, OwnerOf, HasRecord, Adopting, At, Goto, TypeOK
<1>26. CASE HelpRelease(t)
  BY <1>26, <1>o DEF HelpRelease, OwnerOf, HasRecord, Adopting, At, Goto, TypeOK
<1>27. ASSUME NEW i \in Idx, NEW j \in Idx, GuardCopy(t, i, j) PROVE Goal
  BY <1>27, <1>o DEF GuardCopy, R!Copy, OwnerOf, HasRecord, Adopting, At, Goto, TypeOK
<1> QED
  BY <1>1, <1>2, <1>3, <1>4, <1>5, <1>6, <1>7, <1>8, <1>9, <1>10, <1>11, <1>12, <1>13, <1>14, <1>15, <1>16, <1>17, <1>18, <1>19, <1>20, <1>21, <1>22, <1>23, <1>24, <1>25, <1>26, <1>27
  DEF Step, PlainStep, Copying, Attaching, Guarding, Scanning, Helping, Mutating

\* There are no more open slots than slots.
LEMMA OpenFinite ==
  ASSUME Roomy, NEW t
  PROVE  IsFiniteSet(Open(t)) /\ Cardinality(Open(t)) \in Nat
         /\ Cardinality(Open(t)) <= Cardinality(Thread \X Idx)
<1>1. Open(t) \in SUBSET (Thread \X Idx)
  BY DEF Open
<1> QED
  BY <1>1, FS_Subset, FS_CardinalityType DEF Roomy

\* A scan has met finitely many entries.
LEMMA SeenFinite ==
  ASSUME TypeOK, IOwner, IFull, NEW t \in Thread, HasRecord(t)
  PROVE  rec[t] \in Rec /\ IsFiniteSet(Seen(t)) /\ Cardinality(Seen(t)) \in Nat
<1>1. rec[t] \in Rec
  BY OwnsRecord
<1>2. Seen(t) \in SUBSET arrRetired[rec[t]] /\ IsFiniteSet(arrRetired[rec[t]])
  BY <1>1 DEF Seen, IFull
<1> QED
  BY <1>1, <1>2, FS_Subset, FS_CardinalityType

\* A slot that holds a node belongs to an attached thread.
LEMMA SlotHasOwner ==
  ASSUME TypeOK, ISlot, IUnused, NEW r \in Rec, NEW i \in Idx, hzp[<<r, i>>] \in Node
  PROVE  \E u \in Thread : HasRecord(u) /\ rec[u] = r
<1>1. top[r] # HPCount
  BY NullAssumption, BoundAssumption DEF ISlot, Idx
<1> QED
  BY <1>1 DEF IUnused

\* Every step keeps room: what one scan meets, all threads together hold in slots.
LEMMA StepRoom ==
  Roomy /\ Fenced /\ IBase /\ IStore /\ ISlot /\ IUse /\ IUnused /\ IFull /\ IRoom /\ Next => IRoom'
<1> SUFFICES ASSUME Roomy, Fenced, TypeOK, IOwner, IHome, ILink, IStore, ISlot, IUse, IUnused, IFull, IRoom,
                    NEW t \in Thread, Step(t), NEW v \in Thread, pc'[v] = "scan"
             PROVE  Cardinality(Seen(v)') + Cardinality(Open(v)') <= Cardinality(Thread \X Idx)
  BY DEF Next, IBase, IRoom
<1> USE DEF recVars, heapVars, hazVars, derefVars, scanVars, helpVars
<1>1. CASE v # t
  <2>1. pc[v] = "scan" /\ UNCHANGED <<rec[v], cur[v], idx[v], plist[v], arrRetired[rec[v]]>>
    BY <1>1, Bystander
  <2>2. HasRecord(v) /\ rec[v] \in Rec
    BY <2>1, OwnsRecord DEF HasRecord, IOwner, OwnerOf
  <2>3. Seen(v)' = Seen(v)
    BY <2>1 DEF Seen
  <2>4. Open(v)' \subseteq Open(v)
    <3>1. PICK S \in SUBSET Node : S = arrRetired[rec[v]]
      BY <2>2 DEF TypeOK
    <3>2. \A n \in S : status[n] = "retired"
      <4>1. owner[rec[v]] = v /\ (Adopting(v) => hcur[v] # rec[v])
        BY <2>2 DEF IOwner, OwnerOf
      <4>2. Pending(rec[v]) = S
        BY <3>1, <4>1 DEF Pending, Adopted
      <4> QED
        BY <2>2, <4>2 DEF IHome
    <3>3. ASSUME NEW c \in Open(v)' PROVE c \in Open(v)
      <4>1. c \in Thread \X Idx /\ HasRecord(c[1])' /\ Tainted(c[1], S)' /\ ~Passed(v, rec[c[1]], c[2])'
        BY <2>1, <3>1, <3>3 DEF Open, Tainted
      <4>2. HasRecord(c[1]) /\ Tainted(c[1], S) /\ rec'[c[1]] = rec[c[1]]
        BY <3>2, <4>1, TaintFades
      <4> QED
        BY <2>1, <3>1, <4>1, <4>2 DEF Open, Passed
    <3> QED
      BY <3>3
  <2>5. Cardinality(Open(v)') <= Cardinality(Open(v)) /\ Cardinality(Open(v)') \in Nat
    BY <2>4, OpenFinite, FS_Subset, FS_CardinalityType
  <2>6. Cardinality(Seen(v)) + Cardinality(Open(v)) <= Cardinality(Thread \X Idx)
    BY <2>1 DEF IRoom
  <2> QED
    BY <2>2, <2>3, <2>5, <2>6, OpenFinite, SeenFinite, FS_CardinalityType DEF Roomy
<1>2. CASE v = t /\ ScanHead(t)
  <2>1. Seen(t)' = {}
    BY <1>2 DEF ScanHead, Seen, TypeOK
  <2>2. Open(t)' \in SUBSET (Thread \X Idx)
    BY DEF Open
  <2>3. Cardinality(Seen(t)') = 0 /\ Cardinality(Open(t)') <= Cardinality(Thread \X Idx) /\ Cardinality(Open(t)') \in Nat
    BY <2>1, <2>2, FS_EmptySet, FS_Subset, FS_CardinalityType DEF Roomy
  <2> QED
    BY <1>2, <2>3
<1>3. CASE v = t /\ ScanSlot(t)
  <2>1. /\ pc[t] = "scan" /\ HasRecord(t) /\ rec[t] \in Rec /\ cur[t] \in Rec /\ idx[t] \in Idx /\ alive[t]
        /\ UNCHANGED <<recVars, heapVars, hazVars, derefVars, helpVars, pc, alive, rec>>
        /\ plist' = [plist EXCEPT ![t] = plist[t] \cup SeenIn(<<cur[t], idx[t]>>)]
    <3>1. pc[t] = "scan" /\ alive[t] /\ cur[t] > 0 /\ idx[t] \in Idx
      BY <1>3 DEF ScanSlot, At, TypeOK
    <3>2. HasRecord(t) /\ rec[t] \in Rec /\ cur[t] \in Rec
      BY <3>1, OwnsRecord DEF HasRecord
    <3> QED
      BY <1>3, <3>1, <3>2 DEF ScanSlot
  <2>2. \/ idx'[t] = idx[t] + 1 /\ cur'[t] = cur[t]
        \/ idx'[t] = 0 /\ cur'[t] = cur[t] - 1 /\ idx[t] + 1 >= HPCount
    BY <1>3, <2>1, BoundAssumption DEF ScanSlot, TypeOK, Idx
  <2>3. \A r \in Rec, i \in Idx : Passed(t, r, i) => Passed(t, r, i)'
    BY <2>1, <2>2, BoundAssumption DEF Passed, Rec, Idx
  <2>4. \A r \in Rec, i \in Idx : r = cur[t] /\ i = idx[t] => Passed(t, r, i)' /\ ~Passed(t, r, i)
    BY <2>1, <2>2, BoundAssumption DEF Passed, Rec, Idx
  <2>5. Open(t)' \subseteq Open(t)
    <3>1. ASSUME NEW c \in Open(t)' PROVE c \in Open(t)
      <4>1. c \in Thread \X Idx /\ HasRecord(c[1]) /\ Tainted(c[1], arrRetired[rec[t]]) /\ ~Passed(t, rec[c[1]], c[2])'
        BY <2>1, <3>1 DEF Open, Tainted, HasRecord
      <4>2. rec[c[1]] \in Rec /\ c[2] \in Idx
        BY <4>1, OwnsRecord
      <4> QED
        BY <2>1, <2>3, <4>1, <4>2 DEF Open
    <3> QED
      BY <3>1
  <2>6. Cardinality(Seen(t)) + Cardinality(Open(t)) <= Cardinality(Thread \X Idx)
    BY <2>1 DEF IRoom
  <2>7. /\ IsFiniteSet(Open(t)) /\ Cardinality(Open(t)) \in Nat
        /\ IsFiniteSet(Seen(t)) /\ Cardinality(Seen(t)) \in Nat
        /\ Cardinality(Thread \X Idx) \in Nat
    BY <2>1, OpenFinite, SeenFinite, FS_CardinalityType DEF Roomy
  <2> DEFINE n == hzp[<<cur[t], idx[t]>>]
  <2>8. CASE n \in arrRetired[rec[t]]
    <3>1. n \in Node
      BY <2>1, <2>8 DEF TypeOK
    <3>2. PICK u \in Thread : HasRecord(u) /\ rec[u] = cur[t]
      BY <2>1, <3>1, SlotHasOwner
    <3>3. <<u, idx[t]>> \in Open(t)
      BY <2>1, <2>4, <2>8, <3>2 DEF Open, Tainted
    <3>4. <<u, idx[t]>> \notin Open(t)'
      BY <2>1, <2>4, <3>2 DEF Open
    <3>5. Seen(t)' = Seen(t) \cup {n}
      BY <2>1, <2>8, <3>1, NullAssumption DEF Seen, SeenIn, TypeOK
    <3>6. /\ IsFiniteSet(Seen(t) \cup {n}) /\ Cardinality(Seen(t) \cup {n}) <= Cardinality(Seen(t)) + 1
          /\ Cardinality(Seen(t) \cup {n}) \in Nat
      <4>1. /\ IsFiniteSet(Seen(t) \cup {n})
            /\ Cardinality(Seen(t) \cup {n}) \in {Cardinality(Seen(t)), Cardinality(Seen(t)) + 1}
        BY <2>7, FS_AddElement
      <4> QED
        BY <2>7, <4>1
    <3>7. /\ IsFiniteSet(Open(t) \ {<<u, idx[t]>>})
          /\ Cardinality(Open(t) \ {<<u, idx[t]>>}) = Cardinality(Open(t)) - 1
      BY <2>7, <3>3, FS_RemoveElement
    <3>8. Open(t)' \in SUBSET (Open(t) \ {<<u, idx[t]>>})
      BY <2>5, <3>4
    <3>9. Cardinality(Open(t)') <= Cardinality(Open(t)) - 1 /\ Cardinality(Open(t)') \in Nat
      BY <3>7, <3>8, FS_Subset, FS_CardinalityType
    <3> QED
      BY <1>3, <2>6, <2>7, <3>5, <3>6, <3>9
  <2>9. CASE n \notin arrRetired[rec[t]]
    <3>1. Seen(t)' = Seen(t)
      BY <2>1, <2>9 DEF Seen, SeenIn, TypeOK
    <3>2. Cardinality(Open(t)') <= Cardinality(Open(t)) /\ Cardinality(Open(t)') \in Nat
      BY <2>5, <2>7, FS_Subset, FS_CardinalityType
    <3> QED
      BY <1>3, <2>6, <2>7, <3>1, <3>2
  <2> QED
    BY <2>8, <2>9
<1> QED
  BY <1>1, <1>2, <1>3, Bystander

\* Abandoned pointers are accounted for in every reachable state.
THEOREM RetiredInvariance == Spec => []IRetired
<1>1. Init => IRetired
  BY InitBase, BoundAssumption DEF Init, IRetired, IFree, IKept, IHelp, HasRecord, Adopting
<1>2. IRetired /\ [Next]_vars => IRetired'
  <2>1. IRetired /\ Next => IRetired'
    BY StepBase, StepFree, StepKept, StepHelp DEF IRetired
  <2>2. IRetired /\ UNCHANGED vars => IRetired'
    <3> SUFFICES ASSUME IRetired, UNCHANGED vars PROVE IRetired'
      OBVIOUS
    <3> USE DEF vars, recVars, heapVars, hazVars, derefVars, scanVars, helpVars
    <3>1. IBase'
      BY StepBase DEF IRetired
    <3>2. IFree'
      BY DEF IRetired, IFree, HasRecord, Adopting
    <3>3. IKept'
      BY DEF IRetired, IKept, Pending, Adopted, Adopting
    <3>4. IHelp'
      BY DEF IRetired, IHelp, Awaited, InHelp, Abandoned, Adopting
    <3> QED
      BY <3>1, <3>2, <3>3, <3>4 DEF IRetired
  <2> QED
    BY <2>1, <2>2
<1> QED
  BY <1>1, <1>2, PTL DEF Spec

\* When HelpScan ends, no record is left with pointers that lacked a live owner from its
\* beginning on, however other threads attach, die and adopt meanwhile.
THEOREM AdoptsAll == Spec => []HelpScanAdopts
<1>1. IRetired => HelpScanAdopts
  <2> SUFFICES ASSUME IRetired, NEW t \in Thread, At(t, "help"), hcur[t] = 0, NEW r \in lost[t] PROVE FALSE
    BY DEF HelpScanAdopts
  <2>1. r \in Rec /\ r <= 0
    BY DEF IRetired, IBase, IHelp, Awaited, TypeOK
  <2> QED
    BY <2>1, BoundAssumption DEF Rec
<1> QED
  BY <1>1, RetiredInvariance, PTL

\* Every retired pointer waits in the array of a record that HelpScan does not skip.
THEOREM KeepsAll == Spec => []Findable
<1>1. IRetired => Findable
  <2> SUFFICES ASSUME IRetired, NEW n \in Node, status[n] = "retired"
               PROVE  \E r \in Rec : n \in Pending(r) /\ ~bFree[r]
    BY DEF Findable
  <2>1. PICK r \in Rec : n \in Pending(r)
    BY DEF IRetired, IKept
  <2>2. Pending(r) \subseteq arrRetired[r]
    <3>1. Adopted(r) => owner[r] \in Thread /\ Adopting(owner[r]) /\ hcur[owner[r]] = r
      BY DEF Adopted, IRetired, IBase, TypeOK
    <3> QED
      BY <3>1 DEF Pending, IRetired, IFree
  <2> QED
    BY <2>1, <2>2 DEF IRetired, IFree
<1> QED
  BY <1>1, RetiredInvariance, PTL

\* The arrays are bounded in every reachable state.
THEOREM ArrayInvariance == Fenced /\ Roomy /\ Spec => []IArrays
<1> SUFFICES ASSUME Fenced, Roomy PROVE Spec => []IArrays
  OBVIOUS
<1>1. Init => IArrays
  <2> SUFFICES ASSUME Init PROVE IArrays
    OBVIOUS
  <2>1. IBase /\ IStore /\ ISlot
    BY InitInv DEF IInv
  <2>2. IUse /\ IUnused /\ IRoom
    BY NullAssumption DEF Init, IUse, IUnused, IRoom
  <2>3. IFull
    <3>1. 0 < MaxRetired
      BY FS_CardinalityType, BoundAssumption DEF Roomy
    <3> QED
      <4>1. \A r \in Rec : IsFiniteSet(arrRetired[r]) /\ Cardinality(arrRetired[r]) = 0
        BY FS_EmptySet DEF Init
      <4> QED
        BY <3>1, <4>1, BoundAssumption DEF IFull
  <2> QED
    BY <2>1, <2>2, <2>3 DEF IArrays
<1>2. IArrays /\ [Next]_vars => IArrays'
  <2>1. IArrays /\ Next => IArrays'
    BY StepBase, StepStore, StepSlot, StepUse, StepUnused, StepFull, StepRoom DEF IArrays, IBase
  <2>2. IArrays /\ UNCHANGED vars => IArrays'
    <3> SUFFICES ASSUME IArrays, UNCHANGED vars PROVE IArrays'
      OBVIOUS
    <3>1. IBase'
      BY StepBase DEF IArrays
    <3> USE DEF vars, recVars, heapVars, hazVars, derefVars, scanVars, helpVars
    <3>2. IStore' /\ ISlot' /\ IUse'
      BY DEF IArrays, IStore, ISlot, IUse
    <3>3. IUnused' /\ IFull'
      BY DEF IArrays, IUnused, IFull, HasRecord
    <3>4. \A t : Seen(t)' = Seen(t) /\ Open(t)' = Open(t)
      BY DEF Seen, Open, Tainted, HasRecord, Passed
    <3>5. IRoom'
      BY <3>4 DEF IArrays, IRoom
    <3> QED
      BY <3>1, <3>2, <3>3, <3>5 DEF IArrays
  <2> QED
    BY <2>1, <2>2
<1> QED
  BY <1>1, <1>2, PTL DEF Spec

\* No retired pointer is forgotten, and none is pushed past the end of an array: the
\* asserts of retired_vector::push and HelpScan never fire.
THEOREM LosesNothing == Fenced /\ Roomy /\ Spec => []NoneLost
<1>1. IArrays => NoOverflow
  BY HasRoom DEF IArrays, IBase, NoOverflow, At, HasRecord
<1>2. Findable /\ NoOverflow => NoneLost
  BY DEF NoneLost
<1> QED
  BY <1>1, <1>2, ArrayInvariance, KeepsAll, PTL
=============================================================================
