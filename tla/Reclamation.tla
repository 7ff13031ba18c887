---------------------------- MODULE Reclamation ----------------------------
(***************************************************************************)
(* What a safe-memory-reclamation scheme of libcds promises to the         *)
(* containers built on it (gc/hzp, gc/ptb): a node that a thread protects  *)
(* before it is retired is not freed until the protection is withdrawn.    *)
(*                                                                         *)
(* A protection is a hazard slot: the container stores a pointer into the  *)
(* slot, then checks that the pointer is still reachable; from then on,    *)
(* until the slot is overwritten, it may dereference the pointer.  The     *)
(* module says nothing of how a reclaimer finds out which nodes are still  *)
(* protected: HazardPointers does, and implements this specification.      *)
(***************************************************************************)
EXTENDS TLAPS

CONSTANTS Node,     \* the heap cells a container may use for its nodes
          Slot,     \* the hazard slots of all threads
          Null      \* the null pointer

VARIABLES status,   \* life cycle of each cell, see Life
          hz,       \* the pointer each slot holds, as other threads see it
          using,    \* the pointer each slot's owner may dereference
          blockers  \* slots that have held n without a break since n was retired

rvars == <<status, hz, using, blockers>>

\* free -> linked (allocated: private to its creator, then reachable) ->
\* unlinked (removed, in the hands of the remover) -> retired (handed to the
\* reclaimer) -> free
Life == {"free", "linked", "unlinked", "retired"}

RTypeOK ==
    /\ status \in [Node -> Life]
    /\ hz \in [Slot -> Node \cup {Null}]
    /\ using \in [Slot -> Node \cup {Null}]
    /\ blockers \in [Node -> SUBSET Slot]

RInit ==
    /\ status = [n \in Node |-> "free"]
    /\ hz = [s \in Slot |-> Null]
    /\ using = [s \in Slot |-> Null]
    /\ blockers = [n \in Node |-> {}]

Holders(n) == {s \in Slot : hz[s] = n}

\* What the steps do to the cells; a container takes them whenever its code
\* does, and keeps the contract if the guards of the actions below hold then.
SetStatus(n, life) ==
    /\ status' = [status EXCEPT ![n] = life]
    /\ UNCHANGED <<hz, using, blockers>>
HandOver(n) ==
    /\ status' = [status EXCEPT ![n] = "retired"]
    /\ blockers' = [blockers EXCEPT ![n] = Holders(n)]
    /\ UNCHANGED <<hz, using>>
Use(s) ==
    /\ using' = [using EXCEPT ![s] = hz[s]]
    /\ UNCHANGED <<status, hz, blockers>>

Allocate(n) == status[n] = "free" /\ SetStatus(n, "linked")
Remove(n) == status[n] = "linked" /\ SetStatus(n, "unlinked")
Surrender(n) == status[n] = "unlinked" /\ HandOver(n)

\* A node that was never reachable is freed by its creator.
Discard(n) ==
    /\ status[n] = "linked"
    /\ \A s \in Slot : using[s] # n
    /\ SetStatus(n, "free")

\* Slot s is overwritten with p (a node or Null): whatever it protected before
\* is not protected by it any more.
SetSlot(s, p) ==
    /\ hz' = [hz EXCEPT ![s] = p]
    /\ using' = [using EXCEPT ![s] = Null]
    /\ blockers' = [n \in Node |-> IF n = p THEN blockers[n]
                                            ELSE blockers[n] \ {s}]
    /\ UNCHANGED status

\* A container copies the pointer it uses through s to another of its slots, d,
\* without looking at the link again: it reads on through d and gives s away.
Copy(s, d) ==
    /\ hz' = [hz EXCEPT ![d] = using[s]]
    /\ using' = [using EXCEPT ![d] = using[s]]
    /\ blockers' = [n \in Node |->
          IF n # using[s] THEN blockers[n] \ {d}
          ELSE IF s \in blockers[n] THEN blockers[n] \cup {d} ELSE blockers[n]]
    /\ UNCHANGED status

\* The guards of S are released together.
Release(S) ==
    /\ hz' = [s \in Slot |-> IF s \in S THEN Null ELSE hz[s]]
    /\ using' = [s \in Slot |-> IF s \in S THEN Null ELSE using[s]]
    /\ blockers' = [n \in Node |-> blockers[n] \ S]
    /\ UNCHANGED status

\* The slot's owner has seen, after storing the pointer, that the node had not
\* been retired: the container read the pointer from a link once more.  It may
\* have been since.
Protected(s) == status[hz[s]] \in {"linked", "unlinked"} \/ s \in blockers[hz[s]]
Confirm(s) == (hz[s] \in Node => Protected(s)) /\ Use(s)

\* The reclaimer frees retired nodes, none of which has a blocker left.
Free(S) ==
    /\ \A n \in S : status[n] = "retired" /\ blockers[n] = {}
    /\ status' = [n \in Node |-> IF n \in S THEN "free" ELSE status[n]]
    /\ UNCHANGED <<hz, using, blockers>>

RNext ==
    \/ \E n \in Node : Allocate(n) \/ Remove(n) \/ Surrender(n) \/ Discard(n)
    \/ \E s \in Slot, p \in Node \cup {Null} : SetSlot(s, p)
    \/ \E s \in Slot : Confirm(s)
    \/ \E s, d \in Slot : using[s] \in Node /\ Copy(s, d)
    \/ \E S \in SUBSET Node : Free(S)
    \/ \E S \in SUBSET {s \in Slot : hz[s] # Null} : Release(S)

RSpec == RInit /\ [][RNext]_rvars

-----------------------------------------------------------------------------
\* What a container relies on: a pointer it confirmed through a slot that still
\* holds it is never a freed cell.
UsedNotFreed == \A s \in Slot : using[s] \in Node => status[using[s]] # "free"

\* The strengthening that makes it inductive: a confirmed slot still holds the
\* pointer, and once the node is retired the slot is one of its blockers.
RInv ==
    /\ \A s \in Slot : using[s] \in Node =>
          /\ hz[s] = using[s]
          /\ status[using[s]] # "free"
          /\ status[using[s]] = "retired" => s \in blockers[using[s]]

\* A node is blocked only between its retirement and its reclamation.
Unblocked == \A n \in Node : status[n] # "retired" => blockers[n] = {}

\* A blocker of a node is a slot that holds it.
RHolds == \A n \in Node : \A s \in blockers[n] : hz[s] = n

\* What the contract keeps true
RGood == RTypeOK /\ RInv /\ Unblocked /\ RHolds

-----------------------------------------------------------------------------
(* The contract is enough: whoever keeps it need not prove anything more    *)
(* of what containers rely on.                                              *)

\* No step of the contract lets a confirmed slot lose its node or its place among the
\* node's blockers.
LEMMA Step ==
  ASSUME Null \notin Node, RTypeOK, RInv, Unblocked, RNext
  PROVE  RTypeOK' /\ RInv' /\ Unblocked'
<1>1. ASSUME NEW n \in Node, Allocate(n) \/ Remove(n) \/ Discard(n) PROVE RTypeOK' /\ RInv' /\ Unblocked'
  BY <1>1 DEF Allocate, Remove, Discard, SetStatus, RTypeOK, RInv, Unblocked, Life
<1>2. ASSUME NEW n \in Node, Surrender(n) PROVE RTypeOK' /\ RInv' /\ Unblocked'
  <2>1. Holders(n) \subseteq Slot
    BY DEF Holders
  <2> QED BY <1>2, <2>1 DEF Surrender, HandOver, Holders, RTypeOK, RInv, Unblocked, Life
<1>3. ASSUME NEW s \in Slot, NEW p \in Node \cup {Null}, SetSlot(s, p) PROVE RTypeOK' /\ RInv' /\ Unblocked'
  BY <1>3 DEF SetSlot, RTypeOK, RInv, Unblocked
<1>4. ASSUME NEW s \in Slot, Confirm(s) PROVE RTypeOK' /\ RInv' /\ Unblocked'
  BY <1>4 DEF Confirm, Use, Protected, RTypeOK, RInv, Unblocked
<1>5. ASSUME NEW s \in Slot, NEW d \in Slot, using[s] \in Node, Copy(s, d) PROVE RTypeOK' /\ RInv' /\ Unblocked'
  <2>1. RTypeOK'
    BY <1>5 DEF Copy, RTypeOK
  <2>2. RInv'
    BY <1>5 DEF Copy, RTypeOK, RInv
  <2>3. Unblocked'
    BY <1>5 DEF Copy, RTypeOK, Unblocked
  <2> QED BY <2>1, <2>2, <2>3
<1>6. ASSUME NEW S \in SUBSET Node, Free(S) PROVE RTypeOK' /\ RInv' /\ Unblocked'
  BY <1>6 DEF Free, RTypeOK, RInv, Unblocked, Life
<1>7. ASSUME NEW S \in SUBSET Slot, Release(S) PROVE RTypeOK' /\ RInv' /\ Unblocked'
  BY <1>7 DEF Release, RTypeOK, RInv, Unblocked
<1> QED BY <1>1, <1>2, <1>3, <1>4, <1>5, <1>6, <1>7 DEF RNext

\* A step that keeps the contract, or leaves slots and cells alone, carries its invariant on.
LEMMA GoodStep ==
  ASSUME Null \notin Node, RGood, RNext \/ UNCHANGED rvars
  PROVE  RGood'
<1>1. CASE RNext
  <2>1. RTypeOK' /\ RInv' /\ Unblocked'
    BY <1>1, Step DEF RGood
  <2>2. RHolds'
    <3> USE DEF RGood, RHolds, RTypeOK
    <3>1. ASSUME NEW n \in Node, Allocate(n) \/ Remove(n) \/ Discard(n) \/ Surrender(n) PROVE RHolds'
      BY <3>1 DEF Allocate, Remove, Discard, Surrender, SetStatus, HandOver, Holders
    <3>2. ASSUME NEW s \in Slot, NEW p \in Node \cup {Null}, SetSlot(s, p) PROVE RHolds'
      BY <3>2 DEF SetSlot
    <3>3. ASSUME NEW s \in Slot, Confirm(s) PROVE RHolds'
      BY <3>3 DEF Confirm, Use
    <3>4. ASSUME NEW s \in Slot, NEW d \in Slot, Copy(s, d) PROVE RHolds'
      BY <3>4 DEF Copy
    <3>5. ASSUME NEW S \in SUBSET Node, Free(S) PROVE RHolds'
      BY <3>5 DEF Free
    <3>6. ASSUME NEW S \in SUBSET Slot, Release(S) PROVE RHolds'
      BY <3>6 DEF Release
    <3> QED BY <1>1, <3>1, <3>2, <3>3, <3>4, <3>5, <3>6 DEF RNext
  <2> QED BY <2>1, <2>2 DEF RGood
<1>2. CASE UNCHANGED rvars
  BY <1>2 DEF rvars, RGood, RTypeOK, RInv, Unblocked, RHolds
<1> QED BY <1>1, <1>2

\* To release any slots is to release those of them that hold something.
LEMMA ReleaseAny ==
  ASSUME Null \notin Node, RGood, NEW A \in SUBSET Slot, Release(A)
  PROVE  RNext
<1> DEFINE S == {s \in A : hz[s] # Null}
<1>1. S \in SUBSET {s \in Slot : hz[s] # Null}
  OBVIOUS
<1>2. \A s \in Slot : hz[s] = Null => using[s] = Null /\ \A n \in Node : s \notin blockers[n]
  BY DEF RGood, RTypeOK, RInv, RHolds
<1>3. hz' = [s \in Slot |-> IF s \in S THEN Null ELSE hz[s]]
  BY DEF Release
<1>4. using' = [s \in Slot |-> IF s \in S THEN Null ELSE using[s]]
  BY <1>2 DEF Release
<1>5. blockers' = [n \in Node |-> blockers[n] \ S]
  <2>1. \A n \in Node : blockers[n] \ A = blockers[n] \ S
    BY <1>2 DEF RGood, RTypeOK
  <2> HIDE DEF S
  <2> QED BY <2>1 DEF Release
<1>6. Release(S)
  BY <1>3, <1>4, <1>5 DEF Release
<1> QED BY <1>1, <1>6 DEF RNext

\* A node read through a slot is not free, and is not free to be freed.
LEMMA UsedIsSafe ==
  ASSUME RGood, NEW s \in Slot, using[s] \in Node
  PROVE  /\ status[using[s]] # "free" /\ hz[s] = using[s]
         /\ status[using[s]] = "retired" => blockers[using[s]] # {}
BY DEF RGood, RInv, RTypeOK

\* A confirmed pointer is never a freed cell, under any scheme that keeps the contract.
THEOREM Contract == Null \notin Node /\ RSpec => []UsedNotFreed
<1> SUFFICES ASSUME Null \notin Node PROVE RSpec => []UsedNotFreed
  OBVIOUS
<1> DEFINE I == RTypeOK /\ RInv /\ Unblocked
<1>1. RInit => I
  BY DEF RInit, RTypeOK, RInv, Unblocked, Life
<1>2. I /\ [RNext]_rvars => I'
  <2>1. UNCHANGED rvars /\ I => I'
    BY DEF rvars, RTypeOK, RInv, Unblocked
  <2> QED BY <2>1, Step
<1>3. I => UsedNotFreed
  BY DEF RInv, UsedNotFreed
<1> QED BY <1>1, <1>2, <1>3, PTL DEF RSpec
=============================================================================
