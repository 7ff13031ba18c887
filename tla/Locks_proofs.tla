---------------------------- MODULE Locks_proofs ----------------------------
(***************************************************************************)
(* Proofs about the locks, for any finite set of threads, any width of the *)
(* counters that lets them count all threads, and any bound on the nested  *)
(* locks of a section.                                                     *)
(*                                                                         *)
(* SpinInv and RWInv are the inductive invariants of the two families; the *)
(* barrier is compared with the number N(here) of threads whose program    *)
(* counter is in a given set.                                              *)
(***************************************************************************)
EXTENDS Locks, FiniteSetTheorems, TLAPS

(* The spin locks *)

\* Where the holder and the others are, and how far m_spin is from its bound.
SpinHeld ==
    /\ holder = NullId => spin = 0 /\ uses = 0
    /\ holder # NullId => spin \in 1..(uses + 1)
    /\ \A t \in Thread :
        /\ pc[t] \in {"l_own", "u_store"} => holder = t /\ owner = NullId
        /\ pc[t] \in {"l_cas", "l_look"} => holder # t
        /\ pc[t] \in {"l_owned", "l_inc"} /\ holder = t => spin <= uses
        /\ pc[t] = "u_dec" => spin >= 2
        /\ kind = "spin" => pc[t] \notin {"l_owned", "l_inc", "u_owned", "u_load", "u_dec"}
SpinInv == S!SpinTypeOK /\ S!OwnerIsHolder /\ SpinHeld

\* Every step of a thread in a spin lock keeps the invariant.
LEMMA SpinStep ==
  ASSUME SpinInv, NEW t \in Thread, S!SpinCall(t) \/ S!SpinProgress(t), kind' = kind
  PROVE  SpinInv'
<1> USE ConstantsAssumption DEF SpinInv, S!SConstants, S!SpinTypeOK, S!OwnerIsHolder,
    SpinHeld, S!SpinPC, S!WaitPC, S!Goto, S!BeOwner, S!IsOwned, S!Outermost
<1>1. CASE \E n \in 0..MaxTries : S!Lock(t, n)
  BY <1>1 DEF S!Lock
<1>2. CASE S!Unlock(t)
  BY <1>2 DEF S!Unlock
<1>3. CASE \E u \in Thread : S!ChangeOwner(t, u)
  BY <1>3 DEF S!ChangeOwner
<1>4. CASE S!LockOwned(t)
  BY <1>4 DEF S!LockOwned
<1>5. CASE S!LockInc(t)
  BY <1>5 DEF S!LockInc
<1>6. CASE S!LockCas(t)
  BY <1>6 DEF S!LockCas
<1>7. CASE S!LockLook(t)
  BY <1>7 DEF S!LockLook
<1>8. CASE S!LockOwn(t)
  BY <1>8 DEF S!LockOwn
<1>9. CASE S!UnlockOwned(t)
  BY <1>9 DEF S!UnlockOwned
<1>10. CASE S!UnlockLoad(t)
  BY <1>10 DEF S!UnlockLoad
<1>11. CASE S!UnlockDec(t)
  BY <1>11 DEF S!UnlockDec
<1>12. CASE S!UnlockFree(t)
  BY <1>12 DEF S!UnlockFree
<1>13. CASE S!UnlockStore(t)
  BY <1>13 DEF S!UnlockStore
<1> QED
  BY <1>1, <1>2, <1>3, <1>4, <1>5, <1>6, <1>7, <1>8, <1>9, <1>10, <1>11, <1>12, <1>13
  DEF S!SpinCall, S!SpinProgress

-----------------------------------------------------------------------------
(* Counters that wrap *)
Diff(a, b) == (a + Wrap - b) % Wrap

\* RWSpinLocks counts with its own instance of FiniteSets
LEMMA SameCount == \A T : W!Cardinality(T) = Cardinality(T) /\ (W!IsFiniteSet(T) <=> IsFiniteSet(T))
<1>1. \A T : W!IsFiniteSet(T) <=> IsFiniteSet(T)
  BY DEF IsFiniteSet, W!IsFiniteSet
<1>2. \A T : W!Cardinality(T) = Cardinality(T)
  BY DEF Cardinality, W!Cardinality
<1> QED BY <1>1, <1>2

\* The counters can count all threads (WConstants).
LEMMA WrapType ==
  /\ Wrap \in Nat /\ Wrap > 0
  /\ IsFiniteSet(Thread) /\ Cardinality(Thread) \in Nat /\ Cardinality(Thread) < Wrap
<1>1. Wrap \in Nat /\ IsFiniteSet(Thread) /\ Cardinality(Thread) < Wrap
  BY ConstantsAssumption, SameCount DEF W!WConstants
<1>2. Cardinality(Thread) \in Nat
  BY <1>1, FS_CardinalityType
<1> QED BY <1>1, <1>2

\* What % does to a sum of less than two turns.
LEMMA ModSmall == ASSUME NEW x \in W!Counter PROVE x % Wrap = x /\ (x + Wrap) % Wrap = x
  BY WrapType DEF W!Counter

\* Adding and taking away one, as the counters of the barrier do it.
LEMMA CounterStep ==
  ASSUME NEW c \in W!Counter
  PROVE  /\ W!Plus1(c) \in W!Counter /\ W!Plus1(c) = IF c + 1 = Wrap THEN 0 ELSE c + 1
         /\ W!Minus1(c) \in W!Counter /\ W!Minus1(c) = IF c = 0 THEN Wrap - 1 ELSE c - 1
<1>1. CASE c + 1 = Wrap
  <2>1. (c + 1) % Wrap = 0
    BY <1>1, WrapType, ModSmall, 0 \in W!Counter DEF W!Counter
  <2> QED
  BY <1>1, <2>1, WrapType DEF W!Plus1, W!Minus1, W!Counter
<1>2. CASE c + 1 # Wrap
  BY <1>2, WrapType DEF W!Plus1, W!Minus1, W!Counter
<1> QED BY <1>1, <1>2

\* The distance from b to a, whether or not a has wrapped around since.
LEMMA DiffIs ==
  ASSUME NEW a \in W!Counter, NEW b \in W!Counter
  PROVE  /\ Diff(a, b) = IF a < b THEN a + Wrap - b ELSE a - b
         /\ Diff(a, b) \in W!Counter
<1>1. CASE a < b
  BY <1>1, WrapType DEF Diff, W!Counter
<1>2. CASE a >= b
  <2>1. a - b \in W!Counter /\ a + Wrap - b = (a - b) + Wrap
    BY <1>2, WrapType DEF W!Counter
  <2> QED BY <1>2, <2>1, ModSmall, WrapType DEF Diff, W!Counter
<1> QED BY <1>1, <1>2, WrapType DEF W!Counter

\* The distance of workerCount from doneCount, or of a ticket from doneCount,
\* when one of them is counted up.
LEMMA DiffStep ==
  ASSUME NEW a \in W!Counter, NEW b \in W!Counter
  PROVE  /\ Diff(a, b) = 0 <=> a = b
         /\ Diff(a, b) > 0 => Diff(a, W!Plus1(b)) = Diff(a, b) - 1
         /\ Diff(a, b) < Wrap - 1 => Diff(W!Plus1(a), b) = Diff(a, b) + 1
<1>1. /\ W!Plus1(a) \in W!Counter /\ W!Plus1(a) = IF a + 1 = Wrap THEN 0 ELSE a + 1
      /\ W!Plus1(b) \in W!Counter /\ W!Plus1(b) = IF b + 1 = Wrap THEN 0 ELSE b + 1
  BY CounterStep
<1>2. /\ Diff(a, b) = IF a < b THEN a + Wrap - b ELSE a - b
      /\ Diff(W!Plus1(a), b) = IF W!Plus1(a) < b THEN W!Plus1(a) + Wrap - b
            ELSE W!Plus1(a) - b
      /\ Diff(a, W!Plus1(b)) = IF a < W!Plus1(b) THEN a + Wrap - W!Plus1(b)
            ELSE a - W!Plus1(b)
  BY <1>1, DiffIs
<1>3. Diff(a, b) = 0 <=> a = b
  BY <1>2, WrapType DEF W!Counter
<1>4. ASSUME Diff(a, b) > 0 PROVE Diff(a, W!Plus1(b)) = Diff(a, b) - 1
  BY <1>1, <1>2, <1>3, <1>4, WrapType DEF W!Counter
<1>5. ASSUME Diff(a, b) < Wrap - 1 PROVE Diff(W!Plus1(a), b) = Diff(a, b) + 1
  BY <1>1, <1>2, <1>5, WrapType DEF W!Counter
<1> QED BY <1>3, <1>4, <1>5

(* The threads in a section *)

N(here) == Cardinality(W!In(here))
\* The number of threads somewhere is a number, and 0 if nobody is there.
LEMMA InType ==
  ASSUME NEW here
  PROVE  /\ IsFiniteSet(W!In(here)) /\ N(here) \in Nat /\ N(here) <= Cardinality(Thread)
         /\ N(here) = 0 <=> W!In(here) = {}
<1>1. W!In(here) \in SUBSET Thread
  BY DEF W!In
<1> QED
  BY <1>1, WrapType, FS_Subset, FS_CardinalityType, FS_EmptySet DEF N

\* A thread that moves is counted where it goes and no longer where it was.
LEMMA Moved ==
  ASSUME NEW t \in Thread, NEW x, pc \in [Thread -> W!RWPC], W!Goto(t, x), NEW here
  PROVE  /\ W!In(here)' = IF x \in here THEN W!In(here) \cup {t} ELSE W!In(here) \ {t}
         /\ N(here)' = N(here) - (IF pc[t] \in here THEN 1 ELSE 0) + (IF x \in here
               THEN 1 ELSE 0)
         /\ N(here)' <= Cardinality(Thread) /\ N(here)' \in Nat
<1>1. pc' = [pc EXCEPT ![t] = x]
  BY DEF W!Goto
<1>2. W!In(here)' = IF x \in here THEN W!In(here) \cup {t} ELSE W!In(here) \ {t}
  BY <1>1 DEF W!In
<1>3. t \in W!In(here) <=> pc[t] \in here
  BY DEF W!In
<1>a. W!In(here)' \in SUBSET Thread
  BY DEF W!In
<1>4. N(here)' = N(here) - (IF pc[t] \in here THEN 1 ELSE 0) + (IF x \in here THEN 1 ELSE 0)
  <2>1. CASE x \in here
    <3>1. Cardinality(W!In(here) \cup {t}) = IF t \in W!In(here)
        THEN Cardinality(W!In(here)) ELSE Cardinality(W!In(here)) + 1
      BY InType, FS_AddElement, Zenon
    <3> QED BY <2>1, <3>1, <1>2, <1>3, InType DEF N
  <2>2. CASE x \notin here
    <3>1. Cardinality(W!In(here) \ {t}) = IF t \in W!In(here)
        THEN Cardinality(W!In(here)) - 1 ELSE Cardinality(W!In(here))
      BY InType, FS_RemoveElement, Zenon
    <3> QED BY <2>2, <3>1, <1>2, <1>3, InType DEF N
  <2> QED BY <2>1, <2>2
<1>5. N(here)' <= Cardinality(Thread) /\ N(here)' \in Nat
  BY <1>a, WrapType, FS_Subset, FS_CardinalityType DEF N
<1> QED BY <1>2, <1>4, <1>5

(* The reader-writer locks *)

\* BarrierCounts, with sums in the place of unions
Counts ==
    /\ barrier.active = N(W!WritePC)
    /\ kind # "rpref" => barrier.writers = N(W!TurnPC) + N(W!WritePC)
    /\ IF kind = "wpreford"
       THEN Diff(barrier.readers, barrier.done) = N(W!ReadPC) + N(W!TurnPC) + N(W!WritePC)
       ELSE barrier.readers = N(W!ReadPC)

\* Threads in different places are different threads.
LEMMA CountBoth ==
  ASSUME NEW a, NEW b, a \cap b = {}
  PROVE  N(a \cup b) = N(a) + N(b)
<1>1. W!In(a) \cap W!In(b) = {} /\ W!In(a) \cup W!In(b) = W!In(a \cup b)
  BY DEF W!In
<1>2. IsFiniteSet(W!In(a)) /\ IsFiniteSet(W!In(b)) /\ N(a) \in Nat /\ N(b) \in Nat
  BY InType
<1>3. Cardinality(W!In(a) \cup W!In(b)) =
        Cardinality(W!In(a)) + Cardinality(W!In(b)) - Cardinality(W!In(a) \cap W!In(b))
  BY <1>2, FS_Union
<1>4. Cardinality(W!In(a) \cap W!In(b)) = 0
  BY <1>1, FS_EmptySet
<1> QED BY <1>1, <1>2, <1>3, <1>4 DEF N

\* The same for the three places that the barrier counts.
LEMMA CountThree ==
  N(W!ReadPC \cup W!TurnPC \cup W!WritePC) = N(W!ReadPC) + N(W!TurnPC) + N(W!WritePC)
<1>1. N(W!TurnPC \cup W!WritePC) = N(W!TurnPC) + N(W!WritePC)
  BY CountBoth DEF W!TurnPC, W!WritePC
<1>2. N(W!ReadPC \cup (W!TurnPC \cup W!WritePC)) = N(W!ReadPC) + N(W!TurnPC \cup W!WritePC)
  BY CountBoth DEF W!ReadPC, W!TurnPC, W!WritePC
<1>3. N(W!ReadPC \cup (W!TurnPC \cup W!WritePC)) = N(W!ReadPC \cup W!TurnPC \cup W!WritePC)
  BY W!ReadPC \cup (W!TurnPC \cup W!WritePC) = W!ReadPC \cup W!TurnPC \cup W!WritePC
<1>4. N(W!ReadPC) \in Nat /\ N(W!TurnPC) \in Nat /\ N(W!WritePC) \in Nat
  BY InType
<1> QED BY <1>1, <1>2, <1>3, <1>4

\* Counts says what BarrierCounts says.
LEMMA CountsIs == W!BarrierCounts <=> Counts
<1>1. N(W!TurnPC \cup W!WritePC) = N(W!TurnPC) + N(W!WritePC)
  BY CountBoth DEF W!TurnPC, W!WritePC
<1>2. /\ W!In(W!TurnPC \cup W!WritePC) = W!In(W!TurnPC) \cup W!In(W!WritePC)
      /\ W!In(W!ReadPC \cup W!TurnPC \cup W!WritePC) = W!In(W!ReadPC) \cup W!In(W!TurnPC) \cup W!In(W!WritePC)
  BY DEF W!In
<1> QED
  BY <1>1, <1>2, CountThree, SameCount DEF W!BarrierCounts, W!Waiting, Counts, N, Diff

\* b, the word an operation expects, has been made into one in which it need not wait.
Expects ==
    \A t \in Thread :
        /\ pc[t] = "out" => was[t] = W!Zero
        /\ kind = "rpref" => pc[t] \notin {"w_load", "w_cas", "wt_load"}
        /\ pc[t] = "r_cas" =>
            /\ kind # "wpreford" => was[t].active = 0
            /\ kind # "rpref" => was[t].writers = 0
        /\ pc[t] = "wt_cas" =>
            /\ was[t].active = 0
            /\ kind # "wpreford" => was[t].readers = 0
            /\ kind = "wpreford" => was[t].done = ticket[t]
\* Writers inside exclude readers (and each other, as active is 0 or 1).
Excluded == N(W!WritePC) = 0 \/ N(W!ReadPC) = 0

\* The writers that wait have different tickets; a ticket is as many turns ahead of
\* doneCount as there are workers before its owner, all of those inside among them.
Ahead(t) == Diff(ticket[t], barrier.done)
Queued ==
    kind = "wpreford" =>
        \A t \in Thread : pc[t] \in W!TurnPC =>
            /\ Ahead(t) >= N(W!ReadPC) + N(W!WritePC)
            /\ Ahead(t) < N(W!ReadPC) + N(W!TurnPC) + N(W!WritePC)
            /\ \A u \in Thread : pc[u] \in W!TurnPC /\ u # t => ticket[u] # ticket[t]
RWInv == W!RWTypeOK /\ Counts /\ W!UnlockAsserts /\ Expects /\ Excluded /\ Queued

\* The words that an operation makes of a barrier are barriers.
LEMMA WordTypes ==
  ASSUME kind \in {"wpref", "wpreford", "rpref"}, NEW b \in W!Barrier
  PROVE  /\ W!Readable(b) \in W!Barrier /\ W!Announced(b) \in W!Barrier /\ W!Released(b) \in W!Barrier
         /\ \A t \in Thread : ticket[t] \in W!Counter => W!Writable(t, b) \in W!Barrier
<1>0. 0 \in W!Counter /\ b.readers \in W!Counter /\ b.writers \in W!Counter /\ b.done \in W!Counter
  BY WrapType DEF W!Counter, W!Barrier
<1>a. /\ W!Plus1(b.readers) \in W!Counter /\ W!Plus1(b.writers) \in W!Counter
      /\ W!Plus1(b.done) \in W!Counter /\ W!Minus1(b.writers) \in W!Counter
  BY <1>0, CounterStep
<1>1. W!Readable(b) \in W!Barrier
  BY <1>0 DEF W!Readable, W!Barrier
<1>2. W!Announced(b) \in W!Barrier
  BY <1>a DEF W!Announced, W!Barrier
<1>3. W!Released(b) \in W!Barrier
  BY <1>a DEF W!Released, W!Barrier
<1>4. ASSUME NEW t \in Thread, ticket[t] \in W!Counter PROVE W!Writable(t, b) \in W!Barrier
  BY <1>0, <1>4 DEF W!Writable, W!Barrier, W!Zero
<1> QED BY <1>1, <1>2, <1>3, <1>4

\* Only the compare-and-swap of an operation writes the barrier.
LEMMA BarrierTypeStep ==
  ASSUME W!RWTypeOK, NEW t \in Thread, W!RWCall(t) \/ W!RWProgress(t), kind' = kind
  PROVE  barrier' \in W!Barrier
<1>1. barrier \in W!Barrier /\ was[t] \in W!Barrier
  BY DEF W!RWTypeOK
<1>2. /\ W!Announced(was[t]) \in W!Barrier /\ W!Released(was[t]) \in W!Barrier
  BY <1>1, WordTypes DEF W!RWTypeOK
<1>3. /\ [was[t] EXCEPT !.readers = W!Plus1(@)] \in W!Barrier
      /\ [was[t] EXCEPT !.readers = W!Minus1(@)] \in W!Barrier
      /\ [was[t] EXCEPT !.done = W!Plus1(@)] \in W!Barrier
      /\ [was[t] EXCEPT !.active = 1] \in W!Barrier
  BY <1>1, CounterStep DEF W!Barrier
<1>4. CASE UNCHANGED barrier
  BY <1>1, <1>4
<1>5. CASE W!RLockCas(t) \/ W!RUnlockCas(t) \/ W!WLockCas(t) \/ W!TurnCas(t) \/ W!WUnlockCas(t)
  BY <1>1, <1>2, <1>3, <1>5 DEF W!RLockCas, W!RUnlockCas, W!WLockCas, W!TurnCas,
      W!WUnlockCas, W!Cas
<1> QED
  BY <1>4, <1>5
  DEF W!RWCall, W!RWProgress, W!RLock, W!WLock, W!RUnlock, W!WUnlock, W!Load,
      W!RLockLoad, W!RUnlockLoad, W!WLockLoad, W!TurnLoad, W!WUnlockLoad

\* Every step of a thread in a reader-writer lock keeps the types.
LEMMA RWTypeStep ==
  ASSUME W!RWTypeOK, NEW t \in Thread, W!RWCall(t) \/ W!RWProgress(t), kind' = kind
  PROVE  W!RWTypeOK'
<1>a. barrier' \in W!Barrier
  BY BarrierTypeStep
<1> USE <1>a, WrapType DEF W!RWTypeOK, W!RWPC, W!ReadPC, W!WritePC, W!TurnPC, W!Goto,
    W!Load, W!Cas, W!Barrier, W!Zero, W!Counter
<1>1. CASE W!RLock(t)
  BY <1>1 DEF W!RLock
<1>2. CASE W!WLock(t)
  BY <1>2 DEF W!WLock
<1>3. CASE W!RLockLoad(t)
  BY <1>3, WordTypes DEF W!RLockLoad
<1>4. CASE W!RLockCas(t)
  BY <1>4 DEF W!RLockCas
<1>5. CASE W!RUnlock(t)
  BY <1>5 DEF W!RUnlock
<1>6. CASE W!RUnlockLoad(t)
  BY <1>6 DEF W!RUnlockLoad
<1>7. CASE W!RUnlockCas(t)
  BY <1>7, SMTT(20) DEF W!RUnlockCas
<1>8. CASE W!WLockLoad(t)
  BY <1>8 DEF W!WLockLoad
<1>9. CASE W!WLockCas(t)
  BY <1>9 DEF W!WLockCas
<1>10. CASE W!TurnLoad(t)
  BY <1>10, WordTypes DEF W!TurnLoad
<1>11. CASE W!TurnCas(t)
  BY <1>11 DEF W!TurnCas
<1>12. CASE W!WUnlock(t)
  BY <1>12 DEF W!WUnlock
<1>13. CASE W!WUnlockLoad(t)
  BY <1>13 DEF W!WUnlockLoad
<1>14. CASE W!WUnlockCas(t)
  BY <1>14 DEF W!WUnlockCas
<1> QED
  BY <1>1, <1>2, <1>3, <1>4, <1>5, <1>6, <1>7, <1>8, <1>9, <1>10, <1>11, <1>12, <1>13, <1>14
  DEF W!RWCall, W!RWProgress

\* What an operation expects it alone writes; and what it asserts of the word it
\* has read is true as long as it stays inside.
LEMMA ExpectsStep ==
  ASSUME RWInv, NEW t \in Thread, W!RWCall(t) \/ W!RWProgress(t), kind' = kind
  PROVE  Expects' /\ W!UnlockAsserts'
<1>1. barrier.active \in {0, 1} /\ pc[t] \in W!RWPC
  BY DEF RWInv, W!RWTypeOK, W!Barrier
<1>2. pc[t] \in W!ReadPC => N(W!ReadPC) # 0
  BY InType DEF W!In
<1>3. pc[t] \in W!WritePC => N(W!WritePC) # 0
  BY InType DEF W!In
<1>4. pc[t] \in W!ReadPC => barrier.active = 0
  BY <1>2 DEF RWInv, Excluded, Counts
<1>5. pc[t] \in W!WritePC => barrier.active = 1 /\ (kind # "wpreford" => barrier.readers = 0)
  BY <1>1, <1>3 DEF RWInv, Excluded, Counts
<1>6. W!RWTypeOK /\ Expects /\ W!UnlockAsserts
  BY DEF RWInv
<1> USE <1>6 DEF Expects, W!UnlockAsserts, W!RWTypeOK, W!Goto, W!Load, W!Cas, W!Barrier,
    W!Zero
<1>11. CASE W!RLock(t) \/ W!WLock(t) \/ W!RUnlock(t) \/ W!WUnlock(t)
  BY <1>11 DEF W!RLock, W!WLock, W!RUnlock, W!WUnlock
<1>12. CASE W!RLockLoad(t)
  BY <1>12 DEF W!RLockLoad, W!Readable
<1>13. CASE W!RLockCas(t) \/ W!RUnlockCas(t) \/ W!WUnlockCas(t)
  BY <1>13 DEF W!RLockCas, W!RUnlockCas, W!WUnlockCas
<1>14. CASE W!RUnlockLoad(t)
  BY <1>4, <1>14 DEF W!RUnlockLoad, W!ReadPC
<1>15. CASE W!WLockLoad(t)
  BY <1>15 DEF W!WLockLoad
<1>16. CASE W!WLockCas(t)
  BY <1>16 DEF W!WLockCas
<1>17. CASE W!TurnLoad(t)
  BY <1>17 DEF W!TurnLoad, W!Writable
<1>18. CASE W!TurnCas(t)
  BY <1>18 DEF W!TurnCas
<1>19. CASE W!WUnlockLoad(t)
  BY <1>5, <1>19 DEF W!WUnlockLoad, W!WritePC
<1> QED
  BY <1>11, <1>12, <1>13, <1>14, <1>15, <1>16, <1>17, <1>18, <1>19 DEF W!RWCall,
      W!RWProgress

\* A step that leaves the barrier alone moves nobody in or out, and nobody into or
\* out of the queue of the writers.
LEMMA QuietStep ==
  ASSUME RWInv, NEW t \in Thread, NEW x, W!Goto(t, x), kind' = kind, barrier' = barrier,
         x \in W!ReadPC <=> pc[t] \in W!ReadPC,
         x \in W!WritePC <=> pc[t] \in W!WritePC,
         kind = "rpref" \/ (x \in W!TurnPC <=> pc[t] \in W!TurnPC),
         \A u \in Thread : pc[u] \in W!TurnPC => ticket'[u] = ticket[u]
  PROVE  Counts' /\ Excluded' /\ Queued'
<1>1. pc \in [Thread -> W!RWPC]
  BY DEF RWInv, W!RWTypeOK
<1>2. N(W!ReadPC)' = N(W!ReadPC) /\ N(W!WritePC)' = N(W!WritePC)
  BY <1>1, Moved, InType
<1>3. kind # "rpref" => N(W!TurnPC)' = N(W!TurnPC)
  BY <1>1, Moved, InType
<1>4. Counts' /\ Excluded'
  BY <1>2, <1>3 DEF RWInv, Counts, Excluded
<1>5. ASSUME kind # "rpref",
    NEW u \in Thread PROVE pc'[u] \in W!TurnPC <=> pc[u] \in W!TurnPC
  BY <1>1, <1>5 DEF W!Goto
<1>6. Queued'
  BY <1>2, <1>3, <1>5 DEF RWInv, Queued, Ahead
<1> QED BY <1>4, <1>6

\* A reader gets in.
LEMMA RLockCasStep ==
  ASSUME RWInv, NEW t \in Thread, W!RLockCas(t), barrier = was[t], kind' = kind
  PROVE  Counts' /\ Excluded' /\ Queued'
<1>1. pc[t] = "r_cas" /\ W!Goto(t,
    "reading") /\ barrier' = [barrier EXCEPT !.readers = W!Plus1(@)] /\ ticket' = ticket
  BY DEF W!RLockCas, W!Cas
<1>2. /\ pc \in [Thread -> W!RWPC] /\ barrier \in W!Barrier
      /\ kind \in {"wpref", "wpreford", "rpref"}
  BY DEF RWInv, W!RWTypeOK
<1>3. /\ barrier.readers \in W!Counter /\ barrier.done \in W!Counter
      /\ barrier' = [barrier EXCEPT !.readers = barrier'.readers]
      /\ barrier'.readers = W!Plus1(barrier.readers)
      /\ barrier'.done = barrier.done /\ barrier'.writers = barrier.writers /\ barrier'.active = barrier.active
  BY <1>1, <1>2 DEF W!Barrier
<1>4. /\ N(W!ReadPC)' = N(W!ReadPC) + 1 /\ N(W!ReadPC)' <= Cardinality(Thread)
      /\ N(W!WritePC)' = N(W!WritePC) /\ N(W!TurnPC)' = N(W!TurnPC)
  BY <1>1, <1>2, Moved, InType DEF W!ReadPC, W!WritePC, W!TurnPC
<1>5. N(W!ReadPC) \in Nat /\ N(W!WritePC) \in Nat /\ N(W!TurnPC) \in Nat
  BY InType
<1>6. /\ kind # "wpreford" => barrier.active = 0
      /\ kind # "rpref" => barrier.writers = 0
  BY <1>1 DEF RWInv, Expects
<1>7. /\ N(W!WritePC) = 0
      /\ kind # "rpref" => N(W!TurnPC) = 0
  BY <1>2, <1>5, <1>6 DEF RWInv, Counts
<1>8. Counts'
  <2>1. CASE kind = "wpreford"
    <3>1. Diff(barrier.readers, barrier.done) < Wrap - 1
      BY <1>4, <1>5, <1>7, <2>1, WrapType DEF RWInv, Counts
    <3>2. Diff(barrier'.readers, barrier'.done) = Diff(barrier.readers, barrier.done) + 1
      BY <1>3, <3>1, DiffStep
    <3> QED BY <1>3, <1>4, <1>5, <1>7, <2>1, <3>2 DEF RWInv, Counts
  <2>2. CASE kind # "wpreford"
    <3>1. W!Plus1(barrier.readers) = barrier.readers + 1
      BY <1>3, <1>4, <1>5, <2>2, CounterStep, WrapType DEF RWInv, Counts
    <3> QED BY <1>3, <1>4, <1>5, <2>2, <3>1 DEF RWInv, Counts
  <2> QED BY <2>1, <2>2
<1>9. Excluded'
  BY <1>4, <1>7 DEF Excluded
<1>10. Queued'
  <2> SUFFICES ASSUME kind = "wpreford", NEW u \in Thread, pc'[u] \in W!TurnPC PROVE FALSE
    BY DEF Queued
  <2>1. W!In(W!TurnPC) = {}
    BY <1>7, InType
  <2>2. pc[u] \in W!TurnPC
    BY <1>1, <1>2 DEF W!Goto, W!TurnPC
  <2> QED BY <2>1, <2>2 DEF W!In
<1> QED BY <1>8, <1>9, <1>10

\* A reader leaves: it is one more worker done, and the writers' turns come nearer.
LEMMA RUnlockCasStep ==
  ASSUME RWInv, NEW t \in Thread, W!RUnlockCas(t), barrier = was[t], kind' = kind
  PROVE  Counts' /\ Excluded' /\ Queued'
<1>1. /\ pc[t] = "ru_cas" /\ W!Goto(t, "out") /\ ticket' = ticket
      /\ barrier' = IF kind = "wpreford" THEN [barrier EXCEPT !.done = W!Plus1(@)]
                    ELSE [barrier EXCEPT !.readers = W!Minus1(@)]
  BY DEF W!RUnlockCas, W!Cas
<1>2. /\ pc \in [Thread -> W!RWPC] /\ barrier \in W!Barrier /\ ticket \in [Thread -> W!Counter]
      /\ kind \in {"wpref", "wpreford", "rpref"}
  BY DEF RWInv, W!RWTypeOK
<1>3. /\ barrier.readers \in W!Counter /\ barrier.done \in W!Counter
      /\ barrier'.writers = barrier.writers /\ barrier'.active = barrier.active
      /\ IF kind = "wpreford"
            THEN barrier'.done = W!Plus1(barrier.done) /\ barrier'.readers = barrier.readers
         ELSE barrier'.readers = W!Minus1(barrier.readers)
  BY <1>1, <1>2 DEF W!Barrier
<1>4. /\ N(W!ReadPC)' = N(W!ReadPC) - 1 /\ N(W!ReadPC)' \in Nat
      /\ N(W!WritePC)' = N(W!WritePC) /\ N(W!TurnPC)' = N(W!TurnPC)
  BY <1>1, <1>2, Moved, InType DEF W!ReadPC, W!WritePC, W!TurnPC
<1>5. N(W!ReadPC) \in Nat /\ N(W!WritePC) \in Nat /\ N(W!TurnPC) \in Nat
  BY InType
<1>7. N(W!ReadPC) > 0 /\ N(W!WritePC) = 0
  BY <1>4, <1>5 DEF RWInv, Excluded
<1>a. CASE kind = "wpreford"
  <2>1. Diff(barrier.readers, barrier.done) > 0
    BY <1>5, <1>7, <1>a DEF RWInv, Counts
  <2>2. Diff(barrier.readers, barrier'.done) = Diff(barrier.readers, barrier.done) - 1
    BY <1>a, <1>3, <2>1, DiffStep
  <2>3. Counts'
    BY <1>a, <1>3, <1>4, <1>5, <1>7, <2>2 DEF RWInv, Counts
  <2>4. \A u \in Thread : pc'[u] \in W!TurnPC => pc[u] \in W!TurnPC
    BY <1>1, <1>2 DEF W!Goto, W!TurnPC
  <2>5. ASSUME NEW u \in Thread, pc[u] \in W!TurnPC
        PROVE  Diff(ticket[u], barrier'.done) = Diff(ticket[u], barrier.done) - 1
               /\ Diff(ticket[u], barrier.done) \in Nat
    <3>1. ticket[u] \in W!Counter
      BY <1>2
    <3>2. Diff(ticket[u], barrier.done) \in Nat
      <4>1. Diff(ticket[u], barrier.done) \in W!Counter
        BY <1>3, <3>1, DiffIs
      <4> QED BY <4>1, WrapType DEF W!Counter
    <3>3. Diff(ticket[u], barrier.done) > 0
      BY <1>a, <1>5, <1>7, <2>5, <3>2 DEF RWInv, Queued, Ahead
    <3> QED BY <1>a, <1>3, <3>1, <3>2, <3>3, DiffStep
  <2>6. Queued'
    BY <1>a, <1>1, <1>4, <1>5, <2>4, <2>5 DEF RWInv, Queued, Ahead
  <2> QED BY <1>4, <1>7, <2>3, <2>6 DEF Excluded
<1>b. CASE kind # "wpreford"
  <2>1. W!Minus1(barrier.readers) = barrier.readers - 1
    BY <1>b, <1>3, <1>5, <1>7, CounterStep DEF RWInv, Counts
  <2>2. Counts'
    BY <1>b, <1>3, <1>4, <1>5, <2>1 DEF RWInv, Counts
  <2> QED BY <1>b, <1>4, <1>7, <2>2 DEF Excluded, Queued
<1> QED BY <1>a, <1>b

\* The threads inside and those that wait for their turn are different threads.
LEMMA CountAll == N(W!ReadPC) + N(W!TurnPC) + N(W!WritePC) <= Cardinality(Thread)
  BY CountThree, InType

\* A writer announces itself; in RWSpinWPrefOrdT it takes the next ticket.
LEMMA WLockCasStep ==
  ASSUME RWInv, NEW t \in Thread, W!WLockCas(t), barrier = was[t], kind # "rpref",
      kind' = kind
  PROVE  Counts' /\ Excluded' /\ Queued'
<1>1. /\ pc[t] = "w_cas" /\ W!Goto(t, "wt_load") /\ barrier' = W!Announced(barrier)
      /\ kind = "wpreford" => ticket' = [ticket EXCEPT ![t] = barrier.readers]
  BY DEF W!WLockCas, W!Cas
<1>2. /\ pc \in [Thread -> W!RWPC] /\ barrier \in W!Barrier /\ ticket \in [Thread -> W!Counter]
      /\ kind \in {"wpref", "wpreford", "rpref"}
  BY DEF RWInv, W!RWTypeOK
<1>3. /\ barrier.readers \in W!Counter /\ barrier.done \in W!Counter /\ barrier.writers \in W!Counter
      /\ barrier'.done = barrier.done /\ barrier'.active = barrier.active
      /\ barrier'.writers = W!Plus1(barrier.writers)
      /\ barrier'.readers = IF kind = "wpref" THEN barrier.readers
            ELSE W!Plus1(barrier.readers)
  BY <1>1, <1>2 DEF W!Barrier, W!Announced
<1>4. /\ N(W!ReadPC)' = N(W!ReadPC) /\ N(W!WritePC)' = N(W!WritePC)
      /\ N(W!TurnPC)' = N(W!TurnPC) + 1
  BY <1>1, <1>2, Moved, InType DEF W!ReadPC, W!WritePC, W!TurnPC
<1>5. N(W!ReadPC) \in Nat /\ N(W!WritePC) \in Nat /\ N(W!TurnPC) \in Nat
  BY InType
<1>6. N(W!ReadPC)' + N(W!TurnPC)' + N(W!WritePC)' < Wrap
  <2>1. N(W!ReadPC) + N(W!TurnPC) + N(W!WritePC) <= Cardinality(Thread)
    BY CountAll
  <2>2. (N(W!ReadPC) + N(W!TurnPC) + N(W!WritePC) <= Cardinality(Thread))'
    BY CountAll, PTL
  <2>3. N(W!ReadPC)' \in Nat /\ N(W!WritePC)' \in Nat /\ N(W!TurnPC)' \in Nat
    BY <1>4, <1>5
  <2> QED BY <2>2, <2>3, WrapType
<1>7. barrier'.writers = barrier.writers + 1
  BY <1>3, <1>4, <1>5, <1>6, CounterStep DEF RWInv, Counts
<1>a. CASE kind = "wpreford"
  <2>0. Diff(barrier.readers, barrier.done) = N(W!ReadPC) + N(W!TurnPC) + N(W!WritePC)
    BY <1>a DEF RWInv, Counts
  <2>1. Diff(barrier.readers, barrier.done) < Wrap - 1
    BY <2>0, <1>4, <1>5, <1>6, WrapType
  <2>2. Diff(barrier'.readers, barrier'.done) = Diff(barrier.readers, barrier.done) + 1
    BY <1>a, <1>3, <2>1, DiffStep
  <2>3. Counts'
    BY <1>a, <1>3, <1>4, <1>5, <1>7, <2>0, <2>2 DEF RWInv, Counts
  <2>4. ASSUME NEW u \in Thread, pc'[u] \in W!TurnPC, u # t
        PROVE  pc[u] \in W!TurnPC /\ ticket'[u] = ticket[u] /\ ticket[u] # barrier.readers
    <3>1. pc[u] \in W!TurnPC /\ ticket'[u] = ticket[u]
      BY <1>a, <1>1, <1>2, <2>4 DEF W!Goto
    <3>2. Diff(ticket[u], barrier.done) < N(W!ReadPC) + N(W!TurnPC) + N(W!WritePC)
      BY <1>a, <3>1 DEF RWInv, Queued, Ahead
    <3> QED BY <2>0, <3>1, <3>2, <1>5
  <2>5. ticket'[t] = barrier.readers
    BY <1>a, <1>1, <1>2
  <2>6. ASSUME NEW u \in Thread, pc'[u] \in W!TurnPC
        PROVE  /\ Ahead(u)' >= N(W!ReadPC)' + N(W!WritePC)'
               /\ Ahead(u)' < N(W!ReadPC)' + N(W!TurnPC)' + N(W!WritePC)'
    <3>1. CASE u = t
      BY <3>1, <2>5, <2>0, <1>3, <1>4, <1>5 DEF Ahead
    <3>2. CASE u # t
      <4>1. /\ Ahead(u) >= N(W!ReadPC) + N(W!WritePC)
            /\ Ahead(u) < N(W!ReadPC) + N(W!TurnPC) + N(W!WritePC)
        BY <1>a, <2>4, <2>6, <3>2 DEF RWInv, Queued
      <4>2. Ahead(u)' = Ahead(u) /\ Ahead(u) \in Int
        <5>1. Diff(ticket[u], barrier.done) \in W!Counter
          BY <1>2, <1>3, DiffIs
        <5> QED BY <5>1, <1>3, <2>4, <2>6, <3>2, WrapType DEF Ahead, W!Counter
      <4> QED BY <1>4, <1>5, <4>1, <4>2
    <3> QED BY <3>1, <3>2
  <2>7. ASSUME NEW u \in Thread, pc'[u] \in W!TurnPC, NEW v \in Thread,
      pc'[v] \in W!TurnPC, v # u
        PROVE  ticket'[v] # ticket'[u]
    BY <1>a, <2>4, <2>5, <2>7 DEF RWInv, Queued
  <2>8. Queued'
    BY <2>6, <2>7 DEF Queued
  <2> QED BY <1>4, <2>3, <2>8 DEF RWInv, Excluded
<1>b. CASE kind = "wpref"
  <2>1. Counts'
    BY <1>b, <1>3, <1>4, <1>5, <1>7 DEF RWInv, Counts
  <2> QED BY <1>b, <1>4, <2>1 DEF RWInv, Excluded, Queued
<1> QED BY <1>a, <1>b, <1>2

\* A writer gets in when it is its turn.
LEMMA TurnCasStep ==
  ASSUME RWInv, NEW t \in Thread, W!TurnCas(t), barrier = was[t], kind' = kind
  PROVE  Counts' /\ Excluded' /\ Queued' /\ N(W!ReadPC) = 0 /\ N(W!WritePC) = 0
<1>1. /\ pc[t] = "wt_cas" /\ W!Goto(t, "writing")
      /\ barrier' = [barrier EXCEPT !.active = 1]
      /\ \A u \in Thread \ {t} : ticket'[u] = ticket[u]
  BY DEF W!TurnCas, W!Cas, RWInv, W!RWTypeOK
<1>2. /\ pc \in [Thread -> W!RWPC] /\ barrier \in W!Barrier /\ ticket \in [Thread -> W!Counter]
      /\ kind \in {"wpref", "wpreford", "rpref"}
  BY DEF RWInv, W!RWTypeOK
<1>3. /\ barrier'.readers = barrier.readers /\ barrier'.done = barrier.done
      /\ barrier'.writers = barrier.writers /\ barrier'.active = 1
      /\ barrier.readers \in W!Counter /\ barrier.done \in W!Counter
  BY <1>1, <1>2 DEF W!Barrier
<1>4. /\ N(W!ReadPC)' = N(W!ReadPC) /\ N(W!WritePC)' = N(W!WritePC) + 1
      /\ N(W!TurnPC)' = N(W!TurnPC) - 1
  BY <1>1, <1>2, Moved, InType DEF W!ReadPC, W!WritePC, W!TurnPC
<1>5. N(W!ReadPC) \in Nat /\ N(W!WritePC) \in Nat /\ N(W!TurnPC) \in Nat
  BY InType
<1>6. barrier.active = 0 /\ N(W!WritePC) = 0
  BY <1>1 DEF RWInv, Expects, Counts
<1>7. N(W!ReadPC) = 0
  <2>1. CASE kind = "wpreford"
    <3>1. ticket[t] = barrier.done /\ ticket[t] \in W!Counter
      BY <2>1, <1>1, <1>2 DEF RWInv, Expects
    <3>2. Ahead(t) = 0
      BY <1>3, <3>1, DiffStep DEF Ahead
    <3>3. Ahead(t) >= N(W!ReadPC) + N(W!WritePC)
      BY <2>1, <1>1 DEF RWInv, Queued, W!TurnPC
    <3> QED BY <1>5, <1>6, <3>2, <3>3
  <2>2. CASE kind # "wpreford"
    BY <2>2, <1>1 DEF RWInv, Expects, Counts
  <2> QED BY <2>1, <2>2
<1>8. Counts'
  BY <1>3, <1>4, <1>5, <1>6, <1>7 DEF RWInv, Counts
<1>9. Queued'
  <2> SUFFICES ASSUME kind = "wpreford" PROVE Queued'
    BY DEF Queued
  <2>1. \A u \in Thread : pc'[u] \in W!TurnPC => u # t /\ pc[u] \in W!TurnPC /\ ticket'[u] = ticket[u]
    BY <1>1, <1>2 DEF W!Goto, W!TurnPC
  <2>2. ASSUME NEW u \in Thread, pc'[u] \in W!TurnPC
        PROVE  /\ Ahead(u)' >= N(W!ReadPC)' + N(W!WritePC)'
               /\ Ahead(u)' < N(W!ReadPC)' + N(W!TurnPC)' + N(W!WritePC)'
    <3>1. Ahead(u)' = Ahead(u) /\ Ahead(u) \in Nat
      <4>1. Diff(ticket[u], barrier.done) \in W!Counter
        BY <1>2, <1>3, DiffIs
      <4> QED BY <4>1, <1>3, <2>1, <2>2, WrapType DEF Ahead, W!Counter
    <3>2. Ahead(u) < N(W!ReadPC) + N(W!TurnPC) + N(W!WritePC)
      BY <2>1, <2>2 DEF RWInv, Queued
    <3>3. ticket[t] = barrier.done /\ ticket[u] # ticket[t]
      BY <1>1, <2>1, <2>2 DEF RWInv, Expects, Queued, W!TurnPC
    <3>4. Ahead(u) # 0
      BY <1>2, <1>3, <3>3, DiffStep DEF Ahead
    <3> QED BY <1>4, <1>5, <1>6, <1>7, <3>1, <3>2, <3>4
  <2>3. \A u, v \in Thread :
          pc'[u] \in W!TurnPC /\ pc'[v] \in W!TurnPC /\ v # u
            => ticket'[v] # ticket'[u]
    BY <2>1 DEF RWInv, Queued
  <2> QED BY <2>2, <2>3 DEF Queued
<1> QED BY <1>4, <1>6, <1>7, <1>8, <1>9 DEF Excluded

\* A writer leaves.
LEMMA WUnlockCasStep ==
  ASSUME RWInv, NEW t \in Thread, W!WUnlockCas(t), barrier = was[t], kind' = kind
  PROVE  Counts' /\ Excluded' /\ Queued'
<1>1. pc[t] = "wu_cas" /\ W!Goto(t,
    "out") /\ barrier' = W!Released(barrier) /\ ticket' = ticket
  BY DEF W!WUnlockCas, W!Cas
<1>2. /\ pc \in [Thread -> W!RWPC] /\ barrier \in W!Barrier /\ ticket \in [Thread -> W!Counter]
      /\ kind \in {"wpref", "wpreford", "rpref"}
  BY DEF RWInv, W!RWTypeOK
<1>3. /\ barrier.readers \in W!Counter /\ barrier.done \in W!Counter /\ barrier.writers \in W!Counter
      /\ barrier'.readers = barrier.readers /\ barrier'.active = 0
      /\ kind # "rpref" => barrier'.writers = W!Minus1(barrier.writers)
      /\ kind = "wpreford" => barrier'.done = W!Plus1(barrier.done)
  BY <1>1, <1>2 DEF W!Barrier, W!Released
<1>4. /\ N(W!ReadPC)' = N(W!ReadPC) /\ N(W!WritePC)' = N(W!WritePC) - 1 /\ N(W!WritePC)' \in Nat
      /\ N(W!TurnPC)' = N(W!TurnPC)
  BY <1>1, <1>2, Moved, InType DEF W!ReadPC, W!WritePC, W!TurnPC
<1>5. N(W!ReadPC) \in Nat /\ N(W!WritePC) \in Nat /\ N(W!TurnPC) \in Nat
  BY InType
<1>6. N(W!WritePC) = 1
  BY <1>2, <1>4, <1>5 DEF RWInv, Counts, W!Barrier
<1>7. kind # "rpref" => barrier'.writers = barrier.writers - 1
  BY <1>3, <1>5, <1>6, CounterStep DEF RWInv, Counts
<1>a. CASE kind = "wpreford"
  <2>1. Diff(barrier.readers, barrier.done) > 0
    BY <1>5, <1>6, <1>a DEF RWInv, Counts
  <2>2. Diff(barrier.readers, barrier'.done) = Diff(barrier.readers, barrier.done) - 1
    BY <1>a, <1>3, <2>1, DiffStep
  <2>3. Counts'
    BY <1>a, <1>3, <1>4, <1>5, <1>6, <1>7, <2>2 DEF RWInv, Counts
  <2>4. \A u \in Thread : pc'[u] \in W!TurnPC => pc[u] \in W!TurnPC
    BY <1>1, <1>2 DEF W!Goto, W!TurnPC
  <2>5. ASSUME NEW u \in Thread, pc[u] \in W!TurnPC
        PROVE  Diff(ticket[u], barrier'.done) = Diff(ticket[u], barrier.done) - 1
               /\ Diff(ticket[u], barrier.done) \in Nat
    <3>1. ticket[u] \in W!Counter
      BY <1>2
    <3>2. Diff(ticket[u], barrier.done) \in Nat
      <4>1. Diff(ticket[u], barrier.done) \in W!Counter
        BY <1>3, <3>1, DiffIs
      <4> QED BY <4>1, WrapType DEF W!Counter
    <3>3. Diff(ticket[u], barrier.done) > 0
      BY <1>a, <1>5, <1>6, <2>5, <3>2 DEF RWInv, Queued, Ahead
    <3> QED BY <1>a, <1>3, <3>1, <3>2, <3>3, DiffStep
  <2>6. Queued'
    BY <1>a, <1>1, <1>4, <1>5, <2>4, <2>5 DEF RWInv, Queued, Ahead
  <2> QED BY <1>4, <1>6, <2>3, <2>6 DEF Excluded
<1>b. CASE kind # "wpreford"
  <2>1. Counts'
    BY <1>b, <1>3, <1>4, <1>5, <1>6, <1>7 DEF RWInv, Counts
  <2> QED BY <1>b, <1>4, <1>6, <2>1 DEF Excluded, Queued
<1> QED BY <1>a, <1>b

\* Every step of a thread in a reader-writer lock keeps the invariant.
LEMMA RWStep ==
  ASSUME RWInv, NEW t \in Thread, W!RWCall(t) \/ W!RWProgress(t), kind' = kind
  PROVE  RWInv'
<1> SUFFICES Counts' /\ Excluded' /\ Queued'
  BY RWTypeStep, ExpectsStep DEF RWInv
<1>0. pc \in [Thread -> W!RWPC] /\ ticket \in [Thread -> W!Counter] /\ kind \in {"wpref",
    "wpreford", "rpref"}
  BY DEF RWInv, W!RWTypeOK
<1> USE DEF W!ReadPC, W!WritePC, W!TurnPC
<1>1. CASE W!RLock(t)
  BY <1>0, <1>1, QuietStep DEF W!RLock
<1>2. CASE W!WLock(t)
  BY <1>0, <1>2, QuietStep DEF W!WLock
<1>3. CASE W!RUnlock(t) \/ W!WUnlock(t)
  BY <1>0, <1>3, QuietStep DEF W!RUnlock, W!WUnlock
<1>4. CASE W!RLockLoad(t) \/ W!RUnlockLoad(t) \/ W!WLockLoad(t) \/ W!TurnLoad(t) \/ W!WUnlockLoad(t)
  BY <1>0, <1>4, QuietStep DEF W!RLockLoad, W!RUnlockLoad, W!WLockLoad, W!TurnLoad,
      W!WUnlockLoad, W!Load
<1>5. CASE W!RLockCas(t)
  <2>1. CASE barrier # was[t]
    BY <1>0, <1>5, <2>1, QuietStep DEF W!RLockCas, W!Cas
  <2> QED BY <1>5, <2>1, RLockCasStep
<1>6. CASE W!RUnlockCas(t)
  <2>1. CASE barrier # was[t]
    BY <1>0, <1>6, <2>1, QuietStep DEF W!RUnlockCas, W!Cas
  <2> QED BY <1>6, <2>1, RUnlockCasStep
<1>7. CASE W!WLockCas(t)
  <2>1. CASE barrier # was[t]
    BY <1>0, <1>7, <2>1, QuietStep DEF W!WLockCas, W!Cas
  <2>2. kind # "rpref"
    BY <1>7 DEF RWInv, Expects, W!WLockCas, W!Cas
  <2> QED BY <1>7, <2>1, <2>2, WLockCasStep
<1>8. CASE W!TurnCas(t)
  <2>1. CASE barrier # was[t]
    <3> DEFINE x == IF kind = "rpref" THEN "wt_cas" ELSE "wt_load"
    <3>1. /\ pc[t] = "wt_cas" /\ W!Goto(t, x) /\ barrier' = barrier
          /\ pc'[t] # "writing"
      BY <1>0, <1>8, <2>1 DEF W!TurnCas, W!Cas, W!Goto
    <3>2. ticket' = ticket
      BY <1>0, <1>8, <3>1 DEF W!TurnCas
    <3>3. x \in W!TurnPC /\ x \notin W!ReadPC /\ x \notin W!WritePC
      OBVIOUS
    <3> HIDE DEF x
    <3> QED BY <3>1, <3>2, <3>3, QuietStep
  <2> QED BY <1>8, <2>1, TurnCasStep
<1>9. CASE W!WUnlockCas(t)
  <2>1. CASE barrier # was[t]
    BY <1>0, <1>9, <2>1, QuietStep DEF W!WUnlockCas, W!Cas
  <2> QED BY <1>9, <2>1, WUnlockCasStep
<1> QED
  BY <1>1, <1>2, <1>3, <1>4, <1>5, <1>6, <1>7, <1>8, <1>9 DEF W!RWCall, W!RWProgress

-----------------------------------------------------------------------------
(* Invariants of every lock *)

IInv == (IsSpin /\ SpinInv) \/ (~IsSpin /\ RWInv)

\* A new lock satisfies the invariant.
LEMMA InitInv == Init => IInv
<1>1. ASSUME S!SInit PROVE IsSpin /\ SpinInv
  BY <1>1, ConstantsAssumption
  DEF S!SInit, IsSpin, SpinInv, S!SConstants, S!SpinTypeOK, S!OwnerIsHolder, SpinHeld,
      S!SpinPC, S!WaitPC
<1>2. ASSUME W!WInit PROVE ~IsSpin /\ RWInv
  <2>1. W!RWTypeOK
    BY <1>2, WrapType DEF W!WInit, W!RWTypeOK, W!RWPC, W!Barrier, W!Zero, W!Counter
  <2>2. W!In(W!ReadPC) = {} /\ W!In(W!WritePC) = {} /\ W!In(W!TurnPC) = {}
    BY <1>2 DEF W!WInit, W!In, W!ReadPC, W!WritePC, W!TurnPC
  <2>3. N(W!ReadPC) = 0 /\ N(W!WritePC) = 0 /\ N(W!TurnPC) = 0
    BY <2>2, InType
  <2>4. barrier = W!Zero
    BY <1>2 DEF W!WInit
  <2>5. Diff(0, 0) = 0
    BY DiffStep, WrapType DEF W!Counter
  <2>6. Counts
    BY <2>3, <2>4, <2>5 DEF Counts, W!Zero
  <2>7. W!UnlockAsserts /\ Expects /\ Excluded /\ Queued
    BY <1>2, <2>3 DEF W!WInit, W!UnlockAsserts, Expects, Excluded, Queued, W!TurnPC
  <2>8. ~IsSpin
    BY <1>2 DEF W!WInit, IsSpin
  <2> QED BY <2>1, <2>6, <2>7, <2>8 DEF RWInv
<1> QED BY <1>1, <1>2 DEF Init, IInv

\* Every step of every lock keeps the invariant.
LEMMA StepInv == IInv /\ [Next]_vars => IInv'
<1> SUFFICES ASSUME IInv, [Next]_vars PROVE IInv'
  OBVIOUS
<1>1. CASE UNCHANGED vars
  <2>1. SpinInv => SpinInv'
    BY <1>1 DEF vars, spinVars, rwVars, SpinInv, S!SpinTypeOK, S!OwnerIsHolder, SpinHeld
  <2>2. RWInv => RWInv'
    BY <1>1 DEF vars, spinVars, rwVars, RWInv, W!RWTypeOK, Counts, W!UnlockAsserts,
        Expects, Excluded, Queued, Ahead, N, W!In
  <2> QED BY <1>1, <2>1, <2>2 DEF vars, IInv, IsSpin
<1>2. CASE Next
  <2> PICK t \in Thread : Call(t) \/ Progress(t)
    BY <1>2 DEF Next
  <2>1. kind' = kind
    BY <1>2 DEF Next
  <2>2. CASE IsSpin
    <3>1. S!SpinCall(t) \/ S!SpinProgress(t)
      BY <2>2 DEF Call, Progress
    <3> QED BY <2>1, <2>2, <3>1, SpinStep DEF IInv, IsSpin
  <2>3. CASE ~IsSpin
    <3>1. W!RWCall(t) \/ W!RWProgress(t)
      BY <2>3 DEF Call, Progress
    <3> QED BY <2>1, <2>3, <3>1, RWStep DEF IInv, IsSpin
  <2> QED BY <2>2, <2>3
<1> QED BY <1>1, <1>2

\* The inductive invariant holds for every lock, always.
THEOREM Invariance == Spec => []IInv
  BY InitInv, StepInv, PTL DEF Spec

\* No word of a lock leaves its type: m_spin does not exceed the nested locks of a
\* section, and no counter of a barrier leaves its width.
THEOREM TypeCorrect == Spec => []TypeOK
<1>1. IInv => TypeOK
  BY DEF IInv, TypeOK, SpinInv, RWInv
<1> QED BY <1>1, Invariance, PTL

\* The owner in a spin lock's word is the thread that holds it, or nobody; the
\* barrier counts the readers inside, the writers announced and the writer inside,
\* also after its counters have wrapped; the assertions of runlock and wunlock hold.
THEOREM WordsTrue == Spec => []WordsAgree
<1>1. IInv => WordsAgree
  BY CountsIs DEF IInv, WordsAgree, SpinInv, RWInv
<1> QED BY <1>1, Invariance, PTL

\* A reader of RWSpinWPrefT or RWSpinWPrefOrdT never gets in while a writer that has
\* announced itself waits.
THEOREM WritersPreferred == Spec => WriterPreference
<1>1. IInv /\ [Next]_vars => [IsSpin \/ W!NoReaderPasses]_vars
  <2> SUFFICES ASSUME IInv, ~IsSpin, Next, kind # "rpref",
                      NEW u \in Thread, pc[u] = "r_cas", pc'[u] = "reading"
               PROVE  W!Waiting = {}
    BY DEF W!NoReaderPasses
  <2> PICK t \in Thread : W!RWCall(t) \/ W!RWProgress(t)
    BY DEF Next, Call, Progress
  <2>0. RWInv /\ pc \in [Thread -> W!RWPC]
    BY DEF IInv, RWInv, W!RWTypeOK
  <2>1. barrier = was[u]
    BY <2>0 DEF W!RWCall, W!RWProgress, W!RLock, W!WLock, W!RUnlock, W!WUnlock,
        W!RLockLoad, W!RUnlockLoad, W!WLockLoad, W!TurnLoad, W!WUnlockLoad,
        W!RLockCas, W!RUnlockCas, W!WLockCas, W!TurnCas, W!WUnlockCas, W!Load, W!Cas, W!Goto
  <2>2. barrier.writers = 0
    BY <2>0, <2>1 DEF RWInv, Expects
  <2>3. N(W!TurnPC) = 0
    BY <2>0, <2>2, InType DEF RWInv, Counts
  <2> QED BY <2>3, InType DEF W!Waiting
<1> QED BY <1>1, Invariance, PTL DEF Spec, WriterPreference

-----------------------------------------------------------------------------
(* The locks implement RWMutex *)

modes == [t \in Thread |-> ModeOf(t)]

\* Every step of SpinT and ReentrantSpinT is a step of a mutex, or changes nothing
\* that a mutex shows; a tryLock gives up only while another thread holds the lock.
LEMMA SpinImplements ==
  ASSUME SpinInv, IsSpin, NEW t \in Thread, S!SpinCall(t) \/ S!SpinProgress(t), kind' = kind
  PROVE  M!MNext \/ modes' = modes
<1> USE DEF modes, ModeOf, S!SpinMode, S!WaitPC, S!Goto, IsSpin
<1>0. /\ pc \in [Thread -> S!SpinPC] /\ NullId \notin Thread /\ tries \in [Thread -> 0..MaxTries]
      /\ IsSpin' = IsSpin /\ owner \in {holder, NullId} /\ holder \in Thread \cup {NullId}
      /\ kind' \in {"spin", "reentrant"}
  BY ConstantsAssumption DEF SpinInv, S!SpinTypeOK, S!OwnerIsHolder, S!SConstants
<1>a. pc[t] \in {"l_own", "l_inc", "u_load", "u_dec", "u_free", "u_store"} => holder = t
  BY DEF SpinInv, S!OwnerIsHolder, SpinHeld
<1>b. pc[t] \in {"l_cas", "l_look"} => holder # t
  BY DEF SpinInv, SpinHeld
<1>1. CASE \E n \in 0..MaxTries : S!Lock(t, n)
  <2>1. CASE holder = t
    BY <1>0, <1>1, <2>1 DEF S!Lock
  <2>2. CASE holder # t
    <3>1. modes[t] = "out" /\ modes' = [modes EXCEPT ![t] = "wwait"]
      BY <1>0, <1>1, <2>2 DEF S!Lock
    <3> QED BY <3>1 DEF M!MNext, M!Call
  <2> QED BY <2>1, <2>2
<1>2. CASE S!Unlock(t) \/ S!LockLook(t) \/ S!LockOwn(t) \/ S!LockInc(t) \/ S!UnlockOwned(t) \/ S!UnlockLoad(t)
           \/ S!UnlockDec(t) \/ S!UnlockFree(t)
  BY <1>0, <1>a, <1>b, <1>2
  DEF S!Unlock, S!LockLook, S!LockOwn, S!LockInc, S!UnlockOwned, S!UnlockLoad,
      S!UnlockDec, S!UnlockFree
<1>3. CASE \E u \in Thread : S!ChangeOwner(t, u)
  <2> PICK u \in Thread : S!ChangeOwner(t, u)
    BY <1>3
  <2>1. /\ modes[t] = "write" /\ modes[u] = "out"
        /\ modes' = [modes EXCEPT ![t] = "out", ![u] = "write"]
    BY <1>0 DEF S!ChangeOwner
  <2> QED BY <2>1 DEF M!MNext, M!HandOver
<1>4. CASE S!LockOwned(t)
  BY <1>0, <1>4 DEF S!LockOwned, S!IsOwned
<1>5. CASE S!LockCas(t)
  <2>1. CASE spin = 0
    <3>1. holder = NullId
      BY <1>0, <2>1 DEF SpinInv, SpinHeld
    <3>2. /\ modes[t] = "wwait" /\ modes' = [modes EXCEPT ![t] = "write"]
          /\ \A u \in Thread : modes[u] \notin {"read", "write"}
      BY <1>0, <1>5, <2>1, <3>1 DEF S!LockCas
    <3> QED BY <3>2 DEF M!MNext, M!EnterWrite, M!Inside
  <2>2. CASE spin # 0
    <3>1. holder \in Thread /\ modes[holder] = "write"
      BY <1>0, <2>2 DEF SpinInv, SpinHeld
    <3>2. modes[t] = "wwait" /\ (modes' = [modes EXCEPT ![t] = "out"] \/ modes' = modes)
      BY <1>0, <1>b, <1>5, <2>2 DEF S!LockCas
    <3> QED BY <3>1, <3>2 DEF M!MNext, M!GiveUp, M!Inside
  <2> QED BY <2>1, <2>2
<1>6. CASE S!UnlockStore(t)
  <2>1. modes[t] = "write" /\ modes' = [modes EXCEPT ![t] = "out"]
    BY <1>0, <1>a, <1>6 DEF S!UnlockStore
  <2> QED BY <2>1 DEF M!MNext, M!Leave, M!Inside
<1> QED
  BY <1>1, <1>2, <1>3, <1>4, <1>5, <1>6 DEF S!SpinCall, S!SpinProgress

\* The mode of a thread depends on its program counter only.
At(x) == CASE x = "out" -> "out" [] x \in {"r_load", "r_cas"} -> "rwait"
           [] x \in W!ReadPC -> "read" [] x \in W!WritePC -> "write" [] OTHER -> "wwait"
\* The values of that function.
LEMMA AtIs ==
  /\ At("out") = "out" /\ At("r_load") = "rwait" /\ At("r_cas") = "rwait"
  /\ \A x \in W!ReadPC : At(x) = "read"
  /\ \A x \in W!WritePC : At(x) = "write"
  /\ \A x \in {"w_load", "w_cas"} \cup W!TurnPC : At(x) = "wwait"
  /\ \A x \in W!RWPC : (At(x) = "write" => x \in W!WritePC) /\ (At(x) = "read" => x \in W!ReadPC)
  BY DEF At, W!ReadPC, W!WritePC, W!TurnPC, W!RWPC

\* Every step of a reader-writer lock is a step of RWMutex, or changes nothing that
\* it shows: a reader gets in when no writer is inside, a writer when nobody is.
LEMMA RWImplements ==
  ASSUME RWInv, ~IsSpin, NEW t \in Thread, W!RWCall(t) \/ W!RWProgress(t), kind' = kind
  PROVE  M!MNext \/ modes' = modes
<1>0. /\ pc \in [Thread -> W!RWPC] /\ kind \in {"wpref", "wpreford", "rpref"}
      /\ modes = [u \in Thread |-> At(pc[u])] /\ modes' = [u \in Thread |-> At(pc'[u])]
  BY DEF RWInv, W!RWTypeOK, IsSpin, modes, ModeOf, W!RWMode, At
<1>1. ASSUME NEW x, W!Goto(t, x)
      PROVE  modes' = [modes EXCEPT ![t] = At(x)]
  BY <1>0, <1>1 DEF W!Goto
<1> USE DEF W!ReadPC, W!WritePC, W!TurnPC
<1>2. CASE W!RLock(t) \/ W!WLock(t)
  <2>1. modes[t] = "out"
    BY <1>0, <1>2, AtIs DEF W!RLock, W!WLock
  <2>2. \E m \in {"rwait", "wwait"} : modes' = [modes EXCEPT ![t] = m]
    <3>1. CASE W!RLock(t)
      BY <1>1, <3>1, AtIs DEF W!RLock
    <3>2. CASE W!WLock(t)
      BY <1>1, <3>2, AtIs DEF W!WLock
    <3> QED BY <1>2, <3>1, <3>2
  <2> QED BY <2>1, <2>2 DEF M!MNext, M!Call, modes
<1>a. ASSUME NEW x, W!Goto(t, x), At(x) = At(pc[t]) PROVE modes' = modes
  BY <1>0, <1>1, <1>a
<1>3. CASE W!RUnlock(t) \/ W!WUnlock(t)
  BY <1>a, <1>3, AtIs DEF W!RUnlock, W!WUnlock
<1>4. CASE W!RLockLoad(t) \/ W!RUnlockLoad(t) \/ W!WLockLoad(t) \/ W!TurnLoad(t) \/ W!WUnlockLoad(t)
  BY <1>a, <1>4, AtIs DEF W!RLockLoad, W!RUnlockLoad, W!WLockLoad, W!TurnLoad,
      W!WUnlockLoad, W!Load
<1>5. CASE W!RLockCas(t)
  <2>1. CASE barrier # was[t]
    BY <1>a, <1>5, <2>1, AtIs DEF W!RLockCas, W!Cas
  <2>2. CASE barrier = was[t]
    <3>1. modes[t] = "rwait" /\ modes' = [modes EXCEPT ![t] = "read"]
      BY <1>0, <1>1, <1>5, <2>2, AtIs DEF W!RLockCas, W!Cas
    <3>2. W!In(W!WritePC) = {}
      <4>1. barrier.active = 0 \/ (barrier.writers = 0 /\ kind # "rpref")
        <5>1. pc[t] = "r_cas"
          BY <1>5 DEF W!RLockCas, W!Cas
        <5>2. /\ kind # "wpreford" => was[t].active = 0
              /\ kind # "rpref" => was[t].writers = 0
          BY <5>1 DEF RWInv, Expects
        <5> QED BY <2>2, <5>2
      <4>2. N(W!WritePC) = 0
        BY <1>0, <4>1, InType DEF RWInv, Counts
      <4> QED BY <4>2, InType
    <3>3. \A u \in Thread : modes[u] # "write"
      BY <1>0, <3>2, AtIs DEF W!In
    <3> QED BY <3>1, <3>3 DEF M!MNext, M!EnterRead, modes
  <2> QED BY <2>1, <2>2
<1>6. CASE W!RUnlockCas(t) \/ W!WUnlockCas(t)
  <2>1. modes[t] \in {"read", "write"}
    BY <1>0, <1>6, AtIs DEF W!RUnlockCas, W!WUnlockCas, W!Cas
  <2>2. modes' = [modes EXCEPT ![t] = "out"] \/ modes' = modes
    BY <1>1, <1>a, <1>6, AtIs DEF W!RUnlockCas, W!WUnlockCas, W!Cas
  <2> QED BY <2>1, <2>2 DEF M!MNext, M!Leave, M!Inside, modes
<1>7. CASE W!WLockCas(t)
  BY <1>a, <1>7, AtIs DEF W!WLockCas, W!Cas
<1>8. CASE W!TurnCas(t)
  <2>1. CASE barrier # was[t]
    BY <1>a, <1>8, <2>1, AtIs DEF W!TurnCas, W!Cas
  <2>2. CASE barrier = was[t]
    <3>1. modes[t] = "wwait" /\ modes' = [modes EXCEPT ![t] = "write"]
      BY <1>0, <1>1, <1>8, <2>2, AtIs DEF W!TurnCas, W!Cas
    <3>2. W!In(W!WritePC) = {} /\ W!In(W!ReadPC) = {}
      BY <1>8, <2>2, TurnCasStep, InType
    <3>3. \A u \in Thread : modes[u] \notin {"read", "write"}
      BY <1>0, <3>2, AtIs DEF W!In
    <3> QED BY <3>1, <3>3 DEF M!MNext, M!EnterWrite, M!Inside, modes
  <2> QED BY <2>1, <2>2
<1> QED
  BY <1>2, <1>3, <1>4, <1>5, <1>6, <1>7, <1>8 DEF W!RWCall, W!RWProgress

\* Mutual exclusion: each of the five locks implements RWMutex, in which a section
\* for writing excludes every other and one for reading excludes writing.
THEOREM MutualExclusion == Spec => IsMutex
<1>1. Init => M!MInit
  <2>1. ASSUME S!SInit PROVE modes = [t \in Thread |-> "out"]
    BY <2>1, ConstantsAssumption DEF S!SInit, S!SConstants, modes, ModeOf, S!SpinMode,
        S!WaitPC, IsSpin
  <2>2. ASSUME W!WInit PROVE modes = [t \in Thread |-> "out"]
    BY <2>2, AtIs DEF W!WInit, modes, ModeOf, W!RWMode, At, IsSpin
  <2> QED BY <2>1, <2>2 DEF Init, M!MInit, modes
<1>2. IInv /\ [Next]_vars => [M!MNext]_modes
  <2>1. CASE UNCHANGED vars
    BY <2>1 DEF vars, spinVars, rwVars, modes, ModeOf, IsSpin, S!SpinMode, W!RWMode
  <2>2. ASSUME IInv, Next PROVE M!MNext \/ modes' = modes
    <3> PICK t \in Thread : Call(t) \/ Progress(t)
      BY <2>2 DEF Next
    <3>1. kind' = kind
      BY <2>2 DEF Next
    <3>2. CASE IsSpin
      BY <2>2, <3>1, <3>2, SpinImplements DEF IInv, Call, Progress
    <3>3. CASE ~IsSpin
      BY <2>2, <3>1, <3>3, RWImplements DEF IInv, Call, Progress
    <3> QED BY <3>2, <3>3
  <2> QED BY <2>1, <2>2
<1> QED BY <1>1, <1>2, Invariance, PTL DEF Spec, IsMutex, M!MSpec, modes
=============================================================================
