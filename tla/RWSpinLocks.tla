---------------------------- MODULE RWSpinLocks ----------------------------
(***************************************************************************)
(* The reader-writer locks of cds/lock/rwlock.h.  A lock is one word, the  *)
(* barrier, that every operation reads, changes in a copy and puts back by *)
(* compare-and-swap; an operation that has to wait expects a word in which *)
(* it has not to, and repeats until it finds it.                           *)
(*                                                                         *)
(* RWSpinWPrefT ("wpref") and RWSpinWPrefOrdT ("wpreford") prefer writers, *)
(* the second in the order of their arrival; RWSpinRPrefT ("rpref")        *)
(* prefers readers.                                                        *)
(***************************************************************************)
EXTENDS Naturals, FiniteSets

CONSTANTS Thread,
          Readers, Writers, \* bound: the threads that ask to read, and to write
          Wrap      \* counters count modulo Wrap (2^15, 2^16 or 2^31 in the code)

WConstants ==
    /\ Readers \subseteq Thread /\ Writers \subseteq Thread
    /\ Wrap \in Nat /\ IsFiniteSet(Thread) /\ Cardinality(Thread) < Wrap

VARIABLES
  kind,         \* the class of the lock
  barrier,      \* m_Barrier: the counters and writerActive
  pc,
  was,          \* the local b of each operation: the barrier it expects
  ticket        \* nTicket of a writer of RWSpinWPrefOrdT

wvars == <<kind, barrier, pc, was, ticket>>

Counter == 0..(Wrap - 1)
\* readers: readerCount, or workerCount of RWSpinWPrefOrdT
Barrier == [readers : Counter, writers : Counter, done : Counter, active : {0, 1}]
Zero == [readers |-> 0, writers |-> 0, done |-> 0, active |-> 0]

ReadPC == {"reading", "ru_load", "ru_cas"}
WritePC == {"writing", "wu_load", "wu_cas"}
TurnPC == {"wt_load", "wt_cas"}     \* announced, waiting for its turn
RWPC == {"out", "r_load", "r_cas", "w_load", "w_cas"} \cup ReadPC \cup WritePC \cup TurnPC

RWTypeOK ==
    /\ kind \in {"wpref", "wpreford", "rpref"}
    /\ barrier \in Barrier
    /\ pc \in [Thread -> RWPC]
    /\ was \in [Thread -> Barrier]
    /\ ticket \in [Thread -> Counter]

WInit ==
    /\ kind \in {"wpref", "wpreford", "rpref"}
    /\ barrier = Zero
    /\ pc = [t \in Thread |-> "out"]
    /\ was = [t \in Thread |-> Zero]
    /\ ticket = [t \in Thread |-> 0]

Plus1_NoWrap(c) == c + 1                                          \* mutant
Plus1(c) == (c + 1) % Wrap
Minus1(c) == (c + Wrap - 1) % Wrap
Goto(t, there) == pc' = [pc EXCEPT ![t] = there]

\* The load at the head of each loop, which makes b the barrier to be expected, and
\* the compare-and-swap at its end
Load(t, from, b, to) ==
    /\ pc[t] = from
    /\ was' = [was EXCEPT ![t] = b]
    /\ Goto(t, to)
    /\ UNCHANGED <<barrier, ticket>>
Cas(t, from, new, done, again) ==
    /\ pc[t] = from
    /\ IF barrier = was[t] THEN barrier' = new /\ Goto(t, done)
                           ELSE UNCHANGED barrier /\ Goto(t, again)
    /\ was' = [was EXCEPT ![t] = Zero]

-----------------------------------------------------------------------------
RLock(t) == pc[t] = "out" /\ Goto(t, "r_load") /\ UNCHANGED <<barrier, was, ticket>>
\* A reader enters when there is no writer: inside (readers first), or at all
Readable_WriterInside(b) == [b EXCEPT !.active = 0]               \* mutant
Readable(b) ==
    CASE kind = "wpref"    -> [b EXCEPT !.active = 0, !.writers = 0]
      [] kind = "wpreford" -> [b EXCEPT !.writers = 0]
      [] kind = "rpref"    -> [b EXCEPT !.active = 0]
RLockLoad(t) == Load(t, "r_load", Readable(barrier), "r_cas")
RLockCas(t) ==
    /\ Cas(t, "r_cas", [was[t] EXCEPT !.readers = Plus1(@)], "reading", "r_load")
    /\ UNCHANGED ticket

RUnlock(t) == pc[t] = "reading" /\ Goto(t, "ru_load") /\ UNCHANGED <<barrier, was, ticket>>
RUnlockLoad(t) == Load(t, "ru_load", barrier, "ru_cas")
RUnlockCas(t) ==
    /\ Cas(t, "ru_cas", IF kind = "wpreford" THEN [was[t] EXCEPT !.done = Plus1(@)]
                        ELSE [was[t] EXCEPT !.readers = Minus1(@)], "out", "ru_load")
    /\ UNCHANGED ticket

-----------------------------------------------------------------------------
\* A writer of RWSpinRPrefT just waits for a barrier of 0; the others announce
\* themselves first, and RWSpinWPrefOrdT gives them a ticket.
WLock(t) ==
    /\ pc[t] = "out"
    /\ Goto(t, IF kind = "rpref" THEN "wt_cas" ELSE "w_load")
    /\ UNCHANGED <<barrier, was, ticket>>
WLockLoad(t) == Load(t, "w_load", barrier, "w_cas")
Announced_NoTicket(b) == [b EXCEPT !.writers = Plus1(@)]          \* mutant
Announced(b) ==
    IF kind = "wpref" THEN [b EXCEPT !.writers = Plus1(@)]
    ELSE [b EXCEPT !.writers = Plus1(@), !.readers = Plus1(@)]
WLockCas(t) ==
    /\ Cas(t, "w_cas", Announced(was[t]), "wt_load", "w_load")
    /\ ticket' = [ticket EXCEPT ![t] = IF kind = "wpreford" THEN was[t].readers ELSE 0]

\* The barrier in which it is the writer's turn
Writable(t, b) ==
    CASE kind = "wpref"    -> [b EXCEPT !.active = 0, !.readers = 0]
      [] kind = "wpreford" -> [b EXCEPT !.active = 0, !.done = ticket[t]]
      [] kind = "rpref"    -> Zero
TurnLoad(t) == Load(t, "wt_load", Writable(t, barrier), "wt_cas")
TurnCas(t) ==
    /\ Cas(t, "wt_cas", [was[t] EXCEPT !.active = 1], "writing",
           IF kind = "rpref" THEN "wt_cas" ELSE "wt_load")
    /\ ticket' = [ticket EXCEPT ![t] = IF pc'[t] = "writing" THEN 0 ELSE @]

WUnlock(t) == pc[t] = "writing" /\ Goto(t, "wu_load") /\ UNCHANGED <<barrier, was, ticket>>
WUnlockLoad(t) == Load(t, "wu_load", barrier, "wu_cas")
Released_NotDone(b) == [b EXCEPT !.active = 0, !.writers = Minus1(@)]   \* mutant
Released(b) ==
    CASE kind = "wpref"    -> [b EXCEPT !.active = 0, !.writers = Minus1(@)]
      [] kind = "wpreford" -> [b EXCEPT !.active = 0, !.writers = Minus1(@), !.done = Plus1(@)]
      [] kind = "rpref"    -> [b EXCEPT !.active = 0]
WUnlockCas(t) ==
    /\ Cas(t, "wu_cas", Released(was[t]), "out", "wu_load")
    /\ UNCHANGED ticket

RWCall(t) == (t \in Readers /\ RLock(t)) \/ (t \in Writers /\ WLock(t))
\* What a thread goes on with; it does not stay in a section for ever
RWProgress(t) ==
    \/ RLockLoad(t) \/ RLockCas(t) \/ RUnlock(t) \/ RUnlockLoad(t) \/ RUnlockCas(t)
    \/ WLockLoad(t) \/ WLockCas(t) \/ TurnLoad(t) \/ TurnCas(t)
    \/ WUnlock(t) \/ WUnlockLoad(t) \/ WUnlockCas(t)
WNext == (\E t \in Thread : RWCall(t) \/ RWProgress(t)) /\ UNCHANGED kind

-----------------------------------------------------------------------------
In(here) == {t \in Thread : pc[t] \in here}
Waiting == IF kind = "rpref" THEN {} ELSE In(TurnPC)

\* The barrier counts the threads: readers inside, writers announced, a writer
\* inside; in RWSpinWPrefOrdT the difference of workerCount and doneCount, which
\* both wrap, counts the readers inside and the writers announced.
BarrierCounts ==
    /\ barrier.active = Cardinality(In(WritePC))
    /\ kind # "rpref" => barrier.writers = Cardinality(Waiting \cup In(WritePC))
    /\ IF kind = "wpreford"
       THEN (barrier.readers + Wrap - barrier.done) % Wrap
                = Cardinality(In(ReadPC) \cup Waiting \cup In(WritePC))
       ELSE barrier.readers = Cardinality(In(ReadPC))

\* The assertions of runlock (but that of RWSpinWPrefOrdT, which has none) and
\* of wunlock (RWSpinWPrefT only)
UnlockAsserts ==
    \A t \in Thread :
        /\ pc[t] = "ru_cas" /\ kind # "wpreford" => was[t].active = 0
        /\ pc[t] = "wu_cas" /\ kind = "wpref" => was[t].active = 1 /\ was[t].readers = 0

\* No reader enters while a writer that has announced itself waits.
NoReaderPasses ==
    \A t \in Thread :
        kind # "rpref" /\ pc[t] = "r_cas" /\ pc'[t] = "reading" => Waiting = {}

RWMode(t) ==
    CASE pc[t] = "out" -> "out"
      [] pc[t] \in {"r_load", "r_cas"} -> "rwait"
      [] pc[t] \in ReadPC -> "read"
      [] pc[t] \in WritePC -> "write"
      [] OTHER -> "wwait"
=============================================================================
