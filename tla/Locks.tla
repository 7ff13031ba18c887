------------------------------- MODULE Locks -------------------------------
(***************************************************************************)
(* One lock of any of the five classes, and the specification that all of  *)
(* them implement.                                                         *)
(***************************************************************************)
EXTENDS Naturals, FiniteSets

CONSTANTS Thread, NullId, MaxTries, MaxUses, Readers, Writers, Wrap

VARIABLES kind, pc,
          spin, owner, tries, holder, nested, uses,     \* see SpinLocks
          barrier, was, ticket                          \* see RWSpinLocks

S == INSTANCE SpinLocks
W == INSTANCE RWSpinLocks

ASSUME ConstantsAssumption == S!SConstants /\ W!WConstants

spinVars == <<spin, owner, tries, holder, nested, uses>>
rwVars == <<barrier, was, ticket>>
vars == <<kind, pc, spinVars, rwVars>>

IsSpin == kind \in {"spin", "reentrant"}

\* The variables of the other family of locks stay as they are
NoSpin == spin = 0 /\ owner = NullId /\ tries = <<>> /\ holder = NullId /\ nested = 0 /\ uses = 0
NoBarrier == barrier = W!Zero /\ was = <<>> /\ ticket = <<>>
Init == (S!SInit /\ NoBarrier) \/ (W!WInit /\ NoSpin)

Call(t) ==
    \/ IsSpin /\ S!SpinCall(t) /\ UNCHANGED rwVars
    \/ ~IsSpin /\ W!RWCall(t) /\ UNCHANGED spinVars
Progress(t) ==
    \/ IsSpin /\ S!SpinProgress(t) /\ UNCHANGED rwVars
    \/ ~IsSpin /\ W!RWProgress(t) /\ UNCHANGED spinVars
Next == (\E t \in Thread : Call(t) \/ Progress(t)) /\ UNCHANGED kind

\* Every thread goes on with the call it has made, and leaves the section it is in.
Fairness == \A t \in Thread : WF_vars(Progress(t) /\ UNCHANGED kind)
Spec == Init /\ [][Next]_vars /\ Fairness

-----------------------------------------------------------------------------
\* The state has the type of its class; the counters stay within their width.
TypeOK == IF IsSpin THEN S!SpinTypeOK ELSE W!RWTypeOK

\* What the words of a lock say of the threads is true: see OwnerIsHolder in
\* SpinLocks and BarrierCounts and UnlockAsserts in RWSpinLocks.
WordsAgree ==
    /\ IsSpin => S!OwnerIsHolder
    /\ ~IsSpin => W!BarrierCounts /\ W!UnlockAsserts

\* "Writer preference": a reader never gets in before a writer that has announced
\* itself, unless the lock prefers readers.
WriterPreference == [][IsSpin \/ W!NoReaderPasses]_vars

\* Mutual exclusion: every section for writing excludes every other, and a
\* tryLock fails only when another thread is inside.
ModeOf(t) == IF IsSpin THEN S!SpinMode(t) ELSE W!RWMode(t)
M == INSTANCE RWMutex WITH mode <- [t \in Thread |-> ModeOf(t)]
IsMutex == M!MSpec

\* No deadlock: while threads wait, threads keep entering.
NobodyWaits == \A t \in Thread : ModeOf(t) \notin {"rwait", "wwait"}
SomeEnter == \E t \in Thread : ~M!Inside(t) /\ M!Inside(t)'
DeadlockFree == []<>NobodyWaits \/ []<><<SomeEnter>>_vars

\* RWSpinWPrefOrdT serves its writers: one that has a ticket gets in, however
\* many threads come after it.
TicketServed ==
    \A t \in Thread :
        (kind = "wpreford" /\ pc[t] \in W!TurnPC) ~> (kind = "wpreford" /\ pc[t] = "writing")
=============================================================================
