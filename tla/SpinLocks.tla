----------------------------- MODULE SpinLocks -----------------------------
(***************************************************************************)
(* The spin locks of cds/lock/spinlock.h: SpinT, a test-and-test-and-set   *)
(* lock that a debug build checks with the id of its owner, and            *)
(* ReentrantSpinT, whose owner may lock it again and hand it over.         *)
(*                                                                         *)
(* The word m_spin is 0 when the lock is free; in ReentrantSpinT it counts *)
(* the nested locks.  The owner's id is another word, written after m_spin *)
(* is taken and cleared before m_spin is released.                         *)
(***************************************************************************)
EXTENDS Naturals

CONSTANTS Thread,
          NullId,       \* OS::nullThreadId()
          MaxTries,     \* bound: the largest nTryCount of a tryLock
          MaxUses       \* bound: no section holds more nested locks and changes
                        \* of owner than this

SConstants == NullId \notin Thread /\ MaxTries \in Nat /\ MaxUses \in Nat

VARIABLES
  kind,         \* the class of the lock: "spin" or "reentrant"
  spin,         \* m_spin
  owner,        \* m_OwnerId; m_dbgOwnerId of SpinT
  pc,
  tries,        \* nTryCount, 0 for a lock() that never gives up
  holder,       \* history: the thread that has taken m_spin, or been handed it
  nested,       \* history: the lock calls of the section not yet undone
  uses          \* history: the nested locks and changes of owner of the section

svars == <<kind, spin, owner, pc, tries, holder, nested, uses>>

WaitPC == {"l_owned", "l_cas", "l_look"}
SpinPC == {"idle"} \cup WaitPC \cup {"l_inc", "l_own", "u_owned", "u_load", "u_dec", "u_free", "u_store"}

SpinTypeOK ==
    /\ kind \in {"spin", "reentrant"}
    /\ spin \in 0..(MaxUses + 1)
    /\ owner \in Thread \cup {NullId} /\ holder \in Thread \cup {NullId}
    /\ pc \in [Thread -> SpinPC]
    /\ tries \in [Thread -> 0..MaxTries]
    /\ nested \in 0..(MaxUses + 1) /\ uses \in 0..MaxUses

SInit ==
    /\ kind \in {"spin", "reentrant"}
    /\ spin = 0 /\ owner = NullId
    /\ pc = [t \in Thread |-> "idle"]
    /\ tries = [t \in Thread |-> 0]
    /\ holder = NullId /\ nested = 0 /\ uses = 0

Goto(t, there) == pc' = [pc EXCEPT ![t] = there]
BeOwner(id) == owner' = id

-----------------------------------------------------------------------------
(* lock and tryLock *)

\* The caller of a SpinT does not hold it: locking it again is a deadlock.
Lock(t, n) ==
    /\ pc[t] = "idle"
    /\ IF kind = "reentrant" THEN Goto(t, "l_owned")
                             ELSE holder # t /\ Goto(t, "l_cas")
    /\ holder = t => uses < MaxUses
    /\ uses' = IF holder = t THEN uses + 1 ELSE uses
    /\ tries' = [tries EXCEPT ![t] = n]
    /\ UNCHANGED <<spin, owner, holder, nested>>

IsOwned_AnyOwner(t) == owner # NullId                             \* mutant
IsOwned(t) == owner = t
LockOwned(t) ==
    /\ pc[t] = "l_owned"
    /\ Goto(t, IF IsOwned(t) THEN "l_inc" ELSE "l_cas")
    /\ UNCHANGED <<spin, owner, tries, holder, nested, uses>>

LockInc(t) ==
    /\ pc[t] = "l_inc"
    /\ spin' = spin + 1
    /\ nested' = nested + 1
    /\ tries' = [tries EXCEPT ![t] = 0]
    /\ Goto(t, "idle")
    /\ UNCHANGED <<owner, holder, uses>>

\* After a failed attempt lock() watches m_spin until it is 0 (TATAS), and
\* tryLock tries again at once, as often as it was told to.
LockCas(t) ==
    /\ pc[t] = "l_cas"
    /\ IF spin = 0
       THEN /\ spin' = 1
            /\ holder' = t /\ nested' = 1
            /\ tries' = [tries EXCEPT ![t] = 0]
            /\ Goto(t, "l_own")
       ELSE /\ tries' = [tries EXCEPT ![t] = IF @ = 0 THEN 0 ELSE @ - 1]
            /\ Goto(t, IF tries[t] = 0 THEN "l_look"
                       ELSE IF tries[t] = 1 THEN "idle" ELSE "l_cas")
            /\ UNCHANGED <<spin, holder, nested>>
    /\ UNCHANGED <<owner, uses>>

LockLook(t) ==
    /\ pc[t] = "l_look"
    /\ Goto(t, IF spin = 0 THEN "l_cas" ELSE "l_look")
    /\ UNCHANGED <<spin, owner, tries, holder, nested, uses>>

LockOwn(t) ==
    /\ pc[t] = "l_own"
    /\ BeOwner(t)
    /\ Goto(t, "idle")
    /\ UNCHANGED <<spin, tries, holder, nested, uses>>

-----------------------------------------------------------------------------
(* unlock and changeOwner *)

\* Any thread may ask to unlock a ReentrantSpinT; only the owner is obeyed.
Unlock(t) ==
    /\ pc[t] = "idle"
    /\ IF kind = "reentrant" THEN Goto(t, "u_owned")
                             ELSE holder = t /\ Goto(t, "u_free")
    /\ UNCHANGED <<spin, owner, tries, holder, nested, uses>>

UnlockOwned(t) ==
    /\ pc[t] = "u_owned"
    /\ Goto(t, IF IsOwned(t) THEN "u_load" ELSE "idle")
    /\ UNCHANGED <<spin, owner, tries, holder, nested, uses>>

Outermost(t) == spin <= 1
UnlockLoad(t) ==
    /\ pc[t] = "u_load"
    /\ Goto(t, IF Outermost(t) THEN "u_free" ELSE "u_dec")
    /\ UNCHANGED <<spin, owner, tries, holder, nested, uses>>

UnlockDec(t) ==
    /\ pc[t] = "u_dec"
    /\ spin' = spin - 1
    /\ nested' = nested - 1
    /\ Goto(t, "idle")
    /\ UNCHANGED <<owner, tries, holder, uses>>

UnlockFree_Skipped(t) ==                                          \* mutant
    /\ pc[t] = "u_free"
    /\ Goto(t, "u_store")
    /\ UNCHANGED <<owner, spin, tries, holder, nested, uses>>
UnlockFree(t) ==
    /\ pc[t] = "u_free"
    /\ BeOwner(NullId)
    /\ Goto(t, "u_store")
    /\ UNCHANGED <<spin, tries, holder, nested, uses>>

UnlockStore(t) ==
    /\ pc[t] = "u_store"
    /\ spin' = 0
    /\ holder' = NullId /\ nested' = 0 /\ uses' = 0
    /\ Goto(t, "idle")
    /\ UNCHANGED <<owner, tries>>

\* The new owner has no call in progress: one that waits in lock() would not see
\* that it owns the lock.  The caller knows that it is the owner.
ChangeOwner(t, u) ==
    /\ kind = "reentrant"
    /\ pc[t] = "idle" /\ IsOwned(t) /\ holder = t
    /\ u # t /\ pc[u] = "idle"
    /\ uses < MaxUses
    /\ BeOwner(u)
    /\ holder' = u /\ uses' = uses + 1
    /\ UNCHANGED <<spin, pc, tries, nested>>

SpinCall(t) ==
    \/ \E n \in 0..MaxTries : Lock(t, n)
    \/ holder # t /\ Unlock(t)
    \/ \E u \in Thread : ChangeOwner(t, u)
\* What a thread goes on with; it does not stay in a section for ever
SpinProgress(t) ==
    \/ LockOwned(t) \/ LockInc(t) \/ LockCas(t) \/ LockLook(t) \/ LockOwn(t)
    \/ holder = t /\ Unlock(t)
    \/ UnlockOwned(t) \/ UnlockLoad(t) \/ UnlockDec(t) \/ UnlockFree(t) \/ UnlockStore(t)
SNext == /\ \E t \in Thread : SpinCall(t) \/ SpinProgress(t)
         /\ UNCHANGED kind

-----------------------------------------------------------------------------
\* m_OwnerId names nobody but the holder, and does name it unless the holder is
\* on its way in or out; m_spin counts the locks not yet undone.  With it, the
\* assertions of SpinT about m_dbgOwnerId hold, and no thread but the holder is
\* ever obeyed by unlock.
OwnerIsHolder ==
    /\ owner \in {holder, NullId}
    /\ spin = nested
    /\ \A t \in Thread : pc[t] \in {"l_inc", "u_load", "u_dec", "u_free"} => owner = t /\ holder = t
    /\ holder # NullId /\ owner = NullId => pc[holder] \in {"l_own", "u_store"}

SpinMode(t) ==
    IF holder = t THEN "write" ELSE IF pc[t] \in WaitPC THEN "wwait" ELSE "out"
=============================================================================
