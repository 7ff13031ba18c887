------------------------- MODULE PassTheBuck_proofs -------------------------
(***************************************************************************)
(* Proofs about PassTheBuck, for any number of threads, nodes, links and   *)
(* guards.  IInv is shown inductive part by part, and the safety theorems  *)
(* follow from it.  That nothing guarded is freed needs in addition        *)
(* CopiesDescend, that guards are copied only to guards liberate examines  *)
(* later: IScan is inductive under it alone.  The refinement of the        *)
(* reclamation contract then follows, and from the contract, by the        *)
(* theorem of Reclamation, that a guarded pointer is not freed.            *)
(***************************************************************************)
EXTENDS PassTheBuck, SequenceTheorems, TLAPS

\* A container copies a guard only to one that liberate examines later.
CopiesDescend == \A c \in Copies : c[2] < c[1]

LibPC == {"steal", "reset", "scan", "recount"}
ScanPC == {"scan", "recount"}
Pushed == 1..nGuard

\* Each guard is free or once in one thread's list
Owns(t) ==
    /\ Elements(list[t]) \subseteq Pushed
    /\ Elements(list[t]) \cap freeGuards = {}
    /\ \A i, j \in DOMAIN list[t] : list[t][i] = list[t][j] => i = j
    /\ \A u \in Thread \ {t} : Elements(list[t]) \cap Elements(list[u]) = {}
\* How far a thread is in attaching and detaching, and what its list is then
Stage(t) ==
    /\ avail[t] \subseteq Elements(list[t])
    /\ pc[t] = "fini" => upto[t] \in 1..Len(list[t]) /\ Held(t) = {}
    /\ pc[t] = "detached" => list[t] = <<>>
    /\ pc[t] \notin {"detached", "attach"} => list[t] # <<>>
IPool ==
    /\ freeGuards \subseteq Pushed
    /\ \A t \in Thread : Owns(t) /\ Stage(t)
\* A guard nobody has taken yet posts nothing and traps nothing.
IPushed == \A g \in Guard : post[g] # Null \/ handoff[g] # Null => g \in Pushed
\* Between load and check a protect loop holds its guard, which then posts what was loaded.
Protecting(t) ==
    /\ pc[t] \in {"load", "store", "check"} => guard[t] \in Held(t)
    /\ pc[t] = "check" => post[guard[t]] = ptr[t]
IProtect == \A t \in Thread : Protecting(t)

\* Links and the nodes in the hands of those that have unlinked them
ILink ==
    /\ \A l \in Link : link[l] # Null => status[link[l]] = "linked"
    /\ \A l, m \in Link : link[l] # Null /\ link[l] = link[m] => l = m
    /\ \A t \in Thread : pc[t] = "retire" => ptr[t] \in Node /\ status[ptr[t]] = "unlinked"
    /\ \A t, u \in Thread : pc[t] = "retire" /\ pc[u] = "retire" /\ ptr[t] = ptr[u] => t = u

\* Liberate is run by one thread, the one that set m_lockLiberate; its locals are empty otherwise.
ILock ==
    /\ \A t \in Thread : pc[t] \in LibPC => locked
    /\ \A t, u \in Thread : pc[t] \in LibPC /\ pc[u] \in LibPC => t = u
    /\ \A t \in Thread : pc[t] \in {"steal", "reset"} => done = {}
    /\ (\A t \in Thread : pc[t] \notin LibPC \ {"steal"}) => set = {} /\ done = {} /\ stray = {}
    /\ at <= nGuard

\* Each retired node is in one place.
HandedOff(n) == \E g \in Guard : handoff[g] = n
Place(n) ==
    /\ status[n] = "retired" <=> n \in buffer \cup set \/ HandedOff(n)
    /\ n \notin buffer \cap set
    /\ n \in buffer \cup set => ~HandedOff(n)
    /\ \A g, h \in Guard : handoff[g] = n /\ handoff[h] = n => g = h
IPlace == \A n \in Node : Place(n)
\* A guard that has posted a node since its retirement posts it now.
IHolds == \A n \in Node : \A s \in blockers[n] : post[s] = n
\* What liberate has walked past blocks no node of the set.  It may block one handed off,
\* but then done tells: some guard examined before posts it.
IScan ==
    \A t \in Thread : pc[t] \in ScanPC =>
        /\ \A n \in set : blockers[n] \subseteq 1..at
        /\ \A n \in Node : HandedOff(n) => n \in done \/ blockers[n] \subseteq 1..at
\* A node nobody has posted since the steal waits in the set, or with a guard still to be
\* examined, which will give it back.
IStray ==
    \A n \in stray :
        /\ n \notin done
        /\ \A g \in Guard : post[g] # n
        /\ \/ n \in set
           \/ \E g \in Guard : handoff[g] = n
                               /\ ((\E t \in Thread : pc[t] \in ScanPC) => g <= at)

\* The guards pushed, and the one a push adds.
LEMMA PushedType == TypeOK => /\ nGuard \in Nat /\ Pushed \subseteq Guard
                              /\ nGuard < MaxGuard => nGuard + 1 \in Guard /\ 1..(nGuard + 1) = Pushed \cup {nGuard + 1}
  BY BoundAssumption DEF TypeOK, Guard, Pushed

\* What a thread's list holds when allocList or allocGuard has added a guard at one end.
LEMMA Lengthened ==
  ASSUME NEW s \in Seq(Guard), NEW g \in Guard
  PROVE  /\ Append(s, g) \in Seq(Guard) /\ <<g>> \o s \in Seq(Guard)
         /\ Append(s, g) # <<>> /\ <<g>> \o s # <<>>
         /\ Elements(Append(s, g)) = Elements(s) \cup {g}
         /\ Elements(<<g>> \o s) = Elements(s) \cup {g}
<1>1. /\ Append(s, g) \in Seq(Guard) /\ Len(Append(s, g)) = Len(s) + 1
      /\ Append(s, g)[Len(s) + 1] = g
      /\ \A i \in 1..Len(s) : Append(s, g)[i] = s[i]
  OBVIOUS
<1>2. /\ <<g>> \o s \in Seq(Guard) /\ Len(<<g>> \o s) = Len(s) + 1 /\ (<<g>> \o s)[1] = g
      /\ \A i \in 1..Len(s) : (<<g>> \o s)[i + 1] = s[i]
  OBVIOUS
<1>3. Elements(Append(s, g)) = Elements(s) \cup {g}
  BY <1>1 DEF Elements
<1>4. Elements(<<g>> \o s) = Elements(s) \cup {g}
  <2>1. DOMAIN s = 1..Len(s) /\ DOMAIN (<<g>> \o s) = 1..(Len(s) + 1) /\ Len(s) \in Nat
    BY <1>2
  <2>2. \A i \in 1..(Len(s) + 1) : i = 1 \/ i - 1 \in 1..Len(s)
    BY <2>1
  <2>3. \A i \in 1..(Len(s) + 1) : (<<g>> \o s)[i] = g \/ (<<g>> \o s)[i] \in Elements(s)
    BY <1>2, <2>1, <2>2 DEF Elements
  <2>4. \A i \in 1..Len(s) : i + 1 \in 1..(Len(s) + 1) /\ s[i] = (<<g>> \o s)[i + 1]
    BY <1>2, <2>1
  <2>5. 1 \in 1..(Len(s) + 1) /\ (<<g>> \o s)[1] = g
    BY <1>2, <2>1
  <2>6. Elements(<<g>> \o s) \subseteq Elements(s) \cup {g}
    BY <2>1, <2>3 DEF Elements
  <2>7. Elements(s) \cup {g} \subseteq Elements(<<g>> \o s)
    BY <2>1, <2>4, <2>5, ZenonT(30) DEF Elements
  <2> QED BY <2>6, <2>7
<1> QED BY <1>1, <1>2, <1>3, <1>4

\* A guard that was not in the list leaves it without duplicates.
LEMMA StillDistinct ==
  ASSUME NEW s \in Seq(Guard), NEW g \in Guard, g \notin Elements(s),
         \A i, j \in DOMAIN s : s[i] = s[j] => i = j
  PROVE  /\ \A i, j \in DOMAIN Append(s, g) : Append(s, g)[i] = Append(s, g)[j] => i = j
         /\ \A i, j \in DOMAIN (<<g>> \o s) : (<<g>> \o s)[i] = (<<g>> \o s)[j] => i = j
<1>1. /\ Append(s, g) \in Seq(Guard) /\ Len(Append(s, g)) = Len(s) + 1
      /\ Append(s, g)[Len(s) + 1] = g
      /\ \A i \in 1..Len(s) : Append(s, g)[i] = s[i] /\ s[i] # g
  BY DEF Elements
<1>2. /\ <<g>> \o s \in Seq(Guard) /\ Len(<<g>> \o s) = Len(s) + 1 /\ (<<g>> \o s)[1] = g
      /\ \A i \in 2..(Len(s) + 1) : (<<g>> \o s)[i] = s[i - 1] /\ s[i - 1] # g
  BY DEF Elements
<1> QED BY <1>1, <1>2

-----------------------------------------------------------------------------
(* Types *)
\* Taking a guard from the pool keeps the types.
LEMMA TakeGuardType ==
  ASSUME TypeOK, NEW g \in Guard, TakeGuard(g)
  PROVE  /\ nGuard' \in 0..MaxGuard /\ freeGuards' \subseteq Guard
         /\ R!RTypeOK' /\ handoff' = handoff /\ status' = status
  BY BoundAssumption DEF TypeOK, TakeGuard, Rest, R!RTypeOK, R!SetSlot, Guard

\* So does writing a guard.
LEMMA SlotType ==
  ASSUME R!RTypeOK, NEW g \in Guard, NEW p \in Node \cup {Null}, R!SetSlot(g, p)
  PROVE  R!RTypeOK'
  BY DEF R!RTypeOK, R!SetSlot

\* Every step keeps the types; a protect loop's guard and a retired pointer are what they
\* should be because of IProtect and ILink.
LEMMA StepType ==
  ASSUME TypeOK, IPool, IProtect, ILink, Next
  PROVE  TypeOK'
<1> PICK t \in Thread : Pooling(t) \/ Guarding(t) \/ Mutating(t) \/ Retiring(t) \/ Liberating(t)
  BY DEF Next
<1> USE DEF PC, Goto, At, rvars, poolVars, bufferVars, libVars, listVars, protectVars
<1>1. ASSUME NEW g \in Guard, AttachGuard(t, g) PROVE TypeOK'
  <2>1. /\ nGuard' \in 0..MaxGuard /\ freeGuards' \subseteq Guard /\ R!RTypeOK' /\ handoff' = handoff
    BY <1>1, TakeGuardType DEF AttachGuard
  <2>2. Append(list[t], g) \in Seq(Guard) /\ Elements(Append(list[t], g)) \in SUBSET Guard
    BY DEF TypeOK, Elements
  <2>3. list' \in [Thread -> Seq(Guard)] /\ avail' \in [Thread -> SUBSET Guard] /\ pc' \in [Thread -> PC]
    BY <1>1, <2>2 DEF TypeOK, AttachGuard
  <2> QED BY <1>1, <2>1, <2>3 DEF TypeOK, AttachGuard
<1>2. CASE FiniBegin(t)
  BY <1>2 DEF TypeOK, FiniBegin, R!RTypeOK
<1>3. CASE FiniClear(t)
  <2>1. list[t][upto[t]] \in Guard
    BY <1>3 DEF TypeOK, IPool, Stage, FiniClear, Elements
  <2>2. R!RTypeOK'
    BY <1>3, <2>1, SlotType DEF TypeOK, FiniClear
  <2> QED BY <1>3, <2>2 DEF TypeOK, FiniClear
<1>4. CASE FiniReturn(t)
  <2>1. Elements(list[t]) \subseteq Guard
    BY DEF TypeOK, Elements
  <2> QED BY <1>4, <2>1 DEF TypeOK, FiniReturn, R!RTypeOK
<1>5. ASSUME NEW g \in Guard, GuardReuse(t, g) PROVE TypeOK'
  BY <1>5 DEF TypeOK, GuardReuse, R!RTypeOK
<1>6. ASSUME NEW g \in Guard, GuardGrow(t, g) PROVE TypeOK'
  <2>1. /\ nGuard' \in 0..MaxGuard /\ freeGuards' \subseteq Guard /\ R!RTypeOK' /\ handoff' = handoff
    BY <1>6, TakeGuardType DEF GuardGrow
  <2>2. <<g>> \o list[t] \in Seq(Guard)
    BY Lengthened DEF TypeOK
  <2> QED BY <1>6, <2>1, <2>2 DEF TypeOK, GuardGrow
<1>7. ASSUME NEW g \in Guard, GuardFree(t, g) PROVE TypeOK'
  <2>1. R!RTypeOK'
    BY <1>7, SlotType DEF TypeOK, GuardFree, R!RTypeOK
  <2> QED BY <1>7, <2>1 DEF TypeOK, GuardFree
<1>8. ASSUME NEW g \in Guard, GuardClear(t, g) PROVE TypeOK'
  <2>1. R!RTypeOK'
    BY <1>8, SlotType DEF TypeOK, GuardClear
  <2> QED BY <1>8, <2>1 DEF TypeOK, GuardClear
<1>9. ASSUME NEW g \in Guard, NEW l \in Link, Protect(t, g, l) PROVE TypeOK'
  BY <1>9 DEF TypeOK, Protect, R!RTypeOK, Guard
<1>10. ASSUME NEW g \in Guard, NEW h \in Guard, GuardCopy(t, g, h) PROVE TypeOK'
  <2>1. R!RTypeOK'
    BY <1>10 DEF TypeOK, GuardCopy, R!RTypeOK, R!Copy
  <2> QED BY <1>10, <2>1 DEF TypeOK, GuardCopy
<1>11. CASE Load(t)
  BY <1>11 DEF TypeOK, Load, R!RTypeOK
<1>12. CASE PostGuard(t)
  <2>1. guard[t] \in Guard
    BY <1>12 DEF TypeOK, IProtect, Protecting, PostGuard, Held, Elements
  <2>2. R!RTypeOK'
    BY <1>12, <2>1, SlotType DEF TypeOK, PostGuard
  <2> QED BY <1>12, <2>2 DEF TypeOK, PostGuard
<1>13. CASE CheckLink(t)
  <2>1. guard[t] \in Guard
    BY <1>13 DEF TypeOK, IProtect, Protecting, CheckLink, Held, Elements
  <2>2. R!RTypeOK'
    BY <1>13, <2>1 DEF TypeOK, CheckLink, R!Use, R!RTypeOK
  <2>3. guard' \in [Thread -> 0..MaxGuard]
    BY <1>13, BoundAssumption DEF TypeOK, CheckLink
  <2> QED BY <1>13, <2>2, <2>3 DEF TypeOK, CheckLink
<1>14. ASSUME NEW l \in Link, NEW n \in Node, Insert(t, l, n) PROVE TypeOK'
  BY <1>14 DEF TypeOK, Insert, R!RTypeOK, R!SetStatus, R!Life
<1>15. ASSUME NEW l \in Link, Unlink(t, l) PROVE TypeOK'
  BY <1>15 DEF TypeOK, Unlink, R!RTypeOK, R!SetStatus, R!Life
<1>16. CASE Retire(t)
  BY <1>16 DEF TypeOK, ILink, Retire, R!RTypeOK, R!HandOver, R!Life, R!Holders
<1>17. CASE Count(t)
  BY <1>17 DEF TypeOK, Count, R!RTypeOK
<1>18. CASE TryLiberate(t)
  BY <1>18 DEF TypeOK, TryLiberate, R!RTypeOK
<1>19. CASE Steal(t)
  BY <1>19 DEF TypeOK, Steal, R!RTypeOK, Posted
<1>20. CASE Reset(t)
  BY <1>20 DEF TypeOK, Reset, R!RTypeOK
<1>21. CASE ScanGuard(t)
  <2>1. /\ at \in Guard /\ at - 1 \in 0..MaxGuard
        /\ post[at] \in Node \cup {Null} /\ handoff[at] \in Node \cup {Null}
    BY <1>21, BoundAssumption DEF TypeOK, ScanGuard, Guard, R!RTypeOK
  <2>2. set' \subseteq Node /\ buffer' \subseteq Node /\ done' \subseteq Node
    BY <1>21, <2>1 DEF TypeOK, ScanGuard, Kept, Evicted, Repushed, Examined
  <2>3. handoff' \in [Guard -> Node \cup {Null}] /\ pc' \in [Thread -> PC]
    BY <1>21, <2>1 DEF TypeOK, ScanGuard
  <2> QED BY <1>21, <2>1, <2>2, <2>3 DEF TypeOK, ScanGuard, R!RTypeOK
<1>22. CASE Recount(t)
  BY <1>22 DEF TypeOK, Recount, R!RTypeOK
<1>23. CASE Unlock(t)
  BY <1>23 DEF TypeOK, Unlock, LiberateDone, R!RTypeOK
<1>24. ASSUME NEW n \in Node, FreeOne(t, n) PROVE TypeOK'
  BY <1>24 DEF TypeOK, FreeOne, R!RTypeOK, R!SetStatus, R!Life
<1> QED
  BY <1>1, <1>2, <1>3, <1>4, <1>5, <1>6, <1>7, <1>8, <1>9, <1>10, <1>11, <1>12, <1>13, <1>14,
     <1>15, <1>16, <1>17, <1>18, <1>19, <1>20, <1>21, <1>22, <1>23, <1>24
  DEF Pooling, Guarding, Mutating, Retiring, Liberating

-----------------------------------------------------------------------------
(* The guard pool *)

\* A step that leaves the pool and the lists alone.
LEMMA PoolFrame ==
  ASSUME TypeOK, IPool, NEW t \in Thread, NEW x, Goto(t, x),
         UNCHANGED <<nGuard, freeGuards, list, avail, upto>>,
         pc[t] \notin {"detached", "attach", "fini"}, x \notin {"detached", "attach", "fini"}
  PROVE  IPool'
  BY DEF TypeOK, IPool, Owns, Stage, Goto, Pushed, Held

\* Nor does one that moves no thread.
LEMMA PoolStill ==
  ASSUME IPool, UNCHANGED <<nGuard, freeGuards, list, avail, upto, pc>>
  PROVE  IPool'
  BY DEF IPool, Owns, Stage, Pushed, Held

\* A guard taken from the pool was in nobody's list.
LEMMA TakenGuard ==
  ASSUME TypeOK, IPool, NEW g \in Guard, TakeGuard(g)
  PROVE  /\ \A t \in Thread : g \notin Elements(list[t])
         /\ g \notin freeGuards' /\ g \in Pushed' /\ Pushed \subseteq Pushed' /\ freeGuards' \subseteq Pushed'
         /\ freeGuards' \subseteq freeGuards
<1>1. CASE g \in freeGuards /\ UNCHANGED nGuard
  BY <1>1 DEF IPool, Owns, TakeGuard, Rest, Pushed
<1>2. CASE freeGuards = {} /\ nGuard < MaxGuard /\ g = nGuard + 1 /\ nGuard' = g
  <2>1. g \notin Pushed /\ Pushed' = Pushed \cup {g}
    BY <1>2, PushedType DEF Pushed
  <2> QED BY <1>2, <2>1 DEF IPool, Owns, TakeGuard, Rest
<1> QED BY <1>1, <1>2 DEF TakeGuard

\* The list of t has become longer by the guard.
LEMMA ListGrows ==
  ASSUME TypeOK, IPool, NEW t \in Thread, NEW g \in Guard, TakeGuard(g),
         list' = [list EXCEPT ![t] = Append(@, g)] \/ list' = [list EXCEPT ![t] = <<g>> \o @]
  PROVE  /\ freeGuards' \subseteq Pushed'
         /\ \A u \in Thread : Owns(u)'
         /\ Elements(list'[t]) = Elements(list[t]) \cup {g} /\ list'[t] # <<>>
         /\ \A u \in Thread \ {t} : list'[u] = list[u]
<1>1. list[t] \in Seq(Guard)
  BY DEF TypeOK
<1>2. \A u \in Thread \ {t} : list'[u] = list[u]
  BY DEF TypeOK
<1>3. list'[t] = Append(list[t], g) \/ list'[t] = <<g>> \o list[t]
  BY DEF TypeOK
<1>4. Elements(list'[t]) = Elements(list[t]) \cup {g} /\ list'[t] # <<>>
  BY <1>1, <1>3, Lengthened
<1>5. \A i, j \in DOMAIN list'[t] : list'[t][i] = list'[t][j] => i = j
  <2>1. g \notin Elements(list[t])
    BY TakenGuard
  <2>2. \A i, j \in DOMAIN list[t] : list[t][i] = list[t][j] => i = j
    BY DEF IPool, Owns
  <2>3. /\ \A i, j \in DOMAIN Append(list[t], g) : Append(list[t], g)[i] = Append(list[t], g)[j] => i = j
        /\ \A i, j \in DOMAIN (<<g>> \o list[t]) : (<<g>> \o list[t])[i] = (<<g>> \o list[t])[j] => i = j
    BY <1>1, <2>1, <2>2, StillDistinct
  <2> QED BY <1>3, <2>3
<1>6. /\ \A u \in Thread : g \notin Elements(list[u])
      /\ g \notin freeGuards' /\ g \in Pushed' /\ Pushed \subseteq Pushed' /\ freeGuards' \subseteq Pushed'
      /\ freeGuards' \subseteq freeGuards
  BY TakenGuard
<1>7. \A u \in Thread : /\ Elements(list[u]) \subseteq Pushed
                        /\ Elements(list[u]) \cap freeGuards = {}
                        /\ \A v \in Thread \ {u} : Elements(list[u]) \cap Elements(list[v]) = {}
  BY DEF IPool, Owns
<1>8. ASSUME NEW u \in Thread PROVE Owns(u)'
  <2>1. Elements(list'[u]) \subseteq Pushed' /\ Elements(list'[u]) \cap freeGuards' = {}
    BY <1>2, <1>4, <1>6, <1>7
  <2>2. \A v \in Thread \ {u} : Elements(list'[u]) \cap Elements(list'[v]) = {}
    BY <1>2, <1>4, <1>6, <1>7
  <2>3. \A i, j \in DOMAIN list'[u] : list'[u][i] = list'[u][j] => i = j
    BY <1>2, <1>5 DEF IPool, Owns
  <2> QED BY <2>1, <2>2, <2>3 DEF Owns
<1> QED BY <1>2, <1>4, <1>6, <1>8

\* Every step keeps each guard free or once in one list.
LEMMA PoolStep ==
  ASSUME TypeOK, IPool, Next
  PROVE  IPool'
<1> PICK t \in Thread : Pooling(t) \/ Guarding(t) \/ Mutating(t) \/ Retiring(t) \/ Liberating(t)
  BY DEF Next
<1> USE DEF At, rvars, poolVars, bufferVars, libVars, listVars, protectVars
<1>1. ASSUME NEW g \in Guard, AttachGuard(t, g) PROVE IPool'
  <2>1. TakeGuard(g) /\ list' = [list EXCEPT ![t] = Append(@, g)]
    BY <1>1 DEF AttachGuard
  <2>2. /\ freeGuards' \subseteq Pushed' /\ \A u \in Thread : Owns(u)'
        /\ Elements(list'[t]) = Elements(list[t]) \cup {g} /\ list'[t] # <<>>
        /\ \A u \in Thread \ {t} : list'[u] = list[u]
    BY <2>1, ListGrows
  <2>3. /\ pc'[t] \in {"idle", "attach"} /\ \A u \in Thread \ {t} : pc'[u] = pc[u] /\ avail'[u] = avail[u]
        /\ upto' = upto
        /\ avail'[t] = Elements(list'[t]) \/ avail'[t] = avail[t]
    BY <1>1 DEF AttachGuard, TypeOK, Goto
  <2>4. ASSUME NEW u \in Thread PROVE Stage(u)'
    <3>1. Stage(u)
      BY DEF IPool
    <3>2. CASE u = t
      BY <2>2, <2>3, <3>1, <3>2 DEF Stage
    <3>3. CASE u # t
      BY <2>2, <2>3, <3>1, <3>3 DEF Stage, Held
    <3> QED BY <3>2, <3>3
  <2> QED BY <2>2, <2>4 DEF IPool
<1>2. CASE FiniBegin(t)
  <2>1. list[t] # <<>> /\ list[t] \in Seq(Guard)
    BY <1>2 DEF FiniBegin, IPool, Stage, TypeOK
  <2>2. 1 \in 1..Len(list[t])
    BY <2>1
  <2> QED BY <1>2, <2>1, <2>2 DEF FiniBegin, Goto, IPool, Owns, Stage, TypeOK, Pushed, Held
<1>3. CASE FiniClear(t)
  <2>1. upto[t] + 1 \in 1..Len(list[t])
    BY <1>3 DEF FiniClear, IPool, Stage, TypeOK
  <2> QED BY <1>3, <2>1 DEF FiniClear, IPool, Owns, Stage, TypeOK, Pushed, Held
<1>4. CASE FiniReturn(t)
  <2>1. Elements(<<>>) = {} /\ DOMAIN <<>> = {}
    BY DEF Elements
  <2>2. /\ list'[t] = <<>> /\ avail'[t] = {} /\ pc'[t] = "detached"
        /\ \A u \in Thread \ {t} : list'[u] = list[u] /\ avail'[u] = avail[u] /\ pc'[u] = pc[u] /\ upto'[u] = upto[u]
        /\ freeGuards' = freeGuards \cup Elements(list[t]) /\ Pushed' = Pushed
    BY <1>4 DEF FiniReturn, TypeOK, Goto, Pushed
  <2>3. ASSUME NEW u \in Thread PROVE Owns(u)' /\ Stage(u)'
    <3>1. CASE u = t
      BY <2>1, <2>2, <3>1 DEF Owns, Stage
    <3>2. CASE u # t
      <4>1. Owns(u) /\ Stage(u) /\ Owns(t)
        BY DEF IPool
      <4>2. Elements(list'[u]) \cap freeGuards' = {}
        BY <2>2, <3>2, <4>1 DEF Owns
      <4>3. \A v \in Thread \ {u} : Elements(list'[u]) \cap Elements(list'[v]) = {}
        <5> TAKE v \in Thread \ {u}
        <5>1. CASE v = t
          BY <2>1, <2>2, <5>1
        <5>2. CASE v # t
          BY <2>2, <3>2, <4>1, <5>2 DEF Owns
        <5> QED BY <5>1, <5>2
      <4> QED BY <2>2, <3>2, <4>1, <4>2, <4>3 DEF Owns, Stage, Held
    <3> QED BY <3>1, <3>2
  <2>4. freeGuards' \subseteq Pushed'
    BY <2>2 DEF IPool, Owns
  <2> QED BY <2>3, <2>4 DEF IPool
<1>5. ASSUME NEW g \in Guard, GuardReuse(t, g) PROVE IPool'
  BY <1>5 DEF GuardReuse, IPool, Owns, Stage, TypeOK, Pushed, Held
<1>6. ASSUME NEW g \in Guard, GuardGrow(t, g) PROVE IPool'
  <2>1. TakeGuard(g) /\ list' = [list EXCEPT ![t] = <<g>> \o @]
    BY <1>6 DEF GuardGrow
  <2>2. pc' = pc /\ upto' = upto /\ avail' = avail /\ pc[t] = "idle"
    BY <1>6 DEF GuardGrow
  <2>3. /\ freeGuards' \subseteq Pushed' /\ \A u \in Thread : Owns(u)'
        /\ Elements(list'[t]) = Elements(list[t]) \cup {g} /\ list'[t] # <<>>
        /\ \A u \in Thread \ {t} : list'[u] = list[u]
    BY <2>1, ListGrows
  <2>4. ASSUME NEW u \in Thread PROVE Stage(u)'
    <3>1. Stage(u)
      BY DEF IPool
    <3>2. CASE u = t
      BY <2>2, <2>3, <3>1, <3>2 DEF Stage
    <3>3. CASE u # t
      BY <2>2, <2>3, <3>1, <3>3 DEF Stage, Held
    <3> QED BY <3>2, <3>3
  <2> QED BY <2>3, <2>4 DEF IPool
<1>7. ASSUME NEW g \in Guard, GuardFree(t, g) PROVE IPool'
  BY <1>7 DEF GuardFree, IPool, Owns, Stage, TypeOK, Pushed, Held
<1>8. CASE UNCHANGED <<nGuard, freeGuards, list, avail, upto, pc>>
  BY <1>8, PoolStill
<1>9. ASSUME NEW g \in Guard, NEW l \in Link, Protect(t, g, l) PROVE IPool'
  BY <1>9, PoolFrame DEF Protect
<1>10. CASE Load(t) \/ PostGuard(t) \/ CheckLink(t)
  BY <1>10, PoolFrame DEF Load, PostGuard, CheckLink
<1>11. ASSUME NEW l \in Link, Unlink(t, l) PROVE IPool'
  BY <1>11, PoolFrame DEF Unlink
<1>12. CASE Retiring(t)
  BY <1>12, PoolFrame DEF Retiring, Retire, Count, TryLiberate
<1>13. CASE Steal(t) \/ Reset(t) \/ Recount(t) \/ Unlock(t)
  BY <1>13, PoolFrame DEF Steal, Reset, Recount, Unlock, LiberateDone
<1>14. CASE ScanGuard(t)
  BY <1>14, PoolFrame, PoolStill DEF ScanGuard
<1> QED
  BY <1>1, <1>2, <1>3, <1>4, <1>5, <1>6, <1>7, <1>8, <1>9, <1>10, <1>11, <1>12, <1>13, <1>14
  DEF Pooling, Guarding, Mutating, Liberating, GuardClear, GuardCopy, Insert, FreeOne

-----------------------------------------------------------------------------
\* alloc clears the guard it takes.
LEMMA TakenSlot ==
  ASSUME NEW g \in Guard, TakeGuard(g)
  PROVE  R!SetSlot(g, Null) /\ UNCHANGED <<handoff, status>>
  BY DEF TakeGuard, R!SetSlot

\* Writing a guard changes no other guard's post.
LEMMA SlotPost ==
  ASSUME TypeOK, NEW g \in Guard, NEW p, R!SetSlot(g, p)
  PROVE  \A h \in Guard : post'[h] = IF h = g THEN p ELSE post[h]
  BY DEF TypeOK, R!RTypeOK, R!SetSlot

\* Only guards that somebody took are ever written: by their owners, or by liberate,
\* which starts at the head of the list.
LEMMA PushedStep ==
  ASSUME TypeOK, IPool, IProtect, IPushed, at <= nGuard, Next
  PROVE  IPushed'
<1> PICK t \in Thread : Pooling(t) \/ Guarding(t) \/ Mutating(t) \/ Retiring(t) \/ Liberating(t)
  BY DEF Next
<1> USE DEF At, rvars, poolVars, bufferVars, libVars, listVars, protectVars
<1>t. ASSUME NEW g \in Guard, TakeGuard(g) PROVE IPushed'
  BY <1>t, TakenSlot, TakenGuard, SlotPost DEF IPushed
<1>s. ASSUME NEW g \in Guard, NEW p, g \in Pushed, R!SetSlot(g, p), UNCHANGED <<nGuard, handoff>> PROVE IPushed'
  BY <1>s, SlotPost DEF IPushed, Pushed
<1>u. ASSUME UNCHANGED <<nGuard, handoff, post>> PROVE IPushed'
  BY <1>u DEF IPushed, Pushed
<1>h. Held(t) \subseteq Pushed /\ Elements(list[t]) \subseteq Pushed
  BY DEF IPool, Owns, Held
<1>1. ASSUME NEW g \in Guard, AttachGuard(t, g) PROVE IPushed'
  BY <1>1, <1>t DEF AttachGuard
<1>2. CASE FiniBegin(t) \/ FiniReturn(t)
  BY <1>2, <1>u DEF FiniBegin, FiniReturn
<1>3. CASE FiniClear(t)
  <2>1. list[t][upto[t]] \in Elements(list[t])
    BY <1>3 DEF FiniClear, IPool, Stage, TypeOK, Elements
  <2>2. list[t][upto[t]] \in Guard
    BY <2>1 DEF TypeOK, Elements
  <2> QED BY <1>3, <1>s, <1>h, <2>1, <2>2 DEF FiniClear
<1>4. ASSUME NEW g \in Guard, GuardReuse(t, g) PROVE IPushed'
  BY <1>4, <1>u DEF GuardReuse
<1>5. ASSUME NEW g \in Guard, GuardGrow(t, g) PROVE IPushed'
  BY <1>5, <1>t DEF GuardGrow
<1>6. ASSUME NEW g \in Guard, GuardFree(t, g) \/ GuardClear(t, g) PROVE IPushed'
  BY <1>6, <1>s, <1>h DEF GuardFree, GuardClear
<1>7. ASSUME NEW g \in Guard, NEW l \in Link, Protect(t, g, l) PROVE IPushed'
  BY <1>7, <1>u DEF Protect
<1>8. CASE Load(t) \/ CheckLink(t)
  BY <1>8, <1>u DEF Load, CheckLink, R!Use
<1>9. CASE PostGuard(t)
  <2>1. guard[t] \in Held(t)
    BY <1>9 DEF PostGuard, IProtect, Protecting
  <2>2. guard[t] \in Guard
    BY <2>1 DEF TypeOK, Held, Elements
  <2> QED BY <1>9, <1>s, <1>h, <2>1, <2>2 DEF PostGuard
<1>10. ASSUME NEW g \in Guard, NEW h \in Guard, GuardCopy(t, g, h) PROVE IPushed'
  <2>1. h \in Pushed /\ \A f \in Guard \ {h} : post'[f] = post[f]
    BY <1>10, <1>h DEF GuardCopy, R!Copy, TypeOK, R!RTypeOK
  <2> QED BY <1>10, <2>1 DEF GuardCopy, IPushed, Pushed
<1>11. CASE Mutating(t) \/ Retiring(t)
  BY <1>11, <1>u DEF Mutating, Insert, Unlink, Retiring, Retire, Count, TryLiberate, R!SetStatus, R!HandOver
<1>12. CASE Steal(t) \/ Reset(t) \/ Recount(t) \/ Unlock(t) \/ \E n \in Node : FreeOne(t, n)
  BY <1>12, <1>u DEF Steal, Reset, Recount, Unlock, FreeOne, R!SetStatus
<1>13. CASE ScanGuard(t)
  <2>1. at \in Pushed
    BY <1>13 DEF ScanGuard, TypeOK, Pushed
  <2>2. \A g \in Guard \ {at} : handoff'[g] = handoff[g]
    BY <1>13 DEF ScanGuard, TypeOK
  <2>3. UNCHANGED <<post, nGuard>>
    BY <1>13 DEF ScanGuard
  <2> QED BY <2>1, <2>2, <2>3 DEF IPushed, Pushed
<1> QED
  BY <1>1, <1>2, <1>3, <1>4, <1>5, <1>6, <1>7, <1>8, <1>9, <1>10, <1>11, <1>12, <1>13
  DEF Pooling, Guarding, Liberating

-----------------------------------------------------------------------------
\* A step of one thread leaves another thread's place and guards alone: no guard changes
\* hands while it is held.
LEMMA OthersKeep ==
  ASSUME TypeOK, IPool, IProtect, NEW t \in Thread, NEW u \in Thread, u # t,
         Pooling(t) \/ Guarding(t) \/ Mutating(t) \/ Retiring(t) \/ Liberating(t)
  PROVE  /\ pc'[u] = pc[u] /\ guard'[u] = guard[u] /\ ptr'[u] = ptr[u] /\ Held(u)' = Held(u)
         /\ \A g \in Held(u) : post'[g] = post[g]
<1> USE DEF At, rvars, poolVars, bufferVars, libVars, listVars, protectVars, Goto
<1> DEFINE Locals == pc'[u] = pc[u] /\ guard'[u] = guard[u] /\ ptr'[u] = ptr[u] /\ Held(u)' = Held(u)
           Posts == \A g \in Held(u) : post'[g] = post[g]
<1>s. ASSUME NEW g \in Guard, NEW p, g \notin Held(u), R!SetSlot(g, p) PROVE Posts
  <2>1. Held(u) \subseteq Guard
    BY DEF TypeOK, Held, Elements
  <2> QED BY <1>s, <2>1, SlotPost
<1>h. ASSUME NEW g \in Elements(list[t]) PROVE g \notin Held(u) /\ g \in Guard
  <2>1. Elements(list[t]) \subseteq Guard
    BY DEF TypeOK, Elements
  <2>2. Elements(list[t]) \cap Elements(list[u]) = {}
    BY DEF IPool, Owns
  <2> QED BY <1>h, <2>1, <2>2 DEF Held
<1>u. post' = post => Posts
  OBVIOUS
<1>t. ASSUME NEW g \in Guard, TakeGuard(g) PROVE Posts
  BY <1>t, <1>s, TakenSlot, TakenGuard DEF Held
<1>1. ASSUME NEW g \in Guard, AttachGuard(t, g) PROVE Locals /\ Posts
  BY <1>1, <1>t DEF AttachGuard, TypeOK, Held
<1>2. CASE FiniBegin(t) \/ FiniReturn(t)
  BY <1>2, <1>u DEF FiniBegin, FiniReturn, TypeOK, Held
<1>3. CASE FiniClear(t)
  <2>1. list[t][upto[t]] \in Elements(list[t])
    BY <1>3 DEF FiniClear, IPool, Stage, TypeOK, Elements
  <2> QED BY <1>3, <1>s, <1>h, <2>1 DEF FiniClear, TypeOK, Held
<1>4. ASSUME NEW g \in Guard, GuardReuse(t, g) PROVE Locals /\ Posts
  BY <1>4, <1>u DEF GuardReuse, TypeOK, Held
<1>5. ASSUME NEW g \in Guard, GuardGrow(t, g) PROVE Locals /\ Posts
  BY <1>5, <1>t DEF GuardGrow, TypeOK, Held
<1>6. ASSUME NEW g \in Guard, GuardFree(t, g) \/ GuardClear(t, g) PROVE Locals /\ Posts
  <2>1. Posts
    BY <1>6, <1>s, <1>h DEF GuardFree, GuardClear, Held
  <2>2. Locals
    BY <1>6 DEF GuardFree, GuardClear, Held, TypeOK
  <2> QED BY <2>1, <2>2
<1>7. ASSUME NEW g \in Guard, NEW l \in Link, Protect(t, g, l) PROVE Locals /\ Posts
  BY <1>7, <1>u DEF Protect, TypeOK, Held
<1>8. CASE Load(t) \/ CheckLink(t)
  BY <1>8, <1>u DEF Load, CheckLink, R!Use, TypeOK, Held
<1>9. CASE PostGuard(t)
  <2>1. guard[t] \in Elements(list[t])
    BY <1>9 DEF PostGuard, IProtect, Protecting, Held
  <2> QED BY <1>9, <1>s, <1>h, <2>1 DEF PostGuard, TypeOK, Held
<1>10. ASSUME NEW g \in Guard, NEW h \in Guard, GuardCopy(t, g, h) PROVE Locals /\ Posts
  <2>1. h \notin Held(u)
    BY <1>10, <1>h DEF GuardCopy, Held
  <2>2. Held(u) \subseteq Guard
    BY DEF TypeOK, Held, Elements
  <2>3. Posts
    BY <1>10, <2>1, <2>2 DEF GuardCopy, R!Copy, TypeOK, R!RTypeOK
  <2> QED BY <1>10, <2>3 DEF GuardCopy, Held
<1>11. CASE Mutating(t) \/ Retiring(t)
  BY <1>11, <1>u DEF Mutating, Insert, Unlink, Retiring, Retire, Count, TryLiberate, R!SetStatus, R!HandOver, TypeOK, Held
<1>12. CASE Liberating(t)
  BY <1>12, <1>u DEF Liberating, Steal, Reset, ScanGuard, Recount, Unlock, FreeOne, R!SetStatus, TypeOK, Held
<1> QED
  BY <1>1, <1>2, <1>3, <1>4, <1>5, <1>6, <1>7, <1>8, <1>9, <1>10, <1>11, <1>12
  DEF Pooling, Guarding

\* Every step keeps the protect loops.
LEMMA ProtectStep ==
  ASSUME TypeOK, IPool, IProtect, Next
  PROVE  IProtect'
<1> PICK t \in Thread : Pooling(t) \/ Guarding(t) \/ Mutating(t) \/ Retiring(t) \/ Liberating(t)
  BY DEF Next
<1>1. ASSUME NEW u \in Thread, u # t PROVE Protecting(u)'
  <2>1. Protecting(u)
    BY DEF IProtect
  <2> QED BY <1>1, <2>1, OthersKeep DEF Protecting
<1>2. Protecting(t)'
  <2> USE DEF At, rvars, poolVars, bufferVars, libVars, listVars, protectVars, Goto
  <2>p. Protecting(t)
    BY DEF IProtect
  <2>o. ASSUME pc'[t] \notin {"load", "store", "check"} PROVE Protecting(t)'
    BY <2>o DEF Protecting
  <2>1. CASE Pooling(t)
    BY <2>1, <2>o DEF Pooling, FiniBegin, FiniClear, FiniReturn, AttachGuard, GuardReuse, GuardGrow,
                      GuardFree, TypeOK
  <2>2. ASSUME NEW g \in Guard, GuardClear(t, g) PROVE Protecting(t)'
    BY <2>2, <2>o DEF GuardClear
  <2>3. ASSUME NEW g \in Guard, NEW l \in Link, Protect(t, g, l) PROVE Protecting(t)'
    BY <2>3 DEF Protect, Protecting, TypeOK, Held
  <2>4. ASSUME NEW g \in Guard, NEW h \in Guard, GuardCopy(t, g, h) PROVE Protecting(t)'
    BY <2>4, <2>o DEF GuardCopy
  <2>5. CASE Load(t)
    BY <2>5, <2>p DEF Load, Protecting, TypeOK, Held
  <2>6. CASE PostGuard(t)
    <3>1. guard[t] \in Guard
      BY <2>6, <2>p DEF PostGuard, Protecting, TypeOK, Held, Elements
    <3> QED BY <2>6, <2>p, <3>1, SlotPost DEF PostGuard, Protecting, TypeOK, Held
  <2>7. CASE CheckLink(t)
    BY <2>7, <2>p DEF CheckLink, Protecting, TypeOK, Held
  <2>8. CASE Mutating(t) \/ Retiring(t) \/ Liberating(t)
    BY <2>8, <2>o DEF Mutating, Insert, Unlink, Retiring, Retire, Count, TryLiberate, Liberating,
                      Steal, Reset, ScanGuard, Recount, Unlock, LiberateDone, FreeOne, TypeOK
  <2> QED BY <2>1, <2>2, <2>3, <2>4, <2>5, <2>6, <2>7, <2>8 DEF Guarding
<1> QED BY <1>1, <1>2 DEF IProtect

-----------------------------------------------------------------------------
\* All steps but liberate's own leave the hand-offs and liberate's locals alone.
LEMMA Bystander ==
  ASSUME TypeOK, NEW t \in Thread, Pooling(t) \/ Guarding(t) \/ Mutating(t) \/ Retiring(t)
  PROVE  /\ UNCHANGED <<handoff, set, done, at>>
         /\ stray' \subseteq stray
         /\ nGuard' \in Nat /\ nGuard <= nGuard'
         /\ TryLiberate(t) \/ locked' = locked
         /\ \A u \in Thread : pc'[u] = pc[u] \/ TryLiberate(t) \/ (u = t /\ pc[u] \notin LibPC /\ pc'[u] \notin LibPC)
<1> USE DEF At, rvars, poolVars, bufferVars, libVars, listVars, protectVars, Goto, LibPC
<1>t. ASSUME NEW g \in Guard, TakeGuard(g) PROVE handoff' = handoff /\ nGuard' \in Nat /\ nGuard <= nGuard'
  BY <1>t, BoundAssumption DEF TakeGuard, TypeOK
<1>n. nGuard \in Nat
  BY BoundAssumption DEF TypeOK
<1>1. UNCHANGED <<handoff, set, done, at>>
  <2>1. CASE Pooling(t)
    BY <2>1, <1>t DEF Pooling, AttachGuard, FiniBegin, FiniClear, FiniReturn, GuardReuse, GuardGrow, GuardFree
  <2>2. CASE Guarding(t)
    BY <2>2, <1>t DEF Guarding, GuardClear, Protect, GuardCopy, Load, PostGuard, CheckLink
  <2>3. CASE Mutating(t)
    BY <2>3, <1>t DEF Mutating, Insert, Unlink
  <2>4. CASE Retiring(t)
    BY <2>4, <1>t DEF Retiring, Retire, Count, TryLiberate
  <2> QED BY <2>1, <2>2, <2>3, <2>4
<1>2. stray' \subseteq stray
  <2>1. CASE Pooling(t)
    BY <2>1 DEF Pooling, AttachGuard, FiniBegin, FiniClear, FiniReturn, GuardReuse, GuardGrow, GuardFree
  <2>2. CASE Guarding(t)
    BY <2>2 DEF Guarding, GuardClear, Protect, GuardCopy, Load, PostGuard, CheckLink
  <2>3. CASE Mutating(t)
    BY <2>3 DEF Mutating, Insert, Unlink
  <2>4. CASE Retiring(t)
    BY <2>4 DEF Retiring, Retire, Count, TryLiberate
  <2> QED BY <2>1, <2>2, <2>3, <2>4
<1>3. nGuard' \in Nat /\ nGuard <= nGuard'
  <2>1. CASE Pooling(t)
    <3>1. nGuard' = nGuard \/ \E g \in Guard : TakeGuard(g)
      BY <2>1 DEF Pooling, AttachGuard, FiniBegin, FiniClear, FiniReturn, GuardReuse, GuardGrow, GuardFree
    <3> QED BY <3>1, <1>t, <1>n
  <2>2. CASE Guarding(t)
    <3>1. nGuard' = nGuard
      BY <2>2 DEF Guarding, GuardClear, Protect, GuardCopy, Load, PostGuard, CheckLink
    <3> QED BY <3>1, <1>n
  <2>3. CASE Mutating(t)
    BY <2>3, <1>t, <1>n DEF Mutating, Insert, Unlink
  <2>4. CASE Retiring(t)
    BY <2>4, <1>t, <1>n DEF Retiring, Retire, Count, TryLiberate
  <2> QED BY <2>1, <2>2, <2>3, <2>4
<1>4. TryLiberate(t) \/ locked' = locked
  <2>1. CASE Pooling(t)
    BY <2>1 DEF Pooling, AttachGuard, FiniBegin, FiniClear, FiniReturn, GuardReuse, GuardGrow, GuardFree
  <2>2. CASE Guarding(t)
    BY <2>2 DEF Guarding, GuardClear, Protect, GuardCopy, Load, PostGuard, CheckLink
  <2>3. CASE Mutating(t)
    BY <2>3 DEF Mutating, Insert, Unlink
  <2>4. CASE Retiring(t)
    BY <2>4 DEF Retiring, Retire, Count
  <2> QED BY <2>1, <2>2, <2>3, <2>4
<1>5. \A u \in Thread : pc'[u] = pc[u] \/ TryLiberate(t) \/ (u = t /\ pc[u] \notin LibPC /\ pc'[u] \notin LibPC)
  <2> DEFINE Pcs == \A u \in Thread : pc'[u] = pc[u] \/ TryLiberate(t) \/ (u = t /\ pc[u] \notin LibPC /\ pc'[u] \notin LibPC)
  <2>g. ASSUME NEW x, pc' = [pc EXCEPT ![t] = x], x \notin LibPC, pc[t] \notin LibPC PROVE Pcs
    BY <2>g DEF TypeOK
  <2>p. pc' = pc => Pcs
    OBVIOUS
  <2> HIDE DEF Pcs
  <2>l. {"detached", "attach", "fini", "idle", "load", "store", "check", "retire", "count", "try"} \cap LibPC = {}
    OBVIOUS
  <2> HIDE DEF LibPC
  <2>1. ASSUME Pooling(t) PROVE Pcs
    <3>1. ASSUME \E g \in Guard : AttachGuard(t, g) PROVE Pcs
      BY <3>1, <2>g, <2>l DEF AttachGuard
    <3>2. ASSUME FiniBegin(t) \/ FiniReturn(t) PROVE Pcs
      BY <3>2, <2>g, <2>l DEF FiniBegin, FiniReturn
    <3>3. ASSUME FiniClear(t) \/ \E g \in Guard : GuardReuse(t, g) \/ GuardGrow(t, g) \/ GuardFree(t, g) PROVE Pcs
      BY <3>3, <2>p DEF FiniClear, GuardReuse, GuardGrow, GuardFree
    <3> QED BY <2>1, <3>1, <3>2, <3>3 DEF Pooling
  <2>2. ASSUME Guarding(t) PROVE Pcs
    <3>1. ASSUME \E g, h \in Guard : GuardClear(t, g) \/ GuardCopy(t, g, h) PROVE Pcs
      BY <3>1, <2>p DEF GuardClear, GuardCopy
    <3>2. ASSUME Load(t) \/ PostGuard(t) \/ \E g \in Guard, l \in Link : Protect(t, g, l) PROVE Pcs
      BY <3>2, <2>g, <2>l DEF Load, PostGuard, Protect
    <3>3. ASSUME CheckLink(t) PROVE Pcs
      BY <3>3, <2>g, <2>l DEF CheckLink
    <3> QED BY <2>2, <3>1, <3>2, <3>3 DEF Guarding
  <2>3. ASSUME Mutating(t) PROVE Pcs
    <3>1. pc' = pc \/ (pc[t] = "idle" /\ pc' = [pc EXCEPT ![t] = "retire"])
      BY <2>3 DEF Mutating, Insert, Unlink
    <3> QED BY <3>1, <2>p, <2>g, <2>l
  <2>4. ASSUME Retire(t) \/ Count(t) PROVE Pcs
    <3>1. \E x \in {"count", "try", "idle"} : pc[t] \in {"retire", "count"} /\ pc' = [pc EXCEPT ![t] = x]
      BY <2>4 DEF Retire, Count
    <3> QED BY <3>1, <2>g, <2>l
  <2> QED BY <2>1, <2>2, <2>3, <2>4 DEF Pcs, Retiring
<1> QED BY <1>1, <1>2, <1>3, <1>4, <1>5

-----------------------------------------------------------------------------
\* Every step keeps liberate to one thread.
LEMMA LockStep ==
  ASSUME TypeOK, ILock, Next
  PROVE  ILock'
<1> PICK t \in Thread : Pooling(t) \/ Guarding(t) \/ Mutating(t) \/ Retiring(t) \/ Liberating(t)
  BY DEF Next
<1> USE DEF At, rvars, poolVars, bufferVars, libVars, listVars, protectVars, Goto, LibPC
<1>f. ASSUME UNCHANGED <<locked, set, done, at>>, stray' \subseteq stray, nGuard <= nGuard', nGuard' \in Nat,
             \A u \in Thread : pc'[u] = pc[u] \/ (u = t /\ pc[u] \notin LibPC /\ pc'[u] \notin LibPC)
      PROVE  ILock'
  <2>1. at' <= nGuard'
    BY <1>f DEF ILock, TypeOK
  <2> QED BY <1>f, <2>1 DEF ILock
<1>1. CASE (Pooling(t) \/ Guarding(t) \/ Mutating(t) \/ Retiring(t)) /\ ~TryLiberate(t)
  <2>1. /\ UNCHANGED <<locked, set, done, at>> /\ stray' \subseteq stray
        /\ nGuard <= nGuard' /\ nGuard' \in Nat
        /\ \A u \in Thread : pc'[u] = pc[u] \/ (u = t /\ pc[u] \notin LibPC /\ pc'[u] \notin LibPC)
    BY <1>1, Bystander
  <2> QED BY <2>1, <1>f
<1>10. CASE TryLiberate(t)
  <2>1. CASE MayLiberate
    <3>1. \A u \in Thread : pc[u] \notin LibPC
      BY <2>1 DEF MayLiberate, ILock
    <3>2. pc'[t] = "steal" /\ \A u \in Thread \ {t} : pc'[u] = pc[u]
      BY <1>10, <2>1 DEF TryLiberate, TypeOK
    <3>3. locked' /\ UNCHANGED <<set, done, at, stray, nGuard>>
      BY <1>10, <2>1 DEF TryLiberate
    <3> QED BY <3>1, <3>2, <3>3 DEF ILock
  <2>2. CASE ~MayLiberate
    <3>1. locked' = locked /\ pc[t] = "try" /\ pc'[t] = "idle" /\ \A u \in Thread \ {t} : pc'[u] = pc[u]
      BY <1>10, <2>2 DEF TryLiberate, TypeOK
    <3>2. UNCHANGED <<set, done, at>> /\ stray' \subseteq stray /\ nGuard <= nGuard' /\ nGuard' \in Nat
      BY <1>10, Bystander DEF Retiring
    <3>3. \A u \in Thread : pc'[u] = pc[u] \/ (u = t /\ pc[u] \notin LibPC /\ pc'[u] \notin LibPC)
      BY <3>1
    <3> QED BY <3>1, <3>2, <3>3, <1>f
  <2> QED BY <2>1, <2>2
<1>11. ASSUME pc[t] \in LibPC, pc'[t] \in LibPC \ {"steal"}, \A u \in Thread \ {t} : pc'[u] = pc[u],
              locked' = locked, at' <= nGuard', pc'[t] = "reset" => done' = {}
       PROVE  ILock'
  BY <1>11 DEF ILock
<1>12. CASE Steal(t)
  BY <1>12, <1>11 DEF Steal, TypeOK, ILock
<1>13. CASE Reset(t)
  BY <1>13, <1>11 DEF Reset, TypeOK
<1>14. CASE ScanGuard(t)
  <2>1. at - 1 <= nGuard
    BY <1>14 DEF ScanGuard, ILock, TypeOK
  <2>2. pc'[t] \in {"scan", "recount"} /\ \A u \in Thread \ {t} : pc'[u] = pc[u]
    BY <1>14 DEF ScanGuard, TypeOK
  <2> QED BY <1>14, <1>11, <2>1, <2>2 DEF ScanGuard
<1>15. CASE Recount(t)
  BY <1>15, <1>11 DEF Recount, TypeOK, ILock
<1>16. ASSUME NEW n \in Node, FreeOne(t, n) PROVE ILock'
  BY <1>16, <1>11 DEF FreeOne, ILock
<1>17. CASE Unlock(t)
  <2>1. \A u \in Thread : pc'[u] \notin LibPC
    BY <1>17 DEF Unlock, LiberateDone, ILock, TypeOK
  <2> QED BY <1>17, <2>1 DEF Unlock, LiberateDone, ILock
<1> QED
  BY <1>1, <1>10, <1>12, <1>13, <1>14, <1>15, <1>16, <1>17 DEF Liberating

-----------------------------------------------------------------------------
\* Every step keeps the links to linked nodes, and each unlinked node in one thread's hand.
LEMMA LinkStep ==
  ASSUME TypeOK, ILink, IPlace, Next
  PROVE  ILink'
<1> PICK t \in Thread : Pooling(t) \/ Guarding(t) \/ Mutating(t) \/ Retiring(t) \/ Liberating(t)
  BY DEF Next
<1> USE DEF At, rvars, poolVars, bufferVars, libVars, listVars, protectVars, Goto
<1>f. ASSUME UNCHANGED <<link, status>>,
             \A u \in Thread : pc'[u] = "retire" => pc[u] = "retire" /\ ptr'[u] = ptr[u]
      PROVE  ILink'
  BY <1>f DEF ILink
<1>1. ASSUME NEW g \in Guard, AttachGuard(t, g) PROVE ILink'
  BY <1>1, <1>f, TakenSlot DEF AttachGuard, TypeOK
<1>2. ASSUME NEW g \in Guard, GuardGrow(t, g) PROVE ILink'
  BY <1>2, <1>f, TakenSlot DEF GuardGrow, TypeOK
<1>3. ASSUME NEW g \in Guard, GuardReuse(t, g) \/ GuardFree(t, g) \/ GuardClear(t, g) PROVE ILink'
  BY <1>3, <1>f DEF GuardReuse, GuardFree, GuardClear, TypeOK, R!SetSlot
<1>4. CASE FiniBegin(t) \/ FiniClear(t) \/ FiniReturn(t)
  BY <1>4, <1>f DEF FiniBegin, FiniClear, FiniReturn, TypeOK, R!SetSlot
<1>5. ASSUME NEW g \in Guard, NEW l \in Link, Protect(t, g, l) PROVE ILink'
  BY <1>5, <1>f DEF Protect, TypeOK
<1>6. ASSUME NEW g \in Guard, NEW h \in Guard, GuardCopy(t, g, h) PROVE ILink'
  BY <1>6, <1>f DEF GuardCopy, TypeOK, R!Copy
<1>7. CASE Load(t) \/ PostGuard(t) \/ CheckLink(t)
  BY <1>7, <1>f DEF Load, PostGuard, CheckLink, TypeOK, R!SetSlot, R!Use
<1>8. ASSUME NEW l \in Link, NEW n \in Node, Insert(t, l, n) PROVE ILink'
  <2>1. /\ link'[l] = n /\ \A m \in Link \ {l} : link'[m] = link[m]
        /\ status'[n] = "linked" /\ \A m \in Node \ {n} : status'[m] = status[m]
        /\ UNCHANGED <<pc, ptr>> /\ status[n] = "free"
    BY <1>8 DEF Insert, TypeOK, R!RTypeOK, R!SetStatus
  <2>2. \A m \in Link : link[m] # n
    BY <2>1, NullAssumption DEF ILink
  <2>3. \A u \in Thread : pc[u] = "retire" => ptr[u] # n
    BY <2>1 DEF ILink
  <2>4. \A m \in Link : link[m] \in Node \cup {Null}
    BY DEF TypeOK
  <2> QED BY <2>1, <2>2, <2>3, <2>4 DEF ILink
<1>9. ASSUME NEW l \in Link, Unlink(t, l) PROVE ILink'
  <2> DEFINE n == link[l]
  <2>1. /\ link'[l] = Null /\ \A m \in Link \ {l} : link'[m] = link[m]
        /\ n \in Node /\ status'[n] = "unlinked" /\ \A m \in Node \ {n} : status'[m] = status[m]
        /\ ptr'[t] = n /\ pc'[t] = "retire"
        /\ \A u \in Thread \ {t} : ptr'[u] = ptr[u] /\ pc'[u] = pc[u]
    BY <1>9 DEF Unlink, TypeOK, R!RTypeOK, R!SetStatus
  <2>2. status[n] = "linked" /\ \A m \in Link \ {l} : link[m] # n
    BY <2>1, NullAssumption DEF ILink
  <2>3. \A u \in Thread : pc[u] = "retire" => ptr[u] # n
    BY <2>2 DEF ILink
  <2>4. \A m \in Link : link[m] \in Node \cup {Null}
    BY DEF TypeOK
  <2> HIDE DEF n
  <2> QED BY <2>1, <2>2, <2>3, <2>4 DEF ILink
<1>10. CASE Retire(t)
  <2> DEFINE n == ptr[t]
  <2>1. /\ n \in Node /\ status[n] = "unlinked" /\ pc[t] = "retire"
        /\ \A u \in Thread \ {t} : pc[u] = "retire" => ptr[u] # n
    BY <1>10 DEF Retire, ILink
  <2>2. /\ \A m \in Node \ {n} : status'[m] = status[m]
        /\ pc'[t] = "count" /\ \A u \in Thread \ {t} : ptr'[u] = ptr[u] /\ pc'[u] = pc[u]
        /\ link' = link
    BY <1>10 DEF Retire, TypeOK, R!RTypeOK, R!HandOver
  <2>3. \A m \in Link : link[m] # n
    BY <2>1, NullAssumption DEF ILink
  <2>4. \A m \in Link : link[m] \in Node \cup {Null}
    BY DEF TypeOK
  <2> HIDE DEF n
  <2> QED BY <2>1, <2>2, <2>3, <2>4 DEF ILink
<1>11. CASE Count(t) \/ TryLiberate(t)
  BY <1>11, <1>f DEF Count, TryLiberate, TypeOK
<1>12. CASE Steal(t) \/ Reset(t) \/ ScanGuard(t) \/ Recount(t) \/ Unlock(t)
  BY <1>12, <1>f DEF Steal, Reset, ScanGuard, Recount, Unlock, TypeOK
<1>13. ASSUME NEW n \in Node, FreeOne(t, n) PROVE ILink'
  <2>1. status[n] = "retired"
    BY <1>13 DEF FreeOne, IPlace, Place
  <2>2. UNCHANGED <<link, pc, ptr>> /\ \A m \in Node \ {n} : status'[m] = status[m]
    BY <1>13 DEF FreeOne, R!SetStatus, TypeOK, R!RTypeOK
  <2>3. \A m \in Link : link[m] \in Node \cup {Null}
    BY DEF TypeOK
  <2> QED BY <2>1, <2>2, <2>3 DEF ILink
<1> QED
  BY <1>1, <1>2, <1>3, <1>4, <1>5, <1>6, <1>7, <1>8, <1>9, <1>10, <1>11, <1>12, <1>13
  DEF Pooling, Guarding, Mutating, Retiring, Liberating

-----------------------------------------------------------------------------
\* The steps on guards, and the counting, leave the nodes and the buffer alone.
LEMMA NoneRetired ==
  ASSUME TypeOK, NEW t \in Thread, Pooling(t) \/ Guarding(t) \/ Count(t) \/ TryLiberate(t)
  PROVE  UNCHANGED <<status, buffer>>
<1> USE DEF rvars, bufferVars
<1>1. CASE Pooling(t)
  BY <1>1, TakenSlot DEF Pooling, AttachGuard, FiniBegin, FiniClear, FiniReturn, GuardReuse, GuardGrow, GuardFree, R!SetSlot
<1>2. CASE Guarding(t)
  BY <1>2 DEF Guarding, GuardClear, Protect, GuardCopy, Load, PostGuard, CheckLink, R!SetSlot, R!Use, R!Copy
<1>3. CASE Count(t) \/ TryLiberate(t)
  BY <1>3 DEF Count, TryLiberate
<1> QED BY <1>1, <1>2, <1>3

\* Every step keeps each retired node in one place: of the three outcomes of ScanGuard,
\* leaving things as they are, taking a hand-off back and trading the old hand-off for the
\* trapped node, none loses or doubles one.
LEMMA PlaceStep ==
  ASSUME TypeOK, ILink, ILock, IPlace, Next
  PROVE  IPlace'
<1> PICK t \in Thread : Pooling(t) \/ Guarding(t) \/ Mutating(t) \/ Retiring(t) \/ Liberating(t)
  BY DEF Next
<1> SUFFICES ASSUME NEW n \in Node PROVE Place(n)'
  BY DEF IPlace
<1> USE DEF At, rvars, poolVars, bufferVars, libVars, listVars, protectVars
<1>n. Place(n)
  BY DEF IPlace
<1>f. ASSUME UNCHANGED <<buffer, set, handoff>>, status'[n] = "retired" <=> status[n] = "retired" PROVE Place(n)'
  BY <1>f, <1>n DEF Place, HandedOff
<1>1. CASE Pooling(t) \/ Guarding(t) \/ Count(t) \/ TryLiberate(t)
  <2>1. UNCHANGED <<status, buffer>>
    BY <1>1, NoneRetired
  <2>2. UNCHANGED <<set, handoff>>
    BY <1>1, Bystander DEF Retiring
  <2> QED BY <2>1, <2>2, <1>f
<1>2. ASSUME NEW l \in Link, NEW m \in Node, Insert(t, l, m) PROVE Place(n)'
  BY <1>2, <1>f DEF Insert, R!SetStatus, TypeOK, R!RTypeOK
<1>3. ASSUME NEW l \in Link, Unlink(t, l) PROVE Place(n)'
  <2>1. status[link[l]] = "linked" /\ link[l] \in Node
    BY <1>3 DEF Unlink, ILink, TypeOK
  <2> QED BY <1>3, <2>1, <1>f DEF Unlink, R!SetStatus, TypeOK, R!RTypeOK
<1>4. CASE Retire(t)
  <2> DEFINE m == ptr[t]
  <2>1. m \in Node /\ status[m] = "unlinked"
    BY <1>4 DEF Retire, ILink
  <2>2. Place(m)
    BY <2>1 DEF IPlace
  <2>3. buffer' = buffer \cup {m} /\ UNCHANGED <<set, handoff>>
    BY <1>4 DEF Retire
  <2>4. status' = [status EXCEPT ![m] = "retired"]
    BY <1>4 DEF Retire, R!HandOver
  <2>5. status'[m] = "retired" /\ (n # m => status'[n] = status[n])
    BY <2>1, <2>4 DEF TypeOK, R!RTypeOK
  <2> HIDE DEF m
  <2>6. CASE n = m
    BY <2>1, <2>2, <2>3, <2>5, <2>6 DEF Place, HandedOff
  <2>7. CASE n # m
    BY <1>n, <2>3, <2>5, <2>7 DEF Place, HandedOff
  <2> QED BY <2>6, <2>7
<1>5. CASE Steal(t)
  <2>1. set = {}
    BY <1>5 DEF Steal, ILock, LibPC
  <2>2. set' = buffer /\ buffer' = {} /\ UNCHANGED <<status, handoff>>
    BY <1>5 DEF Steal
  <2> QED BY <1>n, <2>1, <2>2 DEF Place, HandedOff
<1>6. CASE Reset(t) \/ Recount(t) \/ Unlock(t)
  BY <1>6, <1>f DEF Reset, Recount, Unlock
<1>7. ASSUME NEW m \in Node, FreeOne(t, m) PROVE Place(n)'
  <2>1. Place(m) /\ m \in set
    BY <1>7 DEF FreeOne, IPlace
  <2>2. set' = set \ {m} /\ UNCHANGED <<buffer, handoff>> /\ status'[m] = "free" /\ (n # m => status'[n] = status[n])
    BY <1>7 DEF FreeOne, R!SetStatus, TypeOK, R!RTypeOK
  <2>3. CASE n = m
    BY <2>1, <2>2, <2>3 DEF Place, HandedOff
  <2>4. CASE n # m
    BY <1>n, <2>2, <2>4 DEF Place, HandedOff
  <2> QED BY <2>3, <2>4
<1>8. CASE ScanGuard(t)
  <2> DEFINE p == post[at]
             h == handoff[at]
  <2>1. at \in Guard /\ status' = status /\ h \in Node \cup {Null}
    BY <1>8, BoundAssumption DEF ScanGuard, TypeOK, Guard
  <2>2. Place(p) \/ p \notin Node
    BY DEF IPlace
  <2>3. \A g \in Guard \ {at} : handoff'[g] = handoff[g]
    BY <1>8 DEF ScanGuard, TypeOK
  <2>4. CASE ~(h \notin {Null, p} /\ MayFree(h)) /\ p \notin set
    <3>1. UNCHANGED <<set, buffer, handoff>>
      BY <1>8, <2>1, <2>4 DEF ScanGuard, Kept, Evicted, TypeOK
    <3> QED BY <2>1, <3>1, <1>f
  <2>5. CASE h \notin {Null, p} /\ MayFree(h) /\ p \notin set
    <3>1. handoff'[at] = Null /\ set' = set \cup {h} /\ buffer' = buffer
      BY <1>8, <2>1, <2>5 DEF ScanGuard, Kept, Evicted, TypeOK
    <3> HIDE DEF p, h
    <3> QED
      <4>1. h = handoff[at]
        BY DEF h
      <4> QED BY <1>n, <2>1, <2>3, <2>5, <3>1, <4>1, NullAssumption DEF Place, HandedOff
  <2>6. CASE p \in set
    <3>1. p \in Node /\ Place(p)
      BY <2>6, <2>2 DEF TypeOK
    <3>2. /\ handoff'[at] = p
          /\ set' = (set \ {p}) \cup IF h \notin {Null, p} /\ MayFree(h) THEN {h} ELSE {}
          /\ buffer' = buffer \cup IF h \notin {Null, p} /\ ~MayFree(h) THEN {h} ELSE {}
      BY <1>8, <2>1, <2>6 DEF ScanGuard, Kept, Evicted, Repushed, TypeOK
    <3>3. h # p /\ p # Null /\ h = handoff[at] /\ p \notin buffer /\ ~HandedOff(p)
      BY <2>1, <2>6, <3>1, NullAssumption DEF Place, HandedOff
    <3>4. h = Null \/ Place(h)
      BY <2>1 DEF IPlace
    <3> HIDE DEF p, h
    <3>5. CASE n = p
      <4>1. HandedOff(n)' /\ status[n] = "retired"
        BY <2>1, <2>6, <3>1, <3>2, <3>5 DEF HandedOff, Place
      <4>2. n \notin set' /\ n \notin buffer'
        BY <3>2, <3>3, <3>5
      <4>3. \A g \in Guard : handoff'[g] = n => g = at
        BY <2>3, <3>3, <3>5 DEF HandedOff
      <4> QED BY <2>1, <4>1, <4>2, <4>3 DEF Place
    <3>6. CASE n # p /\ n = h
      <4>1. status[n] = "retired" /\ n \notin buffer /\ n \notin set /\ \A g \in Guard : handoff[g] = n => g = at
        BY <1>n, <2>1, <3>3, <3>6 DEF Place, HandedOff
      <4>2. \A g \in Guard : handoff'[g] # n
        BY <2>3, <3>2, <3>6, <4>1
      <4>3. n # Null
        BY NullAssumption
      <4>4. n \in buffer' \cup set' /\ n \notin buffer' \cap set'
        BY <3>2, <3>3, <3>6, <4>1, <4>3
      <4> QED BY <2>1, <4>1, <4>2, <4>4 DEF Place, HandedOff
    <3>7. CASE n # p /\ n # h
      <4>1. \A g \in Guard : handoff'[g] = n <=> handoff[g] = n
        BY <2>1, <2>3, <3>2, <3>3, <3>7
      <4>2. (n \in set' <=> n \in set) /\ (n \in buffer' <=> n \in buffer)
        BY <3>2, <3>7
      <4> QED BY <1>n, <2>1, <4>1, <4>2 DEF Place, HandedOff
    <3> QED BY <3>5, <3>6, <3>7
  <2> QED BY <2>4, <2>5, <2>6
<1> QED
  BY <1>1, <1>2, <1>3, <1>4, <1>5, <1>6, <1>7, <1>8 DEF Mutating, Retiring, Liberating

-----------------------------------------------------------------------------
\* What a step of t does to the cells and the posts, in the words of the contract
Slots == \E s \in Guard, p \in Node \cup {Null} : R!SetSlot(s, p)
Cells == \E n \in Node : R!Allocate(n) \/ R!Remove(n) \/ R!Surrender(n)
Copied == \E s, d \in Guard : <<s, d>> \in Copies /\ using[s] \in Node /\ R!Copy(s, d)
Confirmed == \E s \in Guard : R!Confirm(s)
Deed(t) ==
    \/ UNCHANGED rvars \/ Cells \/ Slots \/ Confirmed \/ Copied
    \/ \E n \in Node : FreeOne(t, n)

\* Every step is one of these.
LEMMA StepDeed ==
  ASSUME TypeOK, IPool, IProtect, ILink, NEW t \in Thread,
         Pooling(t) \/ Guarding(t) \/ Mutating(t) \/ Retiring(t) \/ Liberating(t)
  PROVE  Deed(t)
<1> USE DEF At
<1>e. Elements(list[t]) \subseteq Guard
  BY DEF TypeOK, Elements
<1>s. ASSUME NEW g \in Guard, NEW p \in Node \cup {Null}, R!SetSlot(g, p) PROVE Slots
  BY <1>s DEF Slots
<1>t. ASSUME NEW g \in Guard, TakeGuard(g) PROVE Slots
  BY <1>t, TakenSlot DEF Slots
<1>1. ASSUME Pooling(t) PROVE UNCHANGED rvars \/ Slots
  <2>1. CASE \E g \in Guard : AttachGuard(t, g) \/ GuardGrow(t, g)
    BY <2>1, <1>t DEF AttachGuard, GuardGrow
  <2>2. CASE FiniBegin(t) \/ FiniReturn(t) \/ \E g \in Guard : GuardReuse(t, g)
    BY <2>2 DEF FiniBegin, FiniReturn, GuardReuse
  <2>3. CASE FiniClear(t)
    <3>1. list[t][upto[t]] \in Elements(list[t])
      BY <2>3 DEF FiniClear, IPool, Stage, TypeOK, Elements
    <3>2. R!SetSlot(list[t][upto[t]], Null)
      BY <2>3 DEF FiniClear
    <3> QED BY <3>1, <3>2, <1>e, <1>s
  <2>4. CASE \E g \in Guard : GuardFree(t, g)
    <3> PICK g \in Guard : GuardFree(t, g)
      BY <2>4
    <3>1. post[g] \in Node \cup {Null} /\ R!SetSlot(g, post[g])
      BY DEF GuardFree, TypeOK, R!RTypeOK
    <3> QED BY <3>1, <1>s
  <2> QED BY <1>1, <2>1, <2>2, <2>3, <2>4 DEF Pooling
<1>2. ASSUME Guarding(t) PROVE UNCHANGED rvars \/ Slots \/ Confirmed \/ Copied
  <2>1. CASE \E g \in Guard : GuardClear(t, g)
    BY <2>1, <1>s DEF GuardClear
  <2>2. CASE Load(t) \/ \E g \in Guard, l \in Link : Protect(t, g, l)
    BY <2>2 DEF Load, Protect
  <2>3. CASE PostGuard(t)
    <3>1. guard[t] \in Guard /\ ptr[t] \in Node \cup {Null}
      BY <2>3, <1>e DEF PostGuard, IProtect, Protecting, Held, TypeOK
    <3> QED BY <2>3, <3>1, <1>s DEF PostGuard
  <2>4. CASE CheckLink(t)
    <3>1. guard[t] \in Guard /\ post[guard[t]] = ptr[t]
      BY <2>4, <1>e DEF CheckLink, IProtect, Protecting, Held
    <3>2. CASE StillLinked(t)
      <4>1. post[guard[t]] \in Node => status[post[guard[t]]] = "linked"
        BY <3>1, <3>2, NullAssumption DEF StillLinked, ILink, TypeOK
      <4>2. R!Confirm(guard[t])
        BY <2>4, <3>2, <4>1 DEF CheckLink, R!Confirm, R!Protected
      <4> QED BY <3>1, <4>2 DEF Confirmed
    <3>3. CASE ~StillLinked(t)
      BY <2>4, <3>3 DEF CheckLink
    <3> QED BY <3>2, <3>3
  <2>5. CASE \E g, h \in Guard : GuardCopy(t, g, h)
    BY <2>5 DEF GuardCopy, Copied
  <2> QED BY <1>2, <2>1, <2>2, <2>3, <2>4, <2>5 DEF Guarding
<1>3. ASSUME Mutating(t) PROVE Cells
  <2>1. ASSUME NEW l \in Link, Unlink(t, l) PROVE Cells
    <3>1. link[l] \in Node /\ R!Remove(link[l])
      BY <2>1 DEF Unlink, ILink, TypeOK, R!Remove
    <3> QED BY <3>1 DEF Cells
  <2>2. ASSUME NEW l \in Link, NEW n \in Node, Insert(t, l, n) PROVE Cells
    BY <2>2 DEF Insert, Cells, R!Allocate
  <2> QED BY <1>3, <2>1, <2>2 DEF Mutating
<1>4. ASSUME Retiring(t) PROVE UNCHANGED rvars \/ Cells
  <2>1. ASSUME Retire(t) PROVE Cells
    <3>1. ptr[t] \in Node /\ R!Surrender(ptr[t])
      BY <2>1 DEF Retire, ILink, R!Surrender
    <3> QED BY <3>1 DEF Cells
  <2> QED BY <1>4, <2>1 DEF Retiring, Count, TryLiberate
<1>5. ASSUME Liberating(t) PROVE UNCHANGED rvars \/ \E n \in Node : FreeOne(t, n)
  BY <1>5 DEF Liberating, Steal, Reset, ScanGuard, Recount, Unlock
<1> QED BY <1>1, <1>2, <1>3, <1>4, <1>5 DEF Deed

\* Only a guard that posts the node blocks it.
LEMMA HoldsStep ==
  ASSUME TypeOK, IPool, IProtect, ILink, IHolds, Next
  PROVE  IHolds'
<1> PICK t \in Thread : Pooling(t) \/ Guarding(t) \/ Mutating(t) \/ Retiring(t) \/ Liberating(t)
  BY DEF Next
<1>1. CASE UNCHANGED rvars \/ Confirmed \/ \E n \in Node : FreeOne(t, n)
  <2>1. UNCHANGED <<post, blockers>>
    BY <1>1 DEF rvars, Confirmed, R!Confirm, R!Use, FreeOne, R!SetStatus
  <2> QED BY <2>1 DEF IHolds
<1>2. CASE Cells
  <2> PICK n \in Node : R!Allocate(n) \/ R!Remove(n) \/ R!Surrender(n)
    BY <1>2 DEF Cells
  <2>1. post' = post /\ (blockers' = blockers \/ blockers' = [blockers EXCEPT ![n] = R!Holders(n)])
    BY DEF R!Allocate, R!Remove, R!Surrender, R!SetStatus, R!HandOver
  <2> SUFFICES ASSUME NEW m \in Node, NEW s \in blockers'[m] PROVE post'[s] = m
    BY DEF IHolds
  <2>2. CASE blockers'[m] = blockers[m]
    BY <2>1, <2>2 DEF IHolds
  <2>3. CASE blockers'[m] # blockers[m]
    <3>1. blockers'[m] = R!Holders(m)
      BY <2>1, <2>3 DEF TypeOK, R!RTypeOK
    <3> QED BY <2>1, <3>1 DEF R!Holders
  <2> QED BY <2>2, <2>3
<1>3. CASE Slots
  <2> PICK s \in Guard, p \in Node \cup {Null} : R!SetSlot(s, p)
    BY <1>3 DEF Slots
  <2> QED BY DEF IHolds, TypeOK, R!RTypeOK, R!SetSlot
<1>4. CASE Copied
  <2> PICK s \in Guard, d \in Guard : R!Copy(s, d)
    BY <1>4 DEF Copied
  <2> QED BY DEF IHolds, TypeOK, R!RTypeOK, R!Copy
<1> QED BY <1>1, <1>2, <1>3, <1>4, StepDeed DEF Deed

-----------------------------------------------------------------------------
\* Blockers of a retired node move down the list only.
LEMMA BlockersDescend ==
  ASSUME CopiesDescend, TypeOK, IPool, IProtect, ILink, NEW t \in Thread,
         Pooling(t) \/ Guarding(t) \/ Mutating(t) \/ Retiring(t) \/ Liberating(t),
         NEW n \in Node, status[n] = "retired", NEW k \in 0..MaxGuard, blockers[n] \subseteq 1..k
  PROVE  blockers'[n] \subseteq 1..k
<1>1. CASE UNCHANGED rvars \/ Confirmed \/ \E m \in Node : FreeOne(t, m)
  BY <1>1 DEF rvars, Confirmed, R!Confirm, R!Use, FreeOne, R!SetStatus
<1>2. CASE Cells
  <2> PICK m \in Node : R!Allocate(m) \/ R!Remove(m) \/ R!Surrender(m)
    BY <1>2 DEF Cells
  <2>1. blockers' = blockers \/ (status[m] = "unlinked" /\ blockers' = [blockers EXCEPT ![m] = R!Holders(m)])
    BY DEF R!Allocate, R!Remove, R!Surrender, R!SetStatus, R!HandOver
  <2> QED BY <2>1 DEF TypeOK, R!RTypeOK
<1>3. CASE Slots
  BY <1>3 DEF Slots, R!SetSlot
<1>4. CASE Copied
  <2> PICK s \in Guard, d \in Guard : <<s, d>> \in Copies /\ R!Copy(s, d)
    BY <1>4 DEF Copied
  <2>1. d < s
    BY DEF CopiesDescend
  <2>2. s \in 1..k => d \in 1..k
    BY <2>1, BoundAssumption DEF Guard
  <2> QED BY <2>2 DEF R!Copy
<1> QED BY <1>1, <1>2, <1>3, <1>4, StepDeed DEF Deed

\* What liberate has walked past blocks neither the nodes of its set nor, unless a
\* guard examined before posts them, those handed off.
LEMMA ScanStep ==
  ASSUME CopiesDescend, TypeOK, IPool, IPushed, IProtect, ILink, ILock, IPlace, IHolds, IScan, Next
  PROVE  IScan'
<1> PICK t \in Thread : Pooling(t) \/ Guarding(t) \/ Mutating(t) \/ Retiring(t) \/ Liberating(t)
  BY DEF Next
<1> USE DEF At, rvars, poolVars, bufferVars, libVars, listVars, protectVars
<1>k. nGuard \in 0..MaxGuard /\ at \in 0..MaxGuard
  BY DEF TypeOK
<1>d. ASSUME NEW n \in Node, n \in set \/ HandedOff(n), NEW k \in 0..MaxGuard, blockers[n] \subseteq 1..k
      PROVE  blockers'[n] \subseteq 1..k
  <2>1. status[n] = "retired"
    BY <1>d DEF IPlace, Place
  <2> QED BY <1>d, <2>1, BlockersDescend
<1>1. ASSUME UNCHANGED <<set, handoff, done, at>>, \A u \in Thread : pc'[u] \in ScanPC => pc[u] \in ScanPC PROVE IScan'
  <2> SUFFICES ASSUME NEW u \in Thread, pc'[u] \in ScanPC
               PROVE  /\ \A n \in set : blockers'[n] \subseteq 1..at
                      /\ \A n \in Node : HandedOff(n) => n \in done \/ blockers'[n] \subseteq 1..at
    BY <1>1 DEF IScan, HandedOff
  <2>1. /\ \A n \in set : blockers[n] \subseteq 1..at
        /\ \A n \in Node : HandedOff(n) => n \in done \/ blockers[n] \subseteq 1..at
    BY <1>1 DEF IScan
  <2>2. set \subseteq Node
    BY DEF TypeOK
  <2> QED BY <2>1, <2>2, <1>k, <1>d
<1>2. CASE Pooling(t) \/ Guarding(t) \/ Mutating(t) \/ Retiring(t)
  <2>1. UNCHANGED <<set, handoff, done, at>>
    BY <1>2, Bystander
  <2>2. ASSUME NEW u \in Thread, pc'[u] \in ScanPC PROVE pc[u] \in ScanPC
    <3>1. TryLiberate(t) => (pc'[u] = pc[u] \/ pc'[u] \in {"steal", "idle"})
      BY DEF TryLiberate, Goto, TypeOK
    <3>2. pc'[u] \in LibPC /\ pc'[u] \notin {"steal", "idle"}
      BY <2>2 DEF ScanPC, LibPC
    <3>3. pc'[u] = pc[u] \/ TryLiberate(t)
      BY <1>2, <3>2, Bystander
    <3> QED BY <2>2, <3>1, <3>2, <3>3
  <2> QED BY <2>1, <2>2, <1>1
<1>3. CASE Steal(t)
  <2>1. \A u \in Thread : pc'[u] \notin ScanPC
    BY <1>3 DEF Steal, Goto, TypeOK, ILock, LibPC, ScanPC
  <2> QED BY <2>1 DEF IScan
<1>4. CASE Reset(t)
  <2>1. at' = nGuard /\ UNCHANGED <<set, handoff, blockers>>
    BY <1>4 DEF Reset
  <2>2. \A n \in Node : blockers[n] \subseteq 1..nGuard
    <3> SUFFICES ASSUME NEW n \in Node, NEW s \in blockers[n] PROVE s \in 1..nGuard
      OBVIOUS
    <3>1. s \in Guard /\ post[s] = n
      BY DEF TypeOK, R!RTypeOK, IHolds
    <3> QED BY <3>1, NullAssumption DEF IPushed, Pushed
  <2>3. set \subseteq Node
    BY DEF TypeOK
  <2> QED BY <2>1, <2>2, <2>3 DEF IScan, HandedOff
<1>5. CASE ScanGuard(t)
  <2> DEFINE p == post[at]
             h == handoff[at]
  <2>1. /\ pc[t] = "scan" /\ at \in Guard /\ UNCHANGED <<post, blockers>> /\ at' = at - 1
        /\ done' = done \cup ({p} \ {Null})
    BY <1>5, BoundAssumption DEF ScanGuard, TypeOK, Guard, Examined
  <2>2. /\ \A n \in set : blockers[n] \subseteq 1..at
        /\ \A n \in Node : HandedOff(n) => n \in done \/ blockers[n] \subseteq 1..at
    BY <2>1 DEF IScan, ScanPC
  <2>3. ASSUME NEW n \in Node, n # p, blockers[n] \subseteq 1..at PROVE blockers[n] \subseteq 1..(at - 1)
    <3>1. at \notin blockers[n]
      BY <2>3, <2>1 DEF IHolds
    <3>2. 1..at \subseteq (1..(at - 1)) \cup {at}
      BY <1>k
    <3> QED BY <2>3, <3>1, <3>2
  <2>4. /\ set' = (set \ {p}) \cup IF h \notin {Null, p} /\ h \notin done THEN {h} ELSE {}
        /\ handoff'[at] \in {p, Null, h} /\ \A g \in Guard \ {at} : handoff'[g] = handoff[g]
    BY <1>5, <2>1 DEF ScanGuard, Kept, Evicted, MayFree, TypeOK
  <2>5. h \in Node \cup {Null} /\ set \subseteq Node
    BY <2>1 DEF TypeOK
  <2>6. h \in Node => HandedOff(h)
    BY <2>1 DEF HandedOff
  <2> HIDE DEF p, h
  <2>7. \A n \in set' : n \in Node /\ n # p /\ blockers[n] \subseteq 1..at
    BY <2>2, <2>4, <2>5, <2>6
  <2>8. \A n \in Node : HandedOff(n)' => n = p \/ HandedOff(n)
    BY <2>1, <2>4, <2>6, NullAssumption DEF HandedOff
  <2>9. p \in Node => p \in done'
    BY <2>1, NullAssumption
  <2>10. \A n \in set' : blockers'[n] \subseteq 1..at'
    BY <2>1, <2>3, <2>7
  <2>11. \A n \in Node : HandedOff(n)' => n \in done' \/ blockers'[n] \subseteq 1..at'
    BY <2>1, <2>2, <2>3, <2>8, <2>9
  <2> QED BY <2>10, <2>11 DEF IScan
<1>6. CASE Recount(t)
  BY <1>6, <1>1 DEF Recount, Goto, TypeOK, ScanPC
<1>7. CASE Unlock(t)
  <2>1. \A u \in Thread : pc'[u] \notin ScanPC
    BY <1>7 DEF Unlock, LiberateDone, Goto, TypeOK, ILock, LibPC, ScanPC
  <2> QED BY <2>1 DEF IScan
<1>8. ASSUME NEW m \in Node, FreeOne(t, m) PROVE IScan'
  <2>1. UNCHANGED <<handoff, done, at, pc, blockers>> /\ set' \subseteq set
    BY <1>8 DEF FreeOne, R!SetStatus
  <2> QED BY <2>1 DEF IScan, HandedOff
<1> QED
  BY <1>2, <1>3, <1>4, <1>5, <1>6, <1>7, <1>8 DEF Liberating

-----------------------------------------------------------------------------
\* A thread that posts or copies a node takes it off the strays.
LEMMA StrayUnposted ==
  ASSUME TypeOK, IPool, IProtect, IStray, NEW t \in Thread, Pooling(t) \/ Guarding(t) \/ Mutating(t) \/ Retiring(t)
  PROVE  \A n \in stray' : \A g \in Guard : post'[g] # n
<1> SUFFICES ASSUME NEW n \in stray', NEW f \in Guard PROVE post'[f] # n
  OBVIOUS
<1> USE DEF At, rvars, poolVars, bufferVars, libVars, listVars, protectVars
<1>n. n \in Node /\ n # Null /\ \A g \in Guard : post[g] # n
  <2>1. n \in stray
    BY Bystander
  <2> QED BY <2>1, NullAssumption DEF TypeOK, IStray
<1>s. ASSUME NEW g \in Guard, NEW p, R!SetSlot(g, p), p # n PROVE post'[f] # n
  BY <1>s, <1>n, SlotPost
<1>u. ASSUME post' = post PROVE post'[f] # n
  BY <1>u, <1>n
<1>e. Elements(list[t]) \subseteq Guard
  BY DEF TypeOK, Elements
<1>1. ASSUME NEW g \in Guard, AttachGuard(t, g) \/ GuardGrow(t, g) PROVE post'[f] # n
  BY <1>1, <1>s, <1>n, TakenSlot DEF AttachGuard, GuardGrow
<1>2. CASE FiniBegin(t) \/ FiniReturn(t) \/ (\E g \in Guard : GuardReuse(t, g)) \/ Load(t) \/ CheckLink(t)
           \/ \E g \in Guard, l \in Link : Protect(t, g, l)
  BY <1>2, <1>u DEF FiniBegin, FiniReturn, GuardReuse, Load, CheckLink, R!Use, Protect
<1>3. CASE FiniClear(t)
  <2>1. list[t][upto[t]] \in Elements(list[t])
    BY <1>3 DEF FiniClear, IPool, Stage, TypeOK, Elements
  <2> QED BY <1>3, <1>s, <1>n, <1>e, <2>1 DEF FiniClear
<1>4. ASSUME NEW g \in Guard, GuardFree(t, g) \/ GuardClear(t, g) PROVE post'[f] # n
  BY <1>4, <1>s, <1>n DEF GuardFree, GuardClear
<1>5. CASE PostGuard(t)
  <2>1. guard[t] \in Guard
    BY <1>5, <1>e DEF PostGuard, IProtect, Protecting, Held
  <2>2. ptr[t] # n /\ R!SetSlot(guard[t], ptr[t])
    BY <1>5 DEF PostGuard
  <2> QED BY <2>1, <2>2, <1>s
<1>6. ASSUME NEW g \in Guard, NEW h \in Guard, GuardCopy(t, g, h) PROVE post'[f] # n
  <2>1. using[g] # n
    BY <1>6 DEF GuardCopy
  <2>2. post' = [post EXCEPT ![h] = using[g]]
    BY <1>6 DEF GuardCopy, R!Copy
  <2> QED BY <2>1, <2>2, <1>n DEF TypeOK, R!RTypeOK
<1>7. CASE Mutating(t) \/ Retiring(t)
  BY <1>7, <1>u DEF Mutating, Insert, Unlink, Retiring, Retire, Count, TryLiberate, R!SetStatus, R!HandOver
<1> QED
  BY <1>1, <1>2, <1>3, <1>4, <1>5, <1>6, <1>7 DEF Pooling, Guarding

\* Every step keeps the strays in the set or before the walk.
LEMMA StrayStep ==
  ASSUME TypeOK, IPool, IPushed, IProtect, ILock, IStray, Next
  PROVE  IStray'
<1> PICK t \in Thread : Pooling(t) \/ Guarding(t) \/ Mutating(t) \/ Retiring(t) \/ Liberating(t)
  BY DEF Next
<1> USE DEF At, rvars, poolVars, bufferVars, libVars, listVars, protectVars
<1> DEFINE Scanning == \E u \in Thread : pc[u] \in ScanPC
           Waits(n) == n \in set \/ \E g \in Guard : handoff[g] = n /\ (Scanning => g <= at)
<1>n. ASSUME NEW n \in stray PROVE n \in Node /\ n # Null /\ n \notin done /\ (\A g \in Guard : post[g] # n) /\ Waits(n)
  BY <1>n, NullAssumption DEF TypeOK, IStray
<1>1. CASE Pooling(t) \/ Guarding(t) \/ Mutating(t) \/ Retiring(t)
  <2>1. UNCHANGED <<handoff, set, done, at>> /\ stray' \subseteq stray
    BY <1>1, Bystander
  <2>2. Scanning' => Scanning
    <3> SUFFICES ASSUME NEW u \in Thread, pc'[u] \in ScanPC PROVE pc[u] \in ScanPC
      OBVIOUS
    <3>1. TryLiberate(t) => (pc'[u] = pc[u] \/ pc'[u] \in {"steal", "idle"})
      BY DEF TryLiberate, Goto, TypeOK
    <3>2. pc'[u] \in LibPC /\ pc'[u] \notin {"steal", "idle"}
      BY DEF ScanPC, LibPC
    <3>3. pc'[u] = pc[u] \/ TryLiberate(t)
      BY <1>1, <3>2, Bystander
    <3> QED BY <3>1, <3>2, <3>3
  <2>3. \A n \in stray' : Waits(n)'
    BY <1>n, <2>1, <2>2
  <2>4. \A n \in stray' : \A g \in Guard : post'[g] # n
    BY <1>1, StrayUnposted
  <2> QED BY <1>n, <2>1, <2>3, <2>4 DEF IStray
<1>2. CASE Steal(t)
  <2>1. ~Scanning' /\ done = {}
    BY <1>2 DEF Steal, Goto, TypeOK, ILock, LibPC, ScanPC
  <2>2. /\ set' = buffer /\ UNCHANGED <<handoff, done, post>>
        /\ stray' = (buffer \cup {handoff[g] : g \in Guard}) \ ({post[g] : g \in Guard} \cup {Null})
    BY <1>2 DEF Steal, Posted
  <2> QED BY <2>1, <2>2 DEF IStray
<1>3. CASE Reset(t)
  <2>1. at' = nGuard /\ UNCHANGED <<handoff, set, done, post, stray>>
    BY <1>3 DEF Reset
  <2>2. \A g \in Guard : handoff[g] # Null => g <= nGuard
    BY DEF IPushed, Pushed, TypeOK
  <2>3. \A n \in stray : Waits(n)'
    BY <1>n, <2>1, <2>2
  <2> QED BY <1>n, <2>1, <2>3 DEF IStray
<1>4. CASE ScanGuard(t)
  <2>1. /\ Scanning /\ at \in Guard /\ UNCHANGED <<post, stray>> /\ at' = at - 1
        /\ done' = done \cup ({post[at]} \ {Null})
    BY <1>4, BoundAssumption DEF ScanGuard, TypeOK, Guard, Examined, ScanPC
  <2>2. /\ set \ {post[at]} \subseteq set'
        /\ handoff[at] \notin {Null, post[at]} /\ handoff[at] \notin done => handoff[at] \in set'
        /\ \A g \in Guard \ {at} : handoff'[g] = handoff[g]
    BY <1>4, <2>1 DEF ScanGuard, Kept, Evicted, MayFree, TypeOK
  <2> SUFFICES ASSUME NEW n \in stray PROVE n \notin done' /\ (\A g \in Guard : post'[g] # n) /\ Waits(n)'
    BY <2>1 DEF IStray
  <2>3. n \notin done' /\ \A g \in Guard : post'[g] # n
    BY <1>n, <2>1
  <2>4. CASE n \in set
    BY <1>n, <2>1, <2>2, <2>4
  <2>5. CASE n \notin set
    <3> PICK g \in Guard : handoff[g] = n /\ g <= at
      BY <1>n, <2>1, <2>5
    <3>1. CASE g = at
      BY <1>n, <2>1, <2>2, <3>1
    <3>2. CASE g # at
      <4>1. g <= at - 1
        BY <2>1, <3>2, BoundAssumption DEF Guard
      <4> QED BY <2>1, <2>2, <2>3, <3>2, <4>1
    <3> QED BY <2>3, <3>1, <3>2
  <2> QED BY <2>3, <2>4, <2>5
<1>5. CASE Recount(t)
  <2>1. UNCHANGED <<handoff, set, done, at, post, stray>> /\ Scanning
    BY <1>5 DEF Recount, ScanPC
  <2> QED BY <1>n, <2>1 DEF IStray
<1>6. CASE Unlock(t)
  BY <1>6 DEF Unlock, IStray
<1>7. ASSUME NEW m \in Node, FreeOne(t, m) PROVE IStray'
  <2>1. UNCHANGED <<handoff, done, at, post, pc>> /\ stray' = stray \ {m} /\ set' = set \ {m}
    BY <1>7 DEF FreeOne, R!SetStatus
  <2> QED BY <1>n, <2>1 DEF IStray
<1> QED
  BY <1>1, <1>2, <1>3, <1>4, <1>5, <1>6, <1>7 DEF Liberating

-----------------------------------------------------------------------------
\* The inductive invariant
IInv == TypeOK /\ IPool /\ IPushed /\ IProtect /\ ILink /\ ILock /\ IPlace /\ IHolds /\ IStray

\* It holds at the start, and so does IScan.
LEMMA InitInv == Init => IInv /\ IScan
<1> SUFFICES ASSUME Init PROVE IInv /\ IScan
  OBVIOUS
<1>0. Elements(<<>>) = {} /\ DOMAIN <<>> = {} /\ <<>> \in Seq(Guard)
  BY DEF Elements
<1>1. TypeOK
  <2>1. R!RTypeOK
    BY DEF Init, R!RInit, R!RTypeOK, R!Life
  <2>2. list \in [Thread -> Seq(Guard)] /\ avail \in [Thread -> SUBSET Guard]
    BY <1>0 DEF Init
  <2>3. 0 \in 0..MaxGuard
    BY BoundAssumption
  <2>4. pc \in [Thread -> PC]
    BY DEF Init, PC
  <2> QED BY <2>1, <2>2, <2>3, <2>4 DEF Init, TypeOK
<1>2. IPool
  BY <1>0 DEF Init, IPool, Owns, Stage, Held
<1>3. IPushed /\ IProtect /\ ILink
  BY DEF Init, R!RInit, IPushed, IProtect, Protecting, ILink
<1>4. ILock
  BY DEF Init, ILock, LibPC
<1>5. IPlace
  BY NullAssumption DEF Init, R!RInit, IPlace, Place, HandedOff
<1>6. IHolds /\ IStray /\ IScan
  BY DEF Init, R!RInit, IHolds, IStray, IScan, ScanPC
<1> QED BY <1>1, <1>2, <1>3, <1>4, <1>5, <1>6 DEF IInv

\* Every step keeps it.
LEMMA StepInv == IInv /\ [Next]_vars => IInv'
<1> SUFFICES ASSUME IInv, [Next]_vars PROVE IInv'
  OBVIOUS
<1> USE DEF IInv
<1>1. CASE Next
  <2>1. at <= nGuard
    BY DEF ILock
  <2> QED
    BY <1>1, <2>1, StepType, PoolStep, PushedStep, ProtectStep, LinkStep, LockStep, PlaceStep, HoldsStep, StrayStep
<1>2. CASE UNCHANGED vars
  <2> USE <1>2 DEF vars, rvars, poolVars, bufferVars, libVars, listVars, protectVars
  <2>1. TypeOK'
    BY DEF TypeOK, R!RTypeOK
  <2>2. IPool' /\ IPushed' /\ IProtect'
    BY DEF IPool, Owns, Stage, Held, Pushed, IPushed, IProtect, Protecting
  <2>3. ILink' /\ ILock'
    BY DEF ILink, ILock
  <2>4. IPlace' /\ IHolds' /\ IStray'
    BY DEF IPlace, Place, HandedOff, IHolds, IStray
  <2> QED BY <2>1, <2>2, <2>3, <2>4
<1> QED BY <1>1, <1>2

\* The inductive invariant holds in every behaviour, whatever the guards' copies.
THEOREM Invariance == Spec => []IInv
<1>1. Init => IInv
  BY InitInv
<1> QED BY <1>1, StepInv, PTL DEF Spec

\* The variables have their types: upto stays inside the list that fini clears, and every
\* guard index the collector follows is a guard.
THEOREM TypeCorrect == Spec => []TypeOK
<1>1. IInv => TypeOK
  BY DEF IInv
<1> QED BY Invariance, <1>1, PTL

\* Each retired node waits in one place until it is freed, and each guard is free or in one
\* thread's list: liberate's hand-offs neither lose a node nor let it be freed twice.
THEOREM NothingLost == Spec => []OnePlace
<1>1. IInv => OnePlace
  <2> SUFFICES ASSUME IInv PROVE OnePlace
    OBVIOUS
  <2>1. ASSUME NEW n \in Node
        PROVE  LET guards == {g \in Guard : handoff[g] = n}
               IN  /\ status[n] = "retired" <=> n \in buffer \cup set \/ guards # {}
                   /\ n \notin buffer \cap set
                   /\ n \in buffer \cup set => guards = {}
                   /\ \A g, h \in guards : g = h
    BY DEF IInv, IPlace, Place, HandedOff
  <2>2. \A t \in Thread : Owns(t)
    BY DEF IInv, IPool
  <2> QED BY <2>1, <2>2 DEF OnePlace, Owns
<1> QED BY Invariance, <1>1, PTL

\* When liberate ends, nothing is left waiting that no guard posted since it began.
THEOREM LeavesNothing == Spec => []LiberateComplete
<1>1. IInv => LiberateComplete
  <2> SUFFICES ASSUME IInv, NEW t \in Thread, pc[t] = "scan", at = 0, set = {}, NEW n \in stray PROVE FALSE
    BY DEF LiberateComplete, LiberateDone, At
  <2>1. PICK g \in Guard : g <= 0
    BY DEF IInv, IStray, ScanPC
  <2> QED BY <2>1, BoundAssumption DEF Guard
<1> QED BY Invariance, <1>1, PTL

-----------------------------------------------------------------------------
\* IScan is kept as well if guards are copied downwards.
LEMMA StepScan == CopiesDescend /\ IInv /\ IScan /\ [Next]_vars => IScan'
<1>1. IScan /\ UNCHANGED vars => IScan'
  BY DEF vars, rvars, poolVars, libVars, IScan, HandedOff
<1> QED BY <1>1, ScanStep DEF IInv

\* Every step is a step of the contract or changes nothing it speaks of: liberate frees a
\* node when the walk has passed all guards, and by IScan none of them blocks it.
LEMMA StepRefines == CopiesDescend /\ IInv /\ IScan /\ [Next]_vars => [R!RNext]_(R!rvars)
<1> SUFFICES ASSUME IInv, IScan, [Next]_vars PROVE [R!RNext]_(R!rvars)
  OBVIOUS
<1>1. UNCHANGED rvars => UNCHANGED R!rvars
  BY DEF rvars, R!rvars
<1>2. CASE Next
  <2> PICK t \in Thread : Pooling(t) \/ Guarding(t) \/ Mutating(t) \/ Retiring(t) \/ Liberating(t)
    BY <1>2 DEF Next
  <2>1. Deed(t)
    BY StepDeed DEF IInv
  <2>2. ASSUME NEW n \in Node, FreeOne(t, n) PROVE R!RNext
    <3>1. pc[t] = "scan" /\ at = 0 /\ n \in set /\ R!SetStatus(n, "free")
      BY <2>2 DEF FreeOne, At
    <3>2. status[n] = "retired"
      BY <3>1 DEF IInv, IPlace, Place
    <3>3. blockers[n] = {}
      BY <3>1 DEF IScan, ScanPC
    <3>4. status' = [m \in Node |-> IF m \in {n} THEN "free" ELSE status[m]]
      BY <3>1 DEF R!SetStatus, IInv, TypeOK, R!RTypeOK
    <3>5. R!Free({n})
      BY <3>1, <3>2, <3>3, <3>4 DEF R!Free, R!SetStatus
    <3> QED BY <3>5 DEF R!RNext
  <2>3. Cells \/ Slots \/ Confirmed \/ Copied => R!RNext
    BY DEF R!RNext, Cells, Slots, Confirmed, Copied
  <2> QED BY <1>1, <2>1, <2>2, <2>3 DEF Deed
<1>3. CASE UNCHANGED vars
  BY <1>3, <1>1 DEF vars
<1> QED BY <1>2, <1>3

\* The collector keeps the reclamation contract.
THEOREM Refinement == CopiesDescend /\ Spec => Reclaims
<1> SUFFICES ASSUME CopiesDescend PROVE Spec => Reclaims
  OBVIOUS
<1>1. Init => IInv /\ IScan /\ R!RInit
  BY InitInv DEF Init
<1>2. IInv /\ IScan /\ [Next]_vars => IInv' /\ IScan' /\ [R!RNext]_(R!rvars)
  BY StepInv, StepScan, StepRefines
<1> QED BY <1>1, <1>2, PTL DEF Spec, Reclaims, R!RSpec

\* A pointer obtained through Guard::guard is not freed while its guard posts it.
THEOREM Safety == CopiesDescend /\ Spec => []GuardedNotFreed
  BY Refinement, R!Contract, NullAssumption, PTL DEF Reclaims, GuardedNotFreed
=============================================================================
