------------------------- MODULE SetsAndMaps_proofs -------------------------
(***************************************************************************)
(* Proofs about Michael's list and the lazy list over guards, for every    *)
(* number of threads, nodes and keys: they keep the reclamation contract,  *)
(* so that no operation touches a freed node; the nodes stay in order, and *)
(* those of no erased key are left; and each list is a set of keys.        *)
(***************************************************************************)
EXTENDS SetsAndMaps, FiniteSetTheorems, NaturalsInduction, WellFoundedInduction, TLAPS

(* The guards of a thread *)

\* Slot i of thread t: what its guard holds, and the node it has confirmed to be in use
S(t, i) == <<t, i>>
H(t, i) == hz[<<t, i>>]
U(t, i) == using[<<t, i>>]
Held(t, i, p) == p \in Node /\ U(t, i) = p

(* The nodes: those allocated but not yet linked, and those in the list *)

Making(t) == node[t] \in Node /\ ans[t] # "yes"
New == {node[t] : t \in {u \in Thread : Making(u)}}
InList == {n \in Node : status[n] = "linked" /\ n \notin New}
Gone(n) == status[n] \in {"unlinked", "retired"}

\* The list is in order of the keys, with no gaps: from each cell the next one is the nearest
\* above it.  This says without induction that every node can be reached.
Precedes(c, n) == c = HeadCell \/ key[c] < key[n]
Sorted ==
    /\ \A c \in InList \cup {HeadCell} :
          /\ next[c] \in InList \cup {End}
          /\ next[c] \in InList => Precedes(c, next[c])
          /\ \A n \in InList : Precedes(c, n) =>
                next[c] \in InList /\ (next[c] = n \/ key[next[c]] < key[n])
    /\ \A m, n \in InList : key[m] = key[n] => m = n

\* An unmarked node that is in use is in the list.
Marks ==
    /\ ~marked[HeadCell] /\ ~marked[TailCell]
    /\ \A n \in Node : Gone(n) => marked[n]
    /\ \A n \in Node : status[n] # "free" => key[n] \in Keys
    /\ \A n \in Node : status[n] = "free" \/ n \in New => ~marked[n]
    /\ items = {n \in InList : ~marked[n]}

\* A new node is its creator's alone.
News ==
    /\ \A t \in Thread : Making(t) => /\ status[node[t]] = "linked" /\ key[node[t]] = arg[t]
                                      /\ \A s \in Slot : using[s] # node[t]
    /\ \A t, u \in Thread : Making(t) /\ Making(u) /\ node[t] = node[u] => t = u

\* An unlinked node is in the hands of one thread.
Taking(t) ==
    IF kind = "michael" THEN pc[t] \in {"retire", "erase_retire", "clear_retire"}
    ELSE \/ pc[t] \in {"back_link", "clear_retire"}
         \/ pc[t] \in {"unlock", "unlock_pred", "retire"} /\ op[t] = "erase" /\ ans[t] = "yes"
Taken ==
    /\ \A t \in Thread : Taking(t) => cur[t] \in Node /\ status[cur[t]] = "unlinked"
    /\ \A t, u \in Thread : Taking(t) /\ Taking(u) /\ cur[t] = cur[u] => t = u

Alone == \A t, u \in Thread : op[t] = "clear" /\ u # t => pc[u] = "idle"

\* What a call in progress has noticed of the set
Pending(t) == op[t] # "none" /\ ans[t] = "none"
Lacks(t) == IF arg[t] = NoKey THEN Members = {} ELSE arg[t] \notin Members
Noticed ==
    \A t \in Thread :
       /\ sawIn[t] \/ sawOut[t] => Pending(t)
       /\ Pending(t) => (arg[t] \in Members => sawIn[t]) /\ (Lacks(t) => sawOut[t])

(* Where a call is, of either list *)

OnceMore == IF kind = "michael"
            THEN {"search", "cur_guard", "cur_check", "next", "next_guard", "next_check",
                  "prev_check", "step", "shift", "unlink", "retire"}
            ELSE {}
Control(t) ==
    /\ pc[t] = "idle" <=> op[t] = "none"
    /\ op[t] = "none" => ans[t] = "none"
    /\ op[t] \in {"none", "empty", "clear"} => arg[t] = NoKey
    /\ op[t] \in KeyOps => arg[t] \in Keys
    /\ pc[t] \in {"idle", "empty", "clear", "clear_retire"} => ans[t] = "none"
    /\ node[t] # Null <=> AllocatesFirst(op[t])
    /\ op[t] = "empty" => pc[t] \in {"empty", "leave"}
    /\ op[t] = "clear" => pc[t] \in {"clear", "clear_retire", "leave"}
    /\ pc[t] \in {"empty", "clear", "clear_retire"} => op[t] \notin KeyOps
    /\ pc[t] = "empty" => op[t] = "empty"
    /\ pc[t] \in {"clear", "clear_retire"} => op[t] = "clear"
    /\ pc[t] = "free" => node[t] # Null /\ ans[t] = "no"
    /\ pc[t] = "leave" => ans[t] # "none"
    /\ pc[t] \in {"idle", "empty", "clear", "clear_retire", "free"} => \A i \in 0..3 : U(t, i) = Null

(* Michael's list *)

MTypes ==
    /\ next \in [Cell -> Node \cup {Null}]
    /\ cur \in [Thread -> Node \cup {Null}] /\ nxt \in [Thread -> Node \cup {Null}]
    /\ prev \in [Thread -> Node \cup {HeadCell, Null}]
    /\ \A t \in Thread : op[t] # "emplace"

\* Where a search may stand: on a node with a smaller key
Before(t) == prev[t] = HeadCell \/ (Held(t, 2, prev[t]) /\ key[prev[t]] < arg[t])
OnCur == {"next", "next_guard", "next_check", "prev_check", "step", "unlink", "is_marked",
          "touch", "mark", "erase_unlink"}
OnPrev == {"next", "next_guard", "next_check", "prev_check", "unlink", "retire", "shift",
           "guard_new", "link", "mark", "erase_unlink"}
\* A slot holds n, and held it before n was retired.
Shielded(s, n) == n \in InList \/ status[n] = "unlinked" \/ s \in blockers[n]

MControl(t) ==
    /\ pc[t] \in OnceMore => ans[t] = "none" \/ (op[t] = "erase" /\ ans[t] = "yes")
    /\ pc[t] \in {"guard_new", "link", "is_marked", "mark"} => ans[t] = "none"
    /\ pc[t] \in {"erase_unlink", "erase_retire"} => op[t] = "erase" /\ ans[t] = "yes"
    /\ pc[t] \in {"guard_new", "link"} => op[t] \in Inserts
    /\ pc[t] = "guard_new" => op[t] # "insert"
    /\ pc[t] = "is_marked" => op[t] = "ensure"
    /\ pc[t] = "mark" => op[t] = "erase"
    /\ pc[t] \in {"touch", "touch_new"} => ans[t] # "none" /\ (op[t] = "ensure" \/ op[t] = "find" \/ pc[t] = "touch_new")
    /\ pc[t] = "touch_new" => ans[t] = "yes" /\ node[t] # Null

MPlace(t) ==
    /\ pc[t] \in {"cur_guard", "cur_check"} => prev[t] = HeadCell
    /\ pc[t] \in OnCur => Held(t, 1, cur[t])
    /\ pc[t] \in OnPrev => Before(t)
    /\ pc[t] = "cur_check" => H(t, 1) = cur[t]
    /\ pc[t] \in {"next_check", "prev_check"} => H(t, 0) = nxt[t]
    /\ pc[t] \in {"step", "retire", "shift", "unlink"} /\ nxt[t] \in Node => U(t, 0) = nxt[t]
    /\ pc[t] \in {"guard_new", "link"} /\ cur[t] \in Node => Held(t, 1, cur[t]) /\ key[cur[t]] > arg[t]
    /\ pc[t] = "link" => H(t, 3) = IF op[t] = "insert" THEN Null ELSE node[t]
    /\ pc[t] = "touch_new" => Held(t, 3, node[t])
    /\ pc[t] \in MichaelPC \ {"search", "link", "touch_new"} => H(t, 3) = Null
    /\ pc[t] = "step" => key[cur[t]] < arg[t]
    /\ pc[t] \in {"is_marked", "mark"} => key[cur[t]] = arg[t]

MRead(t) ==
    /\ pc[t] \in {"unlink", "erase_unlink"} => marked[cur[t]] /\ next[cur[t]] = nxt[t]
    /\ pc[t] = "prev_check" =>
          /\ nmark[t] => marked[cur[t]] /\ next[cur[t]] = nxt[t]
          /\ status[cur[t]] = "linked" =>
                /\ nxt[t] \in Node => Shielded(S(t, 0), nxt[t])
                /\ ~nmark[t] /\ key[cur[t]] = arg[t] /\ ans[t] = "none" => sawIn[t]
                /\ ~nmark[t] /\ key[cur[t]] < arg[t] /\ nxt[t] = Null /\ ans[t] = "none" => sawOut[t]
    /\ pc[t] \in {"step", "retire", "shift"} /\ nxt[t] = Null /\ ans[t] = "none" => sawOut[t]

\* Who will unlink a marked node: the eraser, as long as its search has not passed the place.
MOwner(t, n) ==
    /\ op[t] = "erase" /\ ans[t] = "yes" /\ arg[t] = key[n]
    /\ pc[t] \in OnceMore \cup {"erase_unlink"}
    /\ pc[t] = "erase_unlink" => cur[t] = n
    /\ pc[t] \in {"step", "retire", "shift"} => nxt[t] # Null
    /\ pc[t] = "prev_check" /\ status[cur[t]] = "linked" /\ ~nmark[t] =>
          cur[t] # n /\ ~(nxt[t] = Null /\ key[cur[t]] < arg[t])
MDoomed == \A n \in InList : marked[n] => \E t \in Thread : MOwner(t, n)

(* The lazy list *)

LTypes == nxt \in [Thread -> {Null}]

LBefore(t) == prev[t] = HeadCell \/ (Held(t, 0, prev[t]) /\ key[prev[t]] < arg[t])
LAfter(t) == cur[t] = TailCell \/ (Held(t, 1, cur[t]) /\ key[cur[t]] >= arg[t])
LockedPC == {"lock_cur", "validate", "unlock", "unlock_pred", "link", "mark", "unlink", "back_link"}
LControl(t) ==
    /\ pc[t] \in {"search", "load", "cur_guard", "cur_check", "step", "find", "lock", "lock_cur", "validate", "link", "mark"}
         => ans[t] = "none"
    /\ pc[t] \in {"unlink", "back_link", "retire"} => op[t] = "erase" /\ ans[t] = "yes"
    /\ pc[t] = "touch" => ans[t] = "yes" /\ op[t] = "find"
    /\ pc[t] = "find" => op[t] = "find"
    /\ pc[t] = "link" => op[t] \in Inserts
    /\ pc[t] = "mark" => op[t] = "erase"
    /\ pc[t] \in LockedPC \cup {"lock"} => op[t] # "find"

LPlace(t) ==
    /\ pc[t] \in {"load", "cur_guard", "cur_check", "lock"} \cup LockedPC => LBefore(t)
    /\ pc[t] = "cur_check" => H(t, 1) = (IF cur[t] \in Node THEN cur[t] ELSE Null)
    /\ pc[t] = "step" => cur[t] = HeadCell \/ (Held(t, 1, cur[t]) /\ key[cur[t]] < arg[t])
    /\ pc[t] \in {"find", "lock"} \cup LockedPC => LAfter(t)
    /\ pc[t] \in {"touch"} => Held(t, 1, cur[t])
    /\ pc[t] \in {"mark", "unlink", "back_link"} => cur[t] \in Node

\* A node a thread stands on leads into the list: it is there, or leads back to the head, or
\* else its eraser still holds the node before it.
LeadsBack(n) ==
    \/ next[n] = HeadCell
    \/ \E t \in Thread : pc[t] = "back_link" /\ cur[t] = n
LGone == \A s \in Slot : using[s] \in Node /\ Gone(using[s]) => LeadsBack(using[s])

\* What was validated stays so while the locks are held.
LLocked(t) ==
    /\ pc[t] \in {"link", "mark"} => ~marked[prev[t]] /\ ~marked[cur[t]] /\ next[prev[t]] = cur[t]
    /\ pc[t] = "link" /\ cur[t] \in Node => key[cur[t]] > arg[t]
    /\ pc[t] = "mark" => key[cur[t]] = arg[t]
    /\ pc[t] = "unlink" => ~marked[prev[t]] /\ next[prev[t]] = cur[t] /\ marked[cur[t]]
    /\ pc[t] = "back_link" => ~marked[prev[t]] /\ next[prev[t]] = next[cur[t]]

LSaw(t) ==
    pc[t] = "find" /\ (cur[t] = TailCell \/ key[cur[t]] # arg[t] \/ marked[cur[t]]) => sawOut[t]

LDoomed == \A n \in InList : marked[n] => \E t \in Thread : pc[t] = "unlink" /\ cur[t] = n

(* The invariants *)

Common ==
    /\ ListTypeOK /\ R!RGood /\ Sorted /\ Marks /\ News /\ Taken /\ Alone /\ Noticed
    /\ \A t \in Thread : Control(t)
MInv ==
    /\ kind = "michael" /\ Common /\ MTypes
    /\ \A t \in Thread : MControl(t) /\ MPlace(t) /\ MRead(t)
    /\ MDoomed
LInv ==
    /\ kind = "lazy" /\ Common /\ LTypes /\ LocksHeld /\ LGone
    /\ \A t \in Thread : LControl(t) /\ LPlace(t) /\ LLocked(t) /\ LSaw(t)
    /\ LDoomed

-----------------------------------------------------------------------------
(* Constants and slots *)

\* What is assumed of the constants
LEMMA Constants == /\ Null \notin Node /\ HeadCell \notin Node /\ TailCell \notin Node
                   /\ Null # HeadCell /\ Null # TailCell /\ HeadCell # TailCell
                   /\ Keys \subseteq Nat /\ NoKey \notin Keys /\ NoThread \notin Thread
                   /\ IsFiniteSet(Node)
BY ConstantsAssumption DEF ListConstants

\* The guards of different threads, and different guards of a thread, are different slots.
LEMMA Slots ==
  /\ \A t \in Thread, i \in 0..3 : <<t, i>> \in Slot
  /\ \A t, u, i, j : <<t, i>> = <<u, j>> <=> t = u /\ i = j
  /\ \A t, u \in Thread, i \in 0..3 : <<u, i>> \in Guards(t) <=> u = t
  /\ \A t \in Thread : Guards(t) \in SUBSET Slot
  /\ \A s \in Slot : \E t \in Thread, i \in 0..3 : s = <<t, i>>
BY DEF Slot, Guards

\* What the guards of the threads other than t are after a step of t
OthersGuard(t) ==
    \A u \in Thread \ {t}, j \in 0..3 :
       /\ H(u, j)' = H(u, j) /\ U(u, j)' = U(u, j)
       /\ \A n \in Node : <<u, j>> \in blockers[n] => <<u, j>> \in blockers'[n]

\* What the steps of the contract do to the guards of each thread
LEMMA SlotGuarded ==
  ASSUME R!RTypeOK, NEW t \in Thread, NEW i \in 0..3, NEW p, Guard(t, i, p)
  PROVE  /\ H(t, i)' = (IF p \in Node THEN p ELSE Null) /\ U(t, i)' = Null
         /\ \A j \in 0..3 : j # i => H(t, j)' = H(t, j) /\ U(t, j)' = U(t, j)
         /\ OthersGuard(t) /\ status' = status /\ R!RNext
<1>1. PICK q \in Node \cup {Null} : q = (IF p \in Node THEN p ELSE Null) /\ R!SetSlot(<<t, i>>, q)
  BY DEF Guard
<1>2. R!RNext
  BY <1>1, Slots DEF R!RNext
<1>3. /\ H(t, i)' = q /\ U(t, i)' = Null /\ status' = status
      /\ \A u \in Thread, j \in 0..3 : u # t \/ j # i => H(u, j)' = H(u, j) /\ U(u, j)' = U(u, j)
  BY <1>1, Slots DEF R!SetSlot, R!RTypeOK, H, U
<1>4. \A u \in Thread, j \in 0..3, n \in Node : u # t /\ <<u, j>> \in blockers[n] => <<u, j>> \in blockers'[n]
  BY <1>1, Slots DEF R!SetSlot, R!RTypeOK
<1> QED BY <1>1, <1>2, <1>3, <1>4 DEF OthersGuard

\* A guard is confirmed: the thread may use what it holds.
LEMMA SlotUsed ==
  ASSUME R!RTypeOK, NEW t \in Thread, NEW i \in 0..3, R!Use(S(t, i))
  PROVE  /\ U(t, i)' = H(t, i) /\ \A j \in 0..3 : j # i => U(t, j)' = U(t, j)
         /\ \A j \in 0..3 : H(t, j)' = H(t, j)
         /\ OthersGuard(t) /\ status' = status
         /\ (H(t, i) \in Node => status[H(t, i)] \in {"linked", "unlinked"} \/ S(t, i) \in blockers[H(t, i)]) => R!RNext
<1>1. /\ U(t, i)' = H(t, i) /\ \A j \in 0..3 : j # i => U(t, j)' = U(t, j)
      /\ \A j \in 0..3 : H(t, j)' = H(t, j)
      /\ OthersGuard(t) /\ status' = status
  BY Slots DEF R!Use, R!RTypeOK, H, U, OthersGuard, S
<1> QED BY <1>1, Slots DEF R!RNext, R!Confirm, R!Protected, H, S

\* A guard in use is copied to another slot of its thread.
LEMMA SlotCopied ==
  ASSUME R!RTypeOK, NEW t \in Thread, NEW i \in 0..3, NEW j \in 0..3, U(t, i) \in Node, R!Copy(S(t, i), S(t, j))
  PROVE  /\ H(t, j)' = U(t, i) /\ U(t, j)' = U(t, i)
         /\ \A k \in 0..3 : k # j => H(t, k)' = H(t, k) /\ U(t, k)' = U(t, k)
         /\ OthersGuard(t) /\ status' = status /\ R!RNext
<1>1. R!RNext
  BY Slots DEF R!RNext, U, S
<1>2. /\ H(t, j)' = U(t, i) /\ U(t, j)' = U(t, i) /\ status' = status
      /\ \A u \in Thread, k \in 0..3 : u # t \/ k # j => H(u, k)' = H(u, k) /\ U(u, k)' = U(u, k)
  BY Slots DEF R!Copy, R!RTypeOK, H, U, S
<1>3. \A u \in Thread, k \in 0..3, n \in Node : u # t /\ <<u, k>> \in blockers[n] => <<u, k>> \in blockers'[n]
  BY Slots DEF R!Copy, R!RTypeOK, S
<1> QED BY <1>1, <1>2, <1>3 DEF OthersGuard

\* The same for a cell that may need no guard
LEMMA SlotMoved ==
  ASSUME R!RTypeOK, NEW t \in Thread, NEW i \in 0..3, NEW j \in 0..3, NEW p, p \in Node => U(t, i) = p,
         MoveGuard(t, i, j, p)
  PROVE  /\ H(t, j)' = (IF p \in Node THEN p ELSE Null) /\ U(t, j)' = (IF p \in Node THEN p ELSE Null)
         /\ \A k \in 0..3 : k # j => H(t, k)' = H(t, k) /\ U(t, k)' = U(t, k)
         /\ OthersGuard(t) /\ status' = status /\ R!RNext
<1>1. CASE p \in Node
  BY <1>1, SlotCopied DEF MoveGuard, S
<1>2. CASE p \notin Node
  BY <1>2, SlotGuarded DEF MoveGuard
<1> QED BY <1>1, <1>2

\* A thread gives up all its guards.
LEMMA SlotsReleased ==
  ASSUME R!RGood, NEW t \in Thread, R!Release(Guards(t))
  PROVE  /\ \A j \in 0..3 : H(t, j)' = Null /\ U(t, j)' = Null
         /\ OthersGuard(t) /\ status' = status /\ R!RNext
<1>1. R!RNext
  BY Slots, Constants, R!ReleaseAny
<1>2. /\ \A j \in 0..3 : H(t, j)' = Null /\ U(t, j)' = Null
      /\ \A u \in Thread \ {t}, j \in 0..3 : H(u, j)' = H(u, j) /\ U(u, j)' = U(u, j)
      /\ status' = status
  BY Slots DEF R!Release, R!RGood, R!RTypeOK, H, U
<1>3. \A u \in Thread \ {t}, j \in 0..3, n \in Node : <<u, j>> \in blockers[n] => <<u, j>> \in blockers'[n]
  BY Slots DEF R!Release, R!RGood, R!RTypeOK
<1> QED BY <1>1, <1>2, <1>3 DEF OthersGuard

\* A step that does not touch the slots
LEMMA SlotsKept ==
  ASSUME UNCHANGED <<hz, using>>
  PROVE  \A u, j : H(u, j)' = H(u, j) /\ U(u, j)' = U(u, j)
BY DEF H, U

-----------------------------------------------------------------------------
(* The order of the list: what the kinds of changes do to it *)

\* What is not in the list may change.
LEMMA SortedKept ==
  ASSUME Sorted, kind' = kind, InList' = InList,
         \A c \in InList \cup {HeadCell} : next'[c] = next[c],
         \A n \in InList : key'[n] = key[n]
  PROVE  Sorted'
BY DEF Sorted, Precedes, End

\* A node put between two neighbours whose keys are on either side of its own
LEMMA SortedInsert ==
  ASSUME Sorted, kind' = kind, NEW c \in InList \cup {HeadCell}, NEW n \in Node \ InList, InList' = InList \cup {n},
         next'[n] = next[c], next'[c] = n, \A d \in InList \cup {HeadCell} : d # c => next'[d] = next[d],
         \A m \in InList : key'[m] = key[m],
         \A m \in InList' : key'[m] \in Nat,
         c = HeadCell \/ key[c] < key'[n],
         next[c] \in InList => key'[n] < key[next[c]]
  PROVE  Sorted'
<1> DEFINE P(d, m) == d = HeadCell \/ key'[d] < key'[m]
           L == InList
           e == next[c]
<1>1. /\ n \notin L /\ n # HeadCell /\ L \subseteq Node /\ HeadCell \notin Node /\ End' = End /\ End \notin Node /\ c # n
      /\ \A d, m : Precedes(d, m)' <=> P(d, m)
      /\ \A d \in L \cup {HeadCell}, m \in L : Precedes(d, m) <=> P(d, m)
  BY Constants DEF InList, End, Precedes
<1>2. /\ \A m, d \in L : key'[m] = key'[d] => m = d
      /\ \A d \in L \cup {HeadCell} :
            /\ next[d] \in L \cup {End}
            /\ next[d] \in L => P(d, next[d])
            /\ \A m \in L : P(d, m) => next[d] \in L /\ (next[d] = m \/ key'[next[d]] < key'[m])
  BY <1>1 DEF Sorted
<1>3. P(c, n) /\ (e \in L => key'[n] < key'[e]) /\ e \in L \cup {End}
  BY <1>2 DEF P
<1>4. \A m \in L : key'[m] \in Nat /\ key'[n] \in Nat
  OBVIOUS
<1> HIDE DEF L
<1>5. \A m \in L : key'[m] # key'[n]
  <2> SUFFICES ASSUME NEW m \in L, key'[m] = key'[n] PROVE FALSE
    OBVIOUS
  <2>1. P(c, m)
    BY <1>3 DEF P
  <2>2. e \in L /\ (e = m \/ key'[e] < key'[m])
    BY <1>2, <2>1 DEF L
  <2> QED BY <1>3, <1>4, <2>2
<1>6. \A m, d \in L \cup {n} : key'[m] = key'[d] => m = d
  BY <1>2, <1>5
<1>7. ASSUME NEW d \in L \cup {HeadCell, n}
      PROVE  /\ next'[d] \in L \cup {n, End}
             /\ next'[d] \in L \cup {n} => P(d, next'[d])
             /\ \A m \in L \cup {n} : P(d, m) => next'[d] \in L \cup {n} /\ (next'[d] = m \/ key'[next'[d]] < key'[m])
  <2>1. CASE d = c
    <3>1. \A m \in L : P(c, m) => key'[n] < key'[m]
      <4> SUFFICES ASSUME NEW m \in L, P(c, m) PROVE key'[n] < key'[m]
        OBVIOUS
      <4>1. e \in L /\ (e = m \/ key'[e] < key'[m])
        BY <1>2 DEF L
      <4> QED BY <1>3, <1>4, <4>1
    <3> QED BY <1>3, <2>1, <3>1
  <2>2. CASE d = n
    <3>1. \A m \in L : P(n, m) => e \in L /\ (e = m \/ key'[e] < key'[m])
      <4> SUFFICES ASSUME NEW m \in L, P(n, m) PROVE e \in L /\ (e = m \/ key'[e] < key'[m])
        OBVIOUS
      <4>1. c \in L => key'[c] < key'[m]
        BY <1>1, <1>3, <1>4 DEF P
      <4>2. P(c, m)
        BY <4>1 DEF P, L
      <4> QED BY <1>2, <4>2 DEF L
    <3>2. ~ P(n, n)
      BY <1>1, <1>4 DEF P
    <3>3. e \in L => P(n, e)
      BY <1>3 DEF P
    <3>4. next'[d] = e /\ e \in L \cup {End} /\ e # n
      BY <1>1, <1>3, <2>2
    <3>5. next'[d] \in L \cup {n} => P(d, next'[d])
      BY <2>2, <3>3, <3>4
    <3>6. \A m \in L \cup {n} : P(d, m) => next'[d] \in L /\ (next'[d] = m \/ key'[next'[d]] < key'[m])
      BY <2>2, <3>1, <3>2, <3>4
    <3> HIDE DEF P
    <3> QED BY <3>4, <3>5, <3>6
  <2>3. CASE d # c /\ d # n
    <3>1. d \in L \cup {HeadCell} /\ next'[d] = next[d]
      BY <2>3 DEF L
    <3>2. P(d, n) => next[d] \in L /\ key'[next[d]] < key'[n]
      <4> SUFFICES ASSUME P(d, n) PROVE next[d] \in L /\ key'[next[d]] < key'[n]
        OBVIOUS
      <4>1. CASE c = HeadCell
        <5>1. d \in L /\ d # HeadCell
          BY <1>1, <2>3, <3>1, <4>1 DEF L
        <5>2. P(c, d)
          BY <4>1 DEF P
        <5>3. e \in L /\ (e = d \/ key'[e] < key'[d])
          BY <1>2, <5>1, <5>2 DEF L
        <5>4. key'[d] < key'[n]
          BY <1>1, <5>1 DEF P
        <5> QED BY <1>3, <1>4, <5>1, <5>3, <5>4
      <4>2. CASE c \in L
        <5>1. P(d, c)
          <6> SUFFICES ASSUME d \in L, key'[d] >= key'[c] PROVE FALSE
            BY <1>1, <1>4, <3>1, <4>2 DEF P
          <6>1. key'[d] # key'[c]
            BY <1>2, <2>3, <4>2
          <6>2. P(c, d)
            BY <1>4, <4>2, <6>1 DEF P
          <6>3. e \in L /\ (e = d \/ key'[e] < key'[d])
            BY <1>2, <6>2 DEF L
          <6>4. key'[d] < key'[n]
            BY <1>1 DEF P, L
          <6> QED BY <1>3, <1>4, <6>3, <6>4
        <5>2. next[d] \in L /\ (next[d] = c \/ key'[next[d]] < key'[c])
          BY <1>2, <3>1, <4>2, <5>1
        <5>3. key'[c] < key'[n]
          BY <1>1, <1>3, <4>2 DEF P, L
        <5> QED BY <1>4, <4>2, <5>2, <5>3
      <4> QED BY <4>1, <4>2 DEF L
    <3>3. /\ next[d] \in L \cup {End}
          /\ next[d] \in L => P(d, next[d])
          /\ \A m \in L : P(d, m) => next[d] \in L /\ (next[d] = m \/ key'[next[d]] < key'[m])
      BY <1>2, <3>1
    <3>4. next'[d] = n => n \notin L /\ n # End
      BY <1>1
    <3> HIDE DEF P
    <3> QED BY <3>1, <3>2, <3>3, <3>4
  <2> QED BY <2>1, <2>2, <2>3
<1>8. InList' = L \cup {n}
  BY DEF L
<1> HIDE DEF P
<1> QED BY <1>1, <1>6, <1>7, <1>8 DEF Sorted

\* A node unlinked from the one before it
LEMMA SortedRemove ==
  ASSUME Sorted, kind' = kind, NEW c \in InList \cup {HeadCell}, NEW n \in InList, InList' = InList \ {n},
         next[c] = n, next'[c] = next[n], \A d \in InList \cup {HeadCell} : d # c => next'[d] = next[d],
         \A m \in InList : key'[m] = key[m] /\ key[m] \in Nat
  PROVE  Sorted'
<1> DEFINE L == InList
<1>1. L \subseteq Node /\ HeadCell \notin Node /\ End' = End /\ End \notin Node /\ InList' = L \ {n}
  BY Constants DEF InList, End
<1>2. /\ \A m, d \in L : key[m] = key[d] => m = d
      /\ \A d \in L \cup {HeadCell} :
            /\ next[d] \in L \cup {End}
            /\ next[d] \in L => Precedes(d, next[d])
            /\ \A m \in L : Precedes(d, m) => next[d] \in L /\ (next[d] = m \/ key[next[d]] < key[m])
  BY DEF Sorted
<1>3. \A d \in L \cup {HeadCell}, m \in L : Precedes(d, m)' <=> Precedes(d, m)
  BY <1>1 DEF Precedes
<1>4. \A m \in L : key[m] \in Nat /\ key'[m] = key[m]
  OBVIOUS
<1> HIDE DEF L
<1>5. c # n /\ next[n] # n /\ c \in L \cup {HeadCell} /\ n \in L
  <2>1. n \in L /\ n # HeadCell /\ c \in L \cup {HeadCell}
    BY <1>1 DEF L
  <2>2. ~ Precedes(n, n)
    BY <1>4, <2>1 DEF Precedes
  <2> QED BY <1>2, <2>1, <2>2
<1>6. \A d \in L \cup {HeadCell} : next[d] = n => d = c
  <2> SUFFICES ASSUME NEW d \in L \cup {HeadCell}, next[d] = n, d # c PROVE FALSE
    OBVIOUS
  <2>1. \A x, y \in L \cup {HeadCell} : next[x] = n /\ next[y] = n /\ y \in L => ~ Precedes(x, y)
    <3> SUFFICES ASSUME NEW x \in L \cup {HeadCell}, NEW y \in L, next[x] = n, next[y] = n, Precedes(x, y) PROVE FALSE
      OBVIOUS
    <3>1. n = y \/ key[n] < key[y]
      BY <1>2
    <3>2. Precedes(y, n)
      BY <1>2, <1>5
    <3>3. key[y] < key[n]
      BY <1>1, <3>2 DEF Precedes
    <3> QED BY <1>4, <1>5, <3>1, <3>3
  <2>2. ~ (d \in L /\ c \in L)
    <3> SUFFICES ASSUME d \in L, c \in L PROVE FALSE
      OBVIOUS
    <3>1. key[d] # key[c]
      BY <1>2
    <3> QED BY <1>4, <2>1, <3>1 DEF Precedes
  <2> QED BY <1>5, <2>1, <2>2 DEF Precedes
<1>7. ASSUME NEW d \in (L \ {n}) \cup {HeadCell}
      PROVE  /\ next'[d] \in (L \ {n}) \cup {End}
             /\ next'[d] \in L \ {n} => Precedes(d, next'[d])
             /\ \A m \in L \ {n} : Precedes(d, m) => next'[d] \in L \ {n} /\ (next'[d] = m \/ key[next'[d]] < key[m])
  <2>1. CASE d # c
    <3>1. next'[d] = next[d] /\ next[d] # n
      BY <1>6, <2>1 DEF L
    <3> QED BY <1>2, <3>1
  <2>2. CASE d = c
    <3>1. next'[d] = next[n] /\ next[n] \in (L \ {n}) \cup {End}
      BY <1>2, <1>5, <2>2
    <3>2. Precedes(c, n)
      BY <1>2, <1>5
    <3>3. next[n] \in L => Precedes(c, next[n])
      <4> SUFFICES ASSUME next[n] \in L, c # HeadCell PROVE key[c] < key[next[n]]
        BY DEF Precedes
      <4>1. Precedes(n, next[n]) /\ c \in L /\ n # HeadCell
        BY <1>1, <1>2, <1>5
      <4> QED BY <1>4, <1>5, <3>2, <4>1 DEF Precedes
    <3>4. \A m \in L \ {n} : Precedes(c, m) => Precedes(n, m)
      <4> SUFFICES ASSUME NEW m \in L \ {n}, Precedes(c, m) PROVE Precedes(n, m)
        OBVIOUS
      <4>1. n = m \/ key[n] < key[m]
        BY <1>2, <1>5
      <4> QED BY <4>1 DEF Precedes
    <3> QED BY <1>2, <1>5, <2>2, <3>1, <3>3, <3>4
  <2> QED BY <2>1, <2>2
<1>8. \A d \in (L \ {n}) \cup {HeadCell} :
            /\ next'[d] \in (L \ {n}) \cup {End}
            /\ next'[d] \in L \ {n} => d = HeadCell \/ key'[d] < key'[next'[d]]
            /\ \A m \in L \ {n} : Precedes(d, m)' => next'[d] \in L \ {n} /\ (next'[d] = m \/ key'[next'[d]] < key'[m])
  <2> TAKE d \in (L \ {n}) \cup {HeadCell}
  <2>1. /\ next'[d] \in (L \ {n}) \cup {End}
        /\ next'[d] \in L \ {n} => Precedes(d, next'[d])
        /\ \A m \in L \ {n} : Precedes(d, m) => next'[d] \in L \ {n} /\ (next'[d] = m \/ key[next'[d]] < key[m])
    BY <1>7
  <2>2. \A m \in L : (d = HeadCell \/ key'[d] < key'[m]) <=> Precedes(d, m)
    BY <1>4 DEF Precedes
  <2> QED BY <1>4, <2>1, <2>2 DEF Precedes
<1>9. \A m, d \in L \ {n} : key'[m] = key'[d] => m = d
  BY <1>2, <1>4
<1> QED BY <1>1, <1>8, <1>9 DEF Sorted, Precedes

-----------------------------------------------------------------------------
(* One thread's step and the others *)

\* A step of thread t
Steps(t) == Call(t) \/ ListWorking(t)

\* What a step of t leaves alone of the other threads
Frame(t) ==
    \A u \in Thread \ {t} :
       /\ pc'[u] = pc[u] /\ op'[u] = op[u] /\ arg'[u] = arg[u] /\ ans'[u] = ans[u]
       /\ node'[u] = node[u] /\ prev'[u] = prev[u] /\ cur'[u] = cur[u]
       /\ nxt'[u] = nxt[u] /\ nmark'[u] = nmark[u]

\* The steps of a call of Michael's list, one after the other
MActs(t) ==
    \/ Call(t)
    \/ Search(t) \/ CurGuard(t) \/ CurCheck(t) \/ Next_(t) \/ NextGuard(t)
    \/ NextCheck(t) \/ PrevCheck(t) \/ Step(t) \/ Shift(t) \/ Unlink(t)
    \/ Retire(t, "retire", "shift")
    \/ IsMarked(t) \/ GuardNew(t) \/ LinkNode(t) \/ Functor(t) \/ Mark(t)
    \/ EraseUnlink(t) \/ Retire(t, "erase_retire", "leave")
    \/ Empty(t) \/ Clear(t) \/ ClearRetire(t) \/ Leave(t) \/ FreeNode(t)
\* They are all its steps.
LEMMA MSteps ==
  ASSUME NEW t \in Thread, Steps(t), kind = "michael"
  PROVE  MActs(t)
<1>1. CASE Call(t)
  BY <1>1 DEF MActs
<1>2. CASE ListWorking(t)
  BY <1>2 DEF ListWorking, MichaelWorking, Searching, Changing, Returning, MActs
<1> QED BY <1>1, <1>2 DEF Steps

\* The steps of a call of the lazy list, one after the other
LActs(t) ==
    \/ Call(t)
    \/ LzSearch(t) \/ LzLoad(t) \/ LzGuard(t) \/ LzCheck(t) \/ LzStep(t) \/ LzFind(t) \/ LzFunctor(t)
    \/ LockPred(t) \/ LockCur(t) \/ UnlockCur(t) \/ UnlockPred(t)
    \/ Validate(t) \/ LzLink(t) \/ (\E n \in Node : LzEnsure(t, n))
    \/ LzMark(t) \/ LzUnlink(t) \/ BackLink(t) \/ LzRetire(t)
    \/ Empty(t) \/ Clear(t) \/ ClearRetire(t) \/ Leave(t) \/ FreeNode(t)
\* They are all its steps.
LEMMA LSteps ==
  ASSUME NEW t \in Thread, Steps(t), kind = "lazy"
  PROVE  LActs(t)
<1>1. CASE Call(t)
  BY <1>1 DEF LActs
<1>2. CASE ListWorking(t)
  BY <1>2 DEF ListWorking, LazyWorking, LzSearching, Locking, LzChanging, Returning, LActs
<1> QED BY <1>1, <1>2 DEF Steps

\* A thread does its own work only.
LEMMA FrameStep ==
  ASSUME ListTypeOK, NEW t \in Thread, Steps(t), kind \in Lists
  PROVE  Frame(t)
<1> USE DEF ListTypeOK, Frame, Goto, callVars, posVars, Answer
<1>1. ASSUME Call(t) PROVE Frame(t)
  <2>1. ASSUME NEW o \in KeyOps, NEW k \in Keys, CallKeyed(t, o, k) PROVE Frame(t)
    <3>1. node' = node \/ \E n \in Node : node' = [node EXCEPT ![t] = n]
      BY <2>1 DEF CallKeyed
    <3>2. \A u \in Thread \ {t} : node'[u] = node[u]
      BY <3>1
    <3> QED BY <2>1, <3>2 DEF CallKeyed
  <2>2. CASE CallEmpty(t) \/ CallClear(t)
    BY <2>2 DEF CallEmpty, CallClear
  <2> QED BY <1>1, <2>1, <2>2 DEF Call
<1>2. ASSUME Empty(t) \/ Clear(t) \/ ClearRetire(t) \/ Leave(t) \/ FreeNode(t) PROVE Frame(t)
  <2>1. CASE Empty(t) \/ Clear(t) \/ ClearRetire(t)
    BY <2>1 DEF Empty, Clear, ClearRetire
  <2>2. CASE Leave(t) \/ FreeNode(t)
    BY <2>2 DEF Leave, FreeNode, Idle
  <2> QED BY <1>2, <2>1, <2>2
<1>3. CASE kind = "michael"
  <2> HIDE DEF Frame
  <2>1. CASE Search(t) \/ CurGuard(t) \/ Next_(t) \/ NextGuard(t) \/ NextCheck(t)
    BY <2>1 DEF Search, CurGuard, Next_, NextGuard, NextCheck, Frame
  <2>2. ASSUME NEW found, Ended(t, found) PROVE /\ \A u \in Thread \ {t} : pc'[u] = pc[u] /\ ans'[u] = ans[u]
                                                /\ UNCHANGED <<op, arg, node>>
    BY <2>2 DEF Ended
  <2>3. CASE CurCheck(t)
    BY <2>2, <2>3 DEF CurCheck, Frame
  <2>4. CASE PrevCheck(t)
    BY <2>2, <2>4 DEF PrevCheck, Frame
  <2>5. CASE Shift(t)
    BY <2>2, <2>5 DEF Shift, Frame
  <2>6. CASE Step(t) \/ Unlink(t) \/ EraseUnlink(t) \/ Retire(t, "retire", "shift") \/ Retire(t, "erase_retire", "leave")
    BY <2>6 DEF Step, Unlink, EraseUnlink, PhysicalDeletion, Retire, Frame
  <2>7. CASE IsMarked(t) \/ GuardNew(t) \/ LinkNode(t) \/ Functor(t) \/ Mark(t)
    BY <2>7 DEF IsMarked, GuardNew, LinkNode, Functor, Mark, Frame
  <2> QED BY <1>1, <1>2, <1>3, <2>1, <2>3, <2>4, <2>5, <2>6, <2>7, MSteps DEF MActs
<1>4. CASE kind = "lazy"
  <2> HIDE DEF Frame
  <2>1. CASE LzSearch(t) \/ LzLoad(t) \/ LzGuard(t) \/ LzCheck(t) \/ LzStep(t) \/ LzFind(t) \/ LzFunctor(t)
    BY <2>1 DEF LzSearch, LzLoad, LzGuard, LzCheck, LzStep, LzFind, LzFunctor, Frame
  <2>2. CASE LockPred(t) \/ LockCur(t) \/ UnlockCur(t) \/ UnlockPred(t)
    BY <2>2 DEF LockPred, LockCur, UnlockCur, UnlockPred, Acquire, Unlock, Frame
  <2>3. CASE Validate(t)
    BY <2>3 DEF Validate, Frame
  <2>4. CASE LzLink(t) \/ (\E n \in Node : LzEnsure(t, n)) \/ LzMark(t) \/ LzUnlink(t) \/ BackLink(t) \/ LzRetire(t)
    BY <2>4 DEF LzLink, LzEnsure, LzLinked, LzMark, LzUnlink, BackLink, LzRetire, Frame
  <2> QED BY <1>1, <1>2, <1>4, <2>1, <2>2, <2>3, <2>4, LSteps DEF LActs
<1> QED BY <1>3, <1>4 DEF Lists

\* The new nodes, as far as a step of t concerns them
LEMMA NewStep ==
  ASSUME NEW t \in Thread, Frame(t)
  PROVE  /\ (Making(t)' <=> Making(t)) /\ (Making(t) => node'[t] = node[t]) => New' = New
         /\ ~ Making(t) /\ Making(t)' => New' = New \cup {node'[t]}
         /\ News /\ Making(t) /\ ~ Making(t)' => New' = New \ {node[t]}
         /\ \A u \in Thread \ {t} : (Making(u)' <=> Making(u)) /\ node'[u] = node[u]
<1>1. \A u \in Thread \ {t} : (Making(u)' <=> Making(u)) /\ node'[u] = node[u]
  BY DEF Frame, Making
<1>2. (Making(t)' <=> Making(t)) /\ (Making(t) => node'[t] = node[t]) => New' = New
  BY <1>1 DEF New
<1>3. ~ Making(t) /\ Making(t)' => New' = New \cup {node'[t]}
  BY <1>1 DEF New
<1>4. News /\ Making(t) /\ ~ Making(t)' => New' = New \ {node[t]}
  BY <1>1 DEF New, News
<1> QED BY <1>1, <1>2, <1>3, <1>4

-----------------------------------------------------------------------------
(* What a step may do to the nodes: one lemma for each way to change them *)

\* What a thread that uses node n can rely on during a step of another
Kept(n) ==
    /\ status'[n] # "free" /\ n \notin New' /\ key'[n] = key[n]
    /\ marked[n] => marked'[n] /\ (kind = "michael" => next'[n] = next[n])
    /\ \/ status'[n] = status[n]
       \/ status[n] = "linked" /\ status'[n] = "unlinked"
       \/ status[n] = "unlinked" /\ status'[n] = "retired"
\* Nodes that more than their creator may know
InUse(n) == status[n] # "free" /\ n \notin New

\* The list before and after: in order, with the right marks, and the nodes in use, but for
\* those of A, in use as before
Goes(A) == Sorted' /\ Marks' /\ \A n \in Node \ A : InUse(n) => Kept(n)

\* What the common invariant says of the list, for those who only read it
LEMMA Facts ==
  ASSUME Common, kind \in Lists
  PROVE  /\ InList \subseteq Node /\ New \subseteq Node /\ HeadCell \notin InList /\ End \notin InList
         /\ HeadCell \in Cell /\ TailCell \in Cell /\ Node \subseteq Cell /\ ~ marked[HeadCell]
         /\ \A n \in InList : key[n] \in Nat /\ key[n] \in Keys /\ status[n] = "linked" /\ n \notin New
         /\ \A n \in New : status[n] = "linked"
         /\ next \in [Cell -> Pointer] /\ marked \in [Cell -> BOOLEAN]
         /\ key \in [Node -> Keys \cup {NoKey}] /\ status \in [Node -> R!Life]
         /\ items \subseteq InList
         /\ \A c \in InList \cup {HeadCell} : next[c] \in InList \cup {End}
         /\ R!RTypeOK
<1>1. /\ next \in [Cell -> Pointer] /\ marked \in [Cell -> BOOLEAN]
      /\ key \in [Node -> Keys \cup {NoKey}] /\ status \in [Node -> R!Life] /\ R!RTypeOK
  BY DEF Common, ListTypeOK, R!RTypeOK
<1>2. InList \subseteq Node /\ New \subseteq Node /\ HeadCell \notin InList /\ End \notin InList
  BY Constants DEF InList, New, Making, End
<1>3. \A n \in InList : key[n] \in Nat /\ key[n] \in Keys /\ status[n] = "linked" /\ n \notin New
  BY <1>2, Constants DEF Common, Marks, InList
<1>4. \A n \in New : status[n] = "linked"
  BY DEF Common, News, New
<1>5. /\ \A c \in InList \cup {HeadCell} : next[c] \in InList \cup {End}
      /\ items \subseteq InList /\ ~ marked[HeadCell]
  BY DEF Common, Sorted, Marks
<1> QED BY <1>1, <1>2, <1>3, <1>4, <1>5 DEF Cell

\* A step that changes no node
Quiet == UNCHANGED <<kind, next, marked, key, status, items>> /\ New' = New

\* It leaves the list as it was.
LEMMA QuietGoes ==
  ASSUME Common, kind \in Lists, Quiet
  PROVE  Goes({})
<1>1. InList' = InList
  BY DEF InList, Quiet
<1>2. Sorted'
  BY <1>1, SortedKept DEF Common, Quiet
<1>3. Marks'
  BY <1>1 DEF Common, Marks, Gone, Quiet
<1> QED BY <1>2, <1>3 DEF Goes, InUse, Kept, Quiet

\* A node is allocated.
LEMMA AllocateGoes ==
  ASSUME Common, kind \in Lists, NEW n \in Node, NEW k \in Keys, status[n] = "free",
         status' = [status EXCEPT ![n] = "linked"], key' = [key EXCEPT ![n] = k], New' = New \cup {n},
         UNCHANGED <<kind, next, marked, items>>
  PROVE  Goes({})
<1>0. n \notin InList /\ n \notin New /\ ~ marked[n]
  BY Facts DEF Common, Marks
<1>1. InList' = InList
  BY <1>0, Facts DEF InList
<1>2. Sorted'
  BY <1>0, <1>1, Facts, SortedKept DEF Common
<1>3. Marks'
  BY <1>0, <1>1, Facts DEF Common, Marks, Gone
<1>4. \A m \in Node : InUse(m) => Kept(m)
  BY <1>0, Facts DEF InUse, Kept
<1> QED BY <1>2, <1>3, <1>4 DEF Goes

\* A node is linked, or allocated and linked.
LEMMA LinkGoes ==
  ASSUME Common, kind \in Lists, NEW c \in InList \cup {HeadCell}, NEW n \in Node \ InList, NEW k \in Keys,
         ~ marked[n], ~ Gone(n), ~ marked[c], c = HeadCell \/ key[c] < k, next[c] \in InList => k < key[next[c]],
         status' = [status EXCEPT ![n] = "linked"], key' = [key EXCEPT ![n] = k],
         next' = [next EXCEPT ![n] = next[c], ![c] = n], items' = items \cup {n}, New' = New \ {n},
         UNCHANGED <<kind, marked>>, InUse(n) => FALSE
  PROVE  Goes({}) /\ InList' = InList \cup {n}
<1>1. InList' = InList \cup {n}
  BY Facts DEF InList
<1>2. /\ next'[n] = next[c] /\ next'[c] = n
      /\ \A d \in InList \cup {HeadCell} : d # c => next'[d] = next[d]
  <2>1. n # c /\ n \in Cell /\ c \in Cell /\ n # HeadCell
    BY Facts, Constants
  <2>2. \A d \in InList \cup {HeadCell} : d # n /\ d \in Cell
    BY Facts, Constants
  <2>3. next \in [Cell -> Pointer]
    BY Facts
  <2> QED BY <2>1, <2>2, <2>3
<1>3. /\ \A m \in InList : key'[m] = key[m] /\ key'[m] \in Nat
      /\ key'[n] = k /\ k \in Nat
  BY Facts, Constants
<1>4. Sorted'
  <2>1. Sorted /\ kind' = kind
    BY DEF Common
  <2>2. \A m \in InList' : key'[m] \in Nat
    BY <1>1, <1>3
  <2>3. c = HeadCell \/ key[c] < key'[n]
    BY <1>3
  <2>4. next[c] \in InList => key'[n] < key[next[c]]
    BY <1>3
  <2>5. \A m \in InList : key'[m] = key[m]
    BY <1>3
  <2> QED BY <1>1, <1>2, <2>1, <2>2, <2>3, <2>4, <2>5, SortedInsert
<1>5. Marks'
  <2>1. \A m \in Node : status'[m] # "free" => key'[m] \in Keys
    BY Facts DEF Common, Marks
  <2>2. \A m \in Node : Gone(m)' => marked'[m]
    BY Facts DEF Common, Marks, Gone
  <2>3. \A m \in Node : status'[m] = "free" \/ m \in New' => ~ marked'[m]
    BY Facts DEF Common, Marks
  <2>4. items' = {m \in InList' : ~ marked'[m]}
    BY <1>1 DEF Common, Marks
  <2>5. ~ marked'[HeadCell] /\ ~ marked'[TailCell]
    BY DEF Common, Marks
  <2> QED BY <2>1, <2>2, <2>3, <2>4, <2>5 DEF Marks
<1>6. \A m \in Node : InUse(m) => Kept(m)
  <2> SUFFICES ASSUME NEW m \in Node, InUse(m), m # n PROVE Kept(m)
    OBVIOUS
  <2>1. status'[m] = status[m] /\ key'[m] = key[m] /\ m \notin New' /\ (m # c => next'[m] = next[m])
    BY Facts DEF InUse
  <2> QED BY <2>1 DEF InUse, Kept
<1> QED BY <1>1, <1>4, <1>5, <1>6 DEF Goes

\* A node is marked.
LEMMA MarkGoes ==
  ASSUME Common, kind \in Lists, NEW n \in InList, ~ marked[n],
         marked' = [marked EXCEPT ![n] = TRUE], items' = items \ {n}, New' = New,
         UNCHANGED <<kind, next, key, status>>
  PROVE  Goes({})
<1>1. InList' = InList
  BY DEF InList
<1>2. Sorted'
  BY <1>1, SortedKept DEF Common
<1>3. Marks'
  BY <1>1, Facts, Constants DEF Common, Marks, Gone
<1>4. \A m \in Node : InUse(m) => Kept(m)
  BY Facts DEF InUse, Kept
<1> QED BY <1>2, <1>3, <1>4 DEF Goes

\* A marked node is unlinked, or a node marked and unlinked.
LEMMA RemoveGoes ==
  ASSUME Common, kind \in Lists, NEW c \in InList \cup {HeadCell}, NEW n \in InList, next[c] = n, ~ marked[c],
         next' = [next EXCEPT ![c] = next[n]], status' = [status EXCEPT ![n] = "unlinked"],
         marked' = [marked EXCEPT ![n] = TRUE], items' = items \ {n}, New' = New,
         UNCHANGED <<kind, key>>
  PROVE  Goes({}) /\ InList' = InList \ {n}
<1>1. InList' = InList \ {n}
  BY Facts DEF InList
<1>2. /\ next'[c] = next[n]
      /\ \A d \in InList \cup {HeadCell} : d # c => next'[d] = next[d]
  BY Facts
<1>3. Sorted'
  BY <1>1, <1>2, Facts, SortedRemove DEF Common
<1>4. Marks'
  BY <1>1, Facts, Constants DEF Common, Marks, Gone
<1>5. \A m \in Node : InUse(m) => Kept(m)
  <2> SUFFICES ASSUME NEW m \in Node, InUse(m) PROVE Kept(m)
    OBVIOUS
  <2>1. /\ key'[m] = key[m] /\ m \notin New' /\ (m # c => next'[m] = next[m]) /\ (marked[m] => marked'[m])
        /\ status'[m] = IF m = n THEN "unlinked" ELSE status[m]
    BY Facts DEF InUse
  <2>2. status[n] = "linked"
    BY Facts
  <2> QED BY <2>1, <2>2 DEF InUse, Kept
<1> QED BY <1>1, <1>3, <1>4, <1>5 DEF Goes

\* A node is handed to the reclaimer.
LEMMA HandGoes ==
  ASSUME Common, kind \in Lists, NEW n \in Node, status[n] = "unlinked",
         status' = [status EXCEPT ![n] = "retired"], New' = New,
         UNCHANGED <<kind, next, marked, key, items>>
  PROVE  Goes({})
<1>1. InList' = InList
  BY Facts DEF InList
<1>2. Sorted'
  BY <1>1, SortedKept DEF Common
<1>3. Marks'
  BY <1>1, Facts DEF Common, Marks, Gone
<1>4. \A m \in Node : InUse(m) => Kept(m)
  BY Facts DEF InUse, Kept
<1> QED BY <1>2, <1>3, <1>4 DEF Goes

\* The link of a node that is not in the list is set.
LEMMA SetLinkGoes ==
  ASSUME Common, kind \in Lists, NEW n \in Node \ InList, NEW p, kind = "michael" => ~ marked[n],
         next' = [next EXCEPT ![n] = p], New' = New,
         UNCHANGED <<kind, marked, key, status, items>>
  PROVE  Goes({})
<1>1. InList' = InList
  BY DEF InList
<1>2. Sorted'
  <2>1. \A c \in InList \cup {HeadCell} : next'[c] = next[c]
    BY Facts, Constants
  <2> QED BY <1>1, <2>1, SortedKept DEF Common
<1>3. Marks'
  BY <1>1 DEF Common, Marks, Gone
<1>4. \A m \in Node : InUse(m) => Kept(m)
  BY Facts DEF InUse, Kept
<1> QED BY <1>2, <1>3, <1>4 DEF Goes

\* A node is freed, by its creator or by the reclaimer.
LEMMA ForgetGoes ==
  ASSUME Common, kind \in Lists, NEW n \in Node, n \in New \/ status[n] = "retired", Forget(n),
         status' = [m \in Node |-> IF m = n THEN "free" ELSE status[m]], New' = New \ {n},
         UNCHANGED <<kind, items>>
  PROVE  Goes({n})
<1>0. n \notin InList /\ (n \notin New => New' = New)
  BY Facts DEF InList
<1>1. InList' = InList
  BY <1>0, Facts DEF InList
<1>2. Sorted'
  <2>1. \A c \in InList \cup {HeadCell} : next'[c] = next[c]
    BY <1>0, Facts, Constants DEF Forget
  <2>2. \A m \in InList : key'[m] = key[m]
    BY <1>0, Facts DEF Forget
  <2> QED BY <1>1, <2>1, <2>2, SortedKept DEF Common
<1>3. Marks'
  <2>1. \A m \in Node : m # n => marked'[m] = marked[m] /\ status'[m] = status[m] /\ key'[m] = key[m]
    BY Facts DEF Forget
  <2>2. ~ marked'[n] /\ status'[n] = "free" /\ \A c \in Cell : marked'[c] => marked[c]
    BY Facts DEF Forget
  <2>3. items' = {m \in InList' : ~ marked'[m]}
    <3>1. \A m \in InList : m # n /\ m \in Node
      BY <1>0, Facts
    <3> QED BY <1>1, <2>1, <3>1 DEF Common, Marks
  <2> QED BY <2>1, <2>2, <2>3, Facts DEF Common, Marks, Gone
<1>4. \A m \in Node \ {n} : InUse(m) => Kept(m)
  BY Facts DEF InUse, Kept, Forget
<1> QED BY <1>2, <1>3, <1>4 DEF Goes

-----------------------------------------------------------------------------
(* What a step of either list owes to the others *)

\* A node that is handed over stays blocked by the slots that hold it.
Handed ==
    \A n \in Node : \A s \in Slot :
        status[n] = "unlinked" /\ status'[n] = "retired" /\ hz[s] = n => s \in blockers'[n]
\* Only new nodes and those nobody can hold are freed.
Freed(A) ==
    /\ A \subseteq Node
    /\ \A n \in A : status'[n] = "free" /\ (n \in New \/ (status[n] = "retired" /\ blockers[n] = {}))
Contract == R!RNext \/ UNCHANGED R!rvars
\* What the other threads, the reclaimer and the invariant of the nodes need of a step of t
Does(t) ==
    /\ OthersGuard(t) /\ Handed /\ Contract
    /\ \E A \in SUBSET Node : Goes(A) /\ Freed(A)
    /\ News' /\ Taken'

\* The new nodes stay new, and out of reach.
LEMMA NewsGoes ==
  ASSUME Common, kind \in Lists, NEW t \in Thread, Frame(t), OthersGuard(t),
         \A n \in New : (Making(t) => n # node[t]) => status'[n] = "linked" /\ key'[n] = key[n],
         Making(t)' => \/ /\ Making(t) /\ node'[t] = node[t] /\ arg'[t] = arg[t]
                          /\ status'[node[t]] = "linked" /\ key'[node[t]] = key[node[t]]
                       \/ status[node'[t]] = "free" /\ status'[node'[t]] = "linked" /\ key'[node'[t]] = arg'[t],
         \A j \in 0..3 : U(t, j)' \in Node => U(t, j)' \notin New'
  PROVE  News'
<1> USE DEF Common
<1>1. \A u \in Thread \ {t} : /\ (Making(u)' <=> Making(u)) /\ node'[u] = node[u] /\ arg'[u] = arg[u]
                              /\ Making(u) => node[u] \in New
  BY DEF Frame, Making, New
<1>2. \A u \in Thread \ {t} : Making(u) => /\ status[node[u]] = "linked" /\ status'[node[u]] = "linked"
                                           /\ key'[node[u]] = arg[u]
  BY <1>1 DEF News
<1>3. Making(t)' => status'[node'[t]] = "linked" /\ key'[node'[t]] = arg'[t]
  BY DEF News
<1>4. \A u \in Thread \ {t} : Making(u) /\ Making(t)' => node[u] # node'[t]
  BY <1>1, <1>2 DEF News
<1>5. \A u \in Thread : Making(u)' => node'[u] \in Node /\ node'[u] \in New'
  BY DEF Making, New
<1>6. ASSUME NEW u \in Thread, Making(u)', NEW s \in Slot PROVE using'[s] # node'[u]
  <2>1. PICK w \in Thread, i \in 0..3 : s = <<w, i>>
    BY Slots
  <2>2. CASE w = t
    BY <1>5, <1>6, <2>1, <2>2 DEF U
  <2>3. CASE w # t /\ u # t
    <3>1. using'[s] = using[s]
      BY <2>1, <2>3 DEF U, OthersGuard
    <3>2. Making(u) => using[s] # node[u]
      BY <2>1, Slots DEF News
    <3> QED BY <1>1, <1>6, <2>3, <3>1, <3>2
  <2>4. CASE w # t /\ u = t
    <3>1. using'[s] = using[s]
      BY <2>1, <2>4 DEF U, OthersGuard
    <3>2. Making(t) /\ node'[t] = node[t] => using[s] # node[t]
      BY <2>1, Slots DEF News
    <3>3. using[s] \in Node => status[using[s]] # "free"
      BY R!UsedIsSafe
    <3> QED BY <1>5, <1>6, <2>4, <3>1, <3>2, <3>3
  <2> QED BY <2>2, <2>3, <2>4
<1> QED BY <1>1, <1>2, <1>3, <1>4, <1>6 DEF News

\* The unlinked nodes stay in the hands of those who unlinked them.
LEMMA TakenGoes ==
  ASSUME Common, kind \in Lists, NEW t \in Thread, Frame(t), kind' = kind,
         \A n \in Node : status[n] = "unlinked" =>
            status'[n] = "unlinked" \/ (Taking(t) /\ ~ Taking(t)' /\ n = cur[t]),
         Taking(t)' => \/ Taking(t) /\ cur'[t] = cur[t]
                       \/ /\ cur'[t] \in Node /\ status[cur'[t]] = "linked"
                          /\ status'[cur'[t]] = "unlinked"
  PROVE  Taken'
<1> USE DEF Common
<1>1. \A u \in Thread \ {t} : (Taking(u)' <=> Taking(u)) /\ cur'[u] = cur[u]
  BY DEF Frame, Taking
<1>2. \A u \in Thread \ {t} : Taking(u) => cur[u] \in Node /\ status'[cur[u]] = "unlinked"
  BY DEF Taken
<1>3. Taking(t)' => cur'[t] \in Node /\ status'[cur'[t]] = "unlinked"
  BY DEF Taken
<1>4. \A u \in Thread \ {t} : Taking(u) /\ Taking(t)' => cur[u] # cur'[t]
  BY DEF Taken
<1> HIDE DEF Taking
<1> QED BY <1>1, <1>2, <1>3, <1>4 DEF Taken

\* Guards are left alone by most steps.
LEMMA GuardsKept ==
  ASSUME UNCHANGED reclaimVars, NEW t \in Thread
  PROVE  /\ OthersGuard(t) /\ Handed /\ UNCHANGED R!rvars
         /\ \A u, j : H(u, j)' = H(u, j) /\ U(u, j)' = U(u, j)
<1>1. UNCHANGED <<status, hz, using, blockers>>
  BY DEF reclaimVars
<1> QED BY <1>1 DEF OthersGuard, Handed, R!rvars, H, U

\* A node in use is not new.
LEMMA UsedNotNew ==
  ASSUME Common, NEW t \in Thread, NEW j \in 0..3, U(t, j) \in Node
  PROVE  U(t, j) \notin New /\ InUse(U(t, j)) /\ H(t, j) = U(t, j)
<1>1. U(t, j) \notin New
  BY Slots DEF Common, News, New, U
<1>2. status[U(t, j)] # "free" /\ H(t, j) = U(t, j)
  BY Slots, R!UsedIsSafe DEF Common, U, H
<1> QED BY <1>1, <1>2 DEF InUse

\* A step that changes the guards of t at most.
LEMMA QuietDoes ==
  ASSUME Common, kind \in Lists, NEW t \in Thread, Frame(t), OthersGuard(t), Contract,
         UNCHANGED <<kind, next, marked, key, status, items>>,
         Making(t)' <=> Making(t), Making(t) => node'[t] = node[t] /\ arg'[t] = arg[t],
         Taking(t)' <=> Taking(t), Taking(t) => cur'[t] = cur[t],
         \A j \in 0..3 : U(t, j)' \in Node => U(t, j)' \notin New
  PROVE  Does(t)
<1>1. New' = New
  BY NewStep
<1>2. Goes({}) /\ Freed({})
  BY <1>1, QuietGoes DEF Quiet, Freed
<1>3. News'
  <2>1. \A n \in New : status'[n] = "linked" /\ key'[n] = key[n]
    BY DEF New, News, Common
  <2>2. Making(t) => status'[node[t]] = "linked"
    BY DEF News, Common
  <2> QED BY <1>1, <2>1, <2>2, NewsGoes
<1>4. Taken'
  <2>1. UNCHANGED status
    OBVIOUS
  <2>2. \A n \in Node : status[n] = "unlinked" => status'[n] = "unlinked"
    BY <2>1
  <2> QED BY <2>2, TakenGoes
<1>5. Handed
  BY DEF Handed
<1> QED BY <1>2, <1>3, <1>4, <1>5 DEF Does

-----------------------------------------------------------------------------
(* The steps that both lists have *)

\* A call allocates its node, or touches none.
LEMMA CallDoes ==
  ASSUME Common, kind \in Lists, NEW t \in Thread, Frame(t), kind' = kind, Call(t)
  PROVE  Does(t)
<1>1. pc[t] = "idle" /\ op[t] = "none" /\ ans[t] = "none" /\ node[t] = Null /\ ~ Making(t) /\ ~ Taking(t)
  BY Constants DEF Call, Common, Control, AllocatesFirst, Inserts, Making, Taking
<1>2. ASSUME NEW o \in KeyOps, NEW k \in Keys, CallKeyed(t, o, k) PROVE Does(t)
  <2>1. pc'[t] = "search" /\ ans' = ans /\ arg'[t] = k /\ ~ Taking(t)'
    BY <1>2 DEF CallKeyed, Goto, Common, ListTypeOK, Taking
  <2>2. CASE ~ AllocatesFirst(o)
    <3>1. UNCHANGED <<kind, next, marked, key, status, items>> /\ UNCHANGED reclaimVars /\ node' = node
      BY <1>2, <2>2 DEF CallKeyed, reclaimVars
    <3>2. ~ Making(t)'
      BY <1>1, <3>1, Constants DEF Making
    <3>3. \A j \in 0..3 : U(t, j)' \in Node => U(t, j)' \notin New
      BY <3>1, GuardsKept, UsedNotNew
    <3> QED BY <1>1, <2>1, <3>1, <3>2, <3>3, GuardsKept, QuietDoes DEF Contract
  <2>3. CASE AllocatesFirst(o)
    <3>1. PICK n \in Node : /\ R!Allocate(n) /\ key' = [key EXCEPT ![n] = k]
                            /\ node' = [node EXCEPT ![t] = n]
      BY <1>2, <2>3 DEF CallKeyed
    <3>2. /\ status[n] = "free" /\ status' = [status EXCEPT ![n] = "linked"]
          /\ UNCHANGED <<hz, using, blockers>> /\ UNCHANGED <<kind, next, marked, items>>
          /\ Contract
      BY <1>2, <3>1 DEF R!Allocate, R!SetStatus, CallKeyed, Contract, R!RNext
    <3>3. node'[t] = n /\ Making(t)' /\ New' = New \cup {n}
      BY <1>1, <2>1, <3>1, NewStep DEF Making, Common, ListTypeOK
    <3>4. Goes({}) /\ Freed({})
      BY <3>1, <3>2, <3>3, AllocateGoes DEF Freed
    <3>5. OthersGuard(t) /\ \A j : U(t, j)' = U(t, j)
      BY <3>2 DEF OthersGuard, H, U
    <3>6. status'[n] = "linked" /\ key'[n] = k /\ \A m \in Node : m # n => status'[m] = status[m] /\ key'[m] = key[m]
      BY <3>1, <3>2, Facts
    <3>7. \A m \in New : m \in Node /\ m # n /\ status[m] = "linked"
      BY <3>2, Facts
    <3>8. \A j \in 0..3 : U(t, j)' \in Node => U(t, j)' \notin New'
      BY <3>2, <3>3, <3>5, UsedNotNew DEF InUse
    <3>9. News'
      BY <1>1, <2>1, <3>2, <3>3, <3>5, <3>6, <3>7, <3>8, NewsGoes
    <3>10. Taken'
      BY <1>1, <2>1, <3>2, <3>6, TakenGoes
    <3>11. Handed
      BY <3>2, <3>6 DEF Handed
    <3> QED BY <3>2, <3>4, <3>5, <3>9, <3>10, <3>11 DEF Does
  <2> QED BY <2>2, <2>3
<1>3. CASE CallEmpty(t) \/ CallClear(t)
  <2>1. /\ UNCHANGED <<kind, next, marked, key, status, items>> /\ UNCHANGED reclaimVars /\ node' = node
        /\ pc'[t] \in {"empty", "clear"} /\ ans' = ans
    BY <1>3 DEF CallEmpty, CallClear, reclaimVars, listVars, Goto, Common, ListTypeOK
  <2>2. ~ Making(t)' /\ ~ Taking(t)'
    BY <1>1, <2>1, Constants DEF Making, Taking
  <2>3. \A j \in 0..3 : U(t, j)' \in Node => U(t, j)' \notin New
    BY <2>1, GuardsKept, UsedNotNew
  <2> QED BY <1>1, <2>1, <2>2, <2>3, GuardsKept, QuietDoes DEF Contract
<1> QED BY <1>2, <1>3 DEF Call

\* empty only reads.
LEMMA EmptyDoes ==
  ASSUME Common, kind \in Lists, NEW t \in Thread, Frame(t), kind' = kind, Empty(t)
  PROVE  Does(t)
<1>1. op[t] = "empty" /\ node[t] = Null /\ ~ Making(t) /\ ~ Taking(t)
  BY Constants DEF Empty, Common, Control, AllocatesFirst, Inserts, Making, Taking, KeyOps, ListTypeOK, Ops
<1>2. /\ UNCHANGED <<kind, next, marked, key, status, items>> /\ UNCHANGED reclaimVars /\ node' = node /\ op' = op
      /\ pc'[t] = "leave"
  BY DEF Empty, reclaimVars, listVars, Goto, Answer, Common, ListTypeOK
<1>3. ~ Making(t)' /\ ~ Taking(t)'
  BY <1>1, <1>2, Constants DEF Making, Taking
<1>4. \A j \in 0..3 : U(t, j)' \in Node => U(t, j)' \notin New
  BY <1>2, GuardsKept, UsedNotNew
<1> QED BY <1>1, <1>2, <1>3, <1>4, GuardsKept, QuietDoes DEF Contract

\* A node unlinked by t
LEMMA UnlinkDoes ==
  ASSUME Common, kind \in Lists, NEW t \in Thread, Frame(t),
         NEW c \in InList \cup {HeadCell}, NEW n \in InList, next[c] = n, ~ marked[c],
         next' = [next EXCEPT ![c] = next[n]], R!SetStatus(n, "unlinked"),
         marked' = [marked EXCEPT ![n] = TRUE], items' = items \ {n}, UNCHANGED <<kind, key>>,
         Making(t)' <=> Making(t), Making(t) => node'[t] = node[t] /\ arg'[t] = arg[t],
         ~ Taking(t), Taking(t)', cur'[t] = n
  PROVE  Does(t) /\ InList' = InList \ {n}
<1>1. n \in Node /\ status[n] = "linked" /\ n \notin New
  BY Facts
<1>2. /\ status' = [status EXCEPT ![n] = "unlinked"] /\ UNCHANGED <<hz, using, blockers>> /\ Contract
  BY <1>1 DEF R!SetStatus, Contract, R!RNext, R!Remove
<1>3. New' = New
  BY NewStep
<1>4. Goes({}) /\ Freed({}) /\ InList' = InList \ {n}
  BY <1>2, <1>3, RemoveGoes DEF Freed
<1>5. OthersGuard(t) /\ \A j : U(t, j)' = U(t, j)
  BY <1>2 DEF OthersGuard, H, U
<1>6. status'[n] = "unlinked" /\ \A m \in Node : m # n => status'[m] = status[m]
  BY <1>1, <1>2, Facts
<1>7. \A m \in New : m \in Node /\ m # n /\ status'[m] = "linked"
  BY <1>1, <1>6, Facts
<1>8. Making(t) => node[t] \in New
  BY DEF Making, New
<1>9. News'
  <2>1. \A j \in 0..3 : U(t, j)' \in Node => U(t, j)' \notin New'
    BY <1>3, <1>5, UsedNotNew
  <2>2. \A m \in New : status'[m] = "linked" /\ key'[m] = key[m]
    BY <1>7
  <2> QED BY <1>5, <1>8, <2>1, <2>2, NewsGoes
<1>10. Taken'
  <2>1. \A m \in Node : status[m] = "unlinked" => status'[m] = "unlinked"
    BY <1>1, <1>6
  <2> QED BY <1>1, <1>6, <2>1, TakenGoes
<1>11. Handed
  BY <1>1, <1>6 DEF Handed
<1> QED BY <1>2, <1>4, <1>5, <1>9, <1>10, <1>11 DEF Does

\* A node handed over by t
LEMMA HandDoes ==
  ASSUME Common, kind \in Lists, NEW t \in Thread, Frame(t), Taking(t), R!HandOver(cur[t]),
         UNCHANGED <<kind, next, marked, key, items>>,
         Making(t)' <=> Making(t), Making(t) => node'[t] = node[t] /\ arg'[t] = arg[t], ~ Taking(t)'
  PROVE  Does(t)
<1> DEFINE n == cur[t]
<1>1. n \in Node /\ status[n] = "unlinked"
  BY DEF Common, Taken
<1>2. /\ status' = [status EXCEPT ![n] = "retired"] /\ UNCHANGED <<hz, using>>
      /\ blockers' = [blockers EXCEPT ![n] = R!Holders(n)] /\ Contract
  BY <1>1 DEF R!HandOver, Contract, R!RNext, R!Surrender
<1> HIDE DEF n
<1>3. New' = New
  BY NewStep
<1>4. Goes({}) /\ Freed({})
  BY <1>1, <1>2, <1>3, HandGoes DEF Freed
<1>5. status'[n] = "retired" /\ \A m \in Node : m # n => status'[m] = status[m]
  BY <1>1, <1>2, Facts
<1>6. blockers[n] = {}
  BY <1>1 DEF Common, R!RGood, R!Unblocked
<1>7. OthersGuard(t) /\ \A j : U(t, j)' = U(t, j)
  <2>1. \A m \in Node : blockers[m] \subseteq blockers'[m]
    BY <1>2, <1>6 DEF Common, R!RGood, R!RTypeOK
  <2> QED BY <1>2, <2>1 DEF OthersGuard, H, U
<1>8. \A m \in New : m \in Node /\ m # n /\ status'[m] = "linked"
  BY <1>1, <1>5, Facts
<1>9. Making(t) => node[t] \in New
  BY DEF Making, New
<1>10. News'
  <2>1. \A j \in 0..3 : U(t, j)' \in Node => U(t, j)' \notin New'
    BY <1>3, <1>7, UsedNotNew
  <2>2. \A m \in New : status'[m] = "linked" /\ key'[m] = key[m]
    BY <1>8
  <2> QED BY <1>7, <1>9, <2>1, <2>2, NewsGoes
<1>11. Taken'
  <2>1. \A m \in Node : status[m] = "unlinked" => status'[m] = "unlinked" \/ m = n
    BY <1>5
  <2> QED BY <2>1, TakenGoes DEF n
<1>12. Handed
  <2>1. \A m \in Node : status[m] = "unlinked" /\ status'[m] = "retired" => m = n
    BY <1>5
  <2>2. blockers'[n] = R!Holders(n)
    BY <1>1, <1>2 DEF Common, R!RGood, R!RTypeOK
  <2> QED BY <2>1, <2>2 DEF Handed, R!Holders
<1> QED BY <1>2, <1>4, <1>7, <1>10, <1>11, <1>12 DEF Does

\* clear unlinks the first node.
LEMMA ClearDoes ==
  ASSUME Common, kind \in Lists, NEW t \in Thread, Frame(t), kind' = kind, Clear(t)
  PROVE  Does(t)
<1>1. op[t] = "clear" /\ node[t] = Null /\ ~ Making(t) /\ ~ Taking(t)
  BY Constants DEF Clear, Common, Control, AllocatesFirst, Inserts, Making, Taking, KeyOps, ListTypeOK, Ops
<1>2. next[HeadCell] \in InList \cup {End} /\ End \notin InList
  BY Facts
<1>3. CASE next[HeadCell] = End
  <2>1. /\ UNCHANGED <<next, marked, key, status, items>> /\ UNCHANGED reclaimVars /\ node' = node /\ pc'[t] = "leave"
        /\ op' = op
    BY <1>3 DEF Clear, reclaimVars, listVars, Goto, Answer, Common, ListTypeOK
  <2>2. ~ Making(t)' /\ ~ Taking(t)'
    BY <1>1, <2>1, Constants DEF Making, Taking
  <2>3. \A j \in 0..3 : U(t, j)' \in Node => U(t, j)' \notin New
    BY <2>1, GuardsKept, UsedNotNew
  <2> QED BY <1>1, <2>1, <2>2, <2>3, GuardsKept, QuietDoes DEF Contract
<1>4. CASE next[HeadCell] # End
  <2>1. PICK n \in InList : n = next[HeadCell]
    BY <1>2, <1>4
  <2>2. /\ marked' = [marked EXCEPT ![n] = TRUE] /\ next' = [next EXCEPT ![HeadCell] = next[n]]
        /\ items' = items \ {n} /\ cur' = [cur EXCEPT ![t] = n] /\ R!SetStatus(n, "unlinked")
        /\ pc' = [pc EXCEPT ![t] = "clear_retire"] /\ UNCHANGED <<key, node, op>>
    BY <1>4, <2>1 DEF Clear, Goto, callVars
  <2>3. pc'[t] = "clear_retire" /\ cur'[t] = n /\ node'[t] = Null
    BY <1>1, <2>2 DEF Common, ListTypeOK
  <2>4. ~ Making(t)' /\ Taking(t)'
    BY <2>3, Constants DEF Making, Taking
  <2>5. ~ marked[HeadCell]
    BY Facts
  <2> QED BY <1>1, <2>1, <2>2, <2>3, <2>4, <2>5, UnlinkDoes
<1> QED BY <1>3, <1>4

\* clear hands over the node it has unlinked.
LEMMA ClearRetireDoes ==
  ASSUME Common, kind \in Lists, NEW t \in Thread, Frame(t), kind' = kind, ClearRetire(t)
  PROVE  Does(t)
<1>1. op[t] = "clear" /\ node[t] = Null /\ ~ Making(t) /\ Taking(t)
  BY Constants DEF ClearRetire, Common, Control, AllocatesFirst, Inserts, Making, Taking, KeyOps, ListTypeOK, Ops
<1>2. /\ UNCHANGED <<next, marked, key, items>> /\ node' = node /\ pc'[t] = "clear" /\ R!HandOver(cur[t]) /\ op' = op
  BY DEF ClearRetire, listVars, callVars, Goto, Common, ListTypeOK
<1>3. ~ Making(t)' /\ ~ Taking(t)'
  BY <1>1, <1>2, Constants DEF Making, Taking
<1> QED BY <1>1, <1>2, <1>3, HandDoes

\* A call ends: its guards are released.
LEMMA LeaveDoes ==
  ASSUME Common, kind \in Lists, NEW t \in Thread, Frame(t), kind' = kind, Leave(t)
  PROVE  Does(t)
<1>1. ans[t] # "none" /\ ~ Taking(t) /\ R!Release(Guards(t)) /\ UNCHANGED <<next, marked, key, items>>
  BY DEF Leave, Common, Control, Taking, listVars
<1>2. /\ \A j \in 0..3 : U(t, j)' = Null
      /\ OthersGuard(t) /\ status' = status /\ Contract
  BY <1>1, SlotsReleased DEF Common, Contract
<1>3. CASE NotLinked(t)
  <2>1. UNCHANGED <<node, ans, arg>> /\ pc'[t] = "free"
    BY <1>3 DEF Leave, callVars, Goto, Common, ListTypeOK
  <2>2. (Making(t)' <=> Making(t)) /\ ~ Taking(t)'
    BY <2>1, Constants DEF Making, Taking
  <2> QED BY <1>1, <1>2, <2>1, <2>2, Constants, QuietDoes
<1>4. CASE ~ NotLinked(t)
  <2>1. ~ Making(t)
    BY <1>1, <1>4, Constants DEF NotLinked, Making, Common, ListTypeOK
  <2>2. node'[t] = Null /\ pc'[t] = "idle"
    BY <1>4 DEF Leave, Idle, Goto, Common, ListTypeOK
  <2>3. ~ Making(t)' /\ ~ Taking(t)'
    BY <2>2, Constants DEF Making, Taking
  <2> QED BY <1>1, <1>2, <2>1, <2>3, Constants, QuietDoes
<1> QED BY <1>3, <1>4

\* A node that was not linked is freed by its creator.
LEMMA FreeNodeDoes ==
  ASSUME Common, kind \in Lists, NEW t \in Thread, Frame(t), kind' = kind, FreeNode(t)
  PROVE  Does(t)
<1> DEFINE n == node[t]
<1>1. n \in Node /\ Making(t) /\ ~ Taking(t) /\ n \in New
  BY DEF FreeNode, Common, Control, Taking, Making, New, ListTypeOK
<1>2. status[n] = "linked" /\ \A s \in Slot : using[s] # n
  BY <1>1 DEF Common, News
<1>3. /\ status' = [status EXCEPT ![n] = "free"] /\ UNCHANGED <<hz, using, blockers>> /\ UNCHANGED items
      /\ Forget(n) /\ node'[t] = Null /\ pc'[t] = "idle" /\ R!RNext
  BY <1>1, <1>2 DEF FreeNode, R!Discard, R!SetStatus, Idle, Goto, R!RNext, Common, ListTypeOK
<1>4. ~ Making(t)' /\ ~ Taking(t)'
  BY <1>3, Constants DEF Making, Taking
<1>5. New' = New \ {n}
  BY <1>1, <1>4, NewStep DEF Common
<1> HIDE DEF n
<1>6. Goes({n}) /\ Freed({n})
  <2>1. status' = [m \in Node |-> IF m = n THEN "free" ELSE status[m]]
    BY <1>1, <1>3, Facts
  <2>2. status'[n] = "free"
    BY <1>1, <2>1
  <2> QED BY <1>1, <1>3, <1>5, <2>1, <2>2, ForgetGoes DEF Freed
<1>7. OthersGuard(t) /\ \A j : U(t, j)' = U(t, j)
  BY <1>3 DEF OthersGuard, H, U
<1>8. \A m \in Node : m # n => status'[m] = status[m] /\ key'[m] = key[m]
  BY <1>1, <1>3, Facts DEF Forget
<1>9. News'
  <2>1. \A j \in 0..3 : U(t, j)' \in Node => U(t, j)' \notin New'
    BY <1>5, <1>7, UsedNotNew
  <2>2. \A m \in New : m \in Node /\ status[m] = "linked"
    BY Facts
  <2> QED BY <1>1, <1>4, <1>7, <1>8, <2>1, <2>2, NewsGoes DEF n
<1>10. Taken'
  <2>1. \A m \in Node : status[m] = "unlinked" => status'[m] = "unlinked"
    BY <1>2, <1>8 DEF n
  <2> QED BY <1>4, <2>1, TakenGoes
<1>11. Handed
  BY <1>3, <1>8, Facts DEF Handed
<1> QED BY <1>1, <1>3, <1>6, <1>7, <1>9, <1>10, <1>11 DEF Does, Contract

-----------------------------------------------------------------------------
(* The steps of Michael's list: what they owe to the others *)

\* An unmarked node in use is in the list, and so is what its link names.
LEMMA Unmarked ==
  ASSUME Common, kind \in Lists, NEW n \in Node, InUse(n), ~ marked[n]
  PROVE  n \in InList /\ next[n] \in InList \cup {End}
<1>1. status[n] = "linked"
  BY Facts DEF InUse, Common, Marks, Gone, R!Life
<1> QED BY <1>1, Facts DEF InUse, InList

\* Where a search stands, while the link of the node before it is the one it saw.
LEMMA MStanding ==
  ASSUME MInv, NEW t \in Thread, pc[t] \in OnPrev, PrevUnmoved(t)
  PROVE  /\ prev[t] \in InList \cup {HeadCell} /\ ~ marked[prev[t]] /\ next[prev[t]] = cur[t]
         /\ cur[t] \in InList \cup {Null} /\ (prev[t] # HeadCell => key[prev[t]] < arg[t])
<1>1. Before(t) /\ next[prev[t]] = cur[t] /\ ~ marked[prev[t]]
  BY DEF MInv, MPlace, PrevUnmoved, LinkIs
<1>2. prev[t] \in InList \cup {HeadCell}
  BY <1>1, UsedNotNew, Unmarked DEF Before, Held, MInv, Lists
<1> QED BY <1>1, <1>2, Facts DEF MInv, Lists, End, Before

\* What a search does when it ends
LEMMA MEnded ==
  ASSUME MInv, NEW t \in Thread, NEW found \in BOOLEAN, Ended(t, found), pc[t] \in OnceMore
  PROVE  /\ UNCHANGED <<op, arg, node>> /\ pc'[t] \notin OnceMore \cup {"erase_unlink", "erase_retire", "clear_retire"}
         /\ \/ ans[t] # "none" /\ ans' = ans /\ pc'[t] = "leave"
            \/ ans[t] = "none" /\ op[t] = "find" /\ found /\ ans'[t] = "yes" /\ pc'[t] = "touch"
            \/ ans[t] = "none" /\ op[t] \in {"find", "erase"} /\ ~ found /\ ans'[t] = "no" /\ pc'[t] = "leave"
            \/ ans[t] = "none" /\ op[t] = "erase" /\ found /\ ans' = ans /\ pc'[t] = "mark"
            \/ ans[t] = "none" /\ op[t] = "ensure" /\ found /\ ans' = ans /\ pc'[t] = "is_marked"
            \/ ans[t] = "none" /\ op[t] \in {"insert", "insertf"} /\ found /\ ans'[t] = "no" /\ pc'[t] = "leave"
            \/ ans[t] = "none" /\ op[t] = "insert" /\ ~ found /\ ans' = ans /\ pc'[t] = "link"
            \/ ans[t] = "none" /\ op[t] \in {"insertf", "ensure"} /\ ~ found /\ ans' = ans /\ pc'[t] = "guard_new"
<1>1. op[t] \in {"insert", "insertf", "ensure", "find", "erase"}
  <2>1. op[t] \in Ops \cup {"none"} /\ op[t] # "emplace" /\ pc[t] \in OnceMore /\ kind = "michael"
    BY DEF MInv, Common, MTypes, ListTypeOK
  <2>2. op[t] \notin {"none", "empty", "clear"}
    BY <2>1 DEF MInv, Common, Control, OnceMore
  <2> QED BY <2>1, <2>2 DEF Ops, KeyOps
<1>2. t \in DOMAIN ans /\ t \in DOMAIN pc
  BY DEF MInv, Common, ListTypeOK
<1> QED BY <1>1, <1>2 DEF Ended, Answer, Goto, callVars, OnceMore, MInv

\* A step that changes the guards of t, and its position.
LEMMA MQuiet ==
  ASSUME MInv, NEW t \in Thread, Frame(t), kind' = kind, OthersGuard(t), Contract,
         UNCHANGED <<next, marked, key, status, items>>, node' = node, arg' = arg,
         {pc[t], pc'[t]} \cap {"retire", "erase_retire", "clear_retire"} = {},
         \/ ans'[t] = ans[t]
         \/ ans'[t] = "no" /\ ans[t] = "none"
         \/ ans'[t] = "yes" /\ op[t] = "find",
         \A j \in 0..3 : U(t, j)' \in Node => U(t, j)' \notin New
  PROVE  Does(t)
<1>1. (Making(t)' <=> Making(t))
  BY Constants DEF MInv, Common, Control, AllocatesFirst, Inserts, Making
<1>2. ~ Taking(t) /\ ~ Taking(t)'
  BY DEF Taking, MInv
<1> QED BY <1>1, <1>2, QuietDoes DEF MInv, Lists

\* search guards the first node and confirms the guard when the link still leads to it.
LEMMA MSearchDoes ==
  ASSUME MInv, NEW t \in Thread, Frame(t), kind' = kind, Search(t) \/ CurGuard(t) \/ CurCheck(t)
  PROVE  Does(t)
<1>0. Common /\ kind = "michael" /\ kind \in Lists /\ R!RTypeOK /\ R!RGood
  BY DEF MInv, Lists, Common, R!RGood
<1>1. CASE Search(t)
  <2>1. /\ pc[t] = "search" /\ pc'[t] = "cur_guard" /\ R!Release(Guards(t))
        /\ UNCHANGED <<listVars, callVars, items>>
    BY <1>0, <1>1 DEF Search, Goto, Common, ListTypeOK
  <2>2. OthersGuard(t) /\ Contract /\ status' = status /\ \A j \in 0..3 : U(t, j)' = Null
    BY <1>0, <2>1, SlotsReleased DEF Contract
  <2> QED BY <2>1, <2>2, Constants, MQuiet DEF listVars, callVars
<1>2. CASE CurGuard(t)
  <2>1. /\ pc[t] = "cur_guard" /\ pc'[t] = "cur_check" /\ Guard(t, 1, cur[t])
        /\ UNCHANGED <<listVars, callVars, items>>
    BY <1>0, <1>2 DEF CurGuard, Goto, Common, ListTypeOK
  <2>2. OthersGuard(t) /\ Contract /\ status' = status /\ \A j \in 0..3 : U(t, j)' \in {Null, U(t, j)}
    BY <1>0, <2>1, SlotGuarded DEF Contract
  <2>3. \A j \in 0..3 : U(t, j)' \in Node => U(t, j)' \notin New
    BY <1>0, <2>2, Constants, UsedNotNew
  <2> QED BY <2>1, <2>2, <2>3, MQuiet DEF listVars, callVars
<1>3. CASE CurCheck(t)
  <2>1. pc[t] = "cur_check" /\ H(t, 1) = cur[t] /\ pc[t] \in OnceMore /\ UNCHANGED listVars /\ UNCHANGED items
    BY <1>3 DEF CurCheck, MInv, MPlace, OnceMore
  <2>2. CASE ~ LinkIs(HeadCell, cur[t])
    <3>1. pc'[t] = "search" /\ UNCHANGED <<reclaimVars, callVars>>
      BY <1>0, <1>3, <2>2 DEF CurCheck, Goto, Common, ListTypeOK
    <3>2. \A j \in 0..3 : U(t, j)' \in Node => U(t, j)' \notin New
      BY <1>0, <3>1, GuardsKept, UsedNotNew
    <3> QED BY <2>1, <3>1, <3>2, GuardsKept, MQuiet DEF listVars, callVars, reclaimVars, Contract
  <2>3. CASE LinkIs(HeadCell, cur[t])
    <3>1. R!Use(S(t, 1))
      BY <1>3, <2>3 DEF CurCheck, S
    <3>2. cur[t] \in InList \cup {Null}
      BY <1>0, <2>3, Facts DEF LinkIs, End
    <3>7. cur[t] \in Node => status[cur[t]] = "linked" /\ cur[t] \notin New
      BY <1>0, <3>2, Facts, Constants
    <3>8. /\ U(t, 1)' = cur[t] /\ \A j \in 0..3 : j # 1 => U(t, j)' = U(t, j)
          /\ OthersGuard(t) /\ status' = status /\ R!RNext
      BY <1>0, <2>1, <3>1, <3>7, SlotUsed
    <3>3. OthersGuard(t) /\ Contract /\ status' = status
      BY <3>8 DEF Contract
    <3>4. \A j \in 0..3 : U(t, j)' \in Node => U(t, j)' \notin New
      BY <1>0, <3>7, <3>8, UsedNotNew
    <3>5. CASE cur[t] = Null
      <4>1. Ended(t, FALSE)
        BY <1>3, <2>3, <3>5 DEF CurCheck
      <4>2. /\ UNCHANGED <<op, arg, node>> /\ pc'[t] \notin {"retire", "erase_retire", "clear_retire"}
            /\ \/ ans'[t] = ans[t]
               \/ ans'[t] = "no" /\ ans[t] = "none"
               \/ ans'[t] = "yes" /\ op[t] = "find"
        BY <2>1, <4>1, <1>0, MEnded DEF OnceMore
      <4> QED BY <2>1, <3>3, <3>4, <4>2, MQuiet DEF listVars
    <3>6. CASE cur[t] # Null
      <4>1. pc'[t] = "next" /\ UNCHANGED callVars
        BY <1>0, <1>3, <2>3, <3>6 DEF CurCheck, Goto, Common, ListTypeOK
      <4> QED BY <2>1, <3>3, <3>4, <4>1, MQuiet DEF listVars, callVars
    <3> QED BY <3>5, <3>6
  <2> QED BY <2>2, <2>3
<1> QED BY <1>1, <1>2, <1>3

\* search guards the node after pCur.
LEMMA MNextDoes ==
  ASSUME MInv, NEW t \in Thread, Frame(t), kind' = kind, Next_(t) \/ NextGuard(t) \/ NextCheck(t)
  PROVE  Does(t)
<1>0. Common /\ kind = "michael" /\ kind \in Lists /\ R!RTypeOK
  BY DEF MInv, Lists, Common, R!RGood
<1>1. CASE Next_(t) \/ NextCheck(t)
  <2>1. /\ pc[t] \in {"next", "next_check"} /\ pc'[t] \in {"next_guard", "search", "prev_check"}
        /\ UNCHANGED <<listVars, reclaimVars, callVars, items>>
    BY <1>0, <1>1 DEF Next_, NextCheck, Goto, Common, ListTypeOK
  <2>2. \A j \in 0..3 : U(t, j)' \in Node => U(t, j)' \notin New
    BY <1>0, <2>1, GuardsKept, UsedNotNew
  <2> QED BY <2>1, <2>2, GuardsKept, MQuiet DEF listVars, callVars, reclaimVars, Contract
<1>2. CASE NextGuard(t)
  <2>1. /\ pc[t] = "next_guard" /\ pc'[t] = "next_check" /\ Guard(t, 0, nxt[t])
        /\ UNCHANGED <<listVars, callVars, items>>
    BY <1>0, <1>2 DEF NextGuard, Goto, Common, ListTypeOK
  <2>2. OthersGuard(t) /\ Contract /\ status' = status /\ \A j \in 0..3 : U(t, j)' \in {Null, U(t, j)}
    BY <1>0, <2>1, SlotGuarded DEF Contract
  <2>3. \A j \in 0..3 : U(t, j)' \in Node => U(t, j)' \notin New
    BY <1>0, <2>2, Constants, UsedNotNew
  <2> QED BY <2>1, <2>2, <2>3, MQuiet DEF listVars, callVars
<1> QED BY <1>1, <1>2

\* The pointer through slot 0 is safe, if the node before is where it was.
LEMMA MShielded ==
  ASSUME MInv, NEW t \in Thread, pc[t] = "prev_check", PrevUnmoved(t)
  PROVE  /\ cur[t] \in InList /\ H(t, 0) = nxt[t]
         /\ nxt[t] \in Node => /\ status[nxt[t]] \in {"linked", "unlinked"} \/ S(t, 0) \in blockers[nxt[t]]
                               /\ nxt[t] \notin New
<1>0. Common /\ kind = "michael" /\ kind \in Lists
  BY DEF MInv, Lists
<1>1. cur[t] \in InList /\ status[cur[t]] = "linked" /\ H(t, 0) = nxt[t]
  <2>1. pc[t] \in OnPrev /\ pc[t] \in OnCur
    BY DEF OnPrev, OnCur
  <2>2. H(t, 0) = nxt[t] /\ cur[t] \in Node
    BY <2>1 DEF MInv, MPlace, Held
  <2>3. cur[t] \in InList
    <3>1. cur[t] \in InList \cup {Null}
      BY <2>1, MStanding
    <3> QED BY <2>2, <3>1, Constants
  <2> QED BY <1>0, <2>2, <2>3, Facts
<1>2. nxt[t] \in Node => Shielded(S(t, 0), nxt[t])
  BY <1>1 DEF MInv, MRead
<1>3. nxt[t] \in Node /\ S(t, 0) \in blockers[nxt[t]] => status[nxt[t]] = "retired"
  BY DEF MInv, Common, R!RGood, R!Unblocked
<1>4. \A n \in New : status[n] = "linked"
  BY <1>0, Facts
<1> QED BY <1>0, <1>1, <1>2, <1>3, <1>4, Facts DEF Shielded

\* search checks that the node before pCur still leads to it.
LEMMA MPrevDoes ==
  ASSUME MInv, NEW t \in Thread, Frame(t), kind' = kind, PrevCheck(t)
  PROVE  Does(t)
<1>0. Common /\ kind = "michael" /\ kind \in Lists /\ R!RTypeOK
  BY DEF MInv, Lists, Common, R!RGood
<1>1. pc[t] = "prev_check" /\ pc[t] \in OnceMore /\ UNCHANGED listVars /\ UNCHANGED items
  BY DEF PrevCheck, OnceMore, MInv
<1>2. CASE ~ PrevUnmoved(t)
  <2>1. pc'[t] = "search" /\ UNCHANGED <<reclaimVars, callVars>>
    BY <1>0, <1>2 DEF PrevCheck, Goto, Common, ListTypeOK
  <2>2. \A j \in 0..3 : U(t, j)' \in Node => U(t, j)' \notin New
    BY <1>0, <2>1, GuardsKept, UsedNotNew
  <2> QED BY <1>1, <2>1, <2>2, GuardsKept, MQuiet DEF listVars, callVars, reclaimVars, Contract
<1>3. CASE PrevUnmoved(t)
  <2>1. R!Use(S(t, 0))
    BY <1>3 DEF PrevCheck, S
  <2>5. /\ H(t, 0) = nxt[t]
        /\ nxt[t] \in Node => /\ status[nxt[t]] \in {"linked", "unlinked"} \/ S(t, 0) \in blockers[nxt[t]]
                              /\ nxt[t] \notin New
    BY <1>1, <1>3, MShielded
  <2>6. /\ U(t, 0)' = nxt[t] /\ \A j \in 0..3 : j # 0 => U(t, j)' = U(t, j)
        /\ OthersGuard(t) /\ status' = status /\ R!RNext
    BY <1>0, <2>1, <2>5, SlotUsed
  <2>2. OthersGuard(t) /\ Contract /\ status' = status
    BY <2>6 DEF Contract
  <2>3. \A j \in 0..3 : U(t, j)' \in Node => U(t, j)' \notin New
    BY <1>0, <2>5, <2>6, UsedNotNew
  <2>4. /\ UNCHANGED <<op, arg, node>> /\ pc'[t] \notin {"retire", "erase_retire", "clear_retire"}
        /\ \/ ans'[t] = ans[t]
           \/ ans'[t] = "no" /\ ans[t] = "none"
           \/ ans'[t] = "yes" /\ op[t] = "find"
    <3>1. CASE \E found \in BOOLEAN : Ended(t, found)
      BY <1>1, <3>1, <1>0, MEnded DEF OnceMore
    <3>2. CASE pc'[t] \in {"unlink", "step"} /\ UNCHANGED callVars
      BY <3>2 DEF callVars
    <3>3. t \in DOMAIN pc
      BY <1>0 DEF Common, ListTypeOK
    <3> QED BY <1>3, <3>1, <3>2, <3>3 DEF PrevCheck, Goto
  <2> QED BY <1>1, <2>2, <2>3, <2>4, MQuiet DEF listVars
<1> QED BY <1>2, <1>3

\* search steps to the next node.
LEMMA MStepDoes ==
  ASSUME MInv, NEW t \in Thread, Frame(t), kind' = kind, Step(t) \/ Shift(t)
  PROVE  Does(t)
<1>0. Common /\ kind = "michael" /\ kind \in Lists /\ R!RTypeOK
  BY DEF MInv, Lists, Common, R!RGood
<1>1. CASE Step(t)
  <2>1. /\ pc[t] = "step" /\ pc'[t] = "shift" /\ R!Copy(S(t, 1), S(t, 2))
        /\ UNCHANGED <<listVars, callVars, items>>
    BY <1>0, <1>1 DEF Step, Goto, Common, ListTypeOK, S
  <2>2. U(t, 1) \in Node
    BY <2>1 DEF MInv, MPlace, OnCur, Held
  <2>3. OthersGuard(t) /\ Contract /\ status' = status /\ \A j \in 0..3 : U(t, j)' \in {U(t, 1), U(t, j)}
    <3>1. /\ U(t, 2)' = U(t, 1) /\ \A j \in 0..3 : j # 2 => U(t, j)' = U(t, j)
          /\ OthersGuard(t) /\ status' = status /\ R!RNext
      BY <1>0, <2>1, <2>2, SlotCopied
    <3> QED BY <3>1 DEF Contract
  <2>4. \A j \in 0..3 : U(t, j)' \in Node => U(t, j)' \notin New
    BY <1>0, <2>2, <2>3, UsedNotNew
  <2> QED BY <2>1, <2>3, <2>4, MQuiet DEF listVars, callVars
<1>2. CASE Shift(t)
  <2>1. /\ pc[t] = "shift" /\ pc[t] \in OnceMore /\ MoveGuard(t, 0, 1, nxt[t])
        /\ UNCHANGED listVars /\ UNCHANGED items
    BY <1>2 DEF Shift, OnceMore, MInv
  <2>2. nxt[t] \in Node => U(t, 0) = nxt[t]
    BY <2>1 DEF MInv, MPlace
  <2>3. OthersGuard(t) /\ Contract /\ status' = status /\ \A j \in 0..3 : U(t, j)' \in {U(t, 0), U(t, j), Null}
    BY <1>0, <2>1, <2>2, SlotMoved DEF Contract
  <2>4. \A j \in 0..3 : U(t, j)' \in Node => U(t, j)' \notin New
    BY <1>0, <2>3, Constants, UsedNotNew
  <2>5. /\ UNCHANGED <<op, arg, node>> /\ pc'[t] \notin {"retire", "erase_retire", "clear_retire"}
        /\ \/ ans'[t] = ans[t]
           \/ ans'[t] = "no" /\ ans[t] = "none"
           \/ ans'[t] = "yes" /\ op[t] = "find"
    <3>1. CASE Ended(t, FALSE)
      BY <2>1, <3>1, <1>0, MEnded DEF OnceMore
    <3>2. CASE pc'[t] = "next" /\ UNCHANGED callVars
      BY <3>2 DEF callVars
    <3>3. t \in DOMAIN pc
      BY <1>0 DEF Common, ListTypeOK
    <3> QED BY <1>2, <3>1, <3>2, <3>3 DEF Shift, Goto
  <2> QED BY <2>1, <2>3, <2>4, <2>5, MQuiet DEF listVars
<1> QED BY <1>1, <1>2

\* A marked node is unlinked from the node before it, if that still leads to it.
LEMMA MUnlinkDoes ==
  ASSUME MInv, NEW t \in Thread, Frame(t), kind' = kind, Unlink(t) \/ EraseUnlink(t)
  PROVE  /\ Does(t)
         /\ PrevUnmoved(t) => cur[t] \in InList /\ InList' = InList \ {cur[t]}
<1>0. Common /\ kind = "michael" /\ kind \in Lists /\ R!RTypeOK
  BY DEF MInv, Lists, Common, R!RGood
<1>1. /\ pc[t] \in {"unlink", "erase_unlink"} /\ marked[cur[t]] /\ next[cur[t]] = nxt[t] /\ cur[t] \in Node
      /\ UNCHANGED <<marked, key, callVars, posVars, items>> /\ pc[t] \in OnPrev
  BY DEF Unlink, EraseUnlink, PhysicalDeletion, MInv, MRead, MPlace, OnCur, OnPrev, Held
<1>2. CASE ~ PrevUnmoved(t)
  <2>1. /\ pc'[t] = "search" /\ UNCHANGED <<next, reclaimVars>>
    BY <1>0, <1>2 DEF Unlink, EraseUnlink, PhysicalDeletion, Goto, Common, ListTypeOK
  <2>2. \A j \in 0..3 : U(t, j)' \in Node => U(t, j)' \notin New
    BY <1>0, <2>1, GuardsKept, UsedNotNew
  <2> QED BY <1>1, <1>2, <2>1, <2>2, GuardsKept, MQuiet DEF callVars, reclaimVars, Contract
<1>3. CASE PrevUnmoved(t)
  <2>1. /\ next' = [next EXCEPT ![prev[t]] = nxt[t]] /\ R!SetStatus(cur[t], "unlinked")
        /\ pc'[t] \in {"retire", "erase_retire"}
    BY <1>0, <1>3 DEF Unlink, EraseUnlink, PhysicalDeletion, Goto, Common, ListTypeOK
  <2>2. prev[t] \in InList \cup {HeadCell} /\ ~ marked[prev[t]] /\ next[prev[t]] = cur[t] /\ cur[t] \in InList
    <3>1. cur[t] \in InList \cup {Null}
      BY <1>1, <1>3, MStanding
    <3>2. cur[t] \in InList
      BY <1>1, <3>1, Constants
    <3> QED BY <1>1, <1>3, <3>2, MStanding
  <2>3. marked' = [marked EXCEPT ![cur[t]] = TRUE] /\ items' = items \ {cur[t]}
    <3>1. marked \in [Cell -> BOOLEAN] /\ cur[t] \notin items
      BY <1>0, <1>1, Facts DEF Common, Marks
    <3> QED BY <1>1, <3>1
  <2>4. ~ Taking(t) /\ Taking(t)' /\ (Making(t)' <=> Making(t)) /\ cur'[t] = cur[t] /\ node'[t] = node[t] /\ arg'[t] = arg[t]
    BY <1>0, <1>1, <2>1 DEF Taking, Making, callVars, posVars
  <2> QED BY <1>0, <1>1, <2>1, <2>2, <2>3, <2>4, UnlinkDoes
<1> QED BY <1>2, <1>3

\* The one who has unlinked a node hands it over.
LEMMA MRetireDoes ==
  ASSUME MInv, NEW t \in Thread, Frame(t), kind' = kind,
         Retire(t, "retire", "shift") \/ Retire(t, "erase_retire", "leave")
  PROVE  Does(t)
<1>0. Common /\ kind = "michael" /\ kind \in Lists
  BY DEF MInv, Lists
<1>1. /\ pc[t] \in {"retire", "erase_retire"} /\ pc'[t] \in {"shift", "leave"} /\ R!HandOver(cur[t])
      /\ UNCHANGED <<next, marked, key, items, callVars>>
  BY <1>0 DEF Retire, Goto, Common, ListTypeOK, listVars
<1>2. Taking(t) /\ ~ Taking(t)' /\ (Making(t)' <=> Making(t)) /\ node'[t] = node[t] /\ arg'[t] = arg[t]
  BY <1>0, <1>1 DEF Taking, Making, callVars
<1> QED BY <1>0, <1>1, <1>2, HandDoes

\* insert and ensure guard the new node; ensure reads the mark; functors touch nodes only.
LEMMA MInsertDoes ==
  ASSUME MInv, NEW t \in Thread, Frame(t), kind' = kind, IsMarked(t) \/ GuardNew(t) \/ Functor(t)
  PROVE  Does(t)
<1>0. Common /\ kind = "michael" /\ kind \in Lists /\ R!RTypeOK
  BY DEF MInv, Lists, Common, R!RGood
<1>1. CASE IsMarked(t) \/ Functor(t)
  <2>1. /\ pc[t] \in {"is_marked", "touch", "touch_new"} /\ pc'[t] \in {"search", "touch", "leave"}
        /\ UNCHANGED <<listVars, reclaimVars, items, node, arg>>
        /\ ans'[t] = ans[t] \/ (ans'[t] = "no" /\ pc[t] = "is_marked")
    BY <1>0, <1>1 DEF IsMarked, Functor, Answer, Goto, Common, ListTypeOK, callVars
  <2>2. pc[t] = "is_marked" => ans[t] = "none"
    BY DEF MInv, MControl
  <2>3. \A j \in 0..3 : U(t, j)' \in Node => U(t, j)' \notin New
    BY <1>0, <2>1, GuardsKept, UsedNotNew
  <2> QED BY <2>1, <2>2, <2>3, GuardsKept, MQuiet DEF listVars, reclaimVars, Contract
<1>2. CASE GuardNew(t)
  <2>1. /\ pc[t] = "guard_new" /\ pc'[t] = "link" /\ Guard(t, 3, node[t])
        /\ UNCHANGED <<listVars, callVars, items>>
    BY <1>0, <1>2 DEF GuardNew, Goto, Common, ListTypeOK
  <2>2. OthersGuard(t) /\ Contract /\ status' = status /\ \A j \in 0..3 : U(t, j)' \in {Null, U(t, j)}
    BY <1>0, <2>1, SlotGuarded DEF Contract
  <2>3. \A j \in 0..3 : U(t, j)' \in Node => U(t, j)' \notin New
    BY <1>0, <2>2, Constants, UsedNotNew
  <2> QED BY <2>1, <2>2, <2>3, MQuiet DEF listVars, callVars
<1> QED BY <1>1, <1>2

\* erase marks its node, if its next link is still the one it has read.
LEMMA MMarkDoes ==
  ASSUME MInv, NEW t \in Thread, Frame(t), kind' = kind, Mark(t)
  PROVE  Does(t) /\ InList' = InList /\ (LogicalDeletion(t) => cur[t] \in InList)
<1>0. Common /\ kind = "michael" /\ kind \in Lists
  BY DEF MInv, Lists
<1>1. /\ pc[t] = "mark" /\ op[t] = "erase" /\ node[t] = Null /\ ans[t] = "none" /\ UNCHANGED reclaimVars
      /\ UNCHANGED <<next, key, arg, node, op>> /\ Held(t, 1, cur[t]) /\ pc'[t] \in {"search", "erase_unlink"}
  BY <1>0 DEF Mark, MInv, MControl, MPlace, OnCur, Common, Control, AllocatesFirst, Inserts, callVars, Answer, Goto, ListTypeOK
<1>2. ~ Making(t) /\ ~ Making(t)' /\ ~ Taking(t) /\ ~ Taking(t)' /\ New' = New
  BY <1>0, <1>1, Constants, NewStep DEF Making, Taking
<1>3. InList' = InList
  BY <1>1, <1>2 DEF InList, reclaimVars
<1>4. \A j \in 0..3 : U(t, j)' \in Node => U(t, j)' \notin New
  BY <1>0, <1>1, GuardsKept, UsedNotNew
<1>5. CASE ~ LogicalDeletion(t)
  <2>1. UNCHANGED <<marked, items>>
    BY <1>5 DEF Mark
  <2> QED BY <1>0, <1>1, <1>2, <1>3, <1>4, <1>5, <2>1, GuardsKept, QuietDoes DEF Contract, reclaimVars
<1>6. CASE LogicalDeletion(t)
  <2>1. marked' = [marked EXCEPT ![cur[t]] = TRUE] /\ items' = items \ {cur[t]}
    BY <1>6 DEF Mark
  <2>2. ~ marked[cur[t]] /\ cur[t] \in InList
    BY <1>0, <1>1, <1>6, UsedNotNew, Unmarked DEF LogicalDeletion, LinkIs, Held
  <2>3. Goes({}) /\ Freed({})
    BY <1>0, <1>1, <1>2, <2>1, <2>2, MarkGoes DEF Freed, reclaimVars
  <2>4. OthersGuard(t) /\ Handed /\ Contract
    BY <1>1, GuardsKept DEF Contract
  <2>5. News'
    <3>1. \A n \in New : status'[n] = "linked" /\ key'[n] = key[n]
      BY <1>0, <1>1, Facts DEF reclaimVars
    <3> QED BY <1>0, <1>2, <1>4, <2>4, <3>1, NewsGoes
  <2>6. Taken'
    <3>1. \A n \in Node : status[n] = "unlinked" => status'[n] = "unlinked"
      BY <1>1 DEF reclaimVars
    <3> QED BY <1>0, <1>2, <3>1, TakenGoes
  <2> QED BY <1>3, <2>2, <2>3, <2>4, <2>5, <2>6 DEF Does
<1> QED BY <1>5, <1>6

\* insert links its node, if the node before still leads to pCur.
LEMMA MLinkDoes ==
  ASSUME MInv, NEW t \in Thread, Frame(t), kind' = kind, LinkNode(t)
  PROVE  /\ Does(t) /\ node[t] \in New /\ key[node[t]] = arg[t]
         /\ PrevUnmoved(t) => InList' = InList \cup {node[t]}
         /\ ~ PrevUnmoved(t) => InList' = InList
<1>0. Common /\ kind = "michael" /\ kind \in Lists /\ R!RTypeOK
  BY DEF MInv, Lists, Common, R!RGood
<1> DEFINE n == node[t]
<1>1. /\ pc[t] = "link" /\ ans[t] = "none" /\ op[t] \in Inserts /\ UNCHANGED <<marked, key, node>>
  BY DEF LinkNode, MInv, MControl, Answer, callVars
<1>2. n \in Node /\ Making(t) /\ ~ Taking(t) /\ n \in New
  BY <1>0, <1>1 DEF Common, Control, AllocatesFirst, Inserts, Making, ListTypeOK, New, Taking
<1>3. /\ status[n] = "linked" /\ key[n] = arg[t] /\ arg[t] \in Keys /\ ~ marked[n] /\ n \notin InList /\ n # HeadCell
      /\ \A j \in 0..3 : U(t, j) # n
  BY <1>0, <1>2, Slots, Constants DEF Common, News, Marks, InList, Gone, U
<1>4. H(t, 3) = Null \/ H(t, 3) = n
  BY <1>1 DEF MInv, MPlace
<1> HIDE DEF n
<1>5. CASE ~ PrevUnmoved(t)
  <2>1. /\ next' = [next EXCEPT ![n] = cur[t]] /\ Guard(t, 3, Null) /\ pc'[t] = "search"
        /\ UNCHANGED <<items, callVars>>
    BY <1>0, <1>5 DEF LinkNode, Goto, Common, ListTypeOK, n
  <2>2. (Making(t)' <=> Making(t)) /\ ~ Taking(t)' /\ node'[t] = node[t] /\ arg'[t] = arg[t] /\ New' = New
    BY <1>0, <2>1, NewStep DEF Making, Taking, callVars
  <2>3. OthersGuard(t) /\ Contract /\ status' = status /\ \A j \in 0..3 : U(t, j)' \in {Null, U(t, j)}
    BY <1>0, <2>1, SlotGuarded DEF Contract
  <2>4. InList' = InList
    BY <2>2, <2>3 DEF InList
  <2>5. Goes({}) /\ Freed({})
    BY <1>0, <1>1, <1>2, <1>3, <2>1, <2>2, <2>3, SetLinkGoes DEF Freed
  <2>6. News'
    <3>1. \A m \in New : status'[m] = "linked" /\ key'[m] = key[m]
      BY <1>0, <1>1, <2>3, Facts
    <3>2. \A j \in 0..3 : U(t, j)' \in Node => U(t, j)' \notin New
      BY <1>0, <2>3, Constants, UsedNotNew
    <3> QED BY <1>0, <1>2, <2>2, <2>3, <3>1, <3>2, NewsGoes DEF n
  <2>7. Taken'
    <3>1. \A m \in Node : status[m] = "unlinked" => status'[m] = "unlinked"
      BY <2>3
    <3> QED BY <1>0, <1>2, <2>2, <3>1, TakenGoes
  <2>8. Handed
    BY <2>3 DEF Handed
  <2> QED BY <1>2, <1>3, <1>5, <2>3, <2>4, <2>5, <2>6, <2>7, <2>8 DEF Does, n
<1>6. CASE PrevUnmoved(t)
  <2>1. /\ next' = [next EXCEPT ![n] = cur[t], ![prev[t]] = n] /\ items' = items \cup {n}
        /\ R!Use(S(t, 3)) /\ ans'[t] = "yes" /\ pc'[t] \in {"leave", "touch_new"}
    BY <1>0, <1>6 DEF LinkNode, Goto, Answer, Common, ListTypeOK, n, S
  <2>2. ~ Making(t)' /\ ~ Taking(t)' /\ New' = New \ {n}
    BY <1>0, <1>2, <2>1, NewStep DEF Making, Taking, Common, n
  <2>3. /\ U(t, 3)' = H(t, 3) /\ \A j \in 0..3 : j # 3 => U(t, j)' = U(t, j)
        /\ OthersGuard(t) /\ status' = status /\ R!RNext
    BY <1>0, <1>2, <1>3, <1>4, <2>1, Constants, SlotUsed
  <2>4. prev[t] \in InList \cup {HeadCell} /\ ~ marked[prev[t]] /\ next[prev[t]] = cur[t] /\ (prev[t] # HeadCell => key[prev[t]] < arg[t])
    <3>1. pc[t] \in OnPrev
      BY <1>1 DEF OnPrev
    <3> QED BY <1>6, <3>1, MStanding
  <2>5. cur[t] \in Node => arg[t] < key[cur[t]]
    <3>1. cur[t] \in Node => key[cur[t]] > arg[t]
      BY <1>1 DEF MInv, MPlace
    <3> QED BY <3>1
  <2>6. status' = [status EXCEPT ![n] = "linked"] /\ key' = [key EXCEPT ![n] = arg[t]]
    BY <1>0, <1>1, <1>2, <1>3, <2>3, Facts
  <2>7. Goes({}) /\ InList' = InList \cup {n}
    <3>1. ~ Gone(n) /\ ~ InUse(n)
      BY <1>2, <1>3 DEF Gone, InUse
    <3>2. next[prev[t]] \in InList => arg[t] < key[next[prev[t]]]
      BY <1>0, <2>4, <2>5, Facts
    <3>3. next' = [next EXCEPT ![n] = next[prev[t]], ![prev[t]] = n]
      BY <2>1, <2>4
    <3> QED BY <1>0, <1>1, <1>2, <1>3, <2>1, <2>2, <2>4, <2>6, <3>1, <3>2, <3>3, LinkGoes
  <2>8. News'
    <3>1. \A m \in New : status'[m] = "linked" /\ key'[m] = key[m]
      BY <1>0, <1>1, <2>3, Facts
    <3>2. \A j \in 0..3 : U(t, j)' \in Node => U(t, j)' \notin New'
      BY <1>0, <1>4, <2>2, <2>3, Constants, UsedNotNew
    <3> QED BY <1>0, <2>2, <2>3, <3>1, <3>2, NewsGoes
  <2>9. Taken'
    <3>1. \A m \in Node : status[m] = "unlinked" => status'[m] = "unlinked"
      BY <2>3
    <3> QED BY <1>0, <1>2, <2>2, <3>1, TakenGoes
  <2>10. Handed /\ Freed({})
    BY <2>3 DEF Handed, Freed
  <2> QED BY <1>2, <1>3, <1>6, <2>3, <2>7, <2>8, <2>9, <2>10 DEF Does, Contract, n
<1> QED BY <1>5, <1>6

\* Every step of Michael's list
LEMMA MDoes ==
  ASSUME MInv, NEW t \in Thread, Frame(t), kind' = kind, Steps(t)
  PROVE  Does(t)
<1>1. Common /\ kind \in Lists /\ MActs(t)
  BY MSteps DEF MInv, Lists
<1> QED BY <1>1, CallDoes, EmptyDoes, ClearDoes, ClearRetireDoes, LeaveDoes, FreeNodeDoes, MSearchDoes, MNextDoes, MPrevDoes,
           MStepDoes, MUnlinkDoes, MRetireDoes, MInsertDoes, MMarkDoes, MLinkDoes DEF MActs

-----------------------------------------------------------------------------
(* The steps of Michael's list: what the thread itself knows afterwards *)

\* What a call knows of its own place and of what it has read
MOwn(t) == Control(t) /\ MControl(t) /\ MPlace(t) /\ MRead(t)

\* A step within a call keeps what is known of where a call may be.
LEMMA ControlKept ==
  ASSUME NEW t \in Thread, Control(t), UNCHANGED <<kind, op, arg, node>>,
         {pc[t], pc'[t]} \cap {"idle", "empty", "clear", "clear_retire", "free"} = {}, pc[t] # "leave",
         pc'[t] = "leave" => ans'[t] # "none"
  PROVE  Control(t)'
BY DEF Control, AllocatesFirst, KeyOps

\* What the calls have noticed of the set
LEMMA Sees ==
  ASSUME Watch, NEW t \in Thread
  PROVE  /\ PendingIn(op[t], ans[t]) /\ PendingIn(op'[t], ans'[t]) =>
               (sawIn[t] => sawIn'[t]) /\ (sawOut[t] => sawOut'[t])
         /\ PendingIn(op'[t], ans'[t]) => (arg'[t] \in Members' => sawIn'[t]) /\ (Missing(t) => sawOut'[t])
         /\ sawIn'[t] \/ sawOut'[t] => PendingIn(op'[t], ans'[t])
BY DEF Watch

\* The calls notice what happens to the set.
LEMMA NoticedStep ==
  ASSUME Watch
  PROVE  Noticed'
BY Sees DEF Noticed, Pending, PendingIn, Lacks, Missing

\* search starts at the head and guards the first node.
LEMMA MSearchOwn ==
  ASSUME MInv, NEW t \in Thread, kind' = kind, Search(t) \/ CurGuard(t)
  PROVE  MOwn(t)'
<1>0. Common /\ kind = "michael" /\ kind \in Lists /\ R!RTypeOK /\ R!RGood /\ Control(t) /\ MControl(t)
  BY DEF MInv, Lists, Common, R!RGood
<1>1. CASE Search(t)
  <2>1. /\ pc[t] = "search" /\ pc'[t] = "cur_guard" /\ prev'[t] = HeadCell /\ UNCHANGED callVars
    BY <1>0, <1>1 DEF Search, Goto, Common, ListTypeOK
  <2>2. \A j \in 0..3 : H(t, j)' = Null
    BY <1>0, <1>1, SlotsReleased DEF Search
  <2>3. Control(t)'
    BY <1>0, <2>1, ControlKept DEF callVars
  <2>4. MControl(t)'
    BY <1>0, <2>1 DEF MControl, OnceMore, callVars
  <2>5. MPlace(t)'
    BY <2>1, <2>2 DEF MPlace, OnCur, OnPrev
  <2>6. MRead(t)'
    BY <2>1 DEF MRead
  <2> QED BY <2>3, <2>4, <2>5, <2>6 DEF MOwn
<1>2. CASE CurGuard(t)
  <2>1. /\ pc[t] = "cur_guard" /\ pc'[t] = "cur_check" /\ UNCHANGED <<callVars, prev, cur>> /\ Guard(t, 1, cur[t])
    BY <1>0, <1>2 DEF CurGuard, Goto, Common, ListTypeOK, posVars
  <2>2. prev[t] = HeadCell /\ H(t, 3) = Null /\ cur[t] \in Node \cup {Null}
    BY <2>1 DEF MInv, MPlace, MTypes, MichaelPC
  <2>3. H(t, 1)' = cur[t] /\ H(t, 3)' = Null
    BY <1>0, <2>1, <2>2, SlotGuarded
  <2>4. Control(t)'
    BY <1>0, <2>1, ControlKept DEF callVars
  <2>5. MControl(t)'
    BY <1>0, <2>1 DEF MControl, OnceMore, callVars
  <2>6. MPlace(t)'
    BY <2>1, <2>2, <2>3 DEF MPlace, OnCur, OnPrev
  <2>7. MRead(t)'
    BY <2>1 DEF MRead
  <2> QED BY <2>4, <2>5, <2>6, <2>7 DEF MOwn
<1> QED BY <1>1, <1>2

\* The end of a search: on cur, or past the last node
LEMMA MEndedOwn ==
  ASSUME MInv, NEW t \in Thread, kind' = kind, NEW found \in BOOLEAN, Ended(t, found), pc[t] \in OnceMore,
         UNCHANGED key, Before(t)', H(t, 3)' = Null,
         found => Held(t, 1, cur[t])' /\ key[cur'[t]] = arg[t],
         ~ found /\ cur'[t] \in Node => Held(t, 1, cur[t])' /\ key[cur'[t]] > arg[t]
  PROVE  MOwn(t)'
<1>0. Common /\ kind = "michael" /\ Control(t) /\ MControl(t)
  BY DEF MInv, Common
<1>1. /\ UNCHANGED <<op, arg, node>> /\ pc'[t] \notin OnceMore \cup {"erase_unlink", "erase_retire", "clear_retire"}
      /\ \/ ans[t] # "none" /\ ans' = ans /\ pc'[t] = "leave"
         \/ ans[t] = "none" /\ op[t] = "find" /\ found /\ ans'[t] = "yes" /\ pc'[t] = "touch"
         \/ ans[t] = "none" /\ op[t] \in {"find", "erase"} /\ ~ found /\ ans'[t] = "no" /\ pc'[t] = "leave"
         \/ ans[t] = "none" /\ op[t] = "erase" /\ found /\ ans' = ans /\ pc'[t] = "mark"
         \/ ans[t] = "none" /\ op[t] = "ensure" /\ found /\ ans' = ans /\ pc'[t] = "is_marked"
         \/ ans[t] = "none" /\ op[t] \in {"insert", "insertf"} /\ found /\ ans'[t] = "no" /\ pc'[t] = "leave"
         \/ ans[t] = "none" /\ op[t] = "insert" /\ ~ found /\ ans' = ans /\ pc'[t] = "link"
         \/ ans[t] = "none" /\ op[t] \in {"insertf", "ensure"} /\ ~ found /\ ans' = ans /\ pc'[t] = "guard_new"
  BY MEnded
<1>2. pc'[t] \in {"leave", "touch", "mark", "is_marked", "link", "guard_new"}
  BY <1>1
<1>3. Control(t)'
  BY <1>0, <1>1, <1>2, ControlKept DEF OnceMore
<1>4. MControl(t)'
  BY <1>0, <1>1, <1>2 DEF MControl, Inserts, OnceMore
<1>5. MPlace(t)'
  BY <1>0, <1>1, <1>2 DEF MPlace, OnCur, OnPrev
<1>6. MRead(t)'
  BY <1>2 DEF MRead
<1> QED BY <1>3, <1>4, <1>5, <1>6 DEF MOwn

\* It goes on if the link still leads there.
LEMMA MCurOwn ==
  ASSUME MInv, NEW t \in Thread, kind' = kind, CurCheck(t)
  PROVE  MOwn(t)'
<1>0. Common /\ kind = "michael" /\ kind \in Lists /\ R!RTypeOK /\ Control(t) /\ MControl(t)
  BY DEF MInv, Lists, Common, R!RGood
<1>1. /\ pc[t] = "cur_check" /\ pc[t] \in OnceMore /\ prev[t] = HeadCell /\ H(t, 1) = cur[t] /\ H(t, 3) = Null
      /\ cur[t] \in Node \cup {Null} /\ UNCHANGED <<next, marked, key, prev, cur, nxt, nmark>>
  BY <1>0 DEF CurCheck, OnceMore, MInv, MPlace, MTypes, listVars, posVars, MichaelPC
<1>2. CASE ~ LinkIs(HeadCell, cur[t])
  <2>1. pc'[t] = "search" /\ UNCHANGED callVars
    BY <1>0, <1>2 DEF CurCheck, Goto, Common, ListTypeOK
  <2>2. Control(t)'
    BY <1>0, <1>1, <2>1, ControlKept DEF callVars
  <2>3. MControl(t)' /\ MPlace(t)' /\ MRead(t)'
    BY <1>0, <1>1, <2>1 DEF MControl, OnceMore, callVars, MPlace, MRead, OnCur, OnPrev
  <2> QED BY <2>2, <2>3 DEF MOwn
<1>3. CASE LinkIs(HeadCell, cur[t])
  <2>1. R!Use(S(t, 1))
    BY <1>3 DEF CurCheck, S
  <2>2. U(t, 1)' = cur[t] /\ H(t, 3)' = Null
    BY <1>0, <1>1, <2>1, SlotUsed
  <2>3. CASE cur[t] = Null
    <3>1. Ended(t, FALSE)
      BY <1>3, <2>3 DEF CurCheck
    <3>2. Before(t)'
      BY <1>1 DEF Before
    <3> QED BY <1>0, <1>1, <2>2, <2>3, <3>1, <3>2, Constants, MEndedOwn
  <2>4. CASE cur[t] # Null
    <3>1. pc'[t] = "next" /\ UNCHANGED callVars
      BY <1>0, <1>3, <2>4 DEF CurCheck, Goto, Common, ListTypeOK
    <3>2. Control(t)'
      BY <1>0, <1>1, <3>1, ControlKept DEF callVars
    <3>3. MControl(t)' /\ MRead(t)'
      BY <1>0, <1>1, <3>1 DEF MControl, OnceMore, callVars, MRead
    <3>4. MPlace(t)'
      BY <1>1, <2>2, <2>4, <3>1 DEF MPlace, OnCur, OnPrev, Before, Held
    <3> QED BY <3>2, <3>3, <3>4 DEF MOwn
  <2> QED BY <2>3, <2>4
<1> QED BY <1>2, <1>3

\* It reads the next link of pCur and guards where that leads.
LEMMA MNextOwn ==
  ASSUME MInv, NEW t \in Thread, kind' = kind, Next_(t) \/ NextGuard(t)
  PROVE  MOwn(t)'
<1>0. Common /\ kind = "michael" /\ kind \in Lists /\ R!RTypeOK /\ Control(t) /\ MControl(t)
  BY DEF MInv, Lists, Common, R!RGood
<1>1. /\ pc[t] \in {"next", "next_guard"} /\ pc'[t] = (IF pc[t] = "next" THEN "next_guard" ELSE "next_check")
      /\ UNCHANGED <<callVars, next, marked, key, prev, cur>>
  BY <1>0 DEF Next_, NextGuard, Goto, Common, ListTypeOK, listVars, posVars
<1>2. Held(t, 1, cur[t]) /\ Before(t) /\ H(t, 3) = Null /\ nxt[t] \in Node \cup {Null}
  BY <1>0, <1>1 DEF MInv, MPlace, OnCur, OnPrev, MTypes, MichaelPC
<1>3. /\ H(t, 3)' = Null /\ \A j \in {1, 2} : U(t, j)' = U(t, j)
      /\ pc[t] = "next_guard" => H(t, 0)' = nxt'[t]
  <2>1. CASE Next_(t)
    <3>1. UNCHANGED <<hz, using>> /\ pc[t] = "next"
      BY <2>1 DEF Next_, reclaimVars
    <3> QED BY <1>2, <3>1, SlotsKept
  <2>2. CASE NextGuard(t)
    <3>1. Guard(t, 0, nxt[t]) /\ nxt' = nxt
      BY <2>2 DEF NextGuard, posVars
    <3> QED BY <1>0, <1>2, <3>1, SlotGuarded
  <2> QED BY <2>1, <2>2
<1>4. Control(t)'
  BY <1>0, <1>1, ControlKept DEF callVars
<1>5. MControl(t)' /\ MRead(t)'
  BY <1>0, <1>1 DEF MControl, OnceMore, callVars, MRead
<1>6. Held(t, 1, cur[t])' /\ Before(t)'
  BY <1>1, <1>2, <1>3 DEF Before, Held, callVars
<1>7. MPlace(t)'
  BY <1>1, <1>3, <1>6 DEF MPlace
<1> QED BY <1>4, <1>5, <1>7 DEF MOwn

\* What the re-read of the link of cur shows, if cur is still in the list
LEMMA MNextSeen ==
  ASSUME MInv, NEW t \in Thread, pc[t] = "next_check", NextUnmoved(t), status[cur[t]] = "linked"
  PROVE  /\ cur[t] \in InList /\ nxt[t] \in InList \cup {Null}
         /\ ~ nmark[t] /\ key[cur[t]] = arg[t] /\ ans[t] = "none" => sawIn[t]
         /\ key[cur[t]] < arg[t] /\ nxt[t] = Null => \A n \in InList : key[n] # arg[t]
         /\ key[cur[t]] < arg[t] /\ nxt[t] = Null /\ ans[t] = "none" => sawOut[t]
<1>0. Common /\ kind = "michael" /\ kind \in Lists /\ Control(t) /\ MControl(t)
  BY DEF MInv, Lists, Common
<1>1. Held(t, 1, cur[t])
  BY DEF MInv, MPlace, OnCur
<1>2. cur[t] \in InList
  BY <1>0, <1>1, UsedNotNew DEF Held, InList
<1>3. nxt[t] \in InList \cup {Null} /\ next[cur[t]] = nxt[t] /\ marked[cur[t]] = nmark[t]
  BY <1>0, <1>2, Facts DEF NextUnmoved, End
<1>4. op[t] \in KeyOps /\ arg[t] \in Keys
  BY <1>0 DEF Control, Common, ListTypeOK, Ops
<1>5. ~ nmark[t] /\ key[cur[t]] = arg[t] /\ ans[t] = "none" => sawIn[t]
  <2> SUFFICES ASSUME ~ nmark[t], key[cur[t]] = arg[t], ans[t] = "none" PROVE sawIn[t]
    OBVIOUS
  <2>1. arg[t] \in Members
    BY <1>0, <1>2, <1>3 DEF Common, Marks, Members
  <2> QED BY <1>0, <1>4, <2>1 DEF Common, Noticed, Pending, KeyOps
<1>6. ASSUME key[cur[t]] < arg[t], nxt[t] = Null, NEW n \in InList PROVE key[n] # arg[t]
  <2>1. key[n] = arg[t] => Precedes(cur[t], n)
    BY <1>6 DEF Precedes
  <2>2. next[cur[t]] \notin InList
    BY <1>0, <1>3, <1>6, Facts DEF End
  <2> QED BY <1>0, <1>2, <2>1, <2>2 DEF Common, Sorted
<1>7. key[cur[t]] < arg[t] /\ nxt[t] = Null /\ ans[t] = "none" => sawOut[t]
  <2> SUFFICES ASSUME key[cur[t]] < arg[t], nxt[t] = Null, ans[t] = "none" PROVE sawOut[t]
    OBVIOUS
  <2>1. Lacks(t)
    BY <1>0, <1>4, <1>6, Constants, Facts DEF Lacks, Members
  <2> QED BY <1>0, <1>4, <2>1 DEF Common, Noticed, Pending, KeyOps
<1> QED BY <1>2, <1>3, <1>5, <1>6, <1>7

\* It reads the link again: the guard now holds a node that was in the list after it.
LEMMA MNextCheckOwn ==
  ASSUME MInv, NEW t \in Thread, kind' = kind, Watch, NextCheck(t)
  PROVE  MOwn(t)'
<1>0. Common /\ kind = "michael" /\ kind \in Lists /\ Control(t) /\ MControl(t)
  BY DEF MInv, Lists, Common
<1>1. /\ pc[t] = "next_check" /\ UNCHANGED <<listVars, reclaimVars, callVars, posVars, items>>
      /\ pc'[t] = (IF NextUnmoved(t) THEN "prev_check" ELSE "search")
  BY <1>0 DEF NextCheck, Goto, Common, ListTypeOK
<1>2. Held(t, 1, cur[t]) /\ Before(t) /\ H(t, 3) = Null /\ H(t, 0) = nxt[t]
  BY <1>0, <1>1 DEF MInv, MPlace, OnCur, OnPrev, MichaelPC
<1>3. \A j : H(t, j)' = H(t, j) /\ U(t, j)' = U(t, j)
  BY <1>1, GuardsKept
<1>4. Control(t)'
  BY <1>0, <1>1, ControlKept DEF callVars
<1>5. MControl(t)'
  BY <1>0, <1>1 DEF MControl, OnceMore, callVars
<1>6. Held(t, 1, cur[t])' /\ Before(t)'
  BY <1>1, <1>2, <1>3 DEF Before, Held, callVars, posVars, listVars
<1>7. MPlace(t)'
  BY <1>1, <1>2, <1>3, <1>6 DEF MPlace, posVars
<1>8. MRead(t)'
  <2>1. CASE ~ NextUnmoved(t)
    BY <1>1, <2>1 DEF MRead
  <2>2. CASE NextUnmoved(t)
    <3>1. New' = New
      BY <1>0, <1>1 DEF New, Making, callVars
    <3>2. UNCHANGED <<next, marked, key, status, cur, nxt, nmark, op, arg, ans>> /\ InList' = InList
      BY <1>1, <3>1 DEF listVars, callVars, posVars, reclaimVars, InList
    <3>3. nmark[t] => marked[cur[t]] /\ next[cur[t]] = nxt[t]
      BY <2>2 DEF NextUnmoved
    <3>4. PendingIn(op[t], ans[t]) <=> ans[t] = "none"
      BY <1>0, <1>1 DEF PendingIn, Control
    <3>5. (ans[t] = "none" /\ sawIn[t] => sawIn'[t]) /\ (ans[t] = "none" /\ sawOut[t] => sawOut'[t])
      BY <3>2, <3>4, Sees
    <3>6. CASE status[cur[t]] # "linked"
      BY <1>1, <2>2, <3>2, <3>3, <3>6 DEF MRead
    <3>7. CASE status[cur[t]] = "linked"
      <4>1. /\ nxt[t] \in InList \cup {Null}
            /\ ~ nmark[t] /\ key[cur[t]] = arg[t] /\ ans[t] = "none" => sawIn[t]
            /\ key[cur[t]] < arg[t] /\ nxt[t] = Null /\ ans[t] = "none" => sawOut[t]
        BY <1>1, <2>2, <3>7, MNextSeen
      <4>2. nxt[t] \in Node => Shielded(S(t, 0), nxt[t])'
        BY <3>2, <4>1, Constants DEF Shielded
      <4> QED BY <1>1, <2>2, <3>2, <3>3, <3>5, <4>1, <4>2 DEF MRead
    <3> QED BY <3>6, <3>7
  <2> QED BY <2>1, <2>2
<1> QED BY <1>4, <1>5, <1>7, <1>8 DEF MOwn

\* The node before still leads to pCur, which is therefore on the list: the search ends, steps on, or unlinks.
LEMMA MPrevOwn ==
  ASSUME MInv, NEW t \in Thread, kind' = kind, Watch, PrevCheck(t)
  PROVE  MOwn(t)'
<1>0. Common /\ kind = "michael" /\ kind \in Lists /\ R!RTypeOK /\ Control(t) /\ MControl(t)
  BY DEF MInv, Lists, Common, R!RGood
<1>1. /\ pc[t] = "prev_check" /\ pc[t] \in OnceMore /\ UNCHANGED <<next, marked, key, prev, cur, nxt, nmark>>
      /\ Held(t, 1, cur[t]) /\ Before(t) /\ H(t, 3) = Null /\ H(t, 0) = nxt[t]
  BY <1>0 DEF PrevCheck, OnceMore, MInv, MPlace, OnCur, OnPrev, MichaelPC, listVars, posVars
<1>2. CASE ~ PrevUnmoved(t)
  <2>1. pc'[t] = "search" /\ UNCHANGED callVars
    BY <1>0, <1>2 DEF PrevCheck, Goto, Common, ListTypeOK
  <2>2. Control(t)'
    BY <1>0, <1>1, <2>1, ControlKept DEF callVars
  <2>3. MControl(t)' /\ MPlace(t)' /\ MRead(t)'
    BY <1>0, <1>1, <2>1 DEF MControl, OnceMore, callVars, MPlace, MRead, OnCur, OnPrev
  <2> QED BY <2>2, <2>3 DEF MOwn
<1>3. CASE PrevUnmoved(t)
  <2>1. R!Use(S(t, 0))
    BY <1>3 DEF PrevCheck, S
  <2>2. U(t, 0)' = nxt[t] /\ H(t, 3)' = Null /\ U(t, 1)' = U(t, 1) /\ U(t, 2)' = U(t, 2)
    BY <1>0, <1>1, <2>1, SlotUsed
  <2>3. cur[t] \in InList /\ status[cur[t]] = "linked" /\ key[cur[t]] \in Nat
    BY <1>0, <1>1, <1>3, MShielded, Facts
  <2>4. arg[t] \in Nat /\ op[t] # "none"
    <3>1. op[t] \in KeyOps
      BY <1>0, <1>1 DEF Control, Common, ListTypeOK, Ops
    <3> QED BY <1>0, <3>1, Constants DEF Control, KeyOps
  <2>5. arg' = arg
    <3>1. CASE \E found \in BOOLEAN : Ended(t, found)
      BY <1>1, <3>1, MEnded
    <3>2. CASE UNCHANGED callVars
      BY <3>2 DEF callVars
    <3> QED BY <1>3, <3>1, <3>2 DEF PrevCheck
  <2>6. Held(t, 1, cur[t])' /\ Before(t)'
    BY <1>1, <2>2, <2>5 DEF Before, Held
  <2>7. CASE nmark[t]
    <3>1. pc'[t] = "unlink" /\ UNCHANGED callVars
      BY <1>0, <1>3, <2>7 DEF PrevCheck, Goto, Common, ListTypeOK
    <3>2. marked[cur[t]] /\ next[cur[t]] = nxt[t]
      BY <1>1, <2>7 DEF MInv, MRead
    <3>3. Control(t)'
      BY <1>0, <1>1, <3>1, ControlKept DEF callVars
    <3>4. MControl(t)'
      BY <1>0, <1>1, <3>1 DEF MControl, OnceMore, callVars
    <3>5. MPlace(t)' /\ MRead(t)'
      BY <1>1, <2>2, <2>6, <3>1, <3>2 DEF MPlace, MRead
    <3> QED BY <3>3, <3>4, <3>5 DEF MOwn
  <2>8. CASE ~ nmark[t] /\ key[cur[t]] >= arg[t]
    <3>1. Ended(t, key[cur[t]] = arg[t])
      BY <1>3, <2>8 DEF PrevCheck
    <3>2. ~ (key[cur[t]] = arg[t]) => key[cur[t]] > arg[t]
      BY <2>3, <2>4, <2>8
    <3>3. PICK found \in BOOLEAN : found = (key[cur[t]] = arg[t])
      OBVIOUS
    <3>4. Ended(t, found)
      BY <3>1, <3>3
    <3> QED BY <1>0, <1>1, <2>2, <2>6, <3>2, <3>3, <3>4, MEndedOwn
  <2>9. CASE ~ nmark[t] /\ ~ (key[cur[t]] >= arg[t])
    <3>1. pc'[t] = "step" /\ UNCHANGED callVars /\ key[cur[t]] < arg[t]
      BY <1>0, <1>3, <2>3, <2>4, <2>9 DEF PrevCheck, Goto, Common, ListTypeOK
    <3>2. nxt[t] = Null /\ ans[t] = "none" => sawOut[t]
      BY <1>1, <2>3, <2>9, <3>1 DEF MInv, MRead
    <3>3. ans[t] = "none" /\ sawOut[t] => sawOut'[t]
      BY <2>4, <3>1, Sees DEF PendingIn, callVars
    <3>4. Control(t)'
      BY <1>0, <1>1, <3>1, ControlKept DEF callVars
    <3>5. MControl(t)'
      BY <1>0, <1>1, <3>1 DEF MControl, OnceMore, callVars
    <3>6. MPlace(t)' /\ MRead(t)'
      BY <1>1, <2>2, <2>6, <3>1, <3>2, <3>3 DEF MPlace, MRead, callVars, OnCur, OnPrev
    <3> QED BY <3>4, <3>5, <3>6 DEF MOwn
  <2> QED BY <2>7, <2>8, <2>9
<1> QED BY <1>2, <1>3

\* pPrev becomes pCur, whose key is smaller.
LEMMA MStepOwn ==
  ASSUME MInv, NEW t \in Thread, kind' = kind, Watch, Step(t)
  PROVE  MOwn(t)'
<1>0. Common /\ kind = "michael" /\ kind \in Lists /\ R!RTypeOK /\ Control(t) /\ MControl(t)
  BY DEF MInv, Lists, Common, R!RGood
<1>1. /\ pc[t] = "step" /\ UNCHANGED <<next, marked, key, cur, nxt, nmark, callVars>> /\ H(t, 3) = Null
      /\ Held(t, 1, cur[t]) /\ key[cur[t]] < arg[t] /\ (nxt[t] \in Node => U(t, 0) = nxt[t])
      /\ pc'[t] = "shift" /\ prev'[t] = cur[t] /\ R!Copy(S(t, 1), S(t, 2))
      /\ nxt[t] = Null /\ ans[t] = "none" => sawOut[t]
  BY <1>0 DEF Step, S, Goto, OnceMore, MInv, MPlace, MRead, OnCur, OnPrev, MichaelPC, listVars, Common, ListTypeOK
<1>2. U(t, 2)' = cur[t] /\ U(t, 0)' = U(t, 0) /\ H(t, 3)' = Null
  BY <1>0, <1>1, SlotCopied DEF Held
<1>3. ans[t] = "none" /\ sawOut[t] => sawOut'[t]
  BY <1>0, <1>1, Sees DEF PendingIn, callVars, Control
<1>4. Control(t)'
  BY <1>0, <1>1, ControlKept DEF callVars
<1>5. MControl(t)'
  BY <1>0, <1>1 DEF MControl, OnceMore, callVars
<1>6. MPlace(t)' /\ MRead(t)'
  BY <1>1, <1>2, <1>3 DEF MPlace, MRead, callVars, OnCur, OnPrev, Before, Held
<1> QED BY <1>4, <1>5, <1>6 DEF MOwn

\* pCur becomes pNext.
LEMMA MShiftOwn ==
  ASSUME MInv, NEW t \in Thread, kind' = kind, Shift(t)
  PROVE  MOwn(t)'
<1>0. Common /\ kind = "michael" /\ kind \in Lists /\ R!RTypeOK /\ Control(t) /\ MControl(t)
  BY DEF MInv, Lists, Common, R!RGood
<1>1. /\ pc[t] = "shift" /\ pc[t] \in OnceMore /\ UNCHANGED <<next, marked, key, prev, nxt, nmark>> /\ H(t, 3) = Null
      /\ Before(t) /\ (nxt[t] \in Node => U(t, 0) = nxt[t]) /\ nxt[t] \in Node \cup {Null}
      /\ cur'[t] = nxt[t] /\ MoveGuard(t, 0, 1, nxt[t])
  BY <1>0 DEF Shift, Goto, OnceMore, MInv, MPlace, MRead, OnCur, OnPrev, MichaelPC, listVars, Common, ListTypeOK, MTypes
<1>2. U(t, 1)' = nxt[t] /\ U(t, 2)' = U(t, 2) /\ H(t, 3)' = Null
  BY <1>0, <1>1, SlotMoved
<1>3. CASE nxt[t] = Null
  <2>1. Ended(t, FALSE)
    BY <1>3 DEF Shift
  <2>2. Before(t)'
    BY <1>1, <1>2, <2>1, MEnded DEF Before, Held
  <2> QED BY <1>0, <1>1, <1>2, <1>3, <2>1, <2>2, Constants, MEndedOwn
<1>4. CASE nxt[t] # Null
  <2>1. pc'[t] = "next" /\ UNCHANGED callVars
    BY <1>0, <1>4 DEF Shift, Goto, Common, ListTypeOK
  <2>2. Control(t)'
    BY <1>0, <1>1, <2>1, ControlKept DEF callVars
  <2>3. MControl(t)' /\ MRead(t)'
    BY <1>0, <1>1, <2>1 DEF MControl, OnceMore, callVars, MRead
  <2>4. MPlace(t)'
    BY <1>1, <1>2, <1>4, <2>1 DEF MPlace, OnCur, OnPrev, Before, Held, callVars
  <2> QED BY <2>2, <2>3, <2>4 DEF MOwn
<1> QED BY <1>3, <1>4

\* When the last node is unlinked, its predecessor is the last, and what comes after is gone.
LEMMA MNothingAfter ==
  ASSUME MInv, NEW t \in Thread, Frame(t), kind' = kind, Unlink(t) \/ EraseUnlink(t), PrevUnmoved(t), nxt[t] = Null
  PROVE  \A n \in InList' : key'[n] # arg[t]
<1>0. Common /\ kind = "michael" /\ kind \in Lists
  BY DEF MInv, Lists
<1>1. pc[t] \in OnPrev /\ key' = key /\ marked[cur[t]] /\ next' = [next EXCEPT ![prev[t]] = nxt[t]]
  BY DEF Unlink, EraseUnlink, PhysicalDeletion, OnPrev, MInv, MRead
<1>2. /\ Does(t) /\ InList' = InList \ {cur[t]} /\ cur[t] \in InList /\ prev[t] \in InList \cup {HeadCell}
      /\ (prev[t] # HeadCell => key[prev[t]] < arg[t])
  BY <1>1, MUnlinkDoes, MStanding
<1>3. next'[prev[t]] = Null /\ prev[t] # cur[t]
  <2>1. prev[t] \in Cell /\ next \in [Cell -> Pointer]
    BY <1>0, <1>2, Facts
  <2>2. ~ marked[prev[t]]
    BY DEF PrevUnmoved, LinkIs
  <2> QED BY <1>1, <2>1, <2>2
<1>4. prev[t] \in InList' \cup {HeadCell} /\ next'[prev[t]] \notin InList'
  BY <1>0, <1>2, <1>3, Facts, Constants
<1>5. \A n \in InList' : arg[t] = key'[n] => prev[t] = HeadCell \/ key'[prev[t]] < key'[n]
  BY <1>1, <1>2
<1>6. Sorted'
  BY <1>2 DEF Does, Goes
<1> QED BY <1>4, <1>5, <1>6 DEF Sorted, Precedes

\* Who unlinks a node knows that it was the successor of pPrev.
LEMMA MUnlinkOwn ==
  ASSUME MInv, NEW t \in Thread, Frame(t), kind' = kind, Watch, Unlink(t) \/ EraseUnlink(t)
  PROVE  MOwn(t)'
<1>0. Common /\ kind = "michael" /\ kind \in Lists /\ R!RTypeOK /\ Control(t) /\ MControl(t)
  BY DEF MInv, Lists, Common, R!RGood
<1>1. /\ pc[t] \in {"unlink", "erase_unlink"} /\ UNCHANGED <<marked, key, callVars, posVars, items, hz, using>>
      /\ H(t, 3) = Null /\ Held(t, 1, cur[t]) /\ Before(t) /\ next[cur[t]] = nxt[t]
      /\ pc[t] = "unlink" => (nxt[t] \in Node => U(t, 0) = nxt[t])
      /\ nxt[t] \in Node \cup {Null}
  <2>1. /\ pc[t] \in {"unlink", "erase_unlink"} /\ UNCHANGED <<marked, key, callVars, posVars, items, hz, using>>
    BY DEF Unlink, EraseUnlink, PhysicalDeletion, R!SetStatus, reclaimVars
  <2> QED BY <1>0, <2>1 DEF MInv, MPlace, MRead, OnCur, OnPrev, MichaelPC, MTypes
<1>2. \A j : H(t, j)' = H(t, j) /\ U(t, j)' = U(t, j)
  BY <1>1, SlotsKept
<1>3. Before(t)' /\ H(t, 3)' = Null
  BY <1>1, <1>2 DEF Before, Held, callVars, posVars
<1>4. pc'[t] \in {"search", "retire", "erase_retire"} /\ (pc'[t] = "retire" => pc[t] = "unlink") /\ (pc'[t] = "erase_retire" => pc[t] = "erase_unlink")
  BY <1>0 DEF Unlink, EraseUnlink, PhysicalDeletion, Goto, Common, ListTypeOK
<1>5. Control(t)'
  BY <1>0, <1>1, <1>4, ControlKept DEF callVars
<1>6. MControl(t)'
  BY <1>0, <1>1, <1>4 DEF MControl, OnceMore, callVars
<1>7. MPlace(t)'
  BY <1>1, <1>2, <1>3, <1>4 DEF MPlace, OnCur, OnPrev, posVars
<1>8. MRead(t)'
  <2> SUFFICES ASSUME pc'[t] = "retire", nxt[t] = Null, ans[t] = "none" PROVE sawOut'[t]
    BY <1>1, <1>4 DEF MRead, posVars, callVars
  <2>1. pc[t] = "unlink"
    BY <1>4
  <2>2. PrevUnmoved(t)
    BY <1>0, <2>1 DEF Unlink, EraseUnlink, PhysicalDeletion, Goto, Common, ListTypeOK
  <2>3. Does(t) /\ \A n \in InList' : key'[n] # arg[t]
    BY <2>2, MUnlinkDoes, MNothingAfter
  <2>4. Marks'
    BY <2>3 DEF Does, Goes
  <2>5. Missing(t) /\ PendingIn(op'[t], ans'[t])
    <3>1. op[t] \in KeyOps /\ arg[t] \in Keys
      BY <1>0, <2>1 DEF Control, Common, ListTypeOK, Ops
    <3>2. items' \subseteq InList'
      BY <2>4 DEF Marks
    <3> QED BY <1>1, <2>3, <3>1, <3>2, Constants DEF Missing, Members, PendingIn, callVars, KeyOps
  <2> QED BY <2>5, Sees
<1> QED BY <1>5, <1>6, <1>7, <1>8 DEF MOwn

\* After the node is handed over the search goes on, or erase ends.
LEMMA MRetireOwn ==
  ASSUME MInv, NEW t \in Thread, Frame(t), kind' = kind, Watch,
         Retire(t, "retire", "shift") \/ Retire(t, "erase_retire", "leave")
  PROVE  MOwn(t)'
<1>0. Common /\ kind = "michael" /\ Control(t) /\ MControl(t)
  BY DEF MInv, Common
<1>1. /\ pc[t] \in {"retire", "erase_retire"} /\ UNCHANGED <<next, marked, key, callVars, posVars, items, hz, using>>
      /\ pc'[t] = (IF pc[t] = "retire" THEN "shift" ELSE "leave") /\ H(t, 3) = Null
      /\ pc[t] = "erase_retire" => ans[t] = "yes"
      /\ pc[t] = "retire" => /\ Before(t) /\ (nxt[t] \in Node => U(t, 0) = nxt[t])
                             /\ nxt[t] = Null /\ ans[t] = "none" => sawOut[t]
  BY <1>0 DEF Retire, Goto, MInv, MPlace, MRead, MControl, MichaelPC, OnPrev, listVars, R!HandOver, Common, ListTypeOK
<1>2. \A j : H(t, j)' = H(t, j) /\ U(t, j)' = U(t, j)
  BY <1>1, SlotsKept
<1>3. ans[t] = "none" /\ sawOut[t] => sawOut'[t]
  BY <1>0, <1>1, Sees DEF PendingIn, callVars, Control
<1>4. Control(t)'
  BY <1>0, <1>1, ControlKept DEF callVars
<1>5. MControl(t)'
  BY <1>0, <1>1 DEF MControl, OnceMore, callVars
<1>6. pc[t] = "retire" => Before(t)'
  BY <1>1, <1>2 DEF Before, Held, callVars, posVars
<1>7. MPlace(t)' /\ MRead(t)'
  BY <1>1, <1>2, <1>3, <1>6 DEF MPlace, MRead, OnCur, OnPrev, MichaelPC, callVars, posVars
<1> QED BY <1>4, <1>5, <1>7 DEF MOwn

\* ensure and the inserts with a functor prepare the new node.
LEMMA MInsertOwn ==
  ASSUME MInv, NEW t \in Thread, kind' = kind, IsMarked(t) \/ GuardNew(t) \/ Functor(t)
  PROVE  MOwn(t)'
<1>0. Common /\ kind = "michael" /\ kind \in Lists /\ R!RTypeOK /\ Control(t) /\ MControl(t)
  BY DEF MInv, Lists, Common, R!RGood
<1>1. CASE IsMarked(t) \/ Functor(t)
  <2>1. /\ UNCHANGED <<listVars, reclaimVars, posVars, items, op, arg, node>>
        /\ pc[t] \in {"is_marked", "touch", "touch_new"}
        /\ \/ pc[t] = "is_marked" /\ pc'[t] = "search" /\ ans' = ans
           \/ pc[t] = "is_marked" /\ pc'[t] = "touch" /\ ans'[t] = "no"
           \/ pc[t] \in {"touch", "touch_new"} /\ pc'[t] = "leave" /\ ans' = ans
    BY <1>0, <1>1 DEF IsMarked, Functor, Answer, Goto, Common, ListTypeOK, callVars
  <2>2. \A j : H(t, j)' = H(t, j) /\ U(t, j)' = U(t, j)
    BY <2>1, GuardsKept
  <2>3. /\ pc[t] = "is_marked" => Held(t, 1, cur[t]) /\ H(t, 3) = Null
        /\ pc[t] \in {"touch", "touch_new"} => ans[t] # "none"
    BY <1>0 DEF MInv, MPlace, OnCur, MichaelPC, MControl
  <2>4. Control(t)'
    BY <1>0, <2>1, <2>3, ControlKept
  <2>5. MControl(t)'
    BY <1>0, <2>1 DEF MControl, OnceMore
  <2>6. MPlace(t)' /\ MRead(t)'
    BY <2>1, <2>2, <2>3 DEF MPlace, MRead, OnCur, OnPrev, MichaelPC, posVars, Held
  <2> QED BY <2>4, <2>5, <2>6 DEF MOwn
<1>2. CASE GuardNew(t)
  <2>1. /\ UNCHANGED <<listVars, callVars, posVars, items>> /\ pc[t] = "guard_new" /\ pc'[t] = "link"
        /\ Guard(t, 3, node[t]) /\ op[t] \in Inserts \ {"insert"} /\ Before(t)
        /\ cur[t] \in Node => Held(t, 1, cur[t]) /\ key[cur[t]] > arg[t]
    BY <1>0, <1>2 DEF GuardNew, Goto, Common, ListTypeOK, MInv, MControl, MPlace, OnPrev
  <2>2. node[t] \in Node
    BY <1>0, <2>1 DEF Control, AllocatesFirst, Inserts, Common, ListTypeOK
  <2>3. H(t, 3)' = node[t] /\ U(t, 1)' = U(t, 1) /\ U(t, 2)' = U(t, 2)
    BY <1>0, <2>1, <2>2, SlotGuarded
  <2>4. Control(t)'
    BY <1>0, <2>1, ControlKept DEF callVars
  <2>5. MControl(t)'
    BY <1>0, <2>1 DEF MControl, OnceMore, callVars
  <2>6. Before(t)' /\ (cur'[t] \in Node => Held(t, 1, cur[t])' /\ key'[cur'[t]] > arg'[t])
    BY <2>1, <2>3 DEF Before, Held, callVars, posVars, listVars
  <2>7. MPlace(t)' /\ MRead(t)'
    BY <2>1, <2>3, <2>6 DEF MPlace, MRead, OnCur, OnPrev, callVars
  <2> QED BY <2>4, <2>5, <2>7 DEF MOwn
<1> QED BY <1>1, <1>2

\* insert has linked its node, or searches again.
LEMMA MLinkOwn ==
  ASSUME MInv, NEW t \in Thread, kind' = kind, LinkNode(t)
  PROVE  MOwn(t)'
<1>0. Common /\ kind = "michael" /\ kind \in Lists /\ R!RTypeOK /\ Control(t) /\ MControl(t)
  BY DEF MInv, Lists, Common, R!RGood
<1>1. pc[t] = "link" /\ ans[t] = "none" /\ op[t] \in Inserts /\ UNCHANGED <<op, arg, node>>
  BY DEF LinkNode, MInv, MControl, Answer, callVars
<1>2. node[t] \in Node /\ status[node[t]] = "linked" /\ (H(t, 3) = IF op[t] = "insert" THEN Null ELSE node[t])
  BY <1>0, <1>1 DEF Control, AllocatesFirst, Inserts, Making, Common, ListTypeOK, News, MInv, MPlace
<1>3. CASE PrevUnmoved(t)
  <2>1. R!Use(S(t, 3)) /\ ans'[t] = "yes" /\ pc'[t] = (IF op[t] = "insert" THEN "leave" ELSE "touch_new")
    BY <1>0, <1>3 DEF LinkNode, Answer, Goto, Common, ListTypeOK, S
  <2>2. U(t, 3)' = H(t, 3)
    BY <1>0, <2>1, SlotUsed
  <2>3. Control(t)'
    BY <1>0, <1>1, <2>1, ControlKept
  <2>4. MControl(t)'
    BY <1>0, <1>1, <1>2, <2>1, Constants DEF MControl, OnceMore
  <2>5. MPlace(t)' /\ MRead(t)'
    BY <1>1, <1>2, <2>1, <2>2 DEF MPlace, MRead, OnCur, OnPrev, Held, MichaelPC
  <2> QED BY <2>3, <2>4, <2>5 DEF MOwn
<1>4. CASE ~ PrevUnmoved(t)
  <2>1. pc'[t] = "search" /\ UNCHANGED callVars
    BY <1>0, <1>4 DEF LinkNode, Goto, Common, ListTypeOK
  <2>2. Control(t)'
    BY <1>0, <1>1, <2>1, ControlKept DEF callVars
  <2>3. MControl(t)' /\ MPlace(t)' /\ MRead(t)'
    BY <1>0, <1>1, <2>1 DEF MControl, OnceMore, callVars, MPlace, MRead, OnCur, OnPrev
  <2> QED BY <2>2, <2>3 DEF MOwn
<1> QED BY <1>3, <1>4

\* erase has marked the node, or searches again.
LEMMA MMarkOwn ==
  ASSUME MInv, NEW t \in Thread, kind' = kind, Mark(t)
  PROVE  MOwn(t)'
<1>0. Common /\ kind = "michael" /\ Control(t) /\ MControl(t)
  BY DEF MInv, Common
<1>1. /\ pc[t] = "mark" /\ op[t] = "erase" /\ ans[t] = "none" /\ UNCHANGED <<next, key, reclaimVars, posVars, op, arg, node>>
      /\ Held(t, 1, cur[t]) /\ Before(t) /\ H(t, 3) = Null
  BY <1>0 DEF Mark, MInv, MControl, MPlace, OnCur, OnPrev, MichaelPC, callVars, Answer
<1>2. \A j : H(t, j)' = H(t, j) /\ U(t, j)' = U(t, j)
  BY <1>1, GuardsKept
<1>3. CASE LogicalDeletion(t)
  <2>1. pc'[t] = "erase_unlink" /\ ans'[t] = "yes" /\ marked'[cur[t]] /\ next[cur[t]] = nxt[t]
    BY <1>0, <1>1, <1>3 DEF Mark, Answer, Goto, Common, ListTypeOK, LogicalDeletion, LinkIs, Held, Cell
  <2>2. Control(t)'
    BY <1>0, <1>1, <2>1, ControlKept
  <2>3. MControl(t)'
    BY <1>0, <1>1, <2>1 DEF MControl, OnceMore
  <2>4. Held(t, 1, cur[t])' /\ Before(t)'
    BY <1>1, <1>2 DEF Before, Held, posVars
  <2>5. MPlace(t)' /\ MRead(t)'
    BY <1>1, <1>2, <2>1, <2>4 DEF MPlace, MRead, posVars
  <2> QED BY <2>2, <2>3, <2>5 DEF MOwn
<1>4. CASE ~ LogicalDeletion(t)
  <2>1. pc'[t] = "search" /\ UNCHANGED callVars
    BY <1>0, <1>4 DEF Mark, Goto, Common, ListTypeOK
  <2>2. Control(t)'
    BY <1>0, <1>1, <2>1, ControlKept DEF callVars
  <2>3. MControl(t)' /\ MPlace(t)' /\ MRead(t)'
    BY <1>0, <1>1, <2>1 DEF MControl, OnceMore, callVars, MPlace, MRead, OnCur, OnPrev
  <2> QED BY <2>2, <2>3 DEF MOwn
<1> QED BY <1>3, <1>4

\* The steps of both lists leave their call where nothing is known.
LEMMA SharedControl ==
  ASSUME Common, kind \in Lists, NEW t \in Thread, kind' = kind,
         Call(t) \/ Empty(t) \/ Clear(t) \/ ClearRetire(t) \/ Leave(t) \/ FreeNode(t)
  PROVE  /\ Control(t)' /\ (pc'[t] = "search" => ans'[t] = "none")
         /\ pc'[t] \in {"search", "empty", "clear", "clear_retire", "leave", "free", "idle"}
<1>0. Control(t) /\ R!RTypeOK /\ R!RGood
  BY DEF Common, R!RGood
<1>1. CASE Call(t)
  <2>1. pc[t] = "idle" /\ op[t] = "none" /\ ans[t] = "none" /\ node[t] = Null /\ arg[t] = NoKey /\ \A j \in 0..3 : U(t, j) = Null
    BY <1>0, <1>1 DEF Call, Control, AllocatesFirst, Inserts
  <2>2. ASSUME NEW o \in KeyOps, NEW k \in Keys, CallKeyed(t, o, k) PROVE Control(t)' /\ ans'[t] = "none" /\ pc'[t] = "search"
    <3>1. op'[t] = o /\ arg'[t] = k /\ ans'[t] = "none" /\ pc'[t] = "search"
      BY <2>1, <2>2 DEF CallKeyed, Goto, Common, ListTypeOK
    <3>2. node'[t] # Null <=> AllocatesFirst(o)
      <4>1. CASE AllocatesFirst(o)
        <5>1. PICK n \in Node : node' = [node EXCEPT ![t] = n]
          BY <2>2, <4>1 DEF CallKeyed
        <5> QED BY <4>1, <5>1, Constants DEF Common, ListTypeOK
      <4>2. CASE ~ AllocatesFirst(o)
        BY <2>1, <2>2, <4>2 DEF CallKeyed
      <4> QED BY <4>1, <4>2
    <3>3. AllocatesFirst(o)' <=> AllocatesFirst(o)
      BY DEF AllocatesFirst
    <3> QED BY <3>1, <3>2, <3>3 DEF Control, KeyOps, AllocatesFirst
  <2>3. CASE CallEmpty(t) \/ CallClear(t)
    <3>1. /\ UNCHANGED <<arg, ans, node>> /\ UNCHANGED reclaimVars
          /\ \/ op'[t] = "empty" /\ pc'[t] = "empty"
             \/ op'[t] = "clear" /\ pc'[t] = "clear"
      BY <2>3 DEF CallEmpty, CallClear, Goto, Common, ListTypeOK
    <3>2. \A j \in 0..3 : U(t, j)' = Null
      BY <2>1, <3>1, GuardsKept
    <3> QED BY <2>1, <3>1, <3>2 DEF Control, KeyOps, AllocatesFirst, Inserts
  <2> QED BY <1>1, <2>2, <2>3 DEF Call
<1>2. CASE Empty(t)
  <2>1. /\ pc[t] = "empty" /\ pc'[t] = "leave" /\ ans'[t] # "none" /\ UNCHANGED <<op, arg, node>>
    BY <1>2 DEF Empty, Answer, Goto, Common, ListTypeOK
  <2> QED BY <1>0, <2>1 DEF Control, KeyOps, AllocatesFirst
<1>3. CASE Clear(t) \/ ClearRetire(t)
  <2>1. /\ UNCHANGED <<op, arg, node, hz, using>> /\ pc[t] \in {"clear", "clear_retire"}
        /\ \/ pc'[t] = "leave" /\ ans'[t] = "yes"
           \/ pc'[t] \in {"clear", "clear_retire"} /\ ans' = ans
    BY <1>3 DEF Clear, ClearRetire, Answer, Goto, Common, ListTypeOK, callVars, reclaimVars, R!SetStatus, R!HandOver
  <2>2. \A j \in 0..3 : U(t, j)' = U(t, j)
    BY <2>1, SlotsKept
  <2> QED BY <1>0, <2>1, <2>2 DEF Control, KeyOps, AllocatesFirst
<1>4. CASE Leave(t)
  <2>1. \A j \in 0..3 : U(t, j)' = Null
    BY <1>0, <1>4, SlotsReleased DEF Leave
  <2>2. CASE NotLinked(t)
    <3>1. pc[t] = "leave" /\ pc'[t] = "free" /\ UNCHANGED callVars /\ node[t] # Null /\ ans[t] = "no"
      BY <1>4, <2>2 DEF Leave, Goto, Common, ListTypeOK, NotLinked
    <3>2. op[t] \in Inserts
      BY <1>0, <3>1 DEF Control, AllocatesFirst, Inserts
    <3> QED BY <1>0, <2>1, <3>1, <3>2 DEF Control, KeyOps, AllocatesFirst, Inserts, callVars
  <2>3. CASE ~ NotLinked(t)
    <3>1. pc'[t] = "idle" /\ op'[t] = "none" /\ arg'[t] = NoKey /\ ans'[t] = "none" /\ node'[t] = Null
      BY <1>4, <2>3 DEF Leave, Idle, Goto, Common, ListTypeOK
    <3> QED BY <2>1, <3>1 DEF Control, KeyOps, AllocatesFirst, Inserts
  <2> QED BY <2>2, <2>3
<1>5. CASE FreeNode(t)
  <2>1. /\ pc'[t] = "idle" /\ op'[t] = "none" /\ arg'[t] = NoKey /\ ans'[t] = "none" /\ node'[t] = Null
        /\ pc[t] = "free" /\ UNCHANGED <<hz, using>>
    BY <1>5 DEF FreeNode, Idle, Goto, Common, ListTypeOK, R!Discard, R!SetStatus
  <2>2. \A j \in 0..3 : U(t, j)' = Null
    BY <1>0, <2>1, SlotsKept DEF Control
  <2> QED BY <2>1, <2>2 DEF Control, KeyOps, AllocatesFirst, Inserts
<1> QED BY <1>1, <1>2, <1>3, <1>4, <1>5

\* Every step of Michael's list
LEMMA MOwnStep ==
  ASSUME MInv, NEW t \in Thread, Frame(t), kind' = kind, Watch, Steps(t)
  PROVE  MOwn(t)'
<1>1. Common /\ kind \in Lists /\ MActs(t) /\ kind = "michael"
  BY MSteps DEF MInv, Lists
<1>2. ASSUME Call(t) \/ Empty(t) \/ Clear(t) \/ ClearRetire(t) \/ Leave(t) \/ FreeNode(t) PROVE MOwn(t)'
  <2>1. /\ Control(t)' /\ (pc'[t] = "search" => ans'[t] = "none")
        /\ pc'[t] \in {"search", "empty", "clear", "clear_retire", "leave", "free", "idle"}
    BY <1>1, <1>2, SharedControl
  <2>2. MControl(t)'
    BY <1>1, <2>1 DEF MControl, OnceMore
  <2>3. MPlace(t)' /\ MRead(t)'
    BY <2>1 DEF MPlace, MRead, OnCur, OnPrev, MichaelPC
  <2> QED BY <2>1, <2>2, <2>3 DEF MOwn
<1> QED BY <1>1, <1>2, MSearchOwn, MCurOwn, MNextOwn, MNextCheckOwn, MPrevOwn, MStepOwn, MShiftOwn, MUnlinkOwn,
           MRetireOwn, MInsertOwn, MLinkOwn, MMarkOwn DEF MActs

-----------------------------------------------------------------------------
(* What the other threads know stays true *)

\* What thread u is left with by a step of another
Undisturbed(u) ==
    /\ pc'[u] = pc[u] /\ op'[u] = op[u] /\ arg'[u] = arg[u] /\ ans'[u] = ans[u]
    /\ node'[u] = node[u] /\ prev'[u] = prev[u] /\ cur'[u] = cur[u]
    /\ nxt'[u] = nxt[u] /\ nmark'[u] = nmark[u]
    /\ \A j \in 0..3 : H(u, j)' = H(u, j) /\ U(u, j)' = U(u, j)
    /\ \A j \in 0..3 : \A n \in Node : S(u, j) \in blockers[n] => S(u, j) \in blockers'[n]

\* A step leaves the other threads undisturbed.
LEMMA Others ==
  ASSUME NEW t \in Thread, Frame(t), OthersGuard(t), NEW u \in Thread \ {t}
  PROVE  Undisturbed(u)
BY DEF Frame, OthersGuard, Undisturbed, S

\* A node that is read through a guard is kept.
LEMMA UsedKept ==
  ASSUME Common, kind \in Lists, NEW A \in SUBSET Node, Goes(A), Freed(A),
         NEW t \in Thread, NEW j \in 0..3, U(t, j) \in Node
  PROVE  Kept(U(t, j))
<1>1. InUse(U(t, j)) /\ U(t, j) \notin New
  BY UsedNotNew
<1>2. status[U(t, j)] = "retired" => blockers[U(t, j)] # {}
  <2>1. R!RGood /\ <<t, j>> \in Slot /\ using[<<t, j>>] \in Node
    BY Slots DEF Common, U
  <2>2. status[using[<<t, j>>]] = "retired" => blockers[using[<<t, j>>]] # {}
    BY <2>1, R!UsedIsSafe
  <2> QED BY <2>2 DEF U
<1>3. U(t, j) \notin A
  BY <1>1, <1>2 DEF Freed
<1> QED BY <1>1, <1>3 DEF Goes

\* What is shielded stays so.
LEMMA ShieldKept ==
  ASSUME Common, kind \in Lists, NEW A \in SUBSET Node, Goes(A), Freed(A), Handed,
         NEW t \in Thread, NEW j \in 0..3, Undisturbed(t), NEW n \in Node, H(t, j) = n, Shielded(S(t, j), n)
  PROVE  Shielded(S(t, j), n)'
<1>1. n \notin New /\ status[n] # "free" /\ (status[n] = "retired" => S(t, j) \in blockers[n])
  <2>1. S(t, j) \in blockers[n] => status[n] = "retired"
    BY DEF Common, R!RGood, R!Unblocked
  <2>2. \A m \in New : status[m] = "linked"
    BY Facts
  <2>3. n \in InList => status[n] = "linked" /\ n \notin New
    BY Facts
  <2> QED BY <2>1, <2>2, <2>3 DEF Shielded
<1>2. n \notin A
  BY <1>1 DEF Freed
<1>3. Kept(n)
  BY <1>1, <1>2 DEF InUse, Goes
<1>4. status[n] = "unlinked" /\ status'[n] = "retired" => S(t, j) \in blockers'[n]
  BY Slots DEF Handed, S, H
<1>5. S(t, j) \in blockers[n] => S(t, j) \in blockers'[n]
  BY DEF Undisturbed
<1> QED BY <1>1, <1>3, <1>4, <1>5, Facts DEF Kept, Shielded, InList, R!Life

\* What a call of Michael's list knows stays true in the steps of the others.
LEMMA MOthers ==
  ASSUME MInv, kind' = kind, Watch, Handed, NEW A \in SUBSET Node, Goes(A), Freed(A),
         NEW u \in Thread, Undisturbed(u)
  PROVE  MOwn(u)'
<1>0. /\ Common /\ kind = "michael" /\ kind \in Lists
      /\ Control(u) /\ MControl(u) /\ MPlace(u) /\ MRead(u)
  BY DEF MInv, Lists, Common
<1>1. /\ pc'[u] = pc[u] /\ op'[u] = op[u] /\ arg'[u] = arg[u] /\ ans'[u] = ans[u]
      /\ node'[u] = node[u] /\ prev'[u] = prev[u] /\ cur'[u] = cur[u]
      /\ nxt'[u] = nxt[u] /\ nmark'[u] = nmark[u]
      /\ \A j \in 0..3 : H(u, j)' = H(u, j) /\ U(u, j)' = U(u, j)
  BY DEF Undisturbed
<1>2. \A j \in 0..3 : U(u, j) \in Node => Kept(U(u, j))
  BY <1>0, UsedKept
<1>3. \A i \in {1, 2} : \A n : Held(u, i, n) => Held(u, i, n)' /\ Kept(n)
  BY <1>1, <1>2 DEF Held
<1>4. Before(u) => Before(u)'
  BY <1>1, <1>2 DEF Before, Held, Kept
<1>5. Control(u)'
  BY <1>0, <1>1 DEF Control, AllocatesFirst
<1>6. MControl(u)'
  BY <1>0, <1>1 DEF MControl, OnceMore
<1>7. MPlace(u)'
  <2>1. pc[u] \in OnCur => Held(u, 1, cur[u])' /\ key'[cur[u]] = key[cur[u]]
    BY <1>0, <1>1, <1>2 DEF MPlace, Kept, Held
  <2>2. pc[u] \in {"guard_new", "link"} /\ cur[u] \in Node => Held(u, 1, cur[u])' /\ key'[cur[u]] = key[cur[u]]
    BY <1>0, <1>1, <1>2 DEF MPlace, Kept, Held
  <2>3. pc[u] \in {"step", "is_marked", "mark"} => pc[u] \in OnCur
    BY DEF OnCur
  <2>4. pc[u] = "touch_new" => Held(u, 3, node[u])'
    BY <1>0, <1>1 DEF MPlace, Held
  <2>5. cur[u]' = cur[u] /\ Held(u, 1, cur[u])' = (cur[u] \in Node /\ U(u, 1)' = cur[u])
    BY <1>1 DEF Held
  <2> QED BY <1>0, <1>1, <1>4, <2>1, <2>2, <2>3, <2>4, <2>5 DEF MPlace
<1>8. MRead(u)'
  <2>1. pc[u] \in {"unlink", "erase_unlink", "prev_check"} => Held(u, 1, cur[u]) /\ Kept(cur[u])
    BY <1>0, <1>3 DEF MPlace, OnCur
  <2>2. pc[u] \in {"unlink", "erase_unlink"} => marked'[cur[u]] /\ next'[cur[u]] = nxt[u]
    BY <1>0, <2>1 DEF MRead, Kept
  <2>3. pc[u] = "prev_check" /\ nmark[u] => marked'[cur[u]] /\ next'[cur[u]] = nxt[u]
    BY <1>0, <2>1 DEF MRead, Kept
  <2>4. pc[u] # "idle" => op[u] # "none"
    BY <1>0 DEF Control
  <2>5. /\ pc[u] # "idle" /\ ans[u] = "none" /\ sawIn[u] => sawIn'[u]
        /\ pc[u] # "idle" /\ ans[u] = "none" /\ sawOut[u] => sawOut'[u]
    BY <1>1, <2>4, Sees DEF PendingIn
  <2>6. pc[u] = "prev_check" /\ nxt[u] \in Node /\ Shielded(S(u, 0), nxt[u]) => Shielded(S(u, 0), nxt[u])'
    <3>1. SUFFICES ASSUME pc[u] = "prev_check", nxt[u] \in Node, Shielded(S(u, 0), nxt[u]) PROVE Shielded(S(u, 0), nxt[u])'
      OBVIOUS
    <3>2. PICK n \in Node : n = nxt[u]
      BY <3>1
    <3>3. H(u, 0) = n /\ Shielded(S(u, 0), n)
      BY <1>0, <3>1, <3>2 DEF MPlace
    <3>4. Shielded(S(u, 0), n)'
      BY <1>0, <3>3, ShieldKept
    <3> QED BY <1>1, <3>2, <3>4 DEF Shielded
  <2>7. pc[u] = "prev_check" => (status'[cur[u]] = "linked" => status[cur[u]] = "linked") /\ key'[cur[u]] = key[cur[u]]
    BY <2>1 DEF Kept
  <2>8. /\ pc'[u] \in {"unlink", "erase_unlink"} => marked'[cur'[u]] /\ next'[cur'[u]] = nxt'[u]
        /\ pc'[u] \in {"step", "retire", "shift"} /\ nxt'[u] = Null /\ ans'[u] = "none" => sawOut'[u]
    BY <1>0, <1>1, <2>2, <2>5 DEF MRead
  <2>9. pc'[u] = "prev_check" =>
          /\ nmark'[u] => marked'[cur'[u]] /\ next'[cur'[u]] = nxt'[u]
          /\ status'[cur'[u]] = "linked" =>
                /\ nxt'[u] \in Node => Shielded(S(u, 0), nxt[u])'
                /\ ~nmark'[u] /\ key'[cur'[u]] = arg'[u] /\ ans'[u] = "none" => sawIn'[u]
                /\ ~nmark'[u] /\ key'[cur'[u]] < arg'[u] /\ nxt'[u] = Null /\ ans'[u] = "none" => sawOut'[u]
    BY <1>0, <1>1, <2>3, <2>5, <2>6, <2>7 DEF MRead
  <2> QED BY <2>8, <2>9 DEF MRead
<1> QED BY <1>5, <1>6, <1>7, <1>8 DEF MOwn

-----------------------------------------------------------------------------
(* Michael's list: a marked node has an eraser *)

\* What is marked and listed was listed before.
LEMMA MarkedListed ==
  ASSUME Common, kind \in Lists, NEW A \in SUBSET Node, Goes(A), Freed(A), NEW n \in InList', marked[n]
  PROVE  n \in InList
<1>1. n \in Node /\ status'[n] = "linked"
  BY DEF InList
<1>2. InUse(n)
  BY <1>1 DEF Common, Marks, InUse
<1>3. Kept(n)
  BY <1>1, <1>2 DEF Goes, Freed
<1> QED BY <1>1, <1>2, <1>3, Facts DEF Kept, InUse, InList

\* A mark is set by erase on its pCur, and by clear on a node it takes out.
LEMMA MMarking ==
  ASSUME MInv, NEW t \in Thread, MActs(t), NEW n \in Node, marked'[n], ~ marked[n]
  PROVE  (Mark(t) /\ LogicalDeletion(t) /\ n = cur[t]) \/ (Clear(t) /\ n \notin InList')
<1>0. Common /\ marked \in [Cell -> BOOLEAN] /\ kind \in Lists
  BY DEF MInv, Common, ListTypeOK, Lists
<1>1. CASE Call(t)
  BY <1>1 DEF Call, CallKeyed, CallEmpty, CallClear, listVars
<1>2. CASE \/ Search(t) \/ CurGuard(t) \/ CurCheck(t) \/ Next_(t) \/ NextGuard(t)
           \/ NextCheck(t) \/ PrevCheck(t) \/ Step(t) \/ Shift(t)
  BY <1>2 DEF Search, CurGuard, CurCheck, Next_, NextGuard, NextCheck, PrevCheck, Step, Shift, listVars
<1>3. CASE \/ Unlink(t) \/ EraseUnlink(t) \/ Retire(t, "retire", "shift") \/ Retire(t, "erase_retire", "leave")
           \/ IsMarked(t) \/ GuardNew(t) \/ LinkNode(t) \/ Functor(t)
  BY <1>3 DEF Unlink, EraseUnlink, PhysicalDeletion, Retire, IsMarked, GuardNew, LinkNode, Functor, listVars
<1>4. CASE Mark(t)
  BY <1>0, <1>4 DEF Mark, Cell
<1>5. CASE Clear(t)
  <2>1. next[HeadCell] \in InList /\ n = next[HeadCell] /\ status' = [status EXCEPT ![n] = "unlinked"]
    BY <1>0, <1>5, Facts DEF Clear, listVars, R!SetStatus
  <2> QED BY <1>0, <1>5, <2>1, Facts DEF InList
<1>6. CASE Empty(t) \/ ClearRetire(t) \/ Leave(t)
  BY <1>6 DEF Empty, ClearRetire, Leave, listVars
<1>7. CASE FreeNode(t)
  BY <1>0, <1>7 DEF FreeNode, Forget
<1> QED BY <1>1, <1>2, <1>3, <1>4, <1>5, <1>6, <1>7 DEF MActs

\* The eraser of a node goes on looking for it.
LEMMA MOwnerKept ==
  ASSUME MInv, NEW t \in Thread, Frame(t), kind' = kind, MActs(t), NEW n \in InList, n \in InList', marked[n],
         key'[n] = key[n], MOwner(t, n)
  PROVE  MOwner(t, n)'
<1>0. /\ Common /\ kind = "michael" /\ kind \in Lists /\ t \in DOMAIN pc /\ n \in Node
      /\ op[t] = "erase" /\ ans[t] = "yes" /\ arg[t] = key[n] /\ pc[t] \in OnceMore \cup {"erase_unlink"}
      /\ Sorted /\ key[n] \in Nat
  BY Facts DEF MInv, Lists, Common, ListTypeOK, MOwner
<1> USE DEF Goto, callVars
<1>1. CASE Search(t) \/ CurGuard(t) \/ Next_(t) \/ NextGuard(t)
  <2>1. UNCHANGED <<op, ans, arg>> /\ pc'[t] \in {"cur_guard", "cur_check", "next_guard", "next_check"}
    BY <1>0, <1>1 DEF Search, CurGuard, Next_, NextGuard
  <2> QED BY <1>0, <2>1 DEF MOwner, OnceMore
<1>2. CASE CurCheck(t)
  <2>1. CASE LinkIs(HeadCell, cur[t]) /\ cur[t] = Null
    <3>1. next[HeadCell] \notin InList
      BY <1>0, <2>1, Facts DEF LinkIs, End
    <3> QED BY <1>0, <3>1 DEF Sorted, Precedes
  <2>2. CASE ~ (LinkIs(HeadCell, cur[t]) /\ cur[t] = Null)
    <3>1. UNCHANGED <<op, ans, arg>> /\ pc'[t] \in {"search", "next"}
      BY <1>0, <1>2, <2>2 DEF CurCheck
    <3> QED BY <1>0, <3>1 DEF MOwner, OnceMore
  <2> QED BY <2>1, <2>2
<1>3. CASE NextCheck(t)
  <2>1. UNCHANGED <<op, ans, arg, cur, nmark, nxt, status, key>> /\ pc[t] = "next_check"
        /\ pc'[t] = (IF NextUnmoved(t) THEN "prev_check" ELSE "search")
    BY <1>0, <1>3 DEF NextCheck, posVars, reclaimVars, listVars
  <2>2. CASE ~ NextUnmoved(t)
    BY <1>0, <2>1, <2>2 DEF MOwner, OnceMore
  <2>3. CASE NextUnmoved(t)
    <3>1. ~ nmark[t] => cur[t] # n
      BY <2>3 DEF NextUnmoved
    <3>2. status[cur[t]] = "linked" => ~ (nxt[t] = Null /\ key[cur[t]] < arg[t])
      BY <1>0, <2>1, <2>3, MNextSeen
    <3> QED BY <1>0, <2>1, <2>3, <3>1, <3>2 DEF MOwner, OnceMore
  <2> QED BY <2>2, <2>3
<1>4. CASE PrevCheck(t)
  <2>0. pc[t] = "prev_check" /\ pc[t] \in OnPrev /\ Held(t, 1, cur[t])
    BY <1>4 DEF PrevCheck, OnPrev, MInv, MPlace, OnCur
  <2>1. CASE ~ PrevUnmoved(t)
    <3>1. UNCHANGED <<op, ans, arg>> /\ pc'[t] = "search"
      BY <1>0, <1>4, <2>1 DEF PrevCheck
    <3> QED BY <1>0, <3>1 DEF MOwner, OnceMore
  <2>2. CASE PrevUnmoved(t)
    <3>1. /\ cur[t] \in InList /\ status[cur[t]] = "linked" /\ key[cur[t]] \in Nat
          /\ prev[t] \in InList \cup {HeadCell} /\ next[prev[t]] = cur[t] /\ (prev[t] # HeadCell => key[prev[t]] < arg[t])
      BY <1>0, <2>0, <2>2, MShielded, MStanding, Facts
    <3>2. cur[t] = n \/ key[cur[t]] < key[n]
      <4>1. Precedes(prev[t], n)
        BY <1>0, <3>1 DEF Precedes
      <4> QED BY <1>0, <3>1, <4>1 DEF Sorted
    <3>3. CASE nmark[t]
      <4>1. UNCHANGED <<op, ans, arg>> /\ pc'[t] = "unlink"
        BY <1>0, <1>4, <2>2, <3>3 DEF PrevCheck
      <4> QED BY <1>0, <4>1 DEF MOwner, OnceMore
    <3>4. CASE ~ nmark[t]
      <4>1. cur[t] # n /\ ~ (nxt[t] = Null /\ key[cur[t]] < arg[t])
        BY <2>0, <3>1, <3>4 DEF MOwner
      <4>2. key[cur[t]] < arg[t] /\ ~ (key[cur[t]] >= arg[t]) /\ nxt[t] # Null
        BY <1>0, <3>1, <3>2, <4>1
      <4>3. UNCHANGED <<op, ans, arg, nxt>> /\ pc'[t] = "step"
        BY <1>0, <1>4, <2>2, <3>4, <4>2 DEF PrevCheck, posVars
      <4> QED BY <1>0, <4>2, <4>3 DEF MOwner, OnceMore
    <3> QED BY <3>3, <3>4
  <2> QED BY <2>1, <2>2
<1>5. CASE Step(t) \/ Retire(t, "retire", "shift")
  <2>1. UNCHANGED <<op, ans, arg, nxt>> /\ pc[t] \in {"step", "retire"} /\ pc'[t] = "shift"
    BY <1>0, <1>5 DEF Step, Retire, posVars
  <2> QED BY <1>0, <2>1 DEF MOwner, OnceMore
<1>6. CASE Shift(t)
  <2>1. nxt[t] # Null
    BY <1>6 DEF Shift, MOwner
  <2>2. UNCHANGED <<op, ans, arg>> /\ pc'[t] = "next"
    BY <1>0, <1>6, <2>1 DEF Shift
  <2> QED BY <1>0, <2>2 DEF MOwner, OnceMore
<1>7. CASE Unlink(t) \/ EraseUnlink(t)
  <2>1. CASE ~ PrevUnmoved(t)
    <3>1. UNCHANGED <<op, ans, arg>> /\ pc'[t] = "search"
      BY <1>0, <1>7, <2>1 DEF Unlink, EraseUnlink, PhysicalDeletion
    <3> QED BY <1>0, <3>1 DEF MOwner, OnceMore
  <2>2. CASE PrevUnmoved(t)
    <3>1. nxt[t] # Null
      BY <1>0, <1>7, <2>2, MNothingAfter
    <3>2. pc[t] = "unlink"
      <4>1. InList' = InList \ {cur[t]}
        BY <1>7, <2>2, MUnlinkDoes
      <4> QED BY <1>7, <4>1 DEF MOwner, Unlink, EraseUnlink
    <3>3. UNCHANGED <<op, ans, arg, nxt>> /\ pc'[t] = "retire"
      BY <1>0, <1>7, <2>2, <3>2 DEF Unlink, EraseUnlink, PhysicalDeletion, posVars
    <3> QED BY <1>0, <3>1, <3>3 DEF MOwner, OnceMore
  <2> QED BY <2>1, <2>2
<1>8. pc[t] \notin {"idle", "empty", "clear", "clear_retire", "leave", "free", "is_marked", "guard_new", "link", "touch",
                    "touch_new", "mark", "erase_retire"}
  BY <1>0 DEF OnceMore
<1>9. ~ (\/ Call(t) \/ Retire(t, "erase_retire", "leave") \/ IsMarked(t) \/ GuardNew(t) \/ LinkNode(t) \/ Functor(t)
         \/ Mark(t) \/ Empty(t) \/ Clear(t) \/ ClearRetire(t) \/ Leave(t) \/ FreeNode(t))
  BY <1>8 DEF Call, Retire, IsMarked, GuardNew, LinkNode, Functor, Mark, Empty, Clear, ClearRetire, Leave, FreeNode
<1> QED BY <1>1, <1>2, <1>3, <1>4, <1>5, <1>6, <1>7, <1>9 DEF MActs

\* The other erasers, too
LEMMA MOwnerOther ==
  ASSUME MInv, kind' = kind, NEW A \in SUBSET Node, Goes(A), Freed(A), NEW u \in Thread, Undisturbed(u),
         NEW n \in Node, key'[n] = key[n], MOwner(u, n)
  PROVE  MOwner(u, n)'
<1>0. Common /\ kind = "michael" /\ kind \in Lists
  BY DEF MInv, Lists
<1>1. pc[u] = "prev_check" => Kept(cur[u])
  BY <1>0, UsedKept DEF MInv, MPlace, OnCur, Held
<1>2. pc[u] = "prev_check" => (status'[cur[u]] = "linked" => status[cur[u]] = "linked") /\ key'[cur[u]] = key[cur[u]]
  BY <1>1 DEF Kept
<1> QED BY <1>0, <1>2 DEF MOwner, Undisturbed, OnceMore

\* A marked node on the list always has an eraser that will come by.
LEMMA MDoomedStep ==
  ASSUME MInv, NEW t \in Thread, Frame(t), kind' = kind, Watch, Steps(t)
  PROVE  MDoomed'
<1>0. Common /\ kind = "michael" /\ kind \in Lists /\ MActs(t) /\ Does(t)
  BY MSteps, MDoes DEF MInv, Lists
<1>1. PICK A \in SUBSET Node : Goes(A) /\ Freed(A)
  BY <1>0 DEF Does
<1>2. OthersGuard(t) /\ \A u \in Thread \ {t} : Undisturbed(u)
  BY <1>0, Others DEF Does
<1>3. ASSUME NEW n \in InList', marked'[n] PROVE \E u \in Thread : MOwner(u, n)'
  <2>1. n \in Node
    BY <1>3 DEF InList
  <2>2. CASE marked[n]
    <3>1. n \in InList
      BY <1>0, <1>1, <2>2, MarkedListed
    <3>2. key'[n] = key[n]
      <4>1. InUse(n) /\ n \notin A
        <5>1. status'[n] = "linked"
          BY DEF InList
        <5> QED BY <1>0, <1>1, <3>1, <5>1, Facts DEF InUse, Freed
      <4> QED BY <1>1, <2>1, <4>1 DEF Goes, Kept
    <3>3. PICK u \in Thread : MOwner(u, n)
      BY <2>2, <3>1 DEF MInv, MDoomed
    <3>4. CASE u = t
      BY <1>0, <2>2, <3>1, <3>2, <3>3, <3>4, MOwnerKept
    <3>5. CASE u # t
      BY <1>1, <1>2, <2>1, <3>2, <3>3, <3>5, MOwnerOther
    <3> QED BY <3>4, <3>5
  <2>3. CASE ~ marked[n]
    <3>1. Mark(t) /\ LogicalDeletion(t) /\ n = cur[t]
      BY <1>0, <1>3, <2>1, <2>3, MMarking
    <3>2. pc'[t] = "erase_unlink" /\ ans'[t] = "yes" /\ op'[t] = "erase" /\ cur'[t] = n /\ key' = key /\ arg' = arg
          /\ arg[t] = key[n]
      BY <1>0, <3>1 DEF Mark, Goto, Answer, posVars, Common, ListTypeOK, MInv, MPlace, MControl
    <3> QED BY <1>0, <3>2 DEF MOwner, OnceMore
  <2> QED BY <2>2, <2>3
<1> QED BY <1>3 DEF MDoomed

-----------------------------------------------------------------------------
(* Types, and the steps that are nobody's *)

\* Whoever clears does so alone.
LEMMA AloneStep ==
  ASSUME Common, kind \in Lists, NEW t \in Thread, Frame(t), Steps(t)
  PROVE  Alone'
<1>0. ListTypeOK /\ Alone /\ \A u \in Thread : Control(u)
  BY DEF Common
<1>1. \A u \in Thread \ {t} : pc'[u] = pc[u] /\ op'[u] = op[u]
  BY DEF Frame
<1>2. op'[t] = "clear" => op[t] = "clear" \/ CallClear(t)
  <2> SUFFICES ASSUME op'[t] = "clear", op[t] # "clear", ~ CallClear(t) PROVE FALSE
    OBVIOUS
  <2> USE DEF Goto, Answer, callVars
  <2>1. ~ Call(t)
    <3>1. \A o \in KeyOps : o # "clear"
      BY DEF KeyOps
    <3> QED BY <1>0, <3>1 DEF Call, CallKeyed, CallEmpty, ListTypeOK
  <2>2. ~ (Empty(t) \/ Clear(t) \/ ClearRetire(t) \/ Leave(t) \/ FreeNode(t))
    BY <1>0 DEF Empty, Clear, ClearRetire, Leave, FreeNode, Idle, ListTypeOK
  <2>3. \A found : ~ Ended(t, found)
    BY DEF Ended
  <2>4. kind # "michael"
    <3> SUFFICES ASSUME kind = "michael" PROVE FALSE
      OBVIOUS
    <3>1. MActs(t)
      BY MSteps
    <3> QED BY <2>1, <2>2, <2>3, <3>1 DEF MActs, Search, CurGuard, CurCheck, Next_, NextGuard, NextCheck, PrevCheck, Step,
               Shift, Unlink, EraseUnlink, PhysicalDeletion, Retire, IsMarked, GuardNew, LinkNode, Functor, Mark
  <2>5. kind # "lazy"
    <3> SUFFICES ASSUME kind = "lazy" PROVE FALSE
      OBVIOUS
    <3>1. LActs(t)
      BY LSteps
    <3>2. op' # op
      OBVIOUS
    <3> HIDE DEF Goto
    <3> QED BY <2>1, <2>2, <3>1, <3>2 DEF LActs, LzSearch, LzLoad, LzGuard, LzCheck, LzStep, LzFind, LzFunctor, LockPred, LockCur,
               UnlockCur, UnlockPred, Acquire, Unlock, Validate, LzLink, LzEnsure, LzLinked, LzMark, LzUnlink, BackLink, LzRetire
  <2> QED BY <2>4, <2>5 DEF Lists
<1>3. CASE pc[t] = "idle"
  <2>1. Call(t)
    <3>1. CASE kind = "michael"
      BY <1>3, <3>1, MSteps DEF MActs, Search, CurGuard, CurCheck, Next_, NextGuard, NextCheck, PrevCheck, Step,
         Shift, Unlink, EraseUnlink, Retire, IsMarked, GuardNew, LinkNode, Functor, Mark,
         Empty, Clear, ClearRetire, Leave, FreeNode
    <3>2. CASE kind = "lazy"
      BY <1>3, <3>2, LSteps DEF LActs, LzSearch, LzLoad, LzGuard, LzCheck, LzStep, LzFind, LzFunctor, LockPred, LockCur,
         UnlockCur, UnlockPred, Acquire, Unlock, Validate, LzLink, LzEnsure, LzMark, LzUnlink, BackLink, LzRetire,
         Empty, Clear, ClearRetire, Leave, FreeNode
    <3> QED BY <3>1, <3>2 DEF Lists
  <2>2. \A u \in Thread : op[u] # "clear"
    BY <2>1 DEF Call, Clearing
  <2> QED BY <1>1, <1>2, <2>2 DEF Alone, CallClear
<1>4. CASE pc[t] # "idle"
  <2>1. ~ CallClear(t)
    BY <1>4 DEF CallClear
  <2>2. \A u \in Thread : op[u] = "clear" => u = t
    BY <1>0, <1>4 DEF Alone
  <2>3. op'[t] = "clear" => op[t] = "clear"
    BY <1>2, <2>1
  <2> QED BY <1>0, <1>1, <2>2, <2>3 DEF Alone
<1> QED BY <1>3, <1>4

\* The history has the right types.
LEMMA WatchTypes ==
  ASSUME Watch
  PROVE  sawIn' \in [Thread -> BOOLEAN] /\ sawOut' \in [Thread -> BOOLEAN]
BY DEF Watch, PendingIn

\* The types of what both lists have
FieldTypes ==
    /\ kind \in Lists /\ next \in [Cell -> Pointer] /\ marked \in [Cell -> BOOLEAN]
    /\ key \in [Node -> Keys \cup {NoKey}] /\ lock \in [Cell -> Thread \cup {NoThread}]
    /\ items \subseteq Node
CallTypes ==
    /\ op \in [Thread -> Ops \cup {"none"}] /\ arg \in [Thread -> Keys \cup {NoKey}]
    /\ ans \in [Thread -> {"none", "yes", "no"}] /\ node \in [Thread -> Node \cup {Null}]
    /\ nmark \in [Thread -> BOOLEAN]
PcTypes ==
    pc \in [Thread -> {"idle", "empty", "clear", "clear_retire", "leave", "free"}
                        \cup (IF kind = "lazy" THEN LazyPC ELSE MichaelPC)]
PosTypes(P, C, X) == prev \in [Thread -> P] /\ cur \in [Thread -> C] /\ nxt \in [Thread -> X]

\* The steps of both lists keep the types.
LEMMA SharedTyped ==
  ASSUME Common, kind \in Lists, NEW t \in Thread, kind' = kind,
         Call(t) \/ Empty(t) \/ Clear(t) \/ ClearRetire(t) \/ Leave(t) \/ FreeNode(t),
         NEW N, next \in [Cell -> N], Null \in N,
         NEW P, NEW C, NEW X, HeadCell \in P, Null \in P, Null \in C, Null \in X, InList \subseteq C, PosTypes(P, C, X)
  PROVE  /\ FieldTypes' /\ CallTypes' /\ PcTypes' /\ PosTypes(P, C, X)'
         /\ next' \in [Cell -> N] /\ (next'[HeadCell] = next[HeadCell] \/ \E n \in InList : next'[HeadCell] = next[n])
         /\ kind = "michael" => op'[t] # "emplace"  \/ op[t] = "emplace"
<1> USE DEF Goto, Answer, callVars, posVars, listVars
<1>0. /\ FieldTypes /\ CallTypes /\ PcTypes /\ HeadCell \in Cell /\ Node \subseteq Cell /\ N \cap Pointer \subseteq N
  BY DEF Common, ListTypeOK, FieldTypes, CallTypes, PcTypes, Cell
<1>1. CASE Call(t)
  <2>1. ASSUME NEW o \in KeyOps, NEW k \in Keys, CallKeyed(t, o, k)
        PROVE  FieldTypes' /\ CallTypes' /\ PcTypes' /\ PosTypes(P, C, X)' /\ next' = next /\ (kind = "michael" => op'[t] # "emplace")
    <3>1. /\ key' = key \/ \E n \in Node : key' = [key EXCEPT ![n] = k]
          /\ node' = node \/ \E n \in Node : node' = [node EXCEPT ![t] = n]
      BY <2>1 DEF CallKeyed
    <3>2. FieldTypes' /\ next' = next
      BY <1>0, <2>1, <3>1 DEF CallKeyed, FieldTypes
    <3>3. CallTypes' /\ (kind = "michael" => op'[t] # "emplace")
      BY <1>0, <2>1, <3>1 DEF CallKeyed, CallTypes, Ops
    <3>4. PcTypes' /\ PosTypes(P, C, X)'
      BY <1>0, <2>1 DEF CallKeyed, PcTypes, PosTypes, LazyPC, MichaelPC
    <3> QED BY <3>2, <3>3, <3>4
  <2>2. CASE CallEmpty(t) \/ CallClear(t)
    BY <1>0, <2>2 DEF CallEmpty, CallClear, FieldTypes, CallTypes, PcTypes, PosTypes, Ops, KeyOps
  <2> QED BY <1>0, <1>1, <2>1, <2>2 DEF Call
<1>2. CASE Empty(t) \/ ClearRetire(t)
  BY <1>0, <1>2 DEF Empty, ClearRetire, FieldTypes, CallTypes, PcTypes, PosTypes
<1>3. CASE Clear(t)
  <2>1. CASE next[HeadCell] = End
    BY <1>0, <1>3, <2>1 DEF Clear, FieldTypes, CallTypes, PcTypes, PosTypes
  <2>2. CASE next[HeadCell] # End
    <3>1. PICK n \in InList : n = next[HeadCell] /\ n \in Cell
      BY <2>2, Facts
    <3>2. /\ marked' = [marked EXCEPT ![n] = TRUE] /\ next' = [next EXCEPT ![HeadCell] = next[n]]
          /\ items' = items \ {n} /\ cur' = [cur EXCEPT ![t] = n] /\ pc' = [pc EXCEPT ![t] = "clear_retire"]
          /\ UNCHANGED <<key, lock, op, arg, ans, node, prev, nxt, nmark>>
      BY <1>3, <2>2, <3>1 DEF Clear
    <3>3. next[n] \in Pointer /\ next[n] \in N
      BY <1>0, <3>1 DEF FieldTypes
    <3>4. FieldTypes' /\ next' \in [Cell -> N] /\ next'[HeadCell] = next[n]
      BY <1>0, <3>1, <3>2, <3>3 DEF FieldTypes
    <3> QED BY <1>0, <3>1, <3>2, <3>4 DEF CallTypes, PcTypes, PosTypes
  <2> QED BY <2>1, <2>2
<1>4. CASE Leave(t)
  <2>1. /\ prev' = [prev EXCEPT ![t] = Null] /\ cur' = [cur EXCEPT ![t] = Null] /\ nxt' = [nxt EXCEPT ![t] = Null]
        /\ nmark' = [nmark EXCEPT ![t] = FALSE] /\ UNCHANGED <<next, marked, key, lock, items>>
    BY <1>4 DEF Leave
  <2>2. FieldTypes' /\ PosTypes(P, C, X)' /\ nmark' \in [Thread -> BOOLEAN]
    BY <1>0, <2>1 DEF FieldTypes, PosTypes, CallTypes
  <2>3. CASE NotLinked(t)
    BY <1>0, <1>4, <2>1, <2>2, <2>3 DEF Leave, CallTypes, PcTypes
  <2>4. CASE ~ NotLinked(t)
    BY <1>0, <1>4, <2>1, <2>2, <2>4 DEF Leave, Idle, CallTypes, PcTypes
  <2> QED BY <2>3, <2>4
<1>5. CASE FreeNode(t)
  <2>0. node[t] \in Node /\ node[t] # HeadCell /\ node[t] \in Cell
    BY <1>0, <1>5, Constants DEF FreeNode, Common, Control, CallTypes
  <2>1. FieldTypes' /\ next' \in [Cell -> N] /\ next'[HeadCell] = next[HeadCell]
    BY <1>0, <1>5, <2>0 DEF FreeNode, Forget, FieldTypes, Pointer
  <2>2. CallTypes' /\ PcTypes' /\ PosTypes(P, C, X)'
    BY <1>0, <1>5 DEF FreeNode, Idle, CallTypes, PcTypes, PosTypes
  <2> QED BY <1>0, <1>5, <2>1, <2>2 DEF FreeNode, Idle, CallTypes
<1> QED BY <1>1, <1>2, <1>3, <1>4, <1>5

\* The steps of Michael's list keep the types.
LEMMA MTyped ==
  ASSUME MInv, NEW t \in Thread, Frame(t), kind' = kind, Watch, Steps(t)
  PROVE  ListTypeOK' /\ MTypes'
<1> USE DEF Goto, Answer, callVars, posVars, listVars
<1> DEFINE N == Node \cup {Null}
           Q == Node \cup {HeadCell, Null}
           Typed == next \in [Cell -> N] /\ PosTypes(Q, N, N) /\ FieldTypes /\ CallTypes /\ PcTypes
<1>0. /\ Common /\ kind = "michael" /\ kind \in Lists /\ MActs(t) /\ Does(t) /\ Typed
      /\ HeadCell \in Cell /\ Node \subseteq Cell /\ \A u \in Thread : op[u] # "emplace"
  <2>1. Common /\ kind = "michael" /\ kind \in Lists /\ MActs(t) /\ Does(t) /\ MTypes /\ ListTypeOK
    BY MSteps, MDoes DEF MInv, Lists, Common
  <2>2. FieldTypes /\ CallTypes /\ PcTypes
    BY <2>1 DEF ListTypeOK, FieldTypes, CallTypes, PcTypes
  <2> QED BY <2>1, <2>2 DEF MTypes, PosTypes, Cell
<1>1. Typed' /\ op'[t] # "emplace"
  <2>1. ASSUME Call(t) \/ Empty(t) \/ Clear(t) \/ ClearRetire(t) \/ Leave(t) \/ FreeNode(t)
        PROVE  Typed' /\ op'[t] # "emplace"
    BY <1>0, <2>1, SharedTyped, Facts
  <2>2. ASSUME NEW found \in BOOLEAN, Ended(t, found), nmark' = nmark PROVE CallTypes' /\ PcTypes' /\ op' = op
    BY <1>0, <2>2 DEF Ended, CallTypes, PcTypes, MichaelPC
  <2> SUFFICES ASSUME ~ (Call(t) \/ Empty(t) \/ Clear(t) \/ ClearRetire(t) \/ Leave(t) \/ FreeNode(t))
               PROVE  Typed' /\ op' = op
    BY <1>0, <2>1
  <2>3. CASE Search(t) \/ CurGuard(t) \/ Next_(t) \/ NextGuard(t) \/ NextCheck(t)
    <3>1. FieldTypes' /\ next' = next /\ op' = op
      BY <1>0, <2>3 DEF Search, CurGuard, Next_, NextGuard, NextCheck, FieldTypes
    <3>2. CallTypes' /\ PcTypes'
      <4>1. pc[t] = "next" => cur[t] \in Cell
        BY <1>0 DEF MInv, MPlace, OnCur, Held
      <4>2. nmark' \in [Thread -> BOOLEAN]
        BY <1>0, <2>3, <4>1 DEF Search, CurGuard, Next_, NextGuard, NextCheck, CallTypes, FieldTypes
      <4>3. UNCHANGED <<op, arg, ans, node>>
        BY <2>3 DEF Search, CurGuard, Next_, NextGuard, NextCheck
      <4>4. PcTypes'
        BY <1>0, <2>3 DEF Search, CurGuard, Next_, NextGuard, NextCheck, PcTypes, MichaelPC
      <4> QED BY <1>0, <4>2, <4>3, <4>4 DEF CallTypes
    <3>3. PosTypes(Q, N, N)'
      <4>1. pc[t] = "next" => next[cur[t]] \in N
        BY <1>0 DEF MInv, MPlace, OnCur, Held
      <4> QED BY <1>0, <2>3, <4>1 DEF Search, CurGuard, Next_, NextGuard, NextCheck, PosTypes
    <3> QED BY <1>0, <3>1, <3>2, <3>3
  <2>4. CASE CurCheck(t)
    <3>1. CallTypes' /\ PcTypes' /\ op' = op
      <4>1. CASE LinkIs(HeadCell, cur[t]) /\ cur[t] = Null
        BY <2>2, <2>4, <4>1 DEF CurCheck, CallTypes
      <4>2. CASE ~ (LinkIs(HeadCell, cur[t]) /\ cur[t] = Null)
        BY <1>0, <2>4, <4>2 DEF CurCheck, CallTypes, PcTypes, MichaelPC
      <4> QED BY <4>1, <4>2
    <3> QED BY <1>0, <2>4, <3>1 DEF CurCheck, PosTypes, FieldTypes
  <2>5. CASE PrevCheck(t)
    <3>1. CallTypes' /\ PcTypes' /\ op' = op
      <4>1. CASE PrevUnmoved(t) /\ ~ nmark[t] /\ key[cur[t]] >= arg[t]
        BY <1>0, <2>2, <2>5, <4>1 DEF PrevCheck, CallTypes
      <4>2. CASE ~ (PrevUnmoved(t) /\ ~ nmark[t] /\ key[cur[t]] >= arg[t])
        BY <1>0, <2>5, <4>2 DEF PrevCheck, CallTypes, PcTypes, MichaelPC
      <4> QED BY <4>1, <4>2
    <3> QED BY <1>0, <2>5, <3>1 DEF PrevCheck, PosTypes, FieldTypes
  <2>6. CASE Shift(t)
    <3>1. CallTypes' /\ PcTypes' /\ op' = op
      <4>1. CASE nxt[t] = Null
        BY <2>2, <2>6, <4>1 DEF Shift, CallTypes
      <4>2. CASE nxt[t] # Null
        BY <1>0, <2>6, <4>2 DEF Shift, CallTypes, PcTypes, MichaelPC
      <4> QED BY <4>1, <4>2
    <3> QED BY <1>0, <2>6, <3>1 DEF Shift, PosTypes, FieldTypes
  <2>7. CASE Step(t)
    <3>1. UNCHANGED <<next, marked, key, lock, items, op, arg, ans, node, cur, nxt, nmark>>
          /\ prev' = [prev EXCEPT ![t] = cur[t]] /\ pc' = [pc EXCEPT ![t] = "shift"]
      BY <2>7 DEF Step
    <3> QED BY <1>0, <3>1 DEF PosTypes, FieldTypes, CallTypes, PcTypes, MichaelPC
  <2>8. CASE \/ Retire(t, "retire", "shift") \/ Retire(t, "erase_retire", "leave")
             \/ IsMarked(t) \/ GuardNew(t) \/ Functor(t)
    BY <1>0, <2>8 DEF Retire, IsMarked, GuardNew, Functor, PosTypes, FieldTypes, CallTypes, PcTypes, MichaelPC
  <2>9. CASE Unlink(t) \/ EraseUnlink(t)
    <3>1. UNCHANGED <<marked, key, lock, op, arg, ans, node, prev, cur, nxt, nmark, items>> /\ PcTypes'
          /\ next' \in [Cell -> N]
      BY <1>0, <2>9 DEF Unlink, EraseUnlink, PhysicalDeletion, PcTypes, MichaelPC, PosTypes
    <3> QED BY <1>0, <3>1 DEF FieldTypes, CallTypes, PosTypes, Pointer, Cell
  <2>10. CASE LinkNode(t)
    <3>1. UNCHANGED <<marked, key, lock, op, arg, node, prev, cur, nxt, nmark>> /\ PcTypes' /\ CallTypes'
      BY <1>0, <2>10 DEF LinkNode, PcTypes, MichaelPC, CallTypes
    <3>2. node[t] \in Node
      <4>1. node[t] \in New
        BY <1>0, <2>10, MLinkDoes
      <4> QED BY <1>0, <4>1, Facts
    <3>3. items' \subseteq Node
      BY <1>0, <2>10, <3>2 DEF LinkNode, FieldTypes
    <3>4. next' \in [Cell -> N]
      <4>1. cur[t] \in N
        BY <1>0 DEF PosTypes
      <4> HIDE DEF N
      <4>2. node[t] \in N
        BY <3>2 DEF N
      <4> QED BY <1>0, <2>10, <4>1, <4>2 DEF LinkNode
    <3> QED BY <1>0, <3>1, <3>3, <3>4 DEF FieldTypes, PosTypes, Pointer, Cell
  <2>11. CASE Mark(t)
    BY <1>0, <2>11 DEF Mark, PosTypes, FieldTypes, CallTypes, PcTypes, MichaelPC
  <2> QED BY <1>0, <2>3, <2>4, <2>5, <2>6, <2>7, <2>8, <2>9, <2>10, <2>11 DEF MActs
<1>2. R!RTypeOK'
  <2>1. R!RGood'
    BY <1>0, Constants, R!GoodStep DEF Does, Contract, Common
  <2> QED BY <2>1 DEF R!RGood
<1>3. \A u \in Thread : op'[u] # "emplace"
  BY <1>0, <1>1 DEF Frame
<1>4. ListTypeOK'
  <2>1. \A v \in {prev', cur', nxt'} : v \in [Thread -> Pointer]
    BY <1>1 DEF PosTypes, Pointer, Cell
  <2>2. kind' \in {"michael", "lazy"}
    BY <1>0
  <2> QED BY <1>1, <1>2, <2>1, <2>2, WatchTypes DEF ListTypeOK, FieldTypes, CallTypes, PcTypes
<1> QED BY <1>1, <1>3, <1>4 DEF MTypes, PosTypes

-----------------------------------------------------------------------------
(* The step of the reclaimer *)

\* The reclaimer frees a node that no one can hold and disturbs no thread.
LEMMA ReclaimDoes ==
  ASSUME Common, kind \in Lists, NEW n \in Node, Reclaim(n), kind' = kind
  PROVE  /\ Handed /\ R!RNext /\ Goes({n}) /\ Freed({n}) /\ News' /\ Taken' /\ Alone'
         /\ New' = New /\ \A u \in Thread : Undisturbed(u)
<1>1. /\ status[n] = "retired" /\ blockers[n] = {} /\ UNCHANGED <<hz, using, blockers>>
      /\ status' = [m \in Node |-> IF m = n THEN "free" ELSE status[m]]
      /\ Forget(n) /\ UNCHANGED <<op, arg, ans, node, prev, cur, nxt, nmark, pc, items>>
  BY DEF Reclaim, R!Free, callVars, posVars
<1>2. R!RNext
  BY DEF Reclaim, R!RNext
<1>3. New' = New /\ n \notin New
  BY <1>1, Facts DEF New, Making
<1>4. Goes({n}) /\ Freed({n})
  BY <1>1, <1>3, ForgetGoes DEF Freed
<1>5. \A u \in Thread : Undisturbed(u)
  BY <1>1 DEF Undisturbed, H, U
<1>6. News'
  <2>1. \A u \in Thread : Making(u)' = Making(u) /\ (Making(u) => node[u] \in New /\ node[u] # n)
    BY <1>1, <1>3 DEF Making, New
  <2>2. \A m \in New : status'[m] = status[m] /\ key'[m] = key[m]
    BY <1>1, <1>3, Facts DEF Forget
  <2>3. News
    BY DEF Common
  <2> QED BY <1>1, <2>1, <2>2, <2>3 DEF News
<1>7. Taken'
  <2>1. \A u \in Thread : Taking(u)' = Taking(u)
    BY <1>1 DEF Taking
  <2>2. \A m \in Node : status[m] = "unlinked" => status'[m] = "unlinked"
    BY <1>1
  <2>3. Taken
    BY DEF Common
  <2> QED BY <1>1, <2>1, <2>2, <2>3 DEF Taken
<1>8. Alone' /\ Handed
  BY <1>1 DEF Alone, Handed, Common
<1> QED BY <1>2, <1>3, <1>4, <1>5, <1>6, <1>7, <1>8

\* The types outlive it.
LEMMA ReclaimTyped ==
  ASSUME Common, kind \in Lists, NEW n \in Node, Reclaim(n), kind' = kind, Watch
  PROVE  /\ ListTypeOK' /\ R!RGood' /\ next' = [next EXCEPT ![n] = Null]
         /\ UNCHANGED <<prev, cur, nxt, op>>
<1>1. /\ UNCHANGED <<op, arg, ans, node, prev, cur, nxt, nmark, pc, items, lock>>
      /\ key' = [key EXCEPT ![n] = NoKey] /\ next' = [next EXCEPT ![n] = Null] /\ marked' = [marked EXCEPT ![n] = FALSE]
  BY DEF Reclaim, callVars, posVars, Forget
<1>2. R!RGood' /\ R!RTypeOK'
  <2>1. R!RGood'
    BY Constants, ReclaimDoes, R!GoodStep DEF Common
  <2> QED BY <2>1 DEF R!RGood
<1> QED BY <1>1, <1>2, WatchTypes DEF Common, ListTypeOK, Pointer

-----------------------------------------------------------------------------
(* Michael's list: the invariant *)

\* Every step of a thread of Michael's list keeps the invariant.
LEMMA MThreadStep ==
  ASSUME MInv, NEW t \in Thread, kind' = kind, Watch, Steps(t)
  PROVE  MInv' /\ Contract
<1>0. Common /\ kind = "michael" /\ kind \in Lists /\ Frame(t)
  BY FrameStep DEF MInv, Lists, Common
<1>1. Does(t) /\ MDoomed' /\ ListTypeOK' /\ MTypes' /\ Alone' /\ Noticed' /\ MOwn(t)'
  BY <1>0, MDoes, MDoomedStep, MTyped, AloneStep, NoticedStep, MOwnStep
<1>2. PICK A \in SUBSET Node : Goes(A) /\ Freed(A)
  BY <1>1 DEF Does
<1>3. R!RGood'
  BY <1>0, <1>1, Constants, R!GoodStep DEF Does, Contract, Common
<1>4. \A u \in Thread : MOwn(u)'
  BY <1>0, <1>1, <1>2, Others, MOthers DEF Does
<1> QED BY <1>0, <1>1, <1>2, <1>3, <1>4 DEF MInv, Common, Does, Goes, MOwn

\* So does the reclaimer.
LEMMA MReclaimStep ==
  ASSUME MInv, NEW n \in Node, kind' = kind, Watch, Reclaim(n)
  PROVE  MInv' /\ Contract
<1>0. Common /\ kind = "michael" /\ kind \in Lists
  BY DEF MInv, Lists
<1>1. /\ Handed /\ R!RNext /\ Goes({n}) /\ Freed({n}) /\ News' /\ Taken' /\ Alone'
      /\ New' = New /\ \A u \in Thread : Undisturbed(u)
  BY <1>0, ReclaimDoes
<1>2. ListTypeOK' /\ R!RGood' /\ next' = [next EXCEPT ![n] = Null] /\ UNCHANGED <<prev, cur, nxt, op>>
  BY <1>0, ReclaimTyped
<1>3. MTypes'
  BY <1>2 DEF MTypes, MInv
<1>4. \A u \in Thread : MOwn(u)'
  BY <1>0, <1>1, MOthers
<1>5. MDoomed'
  <2> SUFFICES ASSUME NEW m \in InList', marked'[m] PROVE \E u \in Thread : MOwner(u, m)'
    BY DEF MDoomed
  <2>1. m \in Node /\ m # n
    BY <1>1 DEF InList, Freed
  <2>2. marked[m] /\ key'[m] = key[m]
    BY <2>1 DEF Reclaim, Forget
  <2>3. m \in InList
    BY <1>0, <1>1, <2>2, MarkedListed
  <2>4. PICK u \in Thread : MOwner(u, m)
    BY <2>2, <2>3 DEF MInv, MDoomed
  <2> QED BY <1>0, <1>1, <2>1, <2>2, <2>4, MOwnerOther
<1>6. Noticed'
  BY NoticedStep
<1> QED BY <1>0, <1>1, <1>2, <1>3, <1>4, <1>5, <1>6 DEF MInv, Common, Goes, MOwn, Contract


\* A new list of either kind
LEMMA CommonInit ==
  ASSUME ListInit
  PROVE  /\ Common /\ InList = {} /\ \A t \in Thread : pc[t] = "idle"
         /\ \A t \in Thread, i \in 0..3 : H(t, i) = Null /\ U(t, i) = Null
<1>1. New = {} /\ \A t \in Thread : ~ Making(t) /\ ~ Taking(t) /\ ~ Pending(t) /\ pc[t] = "idle"
  BY Constants DEF ListInit, New, Making, Taking, Pending
<1>2. InList = {}
  BY DEF ListInit, InList, R!RInit
<1>3. R!RGood
  BY Constants DEF ListInit, R!RInit, R!RGood, R!RTypeOK, R!RInv, R!Unblocked, R!RHolds, R!Life
<1>4. ListTypeOK
  <2>1. R!RTypeOK
    BY <1>3 DEF R!RGood
  <2>2. \A v \in {prev, cur, nxt} : v \in [Thread -> Pointer]
    BY DEF ListInit, Pointer
  <2> QED BY <2>1, <2>2 DEF ListInit, NothingSeen, ListTypeOK, Pointer, Cell
<1>5. Sorted
  BY <1>2, Constants DEF Sorted, ListInit, Cell, End
<1>6. Marks
  BY <1>1, <1>2 DEF Marks, ListInit, Gone, R!RInit, Cell
<1>7. News /\ Taken /\ Alone /\ Noticed
  BY <1>1 DEF News, Taken, Alone, Noticed, ListInit, NothingSeen
<1>8. \A t \in Thread, i \in 0..3 : H(t, i) = Null /\ U(t, i) = Null
  BY Slots DEF ListInit, R!RInit, H, U
<1>9. \A t \in Thread : Control(t)
  BY <1>8 DEF ListInit, Control, KeyOps, AllocatesFirst, Inserts
<1> QED BY <1>1, <1>2, <1>3, <1>4, <1>5, <1>6, <1>7, <1>8, <1>9 DEF Common

\* A new list of Michael's
LEMMA MFirst ==
  ASSUME ListInit, kind = "michael"
  PROVE  MInv
<1>1. /\ Common /\ InList = {} /\ \A t \in Thread : pc[t] = "idle"
  BY CommonInit
<1>2. MTypes
  BY DEF MTypes, ListInit
<1>3. \A t \in Thread : MControl(t) /\ MPlace(t) /\ MRead(t)
  BY <1>1 DEF MControl, MPlace, MRead, OnceMore, OnCur, OnPrev, MichaelPC
<1> QED BY <1>1, <1>2, <1>3 DEF MInv, MDoomed

\* No operation of Michael's list touches a freed node: it holds the node, or it is the
\* only one who knows it.
LEMMA MSafe ==
  ASSUME MInv
  PROVE  FreedUntouched
<1> SUFFICES ASSUME NEW t \in Thread, NEW n \in Node, n \in MichaelTouches(t) PROVE status[n] # "free"
  BY DEF FreedUntouched, Touches, MInv
<1>1. Common /\ MPlace(t) /\ kind = "michael" /\ Taken /\ News /\ MControl(t) /\ Control(t)
  BY DEF MInv, Common
<1>2. \A i \in 0..3 : U(t, i) \in Node => status[U(t, i)] # "free"
  BY <1>1, UsedNotNew DEF InUse
<1>3. CASE n = cur[t] /\ pc[t] \in OnCur
  BY <1>1, <1>2, <1>3 DEF MPlace, Held
<1>4. CASE n = cur[t] /\ pc[t] = "erase_retire"
  BY <1>1, <1>4 DEF Taken, Taking
<1>5. CASE n = prev[t] /\ pc[t] \in OnPrev
  BY <1>1, <1>2, <1>5, Constants DEF MPlace, Before, Held
<1>6. CASE n = node[t] /\ pc[t] = "link"
  BY <1>1, <1>6 DEF MControl, Making, News
<1>7. CASE n = node[t] /\ pc[t] = "touch_new"
  BY <1>1, <1>2, <1>7 DEF MPlace, Held
<1> QED BY <1>3, <1>4, <1>5, <1>6, <1>7 DEF MichaelTouches, OnCur, OnPrev

\* The state the lists are about
rawVars == <<kind, next, marked, key, lock, status, hz, using, blockers, pc, op, arg, ans, node, prev, cur, nxt, nmark,
             items, sawIn, sawOut>>

\* What both lists keep is a matter of their state.
LEMMA CommonStutter ==
  ASSUME Common, UNCHANGED rawVars
  PROVE  Common' /\ InList' = InList /\ New' = New
<1>1. /\ InList' = InList /\ New' = New /\ Members' = Members
      /\ \A t \in Thread : Making(t)' = Making(t) /\ Taking(t)' = Taking(t)
  BY DEF rawVars, InList, New, Making, Members, Taking
<1>2. ListTypeOK' /\ R!RGood'
  BY DEF Common, rawVars, ListTypeOK, R!RGood, R!RTypeOK, R!RInv, R!Unblocked, R!RHolds
<1>3. Sorted' /\ Marks'
  BY <1>1 DEF Common, rawVars, Sorted, Marks, Precedes, End, Gone
<1>4. News' /\ Taken' /\ Alone' /\ Noticed'
  BY <1>1 DEF Common, rawVars, News, Taken, Alone, Noticed, Pending, Lacks
<1>5. \A t \in Thread : Control(t)'
  BY DEF Common, rawVars, Control, AllocatesFirst, U
<1> QED BY <1>1, <1>2, <1>3, <1>4, <1>5 DEF Common

\* The specification stutters only where that state does.
LEMMA RawStutter ==
  ASSUME UNCHANGED vars
  PROVE  UNCHANGED rawVars /\ UNCHANGED R!rvars
<1>1. UNCHANGED rawVars
  BY DEF vars, orderedVars, guardVars, sharedVars, listVars, reclaimVars, posVars, rawVars
<1> QED BY <1>1 DEF R!rvars, rawVars

\* An invariant of Michael's list is one of its state.
LEMMA MStutter ==
  ASSUME MInv, UNCHANGED rawVars
  PROVE  MInv'
<1>1. InList' = InList /\ New' = New /\ Common'
  BY CommonStutter DEF MInv
<1>2. MTypes'
  BY DEF MInv, MTypes, rawVars
<1>3. \A t \in Thread : MControl(t)' /\ MPlace(t)' /\ MRead(t)'
  <2> SUFFICES ASSUME NEW t \in Thread PROVE MControl(t)' /\ MPlace(t)' /\ MRead(t)'
    OBVIOUS
  <2>1. MControl(t)'
    BY DEF MInv, MControl, rawVars, OnceMore
  <2>2. MPlace(t)'
    BY DEF MInv, MPlace, rawVars, Held, Before, H, U
  <2>3. MRead(t)'
    BY <1>1 DEF MInv, MRead, rawVars, Shielded
  <2> QED BY <2>1, <2>2, <2>3
<1>4. MDoomed'
  BY <1>1 DEF MInv, MDoomed, MOwner, rawVars, OnceMore
<1> QED BY <1>1, <1>2, <1>3, <1>4 DEF MInv, rawVars

\* Michael's list: its invariant is kept, and so is the contract.
LEMMA MNext ==
  ASSUME MInv, [Next]_vars
  PROVE  MInv' /\ (R!RNext \/ UNCHANGED R!rvars)
<1>1. kind = "michael"
  BY DEF MInv
<1>2. CASE Next
  <2>1. ListNext
    BY <1>1, <1>2 DEF Next, Maps
  <2>2. kind' = kind /\ Watch
    BY <2>1 DEF ListNext
  <2>3. CASE \E n \in Node : Reclaim(n)
    BY <2>2, <2>3, MReclaimStep DEF Contract
  <2>4. CASE \E t \in Thread : Call(t) \/ ListWorking(t)
    BY <2>2, <2>4, MThreadStep DEF Contract, Steps
  <2> QED BY <2>1, <2>3, <2>4 DEF ListNext
<1>3. CASE UNCHANGED vars
  BY <1>3, RawStutter, MStutter
<1> QED BY <1>2, <1>3

-----------------------------------------------------------------------------
(* The steps of the lazy list: what they owe to the others *)

LOwn(t) == Control(t) /\ LControl(t) /\ LPlace(t) /\ LLocked(t) /\ LSaw(t)

\* What the invariant says at once
LEMMA LFacts ==
  ASSUME LInv
  PROVE  /\ Common /\ kind = "lazy" /\ kind \in Lists /\ End = TailCell /\ ListTypeOK /\ R!RTypeOK /\ R!RGood /\ Sorted /\ LocksHeld
         /\ LGone /\ \A t \in Thread : LOwn(t)
BY DEF LInv, Lists, End, Common, R!RGood, LOwn

\* The cells a call stands on, or has locked
LEMMA LCells ==
  ASSUME LInv, NEW t \in Thread
  PROVE  /\ LBefore(t) => /\ prev[t] \in Cell /\ prev[t] # TailCell /\ (prev[t] \in Node => InUse(prev[t]) /\ U(t, 0) = prev[t])
                          /\ ~ marked[prev[t]] => prev[t] \in InList \cup {HeadCell} /\ next[prev[t]] \in InList \cup {TailCell}
         /\ LAfter(t) => /\ cur[t] \in Cell /\ cur[t] # HeadCell /\ (cur[t] \in Node => InUse(cur[t]) /\ U(t, 1) = cur[t])
                         /\ ~ marked[cur[t]] => cur[t] \in InList \cup {TailCell}
         /\ LBefore(t) /\ LAfter(t) /\ arg[t] \in Keys => prev[t] # cur[t]
<1>0. Common /\ kind \in Lists /\ End = TailCell /\ Control(t) /\ ListTypeOK
  BY LFacts DEF LOwn
<1>1. ASSUME LBefore(t), prev[t] # HeadCell
      PROVE  /\ prev[t] \in Node /\ InUse(prev[t]) /\ U(t, 0) = prev[t]
             /\ ~ marked[prev[t]] => prev[t] \in InList /\ next[prev[t]] \in InList \cup {TailCell}
  BY <1>0, <1>1, UsedNotNew, Unmarked DEF LBefore, Held
<1>2. ASSUME LAfter(t), cur[t] # TailCell
      PROVE  /\ cur[t] \in Node /\ InUse(cur[t]) /\ U(t, 1) = cur[t]
             /\ ~ marked[cur[t]] => cur[t] \in InList
  BY <1>0, <1>2, UsedNotNew, Unmarked DEF LAfter, Held
<1>3. LBefore(t) /\ LAfter(t) /\ arg[t] \in Keys => prev[t] # cur[t]
  <2> SUFFICES ASSUME LBefore(t), LAfter(t), arg[t] \in Keys, prev[t] = cur[t] PROVE FALSE
    OBVIOUS
  <2>1. prev[t] \in Node /\ key[prev[t]] < arg[t] /\ key[prev[t]] >= arg[t]
    BY Constants DEF LBefore, LAfter, Held
  <2>2. key[prev[t]] \in Nat /\ arg[t] \in Nat
    <3>1. key[prev[t]] \in Keys
      BY <1>0, <1>1, <2>1, Constants DEF InUse, Common, Marks
    <3> QED BY <3>1, Constants
  <2> QED BY <2>1, <2>2
<1>4. HeadCell \in Cell /\ TailCell \in Cell /\ Node \subseteq Cell /\ next[HeadCell] \in InList \cup {TailCell} /\ InList \subseteq Node
  BY <1>0, Facts
<1> QED BY <1>1, <1>2, <1>3, <1>4, Constants

\* A call that is on its way works on a key.
LEMMA LWorking ==
  ASSUME LInv, NEW t \in Thread, pc[t] \in LazyPC
  PROVE  op[t] \in KeyOps /\ arg[t] \in Keys /\ arg[t] \in Nat /\ op[t] # "none"
<1>1. op[t] \in Ops \cup {"none"} /\ Control(t)
  BY LFacts DEF ListTypeOK, LOwn
<1>2. op[t] \notin {"none", "empty", "clear"}
  BY <1>1 DEF Control, LazyPC
<1>3. op[t] \in KeyOps /\ arg[t] \in Keys
  BY <1>1, <1>2 DEF Ops, Control
<1> QED BY <1>3, Constants DEF KeyOps

\* What a guard protects leads back into the list.
LEMMA LUsedGone ==
  ASSUME LGone, NEW t \in Thread, NEW j \in 0..3, U(t, j) \in Node, Gone(U(t, j))
  PROVE  LeadsBack(U(t, j))
BY Slots DEF LGone, U

\* From a node with a smaller key a search gets to the head again, or to the nearest node above
\* some cell of the list with a smaller key: also from one that has been unlinked.
LEMMA LLeads ==
  ASSUME LInv, NEW t \in Thread, LBefore(t), arg[t] \in Keys
  PROVE  \/ next[prev[t]] = HeadCell
         \/ \E c \in InList \cup {HeadCell} : next[prev[t]] = next[c] /\ (c # HeadCell => key[c] < arg[t])
<1>0. Common /\ kind \in Lists /\ End = TailCell /\ LGone
  BY LFacts
<1>1. CASE prev[t] \in InList \cup {HeadCell}
  BY <1>1 DEF LBefore
<1>2. CASE prev[t] \notin InList \cup {HeadCell}
  <2>1. prev[t] \in Node /\ InUse(prev[t]) /\ U(t, 0) = prev[t] /\ key[prev[t]] < arg[t] /\ prev[t] # TailCell
    <3>1. prev[t] \in Node => InUse(prev[t]) /\ U(t, 0) = prev[t]
      BY LCells
    <3> QED BY <1>2, <3>1, Constants DEF LBefore, Held
  <2>2. Gone(prev[t])
    BY <1>0, <1>2, <2>1, Facts DEF InUse, InList, Gone, R!Life
  <2>3. LeadsBack(prev[t])
    BY <1>0, <2>1, <2>2, LUsedGone
  <2>4. CASE next[prev[t]] = HeadCell
    BY <2>4
  <2>5. ASSUME NEW u \in Thread, pc[u] = "back_link", cur[u] = prev[t]
        PROVE  \E c \in InList \cup {HeadCell} : next[prev[t]] = next[c] /\ (c # HeadCell => key[c] < arg[t])
    <3>1. LBefore(u) /\ LAfter(u) /\ ~ marked[prev[u]] /\ next[prev[u]] = next[cur[u]]
      BY <2>5, LFacts DEF LOwn, LPlace, LLocked, LockedPC
    <3>2. prev[u] \in InList \cup {HeadCell}
      BY <3>1, LCells
    <3>3. prev[u] # HeadCell => key[prev[u]] < arg[t]
      <4> SUFFICES ASSUME prev[u] # HeadCell PROVE key[prev[u]] < arg[t]
        OBVIOUS
      <4>1. key[prev[u]] < arg[u] /\ key[prev[t]] >= arg[u] /\ key[prev[t]] < arg[t]
        BY <2>1, <2>5, <3>1 DEF LBefore, LAfter
      <4>2. arg[u] \in Nat /\ arg[t] \in Nat
        BY <2>5, LWorking, Constants DEF LazyPC
      <4>3. key[prev[u]] \in Nat /\ key[prev[t]] \in Nat
        BY <1>0, <2>1, <3>2, Facts, Constants DEF InUse, Common, Marks
      <4> QED BY <4>1, <4>2, <4>3
    <3> QED BY <2>5, <3>1, <3>2, <3>3
  <2> QED BY <2>3, <2>4, <2>5 DEF LeadsBack
<1> QED BY <1>1, <1>2

\* What the check of a search finds: a node in the list, or an end of it; and if the search
\* stops there with nothing to find, the key is not in the set.
LEMMA LChecked ==
  ASSUME LInv, NEW t \in Thread, pc[t] = "cur_check", next[prev[t]] = cur[t]
  PROVE  /\ cur[t] \in InList \cup {HeadCell, TailCell}
         /\ Stops(t) => cur[t] # HeadCell /\ (cur[t] = TailCell \/ key[cur[t]] # arg[t] \/ marked[cur[t]] => arg[t] \notin Members)
<1>0. /\ Common /\ kind \in Lists /\ End = TailCell /\ LBefore(t) /\ arg[t] \in Keys /\ Sorted /\ arg[t] \in Nat
      /\ items = {n \in InList : ~ marked[n]}
  BY LFacts, LWorking DEF LOwn, LPlace, LazyPC, Common, Marks
<1>1. CASE cur[t] = HeadCell
  BY <1>1, Constants DEF Stops
<1>2. CASE cur[t] # HeadCell
  <2>1. PICK c \in InList \cup {HeadCell} : cur[t] = next[c] /\ (c # HeadCell => key[c] < arg[t])
    BY <1>0, <1>2, LLeads
  <2>2. cur[t] \in InList \cup {TailCell}
    BY <1>0, <2>1, Facts
  <2>3. ASSUME Stops(t), cur[t] = TailCell \/ key[cur[t]] # arg[t] \/ marked[cur[t]], arg[t] \in Members PROVE FALSE
    <3>1. PICK n \in InList : key[n] = arg[t] /\ ~ marked[n]
      BY <1>0, <2>3 DEF Members
    <3>2. Precedes(c, n)
      BY <2>1, <3>1 DEF Precedes
    <3>3. cur[t] \in InList /\ (cur[t] = n \/ key[cur[t]] < key[n])
      BY <1>0, <2>1, <3>2 DEF Sorted
    <3>4. cur[t] # TailCell /\ key[cur[t]] \in Nat
      BY <1>0, <3>3, Facts, Constants
    <3> QED BY <1>0, <2>3, <3>1, <3>3, <3>4 DEF Stops
  <2> QED BY <1>2, <2>2, <2>3
<1> QED BY <1>1, <1>2

\* A step that changes the guards of t, and its position.
LEMMA LQuiet ==
  ASSUME LInv, NEW t \in Thread, Frame(t), kind' = kind, OthersGuard(t), Contract,
         UNCHANGED <<next, marked, key, status, items>>, node' = node, arg' = arg,
         Taking(t)' <=> Taking(t), Taking(t) => cur'[t] = cur[t],
         \/ ans'[t] = ans[t]
         \/ ans'[t] = "no" /\ ans[t] = "none"
         \/ ans'[t] = "yes" /\ op[t] \in {"find", "emplace"},
         \A j \in 0..3 : U(t, j)' \in Node => U(t, j)' \notin New
  PROVE  Does(t)
<1>1. (Making(t)' <=> Making(t))
  BY LFacts, Constants DEF LOwn, Control, AllocatesFirst, Inserts, Making
<1> QED BY <1>1, LFacts, QuietDoes

\* The search
LEMMA LSearchDoes ==
  ASSUME LInv, NEW t \in Thread, Frame(t), kind' = kind,
         LzSearch(t) \/ LzLoad(t) \/ LzGuard(t) \/ LzStep(t) \/ LzFind(t) \/ LzFunctor(t)
  PROVE  Does(t)
<1>0. Common /\ kind = "lazy" /\ R!RGood /\ R!RTypeOK /\ t \in DOMAIN pc /\ t \in DOMAIN ans /\ LOwn(t)
  BY LFacts DEF ListTypeOK
<1>1. /\ UNCHANGED <<next, marked, key, items>> /\ node' = node /\ arg' = arg /\ ~ Taking(t) /\ ~ Taking(t)'
      /\ pc[t] \in LazyPC
      /\ \/ ans'[t] = ans[t]
         \/ ans'[t] = "no" /\ ans[t] = "none"
         \/ ans'[t] = "yes" /\ op[t] \in {"find", "emplace"}
  <2>1. CASE LzSearch(t) \/ LzLoad(t) \/ LzGuard(t) \/ LzStep(t) \/ LzFunctor(t)
    BY <1>0, <2>1 DEF LzSearch, LzLoad, LzGuard, LzStep, LzFunctor, Goto, listVars, callVars, Taking, LazyPC
  <2>2. CASE LzFind(t)
    BY <1>0, <2>2 DEF LzFind, Goto, Answer, listVars, Taking, LazyPC, LOwn, LControl
  <2> QED BY <2>1, <2>2
<1>2. OthersGuard(t) /\ Contract /\ status' = status /\ \A j \in 0..3 : \E i \in 0..3 : U(t, j)' \in {Null, U(t, i)}
  <2>1. CASE LzSearch(t)
    BY <1>0, <2>1, SlotsReleased DEF LzSearch, Contract
  <2>2. CASE LzLoad(t) \/ LzFind(t) \/ LzFunctor(t)
    <3>1. UNCHANGED reclaimVars
      BY <2>2 DEF LzLoad, LzFind, LzFunctor
    <3> QED BY <3>1, GuardsKept DEF Contract, reclaimVars
  <2>3. CASE LzGuard(t)
    BY <1>0, <2>3, SlotGuarded DEF LzGuard, Contract
  <2>4. CASE LzStep(t)
    <3>1. cur[t] \in Node => U(t, 1) = cur[t]
      BY <1>0, <2>4, Constants DEF LzStep, LOwn, LPlace, Held
    <3> QED BY <1>0, <2>4, <3>1, SlotMoved DEF LzStep, Contract
  <2> QED BY <2>1, <2>2, <2>3, <2>4
<1>3. \A j \in 0..3 : U(t, j)' \in Node => U(t, j)' \notin New
  BY <1>0, <1>2, Constants, UsedNotNew
<1> QED BY <1>1, <1>2, <1>3, LQuiet

\* The check of a search confirms its guard.
LEMMA LCheckDoes ==
  ASSUME LInv, NEW t \in Thread, Frame(t), kind' = kind, LzCheck(t)
  PROVE  Does(t)
<1>0. Common /\ kind = "lazy" /\ kind \in Lists /\ R!RTypeOK /\ t \in DOMAIN pc /\ LOwn(t)
  BY LFacts DEF ListTypeOK
<1>1. /\ UNCHANGED <<next, marked, key, items>> /\ node' = node /\ arg' = arg /\ ans' = ans /\ ~ Taking(t) /\ ~ Taking(t)'
      /\ pc[t] = "cur_check"
  BY <1>0 DEF LzCheck, Goto, listVars, callVars, Taking
<1>2. OthersGuard(t) /\ Contract /\ status' = status /\ \A j \in 0..3 : U(t, j)' \in Node => U(t, j)' \notin New
  <2>1. CASE next[prev[t]] # cur[t]
    <3>1. UNCHANGED reclaimVars
      BY <2>1 DEF LzCheck
    <3> QED BY <1>0, <3>1, GuardsKept, UsedNotNew DEF Contract, reclaimVars
  <2>2. CASE next[prev[t]] = cur[t]
    <3>1. R!Use(S(t, 1))
      BY <2>2 DEF LzCheck, S
    <3>2. cur[t] \in InList \cup {HeadCell, TailCell}
      BY <1>1, <2>2, LChecked
    <3>3. H(t, 1) = (IF cur[t] \in Node THEN cur[t] ELSE Null)
      BY <1>0, <1>1 DEF LOwn, LPlace
    <3>4. H(t, 1) \in Node => status[H(t, 1)] = "linked" /\ H(t, 1) \notin New
      BY <1>0, <3>2, <3>3, Facts, Constants
    <3>5. /\ U(t, 1)' = H(t, 1) /\ \A j \in 0..3 : j # 1 => U(t, j)' = U(t, j)
          /\ OthersGuard(t) /\ status' = status /\ R!RNext
      BY <1>0, <3>1, <3>4, SlotUsed
    <3> QED BY <1>0, <3>4, <3>5, UsedNotNew DEF Contract
  <2> QED BY <2>1, <2>2
<1> QED BY <1>1, <1>2, LQuiet

\* What a validation leads to
LEMMA LValidate ==
  ASSUME LInv, NEW t \in Thread, Validate(t)
  PROVE  /\ UNCHANGED <<op, arg, node>> /\ pc[t] = "validate" /\ ans[t] = "none"
         /\ \/ ~ Validated(t) /\ pc'[t] = "unlock" /\ ans'[t] = "none"
            \/ Validated(t) /\ op[t] \in Inserts /\ HasKey(t) /\ pc'[t] = "unlock" /\ ans'[t] = "no"
            \/ Validated(t) /\ op[t] \in Inserts /\ ~ HasKey(t) /\ pc'[t] = "link" /\ ans'[t] = "none"
            \/ Validated(t) /\ op[t] = "emplace" /\ HasKey(t) /\ pc'[t] = "unlock" /\ ans'[t] = "yes"
            \/ Validated(t) /\ op[t] = "emplace" /\ ~ HasKey(t) /\ pc'[t] = "unlock" /\ ans'[t] = "no"
            \/ Validated(t) /\ op[t] = "erase" /\ HasKey(t) /\ pc'[t] = "mark" /\ ans'[t] = "none"
            \/ Validated(t) /\ op[t] = "erase" /\ ~ HasKey(t) /\ pc'[t] = "unlock" /\ ans'[t] = "no"
<1>0. /\ pc[t] = "validate" /\ ans[t] = "none" /\ op[t] \in KeyOps \ {"find"} /\ t \in DOMAIN pc /\ t \in DOMAIN ans
  BY LFacts, LWorking DEF Validate, LOwn, LControl, ListTypeOK, LockedPC, LazyPC
<1>1. op[t] \in Inserts \cup {"emplace", "erase"}
  BY <1>0 DEF KeyOps, Inserts
<1>2. CASE ~ Validated(t)
  BY <1>0, <1>2 DEF Validate, Goto, callVars
<1>3. CASE Validated(t) /\ op[t] \in Inserts
  BY <1>0, <1>3 DEF Validate, Goto, Answer, callVars, Inserts
<1>4. CASE Validated(t) /\ op[t] = "emplace"
  BY <1>0, <1>4 DEF Validate, Goto, Answer, callVars, Inserts
<1>5. CASE Validated(t) /\ op[t] = "erase"
  BY <1>0, <1>5 DEF Validate, Goto, Answer, callVars, Inserts
<1> QED BY <1>1, <1>2, <1>3, <1>4, <1>5

\* The locks
LEMMA LLockDoes ==
  ASSUME LInv, NEW t \in Thread, Frame(t), kind' = kind,
         LockPred(t) \/ LockCur(t) \/ UnlockCur(t) \/ UnlockPred(t) \/ Validate(t)
  PROVE  Does(t)
<1>0. Common /\ kind = "lazy" /\ t \in DOMAIN pc /\ t \in DOMAIN ans /\ LOwn(t)
  BY LFacts DEF ListTypeOK
<1>1. UNCHANGED <<next, marked, key, items, cur>> /\ UNCHANGED reclaimVars /\ node' = node /\ arg' = arg /\ op' = op
  BY DEF LockPred, LockCur, UnlockCur, UnlockPred, Acquire, Unlock, Validate, listVars, callVars, posVars, Answer
<1>2. /\ \/ ans'[t] = ans[t]
         \/ ans'[t] = "no" /\ ans[t] = "none"
         \/ ans'[t] = "yes" /\ op[t] \in {"find", "emplace"}
      /\ Taking(t)' <=> Taking(t)
  <2>1. CASE LockPred(t) \/ LockCur(t) \/ UnlockCur(t)
    BY <1>0, <2>1 DEF LockPred, LockCur, UnlockCur, Acquire, Unlock, Taking, Goto, callVars
  <2>2. CASE UnlockPred(t)
    BY <1>0, <2>2 DEF UnlockPred, Unlock, Taking, Goto, callVars
  <2>3. CASE Validate(t)
    <3>1. pc[t] = "validate" /\ ans[t] = "none" /\ ~ Taking(t)
      BY <1>0, <2>3 DEF Validate, LOwn, LControl, Taking
    <3>2. /\ pc'[t] \in {"unlock", "link", "mark"} /\ op' = op
          /\ ans'[t] = "none" \/ ans'[t] = "no" \/ (ans'[t] = "yes" /\ op[t] = "emplace")
      BY <2>3, <3>1, LValidate
    <3> QED BY <1>0, <3>1, <3>2 DEF Taking
  <2> QED BY <2>1, <2>2, <2>3
<1>3. \A j \in 0..3 : U(t, j)' \in Node => U(t, j)' \notin New
  BY <1>0, <1>1, GuardsKept, UsedNotNew
<1> QED BY <1>1, <1>2, <1>3, GuardsKept, LQuiet DEF Contract, reclaimVars

\* What a call that holds both locks, and has validated, knows
LEMMA LLockedFacts ==
  ASSUME LInv, NEW t \in Thread, pc[t] \in {"link", "mark", "unlink", "back_link"}
  PROVE  /\ prev[t] \in InList \cup {HeadCell} /\ ~ marked[prev[t]] /\ prev[t] \in Cell /\ (prev[t] # HeadCell => key[prev[t]] < arg[t])
         /\ next[prev[t]] \in InList \cup {TailCell} /\ prev[t] # cur[t] /\ arg[t] \in Keys
         /\ LBefore(t) /\ LAfter(t) /\ cur[t] \in Cell /\ cur[t] # HeadCell
         /\ pc[t] # "back_link" => next[prev[t]] = cur[t] /\ cur[t] \in InList \cup {TailCell}
         /\ pc[t] # "link" => cur[t] \in Node /\ op[t] = "erase" /\ node[t] = Null /\ ~ Making(t)
         /\ pc[t] \in {"unlink", "back_link"} => ans[t] = "yes"
         /\ pc[t] \in {"link", "mark"} => ans[t] = "none" /\ ~ marked[cur[t]]
         /\ pc[t] = "link" => op[t] \in Inserts
<1>1. LOwn(t) /\ LBefore(t) /\ LAfter(t) /\ arg[t] \in Keys
  BY LFacts, LWorking DEF LOwn, LPlace, LockedPC, LazyPC
<1>2. ~ marked[prev[t]] /\ (pc[t] # "back_link" => next[prev[t]] = cur[t]) /\ (pc[t] \in {"link", "mark"} => ~ marked[cur[t]])
  BY <1>1 DEF LOwn, LLocked
<1>3. /\ prev[t] \in InList \cup {HeadCell} /\ next[prev[t]] \in InList \cup {TailCell} /\ prev[t] # cur[t]
      /\ prev[t] \in Cell /\ cur[t] \in Cell /\ cur[t] # HeadCell
  BY <1>1, <1>2, LCells
<1>4. prev[t] # HeadCell => key[prev[t]] < arg[t]
  BY <1>1 DEF LBefore
<1>5. pc[t] # "link" => cur[t] \in Node /\ op[t] = "erase" /\ node[t] = Null /\ ~ Making(t)
  BY <1>1, Constants DEF LOwn, LControl, LPlace, Control, AllocatesFirst, Inserts, Making
<1>6. /\ pc[t] \in {"unlink", "back_link"} => ans[t] = "yes"
      /\ pc[t] \in {"link", "mark"} => ans[t] = "none"
      /\ pc[t] = "link" => op[t] \in Inserts
  BY <1>1 DEF LOwn, LControl
<1> QED BY <1>1, <1>2, <1>3, <1>4, <1>5, <1>6

\* insert links its node.
LEMMA LLinkDoes ==
  ASSUME LInv, NEW t \in Thread, Frame(t), kind' = kind, LzLink(t)
  PROVE  Does(t) /\ node[t] \in New /\ key[node[t]] = arg[t] /\ InList' = InList \cup {node[t]}
<1> DEFINE n == node[t]
<1>0. Common /\ kind = "lazy" /\ kind \in Lists /\ End = TailCell /\ LOwn(t) /\ t \in DOMAIN pc /\ t \in DOMAIN ans
  BY LFacts DEF ListTypeOK
<1>1. /\ pc[t] = "link" /\ ans[t] = "none" /\ UNCHANGED <<marked, key, node, op, arg>> /\ UNCHANGED reclaimVars
      /\ node[t] # Null /\ next' = [next EXCEPT ![n] = cur[t], ![prev[t]] = n] /\ items' = items \cup {n}
      /\ ans'[t] = "yes" /\ pc'[t] = "unlock"
  BY <1>0 DEF LzLink, LzLinked, LOwn, LControl, Answer, Goto
<1>2. op[t] \in Inserts /\ n \in Node /\ Making(t) /\ ~ Taking(t) /\ n \in New
  BY <1>0, <1>1, LLockedFacts DEF Common, Making, ListTypeOK, New, Taking
<1>3. /\ status[n] = "linked" /\ key[n] = arg[t] /\ arg[t] \in Keys /\ ~ marked[n] /\ n \notin InList /\ n # HeadCell
  BY <1>0, <1>1, <1>2, LLockedFacts, Constants DEF Common, News, Marks, InList, Gone
<1> HIDE DEF n
<1>4. ~ Making(t)' /\ ~ Taking(t)' /\ New' = New \ {n}
  <2>1. ~ Making(t)' /\ ~ Taking(t)'
    BY <1>0, <1>1, <1>2 DEF Making, Taking, Inserts
  <2> QED BY <1>0, <1>2, <2>1, NewStep DEF Common, n
<1>5. OthersGuard(t) /\ Handed /\ Contract /\ status' = status /\ \A j \in 0..3 : U(t, j)' = U(t, j)
  BY <1>1, GuardsKept DEF Contract, reclaimVars
<1>6. /\ prev[t] \in InList \cup {HeadCell} /\ ~ marked[prev[t]] /\ next[prev[t]] = cur[t] /\ (prev[t] # HeadCell => key[prev[t]] < arg[t])
      /\ cur[t] \in InList \cup {TailCell}
  BY <1>1, LLockedFacts
<1>7. cur[t] \in InList => arg[t] < key[cur[t]]
  <2>1. cur[t] \in Node => key[cur[t]] > arg[t]
    BY <1>0, <1>1 DEF LOwn, LLocked
  <2> QED BY <1>0, <2>1, Facts
<1>8. status' = [status EXCEPT ![n] = "linked"] /\ key' = [key EXCEPT ![n] = arg[t]]
  BY <1>0, <1>1, <1>2, <1>3, <1>5, Facts
<1>9. Goes({}) /\ InList' = InList \cup {n}
  <2>1. ~ Gone(n) /\ ~ InUse(n)
    BY <1>2, <1>3 DEF Gone, InUse
  <2>2. next[prev[t]] \in InList => arg[t] < key[next[prev[t]]]
    BY <1>6, <1>7
  <2>3. next' = [next EXCEPT ![n] = next[prev[t]], ![prev[t]] = n]
    BY <1>1, <1>6
  <2> QED BY <1>0, <1>1, <1>2, <1>3, <1>4, <1>6, <1>8, <2>1, <2>2, <2>3, LinkGoes
<1>10. News'
  <2>1. \A m \in New : status'[m] = "linked" /\ key'[m] = key[m]
    BY <1>0, <1>1, <1>5, Facts
  <2>2. \A j \in 0..3 : U(t, j)' \in Node => U(t, j)' \notin New'
    BY <1>0, <1>4, <1>5, UsedNotNew
  <2> QED BY <1>0, <1>4, <1>5, <2>1, <2>2, NewsGoes
<1>11. Taken'
  <2>1. \A m \in Node : status[m] = "unlinked" => status'[m] = "unlinked"
    BY <1>5
  <2> QED BY <1>0, <1>2, <1>4, <2>1, TakenGoes
<1>12. Freed({})
  BY DEF Freed
<1> QED BY <1>2, <1>3, <1>5, <1>9, <1>10, <1>11, <1>12 DEF Does, n

\* ensure allocates and links a node.
LEMMA LEnsureDoes ==
  ASSUME LInv, NEW t \in Thread, Frame(t), kind' = kind, NEW n \in Node, LzEnsure(t, n)
  PROVE  Does(t) /\ n \notin InList /\ n \notin New /\ InList' = InList \cup {n}
<1>0. Common /\ kind = "lazy" /\ kind \in Lists /\ End = TailCell /\ LOwn(t) /\ t \in DOMAIN pc /\ t \in DOMAIN ans
  BY LFacts DEF ListTypeOK
<1>1. /\ pc[t] = "link" /\ ans[t] = "none" /\ UNCHANGED <<marked, node, op, arg>> /\ key' = [key EXCEPT ![n] = arg[t]]
      /\ node[t] = Null /\ next' = [next EXCEPT ![n] = cur[t], ![prev[t]] = n] /\ items' = items \cup {n}
      /\ ans'[t] = "yes" /\ pc'[t] = "unlock" /\ R!Allocate(n)
  BY <1>0 DEF LzEnsure, LzLinked, LOwn, LControl, Answer, Goto
<1>2. /\ op[t] \in Inserts /\ arg[t] \in Keys /\ ~ Taking(t)
      /\ prev[t] \in InList \cup {HeadCell} /\ ~ marked[prev[t]] /\ next[prev[t]] = cur[t] /\ (prev[t] # HeadCell => key[prev[t]] < arg[t])
      /\ cur[t] \in InList \cup {TailCell}
  BY <1>0, <1>1, LLockedFacts DEF Taking
<1>3. /\ status[n] = "free" /\ status' = [status EXCEPT ![n] = "linked"] /\ UNCHANGED <<hz, using, blockers>> /\ Contract
  BY <1>1 DEF R!Allocate, R!SetStatus, Contract, R!RNext
<1>4. n \notin InList /\ n \notin New /\ ~ marked[n]
  BY <1>0, <1>3, Facts DEF Common, Marks
<1>5. ~ Making(t) /\ ~ Making(t)' /\ ~ Taking(t)' /\ New' = New
  <2>1. ~ Making(t) /\ ~ Making(t)' /\ ~ Taking(t)'
    BY <1>0, <1>1, <1>2, Constants DEF Making, Taking, Inserts
  <2> QED BY <2>1, NewStep
<1>6. OthersGuard(t) /\ \A j \in 0..3 : U(t, j)' = U(t, j)
  BY <1>3 DEF OthersGuard, H, U
<1>7. cur[t] \in InList => arg[t] < key[cur[t]]
  <2>1. cur[t] \in Node => key[cur[t]] > arg[t]
    BY <1>0, <1>1 DEF LOwn, LLocked
  <2> QED BY <1>0, <2>1, Facts
<1>8. \A m \in Node : m # n => status'[m] = status[m] /\ key'[m] = key[m]
  BY <1>0, <1>1, <1>3, Facts
<1>9. Goes({}) /\ InList' = InList \cup {n}
  <2>1. ~ Gone(n) /\ ~ InUse(n) /\ New' = New \ {n}
    BY <1>3, <1>4, <1>5 DEF Gone, InUse
  <2>2. next[prev[t]] \in InList => arg[t] < key[next[prev[t]]]
    BY <1>2, <1>7
  <2>3. next' = [next EXCEPT ![n] = next[prev[t]], ![prev[t]] = n]
    BY <1>1, <1>2
  <2> QED BY <1>0, <1>1, <1>2, <1>3, <1>4, <2>1, <2>2, <2>3, LinkGoes
<1>10. News'
  <2>1. \A m \in New : status'[m] = "linked" /\ key'[m] = key[m]
    BY <1>0, <1>4, <1>8, Facts
  <2>2. \A j \in 0..3 : U(t, j)' \in Node => U(t, j)' \notin New'
    BY <1>0, <1>5, <1>6, UsedNotNew
  <2> QED BY <1>0, <1>5, <1>6, <2>1, <2>2, NewsGoes
<1>11. Taken'
  <2>1. \A m \in Node : status[m] = "unlinked" => status'[m] = "unlinked"
    BY <1>3, <1>8
  <2> QED BY <1>0, <1>2, <1>5, <2>1, TakenGoes
<1>12. Freed({}) /\ Handed
  BY <1>3, <1>8 DEF Freed, Handed
<1> QED BY <1>3, <1>4, <1>6, <1>9, <1>10, <1>11, <1>12 DEF Does

\* erase marks its node.
LEMMA LMarkDoes ==
  ASSUME LInv, NEW t \in Thread, Frame(t), kind' = kind, LzMark(t)
  PROVE  Does(t) /\ InList' = InList /\ cur[t] \in InList /\ key[cur[t]] = arg[t]
<1>0. Common /\ kind = "lazy" /\ kind \in Lists /\ End = TailCell /\ LOwn(t) /\ t \in DOMAIN pc /\ t \in DOMAIN ans
  BY LFacts DEF ListTypeOK
<1>1. /\ pc[t] = "mark" /\ ans[t] = "none" /\ UNCHANGED <<next, key, node, op, arg, cur>> /\ UNCHANGED reclaimVars
      /\ marked' = [marked EXCEPT ![cur[t]] = TRUE] /\ items' = items \ {cur[t]}
      /\ ans'[t] = "yes" /\ pc'[t] = "unlink"
  BY <1>0 DEF LzMark, LOwn, LControl, Answer, Goto, posVars
<1>2. cur[t] \in InList /\ ~ marked[cur[t]] /\ ~ Making(t) /\ node[t] = Null /\ key[cur[t]] = arg[t]
  BY <1>0, <1>1, LLockedFacts, Facts, Constants DEF LOwn, LLocked
<1>3. ~ Taking(t) /\ ~ Taking(t)' /\ ~ Making(t)' /\ New' = New
  <2>1. ~ Taking(t) /\ ~ Taking(t)' /\ ~ Making(t)'
    BY <1>0, <1>1, <1>2, Constants DEF Taking, Making
  <2> QED BY <1>2, <2>1, NewStep
<1>4. OthersGuard(t) /\ Handed /\ Contract /\ status' = status /\ \A j \in 0..3 : U(t, j)' = U(t, j)
  BY <1>1, GuardsKept DEF Contract, reclaimVars
<1>5. Goes({}) /\ InList' = InList
  <2>1. Goes({})
    BY <1>0, <1>1, <1>2, <1>3, <1>4, MarkGoes
  <2> QED BY <1>3, <1>4, <2>1 DEF InList
<1>6. News'
  <2>1. \A m \in New : status'[m] = "linked" /\ key'[m] = key[m]
    BY <1>0, <1>1, <1>4, Facts
  <2>2. \A j \in 0..3 : U(t, j)' \in Node => U(t, j)' \notin New'
    BY <1>0, <1>3, <1>4, UsedNotNew
  <2> QED BY <1>0, <1>2, <1>3, <1>4, <2>1, <2>2, NewsGoes
<1>7. Taken'
  <2>1. \A m \in Node : status[m] = "unlinked" => status'[m] = "unlinked"
    BY <1>4
  <2> QED BY <1>0, <1>3, <2>1, TakenGoes
<1>8. Freed({})
  BY DEF Freed
<1> QED BY <1>2, <1>4, <1>5, <1>6, <1>7, <1>8 DEF Does

\* erase unlinks its node.
LEMMA LUnlinkDoes ==
  ASSUME LInv, NEW t \in Thread, Frame(t), kind' = kind, LzUnlink(t)
  PROVE  Does(t) /\ cur[t] \in InList /\ InList' = InList \ {cur[t]}
<1> DEFINE c == prev[t]
           n == cur[t]
<1>0. Common /\ kind = "lazy" /\ kind \in Lists /\ End = TailCell /\ LOwn(t) /\ t \in DOMAIN pc /\ marked \in [Cell -> BOOLEAN]
  BY LFacts DEF ListTypeOK
<1>1. /\ pc[t] = "unlink" /\ pc'[t] = "back_link" /\ next' = [next EXCEPT ![c] = next[n]] /\ R!SetStatus(n, "unlinked")
      /\ UNCHANGED <<marked, key, op, arg, ans, node, cur, items>>
  BY <1>0 DEF LzUnlink, callVars, posVars, Goto
<1>2. /\ c \in InList \cup {HeadCell} /\ next[c] = n /\ ~ marked[c] /\ marked[n] /\ n \in InList /\ n \in Node
      /\ ~ Making(t) /\ node[t] = Null
  BY <1>0, <1>1, LLockedFacts, Constants DEF LOwn, LLocked
<1>3. marked' = [marked EXCEPT ![n] = TRUE] /\ items' = items \ {n}
  BY <1>0, <1>1, <1>2 DEF Common, Marks, Cell
<1>4. ~ Taking(t) /\ Taking(t)' /\ (Making(t)' <=> Making(t))
  BY <1>0, <1>1, <1>2 DEF Taking, Making
<1> HIDE DEF c, n
<1>5. Does(t) /\ InList' = InList \ {n}
  <2>1. cur'[t] = n
    BY <1>1 DEF n
  <2> QED BY <1>0, <1>1, <1>2, <1>3, <1>4, <2>1, UnlinkDoes
<1> QED BY <1>2, <1>5 DEF n

\* erase links its node back to the head.
LEMMA LBackDoes ==
  ASSUME LInv, NEW t \in Thread, Frame(t), kind' = kind, BackLink(t)
  PROVE  Does(t)
<1>0. Common /\ kind = "lazy" /\ kind \in Lists /\ LOwn(t) /\ t \in DOMAIN pc
  BY LFacts DEF ListTypeOK
<1>1. /\ pc[t] = "back_link" /\ pc'[t] = "unlock" /\ next' = [next EXCEPT ![cur[t]] = HeadCell]
      /\ UNCHANGED <<marked, key, op, arg, ans, node, cur, items>> /\ UNCHANGED reclaimVars
  BY <1>0 DEF BackLink, callVars, posVars, Goto
<1>2. /\ cur[t] \in Node /\ status[cur[t]] = "unlinked" /\ cur[t] \notin InList /\ Taking(t) /\ Taking(t)'
      /\ Making(t)' <=> Making(t)
  BY <1>0, <1>1, LLockedFacts DEF Taking, Taken, Common, InList, Making
<1>3. New' = New
  BY <1>1, <1>2, NewStep
<1>4. OthersGuard(t) /\ Handed /\ Contract /\ status' = status /\ \A j \in 0..3 : U(t, j)' = U(t, j)
  BY <1>1, GuardsKept DEF Contract, reclaimVars
<1>5. Goes({}) /\ Freed({})
  BY <1>0, <1>1, <1>2, <1>3, <1>4, SetLinkGoes DEF Freed
<1>6. News'
  <2>1. \A m \in New : status'[m] = "linked" /\ key'[m] = key[m]
    BY <1>0, <1>1, <1>4, Facts
  <2>2. \A j \in 0..3 : U(t, j)' \in Node => U(t, j)' \notin New'
    BY <1>0, <1>3, <1>4, UsedNotNew
  <2>3. Making(t) => node[t] \in New
    BY DEF Making, New
  <2> QED BY <1>0, <1>1, <1>2, <1>3, <1>4, <2>1, <2>2, <2>3, NewsGoes
<1>7. Taken'
  <2>1. \A m \in Node : status[m] = "unlinked" => status'[m] = "unlinked"
    BY <1>4
  <2> QED BY <1>0, <1>1, <1>2, <2>1, TakenGoes
<1> QED BY <1>4, <1>5, <1>6, <1>7 DEF Does

\* Every step of the lazy list
LEMMA LDoes ==
  ASSUME LInv, NEW t \in Thread, Frame(t), kind' = kind, Steps(t)
  PROVE  Does(t)
<1>0. Common /\ kind = "lazy" /\ kind \in Lists /\ LActs(t)
  BY LFacts, LSteps
<1>1. ASSUME LzRetire(t) PROVE Does(t)
  <2>1. /\ pc[t] = "retire" /\ pc'[t] = "leave" /\ R!HandOver(cur[t]) /\ UNCHANGED <<kind, next, marked, key, items>>
        /\ node' = node /\ arg' = arg /\ ans' = ans /\ op' = op
    BY <1>0, <1>1 DEF LzRetire, listVars, callVars, Goto, Common, ListTypeOK
  <2>2. Taking(t) /\ ~ Taking(t)' /\ (Making(t)' <=> Making(t))
    BY <1>0, <2>1, LFacts DEF Taking, Making, LOwn, LControl
  <2> QED BY <1>0, <2>1, <2>2, HandDoes
<1> QED BY <1>0, <1>1, LSearchDoes, LCheckDoes, LLockDoes, LLinkDoes, LEnsureDoes, LMarkDoes, LUnlinkDoes, LBackDoes,
           CallDoes, EmptyDoes, ClearDoes, ClearRetireDoes, LeaveDoes, FreeNodeDoes DEF LActs

-----------------------------------------------------------------------------
(* The steps of the lazy list: what the thread itself knows afterwards *)

\* A step to where little is known
LEMMA LPlain ==
  ASSUME NEW t \in Thread, pc'[t] \notin LazyPC, Control(t)'
  PROVE  LOwn(t)'
BY DEF LOwn, LControl, LPlace, LLocked, LSaw, LazyPC, LockedPC

\* The search
LEMMA LSearchOwn ==
  ASSUME LInv, NEW t \in Thread, kind' = kind, LzSearch(t) \/ LzLoad(t) \/ LzGuard(t) \/ LzStep(t)
  PROVE  LOwn(t)'
<1>0. /\ Common /\ kind = "lazy" /\ R!RGood /\ R!RTypeOK /\ LOwn(t) /\ Control(t) /\ LControl(t) /\ LPlace(t)
      /\ t \in DOMAIN pc /\ t \in DOMAIN prev /\ t \in DOMAIN cur
  BY LFacts DEF ListTypeOK, LOwn
<1>1. /\ pc[t] \in {"search", "load", "cur_guard", "step"} /\ UNCHANGED <<next, marked, key, lock, op, arg, ans, node>>
      /\ pc'[t] \in {"load", "cur_guard", "cur_check"} /\ ans[t] = "none"
  BY <1>0 DEF LzSearch, LzLoad, LzGuard, LzStep, Goto, listVars, callVars, LControl
<1>2. Control(t)'
  BY <1>0, <1>1, ControlKept
<1>3. LControl(t)' /\ LLocked(t)' /\ LSaw(t)'
  BY <1>1 DEF LControl, LLocked, LSaw, LockedPC
<1>4. LPlace(t)'
  <2>1. CASE LzSearch(t)
    <3>1. prev'[t] = HeadCell /\ pc'[t] = "load"
      BY <1>0, <2>1 DEF LzSearch, Goto
    <3> QED BY <3>1 DEF LPlace, LBefore, LockedPC
  <2>2. CASE LzLoad(t)
    <3>1. LBefore(t) /\ pc'[t] = "cur_guard" /\ UNCHANGED prev /\ UNCHANGED reclaimVars
      BY <1>0, <2>2 DEF LzLoad, Goto, LPlace
    <3>2. U(t, 0)' = U(t, 0)
      BY <3>1, GuardsKept
    <3>3. LBefore(t)'
      BY <1>1, <3>1, <3>2 DEF LBefore, Held
    <3> QED BY <3>1, <3>3 DEF LPlace, LockedPC
  <2>3. CASE LzGuard(t)
    <3>1. LBefore(t) /\ pc'[t] = "cur_check" /\ UNCHANGED <<prev, cur>> /\ Guard(t, 1, cur[t])
      BY <1>0, <2>3 DEF LzGuard, Goto, LPlace, posVars
    <3>2. U(t, 0)' = U(t, 0) /\ H(t, 1)' = (IF cur[t] \in Node THEN cur[t] ELSE Null)
      BY <1>0, <3>1, SlotGuarded
    <3>3. LBefore(t)'
      BY <1>1, <3>1, <3>2 DEF LBefore, Held
    <3> QED BY <3>1, <3>2, <3>3 DEF LPlace, LockedPC
  <2>4. CASE LzStep(t)
    <3>1. /\ cur[t] = HeadCell \/ (Held(t, 1, cur[t]) /\ key[cur[t]] < arg[t])
          /\ pc'[t] = "load" /\ prev'[t] = cur[t] /\ MoveGuard(t, 1, 0, cur[t])
      BY <1>0, <2>4 DEF LzStep, Goto, LPlace
    <3>2. U(t, 0)' = (IF cur[t] \in Node THEN cur[t] ELSE Null)
      <4>1. cur[t] \in Node => U(t, 1) = cur[t]
        BY <3>1, Constants DEF Held
      <4> QED BY <1>0, <3>1, <4>1, SlotMoved
    <3>3. LBefore(t)'
      BY <1>1, <3>1, <3>2 DEF LBefore, Held
    <3> QED BY <3>1, <3>3 DEF LPlace, LockedPC
  <2> QED BY <2>1, <2>2, <2>3, <2>4
<1> QED BY <1>2, <1>3, <1>4 DEF LOwn

\* The check of a search
LEMMA LCheckOwn ==
  ASSUME LInv, NEW t \in Thread, Frame(t), kind' = kind, Watch, LzCheck(t)
  PROVE  LOwn(t)'
<1>0. /\ Common /\ kind = "lazy" /\ R!RGood /\ R!RTypeOK /\ LOwn(t) /\ Control(t) /\ LControl(t) /\ LPlace(t)
      /\ t \in DOMAIN pc /\ kind \in Lists
  BY LFacts DEF ListTypeOK, LOwn
<1>1. /\ pc[t] = "cur_check" /\ UNCHANGED <<next, marked, key, lock, op, arg, ans, node, prev, cur, items>>
      /\ pc'[t] \in {"load", "step", "find", "lock"} /\ ans[t] = "none" /\ LBefore(t) /\ arg[t] \in Nat
      /\ H(t, 1) = (IF cur[t] \in Node THEN cur[t] ELSE Null) /\ op[t] # "none"
  BY <1>0, LWorking DEF LzCheck, Goto, listVars, callVars, posVars, LControl, LPlace, LazyPC
<1>2. Control(t)'
  BY <1>0, <1>1, ControlKept
<1>3. CASE next[prev[t]] # cur[t]
  <2>1. pc'[t] = "load" /\ UNCHANGED reclaimVars
    BY <1>0, <1>3 DEF LzCheck, Goto
  <2>2. U(t, 0)' = U(t, 0)
    BY <2>1, GuardsKept
  <2>3. LBefore(t)'
    BY <1>1, <2>2 DEF LBefore, Held
  <2>4. LControl(t)' /\ LLocked(t)' /\ LSaw(t)' /\ LPlace(t)'
    BY <1>1, <2>1, <2>3 DEF LControl, LLocked, LSaw, LPlace, LockedPC
  <2> QED BY <1>2, <2>4 DEF LOwn
<1>4. CASE next[prev[t]] = cur[t]
  <2>1. /\ pc'[t] = (IF ~Stops(t) THEN "step" ELSE IF op[t] = "find" THEN "find" ELSE "lock") /\ R!Use(S(t, 1))
    BY <1>0, <1>4 DEF LzCheck, Goto, S
  <2>2. /\ cur[t] \in InList \cup {HeadCell, TailCell}
        /\ Stops(t) => cur[t] # HeadCell /\ (cur[t] = TailCell \/ key[cur[t]] # arg[t] \/ marked[cur[t]] => arg[t] \notin Members)
    BY <1>1, <1>4, LChecked
  <2>3. /\ U(t, 1)' = H(t, 1) /\ U(t, 0)' = U(t, 0)
    BY <1>0, <2>1, SlotUsed
  <2>4. LBefore(t)'
    BY <1>1, <2>3 DEF LBefore, Held
  <2>5. cur[t] \in Node => Held(t, 1, cur[t])' /\ key[cur[t]] \in Nat
    BY <1>0, <1>1, <2>2, <2>3, Facts, Constants DEF Held
  <2>6. Stops(t) => LAfter(t)'
    BY <1>0, <1>1, <2>2, <2>5, Facts DEF LAfter, Stops
  <2>7. ~ Stops(t) => cur'[t] = HeadCell \/ (Held(t, 1, cur[t])' /\ key'[cur'[t]] < arg'[t])
    BY <1>0, <1>1, <2>2, <2>5, Facts DEF Stops
  <2>8. arg[t] \notin Members => sawOut'[t]
    <3>1. Members' = Members /\ arg[t] # NoKey
      BY <1>0, <1>1, LWorking, Constants DEF Members, LazyPC
    <3> QED BY <1>1, <3>1, Sees DEF PendingIn, Missing
  <2>9. LControl(t)'
    BY <1>0, <1>1, <2>1 DEF LControl, LockedPC
  <2>10. LPlace(t)'
    BY <1>1, <2>1, <2>4, <2>6, <2>7 DEF LPlace, LockedPC
  <2>11. LLocked(t)' /\ LSaw(t)'
    BY <1>1, <2>1, <2>2, <2>8 DEF LLocked, LSaw
  <2> QED BY <1>2, <2>9, <2>10, <2>11 DEF LOwn
<1> QED BY <1>3, <1>4

\* find
LEMMA LFindOwn ==
  ASSUME LInv, NEW t \in Thread, kind' = kind, LzFind(t) \/ LzFunctor(t)
  PROVE  LOwn(t)'
<1>0. /\ Common /\ kind = "lazy" /\ LOwn(t) /\ Control(t) /\ LControl(t) /\ LPlace(t)
      /\ t \in DOMAIN pc /\ t \in DOMAIN ans
  BY LFacts DEF ListTypeOK, LOwn
<1>1. /\ pc[t] \in {"find", "touch"} /\ UNCHANGED <<key, op, arg, node, cur>> /\ UNCHANGED reclaimVars
      /\ ans'[t] # "none" /\ op[t] = "find"
      /\ pc'[t] = "leave" \/ (pc'[t] = "touch" /\ pc[t] = "find" /\ LzFound(t) /\ ans'[t] = "yes")
  BY <1>0 DEF LzFind, LzFunctor, Goto, Answer, listVars, callVars, posVars, LControl
<1>2. Control(t)'
  BY <1>0, <1>1, ControlKept
<1>3. CASE pc'[t] = "leave"
  BY <1>2, <1>3, LPlain DEF LazyPC
<1>4. CASE pc'[t] = "touch" /\ pc[t] = "find" /\ LzFound(t) /\ ans'[t] = "yes"
  <2>1. Held(t, 1, cur[t])
    BY <1>0, <1>4 DEF LPlace, LAfter, LzFound, HasKey
  <2>2. Held(t, 1, cur[t])'
    BY <1>1, <2>1, GuardsKept DEF Held
  <2>3. LControl(t)' /\ LPlace(t)' /\ LLocked(t)' /\ LSaw(t)'
    BY <1>1, <1>4, <2>2 DEF LControl, LPlace, LLocked, LSaw, LockedPC
  <2> QED BY <1>2, <2>3 DEF LOwn
<1> QED BY <1>1, <1>3, <1>4

\* The locks
LEMMA LLockOwn ==
  ASSUME LInv, NEW t \in Thread, kind' = kind, LockPred(t) \/ LockCur(t) \/ UnlockCur(t) \/ UnlockPred(t)
  PROVE  LOwn(t)'
<1>0. /\ LOwn(t) /\ Control(t) /\ LControl(t) /\ LPlace(t) /\ t \in DOMAIN pc /\ kind = "lazy"
  BY LFacts DEF ListTypeOK, LOwn
<1>1. /\ UNCHANGED <<next, marked, key, op, arg, ans, node, prev, cur>> /\ UNCHANGED reclaimVars
      /\ \/ pc[t] = "lock" /\ pc'[t] = "lock_cur"
         \/ pc[t] = "lock_cur" /\ pc'[t] = "validate"
         \/ pc[t] = "unlock" /\ pc'[t] = "unlock_pred"
         \/ pc[t] = "unlock_pred" /\ pc'[t] = (IF ans[t] = "none" THEN "search"
                                               ELSE IF op[t] = "erase" /\ ans[t] = "yes" THEN "retire" ELSE "leave")
  BY <1>0 DEF LockPred, LockCur, UnlockCur, UnlockPred, Acquire, Unlock, Goto, callVars, posVars
<1>2. Control(t)'
  BY <1>0, <1>1, ControlKept
<1>3. (LBefore(t) => LBefore(t)') /\ (LAfter(t) => LAfter(t)')
  BY <1>1, GuardsKept DEF LBefore, LAfter, Held
<1>4. LControl(t)'
  BY <1>0, <1>1 DEF LControl, LockedPC
<1>5. LPlace(t)' /\ LLocked(t)' /\ LSaw(t)'
  BY <1>0, <1>1, <1>3 DEF LPlace, LLocked, LSaw, LockedPC
<1> QED BY <1>2, <1>4, <1>5 DEF LOwn

\* What is validated is known as long as the locks are held.
LEMMA LValidateOwn ==
  ASSUME LInv, NEW t \in Thread, kind' = kind, Validate(t)
  PROVE  LOwn(t)'
<1>0. /\ Common /\ LOwn(t) /\ Control(t) /\ LControl(t) /\ LPlace(t) /\ kind = "lazy" /\ kind \in Lists
  BY LFacts DEF ListTypeOK, LOwn
<1>1. /\ UNCHANGED <<next, marked, key, op, arg, node, prev, cur>> /\ UNCHANGED reclaimVars
      /\ pc[t] = "validate" /\ ans[t] = "none" /\ LBefore(t) /\ LAfter(t) /\ arg[t] \in Nat
      /\ pc'[t] \in {"unlock", "link", "mark"}
  BY <1>0, LValidate, LWorking DEF Validate, listVars, posVars, LPlace, LockedPC, LazyPC
<1>2. Control(t)'
  BY <1>0, <1>1, ControlKept
<1>3. LBefore(t)' /\ LAfter(t)'
  BY <1>1, GuardsKept DEF LBefore, LAfter, Held
<1>4. LControl(t)'
  BY <1>0, <1>1, LValidate DEF LControl, LockedPC, Inserts
<1>5. ASSUME pc'[t] \in {"link", "mark"}
      PROVE  /\ ~ marked[prev[t]] /\ ~ marked[cur[t]] /\ next[prev[t]] = cur[t]
             /\ pc'[t] = "link" /\ cur[t] \in Node => key[cur[t]] > arg[t]
             /\ pc'[t] = "mark" => key[cur[t]] = arg[t] /\ cur[t] \in Node
  <2>1. /\ Validated(t)
        /\ pc'[t] = "link" => ~ HasKey(t)
        /\ pc'[t] = "mark" => HasKey(t)
    BY <1>5, LValidate
  <2>2. cur[t] \in Node => cur[t] # TailCell /\ key[cur[t]] >= arg[t] /\ key[cur[t]] \in Nat
    <3>1. cur[t] \in Node => InUse(cur[t])
      BY <1>1, LCells
    <3> QED BY <1>0, <1>1, <3>1, Constants DEF LAfter, InUse, Common, Marks
  <2> QED BY <1>1, <2>1, <2>2 DEF Validated, HasKey, LAfter, Held
<1>6. LPlace(t)' /\ LLocked(t)' /\ LSaw(t)'
  BY <1>0, <1>1, <1>3, <1>5 DEF LPlace, LLocked, LSaw, LockedPC
<1> QED BY <1>2, <1>4, <1>6 DEF LOwn

\* insert and ensure
LEMMA LLinkOwn ==
  ASSUME LInv, NEW t \in Thread, Frame(t), kind' = kind, LzLink(t) \/ \E n \in Node : LzEnsure(t, n)
  PROVE  LOwn(t)'
<1>0. /\ LOwn(t) /\ Control(t) /\ LControl(t) /\ LPlace(t) /\ kind = "lazy" /\ kind \in Lists
      /\ t \in DOMAIN pc /\ t \in DOMAIN ans /\ Common /\ t \in DOMAIN op
  BY LFacts DEF ListTypeOK, LOwn
<1>1. /\ UNCHANGED <<op, arg, node, prev, cur>> /\ pc[t] = "link" /\ pc'[t] = "unlock" /\ ans'[t] = "yes"
      /\ UNCHANGED <<hz, using>>
  BY <1>0 DEF LzLink, LzEnsure, LzLinked, Answer, Goto, posVars, reclaimVars, R!Allocate, R!SetStatus
<1>2. Control(t)'
  BY <1>0, <1>1, ControlKept
<1>3. PICK A \in SUBSET Node : Goes(A) /\ Freed(A)
  BY LLinkDoes, LEnsureDoes DEF Does
<1>4. LBefore(t) /\ LAfter(t)
  BY <1>1, LLockedFacts
<1>5. LBefore(t)' /\ LAfter(t)'
  <2>1. \A j \in 0..3 : U(t, j) \in Node => key'[U(t, j)] = key[U(t, j)]
    BY <1>0, <1>3, UsedKept DEF Kept
  <2>2. \A j : U(t, j)' = U(t, j)
    BY <1>1 DEF U
  <2> QED BY <1>1, <1>4, <2>1, <2>2 DEF LBefore, LAfter, Held
<1>6. LControl(t)'
  BY <1>0, <1>1 DEF LControl, LockedPC
<1>7. LPlace(t)' /\ LLocked(t)' /\ LSaw(t)'
  BY <1>1, <1>5 DEF LPlace, LLocked, LSaw, LockedPC
<1> QED BY <1>2, <1>6, <1>7 DEF LOwn

\* erase
LEMMA LEraseOwn ==
  ASSUME LInv, NEW t \in Thread, kind' = kind, LzMark(t) \/ LzUnlink(t) \/ BackLink(t) \/ LzRetire(t)
  PROVE  LOwn(t)'
<1>0. /\ LOwn(t) /\ Control(t) /\ LControl(t) /\ LPlace(t) /\ kind = "lazy" /\ t \in DOMAIN pc /\ t \in DOMAIN ans
      /\ next \in [Cell -> Pointer] /\ marked \in [Cell -> BOOLEAN]
  BY LFacts DEF ListTypeOK, LOwn
<1>1. /\ UNCHANGED <<key, op, arg, node, prev, cur>> /\ ans'[t] = "yes"
      /\ \/ pc[t] = "mark" /\ pc'[t] = "unlink"
         \/ pc[t] = "unlink" /\ pc'[t] = "back_link"
         \/ pc[t] = "back_link" /\ pc'[t] = "unlock"
         \/ pc[t] = "retire" /\ pc'[t] = "leave"
      /\ UNCHANGED <<hz, using>>
  BY <1>0 DEF LzMark, LzUnlink, BackLink, LzRetire, Answer, Goto, posVars, callVars, listVars, reclaimVars, R!HandOver,
     R!SetStatus, LControl
<1>2. Control(t)'
  BY <1>0, <1>1, ControlKept
<1>3. CASE LzRetire(t)
  <2>1. pc'[t] = "leave"
    BY <1>1, <1>3 DEF LzRetire
  <2> QED BY <1>2, <2>1, LPlain DEF LazyPC
<1>4. CASE LzMark(t) \/ LzUnlink(t) \/ BackLink(t)
  <2>1. pc[t] \in {"mark", "unlink", "back_link"}
    BY <1>4 DEF LzMark, LzUnlink, BackLink
  <2>2. /\ LBefore(t) /\ LAfter(t) /\ cur[t] \in Node /\ op[t] = "erase" /\ prev[t] # cur[t] /\ prev[t] \in Cell /\ cur[t] \in Cell
        /\ ~ marked[prev[t]] /\ (pc[t] # "back_link" => next[prev[t]] = cur[t])
    BY <2>1, LLockedFacts
  <2>3. LBefore(t)' /\ LAfter(t)'
    BY <1>1, <2>2 DEF LBefore, LAfter, Held, U
  <2>4. LControl(t)'
    BY <1>1, <2>1, <2>2 DEF LControl, LockedPC
  <2>5. LLocked(t)'
    <3>1. CASE LzMark(t)
      <4>1. marked' = [marked EXCEPT ![cur[t]] = TRUE] /\ next' = next /\ pc'[t] = "unlink"
        BY <1>1, <3>1 DEF LzMark
      <4> QED BY <1>0, <1>1, <2>1, <2>2, <4>1 DEF LLocked
    <3>2. CASE LzUnlink(t)
      <4>1. next' = [next EXCEPT ![prev[t]] = next[cur[t]]] /\ marked' = marked /\ pc'[t] = "back_link"
        BY <1>1, <3>2 DEF LzUnlink
      <4> QED BY <1>0, <1>1, <2>2, <4>1 DEF LLocked
    <3>3. CASE BackLink(t)
      <4>1. pc'[t] = "unlock"
        BY <1>1, <3>3 DEF BackLink
      <4> QED BY <4>1 DEF LLocked
    <3> QED BY <1>4, <3>1, <3>2, <3>3
  <2>6. LPlace(t)' /\ LSaw(t)'
    BY <1>1, <2>1, <2>2, <2>3 DEF LPlace, LSaw, LockedPC
  <2> QED BY <1>2, <2>4, <2>5, <2>6 DEF LOwn
<1> QED BY <1>3, <1>4

\* Every step of the lazy list
LEMMA LOwnStep ==
  ASSUME LInv, NEW t \in Thread, Frame(t), kind' = kind, Watch, Steps(t)
  PROVE  LOwn(t)'
<1>1. Common /\ kind \in Lists /\ LActs(t)
  BY LFacts, LSteps
<1>2. ASSUME Call(t) \/ Empty(t) \/ Clear(t) \/ ClearRetire(t) \/ Leave(t) \/ FreeNode(t) PROVE LOwn(t)'
  <2>1. /\ Control(t)' /\ (pc'[t] = "search" => ans'[t] = "none")
        /\ pc'[t] \in {"search", "empty", "clear", "clear_retire", "leave", "free", "idle"}
    BY <1>1, <1>2, SharedControl
  <2>2. LControl(t)' /\ LPlace(t)' /\ LLocked(t)' /\ LSaw(t)'
    BY <2>1 DEF LControl, LPlace, LLocked, LSaw, LockedPC
  <2> QED BY <2>1, <2>2 DEF LOwn
<1> QED BY <1>1, <1>2, LSearchOwn, LCheckOwn, LFindOwn, LLockOwn, LValidateOwn, LLinkOwn, LEraseOwn DEF LActs

-----------------------------------------------------------------------------
(* The lazy list: what the other threads know stays true *)

\* A thread writes the links and marks of the cells it has locked, and of nodes that no one
\* else knows; to clear, it is alone.
LEMMA LWrites ==
  ASSUME LInv, NEW t \in Thread, Frame(t), kind' = kind, Steps(t), NEW c \in Cell,
         next'[c] # next[c] \/ marked'[c] # marked[c]
  PROVE  lock[c] = t \/ (c \in Node /\ (c \in New \/ status[c] = "free")) \/ op[t] = "clear"
<1>0. /\ Common /\ kind \in Lists /\ LActs(t) /\ LocksHeld /\ LOwn(t) /\ next \in [Cell -> Pointer] /\ marked \in [Cell -> BOOLEAN]
  BY LFacts, LSteps DEF ListTypeOK
<1>1. pc[t] \in {"link", "mark", "unlink", "back_link"} => lock[prev[t]] = t /\ lock[cur[t]] = t
  <2>1. pc[t] \in {"link", "mark", "unlink", "back_link"} => prev[t] \in Cell /\ cur[t] \in Cell
    BY LLockedFacts
  <2> QED BY <1>0, <2>1 DEF LocksHeld
<1> USE DEF listVars
<1>2. CASE Call(t)
  BY <1>2 DEF Call, CallKeyed, CallEmpty, CallClear
<1>3. CASE \/ LzSearch(t) \/ LzLoad(t) \/ LzGuard(t) \/ LzCheck(t) \/ LzStep(t) \/ LzFind(t) \/ LzFunctor(t)
  BY <1>3 DEF LzSearch, LzLoad, LzGuard, LzCheck, LzStep, LzFind, LzFunctor
<1>4. CASE LockPred(t) \/ LockCur(t) \/ UnlockCur(t) \/ UnlockPred(t) \/ Validate(t) \/ LzRetire(t)
  BY <1>4 DEF LockPred, LockCur, UnlockCur, UnlockPred, Acquire, Unlock, Validate, LzRetire
<1>5. CASE LzLink(t)
  <2>1. node[t] \in New
    BY <1>5, LLinkDoes
  <2> QED BY <1>0, <1>1, <1>5, <2>1, Facts DEF LzLink, LzLinked
<1>6. ASSUME NEW n \in Node, LzEnsure(t, n) PROVE lock[c] = t \/ (c \in Node /\ (c \in New \/ status[c] = "free")) \/ op[t] = "clear"
  BY <1>0, <1>1, <1>6 DEF LzEnsure, LzLinked, R!Allocate
<1>7. CASE LzMark(t) \/ LzUnlink(t) \/ BackLink(t)
  BY <1>0, <1>1, <1>7 DEF LzMark, LzUnlink, BackLink
<1>8. CASE Empty(t) \/ ClearRetire(t) \/ Leave(t)
  BY <1>8 DEF Empty, ClearRetire, Leave
<1>9. CASE Clear(t)
  BY <1>0, <1>9 DEF Clear, LOwn, Control
<1>10. CASE FreeNode(t)
  <2>1. node[t] \in New
    BY <1>0, <1>10 DEF FreeNode, LOwn, Control, New, Making, Common, ListTypeOK
  <2> QED BY <1>0, <1>10, <2>1, Facts DEF FreeNode, Forget
<1> QED BY <1>0, <1>2, <1>3, <1>4, <1>5, <1>6, <1>7, <1>8, <1>9, <1>10 DEF LActs

\* A node is marked by its eraser, or by whoever clears the list.
LEMMA LMarking ==
  ASSUME LInv, NEW t \in Thread, LActs(t), NEW n \in Node, marked'[n], ~ marked[n]
  PROVE  (LzMark(t) /\ n = cur[t]) \/ (Clear(t) /\ op[t] = "clear" /\ n \notin InList')
<1>0. Common /\ marked \in [Cell -> BOOLEAN] /\ kind \in Lists /\ LOwn(t)
  BY LFacts DEF ListTypeOK
<1> USE DEF listVars
<1>1. CASE Call(t)
  BY <1>1 DEF Call, CallKeyed, CallEmpty, CallClear
<1>2. CASE \/ LzSearch(t) \/ LzLoad(t) \/ LzGuard(t) \/ LzCheck(t) \/ LzStep(t) \/ LzFind(t) \/ LzFunctor(t)
  BY <1>2 DEF LzSearch, LzLoad, LzGuard, LzCheck, LzStep, LzFind, LzFunctor
<1>3. CASE LockPred(t) \/ LockCur(t) \/ UnlockCur(t) \/ UnlockPred(t) \/ Validate(t) \/ LzRetire(t)
  BY <1>3 DEF LockPred, LockCur, UnlockCur, UnlockPred, Acquire, Unlock, Validate, LzRetire
<1>4. CASE LzLink(t) \/ (\E m \in Node : LzEnsure(t, m)) \/ LzUnlink(t) \/ BackLink(t)
  BY <1>4 DEF LzLink, LzEnsure, LzUnlink, BackLink
<1>5. CASE LzMark(t)
  BY <1>0, <1>5 DEF LzMark, Cell
<1>6. CASE Clear(t)
  <2>1. next[HeadCell] \in InList /\ n = next[HeadCell] /\ status' = [status EXCEPT ![n] = "unlinked"]
    BY <1>0, <1>6, Facts DEF Clear, R!SetStatus
  <2>2. op[t] = "clear"
    BY <1>0, <1>6 DEF Clear, LOwn, Control
  <2> QED BY <1>0, <1>6, <2>1, <2>2, Facts DEF InList
<1>7. CASE Empty(t) \/ ClearRetire(t) \/ Leave(t)
  BY <1>7 DEF Empty, ClearRetire, Leave
<1>8. CASE FreeNode(t)
  BY <1>0, <1>8 DEF FreeNode, Forget
<1> QED BY <1>1, <1>2, <1>3, <1>4, <1>5, <1>6, <1>7, <1>8 DEF LActs

\* What the others may count on: the cells that u has locked keep their links and marks, and
\* u notices when the node it looks for is marked.
Stable(u) ==
    /\ pc[u] \in {"link", "mark", "unlink", "back_link"} =>
          \A c \in {prev[u], cur[u]} : next'[c] = next[c] /\ marked'[c] = marked[c]
    /\ pc[u] = "find" /\ cur[u] \in Node /\ key[cur[u]] = arg[u] /\ marked'[cur[u]] /\ ~ marked[cur[u]] =>
          arg[u] \notin Members'

\* Other threads' steps keep what a thread knows.
LEMMA LOthers ==
  ASSUME LInv, kind' = kind, Watch, Handed, NEW A \in SUBSET Node, Goes(A), Freed(A),
         NEW u \in Thread, Undisturbed(u), Stable(u)
  PROVE  LOwn(u)'
<1>0. Common /\ kind = "lazy" /\ kind \in Lists /\ Control(u) /\ LControl(u) /\ LPlace(u) /\ LLocked(u) /\ LSaw(u)
  BY LFacts DEF LOwn
<1>1. /\ pc'[u] = pc[u] /\ op'[u] = op[u] /\ arg'[u] = arg[u] /\ ans'[u] = ans[u]
      /\ node'[u] = node[u] /\ prev'[u] = prev[u] /\ cur'[u] = cur[u]
      /\ \A j \in 0..3 : H(u, j)' = H(u, j) /\ U(u, j)' = U(u, j)
  BY DEF Undisturbed
<1>2. \A j \in 0..3 : U(u, j) \in Node => Kept(U(u, j))
  BY <1>0, UsedKept
<1>3. Control(u)'
  BY <1>0, <1>1 DEF Control, AllocatesFirst
<1>4. LControl(u)'
  BY <1>0, <1>1 DEF LControl, LockedPC
<1>5. LPlace(u)'
  <2>1. LBefore(u) => LBefore(u)'
    BY <1>1, <1>2 DEF LBefore, Held, Kept
  <2>2. LAfter(u) => LAfter(u)'
    BY <1>1, <1>2 DEF LAfter, Held, Kept
  <2>3. Held(u, 1, cur[u]) => Held(u, 1, cur[u])' /\ key'[cur[u]] = key[cur[u]]
    BY <1>1, <1>2 DEF Held, Kept
  <2> QED BY <1>0, <1>1, <2>1, <2>2, <2>3 DEF LPlace
<1>6. LLocked(u)'
  <2>1. pc[u] \in {"link", "mark"} => LAfter(u) /\ (cur[u] \in Node => key'[cur[u]] = key[cur[u]])
    <3>1. LAfter(u) /\ cur[u] \in Node => Kept(cur[u])
      BY <1>2, Constants DEF LAfter, Held
    <3> QED BY <1>0, <3>1 DEF LPlace, LockedPC, Kept
  <2>2. pc[u] = "mark" => cur[u] \in Node
    BY <1>0 DEF LPlace
  <2> QED BY <1>0, <1>1, <2>1, <2>2 DEF LLocked, Stable
<1>7. LSaw(u)'
  <2> SUFFICES ASSUME pc[u] = "find", cur[u] = TailCell \/ key'[cur[u]] # arg[u] \/ marked'[cur[u]] PROVE sawOut'[u]
    BY <1>1 DEF LSaw
  <2>1. LAfter(u) /\ ans[u] = "none" /\ op[u] # "none" /\ arg[u] # NoKey
    BY <1>0, LWorking, Constants DEF LPlace, LControl, LazyPC
  <2>2. sawOut[u] => sawOut'[u]
    BY <1>1, <2>1, Sees DEF PendingIn
  <2>3. arg[u] \notin Members' => sawOut'[u]
    BY <1>1, <2>1, Sees DEF PendingIn, Missing
  <2>4. cur[u] # TailCell => cur[u] \in Node /\ key'[cur[u]] = key[cur[u]]
    BY <1>2, <2>1 DEF LAfter, Held, Kept
  <2>5. CASE sawOut[u]
    BY <2>2, <2>5
  <2>6. CASE ~ sawOut[u]
    <3>1. cur[u] # TailCell /\ key[cur[u]] = arg[u] /\ ~ marked[cur[u]]
      BY <1>0, <2>6 DEF LSaw
    <3> QED BY <2>3, <2>4, <3>1 DEF Stable
  <2> QED BY <2>5, <2>6
<1> QED BY <1>3, <1>4, <1>5, <1>6, <1>7 DEF LOwn

\* Threads leave the others what they count on.
LEMMA LStable ==
  ASSUME LInv, NEW t \in Thread, Frame(t), kind' = kind, Steps(t), NEW u \in Thread \ {t}
  PROVE  Stable(u)
<1>0. /\ Common /\ kind \in Lists /\ LActs(t) /\ LocksHeld /\ LOwn(t) /\ LOwn(u) /\ Alone /\ pc'[u] = pc[u]
  BY LFacts, LSteps DEF Common, Frame
<1>1. op[t] = "clear" => pc[u] = "idle"
  BY <1>0 DEF Alone
<1>2. ASSUME pc[u] \in {"link", "mark", "unlink", "back_link"}, NEW c \in {prev[u], cur[u]}
      PROVE  next'[c] = next[c] /\ marked'[c] = marked[c]
  <2>1. c \in Cell /\ (c \in Node => InUse(c))
    BY <1>2, LLockedFacts, LCells
  <2>2. lock[c] = u /\ lock[c] # t
    BY <1>0, <1>2, <2>1 DEF LocksHeld
  <2> QED BY <1>1, <1>2, <2>1, <2>2, LWrites DEF InUse
<1>3. ASSUME pc[u] = "find", cur[u] \in Node, key[cur[u]] = arg[u], marked'[cur[u]], ~ marked[cur[u]], arg[u] \in Members'
      PROVE  FALSE
  <2>1. LzMark(t) /\ cur[u] = cur[t]
    BY <1>0, <1>1, <1>3, LMarking
  <2>2. InList' = InList /\ cur[t] \in InList /\ key' = key /\ items' = items \ {cur[t]}
    BY <2>1, LMarkDoes DEF LzMark
  <2>3. PICK n \in items : n # cur[t] /\ key[n] = arg[u]
    BY <1>3, <2>2 DEF Members
  <2>4. n \in InList
    BY <1>0, <2>3, Facts
  <2>5. Sorted
    BY LFacts
  <2> QED BY <1>3, <2>1, <2>2, <2>3, <2>4, <2>5 DEF Sorted
<1> QED BY <1>2, <1>3 DEF Stable

-----------------------------------------------------------------------------
(* The lazy list: unlinked nodes, marked nodes, and locks *)

\* A node that was in use leads back as before, unless it has just been unlinked.
LEMMA LGoneKept ==
  ASSUME LInv, NEW t \in Thread, Frame(t), kind' = kind, Steps(t), NEW n \in Node, InUse(n), InUse(n)',
         Gone(n), LeadsBack(n)
  PROVE  LeadsBack(n)'
<1>0. Common /\ kind \in Lists /\ LActs(t) /\ t \in DOMAIN pc /\ LOwn(t) /\ next \in [Cell -> Pointer]
  BY LFacts, LSteps DEF ListTypeOK
<1>1. ASSUME NEW u \in Thread, pc[u] = "back_link", cur[u] = n, u # t PROVE LeadsBack(n)'
  BY <1>1 DEF LeadsBack, Frame
<1>2. ASSUME pc[t] = "back_link", cur[t] = n PROVE LeadsBack(n)'
  <2>1. BackLink(t)
    BY <1>0, <1>2 DEF LActs, Call, LzSearch, LzLoad, LzGuard, LzCheck, LzStep, LzFind, LzFunctor, LockPred, LockCur,
       UnlockCur, UnlockPred, Acquire, Unlock, Validate, LzLink, LzEnsure, LzMark, LzUnlink, LzRetire,
       Empty, Clear, ClearRetire, Leave, FreeNode
  <2> QED BY <1>0, <1>2, <2>1 DEF BackLink, LeadsBack, Cell
<1>3. CASE next[n] = HeadCell /\ next'[n] = HeadCell
  BY <1>3 DEF LeadsBack
<1>4. CASE next[n] = HeadCell /\ next'[n] # HeadCell
  <2>0. n \notin InList /\ n # HeadCell
    BY <1>0, Constants, Facts DEF Gone
  <2> USE DEF listVars
  <2>1. ~ (\/ Call(t) \/ LzSearch(t) \/ LzLoad(t) \/ LzGuard(t) \/ LzCheck(t) \/ LzStep(t) \/ LzFind(t) \/ LzFunctor(t))
    BY <1>4 DEF Call, CallKeyed, CallEmpty, CallClear, LzSearch, LzLoad, LzGuard, LzCheck, LzStep, LzFind, LzFunctor
  <2>2. ~ (LockPred(t) \/ LockCur(t) \/ UnlockCur(t) \/ UnlockPred(t) \/ Validate(t) \/ LzMark(t) \/ LzRetire(t)
           \/ Empty(t) \/ ClearRetire(t) \/ Leave(t))
    BY <1>4 DEF LockPred, LockCur, UnlockCur, UnlockPred, Acquire, Unlock, Validate, LzMark, LzRetire, Empty, ClearRetire, Leave
  <2>3. ~ LzLink(t)
    <3> SUFFICES ASSUME LzLink(t) PROVE FALSE
      OBVIOUS
    <3>1. node[t] \in New /\ prev[t] \in InList \cup {HeadCell}
      BY LLinkDoes, LLockedFacts DEF LzLink
    <3>2. n # node[t] /\ n # prev[t]
      BY <2>0, <3>1 DEF InUse
    <3> QED BY <1>0, <1>4, <3>2 DEF LzLink, LzLinked, Cell
  <2>4. ASSUME NEW m \in Node, LzEnsure(t, m) PROVE FALSE
    <3>1. prev[t] \in InList \cup {HeadCell} /\ status[m] = "free"
      BY <2>4, LLockedFacts DEF LzEnsure, R!Allocate
    <3>2. n # m /\ n # prev[t]
      BY <2>0, <3>1 DEF InUse
    <3> QED BY <1>0, <1>4, <2>4, <3>2 DEF LzEnsure, LzLinked, Cell
  <2>5. ~ LzUnlink(t)
    <3> SUFFICES ASSUME LzUnlink(t) PROVE FALSE
      OBVIOUS
    <3>1. n # prev[t]
      BY <2>0, LLockedFacts DEF LzUnlink
    <3> QED BY <1>0, <1>4, <3>1 DEF LzUnlink, Cell
  <2>6. ~ BackLink(t)
    BY <1>0, <1>4 DEF BackLink, Cell
  <2>7. ~ Clear(t)
    BY <1>0, <1>4, <2>0 DEF Clear, Cell
  <2>8. ~ FreeNode(t)
    <3> SUFFICES ASSUME FreeNode(t) PROVE FALSE
      OBVIOUS
    <3>1. node[t] \in New
      BY <1>0 DEF FreeNode, LOwn, Control, New, Making, Common, ListTypeOK
    <3> QED BY <1>0, <1>4, <3>1 DEF FreeNode, Forget, InUse, Cell
  <2> QED BY <1>0, <2>1, <2>2, <2>3, <2>4, <2>5, <2>6, <2>7, <2>8 DEF LActs
<1> QED BY <1>1, <1>2, <1>3, <1>4 DEF LeadsBack

\* Only its eraser, or whoever clears the list, unlinks a node.
LEMMA LUnlinking ==
  ASSUME LInv, NEW t \in Thread, Frame(t), kind' = kind, Steps(t), NEW n \in Node, InUse(n), ~ Gone(n), Gone(n)'
  PROVE  (LzUnlink(t) /\ n = cur[t]) \/ pc[t] \in {"clear", "clear_retire"}
<1>0. /\ Common /\ kind \in Lists /\ LActs(t) /\ LOwn(t) /\ R!RGood /\ R!RTypeOK /\ status \in [Node -> R!Life]
  BY LFacts, LSteps, Facts
<1>1. status[n] = "linked" /\ status'[n] \in {"unlinked", "retired"}
  BY <1>0 DEF Gone, InUse, R!Life
<1> USE DEF reclaimVars
<1>2. ~ Call(t)
  <2>1. ASSUME NEW o \in KeyOps, NEW k \in Keys, CallKeyed(t, o, k) PROVE FALSE
    <3>1. status' = status \/ \E m \in Node : status' = [status EXCEPT ![m] = "linked"]
      BY <2>1 DEF CallKeyed, R!Allocate, R!SetStatus
    <3> QED BY <1>0, <1>1, <3>1
  <2> QED BY <1>1, <2>1 DEF Call, CallEmpty, CallClear
<1>3. ~ (LzLoad(t) \/ LzFind(t) \/ LzFunctor(t) \/ LockPred(t) \/ LockCur(t) \/ UnlockCur(t) \/ UnlockPred(t)
         \/ Validate(t) \/ LzLink(t) \/ LzMark(t) \/ BackLink(t) \/ Empty(t))
  BY <1>1 DEF LzLoad, LzFind, LzFunctor, LockPred, LockCur, UnlockCur, UnlockPred, Acquire, Unlock, Validate, LzLink, LzMark,
     BackLink, Empty
<1>4. ~ (LzSearch(t) \/ LzGuard(t) \/ LzCheck(t) \/ LzStep(t) \/ Leave(t))
  BY <1>1 DEF LzSearch, LzGuard, LzCheck, LzStep, Leave, Guard, MoveGuard, R!Release, R!SetSlot, R!Use, R!Copy
<1>5. ASSUME NEW m \in Node, LzEnsure(t, m) PROVE FALSE
  BY <1>0, <1>1, <1>5 DEF LzEnsure, R!Allocate, R!SetStatus
<1>6. LzUnlink(t) => n = cur[t]
  BY <1>0, <1>1 DEF LzUnlink, R!SetStatus
<1>7. ~ LzRetire(t)
  <2> SUFFICES ASSUME LzRetire(t) PROVE FALSE
    OBVIOUS
  <2>1. Taking(t)
    BY LFacts DEF LzRetire, LOwn, LControl, Taking
  <2>2. status[cur[t]] = "unlinked"
    BY <1>0, <2>1 DEF Common, Taken
  <2> QED BY <1>0, <1>1, <2>2 DEF LzRetire, R!HandOver
<1>8. Clear(t) \/ ClearRetire(t) => pc[t] \in {"clear", "clear_retire"}
  BY DEF Clear, ClearRetire
<1>9. ~ FreeNode(t)
  BY <1>0, <1>1 DEF FreeNode, R!Discard, R!SetStatus
<1> QED BY <1>0, <1>2, <1>3, <1>4, <1>5, <1>6, <1>7, <1>8, <1>9 DEF LActs

\* A thread uses what it used before, or what it has just seen in the list.
LEMMA LUses ==
  ASSUME LInv, NEW t \in Thread, kind' = kind, LActs(t), NEW j \in 0..3, U(t, j)' \in Node
  PROVE  \/ \E i \in 0..3 : U(t, i) = U(t, j)'
         \/ U(t, j)' \in InList /\ status' = status
<1>0. Common /\ kind \in Lists /\ R!RTypeOK /\ R!RGood /\ LOwn(t)
  BY LFacts
<1>1. CASE UNCHANGED using
  BY <1>1 DEF U
<1>2. CASE LzSearch(t) \/ Leave(t)
  BY <1>0, <1>2, SlotsReleased, Constants DEF LzSearch, Leave
<1>3. CASE LzGuard(t)
  BY <1>0, <1>3, SlotGuarded, Constants DEF LzGuard
<1>4. CASE LzStep(t)
  <2>1. cur[t] \in Node => U(t, 1) = cur[t]
    BY <1>0, <1>4, Constants DEF LzStep, LOwn, LPlace, Held
  <2>2. /\ U(t, 0)' = (IF cur[t] \in Node THEN cur[t] ELSE Null)
        /\ \A k \in 0..3 : k # 0 => U(t, k)' = U(t, k)
    BY <1>0, <1>4, <2>1, SlotMoved DEF LzStep
  <2> QED BY <2>1, <2>2, Constants
<1>5. CASE LzCheck(t) /\ next[prev[t]] = cur[t]
  <2>1. R!Use(S(t, 1)) /\ pc[t] = "cur_check"
    BY <1>5 DEF LzCheck, S
  <2>2. cur[t] \in InList \cup {HeadCell, TailCell} /\ H(t, 1) = (IF cur[t] \in Node THEN cur[t] ELSE Null)
    BY <1>0, <1>5, <2>1, LChecked DEF LOwn, LPlace
  <2>3. /\ U(t, 1)' = H(t, 1) /\ \A k \in 0..3 : k # 1 => U(t, k)' = U(t, k)
        /\ status' = status
    BY <1>0, <2>1, SlotUsed
  <2> QED BY <2>2, <2>3, Constants
<1>6. CASE LzCheck(t) /\ next[prev[t]] # cur[t]
  BY <1>1, <1>6 DEF LzCheck, reclaimVars
<1>7. CASE Call(t)
  <2>1. ASSUME NEW o \in KeyOps, NEW k \in Keys, CallKeyed(t, o, k) PROVE UNCHANGED using
    BY <2>1 DEF CallKeyed, reclaimVars, R!Allocate, R!SetStatus
  <2> QED BY <1>1, <1>7, <2>1 DEF Call, CallEmpty, CallClear, reclaimVars
<1>8. CASE \/ LzLoad(t) \/ LzFind(t) \/ LzFunctor(t) \/ LockPred(t) \/ LockCur(t) \/ UnlockCur(t) \/ UnlockPred(t)
           \/ Validate(t) \/ LzLink(t) \/ LzMark(t) \/ BackLink(t) \/ Empty(t)
  BY <1>1, <1>8 DEF LzLoad, LzFind, LzFunctor, LockPred, LockCur, UnlockCur, UnlockPred, Acquire, Unlock, Validate, LzLink,
     LzMark, BackLink, Empty, reclaimVars
<1>9. CASE (\E n \in Node : LzEnsure(t, n)) \/ LzUnlink(t) \/ LzRetire(t) \/ Clear(t) \/ ClearRetire(t) \/ FreeNode(t)
  BY <1>1, <1>9 DEF LzEnsure, LzUnlink, LzRetire, Clear, ClearRetire, FreeNode, R!Allocate, R!SetStatus, R!HandOver, R!Discard,
     reclaimVars
<1> QED BY <1>2, <1>3, <1>4, <1>5, <1>6, <1>7, <1>8, <1>9 DEF LActs

\* From each node that a search may stand on it gets back into the list.
LEMMA LGoneStep ==
  ASSUME LInv, NEW t \in Thread, Frame(t), kind' = kind, Steps(t), R!RGood'
  PROVE  LGone'
<1>0. /\ Common /\ kind \in Lists /\ LActs(t) /\ LGone /\ Does(t) /\ OthersGuard(t) /\ News' /\ Alone
      /\ \A u \in Thread : Control(u)
  BY LFacts, LSteps, LDoes DEF Does, Common
<1> SUFFICES ASSUME NEW s \in Slot, using'[s] \in Node, Gone(using[s])' PROVE LeadsBack(using[s])'
  BY DEF LGone
<1>1. PICK n \in Node : n = using'[s]
  OBVIOUS
<1>2. PICK w \in Thread, j \in 0..3 : s = <<w, j>>
  BY Slots
<1>20. U(w, j)' = n
  BY <1>1, <1>2 DEF U
<1>3. InUse(n)' /\ Gone(n)'
  <2>1. n \notin New'
    BY <1>0, <1>1, Slots DEF News, New
  <2>2. status'[n] # "free"
    BY <1>1 DEF R!RGood, R!RInv
  <2> QED BY <1>1, <2>1, <2>2 DEF InUse, Gone
<1>4. (\E i \in 0..3 : U(w, i) = n) \/ (n \in InList /\ status' = status)
  <2>1. CASE w = t
    BY <1>0, <1>20, <2>1, LUses
  <2>2. CASE w # t
    BY <1>0, <1>20, <2>2 DEF OthersGuard
  <2> QED BY <2>1, <2>2
<1>5. ~ (n \in InList /\ status' = status)
  BY <1>0, <1>3, Facts DEF Gone
<1>6. PICK i \in 0..3 : U(w, i) = n
  BY <1>4, <1>5
<1>7. InUse(n)
  BY <1>0, <1>6, UsedNotNew
<1>8. CASE Gone(n)
  BY <1>0, <1>1, <1>3, <1>6, <1>7, <1>8, LUsedGone, LGoneKept
<1>9. CASE ~ Gone(n)
  <2>1. CASE LzUnlink(t) /\ n = cur[t]
    <3>1. pc'[t] = "back_link" /\ cur'[t] = n
      BY <1>0, <2>1 DEF LzUnlink, Goto, posVars, Common, ListTypeOK
    <3> QED BY <1>1, <3>1 DEF LeadsBack
  <2>2. CASE pc[t] \in {"clear", "clear_retire"}
    <3>1. op[t] = "clear" /\ U(t, i) = Null
      BY <1>0, <2>2 DEF Control
    <3>2. w # t => pc[w] = "idle"
      BY <1>0, <3>1 DEF Alone
    <3>3. U(w, i) = Null
      BY <1>0, <3>1, <3>2 DEF Control
    <3> QED BY <1>6, <3>3, Constants
  <2> QED BY <1>3, <1>7, <1>9, <2>1, <2>2, LUnlinking
<1> QED BY <1>1, <1>8, <1>9 DEF LeadsBack

\* A marked node has an eraser about to unlink it.
LEMMA LDoomedStep ==
  ASSUME LInv, NEW t \in Thread, Frame(t), kind' = kind, Steps(t)
  PROVE  LDoomed'
<1>0. Common /\ kind = "lazy" /\ kind \in Lists /\ LActs(t) /\ Does(t) /\ t \in DOMAIN pc /\ LDoomed
  BY LFacts, LSteps, LDoes DEF ListTypeOK, LInv
<1>1. PICK A \in SUBSET Node : Goes(A) /\ Freed(A)
  BY <1>0 DEF Does
<1> SUFFICES ASSUME NEW n \in InList', marked'[n] PROVE \E u \in Thread : pc'[u] = "unlink" /\ cur'[u] = n
  BY DEF LDoomed
<1>2. n \in Node
  BY DEF InList
<1>3. CASE marked[n]
  <2>1. n \in InList
    BY <1>0, <1>1, <1>3, MarkedListed
  <2>2. PICK u \in Thread : pc[u] = "unlink" /\ cur[u] = n
    BY <1>0, <1>3, <2>1 DEF LDoomed
  <2>3. CASE u # t
    BY <2>2, <2>3 DEF Frame
  <2>4. CASE u = t
    <3>1. LzUnlink(t)
      BY <1>0, <2>2, <2>4 DEF LActs, Call, LzSearch, LzLoad, LzGuard, LzCheck, LzStep, LzFind, LzFunctor, LockPred, LockCur,
         UnlockCur, UnlockPred, Acquire, Unlock, Validate, LzLink, LzEnsure, LzMark, BackLink, LzRetire,
         Empty, Clear, ClearRetire, Leave, FreeNode
    <3> QED BY <2>2, <2>4, <3>1, LUnlinkDoes
  <2> QED BY <2>3, <2>4
<1>4. CASE ~ marked[n]
  <2>1. LzMark(t) /\ n = cur[t]
    BY <1>0, <1>2, <1>4, LMarking
  <2>2. pc'[t] = "unlink" /\ cur'[t] = n
    BY <1>0, <2>1 DEF LzMark, Goto, posVars
  <2> QED BY <2>2
<1> QED BY <1>3, <1>4

\* The locks are held by those that are between locking and unlocking.
LEMMA LLocksStep ==
  ASSUME LInv, NEW t \in Thread, Frame(t), kind' = kind, Steps(t)
  PROVE  LocksHeld'
<1> DEFINE Locking1(u) == pc[u] \in {"lock_cur", "validate", "unlock", "unlock_pred", "link", "mark", "unlink", "back_link"}
           Locking2(u) == pc[u] \in {"validate", "unlock", "link", "mark", "unlink", "back_link"}
<1>0. /\ Common /\ kind = "lazy" /\ kind \in Lists /\ LActs(t) /\ LocksHeld /\ t \in DOMAIN pc /\ LOwn(t)
      /\ lock \in [Cell -> Thread \cup {NoThread}] /\ NoThread \notin Thread
  BY LFacts, LSteps, Constants DEF ListTypeOK
<1>1. \A c \in Cell, u \in Thread : lock[c] = u <=> (c = prev[u] /\ Locking1(u)) \/ (c = cur[u] /\ Locking2(u))
  BY <1>0 DEF LocksHeld
<1>2. \A u \in Thread \ {t} : prev'[u] = prev[u] /\ cur'[u] = cur[u] /\ (Locking1(u)' <=> Locking1(u)) /\ (Locking2(u)' <=> Locking2(u))
  BY DEF Frame
<1>3. SUFFICES \A c \in Cell, u \in Thread :
                 lock'[c] = u <=> (c = prev'[u] /\ Locking1(u)') \/ (c = cur'[u] /\ Locking2(u)')
  BY DEF LocksHeld
<1>4. pc[t] \in {"lock", "lock_cur", "unlock", "unlock_pred"} => prev[t] \in Cell /\ cur[t] \in Cell /\ prev[t] # cur[t]
  BY <1>0, LWorking, LCells DEF LOwn, LPlace, LockedPC, LazyPC
<1>5. CASE LockPred(t)
  <2>1. /\ pc[t] = "lock" /\ lock[prev[t]] = NoThread /\ lock' = [lock EXCEPT ![prev[t]] = t]
        /\ pc'[t] = "lock_cur" /\ UNCHANGED <<prev, cur>>
    BY <1>0, <1>5 DEF LockPred, Acquire, Goto, posVars
  <2> QED BY <1>0, <1>1, <1>2, <1>4, <2>1
<1>6. CASE LockCur(t)
  <2>1. /\ pc[t] = "lock_cur" /\ lock[cur[t]] = NoThread /\ lock' = [lock EXCEPT ![cur[t]] = t]
        /\ pc'[t] = "validate" /\ UNCHANGED <<prev, cur>>
    BY <1>0, <1>6 DEF LockCur, Acquire, Goto, posVars
  <2> QED BY <1>0, <1>1, <1>2, <1>4, <2>1
<1>7. CASE UnlockCur(t)
  <2>1. /\ pc[t] = "unlock" /\ lock' = [lock EXCEPT ![cur[t]] = NoThread]
        /\ pc'[t] = "unlock_pred" /\ UNCHANGED <<prev, cur>>
    BY <1>0, <1>7 DEF UnlockCur, Unlock, Goto, posVars
  <2> QED BY <1>0, <1>1, <1>2, <1>4, <2>1
<1>8. CASE UnlockPred(t)
  <2>1. /\ pc[t] = "unlock_pred" /\ lock' = [lock EXCEPT ![prev[t]] = NoThread]
        /\ pc'[t] \in {"search", "retire", "leave"} /\ UNCHANGED <<prev, cur>>
    BY <1>0, <1>8 DEF UnlockPred, Unlock, Goto, posVars
  <2> QED BY <1>0, <1>1, <1>2, <1>4, <2>1
<1>9. ASSUME lock' = lock,
             \/ Locking1(t)' /\ Locking1(t) /\ (Locking2(t) <=> Locking2(t)') /\ prev'[t] = prev[t] /\ cur'[t] = cur[t]
             \/ ~ Locking1(t) /\ ~ Locking2(t) /\ ~ Locking1(t)' /\ ~ Locking2(t)'
      PROVE  \A c \in Cell, u \in Thread :
                 lock'[c] = u <=> (c = prev'[u] /\ Locking1(u)') \/ (c = cur'[u] /\ Locking2(u)')
  BY <1>1, <1>2, <1>9
<1> USE DEF Goto, listVars, posVars
<1>10. CASE Validate(t) \/ LzLink(t) \/ LzMark(t) \/ LzUnlink(t) \/ BackLink(t) \/ \E n \in Node : LzEnsure(t, n)
  <2>1. lock' = lock /\ pc[t] \in {"validate", "link", "mark", "unlink", "back_link"}
        /\ pc'[t] \in {"unlock", "link", "mark", "unlink", "back_link"} /\ UNCHANGED <<prev, cur>>
    BY <1>0, <1>10, LValidate DEF Validate, LzLink, LzMark, LzUnlink, BackLink, LzEnsure, LzLinked
  <2> QED BY <1>9, <2>1
<1>11. CASE LzSearch(t) \/ LzLoad(t) \/ LzGuard(t) \/ LzCheck(t) \/ LzStep(t) \/ LzFind(t) \/ LzFunctor(t) \/ LzRetire(t)
  <2>1. lock' = lock /\ pc[t] \in {"search", "load", "cur_guard", "cur_check", "step", "find", "touch", "retire"}
        /\ pc'[t] \in {"load", "cur_guard", "cur_check", "step", "find", "touch", "lock", "leave"}
    BY <1>0, <1>11 DEF LzSearch, LzLoad, LzGuard, LzCheck, LzStep, LzFind, LzFunctor, LzRetire
  <2> QED BY <1>9, <2>1
<1>12. CASE Call(t) \/ Empty(t) \/ Clear(t) \/ ClearRetire(t) \/ Leave(t) \/ FreeNode(t)
  <2>1. pc[t] \in {"idle", "empty", "clear", "clear_retire", "leave", "free"}
    BY <1>12 DEF Call, Empty, Clear, ClearRetire, Leave, FreeNode
  <2>2. pc'[t] \in {"search", "empty", "clear", "clear_retire", "leave", "free", "idle"}
    BY <1>0, <1>12, SharedControl
  <2>3. lock' = lock
    <3>1. CASE Call(t)
      BY <3>1 DEF Call, CallKeyed, CallEmpty, CallClear
    <3>2. CASE Empty(t) \/ Clear(t) \/ ClearRetire(t) \/ Leave(t) \/ FreeNode(t)
      BY <3>2 DEF Empty, Clear, ClearRetire, Leave, FreeNode, Forget
    <3> QED BY <1>12, <3>1, <3>2
  <2> QED BY <1>9, <2>1, <2>2, <2>3
<1> QED BY <1>0, <1>5, <1>6, <1>7, <1>8, <1>10, <1>11, <1>12 DEF LActs

-----------------------------------------------------------------------------
(* The lazy list: the invariant *)

\* The steps of the lazy list keep the types.
LEMMA LTyped ==
  ASSUME LInv, NEW t \in Thread, Frame(t), kind' = kind, Watch, Steps(t)
  PROVE  ListTypeOK' /\ LTypes'
<1> USE DEF Goto, Answer, callVars, posVars, listVars
<1> DEFINE Typed == PosTypes(Pointer, Pointer, {Null}) /\ FieldTypes /\ CallTypes /\ PcTypes
<1>1. /\ Common /\ kind = "lazy" /\ kind \in Lists /\ LActs(t) /\ Does(t) /\ Typed /\ LOwn(t)
      /\ HeadCell \in Cell /\ TailCell \in Cell /\ Node \subseteq Cell /\ Cell \subseteq Pointer
  <2>1. Common /\ kind = "lazy" /\ kind \in Lists /\ LActs(t) /\ Does(t) /\ LTypes /\ ListTypeOK /\ LOwn(t)
    BY LSteps, LDoes, LFacts DEF LInv
  <2>2. FieldTypes /\ CallTypes /\ PcTypes
    BY <2>1 DEF ListTypeOK, FieldTypes, CallTypes, PcTypes
  <2>3. PosTypes(Pointer, Pointer, {Null})
    BY <2>1 DEF ListTypeOK, LTypes, PosTypes
  <2> QED BY <2>1, <2>2, <2>3 DEF Cell, Pointer
<1>2. Typed'
  <2>1. ASSUME Call(t) \/ Empty(t) \/ Clear(t) \/ ClearRetire(t) \/ Leave(t) \/ FreeNode(t)
        PROVE  Typed'
    <3>1. HeadCell \in Pointer /\ Null \in Pointer /\ InList \subseteq Pointer /\ next \in [Cell -> Pointer]
      BY <1>1, Facts DEF Pointer, Cell
    <3> QED BY <1>1, <2>1, <3>1, SharedTyped
  <2> SUFFICES ASSUME ~ (Call(t) \/ Empty(t) \/ Clear(t) \/ ClearRetire(t) \/ Leave(t) \/ FreeNode(t))
               PROVE  Typed'
    BY <2>1
  <2>2. CASE LzSearch(t) \/ LzLoad(t) \/ LzGuard(t) \/ LzCheck(t) \/ LzStep(t)
    <3>1. FieldTypes' /\ CallTypes'
      BY <1>1, <2>2 DEF LzSearch, LzLoad, LzGuard, LzCheck, LzStep, FieldTypes, CallTypes
    <3>2. PcTypes'
      BY <1>1, <2>2 DEF LzSearch, LzLoad, LzGuard, LzCheck, LzStep, PcTypes, LazyPC
    <3>3. PosTypes(Pointer, Pointer, {Null})'
      <4>1. pc[t] = "load" => next[prev[t]] \in Pointer
        <5>1. pc[t] = "load" => prev[t] \in Cell
          BY <1>1, LCells DEF LOwn, LPlace
        <5> QED BY <1>1, <5>1 DEF FieldTypes
      <4> QED BY <1>1, <2>2, <4>1 DEF LzSearch, LzLoad, LzGuard, LzCheck, LzStep, PosTypes
    <3> QED BY <3>1, <3>2, <3>3
  <2>3. CASE LzFind(t) \/ LzFunctor(t)
    BY <1>1, <2>3 DEF LzFind, LzFunctor, FieldTypes, CallTypes, PcTypes, LazyPC, PosTypes
  <2>4. CASE LockPred(t) \/ LockCur(t) \/ UnlockCur(t) \/ UnlockPred(t)
    BY <1>1, <2>4 DEF LockPred, LockCur, UnlockCur, UnlockPred, Acquire, Unlock, FieldTypes, CallTypes, PcTypes, LazyPC,
       PosTypes
  <2>5. CASE Validate(t)
    BY <1>1, <2>5 DEF Validate, FieldTypes, CallTypes, PcTypes, LazyPC, PosTypes
  <2>6. CASE LzLink(t) \/ \E n \in Node : LzEnsure(t, n)
    <3>1. PICK n \in Node : LzLinked(t, n) /\ (key' = key \/ key' = [key EXCEPT ![n] = arg[t]])
                            /\ UNCHANGED <<marked, lock, prev, cur, nxt, nmark>>
      <4>1. LzLink(t) => node[t] \in Node
        BY <1>1 DEF LzLink, CallTypes
      <4> QED BY <2>6, <4>1 DEF LzLink, LzEnsure
    <3>2. arg[t] \in Keys \cup {NoKey} /\ cur[t] \in Pointer /\ n \in Pointer
      BY <1>1 DEF CallTypes, PosTypes
    <3>3. next' \in [Cell -> Pointer] /\ key' \in [Node -> Keys \cup {NoKey}] /\ items' \subseteq Node
      BY <1>1, <3>1, <3>2 DEF LzLinked, FieldTypes
    <3>4. FieldTypes'
      BY <1>1, <3>1, <3>3 DEF FieldTypes
    <3>5. CallTypes' /\ PcTypes' /\ PosTypes(Pointer, Pointer, {Null})'
      BY <1>1, <3>1 DEF LzLinked, CallTypes, PcTypes, PosTypes, LazyPC
    <3> QED BY <3>4, <3>5
  <2>7. CASE LzMark(t)
    BY <1>1, <2>7 DEF LzMark, FieldTypes, CallTypes, PcTypes, LazyPC, PosTypes
  <2>8. CASE LzUnlink(t) \/ BackLink(t) \/ LzRetire(t)
    <3>1. UNCHANGED <<marked, key, lock, op, arg, ans, node, prev, cur, nxt, nmark, items>>
      BY <2>8 DEF LzUnlink, BackLink, LzRetire
    <3>2. pc' = [pc EXCEPT ![t] = "back_link"] \/ pc' = [pc EXCEPT ![t] = "unlock"] \/ pc' = [pc EXCEPT ![t] = "leave"]
      BY <2>8 DEF LzUnlink, BackLink, LzRetire
    <3>3. next' \in [Cell -> Pointer]
      <4>1. LzUnlink(t) => next[cur[t]] \in Pointer
        BY <1>1, LLockedFacts DEF LzUnlink, FieldTypes
      <4> QED BY <1>1, <2>8, <4>1 DEF LzUnlink, BackLink, LzRetire, FieldTypes
    <3>4. FieldTypes' /\ CallTypes' /\ PosTypes(Pointer, Pointer, {Null})'
      BY <1>1, <3>1, <3>3 DEF FieldTypes, CallTypes, PosTypes
    <3>5. PcTypes'
      BY <1>1, <3>2 DEF PcTypes, LazyPC
    <3> QED BY <3>4, <3>5
  <2> QED BY <1>1, <2>2, <2>3, <2>4, <2>5, <2>6, <2>7, <2>8 DEF LActs
<1>3. R!RTypeOK'
  <2>1. R!RGood'
    BY <1>1, Constants, R!GoodStep DEF Does, Contract, Common
  <2> QED BY <2>1 DEF R!RGood
<1>4. ListTypeOK'
  <2>1. \A v \in {prev', cur', nxt'} : v \in [Thread -> Pointer]
    BY <1>2 DEF PosTypes, Pointer, Cell
  <2>2. kind' \in {"michael", "lazy"}
    BY <1>1
  <2> QED BY <1>2, <1>3, <2>1, <2>2, WatchTypes DEF ListTypeOK, FieldTypes, CallTypes, PcTypes
<1> QED BY <1>2, <1>4 DEF LTypes, PosTypes

\* Every step of a thread of the lazy list keeps the invariant.
LEMMA LThreadStep ==
  ASSUME LInv, NEW t \in Thread, kind' = kind, Watch, Steps(t)
  PROVE  LInv' /\ Contract
<1>1. Common /\ kind = "lazy" /\ kind \in Lists /\ Frame(t)
  BY FrameStep, LFacts
<1>2. Does(t) /\ LDoomed' /\ LocksHeld' /\ ListTypeOK' /\ LTypes' /\ Alone' /\ Noticed' /\ LOwn(t)'
  BY <1>1, LDoes, LDoomedStep, LLocksStep, LTyped, AloneStep, NoticedStep, LOwnStep
<1>3. PICK A \in SUBSET Node : Goes(A) /\ Freed(A)
  BY <1>2 DEF Does
<1>4. R!RGood'
  BY <1>1, <1>2, Constants, R!GoodStep DEF Does, Contract, Common
<1>5. LGone'
  BY <1>1, <1>4, LGoneStep
<1>6. \A u \in Thread : LOwn(u)'
  <2>1. \A u \in Thread \ {t} : Undisturbed(u) /\ Stable(u)
    BY <1>1, <1>2, Others, LStable DEF Does
  <2>2. \A u \in Thread \ {t} : LOwn(u)'
    BY <1>1, <1>2, <1>3, <2>1, LOthers DEF Does
  <2> QED BY <1>2, <2>2
<1> QED BY <1>1, <1>2, <1>3, <1>4, <1>5, <1>6 DEF LInv, Common, Does, Goes, LOwn

\* So does the reclaimer.
LEMMA LReclaimStep ==
  ASSUME LInv, NEW n \in Node, kind' = kind, Watch, Reclaim(n)
  PROVE  LInv' /\ Contract
<1>1. /\ Common /\ kind = "lazy" /\ kind \in Lists /\ LocksHeld /\ LGone /\ LDoomed /\ LTypes /\ next \in [Cell -> Pointer]
      /\ marked \in [Cell -> BOOLEAN] /\ \A u \in Thread : LOwn(u)
  BY LFacts DEF LInv, ListTypeOK
<1>2. /\ Handed /\ R!RNext /\ Goes({n}) /\ Freed({n}) /\ News' /\ Taken' /\ Alone'
      /\ New' = New /\ \A u \in Thread : Undisturbed(u)
  BY <1>1, ReclaimDoes
<1>3. ListTypeOK' /\ R!RGood' /\ UNCHANGED <<prev, cur, nxt, op>>
  BY <1>1, ReclaimTyped
<1>4. /\ UNCHANGED <<op, arg, ans, node, prev, cur, nxt, nmark, pc, items, lock, using>>
      /\ next' = [next EXCEPT ![n] = Null] /\ marked' = [marked EXCEPT ![n] = FALSE] /\ key' = [key EXCEPT ![n] = NoKey]
      /\ status[n] = "retired" /\ blockers[n] = {} /\ status' = [m \in Node |-> IF m = n THEN "free" ELSE status[m]]
  BY DEF Reclaim, callVars, posVars, Forget, R!Free
<1>5. \A s \in Slot : using[s] # n
  BY <1>4, R!UsedIsSafe DEF Common, LInv
<1>6. \A u \in Thread, j \in 0..3 : U(u, j) # n
  BY <1>5, Slots DEF U
<1>7. LTypes' /\ LocksHeld'
  BY <1>1, <1>4 DEF LTypes, LocksHeld
<1>8. ASSUME NEW u \in Thread PROVE Stable(u)
  <2>1. ASSUME pc[u] \in {"link", "mark", "unlink", "back_link"}, NEW c \in {prev[u], cur[u]} PROVE c # n /\ c \in Cell
    <3>1. c \in Cell /\ (c = prev[u] => LBefore(u)) /\ (c = cur[u] => LAfter(u))
      BY <2>1, LLockedFacts
    <3>2. ASSUME c = n PROVE FALSE
      <4>1. U(u, 0) = n \/ U(u, 1) = n
        BY <2>1, <3>1, <3>2, LCells
      <4> QED BY <1>6, <4>1
    <3> QED BY <3>1, <3>2
  <2>2. pc[u] = "find" /\ cur[u] \in Node => cur[u] # n
    <3> SUFFICES ASSUME pc[u] = "find", cur[u] = n PROVE FALSE
      OBVIOUS
    <3>1. LAfter(u)
      BY <1>1 DEF LOwn, LPlace
    <3>2. U(u, 1) = n
      BY <3>1, LCells
    <3> QED BY <1>6, <3>2
  <2>3. \A c \in Cell : c # n => next'[c] = next[c] /\ marked'[c] = marked[c]
    BY <1>1, <1>4
  <2> QED BY <2>1, <2>2, <2>3 DEF Stable, Cell
<1>9. \A u \in Thread : LOwn(u)'
  BY <1>2, <1>8, LOthers
<1>10. LGone'
  <2> SUFFICES ASSUME NEW s \in Slot, using'[s] \in Node, Gone(using[s])' PROVE LeadsBack(using[s])'
    BY DEF LGone
  <2>1. PICK m \in Node : m = using[s] /\ m = using'[s]
    BY <1>4
  <2>2. m # n /\ status'[m] = status[m] /\ next'[m] = next[m]
    BY <1>1, <1>4, <1>5, <2>1 DEF Cell
  <2>3. Gone(m) /\ LeadsBack(m)
    BY <1>1, <2>1, <2>2 DEF Gone, LGone
  <2>4. LeadsBack(m)'
    BY <1>4, <2>2, <2>3 DEF LeadsBack
  <2> QED BY <2>1, <2>4 DEF LeadsBack
<1>11. LDoomed'
  <2> SUFFICES ASSUME NEW m \in InList', marked'[m] PROVE \E u \in Thread : pc'[u] = "unlink" /\ cur'[u] = m
    BY DEF LDoomed
  <2>1. m \in Node /\ m # n
    BY <1>2 DEF InList, Freed
  <2>2. marked[m]
    BY <1>1, <1>4, <2>1 DEF Cell
  <2>3. m \in InList
    BY <1>1, <1>2, <2>2, MarkedListed
  <2> QED BY <1>1, <1>4, <2>2, <2>3 DEF LDoomed
<1>12. Noticed'
  BY NoticedStep
<1> QED BY <1>1, <1>2, <1>3, <1>7, <1>9, <1>10, <1>11, <1>12 DEF LInv, Common, Goes, LOwn, Contract

\* A new lazy list
LEMMA LFirst ==
  ASSUME ListInit, kind = "lazy"
  PROVE  LInv
<1>1. /\ Common /\ InList = {} /\ \A t \in Thread : pc[t] = "idle"
      /\ \A t \in Thread, i \in 0..3 : H(t, i) = Null /\ U(t, i) = Null
  BY CommonInit
<1>2. LTypes
  BY DEF LTypes, ListInit
<1>3. LocksHeld
  BY <1>1, Constants DEF LocksHeld, ListInit
<1>4. LGone
  BY Constants DEF LGone, ListInit, R!RInit
<1>5. \A t \in Thread : LControl(t) /\ LPlace(t) /\ LLocked(t) /\ LSaw(t)
  BY <1>1 DEF LControl, LPlace, LLocked, LSaw, LockedPC
<1> QED BY <1>1, <1>2, <1>3, <1>4, <1>5 DEF LInv, LDoomed

\* No operation of the lazy list touches a freed node: it holds the node, has seen it in the list
\* just now, or has unlinked it.
LEMMA LSafe ==
  ASSUME LInv
  PROVE  FreedUntouched
<1> SUFFICES ASSUME NEW t \in Thread, NEW n \in Node, n \in LazyTouches(t) PROVE status[n] # "free"
  BY DEF FreedUntouched, Touches, LInv
<1>1. /\ Common /\ LPlace(t) /\ LControl(t) /\ kind = "lazy" /\ kind \in Lists /\ Taken /\ n # HeadCell /\ n # TailCell
  BY LFacts, Constants DEF LOwn, Common
<1>2. CASE n = prev[t] /\ LBefore(t)
  BY <1>2, LCells DEF InUse
<1>3. CASE n = cur[t] /\ LAfter(t)
  BY <1>3, LCells DEF InUse
<1>4. CASE pc[t] = "cur_check" /\ next[prev[t]] = cur[t] /\ n = cur[t]
  BY <1>1, <1>4, LChecked, Facts
<1>5. CASE pc[t] \in {"touch"} /\ n = cur[t]
  BY <1>1, <1>5, UsedNotNew DEF LPlace, Held, InUse
<1>6. CASE pc[t] = "retire" /\ n = cur[t]
  BY <1>1, <1>6 DEF Taken, Taking, LControl
<1> QED BY <1>1, <1>2, <1>3, <1>4, <1>5, <1>6 DEF LazyTouches, LPlace, LockedPC

\* An invariant of the lazy list is one of its state.
LEMMA LStutter ==
  ASSUME LInv, UNCHANGED rawVars
  PROVE  LInv'
<1>1. InList' = InList /\ Common'
  BY CommonStutter DEF LInv
<1>2. LTypes' /\ LocksHeld' /\ LGone'
  BY DEF LInv, LTypes, LocksHeld, LGone, LeadsBack, Gone, rawVars
<1>3. \A t \in Thread : LControl(t)' /\ LPlace(t)' /\ LLocked(t)' /\ LSaw(t)'
  <2> SUFFICES ASSUME NEW t \in Thread PROVE LControl(t)' /\ LPlace(t)' /\ LLocked(t)' /\ LSaw(t)'
    OBVIOUS
  <2>1. LControl(t)' /\ LLocked(t)' /\ LSaw(t)'
    BY DEF LInv, LControl, LLocked, LSaw, rawVars
  <2>2. LPlace(t)'
    BY DEF LInv, LPlace, LBefore, LAfter, rawVars, Held, H, U
  <2> QED BY <2>1, <2>2
<1>4. LDoomed'
  BY <1>1 DEF LInv, LDoomed, rawVars
<1> QED BY <1>1, <1>2, <1>3, <1>4 DEF LInv, rawVars

\* The lazy list: its invariant is kept, and so is the contract.
LEMMA LNext ==
  ASSUME LInv, [Next]_vars
  PROVE  LInv' /\ (R!RNext \/ UNCHANGED R!rvars)
<1>0. kind = "lazy"
  BY DEF LInv
<1>1. CASE Next
  <2>1. ListNext
    BY <1>0, <1>1 DEF Next, Maps
  <2>2. kind' = kind /\ Watch
    BY <2>1 DEF ListNext
  <2>3. CASE \E n \in Node : Reclaim(n)
    BY <2>2, <2>3, LReclaimStep DEF Contract
  <2>4. CASE \E t \in Thread : Call(t) \/ ListWorking(t)
    BY <2>2, <2>4, LThreadStep DEF Contract, Steps
  <2> QED BY <2>1, <2>3, <2>4 DEF ListNext
<1>2. CASE UNCHANGED vars
  BY <1>2, RawStutter, LStutter
<1> QED BY <1>1, <1>2

-----------------------------------------------------------------------------
(* The invariant of the lists *)

\* The inductive invariant
Inv == (kind = "michael" => MInv) /\ (kind = "lazy" => LInv)

\* Every list starts with the invariant and keeps it; its steps keep the contract.
LEMMA Inductive ==
  /\ Init => Inv
  /\ Inv /\ [Next]_vars => Inv' /\ (kind \in Lists => R!RNext \/ UNCHANGED R!rvars)
<1>1. ASSUME Init PROVE Inv
  BY <1>1, MFirst, LFirst DEF Init, Inv, Lists, Maps
<1>2. ASSUME Inv, [Next]_vars PROVE Inv' /\ (kind \in Lists => R!RNext \/ UNCHANGED R!rvars)
  <2>1. CASE kind = "michael"
    <3>1. MInv' /\ (R!RNext \/ UNCHANGED R!rvars)
      BY <1>2, <2>1, MNext DEF Inv
    <3> QED BY <3>1 DEF Inv, MInv
  <2>2. CASE kind = "lazy"
    <3>1. LInv' /\ (R!RNext \/ UNCHANGED R!rvars)
      BY <1>2, <2>2, LNext DEF Inv
    <3> QED BY <3>1 DEF Inv, LInv
  <2>3. CASE kind \notin Lists
    <3>1. kind' = kind
      BY <1>2, <2>3 DEF Next, M!Next, vars
    <3> QED BY <2>3, <3>1 DEF Inv, Lists
  <2> QED BY <2>1, <2>2, <2>3 DEF Lists
<1> QED BY <1>1, <1>2

\* It holds in every state.
THEOREM Invariant == Spec => []Inv
<1> QED BY Inductive, PTL DEF Spec

\* No operation of Michael's list or of the lazy list over guards touches a node that has been
\* freed: whatever the calls, their keys and their interleaving, and however soon the nodes that
\* no guard blocks are freed and used again.
THEOREM ListsSafe == Spec => [](kind \in Lists => NoUseAfterFree)
<1>1. Inv => (kind \in Lists => NoUseAfterFree)
  BY MSafe, LSafe DEF Inv, Lists, NoUseAfterFree, Choose
<1> QED BY <1>1, Invariant, PTL

\* The lists keep their side of the reclamation contract: they confirm only guarded nodes they
\* have seen in the list since, unlink a node before they hand it over, and hand it over once.
THEOREM ListsKeepContract == Spec => KeepsContract
<1>1. Inv /\ [Next]_vars => [(kind \in Lists) => R!RNext]_(R!rvars)
  BY Inductive
<1> QED BY <1>1, Invariant, PTL DEF Spec, KeepsContract

-----------------------------------------------------------------------------
(* The lists are sets of keys: what a step does to the set *)

\* What a call is doing, as the specification of the set names it
LEMMA DoingIs ==
  ASSUME NEW o \in Ops \cup {"none"}, NEW a \in {"none", "yes", "no"}, o = "none" => a = "none"
  PROVE  /\ a # "none" => Doing(o, a) = a
         /\ a = "none" /\ o = "none" => Doing(o, a) = "idle"
         /\ a = "none" /\ o \in Inserts => Doing(o, a) = "insert"
         /\ a = "none" /\ o \in {"find", "emplace"} => Doing(o, a) = "find"
         /\ a = "none" /\ o \in {"erase", "empty", "clear"} => Doing(o, a) = o
         /\ Doing(o, a) \in K!Pending <=> (o # "none" /\ a = "none")
<1>1. a # "none" => Doing(o, a) = a
  BY DEF Doing
<1>2. a = "none" /\ o = "none" => Doing(o, a) = "idle"
  BY DEF Doing
<1>3. a = "none" /\ o \in Inserts => Doing(o, a) = "insert"
  BY DEF Doing, Inserts
<1>4. a = "none" /\ o \in {"find", "emplace"} => Doing(o, a) = "find"
  BY DEF Doing
<1>5. a = "none" /\ o \in {"erase", "empty", "clear"} => Doing(o, a) = o
  BY DEF Doing
<1>6. CASE a # "none"
  BY <1>1, <1>6 DEF K!Pending, Inserts
<1>7. CASE a = "none" /\ o = "none"
  BY <1>2, <1>7 DEF K!Pending, Inserts
<1>8. CASE a = "none" /\ o # "none"
  BY <1>3, <1>4, <1>5, <1>8 DEF K!Pending, Ops, KeyOps, Inserts
<1> QED BY <1>1, <1>2, <1>3, <1>4, <1>5, <1>6, <1>7, <1>8

\* What thread t is doing to the set, see KeySet
Act(t) == Doing(op[t], ans[t])

\* The types that this needs
LEMMA ActTypes ==
  ASSUME ListTypeOK, NEW t \in Thread, Control(t)
  PROVE  op[t] \in Ops \cup {"none"} /\ ans[t] \in {"none", "yes", "no"} /\ (op[t] = "none" => ans[t] = "none")
BY DEF ListTypeOK, Control

\* What a step of t does to the set and to its call
From(t, a, b) == Act(t) = a /\ Act(t)' = b
SameSet == Members' = Members
Effect(t) ==
    \/ Act(t)' = Act(t) /\ arg'[t] = arg[t] /\ SameSet
    \/ /\ Act(t) = "idle" /\ SameSet
       /\ \/ Act(t)' \in {"insert", "erase", "find"} /\ arg'[t] \in Keys
          \/ Act(t)' \in {"empty", "clear"} /\ arg'[t] = arg[t]
    \/ /\ From(t, "insert", "yes") /\ arg'[t] = arg[t]
       /\ arg[t] \notin Members /\ Members' = Members \cup {arg[t]}
    \/ /\ From(t, "erase", "yes") /\ arg'[t] = arg[t]
       /\ arg[t] \in Members /\ Members' = Members \ {arg[t]}
    \/ /\ From(t, "clear", "clear") /\ arg'[t] = arg[t]
       /\ \E k \in Members : Members' = Members \ {k}
    \/ /\ SameSet /\ arg'[t] = arg[t]
       /\ \/ From(t, "insert", "no") /\ sawIn[t]
          \/ From(t, "find", "yes") /\ sawIn[t]
          \/ Act(t) \in {"erase", "find"} /\ Act(t)' = "no" /\ sawOut[t]
          \/ Act(t) \in {"empty", "clear"} /\ Act(t)' = "yes" /\ sawOut[t]
          \/ From(t, "empty", "no")
    \/ SameSet /\ Act(t) \in {"yes", "no"} /\ Act(t)' = "idle" /\ arg'[t] = NoKey

\* The set as a map's or a list's
TheSet == IF kind \in Maps THEN M!Members ELSE Members
Acts == [t \in Thread |-> Doing(op[t], ans[t])]

\* A step with such an effect is one of the specification.
LEMMA EffectStep ==
  ASSUME ListTypeOK, ListTypeOK', NEW t \in Thread, Frame(t), kind \in Lists, kind' = kind, Watch, Effect(t),
         \A u \in Thread : Control(u) /\ Control(u)', Noticed
  PROVE  K!KNext \/ UNCHANGED K!kvars
<1>1. TheSet = Members /\ TheSet' = Members'
  BY DEF TheSet, Lists, Maps
<1>2. \A u \in Thread : Acts[u] = Act(u) /\ Acts'[u] = Act(u)'
  BY DEF Acts, Act
<1>3. \A u \in Thread \ {t} : Act(u)' = Act(u) /\ arg'[u] = arg[u]
  BY DEF Frame, Act
<1>4. \A u \in Thread : /\ Acts[u] \in K!Pending <=> PendingIn(op[u], ans[u])
                        /\ Acts'[u] \in K!Pending <=> PendingIn(op'[u], ans'[u])
  <2> TAKE u \in Thread
  <2>1. op[u] \in Ops \cup {"none"} /\ ans[u] \in {"none", "yes", "no"} /\ (op[u] = "none" => ans[u] = "none")
    BY DEF ListTypeOK, Control
  <2>2. op'[u] \in Ops \cup {"none"} /\ ans'[u] \in {"none", "yes", "no"} /\ (op'[u] = "none" => ans'[u] = "none")
    BY DEF ListTypeOK, Control
  <2>3. Act(u) \in K!Pending <=> (op[u] # "none" /\ ans[u] = "none")
    BY <2>1, DoingIs DEF Act
  <2>4. Act(u)' \in K!Pending <=> (op'[u] # "none" /\ ans'[u] = "none")
    BY <2>2, DoingIs DEF Act
  <2> QED BY <1>2, <2>3, <2>4 DEF PendingIn
<1>5. K!Watch
  <2> DEFINE F(u) == PendingIn(op'[u], ans'[u]) /\ (arg'[u] \in Members' \/ (PendingIn(op[u], ans[u]) /\ sawIn[u]))
             F2(u) == Acts'[u] \in K!Pending /\ (arg'[u] \in TheSet' \/ (Acts[u] \in K!Pending /\ sawIn[u]))
             G(u) == PendingIn(op'[u], ans'[u]) /\ (Missing(u) \/ (PendingIn(op[u], ans[u]) /\ sawOut[u]))
             G2(u) == Acts'[u] \in K!Pending /\ (K!Missing(u, TheSet') \/ (Acts[u] \in K!Pending /\ sawOut[u]))
  <2>1. sawIn' = [u \in Thread |-> F(u)] /\ sawOut' = [u \in Thread |-> G(u)]
    BY DEF Watch
  <2>2. \A u \in Thread : F(u) = F2(u)
    BY <1>1, <1>4
  <2>3. \A u \in Thread : G(u) = G2(u)
    BY <1>1, <1>4 DEF Missing, K!Missing
  <2>4. sawIn' = [u \in Thread |-> F2(u)] /\ sawOut' = [u \in Thread |-> G2(u)]
    <3> HIDE DEF F, F2, G, G2
    <3> QED BY <2>1, <2>2, <2>3
  <2> QED BY <2>4 DEF K!Watch, TheSet, Acts
<1>6. Acts' = [Acts EXCEPT ![t] = Acts'[t]] /\ Acts'[t] = Act(t)' /\ Acts[t] = Act(t)
  <2>1. \A u \in Thread \ {t} : Acts'[u] = Acts[u]
    BY <1>2, <1>3
  <2>2. DOMAIN Acts = Thread /\ Acts' = [u \in Thread |-> Acts'[u]] /\ Acts = [u \in Thread |-> Acts[u]]
    BY DEF Acts
  <2> HIDE DEF Acts
  <2> QED BY <1>2, <2>1, <2>2
<1>7. arg' = [arg EXCEPT ![t] = arg'[t]] /\ arg \in [Thread -> Keys \cup {NoKey}] /\ arg' \in [Thread -> Keys \cup {NoKey}]
  BY <1>3 DEF ListTypeOK
<1>8. CASE Act(t)' = Act(t) /\ arg'[t] = arg[t] /\ SameSet
  <2>1. arg' = arg /\ Acts' = Acts /\ TheSet' = TheSet
    <3>1. \A u \in Thread : Acts'[u] = Acts[u] /\ arg'[u] = arg[u]
      BY <1>2, <1>3, <1>8
    <3>2. Acts' = Acts
      BY <3>1 DEF Acts
    <3>3. arg' = arg
      BY <1>7, <3>1
    <3> QED BY <1>1, <1>8, <3>2, <3>3 DEF SameSet
  <2>2. \A u \in Thread : PendingIn(op'[u], ans'[u]) <=> PendingIn(op[u], ans[u])
    BY <1>4, <2>1
  <2>3. \A u \in Thread : sawIn'[u] = sawIn[u] /\ sawOut'[u] = sawOut[u]
    <3> TAKE u \in Thread
    <3>1. sawIn[u] \in BOOLEAN /\ sawOut[u] \in BOOLEAN
      BY DEF ListTypeOK
    <3>2. /\ sawIn'[u] = (PendingIn(op'[u], ans'[u]) /\ (arg'[u] \in Members' \/ (PendingIn(op[u], ans[u]) /\ sawIn[u])))
          /\ sawOut'[u] = (PendingIn(op'[u], ans'[u]) /\ (Missing(u) \/ (PendingIn(op[u], ans[u]) /\ sawOut[u])))
      BY DEF Watch
    <3>3. /\ sawIn[u] \/ sawOut[u] => PendingIn(op[u], ans[u])
          /\ PendingIn(op[u], ans[u]) => (arg[u] \in Members => sawIn[u]) /\ (Lacks(u) => sawOut[u])
      BY DEF Noticed, PendingIn, Pending
    <3>4. Missing(u) <=> Lacks(u)
      BY <2>1, <1>8 DEF Missing, Lacks, SameSet
    <3> QED BY <1>8, <2>1, <2>2, <3>1, <3>2, <3>3, <3>4 DEF SameSet
  <2>4. sawIn' = sawIn /\ sawOut' = sawOut
    BY <2>3 DEF ListTypeOK
  <2> QED BY <2>1, <2>4 DEF K!kvars, TheSet, Acts
<1>9. CASE /\ Act(t) = "idle" /\ SameSet
           /\ \/ Act(t)' \in {"insert", "erase", "find"} /\ arg'[t] \in Keys
              \/ Act(t)' \in {"empty", "clear"} /\ arg'[t] = arg[t]
  <2>1. CASE Act(t)' \in {"insert", "erase", "find"} /\ arg'[t] \in Keys
    <3>1. \E o \in {"insert", "erase", "find"} : Acts' = [Acts EXCEPT ![t] = o]
      BY <1>6, <2>1
    <3>2. \E k \in Keys \cup MapKeys : arg' = [arg EXCEPT ![t] = k]
      BY <1>7, <2>1
    <3>3. K!Call(t)
      BY <1>1, <1>6, <1>9, <3>1, <3>2 DEF K!Call, TheSet, Acts, SameSet
    <3> QED BY <1>5, <3>3 DEF K!KNext
  <2>2. CASE Act(t)' \in {"empty", "clear"} /\ arg'[t] = arg[t]
    <3>1. \E o \in {"empty", "clear"} : Acts' = [Acts EXCEPT ![t] = o]
      BY <1>6, <2>2
    <3>2. arg' = arg
      BY <1>7, <2>2
    <3>3. K!Call(t)
      BY <1>1, <1>6, <1>9, <3>1, <3>2 DEF K!Call, TheSet, Acts, SameSet
    <3> QED BY <1>5, <3>3 DEF K!KNext
  <2> QED BY <1>9, <2>1, <2>2
<1>10. ASSUME arg'[t] = arg[t] PROVE arg' = arg
  BY <1>7, <1>10
<1>11. CASE From(t, "insert", "yes") /\ arg'[t] = arg[t] /\ arg[t] \notin Members /\ Members' = Members \cup {arg[t]}
  <2>1. K!Insert(t)
    BY <1>1, <1>6, <1>10, <1>11 DEF K!Insert, K!Answer, TheSet, Acts, From
  <2> QED BY <1>5, <2>1 DEF K!KNext
<1>12. CASE From(t, "erase", "yes") /\ arg'[t] = arg[t] /\ arg[t] \in Members /\ Members' = Members \ {arg[t]}
  <2>1. K!Erase(t)
    BY <1>1, <1>6, <1>10, <1>12 DEF K!Erase, K!Answer, TheSet, Acts, From
  <2> QED BY <1>5, <2>1 DEF K!KNext
<1>13. CASE From(t, "clear", "clear") /\ arg'[t] = arg[t] /\ \E k \in Members : Members' = Members \ {k}
  <2>1. Acts' = Acts
    <3>1. Acts' = [Acts EXCEPT ![t] = Acts[t]] /\ Acts = [u \in Thread |-> Acts[u]]
      BY <1>6, <1>13 DEF From, Acts
    <3> HIDE DEF Acts
    <3> QED BY <3>1
  <2>2. K!Drop(t)
    BY <1>1, <1>6, <1>10, <1>13, <2>1 DEF K!Drop, TheSet, Acts, From
  <2> QED BY <1>5, <2>2 DEF K!KNext
<1>14. CASE SameSet /\ arg'[t] = arg[t] /\ From(t, "insert", "no") /\ sawIn[t]
  <2>1. K!Refuse(t)
    BY <1>1, <1>6, <1>10, <1>14 DEF K!Refuse, K!Answer, TheSet, Acts, From, SameSet
  <2> QED BY <1>5, <2>1 DEF K!KNext
<1>15. CASE SameSet /\ arg'[t] = arg[t] /\ From(t, "find", "yes") /\ sawIn[t]
  <2>1. K!Found(t)
    BY <1>1, <1>6, <1>10, <1>15 DEF K!Found, K!Answer, TheSet, Acts, From, SameSet
  <2> QED BY <1>5, <2>1 DEF K!KNext
<1>16. CASE SameSet /\ arg'[t] = arg[t] /\ Act(t) \in {"erase", "find"} /\ Act(t)' = "no" /\ sawOut[t]
  <2>1. K!NotFound(t)
    BY <1>1, <1>6, <1>10, <1>16 DEF K!NotFound, K!Answer, TheSet, Acts, SameSet
  <2> QED BY <1>5, <2>1 DEF K!KNext
<1>17. CASE SameSet /\ arg'[t] = arg[t] /\ Act(t) \in {"empty", "clear"} /\ Act(t)' = "yes" /\ sawOut[t]
  <2>1. K!IsEmpty(t)
    BY <1>1, <1>6, <1>10, <1>17 DEF K!IsEmpty, K!Answer, TheSet, Acts, SameSet
  <2> QED BY <1>5, <2>1 DEF K!KNext
<1>18. CASE SameSet /\ arg'[t] = arg[t] /\ From(t, "empty", "no")
  <2>1. K!NotEmpty(t)
    BY <1>1, <1>6, <1>10, <1>18 DEF K!NotEmpty, K!Answer, TheSet, Acts, From, SameSet
  <2> QED BY <1>5, <2>1 DEF K!KNext
<1>19. CASE SameSet /\ Act(t) \in {"yes", "no"} /\ Act(t)' = "idle" /\ arg'[t] = NoKey
  <2>1. K!Return(t)
    BY <1>1, <1>6, <1>7, <1>19 DEF K!Return, TheSet, Acts, SameSet
  <2> QED BY <1>5, <2>1 DEF K!KNext
<1> QED BY <1>8, <1>9, <1>11, <1>12, <1>13, <1>14, <1>15, <1>16, <1>17, <1>18, <1>19 DEF Effect

\* The set is the same if its nodes and their keys are.
LEMMA SetKept ==
  ASSUME items' = items, \A n \in items : key'[n] = key[n]
  PROVE  SameSet
BY DEF SameSet, Members

\* What can be read from the list of a set: a gap between two neighbours, and an unmarked node
LEMMA Gap ==
  ASSUME Common, kind \in Lists, NEW c \in InList \cup {HeadCell}, NEW k \in Nat, c = HeadCell \/ key[c] < k,
         next[c] \in InList => key[next[c]] > k
  PROVE  k \notin Members
<1> SUFFICES ASSUME NEW n \in items, key[n] = k PROVE FALSE
  BY DEF Members
<1>1. n \in InList /\ key[n] \in Nat /\ \A m \in InList : key[m] \in Nat
  BY Facts
<1>2. Precedes(c, n)
  BY DEF Precedes
<1>3. next[c] \in InList /\ (next[c] = n \/ key[next[c]] < key[n])
  BY <1>1, <1>2 DEF Common, Sorted
<1> QED BY <1>1, <1>3

\* The keys of the unmarked nodes on the list are in the set.
LEMMA InSet ==
  ASSUME Common, NEW n \in InList, ~ marked[n]
  PROVE  key[n] \in Members
BY DEF Common, Marks, Members

\* A call notices what it can read.
LEMMA Reads ==
  ASSUME Common, NEW t \in Thread, op[t] # "none", ans[t] = "none"
  PROVE  /\ arg[t] \in Members => sawIn[t]
         /\ arg[t] # NoKey /\ arg[t] \notin Members => sawOut[t]
         /\ arg[t] = NoKey /\ Members = {} => sawOut[t]
BY DEF Common, Noticed, Pending, Lacks

\* A step that neither answers nor changes the set
LEMMA NoEffect ==
  ASSUME NEW t \in Thread, op'[t] = op[t], ans'[t] = ans[t], arg'[t] = arg[t], SameSet
  PROVE  Effect(t)
BY DEF Effect, Act

\* The calls and returns
LEMMA SharedEffect ==
  ASSUME Common, kind \in Lists, NEW t \in Thread, kind' = kind,
         Call(t) \/ Empty(t) \/ Clear(t) \/ ClearRetire(t) \/ Leave(t) \/ FreeNode(t)
  PROVE  Effect(t)
<1>0. /\ ListTypeOK /\ t \in DOMAIN op /\ t \in DOMAIN ans /\ t \in DOMAIN arg /\ Control(t) /\ items \subseteq InList
      /\ items \subseteq Node /\ key \in [Node -> Keys \cup {NoKey}] /\ NoKey \notin Keys
  BY Facts, Constants DEF Common, ListTypeOK
<1>1. CASE Call(t)
  <2>1. pc[t] = "idle" /\ op[t] = "none" /\ ans[t] = "none" /\ Act(t) = "idle"
    BY <1>0, <1>1, DoingIs DEF Call, Control, Act
  <2>2. ASSUME NEW o \in KeyOps, NEW k \in Keys, CallKeyed(t, o, k) PROVE Effect(t)
    <3>1. op'[t] = o /\ arg'[t] = k /\ ans' = ans /\ items' = items
      BY <1>0, <2>2 DEF CallKeyed
    <3>2. \A n \in items : key'[n] = key[n]
      <4>1. key' = key \/ \E n \in Node : status[n] = "free" /\ key' = [key EXCEPT ![n] = k]
        BY <2>2 DEF CallKeyed, R!Allocate
      <4>2. \A n \in items : status[n] = "linked"
        BY <1>0, Facts
      <4> QED BY <1>0, <4>1, <4>2
    <3>3. SameSet
      BY <3>1, <3>2, SetKept
    <3>4. Act(t)' \in {"insert", "erase", "find"}
      <4>1. Act(t)' = Doing(o, "none")
        BY <2>1, <3>1 DEF Act
      <4> QED BY <4>1, DoingIs DEF KeyOps, Ops, Inserts
    <3> QED BY <2>1, <3>1, <3>3, <3>4 DEF Effect
  <2>3. CASE CallEmpty(t) \/ CallClear(t)
    <3>1. op'[t] \in {"empty", "clear"} /\ arg' = arg /\ ans' = ans /\ items' = items /\ key' = key
      BY <1>0, <2>3 DEF CallEmpty, CallClear, listVars
    <3>2. SameSet
      BY <3>1, SetKept
    <3>3. Act(t)' \in {"empty", "clear"}
      <4>1. Act(t)' = Doing(op'[t], "none")
        BY <2>1, <3>1 DEF Act
      <4> QED BY <3>1, <4>1, DoingIs DEF Ops
    <3> QED BY <2>1, <3>1, <3>2, <3>3 DEF Effect
  <2> QED BY <1>1, <2>2, <2>3 DEF Call
<1>2. ASSUME next[HeadCell] = End PROVE Members = {}
  <2> SUFFICES ASSUME NEW n \in items PROVE FALSE
    BY DEF Members
  <2>1. next[HeadCell] \in InList
    BY <1>0 DEF Common, Sorted, Precedes
  <2> QED BY <1>2, <2>1, Facts
<1>3. CASE Empty(t)
  <2>1. /\ pc[t] = "empty" /\ op[t] = "empty" /\ ans[t] = "none" /\ arg[t] = NoKey /\ UNCHANGED <<op, arg, items, key>>
        /\ ans'[t] = IF next[HeadCell] = End THEN "yes" ELSE "no"
    BY <1>0, <1>3 DEF Empty, Control, Answer, listVars
  <2>2. SameSet /\ Act(t) = "empty"
    BY <2>1, SetKept, DoingIs DEF Act, Ops
  <2>3. Act(t)' = ans'[t]
    <3>1. Act(t)' = Doing("empty", ans'[t])
      BY <2>1 DEF Act
    <3> QED BY <2>1, <3>1, DoingIs DEF Ops
  <2>4. next[HeadCell] = End => sawOut[t]
    BY <1>2, <2>1, Reads
  <2> QED BY <2>1, <2>2, <2>3, <2>4 DEF Effect, From
<1>4. CASE Clear(t)
  <2>1. pc[t] = "clear" /\ op[t] = "clear" /\ ans[t] = "none" /\ arg[t] = NoKey /\ UNCHANGED <<op, arg, key>>
    BY <1>0, <1>4 DEF Clear, Control, Answer, listVars, callVars
  <2>2. Act(t) = "clear"
    BY <2>1, DoingIs DEF Act, Ops
  <2>3. CASE next[HeadCell] = End
    <3>1. ans'[t] = "yes" /\ items' = items
      BY <1>0, <1>4, <2>3 DEF Clear, Answer
    <3>2. SameSet
      BY <2>1, <3>1, SetKept
    <3>3. Act(t)' = "yes"
      <4>1. Act(t)' = Doing("clear", "yes")
        BY <2>1, <3>1 DEF Act
      <4> QED BY <4>1, DoingIs DEF Ops
    <3>4. sawOut[t]
      BY <1>2, <2>1, <2>3, Reads
    <3> QED BY <2>1, <2>2, <3>2, <3>3, <3>4 DEF Effect
  <2>4. CASE next[HeadCell] # End
    <3>1. ans' = ans /\ items' = items \ {next[HeadCell]} /\ next[HeadCell] \in InList
      BY <1>4, <2>4, Facts DEF Clear, callVars
    <3>2. Act(t)' = "clear"
      BY <2>1, <2>2, <3>1 DEF Act
    <3>3. CASE next[HeadCell] \notin items
      <4>1. SameSet
        BY <2>1, <3>1, <3>3, SetKept
      <4> QED BY <2>1, <2>2, <3>2, <4>1 DEF Effect
    <3>4. CASE next[HeadCell] \in items
      <4>1. key[next[HeadCell]] \in Members /\ Members' = Members \ {key[next[HeadCell]]}
        <5>1. \A m, n \in items : key[m] = key[n] => m = n
          BY <1>0 DEF Common, Sorted
        <5> QED BY <2>1, <3>1, <3>4, <5>1 DEF Members
      <4> QED BY <2>1, <2>2, <3>2, <4>1 DEF Effect, From
    <3> QED BY <3>3, <3>4
  <2> QED BY <2>3, <2>4
<1>5. CASE ClearRetire(t)
  <2>1. UNCHANGED <<op, arg, ans, items, key>>
    BY <1>5 DEF ClearRetire, callVars, listVars
  <2> QED BY <2>1, SetKept, NoEffect
<1>6. ASSUME Idle(t), ans[t] # "none" PROVE Act(t) \in {"yes", "no"} /\ Act(t)' = "idle" /\ arg'[t] = NoKey
  <2>1. op'[t] = "none" /\ arg'[t] = NoKey /\ ans'[t] = "none"
    BY <1>0, <1>6 DEF Idle
  <2>2. Act(t) = ans[t] /\ ans[t] \in {"yes", "no"}
    BY <1>0, <1>6, DoingIs, ActTypes DEF Act, ListTypeOK
  <2>3. Act(t)' = Doing("none", "none")
    BY <2>1 DEF Act
  <2> QED BY <2>1, <2>2, <2>3, DoingIs
<1>7. CASE Leave(t)
  <2>1. ans[t] # "none" /\ UNCHANGED <<items, key>>
    BY <1>0, <1>7 DEF Leave, Control, listVars
  <2>2. SameSet
    BY <2>1, SetKept
  <2>3. CASE NotLinked(t)
    BY <1>7, <2>2, <2>3, NoEffect DEF Leave, callVars
  <2>4. CASE ~ NotLinked(t)
    BY <1>6, <1>7, <2>1, <2>2, <2>4 DEF Leave, Effect
  <2> QED BY <2>3, <2>4
<1>8. CASE FreeNode(t)
  <2>1. /\ ans[t] = "no" /\ node[t] \in Node /\ items' = items /\ key' = [key EXCEPT ![node[t]] = NoKey] /\ Idle(t)
    BY <1>0, <1>8, Constants DEF FreeNode, Forget, Control, ListTypeOK
  <2>2. node[t] \in New
    BY <2>1 DEF New, Making
  <2>3. SameSet
    BY <1>0, <2>1, <2>2, Facts, SetKept
  <2> QED BY <1>6, <2>1, <2>3 DEF Effect
<1> QED BY <1>1, <1>3, <1>4, <1>5, <1>7, <1>8

\* A call of Michael's list that is on its way works on a key.
LEMMA MWorking ==
  ASSUME MInv, NEW t \in Thread, pc[t] \in MichaelPC
  PROVE  op[t] \in KeyOps /\ op[t] # "emplace" /\ arg[t] \in Keys /\ arg[t] \in Nat /\ arg[t] # NoKey
<1>1. op[t] \in Ops \cup {"none"} /\ op[t] # "emplace" /\ Control(t)
  BY DEF MInv, Common, MTypes, ListTypeOK
<1>2. op[t] \notin {"none", "empty", "clear"}
  BY <1>1 DEF Control, MichaelPC
<1>3. op[t] \in KeyOps /\ arg[t] \in Keys
  BY <1>1, <1>2 DEF Ops, Control
<1> QED BY <1>1, <1>3, Constants

\* What the end of a search of Michael's list answers
LEMMA EndedEffect ==
  ASSUME MInv, NEW t \in Thread, NEW found \in BOOLEAN, Ended(t, found), pc[t] \in OnceMore, SameSet,
         ans[t] = "none" /\ found => sawIn[t], ans[t] = "none" /\ ~ found => sawOut[t]
  PROVE  Effect(t)
<1>0. UNCHANGED <<op, arg, node>>
  BY MEnded
<1>1. CASE ans'[t] = ans[t]
  BY <1>0, <1>1, NoEffect
<1>2. CASE ans'[t] # ans[t]
  <2>1. /\ ans[t] = "none"
        /\ \/ op[t] = "find" /\ found /\ ans'[t] = "yes"
           \/ op[t] \in {"find", "erase"} /\ ~ found /\ ans'[t] = "no"
           \/ op[t] \in {"insert", "insertf"} /\ found /\ ans'[t] = "no"
    BY <1>2, MEnded
  <2>2. /\ op[t] = "find" => Act(t) = "find"
        /\ op[t] = "erase" => Act(t) = "erase"
        /\ op[t] \in {"insert", "insertf"} => Act(t) = "insert"
    BY <2>1, DoingIs DEF Act, Ops, KeyOps, Inserts
  <2>3. Act(t)' = ans'[t]
    <3>1. Act(t)' = Doing(op[t], ans'[t])
      BY <1>0 DEF Act
    <3> QED BY <2>1, <3>1, DoingIs DEF Ops, KeyOps
  <2> QED BY <1>0, <2>1, <2>2, <2>3 DEF Effect, From
<1> QED BY <1>1, <1>2

\* Every step of Michael's list is one of a set.
LEMMA MEffect ==
  ASSUME MInv, NEW t \in Thread, Frame(t), kind' = kind, Steps(t)
  PROVE  Effect(t)
<1>0. /\ Common /\ kind = "michael" /\ kind \in Lists /\ MActs(t) /\ Control(t) /\ MControl(t) /\ MPlace(t) /\ MRead(t)
      /\ t \in DOMAIN ans /\ End = Null /\ marked \in [Cell -> BOOLEAN] /\ InList \subseteq Cell
  <2>1. Common /\ kind = "michael" /\ kind \in Lists
    BY DEF MInv, Lists
  <2> QED BY <2>1, MSteps, Facts DEF MInv, Lists, Common, ListTypeOK, End
<1>1. CASE Call(t) \/ Empty(t) \/ Clear(t) \/ ClearRetire(t) \/ Leave(t) \/ FreeNode(t)
  BY <1>0, <1>1, SharedEffect
<1>2. CASE \/ Search(t) \/ CurGuard(t) \/ Next_(t) \/ NextGuard(t) \/ NextCheck(t) \/ Step(t) \/ Unlink(t) \/ EraseUnlink(t)
           \/ Retire(t, "retire", "shift") \/ Retire(t, "erase_retire", "leave") \/ GuardNew(t) \/ Functor(t)
  <2>1. UNCHANGED <<op, arg, ans, items, key>>
    BY <1>2 DEF Search, CurGuard, Next_, NextGuard, NextCheck, Step, Unlink, EraseUnlink, PhysicalDeletion, Retire, GuardNew,
       Functor, callVars, listVars
  <2> QED BY <2>1, SetKept, NoEffect
<1>3. ASSUME pc[t] \in MichaelPC, ans[t] = "none"
      PROVE  (arg[t] \in Members => sawIn[t]) /\ (arg[t] \notin Members => sawOut[t])
  BY <1>0, <1>3, MWorking, Reads DEF KeyOps
<1>4. CASE CurCheck(t)
  <2>1. UNCHANGED <<items, key>> /\ pc[t] = "cur_check"
    BY <1>4 DEF CurCheck, listVars
  <2>2. CASE LinkIs(HeadCell, cur[t]) /\ cur[t] = Null
    <3>1. Ended(t, FALSE)
      BY <1>4, <2>2 DEF CurCheck
    <3>2. arg[t] \in Nat
      BY <2>1, MWorking DEF MichaelPC
    <3>3. arg[t] \notin Members
      BY <1>0, <2>2, <3>2, Gap, Facts DEF LinkIs
    <3> QED BY <1>3, <2>1, <3>1, <3>3, SetKept, EndedEffect DEF MichaelPC, OnceMore, MInv
  <2>3. CASE ~ (LinkIs(HeadCell, cur[t]) /\ cur[t] = Null)
    <3>1. UNCHANGED <<op, arg, ans>>
      BY <1>4, <2>3 DEF CurCheck, callVars
    <3> QED BY <2>1, <3>1, SetKept, NoEffect
  <2> QED BY <2>2, <2>3
<1>5. CASE PrevCheck(t)
  <2>1. UNCHANGED <<items, key>> /\ pc[t] = "prev_check"
    BY <1>5 DEF PrevCheck, listVars
  <2>2. CASE PrevUnmoved(t) /\ ~ nmark[t] /\ key[cur[t]] >= arg[t]
    <3>1. Ended(t, key[cur[t]] = arg[t])
      BY <1>5, <2>2 DEF PrevCheck
    <3>2. /\ prev[t] \in InList \cup {HeadCell} /\ ~ marked[prev[t]] /\ next[prev[t]] = cur[t]
          /\ cur[t] \in InList \cup {Null} /\ (prev[t] # HeadCell => key[prev[t]] < arg[t])
      BY <2>1, <2>2, MStanding DEF OnPrev
    <3>3. arg[t] \in Nat /\ cur[t] \in InList /\ status[cur[t]] = "linked" /\ key[cur[t]] \in Nat
      <4>1. cur[t] \in Node
        BY <1>0, <2>1 DEF MPlace, OnCur, Held
      <4> QED BY <1>0, <2>1, <3>2, <4>1, MWorking, Facts, Constants DEF MichaelPC
    <3>4. ans[t] = "none" /\ key[cur[t]] = arg[t] => sawIn[t]
      BY <1>0, <2>1, <2>2, <3>3 DEF MRead
    <3>5. key[cur[t]] # arg[t] => arg[t] \notin Members
      BY <1>0, <2>2, <3>2, <3>3, Gap
    <3>6. ans[t] = "none" /\ key[cur[t]] # arg[t] => sawOut[t]
      BY <1>3, <2>1, <3>5 DEF MichaelPC
    <3> QED BY <1>0, <2>1, <3>1, <3>4, <3>6, SetKept, EndedEffect DEF OnceMore
  <2>3. CASE ~ (PrevUnmoved(t) /\ ~ nmark[t] /\ key[cur[t]] >= arg[t])
    <3>1. UNCHANGED <<op, arg, ans>>
      BY <1>5, <2>3 DEF PrevCheck, callVars
    <3> QED BY <2>1, <3>1, SetKept, NoEffect
  <2> QED BY <2>2, <2>3
<1>6. CASE Shift(t)
  <2>1. UNCHANGED <<items, key>> /\ pc[t] = "shift"
    BY <1>6 DEF Shift, listVars
  <2>2. CASE nxt[t] = Null
    <3>1. Ended(t, FALSE)
      BY <1>6, <2>2 DEF Shift
    <3>2. ans[t] = "none" => sawOut[t]
      BY <1>0, <2>1, <2>2 DEF MRead
    <3> QED BY <1>0, <2>1, <3>1, <3>2, SetKept, EndedEffect DEF OnceMore
  <2>3. CASE nxt[t] # Null
    <3>1. UNCHANGED <<op, arg, ans>>
      BY <1>6, <2>3 DEF Shift, callVars
    <3> QED BY <2>1, <3>1, SetKept, NoEffect
  <2> QED BY <2>2, <2>3
<1>7. CASE IsMarked(t)
  <2>1. /\ UNCHANGED <<items, key, op, arg>> /\ pc[t] = "is_marked" /\ ans[t] = "none" /\ op[t] = "ensure"
        /\ ans'[t] = ans[t] \/ (ans'[t] = "no" /\ ~ marked[cur[t]])
    BY <1>0, <1>7 DEF IsMarked, listVars, callVars, Answer, MControl
  <2>2. CASE ans'[t] = ans[t]
    BY <2>1, <2>2, SetKept, NoEffect
  <2>3. CASE ans'[t] = "no" /\ ~ marked[cur[t]]
    <3>1. cur[t] \in Node /\ U(t, 1) = cur[t] /\ key[cur[t]] = arg[t]
      BY <1>0, <2>1 DEF MPlace, OnCur, Held
    <3>2. cur[t] \in InList
      BY <1>0, <2>3, <3>1, UsedNotNew, Unmarked
    <3>3. sawIn[t]
      BY <1>0, <1>3, <2>1, <2>3, <3>1, <3>2, InSet DEF MichaelPC
    <3>4. Act(t) = "insert" /\ Act(t)' = "no"
      <4>1. Act(t) = Doing("ensure", "none") /\ Act(t)' = Doing("ensure", "no")
        BY <2>1, <2>3 DEF Act
      <4> QED BY <4>1, DoingIs DEF Ops, KeyOps, Inserts
    <3> QED BY <2>1, <3>3, <3>4, SetKept DEF Effect, From
  <2> QED BY <2>1, <2>2, <2>3
<1>8. CASE LinkNode(t)
  <2>1. /\ UNCHANGED <<key, op, arg>> /\ pc[t] = "link" /\ ans[t] = "none" /\ op[t] \in Inserts
    BY <1>0, <1>8 DEF LinkNode, MControl, callVars, Answer
  <2>2. CASE ~ PrevUnmoved(t)
    BY <1>8, <2>1, <2>2, SetKept, NoEffect DEF LinkNode, callVars
  <2>3. CASE PrevUnmoved(t)
    <3>1. items' = items \cup {node[t]} /\ ans'[t] = "yes" /\ key[node[t]] = arg[t]
      BY <1>0, <1>8, <2>3, MLinkDoes DEF LinkNode, Answer
    <3>2. Members' = Members \cup {arg[t]}
      BY <2>1, <3>1 DEF Members
    <3>3. arg[t] \notin Members
      <4>1. /\ prev[t] \in InList \cup {HeadCell} /\ next[prev[t]] = cur[t]
            /\ cur[t] \in InList \cup {Null} /\ (prev[t] # HeadCell => key[prev[t]] < arg[t])
        BY <2>1, <2>3, MStanding DEF OnPrev
      <4>2. cur[t] \in InList => key[cur[t]] > arg[t]
        BY <1>0, <2>1, Facts DEF MPlace
      <4>3. arg[t] \in Nat
        BY <2>1, MWorking DEF MichaelPC
      <4> QED BY <1>0, <4>1, <4>2, <4>3, Gap
    <3>4. Act(t) = "insert" /\ Act(t)' = "yes"
      <4>1. Act(t) = Doing(op[t], "none") /\ Act(t)' = Doing(op[t], "yes")
        BY <2>1, <3>1 DEF Act
      <4> QED BY <2>1, <4>1, DoingIs DEF Ops, KeyOps, Inserts
    <3> QED BY <2>1, <3>2, <3>3, <3>4 DEF Effect, From
  <2> QED BY <2>2, <2>3
<1>9. CASE Mark(t)
  <2>1. /\ UNCHANGED <<key, op, arg>> /\ pc[t] = "mark" /\ ans[t] = "none" /\ op[t] = "erase" /\ key[cur[t]] = arg[t]
    BY <1>0, <1>9 DEF Mark, MControl, MPlace, callVars, Answer
  <2>2. CASE ~ LogicalDeletion(t)
    BY <1>9, <2>1, <2>2, SetKept, NoEffect DEF Mark, callVars
  <2>3. CASE LogicalDeletion(t)
    <3>1. items' = items \ {cur[t]} /\ ans'[t] = "yes" /\ cur[t] \in InList /\ ~ marked[cur[t]]
      BY <1>0, <1>9, <2>3, MMarkDoes DEF Mark, Answer, LogicalDeletion, LinkIs
    <3>2. arg[t] \in Members /\ Members' = Members \ {arg[t]}
      <4>1. \A m, n \in items : key[m] = key[n] => m = n
        BY <1>0, Facts DEF Common, Sorted
      <4>2. cur[t] \in items
        BY <1>0, <3>1 DEF Common, Marks
      <4> QED BY <2>1, <3>1, <4>1, <4>2 DEF Members
    <3>3. Act(t) = "erase" /\ Act(t)' = "yes"
      <4>1. Act(t) = Doing("erase", "none") /\ Act(t)' = Doing("erase", "yes")
        BY <2>1, <3>1 DEF Act
      <4> QED BY <4>1, DoingIs DEF Ops, KeyOps
    <3> QED BY <2>1, <3>2, <3>3 DEF Effect, From
  <2> QED BY <2>2, <2>3
<1> QED BY <1>0, <1>1, <1>2, <1>4, <1>5, <1>6, <1>7, <1>8, <1>9 DEF MActs

\* Every step of the lazy list is one of a set.
LEMMA LEffect ==
  ASSUME LInv, NEW t \in Thread, Frame(t), kind' = kind, Steps(t)
  PROVE  Effect(t)
<1>0. /\ Common /\ kind = "lazy" /\ kind \in Lists /\ LActs(t) /\ Control(t) /\ LControl(t) /\ LPlace(t) /\ LLocked(t) /\ LSaw(t)
      /\ t \in DOMAIN ans /\ End = TailCell /\ InList \subseteq Node /\ TailCell \notin InList /\ HeadCell \notin InList
  BY LFacts, LSteps, Facts DEF LOwn, ListTypeOK
<1>1. CASE Call(t) \/ Empty(t) \/ Clear(t) \/ ClearRetire(t) \/ Leave(t) \/ FreeNode(t)
  BY <1>0, <1>1, SharedEffect
<1>2. CASE \/ LzSearch(t) \/ LzLoad(t) \/ LzGuard(t) \/ LzCheck(t) \/ LzStep(t) \/ LzFunctor(t)
           \/ LockPred(t) \/ LockCur(t) \/ UnlockCur(t) \/ UnlockPred(t) \/ LzUnlink(t) \/ BackLink(t) \/ LzRetire(t)
  <2>1. UNCHANGED <<op, arg, ans, items, key>>
    BY <1>2 DEF LzSearch, LzLoad, LzGuard, LzCheck, LzStep, LzFunctor, LockPred, LockCur, UnlockCur, UnlockPred, Acquire,
       Unlock, LzUnlink, BackLink, LzRetire, callVars, listVars
  <2> QED BY <2>1, SetKept, NoEffect
<1>3. ASSUME pc[t] \in LazyPC, ans[t] = "none"
      PROVE  (arg[t] \in Members => sawIn[t]) /\ (arg[t] \notin Members => sawOut[t])
  BY <1>0, <1>3, LWorking, Constants, Reads
<1>4. ASSUME NEW o \in {"insert", "insertf", "ensure"}, op[t] = o, op' = op, ans[t] = "none", ans'[t] \in {"yes", "no"}
      PROVE  Act(t) = "insert" /\ Act(t)' = ans'[t]
  <2>1. Act(t) = Doing(o, "none") /\ Act(t)' = Doing(o, ans'[t])
    BY <1>4 DEF Act
  <2> QED BY <1>4, <2>1, DoingIs DEF Ops, KeyOps, Inserts
<1>5. ASSUME NEW o \in {"find", "emplace"}, op[t] = o, op' = op, ans[t] = "none", ans'[t] \in {"yes", "no"}
      PROVE  Act(t) = "find" /\ Act(t)' = ans'[t]
  <2>1. Act(t) = Doing(o, "none") /\ Act(t)' = Doing(o, ans'[t])
    BY <1>5 DEF Act
  <2> QED BY <1>5, <2>1, DoingIs DEF Ops, KeyOps
<1>6. ASSUME op[t] = "erase", op' = op, ans[t] = "none", ans'[t] \in {"yes", "no"}
      PROVE  Act(t) = "erase" /\ Act(t)' = ans'[t]
  <2>1. Act(t) = Doing("erase", "none") /\ Act(t)' = Doing("erase", ans'[t])
    BY <1>6 DEF Act
  <2> QED BY <1>6, <2>1, DoingIs DEF Ops, KeyOps
<1>7. ASSUME LAfter(t), HasKey(t), ~ marked[cur[t]] PROVE arg[t] \in Members
  <2>1. cur[t] \in InList /\ key[cur[t]] = arg[t]
    BY <1>7, LCells DEF HasKey
  <2> QED BY <1>0, <1>7, <2>1, InSet
<1>8. CASE LzFind(t)
  <2>1. /\ UNCHANGED <<items, key, op, arg>> /\ pc[t] = "find" /\ ans[t] = "none" /\ op[t] = "find" /\ LAfter(t)
        /\ ans'[t] = IF LzFound(t) THEN "yes" ELSE "no"
    BY <1>0, <1>8 DEF LzFind, listVars, Answer, LControl, LPlace
  <2>2. Act(t) = "find" /\ Act(t)' = ans'[t]
    BY <1>5, <2>1
  <2>3. LzFound(t) => sawIn[t]
    BY <1>3, <1>7, <2>1 DEF LazyPC, LzFound
  <2>4. ~ LzFound(t) => sawOut[t]
    BY <1>0, <2>1 DEF LSaw, LzFound, HasKey
  <2> QED BY <2>1, <2>2, <2>3, <2>4, SetKept DEF Effect, From
<1>9. CASE Validate(t)
  <2>1. UNCHANGED <<items, key, op, arg>> /\ pc[t] = "validate" /\ ans[t] = "none" /\ LBefore(t) /\ LAfter(t)
    BY <1>0, <1>9, LValidate DEF Validate, listVars, LPlace, LockedPC
  <2>2. CASE ans'[t] = ans[t]
    BY <2>1, <2>2, SetKept, NoEffect
  <2>3. Validated(t) /\ HasKey(t) => sawIn[t]
    BY <1>3, <1>7, <2>1 DEF LazyPC, Validated
  <2>4. Validated(t) /\ ~ HasKey(t) => sawOut[t]
    <3> SUFFICES ASSUME Validated(t), ~ HasKey(t) PROVE arg[t] \notin Members
      BY <1>3, <2>1 DEF LazyPC
    <3>1. prev[t] \in InList \cup {HeadCell} /\ next[prev[t]] = cur[t]
      BY <2>1, LCells DEF Validated
    <3>2. arg[t] \in Nat
      BY <2>1, LWorking DEF LazyPC
    <3>3. cur[t] \in InList => key[cur[t]] > arg[t]
      <4> SUFFICES ASSUME cur[t] \in InList PROVE key[cur[t]] > arg[t]
        OBVIOUS
      <4>1. cur[t] # TailCell /\ key[cur[t]] \in Nat
        BY <1>0, Facts
      <4> QED BY <2>1, <3>2, <4>1 DEF LAfter, HasKey
    <3>4. prev[t] = HeadCell \/ key[prev[t]] < arg[t]
      BY <2>1 DEF LBefore
    <3> QED BY <1>0, <3>1, <3>2, <3>3, <3>4, Gap
  <2>5. CASE ans'[t] # ans[t]
    <3>1. \/ Validated(t) /\ op[t] \in Inserts /\ HasKey(t) /\ ans'[t] = "no"
          \/ Validated(t) /\ op[t] = "emplace" /\ HasKey(t) /\ ans'[t] = "yes"
          \/ Validated(t) /\ op[t] = "emplace" /\ ~ HasKey(t) /\ ans'[t] = "no"
          \/ Validated(t) /\ op[t] = "erase" /\ ~ HasKey(t) /\ ans'[t] = "no"
      BY <1>9, <2>1, <2>5, LValidate
    <3>2. CASE op[t] \in Inserts
      BY <1>4, <2>1, <2>3, <3>1, <3>2, SetKept DEF Effect, From, Inserts
    <3>3. CASE op[t] = "emplace"
      BY <1>5, <2>1, <2>3, <2>4, <3>1, <3>3, SetKept DEF Effect, From, Inserts
    <3>4. CASE op[t] = "erase"
      BY <1>6, <2>1, <2>4, <3>1, <3>4, SetKept DEF Effect, From, Inserts
    <3> QED BY <3>1, <3>2, <3>3, <3>4
  <2> QED BY <2>2, <2>5
<1>10. CASE LzLink(t) \/ \E n \in Node : LzEnsure(t, n)
  <2>1. /\ UNCHANGED <<op, arg>> /\ pc[t] = "link" /\ ans[t] = "none" /\ op[t] \in Inserts /\ ans'[t] = "yes"
    BY <1>0, <1>10 DEF LzLink, LzEnsure, LzLinked, LControl, Answer
  <2>2. PICK n \in Node : items' = items \cup {n} /\ key'[n] = arg[t] /\ \A m \in items : key'[m] = key[m]
    <3>1. CASE LzLink(t)
      <4>1. node[t] \in Node /\ key[node[t]] = arg[t]
        BY <1>0, <3>1, LLinkDoes, Facts
      <4> QED BY <3>1, <4>1 DEF LzLink, LzLinked
    <3>2. ASSUME NEW n \in Node, LzEnsure(t, n) PROVE items' = items \cup {n} /\ key'[n] = arg[t] /\ \A m \in items : key'[m] = key[m]
      <4>1. n \notin InList
        BY <3>2, LEnsureDoes
      <4>2. n \notin items /\ items \subseteq Node /\ key \in [Node -> Keys \cup {NoKey}]
        BY <1>0, <4>1, Facts
      <4> QED BY <3>2, <4>2 DEF LzEnsure, LzLinked
    <3> QED BY <1>10, <3>1, <3>2
  <2>3. Members' = Members \cup {arg[t]}
    BY <2>2 DEF Members
  <2>4. arg[t] \notin Members
    <3>1. /\ prev[t] \in InList \cup {HeadCell} /\ (prev[t] # HeadCell => key[prev[t]] < arg[t]) /\ next[prev[t]] = cur[t]
      BY <2>1, LLockedFacts
    <3>2. cur[t] \in InList => key[cur[t]] > arg[t]
      BY <1>0, <2>1 DEF LLocked
    <3>3. arg[t] \in Nat
      BY <2>1, LWorking DEF LazyPC
    <3> QED BY <1>0, <3>1, <3>2, <3>3, Gap
  <2> QED BY <1>4, <2>1, <2>3, <2>4 DEF Effect, From, Inserts
<1>11. CASE LzMark(t)
  <2>1. /\ UNCHANGED <<op, arg, key>> /\ pc[t] = "mark" /\ ans[t] = "none" /\ op[t] = "erase" /\ ans'[t] = "yes"
        /\ items' = items \ {cur[t]}
    BY <1>0, <1>11 DEF LzMark, LControl, Answer
  <2>2. cur[t] \in InList /\ key[cur[t]] = arg[t] /\ ~ marked[cur[t]]
    BY <1>11, <2>1, LMarkDoes, LLockedFacts
  <2>3. arg[t] \in Members /\ Members' = Members \ {arg[t]}
    <3>1. \A m, n \in items : key[m] = key[n] => m = n
      BY <1>0, Facts DEF Common, Sorted
    <3>2. cur[t] \in items
      BY <1>0, <2>2 DEF Common, Marks
    <3> QED BY <2>1, <2>2, <3>1, <3>2 DEF Members
  <2> QED BY <1>6, <2>1, <2>3 DEF Effect, From
<1> QED BY <1>0, <1>1, <1>2, <1>8, <1>9, <1>10, <1>11 DEF LActs

\* What the invariant of either list says of both
LEMMA InvFacts ==
  ASSUME Inv, kind \in Lists
  PROVE  Common
BY DEF Inv, MInv, LInv, Lists

\* Every step of a list is one of a set of keys, or leaves it alone.
LEMMA SetStep ==
  ASSUME Inv, kind \in Lists, [Next]_vars
  PROVE  [K!KNext]_(K!kvars) /\ kind' \in Lists
<1>0. Common /\ ListTypeOK /\ Noticed /\ Inv'
  BY Inductive, InvFacts DEF Common
<1>1. CASE Next
  <2>1. ListNext /\ kind' = kind /\ Watch /\ Common'
    <3>1. ListNext /\ kind' = kind /\ Watch
      BY <1>1 DEF Next, Lists, Maps, ListNext
    <3>2. Common'
      BY <1>0, <3>1 DEF Inv, MInv, LInv, Lists
    <3> QED BY <3>1, <3>2
  <2>2. ListTypeOK' /\ \A u \in Thread : Control(u) /\ Control(u)'
    BY <1>0, <2>1 DEF Common
  <2>3. ASSUME NEW t \in Thread, Steps(t) PROVE K!KNext \/ UNCHANGED K!kvars
    <3>1. Frame(t)
      BY <1>0, <2>3, FrameStep
    <3>2. Effect(t)
      BY <2>1, <2>3, <3>1, MEffect, LEffect DEF Inv, Lists
    <3> QED BY <1>0, <2>1, <2>2, <3>1, <3>2, EffectStep
  <2>4. ASSUME NEW n \in Node, Reclaim(n) PROVE K!KNext \/ UNCHANGED K!kvars
    <3>1. UNCHANGED <<op, arg, ans, node, prev, cur, nxt, nmark, pc, items>> /\ key' = [key EXCEPT ![n] = NoKey]
      BY <2>4 DEF Reclaim, Forget, callVars, posVars
    <3>2. n \notin InList
      BY <2>4 DEF Reclaim, R!Free, InList
    <3>3. SameSet
      BY <1>0, <3>1, <3>2, Facts, SetKept
    <3>4. CASE Thread = {}
      <4>1. sawIn' = sawIn /\ sawOut' = sawOut
        BY <2>2, <3>4, <1>0 DEF ListTypeOK
      <4> QED BY <2>1, <3>1, <3>3, <4>1 DEF K!kvars, SameSet, Lists, Maps
    <3>5. ASSUME NEW t \in Thread PROVE K!KNext \/ UNCHANGED K!kvars
      <4>1. Frame(t) /\ Effect(t)
        BY <3>1, <3>3, NoEffect DEF Frame
      <4> QED BY <1>0, <2>1, <2>2, <4>1, EffectStep
    <3> QED BY <3>4, <3>5
  <2> QED BY <2>1, <2>3, <2>4 DEF ListNext, Steps
<1>2. CASE UNCHANGED vars
  <2>1. UNCHANGED <<kind, op, arg, ans, sawIn, sawOut, items, key>>
    BY <1>2, RawStutter DEF rawVars
  <2>2. Members' = Members
    BY <2>1 DEF Members
  <2> QED BY <2>1, <2>2 DEF K!kvars, Lists, Maps
<1> QED BY <1>1, <1>2

\* Michael's list and the lazy list over guards are sets of keys: an insert, ensure or erase that
\* changes the set does so at one instant of its call, and every other answer was true at one.
THEOREM ListsAreSets == kind \in Lists /\ Spec => IsSet
<1>1. kind \in Lists /\ Init => K!KInit
  <2> SUFFICES ASSUME kind \in Lists, Init PROVE K!KInit
    OBVIOUS
  <2>1. ListInit
    BY DEF Init, Lists, Maps
  <2>2. Members = {} /\ \A t \in Thread : Doing(op[t], ans[t]) = "idle"
    BY <2>1 DEF ListInit, Members, Doing
  <2>3. sawIn = [t \in Thread |-> FALSE] /\ sawOut = [t \in Thread |-> FALSE] /\ arg = [t \in Thread |-> NoKey]
    BY <2>1 DEF ListInit, NothingSeen
  <2>4. (IF kind \in Maps THEN M!Members ELSE Members) = {}
    BY <2>2 DEF Lists, Maps
  <2>5. [t \in Thread |-> Doing(op[t], ans[t])] = [t \in Thread |-> "idle"]
    BY <2>2
  <2> QED BY <2>3, <2>4, <2>5 DEF K!KInit
<1>2. (kind \in Lists /\ Inv) /\ [Next]_vars => [K!KNext]_(K!kvars) /\ (kind \in Lists /\ Inv)'
  BY SetStep, Inductive
<1>3. kind \in Lists /\ Init => kind \in Lists /\ Inv
  BY Inductive
<1> QED BY <1>1, <1>2, <1>3, PTL DEF Spec, IsSet, K!KSpec
-----------------------------------------------------------------------------
(* The nodes that can be reached from the head *)

\* Every set of numbers has a least one: what stands here for induction.
LEMMA Least ==
  ASSUME NEW Bad \in SUBSET Nat, Bad # {}
  PROVE  \E x \in Bad : \A y \in Bad : x <= y
<1> DEFINE Q == OpToRel(<, Nat)
<1>1. IsWellFoundedOn(Q, Nat)
  BY NatLessThanWellFounded, Zenon
<1>2. \A x, y \in Nat : y < x => <<y, x>> \in Q
  BY Zenon DEF OpToRel
<1> HIDE DEF Q
<1>3. PICK x \in Bad : \A y \in Bad : <<y, x>> \notin Q
  BY <1>1, WFMin, Zenon
<1>4. x \in Nat /\ \A y \in Bad : ~(y < x)
  BY <1>2, <1>3
<1> QED BY <1>3, <1>4

\* The cell after c, and a walk of m steps from the head
After(c) == IF c = End \/ c \notin Cell THEN c ELSE next[c]
Walks(m, w) ==
    /\ w = [i \in 0..m |-> w[i]] /\ w[0] = HeadCell
    /\ \A i \in 1..m : w[i] = After(w[i - 1])

\* There are walks of every length.
LEMMA WalkExists ==
  ASSUME NEW k \in Nat
  PROVE  \E w : Walks(k, w)
<1> DEFINE Bad == {m \in Nat : ~ \E w : Walks(m, w)}
<1> SUFFICES ASSUME Bad # {} PROVE FALSE
  OBVIOUS
<1>1. PICK m \in Bad : \A y \in Bad : m <= y
  BY Least
<1>2. m \in Nat /\ ~ \E w : Walks(m, w)
  BY <1>1
<1>3. m # 0
  <2>1. Walks(0, [i \in 0..0 |-> HeadCell])
    BY DEF Walks
  <2> QED BY <1>2, <2>1
<1>4. m - 1 \in Nat /\ m - 1 \notin Bad
  BY <1>1, <1>2, <1>3
<1>5. PICK w : Walks(m - 1, w)
  BY <1>4
<1> DEFINE v == [i \in 0..m |-> IF i = m THEN After(w[m - 1]) ELSE w[i]]
<1>7. v = [i \in 0..m |-> v[i]] /\ v[0] = HeadCell
  BY <1>2, <1>3, <1>4, <1>5 DEF Walks
<1>8. ASSUME NEW i \in 1..m PROVE v[i] = After(v[i - 1])
  <2>1. i \in 0..m /\ i - 1 \in 0..m /\ i - 1 # m
    BY <1>2
  <2>2. v[i - 1] = w[i - 1]
    BY <2>1
  <2>3. CASE i = m
    <3>1. v[i] = After(w[m - 1])
      BY <2>1, <2>3
    <3> QED BY <2>2, <2>3, <3>1
  <2>4. CASE i # m
    <3>1. v[i] = w[i] /\ i \in 1..(m - 1)
      BY <1>2, <2>1, <2>4
    <3>2. w[i] = After(w[i - 1])
      BY <1>5, <3>1 DEF Walks
    <3> QED BY <2>2, <3>1, <3>2
  <2> QED BY <2>3, <2>4
<1>9. Walks(m, v)
  BY <1>7, <1>8 DEF Walks
<1> QED BY <1>2, <1>9

\* Chain is the walk over all cells.
LEMMA ChainWalks ==
  ASSUME IsFiniteSet(Node)
  PROVE  Cardinality(Node) \in Nat /\ Walks(Cardinality(Node) + 1, Chain)
<1> DEFINE k == Cardinality(Node) + 1
           E(c) == [i \in Cells |-> IF i = 0 THEN HeadCell
                          ELSE IF c[i - 1] = End \/ c[i - 1] \notin Cell THEN c[i - 1]
                          ELSE next[c[i - 1]]]
<1>1. Cardinality(Node) \in Nat /\ k \in Nat /\ Cells = 0..k
  BY FS_CardinalityType DEF Cells
<1>2. PICK w : Walks(k, w)
  BY <1>1, WalkExists
<1>3. w = E(w)
  <2>1. w = [i \in 0..k |-> w[i]]
    BY <1>2 DEF Walks
  <2>2. ASSUME NEW i \in 0..k PROVE w[i] = E(w)[i]
    <3>0. i # 0 => i \in 1..k
      BY <1>1
    <3>1. w[0] = HeadCell /\ (i # 0 => w[i] = After(w[i - 1]))
      BY <1>2, <3>0, Zenon DEF Walks
    <3>2. E(w)[i] = IF i = 0 THEN HeadCell ELSE After(w[i - 1])
      BY <1>1 DEF After
    <3> QED BY <3>1, <3>2
  <2> QED BY <1>1, <2>1, <2>2
<1>4. Chain = CHOOSE c : c = E(c)
  BY DEF Chain
<1>5. Chain = E(Chain)
  BY <1>3, <1>4
<1>6. Chain = [i \in 0..k |-> Chain[i]] /\ Chain[0] = HeadCell
  BY <1>1, <1>5
<1>7. ASSUME NEW i \in 1..k PROVE Chain[i] = After(Chain[i - 1])
  <2>1. i \in Cells /\ i # 0
    BY <1>1
  <2>2. E(Chain)[i] = After(Chain[i - 1])
    BY <2>1 DEF After
  <2> QED BY <1>5, <2>2
<1> QED BY <1>1, <1>6, <1>7 DEF Walks

\* A walk over a sorted list stays in it until it is at its end, and goes up.
LEMMA WalkUp ==
  ASSUME Sorted, Marks, ListConstants, kind \in Lists,
         NEW k \in Nat, NEW w, Walks(k, w)
  PROVE  /\ \A i \in 0..k : i # 0 => w[i] \in InList \cup {End}
         /\ \A i, j \in 0..k : i < j /\ w[j] \in InList =>
               (i = 0 \/ w[i] \in InList) /\ Precedes(w[i], w[j])
<1>0. /\ w[0] = HeadCell /\ HeadCell # End /\ HeadCell \notin InList /\ End \notin InList
      /\ InList \subseteq Cell /\ HeadCell \in Cell
      /\ \A n \in InList : key[n] \in Nat
  BY DEF Walks, End, InList, Cell, ListConstants, Marks, Lists
<1>1. ASSUME NEW i \in 0..k, i # 0 PROVE i - 1 \in 0..k /\ w[i] = After(w[i - 1])
  <2>1. i - 1 \in 0..k /\ i \in 1..k
    BY <1>1
  <2> QED BY <2>1 DEF Walks
<1>2. ASSUME NEW c \in InList \cup {HeadCell}
      PROVE  /\ After(c) \in InList \cup {End}
             /\ After(c) \in InList => Precedes(c, After(c))
  BY <1>0, <1>2 DEF After, Sorted
<1>3. \A i \in 0..k : i # 0 => w[i] \in InList \cup {End}
  <2> DEFINE Bad == {i \in 0..k : i # 0 /\ w[i] \notin InList \cup {End}}
  <2> SUFFICES ASSUME Bad # {} PROVE FALSE
    OBVIOUS
  <2>0. Bad \in SUBSET Nat
    OBVIOUS
  <2>1. PICK i \in Bad : \A y \in Bad : i <= y
    BY <2>0, Least, Zenon
  <2>2. i \in 0..k /\ i # 0 /\ i - 1 \in 0..k /\ i - 1 \notin Bad
    BY <2>1
  <2>3. w[i - 1] \in InList \cup {HeadCell, End}
    BY <1>0, <2>2
  <2>4. w[i] \in InList \cup {End}
    BY <1>1, <1>2, <2>2, <2>3 DEF After
  <2> QED BY <2>1, <2>4
<1>4. ASSUME NEW j \in 0..k, j # 0, w[j] \in InList
      PROVE  /\ j - 1 = 0 \/ w[j - 1] \in InList
             /\ Precedes(w[j - 1], w[j])
  <2>1. j - 1 \in 0..k /\ w[j] = After(w[j - 1])
    BY <1>1, <1>4
  <2>2. w[j - 1] # End
    BY <1>0, <1>4, <2>1 DEF After
  <2>3. j - 1 = 0 \/ w[j - 1] \in InList
    BY <1>3, <2>1, <2>2
  <2>4. w[j - 1] \in InList \cup {HeadCell}
    BY <1>0, <2>3
  <2> QED BY <1>2, <1>4, <2>1, <2>3, <2>4
<1>5. \A i, j \in 0..k : i < j /\ w[j] \in InList =>
         (i = 0 \/ w[i] \in InList) /\ Precedes(w[i], w[j])
  <2> DEFINE Up(i, j) == (i = 0 \/ w[i] \in InList) /\ Precedes(w[i], w[j])
             Bad == {j \in 0..k : w[j] \in InList /\ \E i \in 0..k : i < j /\ ~Up(i, j)}
  <2> SUFFICES ASSUME Bad # {} PROVE FALSE
    OBVIOUS
  <2>0. Bad \in SUBSET Nat
    OBVIOUS
  <2>1. PICK j \in Bad : \A y \in Bad : j <= y
    BY <2>0, Least, Zenon
  <2>2. PICK i \in 0..k : i < j /\ ~Up(i, j)
    BY <2>1
  <2>3. j \in 0..k /\ j # 0 /\ w[j] \in InList /\ j - 1 \in 0..k /\ j - 1 \notin Bad
    BY <2>1, <2>2
  <2>4. (j - 1 = 0 \/ w[j - 1] \in InList) /\ Precedes(w[j - 1], w[j])
    BY <1>4, <2>3
  <2>5. i # j - 1
    BY <2>2, <2>4
  <2>6. i < j - 1 /\ w[j - 1] \in InList
    BY <2>2, <2>3, <2>4, <2>5
  <2>7. Up(i, j - 1)
    BY <2>3, <2>6
  <2>8. Precedes(w[i], w[j])
    <3>1. w[j - 1] # HeadCell
      BY <1>0, <2>6
    <3>2. CASE i = 0
      BY <1>0, <3>2 DEF Precedes
    <3>3. CASE w[i] \in InList
      BY <1>0, <2>3, <2>4, <2>6, <2>7, <3>1, <3>3 DEF Precedes
    <3> QED BY <2>7, <3>2, <3>3
  <2> QED BY <2>2, <2>7, <2>8
<1> QED BY <1>3, <1>5

\* A walk of as many steps as there are cells reaches the end.
LEMMA WalkEnds ==
  ASSUME Sorted, Marks, ListConstants, kind \in Lists,
         NEW w, Walks(Cardinality(Node) + 1, w)
  PROVE  w[Cardinality(Node) + 1] = End
<1> DEFINE k == Cardinality(Node) + 1
<1>1. IsFiniteSet(Node) /\ Cardinality(Node) \in Nat /\ k \in Nat /\ k > 0
  BY FS_CardinalityType DEF ListConstants
<1> SUFFICES ASSUME w[k] # End PROVE FALSE
  OBVIOUS
<1>2. /\ \A i \in 0..k : i # 0 => w[i] \in InList \cup {End}
      /\ \A i, j \in 0..k : i < j /\ w[j] \in InList =>
            (i = 0 \/ w[i] \in InList) /\ Precedes(w[i], w[j])
  BY <1>1, WalkUp
<1>3. w[k] \in InList
  BY <1>1, <1>2
<1>4. ASSUME NEW i \in 1..k PROVE w[i] \in InList /\ i \in 0..k
  <2>1. i \in 0..k /\ k \in 0..k /\ i # 0 /\ (i = k \/ i < k)
    BY <1>1
  <2> QED BY <1>2, <1>3, <2>1
<1>5. InList \subseteq Node /\ HeadCell \notin InList /\ \A n \in InList : key[n] \in Nat
  BY DEF InList, ListConstants, Marks
<1>6. ASSUME NEW i \in 1..k, NEW j \in 1..k, i < j PROVE w[i] # w[j]
  <2>1. Precedes(w[i], w[j]) /\ w[i] # HeadCell
    BY <1>2, <1>4, <1>5, <1>6
  <2> QED BY <1>4, <1>5, <2>1 DEF Precedes
<1> DEFINE f == [i \in 1..k |-> w[i]]
<1>7. f \in [1..k -> Node]
  BY <1>4, <1>5
<1>8. IsFiniteSet(1..k) /\ Cardinality(1..k) = k
  BY <1>1, FS_Interval
<1>9. PICK i, j \in 1..k : i # j /\ f[i] = f[j]
  <2>1. Cardinality(Node) < Cardinality(1..k)
    BY <1>1, <1>8
  <2> HIDE DEF f
  <2> QED BY <1>1, <1>7, <1>8, <2>1, FS_PigeonHole
<1>10. w[i] = w[j] /\ (i < j \/ j < i)
  BY <1>1, <1>9
<1> QED BY <1>6, <1>10

\* It meets every node of the list.
LEMMA WalkMeets ==
  ASSUME Sorted, Marks, ListConstants, kind \in Lists,
         NEW w, Walks(Cardinality(Node) + 1, w), NEW n \in InList
  PROVE  \E i \in 0..(Cardinality(Node) + 1) : w[i] = n
<1> DEFINE k == Cardinality(Node) + 1
<1>1. IsFiniteSet(Node) /\ Cardinality(Node) \in Nat /\ k \in Nat /\ k > 0
  BY FS_CardinalityType DEF ListConstants
<1> SUFFICES ASSUME \A i \in 0..k : w[i] # n PROVE FALSE
  OBVIOUS
<1>2. /\ w[0] = HeadCell /\ HeadCell # End /\ End \notin InList /\ InList \subseteq Cell /\ HeadCell \in Cell
  BY DEF Walks, End, InList, Cell, ListConstants, Lists
<1> DEFINE Below(c) == c \in InList \cup {HeadCell} /\ Precedes(c, n)
           Bad == {i \in 0..k : ~Below(w[i])}
<1>3. k \in Bad
  <2>1. w[k] = End
    BY WalkEnds
  <2> QED BY <1>1, <1>2, <2>1
<1>4. Bad \in SUBSET Nat
  BY <1>1
<1>5. PICK i \in Bad : \A y \in Bad : i <= y
  BY <1>3, <1>4, Least, Zenon
<1>6. i # 0
  BY <1>2, <1>5 DEF Precedes
<1>7. i \in 0..k /\ i \in 1..k /\ i - 1 \in 0..k /\ i - 1 \notin Bad
  BY <1>1, <1>5, <1>6
<1>8. Below(w[i - 1])
  BY <1>7
<1>9. w[i] = After(w[i - 1])
  BY <1>7 DEF Walks
<1>10. w[i] = next[w[i - 1]]
  BY <1>2, <1>8, <1>9 DEF After
<1>11. w[i] # n
  BY <1>7
<1>12. Below(w[i])
  BY <1>8, <1>10, <1>11 DEF Sorted, Precedes
<1> QED BY <1>5, <1>12

\* What is left on the list when no call is running is unmarked.
LEMMA IdleUnmarked ==
  ASSUME kind \in Lists, Inv, \A t \in Thread : pc[t] = "idle", NEW n \in InList
  PROVE  ~marked[n]
<1>1. CASE kind = "michael"
  BY <1>1 DEF Inv, MInv, MDoomed, MOwner, OnceMore
<1>2. CASE kind = "lazy"
  BY <1>2 DEF Inv, LInv, LDoomed
<1> QED BY <1>1, <1>2 DEF Lists

\* The list that can be walked has the shape that the runs check.
LEMMA InOrder ==
  ASSUME kind \in Lists, Inv
  PROVE  ListShape
<1>1. ListConstants /\ IsFiniteSet(Node) /\ Cardinality(Node) \in Nat
  BY ConstantsAssumption, FS_CardinalityType DEF ListConstants
<1>2. Sorted /\ Marks /\ (kind = "lazy" => LocksHeld)
  BY DEF Inv, MInv, LInv, Common, Lists
<1> DEFINE k == Cardinality(Node) + 1
           chain == Chain
           inList == {chain[i] : i \in Cells} \ {HeadCell, End}
<1>3. Walks(k, chain) /\ Cells = 0..k
  BY <1>1, ChainWalks DEF Cells
<1>4. chain[k] = End
  BY <1>1, <1>2, <1>3, WalkEnds
<1>5. /\ \A i \in 0..k : i # 0 => chain[i] \in InList \cup {End}
      /\ \A i, j \in 0..k : i < j /\ chain[j] \in InList =>
            (i = 0 \/ chain[i] \in InList) /\ Precedes(chain[i], chain[j])
  BY <1>1, <1>2, <1>3, WalkUp
<1>6. /\ chain[0] = HeadCell /\ InList \subseteq Node
      /\ HeadCell \notin Node /\ End \notin Node
  BY <1>1, <1>3 DEF Walks, InList, ListConstants, End
<1>7. inList = InList
  <2>1. ASSUME NEW n \in inList PROVE n \in InList
    BY <1>3, <1>5, <1>6
  <2>2. ASSUME NEW n \in InList PROVE n \in inList
    <3>1. \E i \in 0..k : chain[i] = n
      BY <1>1, <1>2, <1>3, WalkMeets
    <3> QED BY <1>3, <1>6, <3>1
  <2> QED BY <2>1, <2>2
<1>8. ASSUME NEW i \in Cells \ {0, 1}, chain[i] \in Node PROVE key[chain[i - 1]] < key[chain[i]]
  <2>1. i \in 0..k /\ i - 1 \in 0..k /\ i # 0 /\ i - 1 # 0 /\ i - 1 < i
    BY <1>1, <1>3
  <2>2. chain[i] \in InList
    BY <1>5, <1>6, <1>8, <2>1
  <2>3. chain[i - 1] \in InList /\ Precedes(chain[i - 1], chain[i])
    BY <1>5, <2>1, <2>2
  <2> QED BY <1>6, <2>3 DEF Precedes
<1>9. \A n \in inList : status[n] = "linked"
  BY <1>7 DEF InList
<1>10. items = {n \in inList : ~marked[n]}
  BY <1>2, <1>7 DEF Marks
<1>11. (\A t \in Thread : pc[t] = "idle") => items = inList
  BY <1>7, <1>10, IdleUnmarked
<1> HIDE DEF chain
<1> QED BY <1>2, <1>4, <1>8, <1>9, <1>10, <1>11 DEF ListShape, chain

\* The nodes of Michael's list and of the lazy list that can be reached from the head are in the
\* order of their keys and end at the end of the list; the members of the set are those without a
\* mark; and no marked one is left when every call has returned.
THEOREM ListsShape == Spec => [](kind \in Lists => Shape)
<1>1. Inv => (kind \in Lists => Shape)
  <2> SUFFICES ASSUME Inv, kind \in Lists PROVE Shape
    OBVIOUS
  <2>1. ListTypeOK
    BY DEF Inv, MInv, LInv, Common, Lists
  <2> QED BY <2>1, InOrder DEF Shape, Choose
<1> QED BY <1>1, Invariant, PTL
=============================================================================
