---------------------------- MODULE OrderedLists ----------------------------
(***************************************************************************)
(* The ordered lists over guards, a MichaelList or a LazyList: one set of  *)
(* keys, kept in two ways.                                                 *)
(***************************************************************************)
EXTENDS MichaelList, LazyList

\* What the calls in progress notice of the set of keys, see KeySet.
Members == {key[n] : n \in items}
PendingIn(o, a) == o # "none" /\ a = "none"
Missing(t) == IF arg'[t] = NoKey THEN Members' = {} ELSE arg'[t] \notin Members'
Watch ==
    /\ sawIn' = [t \in Thread |->
          /\ PendingIn(op'[t], ans'[t])
          /\ arg'[t] \in Members' \/ (PendingIn(op[t], ans[t]) /\ sawIn[t])]
    /\ sawOut' = [t \in Thread |->
          /\ PendingIn(op'[t], ans'[t])
          /\ Missing(t) \/ (PendingIn(op[t], ans[t]) /\ sawOut[t])]

ListWorking(t) ==
    \/ kind = "michael" /\ MichaelWorking(t)
    \/ kind = "lazy" /\ LazyWorking(t)
ListNext ==
    /\ \/ /\ \A n \in Node : ~Reclaimable(n)
          /\ \E t \in Thread : Call(t) \/ ListWorking(t)
       \/ \E n \in Node : Reclaim(n)
    /\ Watch
    /\ UNCHANGED kind

-----------------------------------------------------------------------------
(* Properties *)

ListTypeOK ==
    /\ kind \in {"michael", "lazy"}
    /\ next \in [Cell -> Pointer]
    /\ marked \in [Cell -> BOOLEAN]
    /\ key \in [Node -> Keys \cup {NoKey}]
    /\ lock \in [Cell -> Thread \cup {NoThread}]
    /\ R!RTypeOK
    /\ pc \in [Thread -> {"idle", "empty", "clear", "clear_retire", "leave", "free"}
                            \cup (IF kind = "lazy" THEN LazyPC ELSE MichaelPC)]
    /\ op \in [Thread -> Ops \cup {"none"}]
    /\ arg \in [Thread -> Keys \cup {NoKey}]
    /\ ans \in [Thread -> {"none", "yes", "no"}]
    /\ node \in [Thread -> Node \cup {Null}]
    /\ \A v \in {prev, cur, nxt} : v \in [Thread -> Pointer]
    /\ nmark \in [Thread -> BOOLEAN]
    /\ items \subseteq Node
    /\ sawIn \in [Thread -> BOOLEAN] /\ sawOut \in [Thread -> BOOLEAN]

\* The cells from the head on, then the end for ever.
Cells == 0..(Cardinality(Node) + 1)
Chain ==
    LET c[i \in Cells] ==
          IF i = 0 THEN HeadCell
          ELSE IF c[i - 1] = End \/ c[i - 1] \notin Cell THEN c[i - 1] ELSE next[c[i - 1]]
    IN  c

\* The nodes that can be reached from the head have ascending keys, end at the
\* end of the list, and are the members of the set and the nodes marked but
\* not yet unlinked; of those none is left when no operation is running.
ListShape ==
    LET chain == Chain
        inList == {chain[i] : i \in Cells} \ {HeadCell, End}
    IN  /\ chain[Cardinality(Node) + 1] = End
        /\ \A n \in inList : status[n] = "linked"
        /\ \A i \in Cells \ {0, 1} :
              chain[i] \in Node => key[chain[i - 1]] < key[chain[i]]
        /\ items = {n \in inList : ~marked[n]}
        /\ (\A t \in Thread : pc[t] = "idle") => items = inList
        /\ kind = "lazy" => LocksHeld

\* No operation touches a node that has been freed: each node is guarded, and was
\* seen in the list after it was guarded.
Touches(t) == (IF kind = "lazy" THEN LazyTouches(t) ELSE MichaelTouches(t)) \cap Node
FreedUntouched == \A t \in Thread : \A n \in Touches(t) : status[n] # "free"
=============================================================================
