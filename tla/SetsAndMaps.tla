---------------------------- MODULE SetsAndMaps ----------------------------
(***************************************************************************)
(* One object of the classes that keep a set of keys: the two ordered      *)
(* lists over guards, the one over tagged pointers, and the two maps made  *)
(* of ordered lists; and the specification that all of them implement.     *)
(* The classes share the names of the state of their calls.                *)
(***************************************************************************)
EXTENDS OrderedLists, TLC

CONSTANTS TaggedCalls, Coincide,                                            \* of the tagged one
          MapKeys, Bits, Hash, MaxExp2, LoadFactor, CountSize, MapCalls,    \* of the maps
          t1, t2                                                            \* the threads, for the roles

VARIABLES free, known,                                 \* of the tagged list
          list, table, exp2, count, inits, at, sz      \* of the maps

orderedVars == <<listVars, reclaimVars, node, posVars, items>>
tagVars == <<free, known>>
guardVars == <<marked, lock, status, hz, using, blockers, nmark>>
mapVars == <<list, table, exp2, count, inits, at, sz>>
sharedVars == <<pc, op, arg, ans, sawIn, sawOut>>
vars == <<kind, orderedVars, tagVars, mapVars, sharedVars>>

T == INSTANCE TaggedList WITH Calls <- TaggedCalls
M == INSTANCE HashMaps WITH Keys <- MapKeys, Calls <- MapCalls

ASSUME ConstantsAssumption ==
    /\ ListConstants
    /\ T!TaggedListConstants
    /\ M!MapConstants /\ M!SplitOrder

Lists == {"michael", "lazy"}
Maps == {"split", "hash"}

NoGuards ==
    /\ marked = <<>> /\ lock = <<>> /\ nmark = <<>>
    /\ status = <<>> /\ hz = <<>> /\ using = <<>> /\ blockers = <<>>
NoTags == free = {} /\ known = <<>>
NoList ==
    /\ next = <<>> /\ key = <<>> /\ node = <<>>
    /\ prev = <<>> /\ cur = <<>> /\ nxt = <<>> /\ items = {}
NoMap ==
    list = <<>> /\ table = {} /\ exp2 = 0 /\ count = 0 /\ inits = <<>> /\ at = <<>> /\ sz = <<>>

Init ==
    \/ kind \in Lists /\ ListInit /\ NoTags /\ NoMap
    \/ kind = "tagged" /\ T!Init /\ NothingSeen /\ NoGuards /\ NoMap
    \/ kind \in Maps /\ M!Init /\ NoList /\ NoGuards /\ NoTags
Next ==
    \/ kind \in Lists /\ ListNext /\ UNCHANGED <<tagVars, mapVars>>
    \/ kind = "tagged" /\ T!Next /\ Watch /\ UNCHANGED <<kind, guardVars, mapVars>>
    \/ kind \in Maps /\ M!Next /\ UNCHANGED <<orderedVars, tagVars>>
Spec == Init /\ [][Next]_vars

-----------------------------------------------------------------------------
\* The nodes are in order, each in its place, and those of no erased key are left;
\* the table names the buckets there are, and the counter the items, of a map.
Choose(l, t, m) == IF kind \in Lists THEN l ELSE IF kind = "tagged" THEN t ELSE m
Shape == Choose(ListTypeOK /\ ListShape, T!TypeOK /\ T!Shape, M!TypeOK /\ M!Shape)

\* No operation of a list over guards touches a node that has been freed, and no
\* functor of the tagged one a node that others may delete.
NoUseAfterFree == Choose(FreedUntouched, T!FunctorsSafe, TRUE)

\* A list over guards keeps its side of the reclamation contract (the maps leave it
\* to it).
KeepsContract == [][(kind \in Lists) => R!RNext]_(R!rvars)

\* What a call is doing to the set: insert takes effect when the node is linked, erase when
\* it is marked; the other answers were true at one instant of the call.
Doing(o, a) ==
    IF a # "none" THEN a
    ELSE CASE o = "none" -> "idle"
           [] o \in {"insert", "insertf", "ensure"} -> "insert"
           [] o \in {"find", "findf", "emplace"} -> "find"
           [] OTHER -> o

\* A list or a map is a set of keys: each call takes effect at one instant.
K == INSTANCE KeySet WITH
        Key <- Keys \cup MapKeys,
        set <- IF kind \in Maps THEN M!Members ELSE Members,
        op <- [t \in Thread |-> Doing(op[t], ans[t])]
IsSet == K!KSpec

-----------------------------------------------------------------------------
\* For TLC: symmetry, the calls of each thread and the hash values.
Symmetric == Permutations(Node)
Roles == {t1} \X {"insert", "erase"} \X {1, 2}
         \cup {t2} \X {"erase"} \X {1, 2}
         \cup {t2} \X {"insertf", "empty", "clear"} \X {1}
         \cup {t2} \X {"ensure", "find", "emplace"} \X {2}
TaggedRoles == {t1} \X {"erase"} \X {1, 2}
               \cup {<<t1, "insert", 1>>, <<t2, "empty", 1>>, <<t2, "clear", 1>>}
               \cup {t2} \X {"erase", "ensure", "find", "findf"} \X {2}
\* Calls that the tagged list does not bear, see README, section 6
TaggedInserts == TaggedRoles \cup {<<t1, "insert", 2>>}
TaggedFunctors == TaggedRoles \cup {<<t2, "findf", 1>>}
Hashes == 1 :> 2 @@ 2 :> 6 @@ 3 :> 0 @@ 4 :> 4 @@ 5 :> 3
MapRoles == ({t1} \X {"insert"} \X {1, 2, 3, 4}) \cup ({t1} \X {"find", "clear"} \X {5})
            \cup {<<t2, "ensure", 5>>, <<t2, "erase", 1>>, <<t2, "erase", 5>>}
=============================================================================
