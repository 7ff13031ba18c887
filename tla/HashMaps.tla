------------------------------ MODULE HashMaps ------------------------------
(***************************************************************************)
(* The two maps of libcds over ordered lists.  The hash map                *)
(* (cds/map/michael_hash_map.h) has a list for each bucket.  The           *)
(* split-ordered list (cds/map/split_ordered_list.h) has one list for all: *)
(* the dummy node of a bucket stands before the items of the bucket, which *)
(* is sorted by the reversed bits of the hash, so that a bucket is split   *)
(* in two when the map grows without an item moved.                        *)
(*                                                                         *)
(* An operation of an ordered list is one step here: OrderedLists checks   *)
(* that it takes effect at one instant.  In the split-ordered list it      *)
(* starts at a dummy node and does not see what is before.                 *)
(***************************************************************************)
EXTENDS Naturals, Sequences, FiniteSets, FiniteSetsExt, SequencesExt

CONSTANTS Thread, Keys, NoKey,
          Bits,         \* the width of a hash value
          Hash,         \* m_funcHash
          MaxExp2,      \* the capacity of the bucket table is 2^MaxExp2
          LoadFactor, CountSize,
          Calls         \* a bound: <<t, o, k>>, thread t may call o with key k

Capacity == 2^MaxExp2
Buckets == 0..(Capacity - 1)
KeyOps == {"insert", "ensure", "emplace", "find", "erase"}
MapConstants ==
    /\ Keys \subseteq Nat /\ NoKey \notin Keys
    /\ Bits \in Nat /\ Hash \in [Keys -> 0..(2^Bits - 1)]
    /\ MaxExp2 \in 1..(Bits - 1)
    /\ LoadFactor \in Nat \ {0} /\ CountSize \in Nat \ {0}
    /\ Calls \subseteq Thread \X (KeyOps \cup {"clear"}) \X Keys

VARIABLES
  kind,     \* "split" or "hash"
  list,     \* m_List, from its first node on; m_HashTable[b], a set of keys
  table,    \* m_BucketTable: the buckets whose dummy node it names
  exp2,     \* m_nBucketCountExp2
  count,    \* m_nItemCount, m_ItemCounter
  pc, op, arg, ans,
  inits,    \* nBucket, and the buckets whose initBucket is waiting for a parent
  at,       \* the bucket whose dummy node was found; of clear: i
  sz,       \* sz of incItemCount
  sawIn, sawOut \* history, see KeySet

mapVars == <<list, table, exp2, count>>
callVars == <<op, arg, ans>>
vars == <<kind, mapVars, callVars, pc, inits, at, sz, sawIn, sawOut>>

-----------------------------------------------------------------------------
(* The split order *)

Bit(n, i) == (n \div 2^i) % 2
\* bitop::RBO
Reversed(n) == MapThenSumSet(LAMBDA i : Bit(n, i) * 2^(Bits - 1 - i), 0..(Bits - 1))
\* A regular key is odd, the key of a dummy node even
Regular(k) == [order |-> Reversed(Hash[k]) - Bit(Reversed(Hash[k]), 0) + 1, key |-> k]
Dummy(b) == [order |-> Reversed(b) - Bit(Reversed(b), 0), key |-> NoKey]
Element == [order : 0..(2^Bits - 1), key : Keys \cup {NoKey}]
IsDummy(e) == e.order % 2 = 0
Less_HashOnly(d, e) == d.order < e.order                         \* mutant
Less(d, e) == d.order < e.order \/ (d.order = e.order /\ ~IsDummy(d) /\ d.key < e.key)

\* search, from the dummy node of bucket b on: where e is, or is to be inserted
Position(b, e) ==
    LET from == CHOOSE i \in DOMAIN list : list[i] = Dummy(b)
    IN  Min({i \in (from + 1)..Len(list) : ~Less(list[i], e)} \cup {Len(list) + 1})
Has(b, e) == Position(b, e) <= Len(list) /\ list[Position(b, e)] = e
Linked(b, e) == InsertAt(list, Position(b, e), e)
Removed(b, e) == RemoveAt(list, Position(b, e))

\* getBucketNo, with the size of the table at one instant
InTable(h, e) == h % 2^e
BucketNo(h) == InTable(h, exp2)
\* getParentBucket: without its most significant bit
Parent(b) == b - Max({2^i : i \in {j \in 0..Bits : 2^j <= b}})

\* What the order of the list rests on: the dummy nodes of a bucket and of its parent, in
\* any size of the table, stand before the items of the bucket.
SplitOrder ==
    /\ Capacity \in Nat \ {0}
    /\ \A b \in Buckets : Dummy(b) \in Element /\ Dummy(b).order \in Nat /\ IsDummy(Dummy(b))
    /\ \A k \in Keys : Regular(k) \in Element /\ Regular(k).order \in Nat /\ ~IsDummy(Regular(k))
    /\ \A b, c \in Buckets : Dummy(b) = Dummy(c) => b = c
    /\ \A b \in Buckets \ {0} : Parent(b) \in Buckets /\ Less(Dummy(Parent(b)), Dummy(b))
    /\ \A e \in 1..MaxExp2, k \in Keys :
          InTable(Hash[k], e) \in Buckets /\ Less(Dummy(InTable(Hash[k], e)), Regular(k))

-----------------------------------------------------------------------------
Init ==
    /\ \/ kind = "split" /\ list = <<Dummy(0)>> /\ table = {0} /\ exp2 = 1
       \/ kind = "hash" /\ list = [b \in Buckets |-> {}] /\ table = {} /\ exp2 = MaxExp2
    /\ count = 0
    /\ pc = [t \in Thread |-> "idle"]
    /\ op = [t \in Thread |-> "none"]
    /\ arg = [t \in Thread |-> NoKey]
    /\ ans = [t \in Thread |-> "none"]
    /\ inits = [t \in Thread |-> <<>>]
    /\ at = [t \in Thread |-> 0]
    /\ sz = [t \in Thread |-> 0]
    /\ sawIn = [t \in Thread |-> FALSE]
    /\ sawOut = [t \in Thread |-> FALSE]

Goto(t, there) == pc' = [pc EXCEPT ![t] = there]

Call(t) ==
    /\ pc[t] = "idle"
    /\ \A u \in Thread : op[u] # "clear"
    /\ \E o \in KeyOps, k \in Keys :
          /\ <<t, o, k>> \in Calls
          /\ op' = [op EXCEPT ![t] = o]
          /\ arg' = [arg EXCEPT ![t] = k]
    /\ Goto(t, IF kind = "split" THEN "bucket" ELSE "list")
    /\ UNCHANGED <<mapVars, ans, inits, at, sz>>

\* The size of the table is loaded, and then the bucket, and its parents
FindBucket(t) ==
    /\ pc[t] = "bucket"
    /\ inits' = [inits EXCEPT ![t] = <<BucketNo(Hash[arg[t]])>>]
    /\ Goto(t, "head")
    /\ UNCHANGED <<mapVars, callVars, at, sz>>

\* The head of bucket b is found: of the one asked for, or of a parent, after
\* which the dummy node of its child is to be inserted
Found(t, b) ==
    /\ at' = [at EXCEPT ![t] = b]
    /\ inits' = [inits EXCEPT ![t] = Front(@)]
    /\ Goto(t, IF Len(inits[t]) = 1 THEN "list" ELSE "dummy")
LookHead(t) ==
    /\ pc[t] = "head"
    /\ LET b == Last(inits[t]) IN
       IF b \in table THEN Found(t, b)
       ELSE /\ inits' = [inits EXCEPT ![t] = Append(@, Parent(b))]
            /\ UNCHANGED <<at, pc>>
    /\ UNCHANGED <<mapVars, callVars, sz>>
InsertDummy(t) ==
    /\ pc[t] = "dummy"
    /\ LET e == Dummy(Last(inits[t])) IN
       IF Has(at[t], e) THEN Goto(t, "wait") /\ UNCHANGED list
       ELSE list' = Linked(at[t], e) /\ Goto(t, "set")
    /\ UNCHANGED <<table, exp2, count, callVars, inits, at, sz>>
\* A segment of the table is allocated with its first bucket: until then its
\* buckets are null, and a thread that allocates it in vain frees its own
SetBucket(t) ==
    /\ pc[t] = "set"
    /\ table' = table \cup {Last(inits[t])}
    /\ Found(t, Last(inits[t]))
    /\ UNCHANGED <<list, exp2, count, callVars, sz>>
\* Another thread has inserted the dummy node, and is to set the bucket
WaitBucket(t) ==
    /\ pc[t] = "wait"
    /\ Last(inits[t]) \in table
    /\ Found(t, Last(inits[t]))
    /\ UNCHANGED <<mapVars, callVars, sz>>

-----------------------------------------------------------------------------
(* The operation of the list *)

Chain(t) == InTable(Hash[arg[t]], MaxExp2)
Present(t) ==
    IF kind = "split" THEN Has(at[t], Regular(arg[t])) ELSE arg[t] \in list[Chain(t)]
With(t) ==
    IF kind = "split" THEN Linked(at[t], Regular(arg[t]))
    ELSE [list EXCEPT ![Chain(t)] = @ \cup {arg[t]}]
Without(t) ==
    IF kind = "split" THEN Removed(at[t], Regular(arg[t]))
    ELSE [list EXCEPT ![Chain(t)] = @ \ {arg[t]}]

ListInsert(t) ==
    /\ op[t] \in {"insert", "ensure"}
    /\ IF Present(t) THEN Goto(t, "leave") /\ UNCHANGED list
       ELSE list' = With(t) /\ Goto(t, IF kind = "split" THEN "size" ELSE "count")
    /\ ans' = [ans EXCEPT ![t] = IF Present(t) THEN "no" ELSE "yes"]
ListErase(t) ==
    /\ op[t] = "erase"
    /\ IF Present(t) THEN list' = Without(t) /\ Goto(t, "uncount")
       ELSE Goto(t, "leave") /\ UNCHANGED list
    /\ ans' = [ans EXCEPT ![t] = IF Present(t) THEN "yes" ELSE "no"]
ListFind(t) ==
    /\ op[t] \in {"find", "emplace"}
    /\ Goto(t, "leave")
    /\ ans' = [ans EXCEPT ![t] = IF Present(t) THEN "yes" ELSE "no"]
    /\ UNCHANGED list
ListOp(t) ==
    /\ pc[t] = "list"
    /\ ListInsert(t) \/ ListErase(t) \/ ListFind(t)
    /\ UNCHANGED <<table, exp2, count, op, arg, inits, at, sz>>

\* incItemCount: the counter, and a table too small for it, with the size of the
\* table loaded before; a table that has grown since does not grow again
LoadSize(t) ==
    /\ pc[t] = "size"
    /\ sz' = [sz EXCEPT ![t] = exp2]
    /\ Goto(t, "count")
    /\ UNCHANGED <<mapVars, callVars, inits, at>>
TooSmall(t) == count' \div 2^sz[t] > LoadFactor /\ sz[t] < MaxExp2
Count(t) ==
    /\ pc[t] = "count"
    /\ count' = (count + 1) % CountSize
    /\ Goto(t, IF kind = "split" /\ TooSmall(t) THEN "grow" ELSE "leave")
    /\ UNCHANGED <<list, table, exp2, callVars, inits, at, sz>>
Grow(t) ==
    /\ pc[t] = "grow"
    /\ exp2' = IF exp2 = sz[t] THEN sz[t] + 1 ELSE exp2
    /\ Goto(t, "leave")
    /\ UNCHANGED <<list, table, count, callVars, inits, at, sz>>
Uncount == (count + CountSize - 1) % CountSize
Discount(t) ==
    /\ pc[t] = "uncount"
    /\ count' = Uncount
    /\ Goto(t, "leave")
    /\ UNCHANGED <<list, table, exp2, callVars, inits, at, sz>>

-----------------------------------------------------------------------------
\* clear of the hash map: bucket by bucket, then the counter.  "The resulting map
\* will be empty only if there are no parallel threads": it runs alone
CallClear(t) ==
    /\ kind = "hash"
    /\ \E k \in Keys : <<t, "clear", k>> \in Calls
    /\ \A u \in Thread : pc[u] = "idle"
    /\ op' = [op EXCEPT ![t] = "clear"]
    /\ Goto(t, "clear")
    /\ UNCHANGED <<mapVars, arg, ans, inits, at, sz>>
Clear(t) ==
    /\ pc[t] = "clear"
    /\ IF at[t] \in Buckets
       THEN /\ IF list[at[t]] = {} THEN at' = [at EXCEPT ![t] = @ + 1] /\ UNCHANGED list
               ELSE /\ \E k \in list[at[t]] : list' = [list EXCEPT ![at[t]] = @ \ {k}]
                    /\ UNCHANGED at
            /\ UNCHANGED <<count, ans, pc>>
       ELSE /\ count' = 0
            /\ ans' = [ans EXCEPT ![t] = "yes"]
            /\ Goto(t, "leave")
            /\ UNCHANGED <<list, at>>
    /\ UNCHANGED <<table, exp2, op, arg, inits, sz>>

Return(t) ==
    /\ pc[t] = "leave"
    /\ Goto(t, "idle")
    /\ op' = [op EXCEPT ![t] = "none"]
    /\ arg' = [arg EXCEPT ![t] = NoKey]
    /\ ans' = [ans EXCEPT ![t] = "none"]
    /\ at' = [at EXCEPT ![t] = 0]
    /\ sz' = [sz EXCEPT ![t] = 0]
    /\ UNCHANGED <<mapVars, inits>>

-----------------------------------------------------------------------------
Members ==
    IF kind = "split" THEN {list[i].key : i \in DOMAIN list} \ {NoKey}
    ELSE UNION {list[b] : b \in Buckets}

\* What the calls in progress notice of the set of keys, see KeySet.
PendingIn(o, a) == o # "none" /\ a = "none"
Missing(t) == IF arg'[t] = NoKey THEN Members' = {} ELSE arg'[t] \notin Members'
Watch ==
    /\ sawIn' = [t \in Thread |->
          /\ PendingIn(op'[t], ans'[t])
          /\ arg'[t] \in Members' \/ (PendingIn(op[t], ans[t]) /\ sawIn[t])]
    /\ sawOut' = [t \in Thread |->
          /\ PendingIn(op'[t], ans'[t])
          /\ Missing(t) \/ (PendingIn(op[t], ans[t]) /\ sawOut[t])]

InitBucket(t) == LookHead(t) \/ InsertDummy(t) \/ SetBucket(t) \/ WaitBucket(t)
IncItemCount(t) == LoadSize(t) \/ Count(t) \/ Grow(t)
MapWorking(t) ==
    FindBucket(t) \/ InitBucket(t) \/ ListOp(t) \/ IncItemCount(t) \/ Discount(t) \/ Clear(t) \/ Return(t)
Next ==
    /\ \E t \in Thread : Call(t) \/ CallClear(t) \/ MapWorking(t)
    /\ UNCHANGED kind
    /\ Watch
Spec == Init /\ [][Next]_vars

-----------------------------------------------------------------------------
(* Properties *)

TypeOK ==
    /\ kind \in {"split", "hash"}
    /\ IF kind = "split" THEN list \in Seq(Element)
       ELSE list \in [Buckets -> SUBSET Keys]
    /\ table \subseteq Buckets
    /\ exp2 \in 1..MaxExp2
    /\ count \in 0..(CountSize - 1)
    /\ pc \in [Thread -> {"idle", "bucket", "head", "dummy", "set", "wait", "list", "size",
                          "count", "grow", "uncount", "clear", "leave"}]
    /\ op \in [Thread -> KeyOps \cup {"none", "clear"}]
    /\ arg \in [Thread -> Keys \cup {NoKey}]
    /\ ans \in [Thread -> {"none", "yes", "no"}]
    /\ inits \in [Thread -> Seq(Buckets)]
    /\ at \in [Thread -> 0..Capacity]
    /\ sz \in [Thread -> 0..MaxExp2]

\* The list is sorted, with one node for each bucket of the table and for those one
\* call is about to enter there; the item counter agrees, but for the calls
\* that have yet to change it.
Setting(b) == {t \in Thread : pc[t] = "set" /\ Last(inits[t]) = b}
Late(here) == Cardinality({t \in Thread : pc[t] \in here})
Shape ==
    /\ kind = "split" =>
          /\ \A i, j \in DOMAIN list : i < j => Less(list[i], list[j])
          /\ \A b \in Buckets :
                Dummy(b) \in Range(list) <=> b \in table \/ Setting(b) # {}
          /\ \A b \in Buckets : Cardinality(Setting(b)) <= IF b \in table THEN 0 ELSE 1
    /\ (\A t \in Thread : op[t] # "clear") =>
          (count + Late({"size", "count"})) % CountSize
             = (Cardinality(Members) + Late({"uncount"})) % CountSize
=============================================================================
