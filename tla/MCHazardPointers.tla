-------------------------- MODULE MCHazardPointers --------------------------
(* Model values, symmetry and guard copies for TLC. *)
EXTENDS HazardPointers, TLC
Symmetric == Permutations(Thread) \cup Permutations(Node)
NoCopies == {}
Up == {<<0, 1>>}        \* MichaelList's search: next becomes current
Down == {<<1, 0>>}      \* LazyList's search: current becomes predecessor
=============================================================================
