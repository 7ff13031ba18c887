---------------------------- MODULE MCHRCQueues ----------------------------
(***************************************************************************)
(* Instances of HRCQueues for TLC.  A setup is a queue with some items and *)
(* what each thread does with it.  The threads' lists hold two nodes, so   *)
(* that the second retire of a thread already has to make room.            *)
(***************************************************************************)
EXTENDS HRCQueues

CONSTANTS t1, t2

D == <<"dequeue">>
E(v) == <<"enqueue", v>>
Leaves == <<"detach">>
Joins == <<"attach">>
Setup(k, full, records, one, two) ==
    [kind |-> k, filled |-> full, attached |-> records, todo |-> (t1 :> one) @@ (t2 :> two)]
Both == <<t1, t2>>

\* A thread leaves and comes back to its record while the other cleans up the nodes in it
Rejoins == {Setup("ms", <<1, 2, 3, 4>>, Both, <<D, D>>, <<D, Leaves, Joins, D>>)}
\* Two that dequeue, retire and enqueue; one leaves meanwhile
Busy ==
    Rejoins \cup
    { Setup("ms", <<3>>, Both, <<E(1), D, D>>, <<E(2), D>>),
      Setup("ms", <<1, 2>>, Both, <<D, D>>, <<E(2), D>>),
      Setup("moir", <<1, 2>>, Both, <<D, D>>, <<E(4), D, Leaves>>),
      Setup("ms", <<1, 2, 3>>, Both, <<D, D, D>>, <<Leaves>>),
      Setup("ms", <<1, 2, 3>>, Both, <<D, D>>, <<D, Leaves>>) }

\* An enqueue stands on a node the other thread dequeues
Walks == {Setup("ms", <<>>, Both, <<E(1)>>, <<E(1), E(1), E(1), D, D, D>>)}
\* The thread that comes back takes another record, and moves the nodes to it
Moves == {Setup("ms", <<1, 2, 3, 4, 1>>, <<t1, t2, Null>>, <<D, D>>, <<D, Leaves, Joins, D, D>>)}
=============================================================================
