----------------------------- MODULE BlockHeap -----------------------------
(***************************************************************************)
(* What Michael's allocator promises (cds/memory/michael/allocator.h,      *)
(* class Heap): a block has one user at a time, and a page goes back to    *)
(* the page heap only when no block on it is in use.                       *)
(***************************************************************************)
CONSTANTS Page, Index

VARIABLES pages,        \* the pages the heap has taken
          allocated     \* the blocks in use

hvars == <<pages, allocated>>

HInit == pages = {} /\ allocated = {}

Alloc ==
    \E b \in (pages \X Index) \ allocated :
        allocated' = allocated \cup {b} /\ UNCHANGED pages
Free == \E b \in allocated : allocated' = allocated \ {b} /\ UNCHANGED pages
TakePage == \E p \in Page \ pages : pages' = pages \cup {p} /\ UNCHANGED allocated
ReturnPage ==
    \E p \in pages :
        /\ \A b \in allocated : b[1] # p
        /\ pages' = pages \ {p}
        /\ UNCHANGED allocated

HNext == Alloc \/ Free \/ TakePage \/ ReturnPage
HSpec == HInit /\ [][HNext]_hvars
=============================================================================
