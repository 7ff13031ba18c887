-------------------------------- MODULE SBag --------------------------------
(***************************************************************************)
(* The bag of Sundell et al. (cds/bag/sbag_hrc.h): a list of blocks for    *)
(* each thread, newest first.  A thread adds to its own first block only,  *)
(* removes from its own blocks while it can, and steals from the lists of  *)
(* all threads, in turns, when it cannot.  It says that the bag is empty   *)
(* after it has passed over all lists often enough; an add clears the bits *)
(* it has set in the block meanwhile, and sends it back to the first round.*)
(*                                                                         *)
(* sbag_hrc_gccthread.h is the variant for one adding and one removing     *)
(* thread, which takes items with a plain store.  A block that is taken    *)
(* out of its list is not used again here: DeleteNode does nothing, and in *)
(* the variant leaves the block to gc::hrc.                                *)
(***************************************************************************)
EXTENDS Integers, FiniteSets

CONSTANTS NR_THREADS, c_nBlockSize, Null,
          MaxBlocks,        \* a bound
          Setups            \* a bound: of each kind of bag, who may call what, and how
                            \* many blocks may be allocated

Thread == 0..(NR_THREADS - 1)
Block == 1..MaxBlocks
Slot == 0..(c_nBlockSize - 1)
\* "many" is sbag_hrc.h, "single" sbag_hrc_gccthread.h
Setup == [kind : {"many", "single"}, calls : SUBSET (Thread \X {"add", "remove", "init"}),
          blocks : 0..MaxBlocks]
ASSUME BagAssumption ==
    /\ NR_THREADS \in Nat \ {0} /\ c_nBlockSize \in Nat \ {0} /\ MaxBlocks \in Nat
    /\ Null \notin Block
    /\ Setups \subseteq Setup

\* A marked pointer: mark 1, the block is to be taken out of the list; mark 2, the
\* block it points to is
Link == [ptr : Block \cup {Null}, m1 : BOOLEAN, m2 : BOOLEAN]
To(b) == [ptr |-> b, m1 |-> FALSE, m2 |-> FALSE]
Removed == [ptr |-> Null, m1 |-> TRUE, m2 |-> FALSE]

PC == {"idle", "add", "add_notify", "add_store", "leave",
       "own", "own_take", "own_mark", "own_next", "own_mark_next", "own_notify", "own_cas",
       "own_cut", "own_head", "try", "notify", "scan", "take", "next", "mark_next", "head_notify",
       "head_cas", "prev", "prev_cas", "mark2", "mark1", "restart", "cut"}

VARIABLES
  setup,            \* the one of Setups
  made,             \* the number of blocks allocated
  next,             \* m_pNext
  full,             \* <<b, s>>: m_data[s] of block b is not the SENTINEL
  notifyAdd,        \* m_notifyAdd, the set of its bits
  globalHead,       \* m_pGlobalHeadBlock
  threadBlock, threadHead, stealBlock, stealPrev, stealHead, stealIndex, foundAdd,
                    \* the TLSData of each thread
  pc, op, ans,
  block, head, round, i, nxt, prev2,    \* locals; prev2, the mark 2 of prevnext
  sawEmpty          \* history, see ItemBag

bagVars == <<made, next, full, notifyAdd, globalHead>>
ownVars == <<threadBlock, threadHead>>
stealVars == <<stealBlock, stealPrev, stealHead, stealIndex, foundAdd>>
callVars == <<op, ans>>
localVars == <<block, head, round, i, nxt, prev2>>
vars == <<setup, bagVars, ownVars, stealVars, callVars, localVars, pc, sawEmpty>>

Init ==
    /\ setup \in Setups
    /\ made = 0
    /\ next = [b \in Block |-> To(Null)]
    /\ full = {}
    /\ notifyAdd = [b \in Block |-> {}]
    /\ globalHead = [t \in Thread |-> Null]
    /\ threadBlock = [t \in Thread |-> Null]
    /\ threadHead = [t \in Thread |-> c_nBlockSize]
    /\ stealBlock = [t \in Thread |-> Null]
    /\ stealPrev = [t \in Thread |-> Null]
    /\ stealHead = [t \in Thread |-> c_nBlockSize]
    /\ stealIndex = [t \in Thread |-> 0]
    /\ foundAdd = [t \in Thread |-> FALSE]
    /\ pc = [t \in Thread |-> "idle"]
    /\ op = [t \in Thread |-> "none"]
    /\ ans = [t \in Thread |-> "none"]
    /\ block = [t \in Thread |-> Null]
    /\ head = [t \in Thread |-> 0]
    /\ round = [t \in Thread |-> 0]
    /\ i = [t \in Thread |-> 0]
    /\ nxt = [t \in Thread |-> To(Null)]
    /\ prev2 = [t \in Thread |-> FALSE]
    /\ sawEmpty = [t \in Thread |-> FALSE]

Goto(t, there) == pc' = [pc EXCEPT ![t] = there]
Answer(t, yesNo) == ans' = [ans EXCEPT ![t] = yesNo] /\ Goto(t, "leave") /\ UNCHANGED op

\* Mark1Block: unless the link is null or marked
Marked1(b) == IF next[b].ptr = Null THEN next ELSE [next EXCEPT ![b].m1 = TRUE]
NotifyAll(b) == notifyAdd' = [notifyAdd EXCEPT ![b] = {}]

-----------------------------------------------------------------------------
(* add *)

Adding == {t \in Thread : pc[t] = "add"}
CallAdd(t) ==
    /\ pc[t] = "idle" /\ <<t, "add">> \in setup.calls
    /\ made + Cardinality(Adding) < setup.blocks
    /\ op' = [op EXCEPT ![t] = "add"]
    /\ block' = [block EXCEPT ![t] = threadBlock[t]]
    /\ head' = [head EXCEPT ![t] = threadHead[t]]
    /\ Goto(t, "add")
    /\ UNCHANGED <<bagVars, ownVars, stealVars, ans, round, i, nxt, prev2>>

\* NewBlock is first seen by others when it is the first of the list
AddBlock(t) ==
    /\ pc[t] = "add" /\ head[t] = c_nBlockSize
    /\ made' = made + 1
    /\ next' = [next EXCEPT ![made'] = To(block[t])]
    /\ globalHead' = [globalHead EXCEPT ![t] = made']
    /\ threadBlock' = [threadBlock EXCEPT ![t] = made']
    /\ block' = [block EXCEPT ![t] = made']
    /\ head' = [head EXCEPT ![t] = 0]
    /\ UNCHANGED <<full, notifyAdd, threadHead, stealVars, callVars, round, i, nxt, prev2, pc>>
AddLook(t) ==
    /\ pc[t] = "add" /\ head[t] # c_nBlockSize
    /\ IF <<block[t], head[t]>> \in full THEN head' = [head EXCEPT ![t] = @ + 1] /\ UNCHANGED pc
       ELSE Goto(t, "add_notify") /\ UNCHANGED head
    /\ UNCHANGED <<bagVars, ownVars, stealVars, callVars, block, round, i, nxt, prev2>>
AddNotify(t) ==
    /\ pc[t] = "add_notify"
    /\ NotifyAll(block[t])
    /\ Goto(t, "add_store")
    /\ UNCHANGED <<made, next, full, globalHead, ownVars, stealVars, callVars, localVars>>
AddStore(t) ==
    /\ pc[t] = "add_store"
    /\ full' = full \cup {<<block[t], head[t]>>}
    /\ threadHead' = [threadHead EXCEPT ![t] = head[t] + 1]
    /\ Answer(t, "yes")
    /\ UNCHANGED <<made, next, notifyAdd, globalHead, threadBlock, stealVars, localVars>>

-----------------------------------------------------------------------------
(* tryRemoveAny: the thread's own blocks *)

CallRemove(t) ==
    /\ pc[t] = "idle" /\ <<t, "remove">> \in setup.calls
    /\ op' = [op EXCEPT ![t] = "remove"]
    /\ block' = [block EXCEPT ![t] = threadBlock[t]]
    /\ head' = [head EXCEPT ![t] = threadHead[t] - 1]
    /\ Goto(t, IF threadBlock[t] = Null THEN "try" ELSE "own")
    /\ UNCHANGED <<bagVars, ownVars, stealVars, ans, round, i, nxt, prev2>>

\* No more items here: to the blocks of all, or to the next block
OwnEnd(t) ==
    /\ pc[t] = "own" /\ head[t] < 0
    /\ Goto(t, IF next[block[t]].ptr = Null THEN "try" ELSE "own_mark")
    /\ UNCHANGED <<bagVars, ownVars, stealVars, callVars, localVars>>
OwnLook(t) ==
    /\ pc[t] = "own" /\ head[t] >= 0
    /\ IF <<block[t], head[t]>> \in full THEN Goto(t, "own_take") /\ UNCHANGED head
       ELSE head' = [head EXCEPT ![t] = @ - 1] /\ UNCHANGED pc
    /\ UNCHANGED <<bagVars, ownVars, stealVars, callVars, block, round, i, nxt, prev2>>
\* A CAS from the item to the sentinel, or a plain store
Takes(t) == setup.kind = "single" \/ <<block[t], head[t]>> \in full
OwnTake(t) ==
    /\ pc[t] = "own_take"
    /\ IF Takes(t)
       THEN /\ full' = full \ {<<block[t], head[t]>>}
            /\ threadHead' = [threadHead EXCEPT ![t] = head[t]]
            /\ Answer(t, "yes")
       ELSE Goto(t, "own") /\ UNCHANGED <<full, threadHead, callVars>>
    /\ UNCHANGED <<made, next, notifyAdd, globalHead, threadBlock, stealVars, localVars>>

OwnMark(t) ==
    /\ pc[t] = "own_mark"
    /\ next' = Marked1(block[t])
    /\ Goto(t, "own_next")
    /\ UNCHANGED <<made, full, notifyAdd, globalHead, ownVars, stealVars, callVars, localVars>>
\* The first block is taken out of the list as long as it is marked
OwnFound(t, n) ==
    IF n.m1
    THEN /\ nxt' = [nxt EXCEPT ![t] = n]
         /\ Goto(t, IF n.ptr = Null THEN "own_cas" ELSE "own_notify")
         /\ UNCHANGED <<ownVars, head>>
    ELSE /\ threadBlock' = [threadBlock EXCEPT ![t] = block[t]]
         /\ threadHead' = [threadHead EXCEPT ![t] = c_nBlockSize]
         /\ head' = [head EXCEPT ![t] = c_nBlockSize - 1]
         /\ nxt' = [nxt EXCEPT ![t] = To(Null)]
         /\ Goto(t, "own")
OwnNext(t) ==
    /\ pc[t] = "own_next"
    /\ IF next[block[t]].m2
       THEN /\ nxt' = [nxt EXCEPT ![t] = next[block[t]]]
            /\ Goto(t, "own_mark_next")
            /\ UNCHANGED <<ownVars, head>>
       ELSE OwnFound(t, next[block[t]])
    /\ UNCHANGED <<bagVars, stealVars, callVars, block, round, i, prev2>>
OwnMarkNext_Skipped(t) == next                                     \* mutant
OwnMarkNext(t) == Marked1(nxt[t].ptr)
OwnMarksNext(t) ==
    /\ pc[t] = "own_mark_next"
    /\ next' = OwnMarkNext(t)
    /\ OwnFound(t, nxt[t])
    /\ UNCHANGED <<made, full, notifyAdd, globalHead, stealVars, callVars, block, round, i, prev2>>
OwnNotify(t) ==
    /\ pc[t] = "own_notify"
    /\ NotifyAll(nxt[t].ptr)
    /\ Goto(t, "own_cas")
    /\ UNCHANGED <<made, next, full, globalHead, ownVars, stealVars, callVars, localVars>>
OwnCas(t) ==
    /\ pc[t] = "own_cas"
    /\ IF globalHead[t] = block[t]
       THEN globalHead' = [globalHead EXCEPT ![t] = nxt[t].ptr] /\ Goto(t, "own_cut")
       ELSE Goto(t, "own_head") /\ UNCHANGED globalHead
    /\ UNCHANGED <<made, next, full, notifyAdd, ownVars, stealVars, callVars, localVars>>
OwnCut(t) ==
    /\ pc[t] = "own_cut"
    /\ next' = [next EXCEPT ![block[t]] = Removed]
    /\ block' = [block EXCEPT ![t] = nxt[t].ptr]
    /\ Goto(t, "own_next")
    /\ UNCHANGED <<made, full, notifyAdd, globalHead, ownVars, stealVars, callVars,
                   head, round, i, nxt, prev2>>
OwnHead(t) ==
    /\ pc[t] = "own_head"
    /\ block' = [block EXCEPT ![t] = globalHead[t]]
    /\ Goto(t, "own_next")
    /\ UNCHANGED <<bagVars, ownVars, stealVars, callVars, head, round, i, nxt, prev2>>

-----------------------------------------------------------------------------
(* TryStealBlock *)

\* The list of one thread is done; NR_THREADS of them are a round
Rounds_One == 1                                                    \* mutant
Rounds == NR_THREADS
NextIndex(n) == (n + 1) % NR_THREADS
NextList(t) ==
    /\ stealIndex' = [stealIndex EXCEPT ![t] = NextIndex(@)]
    /\ stealHead' = [stealHead EXCEPT ![t] = 0]
    /\ stealBlock' = [stealBlock EXCEPT ![t] = Null]
    /\ stealPrev' = [stealPrev EXCEPT ![t] = Null]
    /\ foundAdd' = [foundAdd EXCEPT ![t] = FALSE]
    /\ IF i[t] + 1 < NR_THREADS
       THEN i' = [i EXCEPT ![t] = @ + 1] /\ Goto(t, "try") /\ UNCHANGED <<round, callVars>>
       ELSE /\ i' = [i EXCEPT ![t] = 0]
            /\ IF round[t] < Rounds
               THEN round' = [round EXCEPT ![t] = @ + 1] /\ Goto(t, "try") /\ UNCHANGED callVars
               ELSE Answer(t, "no") /\ UNCHANGED round
    /\ UNCHANGED <<block, head>>
\* A block to look through, from slot s on
Through(t, b, s) ==
    /\ block' = [block EXCEPT ![t] = b]
    /\ head' = [head EXCEPT ![t] = s]
    /\ foundAdd' = [foundAdd EXCEPT ![t] = FALSE]
    /\ Goto(t, IF round[t] = 0 THEN "scan" ELSE "notify")
    /\ UNCHANGED <<stealIndex, round, i, callVars>>

TryHead(t) ==
    /\ pc[t] = "try" /\ stealBlock[t] = Null
    /\ LET b == globalHead[stealIndex[t]] IN
       IF b = Null THEN NextList(t)
       ELSE /\ stealBlock' = [stealBlock EXCEPT ![t] = b]
            /\ stealHead' = [stealHead EXCEPT ![t] = 0]
            /\ Through(t, b, 0)
            /\ UNCHANGED stealPrev
    /\ UNCHANGED <<bagVars, ownVars, nxt, prev2>>
TryOn(t) ==
    /\ pc[t] = "try" /\ stealBlock[t] # Null
    /\ Through(t, stealBlock[t], stealHead[t])
    /\ UNCHANGED <<bagVars, ownVars, stealBlock, stealPrev, stealHead, nxt, prev2>>

\* NotifyCheck: an add has cleared the bit
NotifyCheck(t) == t \notin notifyAdd[block[t]]
\* NotifyStart in the second round, NotifyCheck in the later ones
Notify(t) ==
    /\ pc[t] = "notify"
    /\ IF round[t] = 1
       THEN notifyAdd' = [notifyAdd EXCEPT ![block[t]] = @ \cup {t}] /\ UNCHANGED foundAdd
       ELSE /\ foundAdd' = [foundAdd EXCEPT ![t] = NotifyCheck(t)]
            /\ UNCHANGED notifyAdd
    /\ Goto(t, "scan")
    /\ UNCHANGED <<made, next, full, globalHead, ownVars, stealBlock, stealPrev, stealHead,
                   stealIndex, callVars, localVars>>

\* The block is done: in the next call of TryStealBlock comes the next one
Scan(t) ==
    /\ pc[t] = "scan"
    /\ IF <<block[t], head[t]>> \in full
       THEN Goto(t, "take") /\ UNCHANGED <<head, stealHead, foundAdd, round, i>>
       ELSE IF head[t] + 1 < c_nBlockSize
       THEN head' = [head EXCEPT ![t] = @ + 1] /\ UNCHANGED <<pc, stealHead, foundAdd, round, i>>
       ELSE /\ stealHead' = [stealHead EXCEPT ![t] = c_nBlockSize]
            /\ round' = [round EXCEPT ![t] = IF foundAdd[t] THEN 0 ELSE @]
            /\ i' = [i EXCEPT ![t] = IF foundAdd[t] THEN 0 ELSE @]
            /\ foundAdd' = [foundAdd EXCEPT ![t] = FALSE]
            /\ Goto(t, "next")
            /\ UNCHANGED head
    /\ UNCHANGED <<bagVars, ownVars, stealBlock, stealPrev, stealIndex, callVars, block, nxt, prev2>>
StealTake(t) ==
    /\ pc[t] = "take"
    /\ IF Takes(t)
       THEN /\ full' = full \ {<<block[t], head[t]>>}
            /\ stealHead' = [stealHead EXCEPT ![t] = head[t]]
            /\ Answer(t, "yes")
       ELSE Goto(t, "scan") /\ UNCHANGED <<full, stealHead, callVars>>
    /\ UNCHANGED <<made, next, notifyAdd, globalHead, ownVars, stealBlock, stealPrev,
                   stealIndex, foundAdd, localVars>>

-----------------------------------------------------------------------------
(* NextStealBlock: the block after m_pStealBlock, which is taken out of the list *)
(* on the way, unless it is the first                                            *)

Victim(t) == stealIndex[t]
\* It is block b, and p the one before; or there is none left
NextBlock(t, p, b) ==
    IF b = Null THEN NextList(t)
    ELSE /\ stealBlock' = [stealBlock EXCEPT ![t] = b]
         /\ stealPrev' = [stealPrev EXCEPT ![t] = p]
         /\ Through(t, b, 0)
         /\ UNCHANGED stealHead
NextHead(t) ==
    /\ pc[t] = "next" /\ block[t] = Null
    /\ NextBlock(t, stealPrev[t], globalHead[Victim(t)])
    /\ UNCHANGED <<bagVars, ownVars, nxt, prev2>>
GoOn(t, p, b) ==
    IF stealBlock[t] \in {block[t], b} THEN NextBlock(t, p, b)
    ELSE /\ stealPrev' = [stealPrev EXCEPT ![t] = p]
         /\ block' = [block EXCEPT ![t] = b]
         /\ Goto(t, "next")
         /\ UNCHANGED <<stealBlock, stealHead, stealIndex, foundAdd, callVars, head, round, i>>

\* The link of the block has been read
NextFound(t, n) ==
    LET first == stealPrev[t] = Null \/ n.ptr = Null
        Branch(there) ==
           /\ nxt' = [nxt EXCEPT ![t] = n]
           /\ Goto(t, there)
           /\ UNCHANGED <<stealVars, callVars, block, head, round, i>>
    IN  CASE n.m1 /\ first -> Branch(IF n.ptr = Null THEN "head_cas" ELSE "head_notify")
          [] n.m1 /\ ~first -> Branch("prev")
          [] ~n.m1 /\ ~first /\ block[t] = stealBlock[t] -> Branch("mark2")
          [] OTHER -> nxt' = [nxt EXCEPT ![t] = To(Null)] /\ GoOn(t, block[t], n.ptr)
NextLoad(t) ==
    /\ pc[t] = "next" /\ block[t] # Null
    /\ IF next[block[t]].m2
       THEN /\ nxt' = [nxt EXCEPT ![t] = next[block[t]]]
            /\ Goto(t, "mark_next")
            /\ UNCHANGED <<stealVars, callVars, block, head, round, i>>
       ELSE NextFound(t, next[block[t]])
    /\ UNCHANGED <<bagVars, ownVars, prev2>>
MarkNext(t) ==
    /\ pc[t] = "mark_next"
    /\ next' = Marked1(nxt[t].ptr)
    /\ NextFound(t, nxt[t])
    /\ UNCHANGED <<made, full, notifyAdd, globalHead, ownVars, prev2>>
HeadNotify(t) ==
    /\ pc[t] = "head_notify"
    /\ NotifyAll(nxt[t].ptr)
    /\ Goto(t, "head_cas")
    /\ UNCHANGED <<made, next, full, globalHead, ownVars, stealVars, callVars, localVars>>
HeadCas(t) ==
    /\ pc[t] = "head_cas"
    /\ IF globalHead[Victim(t)] = block[t]
       THEN globalHead' = [globalHead EXCEPT ![Victim(t)] = nxt[t].ptr] /\ Goto(t, "cut")
       ELSE Goto(t, "restart") /\ UNCHANGED globalHead
    /\ UNCHANGED <<made, next, full, notifyAdd, ownVars, stealVars, callVars, localVars>>
PrevLoad(t) ==
    /\ pc[t] = "prev"
    /\ prev2' = [prev2 EXCEPT ![t] = next[stealPrev[t]].m2]
    /\ Goto(t, "prev_cas")
    /\ UNCHANGED <<bagVars, ownVars, stealVars, callVars, block, head, round, i, nxt>>
PrevNext(t, m) == [ptr |-> block[t], m1 |-> FALSE, m2 |-> m]
PrevCas(t) ==
    /\ pc[t] = "prev_cas"
    /\ IF next[stealPrev[t]] = PrevNext(t, prev2[t])
       THEN /\ next' = [next EXCEPT ![stealPrev[t]] = [nxt[t] EXCEPT !.m1 = FALSE]]
            /\ Goto(t, "cut")
       ELSE Goto(t, "restart") /\ UNCHANGED next
    /\ prev2' = [prev2 EXCEPT ![t] = FALSE]
    /\ UNCHANGED <<made, full, notifyAdd, globalHead, ownVars, stealVars, callVars,
                   block, head, round, i, nxt>>
Mark2(t) ==
    /\ pc[t] = "mark2"
    /\ IF next[stealPrev[t]] = PrevNext(t, FALSE)
       THEN next' = [next EXCEPT ![stealPrev[t]] = PrevNext(t, TRUE)] /\ Goto(t, "mark1")
       ELSE Goto(t, "restart") /\ UNCHANGED next
    /\ UNCHANGED <<made, full, notifyAdd, globalHead, ownVars, stealVars, callVars, localVars>>
Mark1(t) ==
    /\ pc[t] = "mark1"
    /\ next' = Marked1(block[t])
    /\ Goto(t, "next")
    /\ UNCHANGED <<made, full, notifyAdd, globalHead, ownVars, stealVars, callVars, localVars>>
Restart(t) ==
    /\ pc[t] = "restart"
    /\ stealPrev' = [stealPrev EXCEPT ![t] = Null]
    /\ block' = [block EXCEPT ![t] = globalHead[Victim(t)]]
    /\ nxt' = [nxt EXCEPT ![t] = To(Null)]
    /\ Goto(t, "next")
    /\ UNCHANGED <<bagVars, ownVars, stealBlock, stealHead, stealIndex, foundAdd, callVars,
                   head, round, i, prev2>>
\* (sbag_hrc_gccthread.h clears the link and marks it in two steps; the one thread that
\* could look at it in between is this one)
Cut(t) ==
    /\ pc[t] = "cut"
    /\ next' = [next EXCEPT ![block[t]] = Removed]
    /\ nxt' = [nxt EXCEPT ![t] = To(Null)]
    /\ GoOn(t, stealPrev[t], nxt[t].ptr)
    /\ UNCHANGED <<made, full, notifyAdd, globalHead, ownVars, prev2>>

-----------------------------------------------------------------------------
Return(t) ==
    /\ pc[t] = "leave"
    /\ op' = [op EXCEPT ![t] = "none"]
    /\ ans' = [ans EXCEPT ![t] = "none"]
    /\ block' = [block EXCEPT ![t] = Null]
    /\ head' = [head EXCEPT ![t] = 0]
    /\ round' = [round EXCEPT ![t] = 0]
    /\ i' = [i EXCEPT ![t] = 0]
    /\ nxt' = [nxt EXCEPT ![t] = To(Null)]
    /\ foundAdd' = [foundAdd EXCEPT ![t] = FALSE]
    /\ Goto(t, "idle")
    /\ UNCHANGED <<bagVars, ownVars, stealBlock, stealPrev, stealHead, stealIndex, prev2>>

\* Another thread takes over the number of one that has ended
InitThread(t) ==
    /\ pc[t] = "idle" /\ <<t, "init">> \in setup.calls
    /\ threadBlock' = [threadBlock EXCEPT ![t] = globalHead[t]]
    /\ threadHead' = [threadHead EXCEPT ![t] = c_nBlockSize]
    /\ stealBlock' = [stealBlock EXCEPT ![t] = Null]
    /\ stealPrev' = [stealPrev EXCEPT ![t] = Null]
    /\ stealHead' = [stealHead EXCEPT ![t] = c_nBlockSize]
    /\ stealIndex' = [stealIndex EXCEPT ![t] = 0]
    /\ UNCHANGED <<bagVars, foundAdd, callVars, localVars, pc>>

\* What a call of tryRemoveAny notices of the bag
Pending(o, a) == o = "remove" /\ a = "none"
Watch ==
    sawEmpty' = [t \in Thread |->
       Pending(op'[t], ans'[t]) /\ (full' = {} \/ (Pending(op[t], ans[t]) /\ sawEmpty[t]))]

Add(t) == AddBlock(t) \/ AddLook(t) \/ AddNotify(t) \/ AddStore(t)
RemoveOwn(t) ==
    \/ OwnEnd(t) \/ OwnLook(t) \/ OwnTake(t) \/ OwnMark(t) \/ OwnNext(t) \/ OwnMarksNext(t)
    \/ OwnNotify(t) \/ OwnCas(t) \/ OwnCut(t) \/ OwnHead(t)
TryStealBlock(t) == TryHead(t) \/ TryOn(t) \/ Notify(t) \/ Scan(t) \/ StealTake(t)
NextStealBlock(t) ==
    \/ NextHead(t) \/ NextLoad(t) \/ MarkNext(t) \/ HeadNotify(t) \/ HeadCas(t) \/ PrevLoad(t)
    \/ PrevCas(t) \/ Mark2(t) \/ Mark1(t) \/ Restart(t) \/ Cut(t)
Next ==
    /\ \E t \in Thread :
          \/ CallAdd(t) \/ CallRemove(t) \/ InitThread(t) \/ Return(t)
          \/ Add(t) \/ RemoveOwn(t) \/ TryStealBlock(t) \/ NextStealBlock(t)
    /\ Watch
    /\ UNCHANGED setup
Spec == Init /\ [][Next]_vars

-----------------------------------------------------------------------------
(* Properties *)

TypeOK ==
    /\ setup \in Setups
    /\ made \in 0..MaxBlocks
    /\ next \in [Block -> Link]
    /\ full \subseteq Block \X Slot
    /\ notifyAdd \in [Block -> SUBSET Thread]
    /\ \A v \in {globalHead, threadBlock, stealBlock, stealPrev, block} :
          v \in [Thread -> Block \cup {Null}]
    /\ \A v \in {threadHead, stealHead} : v \in [Thread -> 0..c_nBlockSize]
    /\ head \in [Thread -> -1..c_nBlockSize]
    /\ stealIndex \in [Thread -> Thread]
    /\ \A v \in {foundAdd, prev2, sawEmpty} : v \in [Thread -> BOOLEAN]
    /\ pc \in [Thread -> PC]
    /\ op \in [Thread -> {"none", "add", "remove"}]
    /\ ans \in [Thread -> {"none", "yes", "no"}]
    /\ round \in [Thread -> 0..NR_THREADS]
    /\ i \in [Thread -> 0..(NR_THREADS - 1)]
    /\ nxt \in [Thread -> Link]

\* The blocks of the list of t
Blocks(t) ==
    LET step[n \in 0..MaxBlocks] ==
          IF n = 0 THEN globalHead[t]
          ELSE IF step[n - 1] = Null THEN Null ELSE next[step[n - 1]].ptr
    IN  {step[n] : n \in 0..MaxBlocks} \ {Null}
\* No item is left behind in a block that is taken out of its list, and none will be
\* added to such a block.  The assertions of the variant hold: its remover has no
\* blocks of its own, and takes out no first block.
Shape ==
    /\ TypeOK
    /\ \A s \in full : \E t \in Thread : s[1] \in Blocks(t)
    /\ \A t \in Thread : op[t] # "remove" => threadBlock[t] = globalHead[t]
    /\ setup.kind = "single" =>
          \A t \in Thread : pc[t] \notin {"own", "head_notify", "head_cas"}
\* Every item is removed once, and "none" is answered only if there was none.
Items == INSTANCE ItemBag WITH
            Place <- Block \X Slot,
            bag <- full,
            op <- [t \in Thread |->
                     IF ans[t] # "none" THEN ans[t] ELSE IF op[t] = "none" THEN "idle" ELSE op[t]]
IsBag == Items!ISpec

-----------------------------------------------------------------------------
\* For TLC: who calls what
Who == {
    \* an owner, and a thief in its list
    [kind |-> "many", calls |-> {<<0, "add">>, <<0, "remove">>, <<1, "remove">>}, blocks |-> 3],
    \* two thieves, of which one looks for an item while another takes one
    [kind |-> "many", calls |-> {<<0, "add">>, <<1, "remove">>, <<2, "remove">>}, blocks |-> 2],
    \* both own and steal; their numbers are taken over
    [kind |-> "many", calls |-> {0, 1} \X {"add", "remove", "init"}, blocks |-> 2],
    [kind |-> "single", calls |-> {<<0, "add">>, <<0, "init">>, <<1, "remove">>, <<1, "init">>},
     blocks |-> 3]}
=============================================================================
