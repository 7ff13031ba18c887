------------------------- MODULE PlainQueues_proofs -------------------------
(***************************************************************************)
(* Proofs about the array queues and the two-lock queue, for arrays of     *)
(* every size, any number of threads and nodes, and any values: their      *)
(* invariants, and that they implement the BoundedQueue.                   *)
(***************************************************************************)
EXTENDS PlainQueues, SequenceTheorems, FiniteSetTheorems, TLAPS

(* Arithmetic modulo a number *)

\* Division with remainder, as the provers know it
LEMMA ModDef ==
  ASSUME NEW c \in Nat \ {0}, NEW x \in Int
  PROVE  x % c \in 0..(c - 1) /\ x \div c \in Int /\ x = c * (x \div c) + (x % c)
OBVIOUS

\* Different multiples of c are at least c apart.
LEMMA Multiples ==
  ASSUME NEW c \in Nat \ {0}, NEW a \in Int, NEW b \in Int, a < b
  PROVE  c * a + c <= c * b
<1>1. c * (b - a) >= c * 1
  OBVIOUS
<1>2. c * (b - a) = c * b - c * a
  OBVIOUS
<1> QED BY <1>1, <1>2

\* Quotient and remainder are unique.
LEMMA ModIs ==
  ASSUME NEW c \in Nat \ {0}, NEW q \in Int, NEW r \in 0..(c - 1), NEW x \in Int, x = c * q + r
  PROVE  x % c = r
<1> DEFINE p == x \div c
           s == x % c
<1>1. p \in Int /\ s \in 0..(c - 1) /\ x = c * p + s
  BY ModDef
<1>2. CASE p < q
  <2>1. c * p + c <= c * q
    BY <1>2, <1>1, Multiples
  <2> QED BY <2>1, <1>1
<1>3. CASE q < p
  <2>1. c * q + c <= c * p
    BY <1>3, <1>1, Multiples
  <2> QED BY <2>1, <1>1
<1> QED BY <1>1, <1>2, <1>3

\* Multiples of c do not matter.
LEMMA ModShift ==
  ASSUME NEW c \in Nat \ {0}, NEW x \in Int, NEW k \in Int
  PROVE  (x + c * k) % c = x % c
<1>1. x % c \in 0..(c - 1) /\ x \div c \in Int /\ x = c * (x \div c) + (x % c)
  BY ModDef
<1>2. c * ((x \div c) + k) = c * (x \div c) + c * k /\ (x \div c) + k \in Int /\ c * k \in Int
  BY <1>1
<1>3. x + c * k = c * ((x \div c) + k) + (x % c)
  BY <1>1, <1>2
<1> DEFINE y == x + c * k
           q == (x \div c) + k
           r == x % c
<1>4. y \in Int /\ q \in Int /\ r \in 0..(c - 1) /\ y = c * q + r
  BY <1>1, <1>2, <1>3
<1> HIDE DEF y, q, r
<1>5. y % c = r
  BY <1>4, ModIs
<1> QED BY <1>5 DEF y, r

\* Equal remainders are a multiple of c apart.
LEMMA SameMod ==
  ASSUME NEW c \in Nat \ {0}, NEW x \in Int, NEW y \in Int, x % c = y % c, x - y < c, y - x < c
  PROVE  x = y
<1>1. /\ x \div c \in Int /\ x = c * (x \div c) + (x % c)
      /\ y \div c \in Int /\ y = c * (y \div c) + (y % c)
  BY ModDef
<1>2. CASE x \div c < y \div c
  <2>1. c * (x \div c) + c <= c * (y \div c)
    BY <1>1, <1>2, Multiples
  <2> QED BY <2>1, <1>1
<1>3. CASE y \div c < x \div c
  <2>1. c * (y \div c) + c <= c * (x \div c)
    BY <1>1, <1>3, Multiples
  <2> QED BY <2>1, <1>1
<1> QED BY <1>1, <1>2, <1>3

\* A remainder may be added to instead of the number itself.
LEMMA ModAdd ==
  ASSUME NEW c \in Nat \ {0}, NEW x \in Int, NEW y \in Int
  PROVE  ((x % c) + y) % c = (x + y) % c
<1>1. x % c \in 0..(c - 1) /\ x \div c \in Int /\ x = c * (x \div c) + (x % c)
  BY ModDef
<1>2. x + y = ((x % c) + y) + c * (x \div c) /\ (x % c) + y \in Int
  BY <1>1
<1> QED BY <1>1, <1>2, ModShift

\* A remainder modulo a multiple of c has the same remainder modulo c.
LEMMA ModMod ==
  ASSUME NEW c \in Nat \ {0}, NEW m \in Nat \ {0}, m % c = 0, NEW x \in Int
  PROVE  (x % m) % c = x % c
<1>1. x % m \in 0..(m - 1) /\ x \div m \in Int /\ x = m * (x \div m) + (x % m)
  BY ModDef
<1>2. m \div c \in Int /\ m = c * (m \div c)
  BY ModDef
<1>3. m * (x \div m) = c * ((m \div c) * (x \div m)) /\ (m \div c) * (x \div m) \in Int
  <2> DEFINE a == m \div c
             b == x \div m
  <2>1. a \in Int /\ b \in Int /\ m = c * a
    BY <1>1, <1>2
  <2> HIDE DEF a, b
  <2>2. (c * a) * b = c * (a * b) /\ a * b \in Int
    BY <2>1
  <2> QED BY <2>1, <2>2 DEF a, b
<1>4. x = (x % m) + c * ((m \div c) * (x \div m))
  BY <1>1, <1>3
<1> DEFINE k == (m \div c) * (x \div m)
           y == x % m
<1>5. k \in Int /\ y \in Int /\ x = y + c * k
  BY <1>1, <1>3, <1>4
<1> HIDE DEF k, y
<1>6. x % c = y % c
  BY <1>5, ModShift
<1> QED BY <1>6 DEF y

-----------------------------------------------------------------------------
(* Vyukov's queue: positions *)

\* The assumptions on the constants, in the form the proofs use
LEMMA VConstants ==
  ASSUME V!Constants
  PROVE  /\ Modulus \in Nat \ {0} /\ BufferSize \in Nat \ {0, 1} /\ Modulus % BufferSize = 0
         /\ MaxLag \in Nat \ {0} /\ MaxLag + MaxLag + BufferSize + BufferSize <= Modulus
         /\ None \notin Value
BY DEF V!Constants

\* Positions are words of Modulus values.
LEMMA PlusType ==
  ASSUME V!Constants, NEW p \in Int, NEW i \in Int
  PROVE  V!Plus(p, i) \in V!Pos /\ V!Plus(p, i) \in 0..(Modulus - 1)
<1>0. /\ Modulus \in Nat \ {0} /\ BufferSize \in Nat \ {0, 1} /\ Modulus % BufferSize = 0
      /\ BufferSize \in Nat \ {0}
  BY VConstants
<1>1. (p + i) % Modulus \in 0..(Modulus - 1)
  BY <1>0, ModDef
<1> QED BY <1>1 DEF V!Plus, V!Pos

\* Going on by i and then by j is going on by i + j.
LEMMA PlusPlus ==
  ASSUME V!Constants, NEW p \in Int, NEW i \in Int, NEW j \in Int
  PROVE  V!Plus(V!Plus(p, i), j) = V!Plus(p, i + j)
<1>0. /\ Modulus \in Nat \ {0} /\ BufferSize \in Nat \ {0, 1} /\ Modulus % BufferSize = 0
      /\ BufferSize \in Nat \ {0}
  BY VConstants
<1>1. (((p + i) % Modulus) + j) % Modulus = ((p + i) + j) % Modulus
  <2> DEFINE x == p + i
  <2>1. x \in Int
    OBVIOUS
  <2> HIDE DEF x
  <2>2. ((x % Modulus) + j) % Modulus = (x + j) % Modulus
    BY <1>0, <2>1, ModAdd
  <2> QED BY <2>2 DEF x
<1>2. (p + i) + j = p + (i + j)
  OBVIOUS
<1> QED BY <1>1, <1>2 DEF V!Plus

\* A position is where it is.
LEMMA PlusZero ==
  ASSUME V!Constants, NEW p \in V!Pos
  PROVE  V!Plus(p, 0) = p
<1>0. /\ Modulus \in Nat \ {0} /\ BufferSize \in Nat \ {0, 1} /\ Modulus % BufferSize = 0
      /\ BufferSize \in Nat \ {0}
  BY VConstants
<1>1. p \in Int /\ p \in 0..(Modulus - 1) /\ p = Modulus * 0 + p
  BY <1>0 DEF V!Pos
<1>2. p % Modulus = p
  BY <1>1, <1>0, ModIs
<1> QED BY <1>1, <1>2 DEF V!Plus

\* Less than a whole Modulus apart, no two positions wrap to the same word.
LEMMA PlusSame ==
  ASSUME V!Constants, NEW p \in Int, NEW i \in Int, NEW j \in Int, i - j < Modulus, j - i < Modulus,
         V!Plus(p, i) = V!Plus(p, j)
  PROVE  i = j
<1>0. /\ Modulus \in Nat \ {0} /\ BufferSize \in Nat \ {0, 1} /\ Modulus % BufferSize = 0
      /\ BufferSize \in Nat \ {0}
  BY VConstants
<1>1. p + i = p + j
  <2> DEFINE x == p + i
             y == p + j
  <2>1. x % Modulus = y % Modulus
    BY DEF V!Plus
  <2>2. x \in Int /\ y \in Int /\ x - y < Modulus /\ y - x < Modulus
    BY <1>0
  <2> HIDE DEF x, y
  <2>3. x = y
    BY <1>0, <2>1, <2>2, SameMod
  <2> QED BY <2>3 DEF x, y
<1> QED BY <1>1

\* How far q is ahead of p
LEMMA GapIs ==
  ASSUME V!Constants, NEW p \in Int, NEW k \in 0..(Modulus - 1)
  PROVE  (V!Plus(p, k) - p) % Modulus = k
<1>0. /\ Modulus \in Nat \ {0} /\ BufferSize \in Nat \ {0, 1} /\ Modulus % BufferSize = 0
      /\ BufferSize \in Nat \ {0}
  BY VConstants
<1>1. (((p + k) % Modulus) + (-p)) % Modulus = ((p + k) + (-p)) % Modulus
  <2> DEFINE x == p + k
             y == -p
  <2>1. x \in Int /\ y \in Int
    OBVIOUS
  <2> HIDE DEF x, y
  <2>2. ((x % Modulus) + y) % Modulus = (x + y) % Modulus
    BY <1>0, <2>1, ModAdd
  <2> QED BY <2>2 DEF x, y
<1>2. (p + k) + (-p) = k /\ k \in Int /\ k = Modulus * 0 + k
  BY <1>0
<1>3. k % Modulus = k
  BY <1>2, <1>0, ModIs
<1>4. (p + k) % Modulus \in Int
  BY <1>2, <1>0, ModDef
<1>5. ((p + k) % Modulus) + (-p) = ((p + k) % Modulus) - p
  BY <1>4
<1> QED BY <1>1, <1>2, <1>3, <1>5 DEF V!Plus

\* The distance, modulo Modulus, leads from one position to the other.
LEMMA GapPlus ==
  ASSUME V!Constants, NEW p \in V!Pos, NEW q \in V!Pos
  PROVE  (q - p) % Modulus \in 0..(Modulus - 1) /\ V!Plus(p, (q - p) % Modulus) = q
<1>0. /\ Modulus \in Nat \ {0} /\ BufferSize \in Nat \ {0, 1} /\ Modulus % BufferSize = 0
      /\ BufferSize \in Nat \ {0}
  BY VConstants
<1>1. p \in Int /\ q \in Int /\ q - p \in Int
  BY DEF V!Pos
<1>2. (q - p) % Modulus \in 0..(Modulus - 1)
  BY <1>1, <1>0, ModDef
<1>3. (((q - p) % Modulus) + p) % Modulus = ((q - p) + p) % Modulus
  BY <1>1, <1>0, ModAdd
<1>4. (q - p) + p = q + 0 /\ ((q - p) % Modulus) + p = p + ((q - p) % Modulus)
  BY <1>1, <1>2
<1> QED BY <1>2, <1>3, <1>4, PlusZero DEF V!Plus

\* The cell of a position is inside the array and wraps with the capacity, since Modulus is a
\* multiple of it.
LEMMA CellIs ==
  ASSUME V!Constants, NEW p \in Int, NEW i \in Int
  PROVE  V!CellOf(V!Plus(p, i)) = (p + i) % BufferSize /\ V!CellOf(V!Plus(p, i)) \in 0..(BufferSize - 1)
<1>0. /\ Modulus \in Nat \ {0} /\ BufferSize \in Nat \ {0, 1} /\ Modulus % BufferSize = 0
      /\ BufferSize \in Nat \ {0}
  BY VConstants
<1>1. ((p + i) % Modulus) % BufferSize = (p + i) % BufferSize
  <2> DEFINE x == p + i
  <2>1. x \in Int
    OBVIOUS
  <2> HIDE DEF x
  <2>2. (x % Modulus) % BufferSize = x % BufferSize
    BY <1>0, <2>1, ModMod
  <2> QED BY <2>2 DEF x
<1>2. (p + i) % BufferSize \in 0..(BufferSize - 1)
  BY <1>0, ModDef
<1> QED BY <1>1, <1>2 DEF V!Plus, V!CellOf

\* Positions less than a lap apart have different cells.
LEMMA CellSame ==
  ASSUME V!Constants, NEW p \in Int, NEW i \in Int, NEW j \in Int, i - j < BufferSize, j - i < BufferSize,
         V!CellOf(V!Plus(p, i)) = V!CellOf(V!Plus(p, j))
  PROVE  i = j
<1>0. /\ Modulus \in Nat \ {0} /\ BufferSize \in Nat \ {0, 1} /\ Modulus % BufferSize = 0
      /\ BufferSize \in Nat \ {0}
  BY VConstants
<1>1. p + i = p + j
  <2> DEFINE x == p + i
             y == p + j
  <2>1. x % BufferSize = y % BufferSize
    BY CellIs
  <2>2. x \in Int /\ y \in Int /\ x - y < BufferSize /\ y - x < BufferSize
    BY <1>0
  <2> HIDE DEF x, y
  <2>3. x = y
    BY <1>0, <2>1, <2>2, SameMod
  <2> QED BY <2>3 DEF x, y
<1> QED BY <1>1

\* A lap later it is the same cell.
LEMMA CellLap ==
  ASSUME V!Constants, NEW p \in Int, NEW i \in Int
  PROVE  V!CellOf(V!Plus(p, i + BufferSize)) = V!CellOf(V!Plus(p, i))
<1>0. /\ Modulus \in Nat \ {0} /\ BufferSize \in Nat \ {0, 1} /\ Modulus % BufferSize = 0
      /\ BufferSize \in Nat \ {0}
  BY VConstants
<1>1. (p + i + BufferSize * 1) % BufferSize = (p + i) % BufferSize
  <2> DEFINE x == p + i
             k == 1
  <2>1. x \in Int /\ k \in Int
    OBVIOUS
  <2> HIDE DEF x, k
  <2>2. (x + BufferSize * k) % BufferSize = x % BufferSize
    BY <1>0, <2>1, ModShift
  <2> QED BY <2>2 DEF x, k
<1>2. p + i + BufferSize * 1 = p + (i + BufferSize) /\ i + BufferSize \in Int
  BY <1>0
<1> QED BY <1>1, <1>2, CellIs

\* Every cell is at one of the positions of a lap.
LEMMA CellReach ==
  ASSUME V!Constants, NEW p \in Int, NEW c \in 0..(BufferSize - 1)
  PROVE  \E i \in 0..(BufferSize - 1) : V!CellOf(V!Plus(p, i)) = c
<1>0. /\ Modulus \in Nat \ {0} /\ BufferSize \in Nat \ {0, 1} /\ Modulus % BufferSize = 0
      /\ BufferSize \in Nat \ {0}
  BY VConstants
<1> DEFINE i == (c - p) % BufferSize
<1>1. c \in Int /\ c = BufferSize * 0 + c /\ c - p \in Int
  BY <1>0
<1>2. i \in 0..(BufferSize - 1)
  BY <1>1, <1>0, ModDef
<1>3. (i + p) % BufferSize = ((c - p) + p) % BufferSize
  BY <1>1, <1>0, ModAdd
<1>4. (c - p) + p = c /\ i + p = p + i
  BY <1>1, <1>2
<1>5. c % BufferSize = c
  BY <1>1, <1>0, ModIs
<1> QED BY <1>2, <1>3, <1>4, <1>5, CellIs

\* The signed difference of two words is that of the positions, if they are less than half of
\* Modulus apart.
LEMMA DifIs ==
  ASSUME V!Constants, NEW p \in Int, NEW k \in Int, NEW j \in Int,
         (k - j) + (k - j) < Modulus, -Modulus <= (k - j) + (k - j)
  PROVE  V!Dif(V!Plus(p, k), p + j) = k - j
<1>0. /\ Modulus \in Nat \ {0} /\ BufferSize \in Nat \ {0, 1} /\ Modulus % BufferSize = 0
      /\ BufferSize \in Nat \ {0}
  BY VConstants
<1> DEFINE d == (V!Plus(p, k) - (p + j)) % Modulus
<1>1. d = (k - j) % Modulus
  <2>1. (((p + k) % Modulus) + (-(p + j))) % Modulus = ((p + k) + (-(p + j))) % Modulus
    <3> DEFINE x == p + k
               y == -(p + j)
    <3>1. x \in Int /\ y \in Int
      OBVIOUS
    <3> HIDE DEF x, y
    <3>2. ((x % Modulus) + y) % Modulus = (x + y) % Modulus
      BY <1>0, <3>1, ModAdd
    <3> QED BY <3>2 DEF x, y
  <2>2. (p + k) % Modulus \in Int
    BY <1>0, ModDef
  <2>3. ((p + k) % Modulus) + (-(p + j)) = ((p + k) % Modulus) - (p + j) /\ (p + k) + (-(p + j)) = k - j
    BY <2>2
  <2> QED BY <2>1, <2>3 DEF V!Plus
<1>2. CASE k - j >= 0
  <2>1. k - j \in 0..(Modulus - 1) /\ k - j = Modulus * 0 + (k - j)
    BY <1>2, <1>0
  <2>2. (k - j) % Modulus = k - j
    BY <2>1, <1>0, ModIs
  <2> QED BY <1>1, <2>2, <1>0, <1>2 DEF V!Dif
<1>3. CASE k - j < 0
  <2>1. (k - j) + Modulus \in 0..(Modulus - 1) /\ k - j = Modulus * (-1) + ((k - j) + Modulus)
    BY <1>3, <1>0
  <2>2. (k - j) % Modulus = (k - j) + Modulus
    BY <2>1, <1>0, ModIs
  <2> QED BY <1>1, <2>2, <1>0, <1>3 DEF V!Dif
<1> QED BY <1>2, <1>3

-----------------------------------------------------------------------------
(* Vyukov's queue: the invariant *)

\* The i-th position counted from the next to dequeue, and its cell
VAt(i) == V!Plus(posDequeue, i)
VSeq(i) == array[V!CellOf(VAt(i))].sequence
VData(i) == array[V!CellOf(VAt(i))].data
VSize == Len(items)

FillPC == {"e_write", "e_publish"}
EmptyPC == {"d_read", "d_release"}
Fills(t, i) == pc[t] \in FillPC /\ pos[t] = VAt(i)
Empties(t, i) == pc[t] \in EmptyPC /\ pos[t] = VAt(i - BufferSize)

\* The positions are as far apart as there are items.
VEnds == posEnqueue = VAt(VSize) /\ VSize <= BufferSize
\* A cell with an item has its turn, or is being filled; another waits for the next
\* lap, or is being emptied.
VCells ==
    \A i \in 0..(BufferSize - 1) :
        IF i < VSize THEN \/ VSeq(i) = VAt(i + 1) /\ VData(i) = items[i + 1]
                          \/ VSeq(i) = VAt(i) /\ \E t \in Thread : Fills(t, i)
                     ELSE \/ VSeq(i) = VAt(i)
                          \/ VSeq(i) = VAt(i + 1 - BufferSize) /\ \E t \in Thread : Empties(t, i)
\* A thread that has a position is alone with its cell, until it sets the sequence number.
VFilling(t) ==
    \E i \in 0..(VSize - 1) :
        /\ Fills(t, i) /\ VSeq(i) = VAt(i) /\ val[t] = items[i + 1]
        /\ pc[t] = "e_publish" => VData(i) = val[t]
VEmptying(t) ==
    \E i \in VSize..(BufferSize - 1) : Empties(t, i) /\ VSeq(i) = VAt(i + 1 - BufferSize)
VBusy ==
    \A t \in Thread : /\ pc[t] \in FillPC => VFilling(t)
                      /\ pc[t] \in EmptyPC => VEmptying(t)
\* A position that has been read is not left more than MaxLag behind.
VLag ==
    \A t \in Thread :
        /\ pc[t] \in {"e_seq", "e_cas"} => \E k \in 0..MaxLag : pos[t] = VAt(VSize - k)
        /\ pc[t] \in {"d_seq", "d_cas"} => \E k \in 0..MaxLag : pos[t] = VAt(-k)
\* If the compare-and-swap succeeds, the cell still is as its sequence number said.
VReady ==
    \A t \in Thread :
        /\ pc[t] = "e_cas" /\ pos[t] = posEnqueue => VSize < BufferSize /\ VSeq(VSize) = VAt(VSize)
        /\ pc[t] = "d_cas" /\ pos[t] = posDequeue => VSize > 0 /\ VSeq(0) = VAt(1)
\* saw is set from the moment on at which a call could be refused.
VSaw ==
    \A t \in Thread :
        /\ pc[t] \in V!EnqPC /\ V!Lacks("enq") => saw[t]
        /\ pc[t] \in V!DeqPC /\ V!Lacks("deq") => saw[t]
        /\ pc[t] = "refused" => saw[t]
\* An enqueue has its argument.
VArg == \A t \in Thread : pc[t] \in V!EnqPC \cup FillPC => val[t] \in Value
VState == VEnds /\ VCells /\ VBusy /\ V!NoRace
VInv == V!TypeOK /\ VArg /\ VState /\ VLag /\ VReady /\ VSaw

\* Positions less than Modulus apart differ, positions less than BufferSize apart have different cells.
LEMMA AtDiffer ==
  ASSUME V!Constants, V!TypeOK
  PROVE  /\ \A i \in Int : VAt(i) \in V!Pos /\ V!CellOf(VAt(i)) \in 0..(BufferSize - 1)
         /\ \A i, j \in Int : VAt(i) = VAt(j) /\ i - j < Modulus /\ j - i < Modulus => i = j
         /\ \A i, j \in Int : V!CellOf(VAt(i)) = V!CellOf(VAt(j)) /\ i - j < BufferSize /\ j - i < BufferSize => i = j
         /\ \A i \in Int : V!CellOf(VAt(i - BufferSize)) = V!CellOf(VAt(i))
         /\ VAt(0) = posDequeue
<1>1. posDequeue \in V!Pos /\ posDequeue \in Int /\ BufferSize \in Int
  BY VConstants DEF V!TypeOK, V!Pos
<1>2. ASSUME NEW i \in Int PROVE VAt(i) \in V!Pos /\ V!CellOf(VAt(i)) \in 0..(BufferSize - 1)
  BY <1>1, PlusType, CellIs DEF VAt
<1>3. ASSUME NEW i \in Int, NEW j \in Int, VAt(i) = VAt(j), i - j < Modulus, j - i < Modulus PROVE i = j
  BY <1>1, <1>3, PlusSame DEF VAt
<1>4. ASSUME NEW i \in Int, NEW j \in Int, V!CellOf(VAt(i)) = V!CellOf(VAt(j)), i - j < BufferSize, j - i < BufferSize
      PROVE i = j
  BY <1>1, <1>4, CellSame DEF VAt
<1>5. ASSUME NEW i \in Int PROVE V!CellOf(VAt(i - BufferSize)) = V!CellOf(VAt(i))
  <2> DEFINE j == i - BufferSize
  <2>1. j \in Int /\ j + BufferSize = i
    BY <1>1
  <2> HIDE DEF j
  <2>2. V!CellOf(V!Plus(posDequeue, j + BufferSize)) = V!CellOf(V!Plus(posDequeue, j))
    BY <1>1, <2>1, CellLap
  <2>3. V!CellOf(VAt(j)) = V!CellOf(VAt(i))
    BY <2>1, <2>2 DEF VAt
  <2> QED BY <2>3 DEF j
<1>6. VAt(0) = posDequeue
  BY <1>1, PlusZero DEF VAt
<1> QED BY <1>2, <1>3, <1>4, <1>5, <1>6

\* Distances between positions, as the code computes them
LEMMA AtDif ==
  ASSUME V!Constants, V!TypeOK, NEW a \in Int, NEW b \in Int, NEW j \in Int,
         (a - b - j) + (a - b - j) < Modulus, -Modulus <= (a - b - j) + (a - b - j)
  PROVE  V!Dif(VAt(a), VAt(b) + j) = a - b - j
<1>1. posDequeue \in Int
  BY VConstants DEF V!TypeOK, V!Pos
<1> DEFINE p == VAt(b)
           k == a - b
<1>2. p \in Int /\ k \in Int
  BY <1>1, PlusType, VConstants DEF VAt
<1>3. VAt(a) = V!Plus(p, k)
  <2>1. V!Plus(V!Plus(posDequeue, b), k) = V!Plus(posDequeue, b + k) /\ b + k = a
    BY <1>1, PlusPlus
  <2> QED BY <2>1 DEF VAt
<1>4. k - j = a - b - j
  OBVIOUS
<1> HIDE DEF p, k
<1>5. V!Dif(V!Plus(p, k), p + j) = k - j
  BY <1>2, <1>4, DifIs
<1> QED BY <1>3, <1>4, <1>5 DEF p

\* The cell of a position is at a position of the current lap, and its sequence number tells
\* in what state it is.
LEMMA SeqOf ==
  ASSUME V!Constants, V!TypeOK, VCells, NEW a \in Int
  PROVE  \E i \in 0..(BufferSize - 1) : \E m \in {i, i + 1, i + 1 - BufferSize} :
            /\ V!CellOf(VAt(i)) = V!CellOf(VAt(a))
            /\ array[V!CellOf(VAt(a))].sequence = VAt(m) /\ VSeq(i) = VAt(m)
            /\ m = i + 1 => i < VSize
            /\ m = i /\ i < VSize => \E t \in Thread : Fills(t, i)
            /\ m = i + 1 - BufferSize => i >= VSize /\ \E t \in Thread : Empties(t, i)
<1>1. posDequeue \in Int
  BY VConstants DEF V!TypeOK, V!Pos
<1>2. PICK i \in 0..(BufferSize - 1) : V!CellOf(V!Plus(posDequeue, i)) = V!CellOf(VAt(a))
  <2>1. V!CellOf(VAt(a)) \in 0..(BufferSize - 1)
    BY AtDiffer
  <2> QED BY <2>1, <1>1, CellReach
<1>3. i \in Int /\ VSize \in Nat /\ BufferSize \in Nat /\ BufferSize > 1
  BY VConstants DEF V!TypeOK, VSize
<1>4. V!CellOf(VAt(i)) = V!CellOf(VAt(a)) /\ array[V!CellOf(VAt(a))].sequence = VSeq(i)
  BY <1>2 DEF VAt, VSeq
<1>5. CASE i < VSize
  BY <1>3, <1>4, <1>5 DEF VCells
<1>6. CASE ~(i < VSize)
  BY <1>3, <1>4, <1>6 DEF VCells
<1> QED BY <1>5, <1>6

\* What an enqueue learns from the sequence number of its cell.
LEMMA EnqLook ==
  ASSUME V!Constants, V!TypeOK, VEnds, VCells, NEW t \in Thread,
         NEW k \in 0..MaxLag, pos[t] = VAt(VSize - k),
         NEW dif, dif = V!Dif(array[V!CellOf(pos[t])].sequence, pos[t])
  PROVE  /\ dif = 0 /\ pos[t] = posEnqueue => VSize < BufferSize /\ VSeq(VSize) = VAt(VSize)
         /\ dif < 0 => V!Lacks("enq")
<1> DEFINE n == VSize
<1>0. /\ n \in Nat /\ n <= BufferSize /\ BufferSize \in Nat /\ BufferSize > 1 /\ k \in Nat /\ k <= MaxLag /\ MaxLag \in Nat
      /\ Modulus \in Nat /\ MaxLag + MaxLag + BufferSize + BufferSize <= Modulus /\ n - k \in Int
  BY VConstants DEF V!TypeOK, VSize, VEnds
<1> HIDE DEF n
<1>1. PICK i \in 0..(BufferSize - 1) : \E m \in {i, i + 1, i + 1 - BufferSize} :
            /\ V!CellOf(VAt(i)) = V!CellOf(VAt(n - k))
            /\ array[V!CellOf(VAt(n - k))].sequence = VAt(m) /\ VSeq(i) = VAt(m)
            /\ m = i + 1 => i < VSize
            /\ m = i /\ i < VSize => \E u \in Thread : Fills(u, i)
            /\ m = i + 1 - BufferSize => i >= VSize /\ \E u \in Thread : Empties(u, i)
  BY <1>0, SeqOf
<1>2. PICK m \in {i, i + 1, i + 1 - BufferSize} :
            /\ V!CellOf(VAt(i)) = V!CellOf(VAt(n - k))
            /\ array[V!CellOf(VAt(n - k))].sequence = VAt(m) /\ VSeq(i) = VAt(m)
            /\ m = i + 1 => i < n
            /\ m = i + 1 - BufferSize => i >= n /\ \E u \in Thread : Empties(u, i)
  BY <1>1 DEF n
<1>3. i \in Nat /\ i < BufferSize /\ m \in Int
  BY <1>0
<1>4. dif = m - (n - k)
  <2>1. V!Dif(VAt(m), VAt(n - k) + 0) = m - (n - k) - 0
    <3>1. /\ (m - (n - k) - 0) + (m - (n - k) - 0) < Modulus
          /\ -Modulus <= (m - (n - k) - 0) + (m - (n - k) - 0)
      BY <1>0, <1>2, <1>3
    <3> QED BY <3>1, <1>0, <1>3, AtDif
  <2>2. VAt(n - k) + 0 = VAt(n - k)
    BY <1>0, AtDiffer, VConstants DEF V!Pos
  <2> QED BY <1>0, <1>2, <1>3, <2>1, <2>2 DEF n
<1>5. i - (n - k) < BufferSize /\ (n - k) - i < BufferSize => i = n - k
  BY <1>0, <1>2, <1>3, AtDiffer
<1>6. pos[t] = posEnqueue => k = 0
  <2>1. VAt(n - k) = VAt(n) /\ n - (n - k) < Modulus /\ (n - k) - n < Modulus => n - k = n
    BY <1>0, AtDiffer
  <2> QED BY <2>1, <1>0 DEF VEnds, n
<1>7. ASSUME dif = 0, pos[t] = posEnqueue PROVE n < BufferSize /\ VSeq(n) = VAt(n)
  <2>1. k = 0 /\ m = n
    BY <1>0, <1>3, <1>4, <1>6, <1>7
  <2>2. i = n /\ m = i
    BY <2>1, <1>0, <1>2, <1>3, <1>5
  <2> QED BY <2>2, <1>2, <1>3
<1>8. ASSUME dif < 0 PROVE V!Lacks("enq")
  <2>1. CASE n = BufferSize
    BY <2>1 DEF V!Lacks, n, VSize
  <2>2. CASE n < BufferSize
    <3>1. k = 0 /\ i = n /\ m = i + 1 - BufferSize
      BY <2>2, <1>0, <1>2, <1>3, <1>4, <1>5, <1>8
    <3>2. PICK u \in Thread : Empties(u, i)
      BY <3>1, <1>2
    <3>3. V!CellOf(pos[u]) = V!CellOf(posEnqueue) /\ pc[u] \in {"d_read", "d_release"}
      BY <3>1, <3>2, <1>0, <1>3, AtDiffer DEF Empties, VEnds, EmptyPC, n
    <3> QED BY <3>3 DEF V!Lacks
  <2> QED BY <2>1, <2>2, <1>0
<1> QED BY <1>7, <1>8 DEF n

\* What a dequeue learns from the sequence number of its cell.
LEMMA DeqLook ==
  ASSUME V!Constants, V!TypeOK, VEnds, VCells, NEW t \in Thread,
         NEW k \in 0..MaxLag, pos[t] = VAt(-k),
         NEW dif, dif = V!Dif(array[V!CellOf(pos[t])].sequence, V!Ready(pos[t]))
  PROVE  /\ dif = 0 /\ pos[t] = posDequeue => VSize > 0 /\ VSeq(0) = VAt(1)
         /\ dif < 0 => V!Lacks("deq")
<1> DEFINE n == VSize
<1>0. /\ n \in Nat /\ n <= BufferSize /\ BufferSize \in Nat /\ BufferSize > 1 /\ k \in Nat /\ k <= MaxLag /\ MaxLag \in Nat
      /\ Modulus \in Nat /\ MaxLag + MaxLag + BufferSize + BufferSize <= Modulus /\ -k \in Int
  BY VConstants DEF V!TypeOK, VSize, VEnds
<1> HIDE DEF n
<1>1. PICK i \in 0..(BufferSize - 1) : \E m \in {i, i + 1, i + 1 - BufferSize} :
            /\ V!CellOf(VAt(i)) = V!CellOf(VAt(-k))
            /\ array[V!CellOf(VAt(-k))].sequence = VAt(m) /\ VSeq(i) = VAt(m)
            /\ m = i + 1 => i < VSize
            /\ m = i /\ i < VSize => \E u \in Thread : Fills(u, i)
            /\ m = i + 1 - BufferSize => i >= VSize /\ \E u \in Thread : Empties(u, i)
  BY <1>0, SeqOf
<1>2. PICK m \in {i, i + 1, i + 1 - BufferSize} :
            /\ V!CellOf(VAt(i)) = V!CellOf(VAt(-k))
            /\ array[V!CellOf(VAt(-k))].sequence = VAt(m) /\ VSeq(i) = VAt(m)
            /\ m = i + 1 => i < n
            /\ m = i /\ i < n => \E u \in Thread : Fills(u, i)
            /\ m = i + 1 - BufferSize => i >= n
  BY <1>1 DEF n
<1>3. i \in Nat /\ i < BufferSize /\ m \in Int
  BY <1>0
<1>4. dif = m + k - 1
  <2>1. V!Dif(VAt(m), VAt(-k) + 1) = m - (-k) - 1
    <3>1. /\ (m - (-k) - 1) + (m - (-k) - 1) < Modulus
          /\ -Modulus <= (m - (-k) - 1) + (m - (-k) - 1)
      BY <1>0, <1>2, <1>3
    <3> QED BY <3>1, <1>0, <1>3, AtDif
  <2> QED BY <1>0, <1>2, <1>3, <2>1 DEF V!Ready
<1>5. i - (-k) < BufferSize /\ (-k) - i < BufferSize => i = -k
  BY <1>0, <1>2, <1>3, AtDiffer
<1>6. pos[t] = posDequeue => k = 0
  <2>1. VAt(-k) = VAt(0) /\ 0 - (-k) < Modulus /\ (-k) - 0 < Modulus => -k = 0
    BY <1>0, AtDiffer
  <2> QED BY <2>1, <1>0, AtDiffer
<1>7. ASSUME dif = 0, pos[t] = posDequeue PROVE n > 0 /\ VSeq(0) = VAt(1)
  <2>1. k = 0 /\ m = 1
    BY <1>0, <1>3, <1>4, <1>6, <1>7
  <2>2. i = 0 /\ m = i + 1
    BY <2>1, <1>0, <1>2, <1>3, <1>5
  <2> QED BY <2>2, <1>0, <1>2, <1>3
<1>8. ASSUME dif < 0 PROVE V!Lacks("deq")
  <2>1. k = 0 /\ i = 0
    BY <1>0, <1>2, <1>3, <1>4, <1>5, <1>8
  <2>2. CASE n = 0
    BY <2>2, EmptySeq DEF V!Lacks, n, VSize, V!TypeOK
  <2>3. CASE n > 0
    <3>1. PICK u \in Thread : Fills(u, 0)
      BY <2>1, <2>3, <1>0, <1>2, <1>3, <1>4, <1>8
    <3>2. pos[u] = posDequeue /\ pc[u] \in {"e_write", "e_publish"}
      BY <3>1, AtDiffer DEF Fills, FillPC
    <3> QED BY <3>2 DEF V!Lacks
  <2> QED BY <2>2, <2>3, <1>0
<1> QED BY <1>7, <1>8 DEF n

-----------------------------------------------------------------------------
(* Vyukov's queue: every step keeps the invariant *)

\* A step of a call keeps the types; no index leaves the array.
LEMMA VTypeStep ==
  ASSUME V!Constants, V!TypeOK, VArg, NEW t \in Thread, V!Step(t), V!Watch
  PROVE  V!TypeOK' /\ VArg'
<1>0. /\ BufferSize \in Nat \ {0, 1} /\ Modulus \in Nat \ {0} /\ posEnqueue \in Int /\ posDequeue \in Int
      /\ pos \in [Thread -> V!Pos] /\ \A u \in Thread : pos[u] \in Int
  BY VConstants DEF V!TypeOK, V!Pos
<1>1. saw' \in [Thread -> BOOLEAN]
  BY DEF V!Watch
<1>2. /\ V!Plus(posEnqueue, 1) \in V!Pos /\ V!Plus(posDequeue, 1) \in V!Pos
      /\ V!Plus(pos[t], 1) \in V!Pos /\ V!NextLap(pos[t]) \in V!Pos
  <2>1. \A p \in Int, i \in Int : V!Plus(p, i) \in V!Pos
    BY PlusType
  <2> QED BY <1>0, <2>1 DEF V!NextLap
<1>3. V!CellOf(pos[t]) \in 0..(BufferSize - 1)
  BY <1>0, ModDef DEF V!CellOf
<1>4. /\ array[V!CellOf(pos[t])].data \in Value \cup {None}
      /\ \A q \in V!Pos : [array EXCEPT ![V!CellOf(pos[t])].sequence = q]
            \in [0..(BufferSize - 1) -> [sequence : V!Pos, data : Value \cup {None}]]
      /\ \A v \in Value \cup {None} : [array EXCEPT ![V!CellOf(pos[t])].data = v]
            \in [0..(BufferSize - 1) -> [sequence : V!Pos, data : Value \cup {None}]]
  BY <1>3 DEF V!TypeOK
<1> USE DEF V!TypeOK, VArg, FillPC, V!Goto, V!EnqPC, V!DeqPC, V!DonePC, V!Turn
<1>5. CASE \E v \in Value : V!Enqueue(t, v)
  BY <1>1, <1>5 DEF V!Enqueue
<1>6. CASE V!EnqLoad(t)
  BY <1>1, <1>6 DEF V!EnqLoad
<1>7. CASE V!EnqSeq(t)
  BY <1>1, <1>7 DEF V!EnqSeq
<1>8. CASE V!EnqCas(t)
  <2>1. CASE posEnqueue = pos[t]
    <3>1. Append(items, val[t]) \in Seq(Value)
      BY <1>8 DEF V!EnqCas
    <3> QED BY <1>1, <1>2, <1>8, <2>1, <3>1 DEF V!EnqCas
  <2>2. CASE posEnqueue # pos[t]
    BY <1>1, <1>8, <2>2 DEF V!EnqCas
  <2> QED BY <2>1, <2>2
<1>9. CASE V!EnqWrite(t)
  BY <1>1, <1>4, <1>9 DEF V!EnqWrite
<1>10. CASE V!EnqPublish(t)
  BY <1>1, <1>2, <1>4, <1>10 DEF V!EnqPublish
<1>11. CASE V!Dequeue(t)
  BY <1>1, <1>11 DEF V!Dequeue
<1>12. CASE V!DeqLoad(t)
  BY <1>1, <1>12 DEF V!DeqLoad
<1>13. CASE V!DeqSeq(t)
  BY <1>1, <1>13 DEF V!DeqSeq
<1>14. CASE V!DeqCas(t)
  <2>1. CASE posDequeue = pos[t]
    <3>1. SubSeq(items, 2, Len(items)) \in Seq(Value)
      OBVIOUS
    <3> QED BY <1>1, <1>2, <1>14, <2>1, <3>1 DEF V!DeqCas
  <2>2. CASE posDequeue # pos[t]
    BY <1>1, <1>14, <2>2 DEF V!DeqCas
  <2> QED BY <2>1, <2>2
<1>15. CASE V!DeqRead(t)
  BY <1>1, <1>4, <1>15 DEF V!DeqRead
<1>16. CASE V!DeqRelease(t)
  BY <1>1, <1>2, <1>4, <1>16 DEF V!DeqRelease
<1>17. CASE V!Leave(t)
  <2>1. 0 \in V!Pos
    BY <1>0 DEF V!Pos
  <2> QED BY <1>1, <1>17, <2>1 DEF V!Leave
<1> QED
  BY <1>5, <1>6, <1>7, <1>8, <1>9, <1>10, <1>11, <1>12, <1>13, <1>14, <1>15, <1>16, <1>17 DEF V!Step

\* A step that leaves array, positions and items, and the thread's hold on a cell, as they are
LEMMA VQuiet ==
  ASSUME VState, NEW t \in Thread, UNCHANGED <<array, posEnqueue, posDequeue, items>>,
         \A u \in Thread \ {t} : pc'[u] = pc[u] /\ pos'[u] = pos[u] /\ val'[u] = val[u],
         \/ pc[t] \notin FillPC \cup EmptyPC /\ pc'[t] \notin FillPC \cup EmptyPC
         \/ pc[t] = "d_read" /\ pc'[t] = "d_release" /\ pos'[t] = pos[t]
  PROVE  VState'
<1> USE DEF VAt, VSeq, VData, VSize, FillPC, EmptyPC, Fills, Empties
<1>1. VEnds'
  BY DEF VState, VEnds
<1>2. VCells'
  BY DEF VState, VCells
<1>3. VBusy'
  BY DEF VState, VBusy, VFilling, VEmptying
<1>4. V!NoRace'
  BY DEF VState, V!NoRace
<1> QED BY <1>1, <1>2, <1>3, <1>4 DEF VState

\* An enqueue that gets its position: the cell becomes one that it is filling.
LEMMA VTakesEnq ==
  ASSUME V!Constants, VInv, NEW t \in Thread, V!EnqCas(t), posEnqueue = pos[t]
  PROVE  VState'
<1> DEFINE n == VSize
           v == val[t]
<1>0. /\ n \in Nat /\ n < BufferSize /\ BufferSize \in Nat /\ BufferSize > 1 /\ Modulus \in Nat
      /\ BufferSize + BufferSize < Modulus /\ v \in Value /\ items \in Seq(Value)
      /\ pos[t] = VAt(n) /\ VSeq(n) = VAt(n) /\ pc[t] = "e_cas"
  BY VConstants DEF VInv, VState, VEnds, VReady, V!EnqCas, V!TypeOK, VSize, VArg, V!EnqPC
<1>1. /\ posEnqueue' = V!Plus(posEnqueue, 1) /\ posDequeue' = posDequeue /\ array' = array
      /\ pos' = pos /\ val' = val /\ items' = Append(items, v)
      /\ \A u \in Thread : pc'[u] = IF u = t THEN "e_write" ELSE pc[u]
  BY DEF V!EnqCas, V!Goto, VInv, V!TypeOK
<1>2. /\ Len(items') = n + 1
      /\ \A i \in 1..n : items'[i] = items[i]
      /\ items'[n + 1] = v
  BY <1>0, <1>1 DEF VSize
<1>3. V!Plus(posEnqueue, 1) = VAt(n + 1)
  <2>1. posDequeue \in Int
    BY VConstants DEF VInv, V!TypeOK, V!Pos
  <2>2. V!Plus(V!Plus(posDequeue, n), 1) = V!Plus(posDequeue, n + 1)
    BY <1>0, <2>1, PlusPlus
  <2> QED BY <2>2, <1>0 DEF VAt, VEnds, VInv, VState
<1>4. \A i \in Int : VSeq(i)' = VSeq(i) /\ VData(i)' = VData(i) /\ VAt(i)' = VAt(i)
  BY <1>1 DEF VSeq, VData, VAt
<1>5. VEnds'
  BY <1>0, <1>1, <1>2, <1>3 DEF VEnds, VSize, VAt
<1>a. \A i, j \in Int : VAt(i) = VAt(j) /\ i - j < Modulus /\ j - i < Modulus => i = j
  BY AtDiffer DEF VInv
\* Nobody else has the cell.
<1>6. ASSUME NEW u \in Thread, pc[u] \in FillPC \cup EmptyPC PROVE V!CellOf(pos[u]) # V!CellOf(pos[t])
  <2>1. CASE pc[u] \in FillPC
    <3>1. PICK i \in 0..(n - 1) : Fills(u, i)
      BY <2>1 DEF VInv, VState, VBusy, VFilling
    <3>2. V!CellOf(VAt(i)) = V!CellOf(VAt(n)) /\ i - n < BufferSize /\ n - i < BufferSize => i = n
      BY <1>0, AtDiffer DEF VInv
    <3> QED BY <1>0, <3>1, <3>2 DEF Fills
  <2>2. CASE pc[u] \in EmptyPC
    <3>1. PICK i \in n..(BufferSize - 1) : Empties(u, i) /\ VSeq(i) = VAt(i + 1 - BufferSize)
      BY <2>2 DEF VInv, VState, VBusy, VEmptying
    <3>2. V!CellOf(VAt(i - BufferSize)) = V!CellOf(VAt(i)) /\ i \in Int
      BY <1>0, AtDiffer DEF VInv
    <3>3. CASE i # n
      <4>1. V!CellOf(VAt(i)) = V!CellOf(VAt(n)) /\ i - n < BufferSize /\ n - i < BufferSize => i = n
        BY <1>0, <3>2, AtDiffer DEF VInv
      <4> QED BY <1>0, <3>1, <3>2, <3>3, <4>1 DEF Empties
    <3>4. CASE i = n
      <4>1. VAt(n + 1 - BufferSize) = VAt(n)
        BY <1>0, <3>1, <3>4
      <4>2. n + 1 - BufferSize \in Int /\ n + 1 - BufferSize - n < Modulus /\ n - (n + 1 - BufferSize) < Modulus
        BY <1>0
      <4>3. n + 1 - BufferSize = n
        BY <1>0, <1>a, <4>1, <4>2
      <4> QED BY <4>3, <1>0
    <3> QED BY <3>3, <3>4
  <2> QED BY <1>6, <2>1, <2>2
<1>7. V!NoRace'
  BY <1>1, <1>6 DEF V!NoRace, VInv, VState, FillPC, EmptyPC
<1>8. VBusy'
  <2> SUFFICES ASSUME NEW u \in Thread
               PROVE  (pc'[u] \in FillPC => VFilling(u)') /\ (pc'[u] \in EmptyPC => VEmptying(u)')
    BY DEF VBusy
  <2>1. CASE u = t
    BY <2>1, <1>0, <1>1, <1>2, <1>4 DEF VFilling, Fills, FillPC, EmptyPC, VSize, VAt
  <2>2. CASE u # t
    <3>1. ASSUME pc[u] \in FillPC PROVE VFilling(u)'
      <4>1. PICK i \in 0..(n - 1) : /\ Fills(u, i) /\ VSeq(i) = VAt(i) /\ val[u] = items[i + 1]
                                    /\ pc[u] = "e_publish" => VData(i) = val[u]
        BY <3>1 DEF VInv, VState, VBusy, VFilling
      <4>2. i \in 0..(Len(items') - 1) /\ items'[i + 1] = items[i + 1]
        BY <1>0, <1>2
      <4> QED BY <4>1, <4>2, <2>2, <1>1 DEF VFilling, Fills, VSeq, VData, VAt, VSize
    <3>2. ASSUME pc[u] \in EmptyPC PROVE VEmptying(u)'
      <4>1. PICK i \in n..(BufferSize - 1) : Empties(u, i) /\ VSeq(i) = VAt(i + 1 - BufferSize)
        BY <3>2 DEF VInv, VState, VBusy, VEmptying
      <4>2. i # n
        <5>1. V!CellOf(pos[u]) = V!CellOf(VAt(i))
          BY <4>1, <1>0, AtDiffer DEF Empties, VInv
        <5> QED BY <5>1, <1>0, <1>6, <3>2
      <4>3. i \in Len(items')..(BufferSize - 1)
        BY <4>2, <1>0, <1>2
      <4> QED BY <4>1, <4>3, <2>2, <1>1 DEF VEmptying, Empties, VSeq, VAt, VSize
    <3> QED BY <3>1, <3>2, <2>2, <1>1
  <2> QED BY <2>1, <2>2
<1>9. VCells'
  <2> SUFFICES ASSUME NEW i \in 0..(BufferSize - 1)
               PROVE  IF i < VSize' THEN \/ VSeq(i)' = VAt(i + 1)' /\ VData(i)' = items'[i + 1]
                                         \/ VSeq(i)' = VAt(i)' /\ \E u \in Thread : Fills(u, i)'
                                    ELSE \/ VSeq(i)' = VAt(i)'
                                         \/ VSeq(i)' = VAt(i + 1 - BufferSize)' /\ \E u \in Thread : Empties(u, i)'
    BY DEF VCells
  <2>1. /\ IF i < n THEN \/ VSeq(i) = VAt(i + 1) /\ VData(i) = items[i + 1]
                         \/ VSeq(i) = VAt(i) /\ \E u \in Thread : Fills(u, i)
                    ELSE \/ VSeq(i) = VAt(i)
                         \/ VSeq(i) = VAt(i + 1 - BufferSize) /\ \E u \in Thread : Empties(u, i)
        /\ i \in Nat
    BY DEF VInv, VState, VCells
  <2>2. CASE i < n
    <3>1. i < VSize' /\ items'[i + 1] = items[i + 1]
      BY <2>1, <2>2, <1>0, <1>2 DEF VSize
    <3>2. \A u \in Thread : Fills(u, i) => Fills(u, i)'
      BY <1>0, <1>1 DEF Fills, FillPC, VAt
    <3> QED BY <2>1, <2>2, <3>1, <3>2, <1>1 DEF VSeq, VAt, VData
  <2>3. CASE i = n
    <3>1. i < VSize'
      BY <2>3, <1>0, <1>2 DEF VSize
    <3>2. Fills(t, i)'
      BY <2>3, <1>0, <1>1 DEF Fills, FillPC, VAt
    <3> QED BY <2>3, <3>1, <3>2, <1>0, <1>1 DEF VSeq, VAt
  <2>4. CASE i > n
    <3>1. ~(i < VSize')
      BY <2>1, <2>4, <1>0, <1>2 DEF VSize
    <3>2. \A u \in Thread : Empties(u, i) => Empties(u, i)'
      BY <1>0, <1>1 DEF Empties, EmptyPC, VAt
    <3> QED BY <2>1, <2>4, <3>1, <3>2, <1>0, <1>1 DEF VSeq, VAt
  <2> QED BY <2>1, <2>2, <2>3, <2>4, <1>0
<1> QED BY <1>5, <1>7, <1>8, <1>9 DEF VState

\* A step on the cell of a thread that has a position leaves the other cells alone.
LEMMA OtherCells ==
  ASSUME V!Constants, VInv, NEW t \in Thread, pc[t] \in FillPC \cup EmptyPC,
         NEW i \in 0..(BufferSize - 1), V!CellOf(pos[t]) = V!CellOf(VAt(i))
  PROVE  /\ \A j \in 0..(BufferSize - 1) : j # i => V!CellOf(VAt(j)) # V!CellOf(pos[t])
         /\ \A u \in Thread \ {t} : pc[u] \in FillPC \cup EmptyPC => V!CellOf(pos[u]) # V!CellOf(pos[t])
<1>1. ASSUME NEW j \in 0..(BufferSize - 1), V!CellOf(VAt(j)) = V!CellOf(VAt(i)) PROVE j = i
  <2>1. i \in Int /\ j \in Int /\ i - j < BufferSize /\ j - i < BufferSize
    BY VConstants
  <2> QED BY <1>1, <2>1, AtDiffer DEF VInv
<1> QED BY <1>1 DEF VInv, VState, V!NoRace, FillPC, EmptyPC

\* The data is written, or the sequence number set: the cell has its item.
LEMMA VFills ==
  ASSUME V!Constants, VInv, NEW t \in Thread, V!EnqWrite(t) \/ V!EnqPublish(t)
  PROVE  VState'
<1>0. /\ VSize \in Nat /\ VSize <= BufferSize /\ BufferSize \in Nat /\ pc[t] \in FillPC
      /\ array \in [0..(BufferSize - 1) -> [sequence : V!Pos, data : Value \cup {None}]]
      /\ pc[t] = "e_write" <=> V!EnqWrite(t)
  BY VConstants DEF VInv, VState, VEnds, V!EnqWrite, V!EnqPublish, V!TypeOK, VSize, FillPC
<1>1. /\ posEnqueue' = posEnqueue /\ posDequeue' = posDequeue
      /\ pos' = pos /\ val' = val /\ items' = items
      /\ \A u \in Thread : u # t => pc'[u] = pc[u]
      /\ pc'[t] = IF pc[t] = "e_write" THEN "e_publish" ELSE "done"
  BY DEF V!EnqWrite, V!EnqPublish, V!Goto, VInv, V!TypeOK
<1>2. PICK i \in 0..(VSize - 1) : /\ Fills(t, i) /\ VSeq(i) = VAt(i) /\ val[t] = items[i + 1]
                                  /\ pc[t] = "e_publish" => VData(i) = val[t]
  BY <1>0 DEF VInv, VState, VBusy, VFilling
<1>3. i \in 0..(BufferSize - 1) /\ i < VSize /\ i \in Nat /\ pos[t] = VAt(i)
  BY <1>0, <1>2 DEF Fills
<1>4. /\ \A j \in 0..(BufferSize - 1) : j # i => V!CellOf(VAt(j)) # V!CellOf(pos[t])
      /\ \A u \in Thread \ {t} : pc[u] \in FillPC \cup EmptyPC => V!CellOf(pos[u]) # V!CellOf(pos[t])
  BY <1>0, <1>3, OtherCells
<1>5. V!CellOf(pos[t]) \in 0..(BufferSize - 1)
  BY <1>3, AtDiffer DEF VInv
<1>6. /\ \A j \in Int : VAt(j)' = VAt(j)
      /\ \A j \in 0..(BufferSize - 1) : j # i => VSeq(j)' = VSeq(j) /\ VData(j)' = VData(j)
      /\ VSize' = VSize
  <2>1. VSize' = VSize /\ \A j \in Int : VAt(j)' = VAt(j)
    BY <1>1 DEF VSize, VAt
  <2>2. \A c \in 0..(BufferSize - 1) : c # V!CellOf(pos[t]) => array'[c] = array[c]
    BY <1>0, <1>5 DEF V!EnqWrite, V!EnqPublish
  <2>3. \A j \in 0..(BufferSize - 1) : j \in Int /\ V!CellOf(VAt(j)) \in 0..(BufferSize - 1)
    <3>1. \A j \in Int : V!CellOf(VAt(j)) \in 0..(BufferSize - 1)
      BY AtDiffer DEF VInv
    <3> QED BY <3>1, <1>0
  <2>4. ASSUME NEW j \in 0..(BufferSize - 1), j # i PROVE VSeq(j)' = VSeq(j) /\ VData(j)' = VData(j)
    BY <1>1, <1>4, <2>2, <2>3, <2>4 DEF VSeq, VData, VAt
  <2> QED BY <2>1, <2>4
<1>7. /\ pc[t] = "e_write" => VSeq(i)' = VAt(i) /\ VData(i)' = val[t]
      /\ pc[t] = "e_publish" => VSeq(i)' = VAt(i + 1) /\ VData(i)' = val[t]
  <2>1. CASE pc[t] = "e_write"
    BY <2>1, <1>0, <1>1, <1>2, <1>3, <1>5 DEF VSeq, VData, VAt, V!EnqWrite
  <2>2. CASE pc[t] = "e_publish"
    <3>1. V!Plus(pos[t], 1) = VAt(i + 1)
      <4>1. posDequeue \in Int
        BY VConstants DEF VInv, V!TypeOK, V!Pos
      <4> QED BY <4>1, <1>3, PlusPlus DEF VAt
    <3>2. V!EnqPublish(t)
      BY <1>0, <2>2
    <3> QED BY <2>2, <3>1, <3>2, <1>1, <1>2, <1>3, <1>5, <1>0 DEF VSeq, VData, VAt, V!EnqPublish
  <2> QED BY <2>1, <2>2
<1>8. VEnds'
  BY <1>1 DEF VInv, VState, VEnds, VAt, VSize
<1>9. V!NoRace'
  BY <1>0, <1>1 DEF V!NoRace, VInv, VState, FillPC, EmptyPC
<1>10. VBusy'
  <2> SUFFICES ASSUME NEW u \in Thread
               PROVE  (pc'[u] \in FillPC => VFilling(u)') /\ (pc'[u] \in EmptyPC => VEmptying(u)')
    BY DEF VBusy
  <2>1. CASE u = t
    BY <2>1, <1>0, <1>1, <1>2, <1>3, <1>6, <1>7 DEF VFilling, Fills, FillPC, EmptyPC
  <2>2. CASE u # t
    <3>1. ASSUME pc[u] \in FillPC PROVE VFilling(u)'
      <4>1. PICK j \in 0..(VSize - 1) : /\ Fills(u, j) /\ VSeq(j) = VAt(j) /\ val[u] = items[j + 1]
                                        /\ pc[u] = "e_publish" => VData(j) = val[u]
        BY <3>1 DEF VInv, VState, VBusy, VFilling
      <4>2. j # i /\ j \in 0..(BufferSize - 1)
        BY <4>1, <2>2, <3>1, <1>0, <1>3, <1>4 DEF Fills
      <4> QED BY <4>1, <4>2, <2>2, <1>1, <1>6 DEF VFilling, Fills
    <3>2. ASSUME pc[u] \in EmptyPC PROVE VEmptying(u)'
      <4>1. PICK j \in VSize..(BufferSize - 1) : Empties(u, j) /\ VSeq(j) = VAt(j + 1 - BufferSize)
        BY <3>2 DEF VInv, VState, VBusy, VEmptying
      <4>2. j # i /\ j \in 0..(BufferSize - 1)
        BY <4>1, <1>0, <1>3
      <4> QED BY <4>1, <4>2, <2>2, <1>0, <1>1, <1>6 DEF VEmptying, Empties
    <3> QED BY <3>1, <3>2, <2>2, <1>1
  <2> QED BY <2>1, <2>2
<1>11. VCells'
  <2> SUFFICES ASSUME NEW j \in 0..(BufferSize - 1)
               PROVE  IF j < VSize' THEN \/ VSeq(j)' = VAt(j + 1)' /\ VData(j)' = items'[j + 1]
                                         \/ VSeq(j)' = VAt(j)' /\ \E u \in Thread : Fills(u, j)'
                                    ELSE \/ VSeq(j)' = VAt(j)'
                                         \/ VSeq(j)' = VAt(j + 1 - BufferSize)' /\ \E u \in Thread : Empties(u, j)'
    BY DEF VCells
  <2>1. CASE j = i
    BY <2>1, <1>0, <1>1, <1>2, <1>3, <1>6, <1>7 DEF Fills, FillPC
  <2>2. CASE j # i
    <3>1. \A u \in Thread : Fills(u, j) => Fills(u, j)'
      <4>1. \A u \in Thread : Fills(u, j) => u # t
        BY <1>3, <1>4, <2>2 DEF Fills
      <4> QED BY <4>1, <1>0, <1>1, <1>6 DEF Fills
    <3>2. \A u \in Thread : Empties(u, j) => Empties(u, j)'
      BY <1>0, <1>1, <1>6 DEF Empties, EmptyPC, FillPC
    <3>3. IF j < VSize THEN \/ VSeq(j) = VAt(j + 1) /\ VData(j) = items[j + 1]
                            \/ VSeq(j) = VAt(j) /\ \E u \in Thread : Fills(u, j)
                       ELSE \/ VSeq(j) = VAt(j)
                            \/ VSeq(j) = VAt(j + 1 - BufferSize) /\ \E u \in Thread : Empties(u, j)
      BY DEF VInv, VState, VCells
    <3> QED BY <2>2, <3>1, <3>2, <3>3, <1>0, <1>1, <1>6
  <2> QED BY <2>1, <2>2
<1> QED BY <1>8, <1>9, <1>10, <1>11 DEF VState

\* The sequence number is set after the data was taken: the cell waits for the next lap.
LEMMA VReleases ==
  ASSUME V!Constants, VInv, NEW t \in Thread, V!DeqRelease(t)
  PROVE  VState'
<1>0. /\ VSize \in Nat /\ VSize <= BufferSize /\ BufferSize \in Nat /\ pc[t] = "d_release" /\ pc[t] \in EmptyPC
      /\ array \in [0..(BufferSize - 1) -> [sequence : V!Pos, data : Value \cup {None}]]
  BY VConstants DEF VInv, VState, VEnds, V!DeqRelease, V!TypeOK, VSize, EmptyPC
<1>1. /\ posEnqueue' = posEnqueue /\ posDequeue' = posDequeue
      /\ pos' = pos /\ val' = val /\ items' = items
      /\ \A u \in Thread : u # t => pc'[u] = pc[u]
      /\ pc'[t] = "done"
  BY DEF V!DeqRelease, V!Goto, VInv, V!TypeOK
<1>2. PICK i \in VSize..(BufferSize - 1) : Empties(t, i) /\ VSeq(i) = VAt(i + 1 - BufferSize)
  BY <1>0 DEF VInv, VState, VBusy, VEmptying
<1>3. i \in 0..(BufferSize - 1) /\ i >= VSize /\ i \in Nat /\ pos[t] = VAt(i - BufferSize) /\ V!CellOf(pos[t]) = V!CellOf(VAt(i))
  <2>1. i \in 0..(BufferSize - 1) /\ i >= VSize /\ i \in Nat /\ pos[t] = VAt(i - BufferSize)
    BY <1>0, <1>2 DEF Empties
  <2> QED BY <2>1, AtDiffer DEF VInv
<1>4. /\ \A j \in 0..(BufferSize - 1) : j # i => V!CellOf(VAt(j)) # V!CellOf(pos[t])
      /\ \A u \in Thread \ {t} : pc[u] \in FillPC \cup EmptyPC => V!CellOf(pos[u]) # V!CellOf(pos[t])
  BY <1>0, <1>3, OtherCells
<1>5. V!CellOf(pos[t]) \in 0..(BufferSize - 1)
  BY <1>3, AtDiffer DEF VInv
<1>6. /\ \A j \in Int : VAt(j)' = VAt(j)
      /\ \A j \in 0..(BufferSize - 1) : j # i => VSeq(j)' = VSeq(j) /\ VData(j)' = VData(j)
      /\ VSize' = VSize
  <2>1. VSize' = VSize /\ \A j \in Int : VAt(j)' = VAt(j)
    BY <1>1 DEF VSize, VAt
  <2>2. \A c \in 0..(BufferSize - 1) : c # V!CellOf(pos[t]) => array'[c] = array[c]
    BY <1>0, <1>5 DEF V!DeqRelease
  <2>3. \A j \in 0..(BufferSize - 1) : j \in Int /\ V!CellOf(VAt(j)) \in 0..(BufferSize - 1)
    <3>1. \A j \in Int : V!CellOf(VAt(j)) \in 0..(BufferSize - 1)
      BY AtDiffer DEF VInv
    <3> QED BY <3>1, <1>0
  <2>4. ASSUME NEW j \in 0..(BufferSize - 1), j # i PROVE VSeq(j)' = VSeq(j) /\ VData(j)' = VData(j)
    BY <1>1, <1>4, <2>2, <2>3, <2>4 DEF VSeq, VData, VAt
  <2> QED BY <2>1, <2>4
<1>7. VSeq(i)' = VAt(i)
  <2>1. V!NextLap(pos[t]) = VAt(i)
    <3>1. posDequeue \in Int /\ i - BufferSize \in Int /\ (i - BufferSize) + BufferSize = i /\ BufferSize \in Int
      BY VConstants, <1>3 DEF VInv, V!TypeOK, V!Pos
    <3>2. V!Plus(V!Plus(posDequeue, i - BufferSize), BufferSize) = V!Plus(posDequeue, (i - BufferSize) + BufferSize)
      BY <3>1, PlusPlus
    <3> QED BY <3>1, <3>2, <1>3 DEF VAt, V!NextLap
  <2> QED BY <2>1, <1>0, <1>1, <1>3, <1>5 DEF VSeq, VAt, V!DeqRelease
<1>8. VEnds'
  BY <1>1 DEF VInv, VState, VEnds, VAt, VSize
<1>9. V!NoRace'
  BY <1>0, <1>1 DEF V!NoRace, VInv, VState, FillPC, EmptyPC
<1>10. VBusy'
  <2> SUFFICES ASSUME NEW u \in Thread
               PROVE  (pc'[u] \in FillPC => VFilling(u)') /\ (pc'[u] \in EmptyPC => VEmptying(u)')
    BY DEF VBusy
  <2>1. CASE u = t
    BY <2>1, <1>1 DEF FillPC, EmptyPC
  <2>2. CASE u # t
    <3>1. ASSUME pc[u] \in FillPC PROVE VFilling(u)'
      <4>1. PICK j \in 0..(VSize - 1) : /\ Fills(u, j) /\ VSeq(j) = VAt(j) /\ val[u] = items[j + 1]
                                        /\ pc[u] = "e_publish" => VData(j) = val[u]
        BY <3>1 DEF VInv, VState, VBusy, VFilling
      <4>2. j # i /\ j \in 0..(BufferSize - 1)
        BY <4>1, <1>0, <1>3
      <4> QED BY <4>1, <4>2, <2>2, <1>1, <1>6 DEF VFilling, Fills
    <3>2. ASSUME pc[u] \in EmptyPC PROVE VEmptying(u)'
      <4>1. PICK j \in VSize..(BufferSize - 1) : Empties(u, j) /\ VSeq(j) = VAt(j + 1 - BufferSize)
        BY <3>2 DEF VInv, VState, VBusy, VEmptying
      <4>2. j # i /\ j \in 0..(BufferSize - 1)
        <5>1. j \in 0..(BufferSize - 1) /\ V!CellOf(pos[u]) = V!CellOf(VAt(j))
          BY <4>1, <1>0, AtDiffer DEF Empties, VInv
        <5> QED BY <5>1, <1>3, <1>4, <2>2, <3>2
      <4> QED BY <4>1, <4>2, <2>2, <1>0, <1>1, <1>6 DEF VEmptying, Empties
    <3> QED BY <3>1, <3>2, <2>2, <1>1
  <2> QED BY <2>1, <2>2
<1>11. VCells'
  <2> SUFFICES ASSUME NEW j \in 0..(BufferSize - 1)
               PROVE  IF j < VSize' THEN \/ VSeq(j)' = VAt(j + 1)' /\ VData(j)' = items'[j + 1]
                                         \/ VSeq(j)' = VAt(j)' /\ \E u \in Thread : Fills(u, j)'
                                    ELSE \/ VSeq(j)' = VAt(j)'
                                         \/ VSeq(j)' = VAt(j + 1 - BufferSize)' /\ \E u \in Thread : Empties(u, j)'
    BY DEF VCells
  <2>1. CASE j = i
    BY <2>1, <1>0, <1>3, <1>6, <1>7
  <2>2. CASE j # i
    <3>1. \A u \in Thread : Fills(u, j) => Fills(u, j)'
      BY <1>0, <1>1, <1>6 DEF Fills, EmptyPC, FillPC
    <3>2. ASSUME NEW u \in Thread, Empties(u, j) PROVE Empties(u, j)'
      <4>1. V!CellOf(pos[u]) = V!CellOf(VAt(j))
        BY <3>2, AtDiffer DEF Empties, VInv
      <4>2. u # t
        BY <4>1, <1>4, <2>2
      <4> QED BY <4>2, <3>2, <1>0, <1>1, <1>6 DEF Empties
    <3>3. IF j < VSize THEN \/ VSeq(j) = VAt(j + 1) /\ VData(j) = items[j + 1]
                            \/ VSeq(j) = VAt(j) /\ \E u \in Thread : Fills(u, j)
                       ELSE \/ VSeq(j) = VAt(j)
                            \/ VSeq(j) = VAt(j + 1 - BufferSize) /\ \E u \in Thread : Empties(u, j)
      BY DEF VInv, VState, VCells
    <3> QED BY <2>2, <3>1, <3>2, <3>3, <1>0, <1>1, <1>6
  <2> QED BY <2>1, <2>2
<1> QED BY <1>8, <1>9, <1>10, <1>11 DEF VState

\* A dequeue that gets its position: the window moves, and the cell that was its first and is
\* now its last is being emptied.
LEMMA VTakesDeq ==
  ASSUME V!Constants, VInv, NEW t \in Thread, V!DeqCas(t), posDequeue = pos[t]
  PROVE  VState'
<1> DEFINE n == VSize
<1>0. /\ n \in Nat /\ n > 0 /\ n <= BufferSize /\ BufferSize \in Nat /\ BufferSize > 1 /\ Modulus \in Nat
      /\ BufferSize + BufferSize < Modulus /\ items \in Seq(Value)
      /\ pos[t] = VAt(0) /\ VSeq(0) = VAt(1) /\ pc[t] = "d_cas" /\ posDequeue \in Int
  <2>1. /\ n \in Nat /\ n <= BufferSize /\ items \in Seq(Value) /\ posDequeue \in Int /\ V!TypeOK
        /\ BufferSize \in Nat /\ BufferSize > 1 /\ Modulus \in Nat /\ BufferSize + BufferSize < Modulus
    BY VConstants DEF VInv, VState, VEnds, V!TypeOK, VSize, V!Pos
  <2>2. VAt(0) = posDequeue /\ pc[t] = "d_cas"
    BY <2>1, AtDiffer DEF V!DeqCas
  <2>3. n > 0 /\ VSeq(0) = VAt(1)
    BY <2>2 DEF VInv, VReady
  <2> QED BY <2>1, <2>2, <2>3
<1>1. /\ posEnqueue' = posEnqueue /\ posDequeue' = V!Plus(posDequeue, 1) /\ array' = array
      /\ pos' = pos /\ val' = val /\ items' = SubSeq(items, 2, Len(items))
      /\ \A u \in Thread : pc'[u] = IF u = t THEN "d_read" ELSE pc[u]
  BY DEF V!DeqCas, V!Goto, VInv, V!TypeOK
<1>2. Len(items') = n - 1 /\ \A i \in 1..(n - 1) : items'[i] = items[i + 1]
  <2>1. \A i \in 2..n : items[i] \in Value
    BY <1>0 DEF VSize
  <2>2. /\ Len(SubSeq(items, 2, n)) = IF 2 <= n THEN n - 2 + 1 ELSE 0
        /\ \A i \in 1..(n - 2 + 1) : SubSeq(items, 2, n)[i] = items[2 + i - 1]
    <3> HIDE DEF n
    <3> QED BY <1>0, <2>1, SubSeqProperties
  <2>3. \A i \in 1..(n - 1) : i \in 1..(n - 2 + 1) /\ 2 + i - 1 = i + 1
    BY <1>0
  <2>4. items' = SubSeq(items, 2, n)
    BY <1>1 DEF VSize
  <2> HIDE DEF n
  <2> QED BY <1>0, <2>2, <2>3, <2>4
<1>3. \A i \in Int : VAt(i)' = VAt(i + 1)
  <2>1. \A i \in Int : V!Plus(V!Plus(posDequeue, 1), i) = V!Plus(posDequeue, 1 + i) /\ 1 + i = i + 1
    BY <1>0, PlusPlus
  <2> QED BY <2>1, <1>1 DEF VAt
<1>4. \A i \in Int : VSeq(i)' = VSeq(i + 1) /\ VData(i)' = VData(i + 1)
  BY <1>1, <1>3 DEF VSeq, VData
<1>a. /\ \A i, j \in Int : VAt(i) = VAt(j) /\ i - j < Modulus /\ j - i < Modulus => i = j
      /\ \A i, j \in Int : V!CellOf(VAt(i)) = V!CellOf(VAt(j)) /\ i - j < BufferSize /\ j - i < BufferSize => i = j
      /\ \A i \in Int : V!CellOf(VAt(i - BufferSize)) = V!CellOf(VAt(i))
  BY AtDiffer DEF VInv
<1>5. VEnds'
  <2>1. V!Plus(V!Plus(posDequeue, 1), n - 1) = V!Plus(posDequeue, n)
    <3> DEFINE k == n - 1
    <3>1. k \in Int /\ 1 + k = n
      BY <1>0
    <3>2. posDequeue \in Int /\ 1 \in Int
      BY <1>0
    <3> HIDE DEF k
    <3>3. V!Plus(V!Plus(posDequeue, 1), k) = V!Plus(posDequeue, 1 + k)
      BY <3>1, <3>2, PlusPlus
    <3> QED BY <3>1, <3>3 DEF k
  <2>2. posEnqueue' = V!Plus(posDequeue', Len(items'))
    BY <1>1, <1>2, <2>1 DEF VEnds, VInv, VState, VAt
  <2>3. Len(items') <= BufferSize
    BY <1>0, <1>2
  <2> QED BY <2>2, <2>3 DEF VEnds, VSize, VAt
\* Nobody else has the cell.
<1>b. ASSUME NEW u \in Thread, NEW i \in 0..(n - 1), Fills(u, i), VSeq(i) = VAt(i) PROVE i # 0 /\ u # t
  <2>1. VAt(0) # VAt(1)
    BY <1>0, <1>a
  <2> QED BY <2>1, <1>b, <1>0 DEF Fills, FillPC
<1>6. ASSUME NEW u \in Thread, pc[u] \in FillPC \cup EmptyPC PROVE V!CellOf(pos[u]) # V!CellOf(pos[t])
  <2>1. CASE pc[u] \in FillPC
    <3>1. PICK i \in 0..(n - 1) : Fills(u, i) /\ VSeq(i) = VAt(i)
      BY <2>1 DEF VInv, VState, VBusy, VFilling
    <3>2. i # 0
      BY <1>b, <3>1
    <3>3. V!CellOf(VAt(i)) = V!CellOf(VAt(0)) /\ i - 0 < BufferSize /\ 0 - i < BufferSize => i = 0
      BY <1>0, <1>a
    <3> QED BY <1>0, <3>1, <3>2, <3>3 DEF Fills
  <2>2. CASE pc[u] \in EmptyPC
    <3>1. PICK i \in n..(BufferSize - 1) : Empties(u, i)
      BY <2>2 DEF VInv, VState, VBusy, VEmptying
    <3>2. V!CellOf(pos[u]) = V!CellOf(VAt(i)) /\ i \in Int /\ i > 0 /\ i < BufferSize
      BY <1>0, <1>a, <3>1 DEF Empties
    <3>3. V!CellOf(VAt(i)) = V!CellOf(VAt(0)) /\ i - 0 < BufferSize /\ 0 - i < BufferSize => i = 0
      <4>1. \A j \in Int : V!CellOf(VAt(j)) = V!CellOf(VAt(0)) /\ j - 0 < BufferSize /\ 0 - j < BufferSize => j = 0
        BY <1>a
      <4> QED BY <4>1, <3>2
    <3> QED BY <1>0, <3>2, <3>3
  <2> QED BY <1>6, <2>1, <2>2
<1>7. V!NoRace'
  BY <1>1, <1>6 DEF V!NoRace, VInv, VState, FillPC, EmptyPC
<1>c. /\ \A u \in Thread, i \in Int : Fills(u, i + 1) /\ u # t => Fills(u, i)'
      /\ \A u \in Thread, i \in Int : Empties(u, i + 1) /\ u # t => Empties(u, i)'
  <2>1. \A i \in Int : (i - BufferSize) + 1 = i + 1 - BufferSize /\ i - BufferSize \in Int
    BY <1>0
  <2>2. ASSUME NEW u \in Thread, NEW i \in Int, Fills(u, i + 1), u # t PROVE Fills(u, i)'
    BY <2>2, <1>1, <1>3 DEF Fills
  <2>3. ASSUME NEW u \in Thread, NEW i \in Int, Empties(u, i + 1), u # t PROVE Empties(u, i)'
    <3>1. VAt(i - BufferSize)' = VAt(i + 1 - BufferSize)
      BY <2>1, <1>3
    <3>2. pc[u] \in EmptyPC /\ pos[u] = VAt(i + 1 - BufferSize)
      <4>1. (i + 1) - BufferSize = i + 1 - BufferSize
        BY <1>0
      <4> QED BY <4>1, <2>3 DEF Empties
    <3>3. pc'[u] \in EmptyPC /\ pos'[u] = VAt(i - BufferSize)'
      BY <3>1, <3>2, <2>3, <1>1
    <3> QED BY <3>3 DEF Empties
  <2> QED BY <2>2, <2>3
<1>8. VBusy'
  <2> SUFFICES ASSUME NEW u \in Thread
               PROVE  (pc'[u] \in FillPC => VFilling(u)') /\ (pc'[u] \in EmptyPC => VEmptying(u)')
    BY DEF VBusy
  <2>1. CASE u = t
    <3>1. VSeq(BufferSize - 1)' = VAt((BufferSize - 1) + 1 - BufferSize)'
      <4>1. VSeq(BufferSize - 1)' = VSeq(BufferSize) /\ VAt((BufferSize - 1) + 1 - BufferSize)' = VAt(1)
        <5>1. BufferSize - 1 \in Int /\ (BufferSize - 1) + 1 = BufferSize /\ (BufferSize - 1) + 1 - BufferSize = 0
          BY <1>0
        <5> QED BY <5>1, <1>3, <1>4
      <4>2. V!CellOf(VAt(BufferSize)) = V!CellOf(VAt(0))
        <5>1. BufferSize \in Int /\ BufferSize - BufferSize = 0
          BY <1>0
        <5> QED BY <5>1, <1>a
      <4> QED BY <4>1, <4>2, <1>0 DEF VSeq
    <3>2. Empties(t, BufferSize - 1)'
      <4>1. BufferSize - 1 - BufferSize = -1 /\ (-1) + 1 = 0 /\ -1 \in Int
        BY <1>0
      <4>2. VAt(-1)' = VAt(0)
        BY <4>1, <1>3
      <4> QED BY <4>1, <4>2, <1>0, <1>1 DEF Empties, EmptyPC
    <3>3. BufferSize - 1 \in (VSize')..(BufferSize - 1)
      BY <1>0, <1>2 DEF VSize
    <3>4. VEmptying(t)'
      BY <3>1, <3>2, <3>3, <1>1 DEF VEmptying
    <3> QED BY <2>1, <3>4, <1>1 DEF FillPC
  <2>2. CASE u # t
    <3>1. ASSUME pc[u] \in FillPC PROVE VFilling(u)'
      <4>1. PICK i \in 0..(n - 1) : /\ Fills(u, i) /\ VSeq(i) = VAt(i) /\ val[u] = items[i + 1]
                                    /\ pc[u] = "e_publish" => VData(i) = val[u]
        BY <3>1 DEF VInv, VState, VBusy, VFilling
      <4>2. i # 0
        BY <4>1, <1>b
      <4>3. i - 1 \in 0..(n - 2) /\ (i - 1) + 1 = i /\ i - 1 \in Int /\ i \in 1..(n - 1)
        BY <1>0, <4>2
      <4>4. /\ Fills(u, i - 1)' /\ VSeq(i - 1)' = VAt(i - 1)' /\ items'[(i - 1) + 1] = items[i + 1]
            /\ VData(i - 1)' = VData(i) /\ i - 1 \in 0..(VSize' - 1)
        <5>1. Fills(u, i - 1)'
          BY <4>1, <4>3, <2>2, <1>c
        <5>2. VSeq(i - 1)' = VAt(i - 1)' /\ VData(i - 1)' = VData(i)
          BY <4>1, <4>3, <1>3, <1>4
        <5>3. i - 1 \in 0..(VSize' - 1)
          BY <4>3, <1>0, <1>2 DEF VSize
        <5>4. items'[(i - 1) + 1] = items[i + 1]
          BY <4>3, <1>0, <1>2
        <5> QED BY <5>1, <5>2, <5>3, <5>4
      <4> QED BY <4>1, <4>4, <2>2, <1>1 DEF VFilling
    <3>2. ASSUME pc[u] \in EmptyPC PROVE VEmptying(u)'
      <4>1. PICK i \in n..(BufferSize - 1) : Empties(u, i) /\ VSeq(i) = VAt(i + 1 - BufferSize)
        BY <3>2 DEF VInv, VState, VBusy, VEmptying
      <4>2. i - 1 \in Int /\ (i - 1) + 1 = i /\ i - BufferSize \in Int /\ (i - BufferSize) + 1 = i + 1 - BufferSize
            /\ (i - 1) + 1 - BufferSize = i - BufferSize
        BY <1>0
      <4>3. Empties(u, i - 1)'
        BY <4>1, <4>2, <2>2, <1>c
      <4>4. VSeq(i - 1)' = VAt((i - 1) + 1 - BufferSize)'
        BY <4>1, <4>2, <1>3, <1>4
      <4>5. i - 1 \in (VSize')..(BufferSize - 1)
        BY <1>0, <1>2 DEF VSize
      <4> QED BY <4>3, <4>4, <4>5 DEF VEmptying
    <3> QED BY <3>1, <3>2, <2>2, <1>1
  <2> QED BY <2>1, <2>2
<1>9. VCells'
  <2> SUFFICES ASSUME NEW i \in 0..(BufferSize - 1)
               PROVE  IF i < VSize' THEN \/ VSeq(i)' = VAt(i + 1)' /\ VData(i)' = items'[i + 1]
                                         \/ VSeq(i)' = VAt(i)' /\ \E u \in Thread : Fills(u, i)'
                                    ELSE \/ VSeq(i)' = VAt(i)'
                                         \/ VSeq(i)' = VAt(i + 1 - BufferSize)' /\ \E u \in Thread : Empties(u, i)'
    BY DEF VCells
  <2>0. i \in Nat /\ i \in Int /\ i + 1 \in Int
    OBVIOUS
  <2>1. CASE i < BufferSize - 1
    <3>1. i + 1 \in 0..(BufferSize - 1)
      BY <1>0, <2>1
    <3>2. IF i + 1 < n THEN \/ VSeq(i + 1) = VAt((i + 1) + 1) /\ VData(i + 1) = items[(i + 1) + 1]
                            \/ VSeq(i + 1) = VAt(i + 1) /\ \E u \in Thread : Fills(u, i + 1)
                       ELSE \/ VSeq(i + 1) = VAt(i + 1)
                            \/ VSeq(i + 1) = VAt((i + 1) + 1 - BufferSize) /\ \E u \in Thread : Empties(u, i + 1)
      BY <3>1 DEF VInv, VState, VCells
    <3>3. /\ VSeq(i)' = VSeq(i + 1) /\ VData(i)' = VData(i + 1) /\ VAt(i)' = VAt(i + 1)
          /\ VAt(i + 1)' = VAt((i + 1) + 1) /\ VAt(i + 1 - BufferSize)' = VAt((i + 1) + 1 - BufferSize)
      <4>1. i + 1 - BufferSize \in Int /\ (i + 1 - BufferSize) + 1 = (i + 1) + 1 - BufferSize
        BY <1>0, <2>0
      <4> QED BY <4>1, <2>0, <1>3, <1>4
    <3>4. i < VSize' <=> i + 1 < n
      BY <1>0, <1>2, <2>0 DEF VSize
    <3>5. /\ \A u \in Thread : Fills(u, i + 1) => Fills(u, i)'
          /\ \A u \in Thread : Empties(u, i + 1) => Empties(u, i)'
      BY <1>0, <1>c, <2>0 DEF Fills, Empties, FillPC, EmptyPC
    <3>6. i + 1 < n => items'[i + 1] = items[(i + 1) + 1]
      BY <1>0, <1>2, <2>0
    <3> QED BY <3>2, <3>3, <3>4, <3>5, <3>6
  <2>2. CASE i = BufferSize - 1
    <3>1. ~(i < VSize')
      BY <2>2, <1>0, <1>2 DEF VSize
    <3>2. Empties(t, i)' /\ VSeq(i)' = VAt(i + 1 - BufferSize)'
      <4>1. VEmptying(t)'
        BY <1>1, <1>8 DEF VBusy, EmptyPC
      <4>2. PICK j \in (VSize')..(BufferSize - 1) : Empties(t, j)' /\ VSeq(j)' = VAt(j + 1 - BufferSize)'
        BY <4>1 DEF VEmptying
      <4>3. VAt(j - BufferSize)' = VAt(j - BufferSize + 1) /\ VAt(j - BufferSize + 1) = VAt(0) /\ j - BufferSize + 1 \in Int
            /\ j \in Int
        <5>1. j \in Int /\ j - BufferSize \in Int /\ j - BufferSize + 1 = (j - BufferSize) + 1 /\ j - BufferSize + 1 \in Int
          BY <4>2, <1>0, <1>2 DEF VSize
        <5>2. VAt(j - BufferSize)' = VAt(j - BufferSize + 1)
          BY <5>1, <1>3
        <5>3. pos'[t] = VAt(j - BufferSize)'
          BY <4>2 DEF Empties
        <5> QED BY <5>1, <5>2, <5>3, <1>0, <1>1
      <4>4. j - BufferSize + 1 = 0
        <5>1. (j - BufferSize + 1) - 0 < Modulus /\ 0 - (j - BufferSize + 1) < Modulus
          BY <1>0, <1>2, <4>3 DEF VSize
        <5> QED BY <5>1, <4>3, <1>a
      <4>5. j = i
        BY <2>2, <4>3, <4>4, <1>0
      <4> QED BY <4>2, <4>5
    <3> QED BY <3>1, <3>2
  <2> QED BY <2>1, <2>2, <1>0
<1> QED BY <1>5, <1>7, <1>8, <1>9 DEF VState

\* The positions that have been read, and what their readers have seen of the cells, in a step
\* that takes no position: t may read a position or a sequence number, and sets none that
\* another thread relies on.
LEMMA VLooks ==
  ASSUME V!Constants, VInv, NEW t \in Thread, UNCHANGED <<posEnqueue, posDequeue, items>>,
         \A u \in Thread \ {t} : pc'[u] = pc[u] /\ pos'[u] = pos[u],
         pc'[t] = "e_seq" => pos'[t] = posEnqueue \/ (pc[t] = "e_cas" /\ pos'[t] = pos[t]),
         pc'[t] = "d_seq" => pos'[t] = posDequeue \/ (pc[t] = "d_cas" /\ pos'[t] = pos[t]),
         pc'[t] = "e_cas" => /\ pc[t] = "e_seq" /\ pos'[t] = pos[t]
                             /\ pos[t] = posEnqueue => VSize < BufferSize /\ VSeq(VSize) = VAt(VSize),
         pc'[t] = "d_cas" => /\ pc[t] = "d_seq" /\ pos'[t] = pos[t]
                             /\ pos[t] = posDequeue => VSize > 0 /\ VSeq(0) = VAt(1),
         VSize < BufferSize /\ VSeq(VSize) = VAt(VSize) => VSeq(VSize)' = VSeq(VSize),
         VSize > 0 /\ VSeq(0) = VAt(1) => VSeq(0)' = VSeq(0)
  PROVE  VLag' /\ VReady'
<1>1. VSize' = VSize /\ VSize \in Nat /\ MaxLag \in Nat /\ \A i \in Int : VAt(i)' = VAt(i)
  BY VConstants DEF VSize, VAt, VInv, V!TypeOK
<1>2. posEnqueue = VAt(VSize) /\ posDequeue = VAt(0)
  BY AtDiffer DEF VInv, VState, VEnds
<1>3. VLag'
  <2> SUFFICES ASSUME NEW u \in Thread
               PROVE  /\ pc'[u] \in {"e_seq", "e_cas"} => \E k \in 0..MaxLag : pos'[u] = VAt(VSize - k)'
                      /\ pc'[u] \in {"d_seq", "d_cas"} => \E k \in 0..MaxLag : pos'[u] = VAt(-k)'
    BY DEF VLag
  <2>0. \A k \in 0..MaxLag : VAt(VSize - k)' = VAt(VSize - k) /\ VAt(-k)' = VAt(-k)
    <3> SUFFICES ASSUME NEW k \in 0..MaxLag PROVE VAt(VSize - k)' = VAt(VSize - k) /\ VAt(-k)' = VAt(-k)
      OBVIOUS
    <3> QED BY DEF VAt, VSize
  <2>1. /\ pc[u] \in {"e_seq", "e_cas"} => \E k \in 0..MaxLag : pos[u] = VAt(VSize - k)
        /\ pc[u] \in {"d_seq", "d_cas"} => \E k \in 0..MaxLag : pos[u] = VAt(-k)
    BY DEF VInv, VLag
  <2>2. CASE u # t
    BY <2>0, <2>1, <2>2
  <2>3. CASE u = t
    <3>1. 0 \in 0..MaxLag /\ VSize - 0 = VSize /\ -0 = 0
      <4>1. -0 = 0
        <5>1. \A z \in Int : -z = 0 - z
          OBVIOUS
        <5>2. 0 - 0 = 0 /\ 0 \in Int
          OBVIOUS
        <5> QED BY <5>1, <5>2, Zenon
      <4>2. \A m \in Nat : 0 \in 0..m /\ m - 0 = m
        OBVIOUS
      <4> QED BY <1>1, <4>1, <4>2
    <3>2. ASSUME pc'[t] \in {"e_seq", "e_cas"} PROVE \E k \in 0..MaxLag : pos'[t] = VAt(VSize - k)
      BY <1>2, <2>1, <2>3, <3>1, <3>2
    <3>3. ASSUME pc'[t] \in {"d_seq", "d_cas"} PROVE \E k \in 0..MaxLag : pos'[t] = VAt(-k)
      BY <1>2, <2>1, <2>3, <3>1, <3>3
    <3> QED BY <2>0, <2>3, <3>2, <3>3
  <2> QED BY <2>2, <2>3
<1>4. VReady'
  <2> SUFFICES ASSUME NEW u \in Thread
               PROVE  /\ pc'[u] = "e_cas" /\ pos'[u] = posEnqueue' => VSize' < BufferSize /\ VSeq(VSize)' = VAt(VSize)'
                      /\ pc'[u] = "d_cas" /\ pos'[u] = posDequeue' => VSize' > 0 /\ VSeq(0)' = VAt(1)'
    BY DEF VReady
  <2>1. VAt(VSize)' = VAt(VSize) /\ VAt(1)' = VAt(1)
    BY <1>1 DEF VAt
  <2>2. /\ pc'[u] = "e_cas" /\ pos'[u] = posEnqueue => VSize < BufferSize /\ VSeq(VSize) = VAt(VSize)
        /\ pc'[u] = "d_cas" /\ pos'[u] = posDequeue => VSize > 0 /\ VSeq(0) = VAt(1)
    BY DEF VInv, VReady
  <2> QED BY <1>1, <2>1, <2>2
<1> QED BY <1>3, <1>4

\* An enqueue that gets its position leaves those that have read one a position further behind,
\* and none of them can get it.
LEMMA VLooksEnq ==
  ASSUME V!Constants, VInv, NEW t \in Thread, V!EnqCas(t), posEnqueue = pos[t]
  PROVE  VLag' /\ VReady'
<1> DEFINE n == VSize
<1>0. /\ n \in Nat /\ n <= BufferSize /\ BufferSize \in Nat /\ Modulus \in Nat /\ MaxLag \in Nat
      /\ MaxLag + MaxLag + BufferSize + BufferSize <= Modulus /\ BufferSize > 1
      /\ posDequeue \in Int /\ posEnqueue = VAt(n) /\ V!TypeOK
  BY VConstants DEF VInv, VState, VEnds, V!TypeOK, VSize, V!Pos
<1>1. /\ posEnqueue' = V!Plus(posEnqueue, 1) /\ posDequeue' = posDequeue /\ array' = array
      /\ pos' = pos /\ items' = Append(items, val[t])
      /\ \A u \in Thread : pc'[u] = IF u = t THEN "e_write" ELSE pc[u]
      /\ \A u \in Thread : pc[u] \in {"e_seq", "e_cas"} => (posEnqueue - pos[u]) % Modulus < MaxLag
  BY DEF V!EnqCas, V!Goto, VInv, V!TypeOK, V!KeepsUp
<1>2. VSize' = n + 1 /\ \A i \in Int : VAt(i)' = VAt(i) /\ VSeq(i)' = VSeq(i)
  BY <1>0, <1>1 DEF VSize, VAt, VSeq, V!TypeOK
<1>3. posEnqueue' = VAt(n + 1)
  <2>1. V!Plus(V!Plus(posDequeue, n), 1) = V!Plus(posDequeue, n + 1)
    BY <1>0, PlusPlus
  <2> QED BY <2>1, <1>0, <1>1 DEF VAt
<1>4. ASSUME NEW u \in Thread, pc[u] \in {"e_seq", "e_cas"}
      PROVE  \E k \in 0..MaxLag : pos[u] = VAt(n - k) /\ k < MaxLag
  <2>1. PICK k \in 0..MaxLag : pos[u] = VAt(n - k)
    BY <1>4 DEF VInv, VLag
  <2> DEFINE p == VAt(n - k)
  <2>2. p \in Int /\ k \in 0..(Modulus - 1)
    <3>1. n - k \in Int
      BY <1>0
    <3>2. VAt(n - k) \in V!Pos
      BY <3>1, <1>0, AtDiffer
    <3> QED BY <3>2, <1>0 DEF V!Pos
  <2>3. posEnqueue = V!Plus(p, k)
    <3>1. V!Plus(V!Plus(posDequeue, n - k), k) = V!Plus(posDequeue, (n - k) + k) /\ (n - k) + k = n
      BY <1>0, PlusPlus
    <3> QED BY <3>1, <1>0 DEF VAt
  <2> HIDE DEF p
  <2>4. (V!Plus(p, k) - p) % Modulus = k
    BY <2>2, GapIs
  <2> QED BY <2>1, <2>3, <2>4, <1>1, <1>4 DEF p
<1>5. VLag'
  <2> SUFFICES ASSUME NEW u \in Thread
               PROVE  /\ pc'[u] \in {"e_seq", "e_cas"} => \E k \in 0..MaxLag : pos'[u] = VAt(VSize - k)'
                      /\ pc'[u] \in {"d_seq", "d_cas"} => \E k \in 0..MaxLag : pos'[u] = VAt(-k)'
    BY DEF VLag
  <2>1. ASSUME pc'[u] \in {"e_seq", "e_cas"} PROVE \E k \in 0..MaxLag : pos'[u] = VAt(VSize - k)'
    <3>1. PICK k \in 0..MaxLag : pos[u] = VAt(n - k) /\ k < MaxLag
      BY <1>1, <1>4, <2>1
    <3>2. k + 1 \in 0..MaxLag /\ (n + 1) - (k + 1) = n - k
      BY <1>0, <3>1
    <3>3. pos'[u] = VAt(VSize - (k + 1))'
      BY <1>1, <1>2, <3>1, <3>2 DEF VAt
    <3> QED BY <3>2, <3>3
  <2>2. ASSUME pc'[u] \in {"d_seq", "d_cas"} PROVE \E k \in 0..MaxLag : pos'[u] = VAt(-k)'
    BY <1>1, <1>2, <2>2 DEF VInv, VLag, VAt
  <2> QED BY <2>1, <2>2
<1>6. VReady'
  <2> SUFFICES ASSUME NEW u \in Thread
               PROVE  /\ pc'[u] = "e_cas" /\ pos'[u] = posEnqueue' => VSize' < BufferSize /\ VSeq(VSize)' = VAt(VSize)'
                      /\ pc'[u] = "d_cas" /\ pos'[u] = posDequeue' => VSize' > 0 /\ VSeq(0)' = VAt(1)'
    BY DEF VReady
  <2>1. ASSUME pc'[u] = "e_cas" PROVE pos'[u] # posEnqueue'
    <3>1. PICK k \in 0..MaxLag : pos[u] = VAt(n - k)
      BY <1>1, <1>4, <2>1
    <3>2. VAt(n - k) # VAt(n + 1)
      <4>1. n - k \in Int /\ n + 1 \in Int /\ (n - k) - (n + 1) < Modulus /\ (n + 1) - (n - k) < Modulus /\ n - k # n + 1
        BY <1>0
      <4>2. \A i, j \in Int : VAt(i) = VAt(j) /\ i - j < Modulus /\ j - i < Modulus => i = j
        BY <1>0, AtDiffer
      <4> QED BY <4>1, <4>2
    <3> QED BY <3>1, <3>2, <1>1, <1>3
  <2>2. ASSUME pc'[u] = "d_cas", pos'[u] = posDequeue' PROVE VSize' > 0 /\ VSeq(0)' = VAt(1)'
    BY <2>2, <1>0, <1>1, <1>2 DEF VInv, VReady
  <2> QED BY <2>1, <2>2
<1> QED BY <1>5, <1>6

\* A dequeue that gets its position leaves those that have read one a position further behind.
LEMMA VLooksDeq ==
  ASSUME V!Constants, VInv, NEW t \in Thread, V!DeqCas(t), posDequeue = pos[t]
  PROVE  VLag' /\ VReady'
<1> DEFINE n == VSize
<1>0. /\ n \in Nat /\ n <= BufferSize /\ BufferSize \in Nat /\ Modulus \in Nat /\ MaxLag \in Nat
      /\ MaxLag + MaxLag + BufferSize + BufferSize <= Modulus /\ BufferSize > 1
      /\ posDequeue \in Int /\ posDequeue = VAt(0) /\ V!TypeOK /\ n > 0
  <2>1. /\ n \in Nat /\ n <= BufferSize /\ BufferSize \in Nat /\ Modulus \in Nat /\ MaxLag \in Nat
        /\ MaxLag + MaxLag + BufferSize + BufferSize <= Modulus /\ BufferSize > 1
        /\ posDequeue \in Int /\ V!TypeOK
    BY VConstants DEF VInv, VState, VEnds, V!TypeOK, VSize, V!Pos
  <2>2. n > 0
    BY DEF VInv, VReady, V!DeqCas
  <2> QED BY <2>1, <2>2, AtDiffer
<1>1. /\ posEnqueue' = posEnqueue /\ posDequeue' = V!Plus(posDequeue, 1) /\ array' = array
      /\ pos' = pos /\ items' = SubSeq(items, 2, Len(items))
      /\ \A u \in Thread : pc'[u] = IF u = t THEN "d_read" ELSE pc[u]
      /\ \A u \in Thread : pc[u] \in {"d_seq", "d_cas"} => (posDequeue - pos[u]) % Modulus < MaxLag
  BY DEF V!DeqCas, V!Goto, VInv, V!TypeOK, V!KeepsUp
<1>2. VSize' = n - 1
  <2>1. \A i \in 2..n : items[i] \in Value
    BY <1>0 DEF VSize, V!TypeOK
  <2>2. Len(SubSeq(items, 2, n)) = IF 2 <= n THEN n - 2 + 1 ELSE 0
    <3> HIDE DEF n
    <3> QED BY <1>0, <2>1, SubSeqProperties
  <2>3. items' = SubSeq(items, 2, n)
    BY <1>1 DEF VSize
  <2>4. Len(items') = n - 1
    <3> HIDE DEF n
    <3> QED BY <1>0, <2>2, <2>3
  <2> QED BY <2>4 DEF VSize
<1>3. \A i \in Int : VAt(i)' = VAt(i + 1) /\ VSeq(i)' = VSeq(i + 1)
  <2>1. \A i \in Int : V!Plus(V!Plus(posDequeue, 1), i) = V!Plus(posDequeue, 1 + i) /\ 1 + i = i + 1
    BY <1>0, PlusPlus
  <2>2. \A i \in Int : VAt(i)' = VAt(i + 1)
    BY <2>1, <1>1 DEF VAt
  <2> QED BY <2>2, <1>1 DEF VSeq
<1>4. ASSUME NEW u \in Thread, pc[u] \in {"d_seq", "d_cas"}
      PROVE  \E k \in 0..MaxLag : pos[u] = VAt(-k) /\ k < MaxLag
  <2>1. PICK k \in 0..MaxLag : pos[u] = VAt(-k)
    BY <1>4 DEF VInv, VLag
  <2> DEFINE p == VAt(-k)
  <2>2. p \in Int /\ k \in 0..(Modulus - 1)
    <3>1. -k \in Int
      BY <1>0
    <3>2. VAt(-k) \in V!Pos
      BY <3>1, <1>0, AtDiffer
    <3> QED BY <3>2, <1>0 DEF V!Pos
  <2>3. posDequeue = V!Plus(p, k)
    <3>1. V!Plus(V!Plus(posDequeue, -k), k) = V!Plus(posDequeue, (-k) + k) /\ (-k) + k = 0
      BY <1>0, PlusPlus
    <3> QED BY <3>1, <1>0 DEF VAt
  <2> HIDE DEF p
  <2>4. (V!Plus(p, k) - p) % Modulus = k
    BY <2>2, GapIs
  <2> QED BY <2>1, <2>3, <2>4, <1>1, <1>4 DEF p
<1>5. VLag'
  <2> SUFFICES ASSUME NEW u \in Thread
               PROVE  /\ pc'[u] \in {"e_seq", "e_cas"} => \E k \in 0..MaxLag : pos'[u] = VAt(VSize - k)'
                      /\ pc'[u] \in {"d_seq", "d_cas"} => \E k \in 0..MaxLag : pos'[u] = VAt(-k)'
    BY DEF VLag
  <2>1. ASSUME pc'[u] \in {"d_seq", "d_cas"} PROVE \E k \in 0..MaxLag : pos'[u] = VAt(-k)'
    <3>1. PICK k \in 0..MaxLag : pos[u] = VAt(-k) /\ k < MaxLag
      BY <1>1, <1>4, <2>1
    <3>2. k + 1 \in 0..MaxLag /\ -(k + 1) \in Int /\ -(k + 1) + 1 = -k
      BY <1>0, <3>1
    <3>3. VAt(-(k + 1))' = VAt(-(k + 1) + 1)
      BY <3>2, <1>3
    <3>4. pos'[u] = VAt(-(k + 1))'
      BY <1>1, <3>1, <3>2, <3>3
    <3> QED BY <3>2, <3>4
  <2>2. ASSUME pc'[u] \in {"e_seq", "e_cas"} PROVE \E k \in 0..MaxLag : pos'[u] = VAt(VSize - k)'
    <3>1. PICK k \in 0..MaxLag : pos[u] = VAt(n - k)
      BY <1>1, <2>2 DEF VInv, VLag
    <3>2. n - k = 1 + ((n - 1) - k) /\ (n - 1) - k \in Int
      BY <1>0
    <3>3. V!Plus(V!Plus(posDequeue, 1), (n - 1) - k) = V!Plus(posDequeue, 1 + ((n - 1) - k))
      BY <1>0, <3>2, PlusPlus
    <3>4. VAt(VSize - k)' = V!Plus(V!Plus(posDequeue, 1), (n - 1) - k)
      BY <1>1, <1>2 DEF VAt
    <3> QED BY <1>1, <3>1, <3>2, <3>3, <3>4 DEF VAt
  <2> QED BY <2>1, <2>2
<1>6. VReady'
  <2> SUFFICES ASSUME NEW u \in Thread
               PROVE  /\ pc'[u] = "e_cas" /\ pos'[u] = posEnqueue' => VSize' < BufferSize /\ VSeq(VSize)' = VAt(VSize)'
                      /\ pc'[u] = "d_cas" /\ pos'[u] = posDequeue' => VSize' > 0 /\ VSeq(0)' = VAt(1)'
    BY DEF VReady
  <2>1. ASSUME pc'[u] = "d_cas" PROVE pos'[u] # posDequeue'
    <3>1. PICK k \in 0..MaxLag : pos[u] = VAt(-k)
      BY <1>1, <1>4, <2>1
    <3>2. VAt(-k) # VAt(1)
      <4>1. -k \in Int /\ 1 \in Int /\ (-k) - 1 < Modulus /\ 1 - (-k) < Modulus /\ -k # 1
        BY <1>0
      <4>2. \A i, j \in Int : VAt(i) = VAt(j) /\ i - j < Modulus /\ j - i < Modulus => i = j
        BY <1>0, AtDiffer
      <4> QED BY <4>1, <4>2
    <3>3. posDequeue' = VAt(1)
      BY <1>1 DEF VAt
    <3> QED BY <3>1, <3>2, <3>3, <1>1
  <2>2. ASSUME pc'[u] = "e_cas", pos'[u] = posEnqueue'
        PROVE  VSize' < BufferSize /\ VSeq(VSize)' = VAt(VSize)'
    <3>1. n < BufferSize /\ VSeq(n) = VAt(n)
      BY <2>2, <1>1 DEF VInv, VReady
    <3>2. \A m \in Int : m = n - 1 => VAt(m)' = VAt(n) /\ VSeq(m)' = VSeq(n)
      BY <1>0, <1>3
    <3>3. VAt(VSize)' = VAt(n) /\ VSeq(VSize)' = VSeq(n)
      <4>1. n - 1 \in Int
        BY <1>0
      <4>2. V!Plus(posDequeue', n - 1) = VAt(n)
        BY <3>2, <4>1 DEF VAt
      <4>3. V!Plus(posDequeue', VSize') = VAt(n)
        BY <4>2, <1>2
      <4> QED BY <4>3, <1>1 DEF VAt, VSeq
    <3> QED BY <3>1, <3>3, <1>0, <1>2
  <2> QED BY <2>1, <2>2
<1> QED BY <1>5, <1>6

\* What a call could be refused for, it has seen.
LEMMA VWatches ==
  ASSUME V!Watch, \A u \in Thread : pc'[u] = "refused" => saw[u]
  PROVE  VSaw'
BY DEF VSaw, V!Watch

\* Every step keeps the invariant.
LEMMA VKeeps ==
  ASSUME V!Constants, VInv, NEW t \in Thread, V!Step(t), V!Watch
  PROVE  VInv'
<1>0. /\ V!TypeOK /\ VArg /\ VState /\ VEnds /\ VCells
      /\ VSize \in Nat /\ VSize <= BufferSize /\ BufferSize \in Nat
  BY VConstants DEF VInv, VState, VEnds, V!TypeOK, VSize
<1>1. V!TypeOK' /\ VArg'
  BY <1>0, VTypeStep
<1>2. ASSUME \A u \in Thread \ {t} : pc'[u] = pc[u], pc'[t] = "refused" => saw[t] PROVE VSaw'
  <2>1. \A u \in Thread : pc'[u] = "refused" => saw[u]
    BY <1>2 DEF VInv, VSaw
  <2> QED BY <2>1, VWatches
<1>3. ASSUME VState', VLag', VReady', VSaw' PROVE VInv'
  BY <1>1, <1>3 DEF VInv
<1> USE DEF V!Goto
\* Steps that only look
<1>4. CASE \/ \E v \in Value : V!Enqueue(t, v)
           \/ V!EnqLoad(t)
           \/ V!Dequeue(t)
           \/ V!DeqLoad(t)
           \/ V!DeqRead(t)
           \/ V!Leave(t)
           \/ V!EnqCas(t) /\ posEnqueue # pos[t]
           \/ V!DeqCas(t) /\ posDequeue # pos[t]
  <2>1. /\ UNCHANGED <<array, posEnqueue, posDequeue, items>>
        /\ \A u \in Thread \ {t} : pc'[u] = pc[u] /\ pos'[u] = pos[u] /\ val'[u] = val[u]
        /\ \/ pc[t] \notin FillPC \cup EmptyPC /\ pc'[t] \notin FillPC \cup EmptyPC
           \/ pc[t] = "d_read" /\ pc'[t] = "d_release" /\ pos'[t] = pos[t]
        /\ pc'[t] = "e_seq" => pos'[t] = posEnqueue \/ (pc[t] = "e_cas" /\ pos'[t] = pos[t])
        /\ pc'[t] = "d_seq" => pos'[t] = posDequeue \/ (pc[t] = "d_cas" /\ pos'[t] = pos[t])
        /\ pc'[t] \notin {"e_cas", "d_cas", "refused"}
    BY <1>0, <1>4 DEF V!TypeOK, FillPC, EmptyPC, V!Enqueue, V!EnqLoad, V!Dequeue, V!DeqLoad, V!DeqRead,
                      V!Leave, V!EnqCas, V!DeqCas
  <2>2. VState'
    BY <1>0, <2>1, VQuiet
  <2>3. VSeq(VSize)' = VSeq(VSize) /\ VSeq(0)' = VSeq(0)
    BY <2>1 DEF VSeq, VAt, VSize
  <2>4. VLag' /\ VReady'
    BY <2>1, <2>3, VLooks
  <2>5. VSaw'
    BY <1>2, <2>1
  <2> QED BY <1>3, <2>2, <2>4, <2>5
<1>5. CASE V!EnqSeq(t)
  <2> DEFINE dif == V!Dif(array[V!CellOf(pos[t])].sequence, pos[t])
  <2>1. /\ UNCHANGED <<array, posEnqueue, posDequeue, items, pos, val>>
        /\ \A u \in Thread \ {t} : pc'[u] = pc[u]
        /\ pc[t] = "e_seq"
        /\ \/ pc'[t] = "e_cas" /\ dif = 0
           \/ pc'[t] = "refused" /\ dif < 0
           \/ pc'[t] = "e_load"
    BY <1>0, <1>5 DEF V!TypeOK, V!EnqSeq, V!Turn, V!Refuses
  <2> HIDE DEF dif
  <2>2. PICK k \in 0..MaxLag : pos[t] = VAt(VSize - k)
    BY <2>1 DEF VInv, VLag
  <2>3. /\ dif = 0 /\ pos[t] = posEnqueue => VSize < BufferSize /\ VSeq(VSize) = VAt(VSize)
        /\ dif < 0 => V!Lacks("enq")
    BY <1>0, <2>2, EnqLook DEF dif
  <2>4. VState'
    BY <1>0, <2>1, VQuiet DEF FillPC, EmptyPC
  <2>5. VSeq(VSize)' = VSeq(VSize) /\ VSeq(0)' = VSeq(0)
    BY <2>1 DEF VSeq, VAt, VSize
  <2>6. VLag' /\ VReady'
    BY <2>1, <2>3, <2>5, VLooks
  <2>7. VSaw'
    <3>1. pc'[t] = "refused" => saw[t]
      BY <2>1, <2>3 DEF VInv, VSaw, V!EnqPC
    <3> QED BY <1>2, <2>1, <3>1
  <2> QED BY <1>3, <2>4, <2>6, <2>7
<1>6. CASE V!DeqSeq(t)
  <2> DEFINE dif == V!Dif(array[V!CellOf(pos[t])].sequence, V!Ready(pos[t]))
  <2>1. /\ UNCHANGED <<array, posEnqueue, posDequeue, items, pos, val>>
        /\ \A u \in Thread \ {t} : pc'[u] = pc[u]
        /\ pc[t] = "d_seq"
        /\ \/ pc'[t] = "d_cas" /\ dif = 0
           \/ pc'[t] = "refused" /\ dif < 0
           \/ pc'[t] = "d_load"
    BY <1>0, <1>6 DEF V!TypeOK, V!DeqSeq, V!Turn, V!Refuses
  <2> HIDE DEF dif
  <2>2. PICK k \in 0..MaxLag : pos[t] = VAt(-k)
    BY <2>1 DEF VInv, VLag
  <2>3. /\ dif = 0 /\ pos[t] = posDequeue => VSize > 0 /\ VSeq(0) = VAt(1)
        /\ dif < 0 => V!Lacks("deq")
    BY <1>0, <2>2, DeqLook DEF dif
  <2>4. VState'
    BY <1>0, <2>1, VQuiet DEF FillPC, EmptyPC
  <2>5. VSeq(VSize)' = VSeq(VSize) /\ VSeq(0)' = VSeq(0)
    BY <2>1 DEF VSeq, VAt, VSize
  <2>6. VLag' /\ VReady'
    BY <2>1, <2>3, <2>5, VLooks
  <2>7. VSaw'
    <3>1. pc'[t] = "refused" => saw[t]
      BY <2>1, <2>3 DEF VInv, VSaw, V!DeqPC
    <3> QED BY <1>2, <2>1, <3>1
  <2> QED BY <1>3, <2>4, <2>6, <2>7
\* Steps that take a position
<1>7. CASE V!EnqCas(t) /\ posEnqueue = pos[t]
  <2>1. (\A u \in Thread \ {t} : pc'[u] = pc[u]) /\ pc'[t] = "e_write"
    BY <1>0, <1>7 DEF V!TypeOK, V!EnqCas
  <2>2. VSaw'
    BY <1>2, <2>1
  <2> QED BY <1>3, <1>7, <2>2, VTakesEnq, VLooksEnq
<1>8. CASE V!DeqCas(t) /\ posDequeue = pos[t]
  <2>1. (\A u \in Thread \ {t} : pc'[u] = pc[u]) /\ pc'[t] = "d_read"
    BY <1>0, <1>8 DEF V!TypeOK, V!DeqCas
  <2>2. VSaw'
    BY <1>2, <2>1
  <2> QED BY <1>3, <1>8, <2>2, VTakesDeq, VLooksDeq
\* Steps that change the cell
<1>9. CASE V!EnqWrite(t) \/ V!EnqPublish(t)
  <2>1. /\ UNCHANGED <<posEnqueue, posDequeue, items, pos>>
        /\ \A u \in Thread \ {t} : pc'[u] = pc[u]
        /\ pc[t] \in FillPC /\ pc'[t] \in {"e_publish", "done"}
        /\ \A c \in 0..(BufferSize - 1) : c # V!CellOf(pos[t]) => array'[c] = array[c]
    BY <1>0, <1>9 DEF V!TypeOK, V!EnqWrite, V!EnqPublish, FillPC
  <2>2. PICK i \in 0..(VSize - 1) : pos[t] = VAt(i) /\ VSeq(i) = VAt(i)
    BY <2>1 DEF VInv, VState, VBusy, VFilling, Fills
  <2>3. VSize < BufferSize => VSeq(VSize)' = VSeq(VSize)
    <3>1. VSize < BufferSize => V!CellOf(VAt(VSize)) # V!CellOf(VAt(i))
      <4>1. VSize < BufferSize => /\ VSize \in Int /\ i \in Int /\ VSize # i
                                /\ VSize - i < BufferSize /\ i - VSize < BufferSize
        BY <1>0
      <4> QED BY <1>0, <4>1, AtDiffer
    <3>2. V!CellOf(VAt(VSize)) \in 0..(BufferSize - 1)
      BY <1>0, AtDiffer
    <3> QED BY <2>1, <2>2, <3>1, <3>2 DEF VSeq, VAt, VSize
  <2>4. VSize > 0 /\ VSeq(0) = VAt(1) => VSeq(0)' = VSeq(0)
    <3>1. ASSUME VSeq(0) = VAt(1) PROVE V!CellOf(VAt(0)) # V!CellOf(VAt(i))
      <4>1. VAt(0) # VAt(1)
        <5>1. 0 - 1 < Modulus /\ 1 - 0 < Modulus
          BY VConstants
        <5>2. \A a, b \in Int : VAt(a) = VAt(b) /\ a - b < Modulus /\ b - a < Modulus => a = b
          BY <1>0, AtDiffer
        <5> QED BY <5>1, <5>2
      <4>2. i # 0
        BY <2>2, <3>1, <4>1
      <4>3. i \in Int /\ i - 0 < BufferSize /\ 0 - i < BufferSize
        BY <1>0
      <4>4. \A a, b \in Int : V!CellOf(VAt(a)) = V!CellOf(VAt(b)) /\ a - b < BufferSize /\ b - a < BufferSize => a = b
        BY <1>0, AtDiffer
      <4> QED BY <4>2, <4>3, <4>4
    <3>2. V!CellOf(VAt(0)) \in 0..(BufferSize - 1)
      BY <1>0, AtDiffer
    <3> QED BY <2>1, <2>2, <3>1, <3>2 DEF VSeq, VAt
  <2>5. VState'
    BY <1>9, VFills
  <2>6. VLag' /\ VReady'
    BY <2>1, <2>3, <2>4, VLooks
  <2>7. VSaw'
    BY <1>2, <2>1
  <2> QED BY <1>3, <2>5, <2>6, <2>7
<1>10. CASE V!DeqRelease(t)
  <2>1. /\ UNCHANGED <<posEnqueue, posDequeue, items, pos>>
        /\ \A u \in Thread \ {t} : pc'[u] = pc[u]
        /\ pc[t] \in EmptyPC /\ pc'[t] = "done"
        /\ \A c \in 0..(BufferSize - 1) : c # V!CellOf(pos[t]) => array'[c] = array[c]
    BY <1>0, <1>10 DEF V!TypeOK, V!DeqRelease, EmptyPC
  <2>2. PICK i \in VSize..(BufferSize - 1) : pos[t] = VAt(i - BufferSize) /\ VSeq(i) = VAt(i + 1 - BufferSize)
    BY <2>1 DEF VInv, VState, VBusy, VEmptying, Empties
  <2>3. V!CellOf(pos[t]) = V!CellOf(VAt(i)) /\ i \in Int
    BY <1>0, <2>2, AtDiffer
  <2>4. VSize < BufferSize /\ VSeq(VSize) = VAt(VSize) => VSeq(VSize)' = VSeq(VSize)
    <3>1. ASSUME VSeq(VSize) = VAt(VSize), VSize < BufferSize PROVE V!CellOf(VAt(VSize)) # V!CellOf(VAt(i))
      <4>1. i # VSize
        <5>1. \A a, b \in Int : VAt(a) = VAt(b) /\ a - b < Modulus /\ b - a < Modulus => a = b
          BY <1>0, AtDiffer
        <5>2. /\ Modulus \in Nat /\ BufferSize > 1 /\ BufferSize + BufferSize < Modulus
          BY VConstants
        <5>3. /\ i + 1 - BufferSize \in Int /\ VSize \in Int
              /\ i = VSize => (i + 1 - BufferSize) - VSize < Modulus /\ VSize - (i + 1 - BufferSize) < Modulus
              /\ i = VSize => i + 1 - BufferSize # VSize
          BY <1>0, <2>3, <5>2
        <5> QED BY <2>2, <3>1, <5>1, <5>3
      <4>2. VSize \in Int /\ VSize - i < BufferSize /\ i - VSize < BufferSize
        BY <1>0, <3>1
      <4>3. \A a, b \in Int : V!CellOf(VAt(a)) = V!CellOf(VAt(b)) /\ a - b < BufferSize /\ b - a < BufferSize => a = b
        BY <1>0, AtDiffer
      <4> QED BY <2>3, <4>1, <4>2, <4>3
    <3>2. V!CellOf(VAt(VSize)) \in 0..(BufferSize - 1)
      BY <1>0, AtDiffer
    <3> QED BY <2>1, <2>3, <3>1, <3>2 DEF VSeq, VAt, VSize
  <2>5. VSize > 0 => VSeq(0)' = VSeq(0)
    <3>1. ASSUME VSize > 0 PROVE V!CellOf(VAt(0)) # V!CellOf(VAt(i))
      <4>1. i # 0 /\ i - 0 < BufferSize /\ 0 - i < BufferSize
        BY <1>0, <3>1
      <4>2. \A a, b \in Int : V!CellOf(VAt(a)) = V!CellOf(VAt(b)) /\ a - b < BufferSize /\ b - a < BufferSize => a = b
        BY <1>0, AtDiffer
      <4> QED BY <2>3, <4>1, <4>2
    <3>2. V!CellOf(VAt(0)) \in 0..(BufferSize - 1)
      BY <1>0, AtDiffer
    <3> QED BY <2>1, <2>3, <3>1, <3>2 DEF VSeq, VAt
  <2>6. VState'
    BY <1>10, VReleases
  <2>7. VLag' /\ VReady'
    BY <2>1, <2>4, <2>5, VLooks
  <2>8. VSaw'
    BY <1>2, <2>1
  <2> QED BY <1>3, <2>6, <2>7, <2>8
<1> QED BY <1>4, <1>5, <1>6, <1>7, <1>8, <1>9, <1>10 DEF V!Step

\* The invariant holds after the constructor.
LEMMA VBegins ==
  ASSUME V!Constants, V!Init
  PROVE  VInv
<1>1. /\ BufferSize \in Nat /\ BufferSize > 1 /\ Modulus \in Nat /\ BufferSize + BufferSize < Modulus
      /\ Modulus \in Nat \ {0} /\ BufferSize \in Nat \ {0} /\ MaxLag \in Nat
  BY VConstants
<1>2. /\ array = [i \in 0..(BufferSize - 1) |-> [sequence |-> i, data |-> None]]
      /\ posEnqueue = 0 /\ posDequeue = 0
      /\ pc = [t \in Thread |-> "idle"] /\ pos = [t \in Thread |-> 0]
      /\ val = [t \in Thread |-> None] /\ items = <<>> /\ saw = [t \in Thread |-> FALSE]
  BY DEF V!Init
<1>3. V!TypeOK
  <2>1. array \in [0..(BufferSize - 1) -> [sequence : V!Pos, data : Value \cup {None}]]
    BY <1>1, <1>2 DEF V!Pos
  <2>2. 0 \in V!Pos /\ items \in Seq(Value)
    BY <1>1, <1>2 DEF V!Pos
  <2> QED BY <1>2, <2>1, <2>2 DEF V!TypeOK
<1>4. VSize = 0 /\ VAt(0) = 0
  BY <1>2, <1>3, AtDiffer DEF VSize
<1>5. ASSUME NEW i \in 0..(BufferSize - 1) PROVE VAt(i) = i /\ VSeq(i) = i
  <2>1. i \in Int /\ i \in 0..(Modulus - 1) /\ i \in 0..(BufferSize - 1)
        /\ i = Modulus * 0 + i /\ i = BufferSize * 0 + i /\ 0 + i = i
    BY <1>1
  <2>2. i % Modulus = i /\ i % BufferSize = i
    BY <1>1, <2>1, ModIs
  <2>3. VAt(i) = i /\ V!CellOf(i) = i
    BY <1>2, <2>1, <2>2 DEF VAt, V!Plus, V!CellOf
  <2> QED BY <1>2, <2>3 DEF VSeq
<1>6. VEnds
  BY <1>1, <1>2, <1>4 DEF VEnds
<1>7. VCells
  BY <1>1, <1>4, <1>5 DEF VCells
<1>8. VBusy /\ V!NoRace /\ VLag /\ VReady /\ VSaw /\ VArg
  BY <1>2 DEF VBusy, V!NoRace, VLag, VReady, VSaw, VArg, FillPC, EmptyPC, V!EnqPC, V!DeqPC
<1> QED BY <1>3, <1>6, <1>7, <1>8 DEF VInv, VState

\* What the invariant says of the properties: Layout counts the items from the positions, and
\* its cells are those of VCells.
LEMMA VShows ==
  ASSUME V!Constants, VInv
  PROVE  V!TypeOK /\ V!Layout /\ V!NoRace /\ V!Refusals
<1>1. /\ VSize \in Nat /\ VSize <= BufferSize /\ BufferSize \in Nat /\ Modulus \in Nat
      /\ BufferSize + BufferSize < Modulus /\ posDequeue \in Int /\ posDequeue \in V!Pos
      /\ posEnqueue = V!Plus(posDequeue, VSize) /\ V!TypeOK /\ VCells
  BY VConstants DEF VInv, VState, VEnds, V!TypeOK, VSize, VAt, V!Pos
<1>2. (posEnqueue - posDequeue) % Modulus = VSize
  <2> DEFINE n == VSize
  <2>1. n \in 0..(Modulus - 1)
    BY <1>1
  <2> HIDE DEF n
  <2>2. (V!Plus(posDequeue, n) - posDequeue) % Modulus = n
    BY <1>1, <2>1, GapIs
  <2> QED BY <1>1, <2>2 DEF n
<1>3. ASSUME NEW i \in 0..(BufferSize - 1)
      PROVE  /\ V!Plus(VAt(i), 1) = VAt(i + 1)
             /\ V!Plus(VAt(i), 1 - BufferSize) = VAt(i + 1 - BufferSize)
             /\ \A u \in Thread : Empties(u, i) => V!Emptying(VAt(i), u)
             /\ \A u \in Thread : Fills(u, i) => V!Filling(VAt(i), u)
  <2>1. /\ i \in Int /\ i - BufferSize \in Int /\ 1 - BufferSize \in Int /\ i + (1 - BufferSize) = i + 1 - BufferSize
        /\ (i - BufferSize) + BufferSize = i
    BY <1>1
  <2>2. V!Plus(V!Plus(posDequeue, i), 1) = V!Plus(posDequeue, i + 1)
    BY <1>1, <2>1, PlusPlus
  <2>3. V!Plus(V!Plus(posDequeue, i), 1 - BufferSize) = V!Plus(posDequeue, i + (1 - BufferSize))
    BY <1>1, <2>1, PlusPlus
  <2>4. V!Plus(V!Plus(posDequeue, i - BufferSize), BufferSize) = V!Plus(posDequeue, (i - BufferSize) + BufferSize)
    BY <1>1, <2>1, PlusPlus
  <2>5. \A u \in Thread : Empties(u, i) => V!Emptying(VAt(i), u)
    BY <2>1, <2>4 DEF Empties, EmptyPC, V!Emptying, VAt
  <2>6. \A u \in Thread : Fills(u, i) => V!Filling(VAt(i), u)
    BY DEF Fills, FillPC, V!Filling
  <2> QED BY <2>1, <2>2, <2>3, <2>5, <2>6 DEF VAt
<1>4. V!Layout
  <2>1. ASSUME NEW i \in 0..(BufferSize - 1)
        PROVE  IF i < VSize
               THEN \/ VSeq(i) = V!Plus(VAt(i), 1) /\ VData(i) = items[i + 1]
                    \/ VSeq(i) = VAt(i) /\ \E u \in Thread : V!Filling(VAt(i), u)
               ELSE \/ VSeq(i) = VAt(i)
                    \/ /\ VSeq(i) = V!Plus(VAt(i), 1 - BufferSize)
                       /\ \E u \in Thread : V!Emptying(VAt(i), u)
    BY <1>1, <1>3 DEF VCells
  <2>2. ASSUME NEW n, n = VSize
        PROVE  /\ n = Len(items) /\ n <= BufferSize
               /\ \A i \in 0..(BufferSize - 1) :
                    LET p == V!Plus(posDequeue, i)
                        c == array[V!CellOf(p)]
                    IN  IF i < n
                        THEN \/ c.sequence = V!Plus(p, 1) /\ c.data = items[i + 1]
                             \/ c.sequence = p /\ \E u \in Thread : V!Filling(p, u)
                        ELSE \/ c.sequence = p
                             \/ /\ c.sequence = V!Plus(p, 1 - BufferSize)
                                /\ \E u \in Thread : V!Emptying(p, u)
    BY <2>2, <2>1, <1>1 DEF VSize, VSeq, VData, VAt
  <2> QED BY <1>2, <2>2 DEF V!Layout
<1>5. V!NoRace /\ V!Refusals
  BY DEF VInv, VState, VSaw, V!Refusals
<1> QED BY <1>1, <1>4, <1>5

-----------------------------------------------------------------------------
(* Rings of c cells, counted from p *)

\* Fewer than c steps round a ring of c cells lead to another cell.
LEMMA Ring ==
  ASSUME NEW c \in Nat \ {0}, NEW p \in 0..(c - 1)
  PROVE  /\ \A i \in Int : (p + i) % c \in 0..(c - 1)
         /\ \A i, j \in Int : (p + i) % c = (p + j) % c /\ i - j < c /\ j - i < c => i = j
         /\ (p + 0) % c = p
<1>1. ASSUME NEW i \in Int PROVE (p + i) % c \in 0..(c - 1)
  BY ModDef
<1>2. ASSUME NEW i \in Int, NEW j \in Int, (p + i) % c = (p + j) % c, i - j < c, j - i < c PROVE i = j
  <2> DEFINE x == p + i
             y == p + j
  <2>1. x \in Int /\ y \in Int /\ x - y < c /\ y - x < c /\ x % c = y % c
    BY <1>2
  <2>2. (x = y) => i = j
    OBVIOUS
  <2> HIDE DEF x, y
  <2>3. x = y
    BY <2>1, SameMod
  <2> QED BY <2>2, <2>3
<1>3. p \in Int /\ p = c * 0 + p /\ p + 0 = p
  OBVIOUS
<1>4. p % c = p
  BY <1>3, ModIs
<1> QED BY <1>1, <1>2, <1>3, <1>4

\* The next cell is one further, and counting from it is counting one more.
LEMMA RingNext ==
  ASSUME NEW c \in Nat \ {0}, NEW p \in 0..(c - 1), NEW i \in Int, NEW j \in Int
  PROVE  (((p + i) % c) + j) % c = (p + (i + j)) % c
<1> DEFINE x == p + i
<1>1. x \in Int /\ x + j = p + (i + j)
  OBVIOUS
<1> HIDE DEF x
<1>2. ((x % c) + j) % c = (x + j) % c
  BY <1>1, ModAdd
<1> QED BY <1>1, <1>2 DEF x

\* What is behind the first of a sequence
LEMMA TailOf ==
  ASSUME NEW S, NEW s \in Seq(S), s # <<>>
  PROVE  /\ SubSeq(s, 2, Len(s)) = Tail(s) /\ Tail(s) \in Seq(S)
         /\ Len(s) \in Nat /\ Len(s) > 0 /\ Len(Tail(s)) = Len(s) - 1
         /\ \A i \in 1..(Len(s) - 1) : Tail(s)[i] = s[i + 1]
         /\ Head(s) = s[1] /\ Head(s) \in S
OBVIOUS

-----------------------------------------------------------------------------
(* Lamport's circular buffer *)

CAt(i) == (head + i) % (Size + 1)
CSize == Len(items)
\* The cells from the head on hold the items; the tail is behind them.
CShape ==
    /\ CSize <= Size /\ tail = CAt(CSize)
    /\ \A i \in 0..(CSize - 1) : array[CAt(i)] = items[i + 1]
\* Only the producer adds and only the consumer takes, so what either has found
\* stays so; each side is in its own calls.
CBusy ==
    /\ pc[Producer] \notin C!PopPC /\ pc[Consumer] \notin C!PushPC
    /\ pc[Producer] \in C!PushPC => val[Producer] \in Value
    /\ pc[Producer] \in {"p_write", "p_tail"} => CSize < Size
    /\ pc[Producer] = "p_tail" => array[tail] = val[Producer]
    /\ pc[Consumer] \in {"c_read", "c_head"} => items # <<>>
    /\ pc[Consumer] = "c_head" => val[Consumer] = items[1]
CSaw ==
    \A t \in C!Side : /\ pc[t] \in C!PushPC /\ CSize = Size => saw[t]
                      /\ pc[t] \in C!PopPC /\ items = <<>> => saw[t]
                      /\ pc[t] = "refused" => saw[t]
CInv == C!TypeOK /\ CShape /\ CBusy /\ CSaw

\* The invariant holds after the constructor.
LEMMA CBegins ==
  ASSUME C!Constants, C!Init
  PROVE  CInv
<1>1. Size \in Nat /\ Size > 0 /\ Producer # Consumer /\ Size + 1 \in Nat \ {0} /\ 0 \in 0..((Size + 1) - 1)
  BY DEF C!Constants
<1>2. C!TypeOK
  <2>1. 0 \in C!Cell /\ <<>> \in Seq(Value)
    BY <1>1 DEF C!Cell, C!Capacity
  <2> QED BY <2>1 DEF C!Init, C!TypeOK
<1>3. CSize = 0 /\ CAt(0) = 0
  <2>1. (0 + 0) % (Size + 1) = 0
    <3> DEFINE c == Size + 1
    <3>1. c \in Nat \ {0} /\ 0 \in 0..(c - 1)
      BY <1>1
    <3> HIDE DEF c
    <3>2. (0 + 0) % c = 0
      BY <3>1, Ring
    <3> QED BY <3>2 DEF c
  <2> QED BY <2>1 DEF C!Init, CSize, CAt
<1>4. CShape
  BY <1>1, <1>3 DEF C!Init, CShape
<1>5. CBusy /\ CSaw
  BY <1>1 DEF C!Init, CBusy, CSaw, C!Side, C!PushPC, C!PopPC
<1> QED BY <1>2, <1>4, <1>5 DEF CInv

\* The cells of the items and the one behind them differ.
LEMMA CCells ==
  ASSUME C!Constants, CInv
  PROVE  /\ CSize \in Nat /\ CSize <= Size /\ Size \in Nat /\ Size > 0 /\ head \in 0..Size /\ tail \in 0..Size
         /\ \A i \in Int : CAt(i) \in 0..Size
         /\ \A i, j \in Int : CAt(i) = CAt(j) /\ i - j <= Size /\ j - i <= Size => i = j
         /\ CAt(0) = head
         /\ C!increment(tail) = CAt(CSize + 1)
         /\ C!increment(head) = CAt(1) /\ \A i \in Int : (C!increment(head) + i) % (Size + 1) = CAt(i + 1)
         /\ Producer # Consumer
<1> DEFINE c == Size + 1
<1>1. /\ c \in Nat \ {0} /\ c - 1 = Size /\ head \in 0..(c - 1) /\ tail \in 0..Size /\ Size \in Nat /\ Size > 0
      /\ CSize \in Nat /\ CSize <= Size /\ tail = CAt(CSize)
  BY DEF C!Constants, CInv, C!TypeOK, C!Cell, C!Capacity, CShape, CSize
<1>2. \A i, j \in Int : i - j <= Size => i - j < c
  BY <1>1
<1>3. C!Capacity = c /\ \A i : CAt(i) = (head + i) % c
  BY DEF C!Capacity, CAt
<1> HIDE DEF c
<1>4. /\ \A i \in Int : (head + i) % c \in 0..(c - 1)
      /\ \A i, j \in Int : (head + i) % c = (head + j) % c /\ i - j < c /\ j - i < c => i = j
      /\ (head + 0) % c = head
  BY <1>1, Ring
<1>5. \A i \in Int, j \in Int : (((head + i) % c) + j) % c = (head + (i + j)) % c
  BY <1>1, RingNext
<1>6. C!increment(tail) = CAt(CSize + 1)
  BY <1>1, <1>3, <1>5 DEF C!increment
<1>7. C!increment(head) = CAt(1) /\ \A i \in Int : (C!increment(head) + i) % c = CAt(i + 1)
  <2>1. \A i \in Int : (((head + 1) % c) + i) % c = (head + (1 + i)) % c /\ 1 + i = i + 1
    BY <1>5
  <2> QED BY <2>1, <1>3 DEF C!increment
<1>8. \A i \in Int : CAt(i) \in 0..Size
  BY <1>1, <1>3, <1>4
<1>9. ASSUME NEW i \in Int, NEW j \in Int, CAt(i) = CAt(j), i - j <= Size, j - i <= Size PROVE i = j
  <2>1. i - j < c /\ j - i < c
    BY <1>2, <1>9
  <2> QED BY <2>1, <1>3, <1>4, <1>9
<1>10. CAt(0) = head
  BY <1>3, <1>4
<1>11. \A i \in Int : (C!increment(head) + i) % (Size + 1) = CAt(i + 1)
  BY <1>7 DEF c
<1>12. head \in 0..Size /\ Producer # Consumer
  BY <1>1 DEF C!Constants
<1> QED BY <1>1, <1>6, <1>7, <1>8, <1>9, <1>10, <1>11, <1>12

\* A step keeps the types: an index that is moved on wraps at the end of the array.
LEMMA CTypeStep ==
  ASSUME C!Constants, CInv, C!Next
  PROVE  C!TypeOK'
<1>0. saw' \in [C!Side -> BOOLEAN]
  BY DEF C!Next, C!Watch
<1>1. /\ tail \in 0..Size /\ head \in 0..Size /\ C!increment(head) \in 0..Size /\ C!increment(tail) \in 0..Size
      /\ C!Cell = 0..Size /\ array[head] \in Value \cup {None}
  <2>1. C!Cell = 0..Size
    BY DEF C!Constants, C!Cell, C!Capacity
  <2>2. \A i \in Int : CAt(i) \in 0..Size
    BY CCells
  <2>3. CSize + 1 \in Int
    BY CCells
  <2>4. head \in 0..Size /\ tail \in 0..Size /\ C!increment(tail) = CAt(CSize + 1) /\ C!increment(head) = CAt(1)
    BY CCells
  <2>5. array[head] \in Value \cup {None}
    BY <2>4 DEF CInv, C!TypeOK
  <2> QED BY <2>1, <2>2, <2>3, <2>4, <2>5
<1>2. Producer \in C!Side /\ Consumer \in C!Side
  BY DEF C!Side
<1> USE <1>0, <1>1, <1>2 DEF C!TypeOK, CInv, C!Goto, C!PushPC, C!PopPC
<1>3. CASE \E v \in Value : C!Push(v)
  BY <1>3 DEF C!Push
<1>4. CASE C!PushCheck
  BY <1>4 DEF C!PushCheck
<1>5. CASE C!PushWrite
  BY <1>5 DEF C!PushWrite
<1>6. CASE C!PushTail
  <2>1. Append(items, val[Producer]) \in Seq(Value)
    BY <1>6 DEF CBusy, C!PushTail
  <2> QED BY <2>1, <1>6 DEF C!PushTail
<1>7. CASE C!Pop
  BY <1>7 DEF C!Pop
<1>8. CASE C!PopCheck
  BY <1>8 DEF C!PopCheck
<1>9. CASE C!PopRead
  BY <1>9 DEF C!PopRead
<1>10. CASE C!PopHead
  <2>1. SubSeq(items, 2, Len(items)) \in Seq(Value)
    BY <1>10, TailOf DEF CBusy, C!PopHead
  <2> QED BY <2>1, <1>10 DEF C!PopHead
<1>11. CASE \E t \in C!Side : C!Leave(t)
  BY <1>11 DEF C!Leave
<1> QED BY <1>3, <1>4, <1>5, <1>6, <1>7, <1>8, <1>9, <1>10, <1>11 DEF C!Next

\* What a call could be refused for, it has seen.
LEMMA CWatches ==
  ASSUME C!Watch, \A t \in C!Side : pc'[t] = "refused" => saw[t]
  PROVE  CSaw'
BY DEF CSaw, C!Watch, CSize

\* Every step keeps the invariant: the producer writes behind the items only, and what it has
\* found free stays free until it moves the tail; so does the consumer at the other end.
LEMMA CKeeps ==
  ASSUME C!Constants, CInv, C!Next
  PROVE  CInv'
<1>0. /\ C!TypeOK' /\ C!Watch /\ Producer # Consumer /\ Producer \in C!Side /\ Consumer \in C!Side
      /\ C!Side = {Producer, Consumer}
  BY CTypeStep, CCells DEF C!Next, C!Side
<1>1. ASSUME \A t \in C!Side : pc'[t] = "refused" => saw[t], CShape', CBusy' PROVE CInv'
  BY <1>0, <1>1, CWatches DEF CInv
<1>2. /\ CSize \in Nat /\ CSize <= Size /\ Size \in Nat /\ Size > 0 /\ items \in Seq(Value)
      /\ CSize = 0 <=> items = <<>>
  BY CCells DEF CInv, C!TypeOK, CSize
<1>3. CAt(CSize) = tail /\ CAt(0) = head
  BY CCells DEF CInv, CShape
<1>a. \A i, j \in Int : CAt(i) = CAt(j) /\ i - j <= Size /\ j - i <= Size => i = j
  BY CCells
<1> USE DEF C!Goto, C!PushPC, C!PopPC
\* A step that leaves array, indices and items as they are
<1>4. ASSUME UNCHANGED <<array, tail, head, items>> PROVE CShape'
  BY <1>4 DEF CInv, CShape, CSize, CAt
<1>5. CASE \E v \in Value : C!Push(v)
  <2>1. CBusy'
    BY <1>5, <1>0 DEF C!Push, CInv, CBusy, CSize, C!TypeOK
  <2>2. \A t \in C!Side : pc'[t] = "refused" => saw[t]
    BY <1>5 DEF C!Push, CInv, CSaw, C!TypeOK
  <2> QED BY <1>1, <1>4, <1>5, <2>1, <2>2 DEF C!Push
<1>6. CASE C!PushCheck
  <2>1. CASE C!increment(tail) # head
    <3>1. CSize < Size
      <4>1. CASE CSize = Size
        <5>1. (head + (Size + 1)) % (Size + 1) = head
          <6> DEFINE c == Size + 1
          <6>1. c \in Nat \ {0} /\ head \in Int /\ c * 1 = c /\ 1 \in Int /\ head \in 0..(c - 1)
            BY <1>2, CCells
          <6> HIDE DEF c
          <6>2. (head + c * 1) % c = head % c
            BY <6>1, ModShift
          <6>3. (head + 0) % c = head /\ head + 0 = head
            BY <6>1, Ring
          <6> QED BY <6>1, <6>2, <6>3 DEF c
        <5>2. C!increment(tail) = CAt(CSize + 1)
          BY CCells
        <5> QED BY <2>1, <4>1, <5>1, <5>2 DEF CAt
      <4> QED BY <4>1, <1>2
    <3>2. CBusy'
      BY <1>6, <1>0, <2>1, <3>1 DEF C!PushCheck, CInv, CBusy, CSize, C!TypeOK
    <3>3. \A t \in C!Side : pc'[t] = "refused" => saw[t]
      BY <1>6, <2>1 DEF C!PushCheck, CInv, CSaw, C!TypeOK
    <3> QED BY <1>1, <1>4, <1>6, <3>2, <3>3 DEF C!PushCheck
  <2>2. CASE C!increment(tail) = head
    <3>1. CSize = Size
      <4>1. CAt(CSize + 1) = CAt(0)
        BY <1>3, <2>2, CCells
      <4>2. CASE CSize < Size
        <5>1. CSize + 1 \in Int /\ 0 \in Int /\ (CSize + 1) - 0 <= Size /\ 0 - (CSize + 1) <= Size /\ CSize + 1 # 0
          BY <4>2, <1>2
        <5> QED BY <5>1, <4>1, <1>a
      <4> QED BY <4>2, <1>2
    <3>2. CBusy'
      BY <1>6, <1>0, <2>2 DEF C!PushCheck, CInv, CBusy, CSize, C!TypeOK
    <3>3. \A t \in C!Side : pc'[t] = "refused" => saw[t]
      BY <1>0, <1>6, <2>2, <3>1 DEF C!PushCheck, CInv, CSaw, C!TypeOK
    <3> QED BY <1>1, <1>4, <1>6, <3>2, <3>3 DEF C!PushCheck
  <2> QED BY <2>1, <2>2
<1>7. CASE C!PushWrite
  <2>1. /\ array' = [array EXCEPT ![tail] = val[Producer]] /\ tail' = tail /\ head' = head /\ items' = items
        /\ val' = val /\ CSize < Size
    BY <1>7 DEF C!PushWrite, CInv, CBusy
  <2>2. \A i \in 0..(CSize - 1) : CAt(i) # tail /\ CAt(i) \in 0..Size
    <3> SUFFICES ASSUME NEW i \in 0..(CSize - 1) PROVE CAt(i) # CAt(CSize) /\ CAt(i) \in 0..Size
      BY <1>3
    <3>1. i \in Int /\ CSize \in Int /\ i - CSize <= Size /\ CSize - i <= Size /\ i # CSize
      BY <1>2
    <3> QED BY <3>1, CCells
  <2>3. CShape'
    <3>1. \A i \in 0..(CSize - 1) : array'[CAt(i)] = items[i + 1]
      BY <2>1, <2>2 DEF CInv, CShape, C!TypeOK
    <3> QED BY <2>1, <3>1 DEF CInv, CShape, CSize, CAt
  <2>4. array'[tail] = val[Producer]
    BY <2>1, CCells DEF CInv, C!TypeOK
  <2>5. CBusy'
    BY <1>7, <1>0, <2>1, <2>4 DEF C!PushWrite, CInv, CBusy, CSize, C!TypeOK
  <2>6. \A t \in C!Side : pc'[t] = "refused" => saw[t]
    BY <1>7 DEF C!PushWrite, CInv, CSaw, C!TypeOK
  <2> QED BY <1>1, <2>3, <2>5, <2>6
<1>8. CASE C!PushTail
  <2>1. /\ array' = array /\ tail' = C!increment(tail) /\ head' = head /\ items' = Append(items, val[Producer])
        /\ val' = val /\ CSize < Size /\ array[tail] = val[Producer] /\ val[Producer] \in Value
    BY <1>8 DEF C!PushTail, CInv, CBusy
  <2>2. /\ Len(items') = CSize + 1 /\ \A i \in 1..CSize : items'[i] = items[i]
        /\ items'[CSize + 1] = val[Producer] /\ items' # <<>>
    BY <1>2, <2>1 DEF CSize
  <2>3. CShape'
    <3>1. \A i \in 0..((CSize + 1) - 1) : array[CAt(i)] = items'[i + 1]
      <4> SUFFICES ASSUME NEW i \in 0..((CSize + 1) - 1) PROVE array[CAt(i)] = items'[i + 1]
        OBVIOUS
      <4>1. CASE i = CSize
        BY <4>1, <1>3, <2>1, <2>2
      <4>2. CASE i < CSize
        <5>1. i \in 0..(CSize - 1) /\ i + 1 \in 1..CSize
          BY <1>2, <4>2
        <5> QED BY <5>1, <2>2 DEF CInv, CShape
      <4> QED BY <1>2, <4>1, <4>2
    <3>2. tail' = CAt(CSize + 1) /\ CSize + 1 <= Size
      BY <1>2, <2>1, CCells
    <3> QED BY <2>1, <2>2, <3>1, <3>2 DEF CShape, CSize, CAt
  <2>5. CBusy'
    <3>1. items # <<>> => items'[1] = items[1]
      BY <1>2, <2>2
    <3> QED BY <1>8, <1>0, <2>1, <2>2, <3>1 DEF C!PushTail, CInv, CBusy, C!TypeOK
  <2>6. \A t \in C!Side : pc'[t] = "refused" => saw[t]
    BY <1>8 DEF C!PushTail, CInv, CSaw, C!TypeOK
  <2> QED BY <1>1, <2>3, <2>5, <2>6
<1>9. CASE C!Pop
  <2>1. CBusy'
    BY <1>9, <1>0 DEF C!Pop, CInv, CBusy, CSize, C!TypeOK
  <2>2. \A t \in C!Side : pc'[t] = "refused" => saw[t]
    BY <1>9 DEF C!Pop, CInv, CSaw, C!TypeOK
  <2> QED BY <1>1, <1>4, <1>9, <2>1, <2>2 DEF C!Pop
<1>10. CASE C!PopCheck
  <2>0. head = tail <=> items = <<>>
    <3>1. CAt(CSize) = CAt(0) <=> CSize = 0
      <4>1. CSize \in Int /\ 0 \in Int /\ CSize - 0 <= Size /\ 0 - CSize <= Size
        BY <1>2
      <4> QED BY <4>1, <1>a
    <3> QED BY <3>1, <1>2, <1>3
  <2>1. CBusy'
    BY <1>10, <1>0, <2>0 DEF C!PopCheck, CInv, CBusy, CSize, C!TypeOK
  <2>2. \A t \in C!Side : pc'[t] = "refused" => saw[t]
    BY <1>10, <2>0, <1>0 DEF C!PopCheck, CInv, CSaw, C!TypeOK
  <2> QED BY <1>1, <1>4, <1>10, <2>1, <2>2 DEF C!PopCheck
<1>11. CASE C!PopRead
  <2>0. array[head] = items[1]
    <3>1. items # <<>> /\ CSize > 0 /\ 0 \in 0..(CSize - 1) /\ 0 + 1 = 1
      BY <1>2, <1>11 DEF C!PopRead, CInv, CBusy
    <3> QED BY <3>1, <1>3 DEF CInv, CShape
  <2>1. CBusy'
    BY <1>11, <1>0, <2>0 DEF C!PopRead, CInv, CBusy, CSize, C!TypeOK
  <2>2. \A t \in C!Side : pc'[t] = "refused" => saw[t]
    BY <1>11 DEF C!PopRead, CInv, CSaw, C!TypeOK
  <2> QED BY <1>1, <1>4, <1>11, <2>1, <2>2 DEF C!PopRead
<1>12. CASE C!PopHead
  <2>1. /\ array' = array /\ tail' = tail /\ head' = C!increment(head) /\ items' = SubSeq(items, 2, Len(items))
        /\ val' = val /\ items # <<>>
    BY <1>12 DEF C!PopHead, CInv, CBusy
  <2>2. Len(items') = CSize - 1 /\ \A i \in 1..(CSize - 1) : items'[i] = items[i + 1]
    BY <1>2, <2>1, TailOf DEF CSize
  <2>3. \A i \in Int : (head' + i) % (Size + 1) = CAt(i + 1)
    BY <2>1, CCells
  <2>4. CShape'
    <3>1. \A i \in 0..((CSize - 1) - 1) : array'[(head' + i) % (Size + 1)] = items'[i + 1]
      <4> SUFFICES ASSUME NEW i \in 0..((CSize - 1) - 1) PROVE array[(head' + i) % (Size + 1)] = items'[i + 1]
        BY <2>1
      <4>1. i \in Int /\ i + 1 \in 0..(CSize - 1) /\ i + 1 \in 1..(CSize - 1)
        BY <1>2
      <4> QED BY <4>1, <2>2, <2>3 DEF CInv, CShape
    <3>2. tail' = (head' + (CSize - 1)) % (Size + 1)
      <4>1. CSize - 1 \in Int /\ (CSize - 1) + 1 = CSize
        BY <1>2
      <4> QED BY <4>1, <1>3, <2>1, <2>3
    <3>3. CSize - 1 <= Size
      BY <1>2
    <3> QED BY <2>1, <2>2, <3>1, <3>2, <3>3 DEF CShape, CSize, CAt
  <2>5. CBusy'
    <3>1. CSize < Size => Len(items') < Size
      BY <1>2, <2>2
    <3> QED BY <1>12, <1>0, <2>1, <2>2, <3>1, <1>2 DEF C!PopHead, CInv, CBusy, CSize, C!TypeOK
  <2>6. \A t \in C!Side : pc'[t] = "refused" => saw[t]
    BY <1>12 DEF C!PopHead, CInv, CSaw, C!TypeOK
  <2> QED BY <1>1, <2>4, <2>5, <2>6
<1>13. CASE \E t \in C!Side : C!Leave(t)
  <2>1. CBusy'
    BY <1>13, <1>0 DEF C!Leave, CInv, CBusy, CSize, C!TypeOK
  <2>2. \A t \in C!Side : pc'[t] = "refused" => saw[t]
    BY <1>13 DEF C!Leave, CInv, CSaw, C!TypeOK
  <2> QED BY <1>1, <1>4, <1>13, <2>1, <2>2 DEF C!Leave
<1> QED BY <1>5, <1>6, <1>7, <1>8, <1>9, <1>10, <1>11, <1>12, <1>13 DEF C!Next

\* What the invariant says of the properties
LEMMA CShows ==
  ASSUME C!Constants, CInv
  PROVE  C!TypeOK /\ C!Layout /\ C!NoRace /\ C!Refusals
<1>0. CSize \in Nat /\ CSize <= Size /\ Size \in Nat /\ head \in Int /\ tail \in Int /\ tail = CAt(CSize)
      /\ items \in Seq(Value) /\ CSize = Len(items) /\ (CSize = 0 <=> items = <<>>)
  BY CCells DEF CInv, C!TypeOK, CShape, CSize
<1>1. (tail + (C!Capacity - head)) % C!Capacity = CSize
  <2> DEFINE c == Size + 1
             n == CSize
  <2>1. c \in Nat \ {0} /\ head \in 0..(c - 1) /\ n \in 0..(c - 1) /\ n \in Int /\ c - head \in Int
        /\ n + (c - head) = (c - head) + n
    BY <1>0, CCells
  <2>2. tail = (head + n) % c /\ C!Capacity = c
    BY <1>0 DEF CAt, C!Capacity
  <2> HIDE DEF c, n
  <2>3. (((head + n) % c) + (c - head)) % c = (head + (n + (c - head))) % c
    BY <2>1, RingNext
  <2>4. head + (n + (c - head)) = n + c * 1
    BY <2>1
  <2>5. (n + c * 1) % c = n % c
    <3> DEFINE k == 1
    <3>1. k \in Int
      OBVIOUS
    <3> HIDE DEF k
    <3>2. (n + c * k) % c = n % c
      BY <2>1, <3>1, ModShift
    <3> QED BY <3>2 DEF k
  <2>6. n = c * 0 + n
    BY <2>1
  <2>7. n % c = n
    BY <2>1, <2>6, ModIs
  <2> QED BY <2>2, <2>3, <2>4, <2>5, <2>7 DEF n
<1>2. ASSUME NEW i \in DOMAIN items PROVE array[(head + (i - 1)) % C!Capacity] = items[i]
  <2>1. i - 1 \in 0..(CSize - 1) /\ (i - 1) + 1 = i
    BY <1>0
  <2> QED BY <2>1 DEF CInv, CShape, CAt, C!Capacity
<1>3. C!Layout
  <2>1. tail + C!Capacity - head = tail + (C!Capacity - head) /\ \A i \in DOMAIN items : head + i - 1 = head + (i - 1)
    BY <1>0 DEF C!Capacity
  <2> QED BY <1>0, <1>1, <1>2, <2>1 DEF C!Layout
<1>4. C!NoRace
  <2> SUFFICES ASSUME pc[Producer] \in {"p_write", "p_tail"}, pc[Consumer] \in {"c_read", "c_head"} PROVE tail # head
    BY DEF C!NoRace
  <2>1. CSize > 0 /\ CSize < Size
    BY <1>0 DEF CInv, CBusy
  <2>2. CAt(CSize) # CAt(0)
    <3>1. CSize \in Int /\ 0 \in Int /\ CSize - 0 <= Size /\ 0 - CSize <= Size /\ CSize # 0
      BY <1>0, <2>1
    <3>2. \A i, j \in Int : CAt(i) = CAt(j) /\ i - j <= Size /\ j - i <= Size => i = j
      BY CCells
    <3> QED BY <3>1, <3>2
  <2> QED BY <2>2, <1>0, CCells
<1>5. C!Refusals
  BY DEF CInv, CSaw, C!Refusals
<1> QED BY <1>3, <1>4, <1>5 DEF CInv

-----------------------------------------------------------------------------
(* The FastForward queue: tail is the consumer's index, head the producer's *)

FAt(i) == (tail + i) % (Size + 1)
FSize == Len(items)
\* The cells from the consumer's index on hold the items, the others null.
FShape ==
    /\ FSize <= Size + 1 /\ head = FAt(FSize)
    /\ \A i \in 0..Size : array[FAt(i)] = IF i < FSize THEN items[i + 1] ELSE None
\* What either side has found in its cell stays there; each side is in its own calls.
FBusy ==
    /\ pc[Producer] \notin F!DeqPC /\ pc[Consumer] \notin F!EnqPC
    /\ pc[Producer] \in F!EnqPC => val[Producer] \in Value
    /\ pc[Producer] = "p_write" => FSize <= Size
    /\ pc[Consumer] = "c_clear" => items # <<>> /\ val[Consumer] = items[1]
FSaw ==
    \A t \in F!Side : /\ pc[t] \in F!EnqPC /\ FSize = Size + 1 => saw[t]
                      /\ pc[t] \in F!DeqPC /\ items = <<>> => saw[t]
                      /\ pc[t] = "refused" => saw[t]
FInv == F!TypeOK /\ FShape /\ FBusy /\ FSaw

\* The invariant holds after the constructor.
LEMMA FBegins ==
  ASSUME F!Constants, F!Init
  PROVE  FInv
<1>1. Size \in Nat /\ Size > 0 /\ Producer # Consumer /\ Size + 1 \in Nat \ {0} /\ 0 \in 0..((Size + 1) - 1)
  BY DEF F!Constants
<1>2. F!Cell = 0..Size
  BY <1>1 DEF F!Cell, F!Capacity
<1>3. F!TypeOK
  <2>1. 0 \in 0..Size /\ <<>> \in Seq(Value)
    BY <1>1
  <2> QED BY <1>2, <2>1 DEF F!Init, F!TypeOK
<1>4. \A i \in Int : FAt(i) \in 0..Size
  <2> DEFINE c == Size + 1
  <2>1. c \in Nat \ {0} /\ c - 1 = Size
    BY <1>1
  <2> HIDE DEF c
  <2>2. \A i \in Int : (0 + i) % c \in 0..(c - 1)
    BY <2>1, ModDef
  <2> QED BY <2>1, <2>2 DEF c, FAt, F!Init
<1>5. FSize = 0 /\ FAt(0) = 0
  <2> DEFINE c == Size + 1
  <2>1. c \in Nat \ {0} /\ 0 \in 0..(c - 1)
    BY <1>1
  <2> HIDE DEF c
  <2>2. (0 + 0) % c = 0
    BY <2>1, Ring
  <2> QED BY <2>2 DEF c, F!Init, FSize, FAt
<1>6. FShape
  <2>1. \A i \in 0..Size : array[FAt(i)] = None
    BY <1>2, <1>4 DEF F!Init
  <2> QED BY <1>1, <1>5, <2>1 DEF FShape, F!Init
<1>7. FBusy /\ FSaw
  BY <1>1, <1>5 DEF F!Init, FBusy, FSaw, F!Side, F!EnqPC, F!DeqPC
<1> QED BY <1>3, <1>6, <1>7 DEF FInv

\* The cells from the consumer's index on differ for a whole round.
LEMMA FCells ==
  ASSUME F!Constants, FInv
  PROVE  /\ FSize \in Nat /\ FSize <= Size + 1 /\ Size \in Nat /\ Size > 0 /\ head \in 0..Size /\ tail \in 0..Size
         /\ \A i \in Int : FAt(i) \in 0..Size
         /\ \A i, j \in Int : FAt(i) = FAt(j) /\ i - j <= Size /\ j - i <= Size => i = j
         /\ FAt(0) = tail /\ FAt(Size + 1) = tail
         /\ F!next(head) = FAt(FSize + 1)
         /\ F!next(tail) = FAt(1) /\ \A i \in Int : (F!next(tail) + i) % (Size + 1) = FAt(i + 1)
         /\ Producer # Consumer /\ None \notin Value
<1> DEFINE c == Size + 1
<1>1. /\ c \in Nat \ {0} /\ c - 1 = Size /\ tail \in 0..(c - 1) /\ head \in 0..Size /\ Size \in Nat /\ Size > 0
      /\ FSize \in Nat /\ FSize <= c /\ head = FAt(FSize) /\ tail \in Int
  BY DEF F!Constants, FInv, F!TypeOK, F!Cell, F!Capacity, FShape, FSize
<1>2. \A i, j \in Int : i - j <= Size => i - j < c
  BY <1>1
<1>3. F!Capacity = c /\ \A i : FAt(i) = (tail + i) % c
  BY DEF F!Capacity, FAt
<1> HIDE DEF c
<1>4. /\ \A i \in Int : (tail + i) % c \in 0..(c - 1)
      /\ \A i, j \in Int : (tail + i) % c = (tail + j) % c /\ i - j < c /\ j - i < c => i = j
      /\ (tail + 0) % c = tail
  BY <1>1, Ring
<1>5. \A i \in Int, j \in Int : (((tail + i) % c) + j) % c = (tail + (i + j)) % c
  BY <1>1, RingNext
<1>6. F!next(head) = FAt(FSize + 1)
  BY <1>1, <1>3, <1>5 DEF F!next
<1>7. F!next(tail) = FAt(1) /\ \A i \in Int : (F!next(tail) + i) % c = FAt(i + 1)
  <2>1. \A i \in Int : (((tail + 1) % c) + i) % c = (tail + (1 + i)) % c /\ 1 + i = i + 1
    BY <1>5
  <2> QED BY <2>1, <1>3 DEF F!next
<1>8. \A i \in Int : FAt(i) \in 0..Size
  BY <1>1, <1>3, <1>4
<1>9. ASSUME NEW i \in Int, NEW j \in Int, FAt(i) = FAt(j), i - j <= Size, j - i <= Size PROVE i = j
  <2>1. i - j < c /\ j - i < c
    BY <1>2, <1>9
  <2> QED BY <2>1, <1>3, <1>4, <1>9
<1>10. FAt(0) = tail /\ FAt(c) = tail
  <2>1. (tail + c) % c = tail % c
    <3> DEFINE k == 1
    <3>1. k \in Int /\ c * k = c
      BY <1>1
    <3> HIDE DEF k
    <3>2. (tail + c * k) % c = tail % c
      BY <1>1, <3>1, ModShift
    <3> QED BY <3>1, <3>2
  <2>2. tail + 0 = tail
    BY <1>1
  <2> QED BY <2>1, <2>2, <1>3, <1>4
<1>11. \A i \in Int : (F!next(tail) + i) % (Size + 1) = FAt(i + 1)
  BY <1>7 DEF c
<1>12. tail \in 0..Size /\ Producer # Consumer /\ None \notin Value
  BY <1>1 DEF F!Constants
<1> QED BY <1>1, <1>6, <1>7, <1>8, <1>9, <1>10, <1>11, <1>12 DEF c

\* A step keeps the types.
LEMMA FTypeStep ==
  ASSUME F!Constants, FInv, F!Next
  PROVE  F!TypeOK'
<1>0. saw' \in [F!Side -> BOOLEAN]
  BY DEF F!Next, F!Watch
<1>1. F!Cell = 0..Size
  BY DEF F!Constants, F!Cell, F!Capacity
<1>2. tail \in 0..Size /\ head \in 0..Size /\ F!next(head) \in 0..Size /\ F!next(tail) \in 0..Size
  <2>1. \A i \in Int : FAt(i) \in 0..Size
    BY FCells
  <2>2. FSize + 1 \in Int
    BY FCells
  <2> QED BY <2>1, <2>2, FCells
<1>3. array[tail] \in Value \cup {None}
  BY <1>1, <1>2 DEF FInv, F!TypeOK
<1>4. Producer \in F!Side /\ Consumer \in F!Side
  BY DEF F!Side
<1> USE <1>0, <1>1, <1>2, <1>3, <1>4 DEF F!TypeOK, FInv, F!Goto, F!EnqPC, F!DeqPC
<1>5. CASE \E v \in Value : F!Enqueue(v)
  BY <1>5 DEF F!Enqueue
<1>6. CASE F!EnqCheck
  BY <1>6 DEF F!EnqCheck
<1>7. CASE F!EnqWrite
  <2>1. Append(items, val[Producer]) \in Seq(Value)
    BY <1>7 DEF FBusy, F!EnqWrite
  <2> QED BY <2>1, <1>7 DEF F!EnqWrite
<1>8. CASE F!Dequeue
  BY <1>8 DEF F!Dequeue
<1>9. CASE F!DeqRead
  BY <1>9 DEF F!DeqRead
<1>10. CASE F!DeqClear
  <2>1. SubSeq(items, 2, Len(items)) \in Seq(Value)
    BY <1>10, TailOf DEF FBusy, F!DeqClear
  <2> QED BY <2>1, <1>10 DEF F!DeqClear
<1>11. CASE \E t \in F!Side : F!Leave(t)
  BY <1>11 DEF F!Leave
<1> QED BY <1>5, <1>6, <1>7, <1>8, <1>9, <1>10, <1>11 DEF F!Next

\* What a call could be refused for, it has seen.
LEMMA FWatches ==
  ASSUME F!Watch, \A t \in F!Side : pc'[t] = "refused" => saw[t]
  PROVE  FSaw'
BY DEF FSaw, F!Watch, FSize, F!Capacity

\* Every step keeps the invariant: a cell that holds null is free for the producer, and one that
\* does not is full for the consumer, until that side itself changes it.
LEMMA FKeeps ==
  ASSUME F!Constants, FInv, F!Next
  PROVE  FInv'
<1>0. /\ F!TypeOK' /\ F!Watch /\ Producer # Consumer /\ Producer \in F!Side /\ Consumer \in F!Side
      /\ F!Side = {Producer, Consumer} /\ None \notin Value
  BY FTypeStep, FCells DEF F!Next, F!Side
<1>1. ASSUME \A t \in F!Side : pc'[t] = "refused" => saw[t], FShape', FBusy' PROVE FInv'
  BY <1>0, <1>1, FWatches DEF FInv
<1>2. /\ FSize \in Nat /\ FSize <= Size + 1 /\ Size \in Nat /\ Size > 0 /\ items \in Seq(Value)
      /\ FSize = 0 <=> items = <<>>
  BY FCells DEF FInv, F!TypeOK, FSize
<1>3. FAt(FSize) = head /\ FAt(0) = tail /\ FAt(Size + 1) = tail
  BY FCells DEF FInv, FShape
<1>a. \A i, j \in Int : FAt(i) = FAt(j) /\ i - j <= Size /\ j - i <= Size => i = j
  BY FCells
<1>b. /\ head \in 0..Size /\ tail \in 0..Size /\ \A i \in Int : FAt(i) \in 0..Size
      /\ array \in [0..Size -> Value \cup {None}]
  <2>1. F!Cell = 0..Size
    BY DEF F!Constants, F!Cell, F!Capacity
  <2>2. array \in [0..Size -> Value \cup {None}]
    BY <2>1 DEF FInv, F!TypeOK
  <2> QED BY <2>2, FCells
<1> USE DEF F!Goto, F!EnqPC, F!DeqPC
\* A step that leaves array, indices and items as they are
<1>4. ASSUME UNCHANGED <<array, tail, head, items>> PROVE FShape'
  BY <1>4 DEF FInv, FShape, FSize, FAt
<1>5. CASE \E v \in Value : F!Enqueue(v)
  <2>1. FBusy'
    BY <1>5, <1>0 DEF F!Enqueue, FInv, FBusy, FSize, F!TypeOK
  <2>2. \A t \in F!Side : pc'[t] = "refused" => saw[t]
    BY <1>5 DEF F!Enqueue, FInv, FSaw, F!TypeOK
  <2> QED BY <1>1, <1>4, <1>5, <2>1, <2>2 DEF F!Enqueue
<1>6. CASE F!EnqCheck
  <2>1. array[head] = None <=> FSize <= Size
    <3>1. CASE FSize <= Size
      <4>1. FSize \in 0..Size
        BY <1>2, <3>1
      <4> QED BY <3>1, <4>1, <1>2, <1>3 DEF FInv, FShape
    <3>2. CASE FSize = Size + 1
      <4>1. 0 \in 0..Size /\ 0 < FSize /\ 0 + 1 = 1 /\ 1 \in 1..Len(items) /\ ~(FSize <= Size)
        BY <1>2, <3>2 DEF FSize
      <4>2. array[FAt(0)] = items[1]
        BY <4>1 DEF FInv, FShape
      <4>3. items[1] \in Value
        BY <1>2, <4>1
      <4> QED BY <4>1, <4>2, <4>3, <1>0, <1>3, <3>2
    <3> QED BY <3>1, <3>2, <1>2
  <2>2. FBusy'
    BY <1>6, <1>0, <2>1 DEF F!EnqCheck, FInv, FBusy, FSize, F!TypeOK
  <2>3. \A t \in F!Side : pc'[t] = "refused" => saw[t]
    <3>1. array[head] # None => saw[Producer]
      BY <1>0, <1>2, <1>6, <2>1 DEF F!EnqCheck, FInv, FSaw
    <3> QED BY <1>0, <1>6, <3>1 DEF F!EnqCheck, FInv, FSaw, F!TypeOK
  <2> QED BY <1>1, <1>4, <1>6, <2>2, <2>3 DEF F!EnqCheck
<1>7. CASE F!EnqWrite
  <2>1. /\ array' = [array EXCEPT ![head] = val[Producer]] /\ tail' = tail /\ head' = F!next(head)
        /\ items' = Append(items, val[Producer]) /\ val' = val /\ FSize <= Size /\ val[Producer] \in Value
    BY <1>7 DEF F!EnqWrite, FInv, FBusy
  <2>2. /\ Len(items') = FSize + 1 /\ \A i \in 1..FSize : items'[i] = items[i]
        /\ items'[FSize + 1] = val[Producer] /\ items' # <<>>
    BY <1>2, <2>1 DEF FSize
  <2>3. FShape'
    <3>1. ASSUME NEW i \in 0..Size
          PROVE  array'[FAt(i)] = IF i < FSize + 1 THEN items'[i + 1] ELSE None
      <4>1. CASE i = FSize
        <5>1. array'[head] = val[Producer]
          BY <1>b, <2>1
        <5> QED BY <4>1, <5>1, <1>2, <1>3, <2>2
      <4>2. CASE i # FSize
        <5>1. FAt(i) # head
          <6>1. i \in Int /\ FSize \in Int /\ i - FSize <= Size /\ FSize - i <= Size
            BY <1>2, <2>1
          <6> QED BY <6>1, <4>2, <1>3, <1>a
        <5>2. array'[FAt(i)] = array[FAt(i)]
          <6>1. i \in Int
            OBVIOUS
          <6> QED BY <5>1, <6>1, <1>b, <2>1
        <5>3. i < FSize <=> i < FSize + 1
          BY <1>2, <4>2
        <5>4. i < FSize => items'[i + 1] = items[i + 1]
          <6>1. i < FSize => i + 1 \in 1..FSize
            BY <1>2
          <6> QED BY <6>1, <2>2
        <5> QED BY <5>2, <5>3, <5>4 DEF FInv, FShape
      <4> QED BY <4>1, <4>2
    <3>2. head' = FAt(FSize + 1) /\ FSize + 1 <= Size + 1
      BY <1>2, <2>1, FCells
    <3> QED BY <2>1, <2>2, <3>1, <3>2 DEF FShape, FSize, FAt
  <2>4. FBusy'
    <3>1. items # <<>> => items'[1] = items[1]
      BY <1>2, <2>2
    <3> QED BY <1>7, <1>0, <2>1, <2>2, <3>1 DEF F!EnqWrite, FInv, FBusy, F!TypeOK
  <2>5. \A t \in F!Side : pc'[t] = "refused" => saw[t]
    BY <1>7 DEF F!EnqWrite, FInv, FSaw, F!TypeOK
  <2> QED BY <1>1, <2>3, <2>4, <2>5
<1>8. CASE F!Dequeue
  <2>1. FBusy'
    BY <1>8, <1>0 DEF F!Dequeue, FInv, FBusy, FSize, F!TypeOK
  <2>2. \A t \in F!Side : pc'[t] = "refused" => saw[t]
    BY <1>8 DEF F!Dequeue, FInv, FSaw, F!TypeOK
  <2> QED BY <1>1, <1>4, <1>8, <2>1, <2>2 DEF F!Dequeue
<1>9. CASE F!DeqRead
  <2>1. array[tail] = IF items = <<>> THEN None ELSE items[1]
    <3>1. 0 \in 0..Size /\ 0 + 1 = 1 /\ (0 < FSize <=> items # <<>>)
      BY <1>2
    <3> QED BY <3>1, <1>3 DEF FInv, FShape
  <2>2. items # <<>> => items[1] # None
    <3>1. items # <<>> => items[1] \in Value
      BY <1>2
    <3> QED BY <3>1, <1>0
  <2>3. FBusy'
    BY <1>9, <1>0, <2>1, <2>2 DEF F!DeqRead, FInv, FBusy, FSize, F!TypeOK
  <2>4. \A t \in F!Side : pc'[t] = "refused" => saw[t]
    <3>1. array[tail] = None => saw[Consumer]
      BY <1>0, <1>9, <2>1, <2>2 DEF F!DeqRead, FInv, FSaw
    <3> QED BY <1>0, <1>9, <3>1 DEF F!DeqRead, FInv, FSaw, F!TypeOK
  <2> QED BY <1>1, <1>4, <1>9, <2>3, <2>4 DEF F!DeqRead
<1>10. CASE F!DeqClear
  <2>1. /\ array' = [array EXCEPT ![tail] = None] /\ tail' = F!next(tail) /\ head' = head
        /\ items' = SubSeq(items, 2, Len(items)) /\ val' = val /\ items # <<>>
    BY <1>10 DEF F!DeqClear, FInv, FBusy
  <2>2. Len(items') = FSize - 1 /\ \A i \in 1..(FSize - 1) : items'[i] = items[i + 1]
    BY <1>2, <2>1, TailOf DEF FSize
  <2>3. \A i \in Int : (tail' + i) % (Size + 1) = FAt(i + 1)
    BY <2>1, FCells
  <2>4. FShape'
    <3>1. ASSUME NEW i \in 0..Size
          PROVE  array'[(tail' + i) % (Size + 1)] = IF i < FSize - 1 THEN items'[i + 1] ELSE None
      <4>0. i \in Int /\ (tail' + i) % (Size + 1) = FAt(i + 1)
        BY <2>3
      <4>1. CASE i = Size
        <5>1. array'[tail] = None
          BY <1>b, <2>1
        <5> QED BY <4>0, <4>1, <5>1, <1>2, <1>3
      <4>2. CASE i < Size
        <5>1. i + 1 \in 0..Size /\ i + 1 \in Int /\ (i + 1) - 0 <= Size /\ 0 - (i + 1) <= Size /\ i + 1 # 0 /\ 0 \in Int
          BY <1>2, <4>2
        <5>2. FAt(i + 1) # tail
          BY <5>1, <1>3, <1>a
        <5>3. array'[FAt(i + 1)] = array[FAt(i + 1)]
          BY <5>1, <5>2, <1>b, <2>1
        <5>4. i < FSize - 1 <=> i + 1 < FSize
          BY <1>2
        <5>5. i < FSize - 1 => items'[i + 1] = items[(i + 1) + 1]
          <6>1. i < FSize - 1 => i + 1 \in 1..(FSize - 1)
            BY <1>2
          <6> QED BY <6>1, <2>2
        <5> QED BY <4>0, <5>1, <5>3, <5>4, <5>5 DEF FInv, FShape
      <4> QED BY <4>1, <4>2, <1>2
    <3>2. head' = (tail' + (FSize - 1)) % (Size + 1)
      <4>1. FSize - 1 \in Int /\ (FSize - 1) + 1 = FSize
        BY <1>2
      <4> QED BY <4>1, <1>3, <2>1, <2>3
    <3>3. FSize - 1 <= Size + 1
      BY <1>2
    <3> QED BY <2>1, <2>2, <3>1, <3>2, <3>3 DEF FShape, FSize, FAt
  <2>5. FBusy'
    <3>1. FSize <= Size => Len(items') <= Size
      BY <1>2, <2>2
    <3> QED BY <1>10, <1>0, <2>1, <2>2, <3>1, <1>2 DEF F!DeqClear, FInv, FBusy, FSize, F!TypeOK
  <2>6. \A t \in F!Side : pc'[t] = "refused" => saw[t]
    BY <1>10 DEF F!DeqClear, FInv, FSaw, F!TypeOK
  <2> QED BY <1>1, <2>4, <2>5, <2>6
<1>11. CASE \E t \in F!Side : F!Leave(t)
  <2>1. FBusy'
    BY <1>11, <1>0 DEF F!Leave, FInv, FBusy, FSize, F!TypeOK
  <2>2. \A t \in F!Side : pc'[t] = "refused" => saw[t]
    BY <1>11 DEF F!Leave, FInv, FSaw, F!TypeOK
  <2> QED BY <1>1, <1>4, <1>11, <2>1, <2>2 DEF F!Leave
<1> QED BY <1>5, <1>6, <1>7, <1>8, <1>9, <1>10, <1>11 DEF F!Next

\* What the invariant says of the properties
LEMMA FShows ==
  ASSUME F!Constants, FInv
  PROVE  F!TypeOK /\ F!Layout /\ F!NoRace /\ C!Refusals
<1>0. FSize \in Nat /\ FSize <= Size + 1 /\ Size \in Nat /\ tail \in Int /\ head = FAt(FSize)
      /\ items \in Seq(Value) /\ FSize = Len(items) /\ (FSize = 0 <=> items = <<>>)
  BY FCells DEF FInv, F!TypeOK, FShape, FSize
<1>1. F!Layout
  <2>1. ASSUME NEW i \in 1..F!Capacity
        PROVE  array[(tail + i - 1) % F!Capacity] = IF i <= Len(items) THEN items[i] ELSE None
    <3>1. i - 1 \in 0..Size /\ (i - 1) + 1 = i /\ tail + i - 1 = tail + (i - 1) /\ (i - 1 < FSize <=> i <= Len(items))
      BY <1>0 DEF F!Capacity
    <3> QED BY <3>1 DEF FInv, FShape, FAt, F!Capacity
  <2> QED BY <1>0, <2>1 DEF F!Layout, F!Capacity, FAt
<1>2. F!NoRace
  <2> SUFFICES ASSUME pc[Producer] = "p_write", pc[Consumer] = "c_clear" PROVE tail # head
    BY DEF F!NoRace
  <2>1. FSize > 0 /\ FSize <= Size
    BY <1>0 DEF FInv, FBusy
  <2>2. FAt(FSize) # FAt(0)
    <3>1. FSize \in Int /\ 0 \in Int /\ FSize - 0 <= Size /\ 0 - FSize <= Size /\ FSize # 0
      BY <1>0, <2>1
    <3>2. \A i, j \in Int : FAt(i) = FAt(j) /\ i - j <= Size /\ j - i <= Size => i = j
      BY FCells
    <3> QED BY <3>1, <3>2
  <2> QED BY <2>2, <1>0, FCells
<1>3. C!Refusals
  BY DEF FInv, FSaw, C!Refusals, C!Side, F!Side
<1> QED BY <1>1, <1>2, <1>3 DEF FInv

-----------------------------------------------------------------------------
(* The queue with two locks *)

RSize == Len(items)
\* The i-th node of the list: the dummy, then the items
RAt(i) == IF i = 0 THEN head ELSE items[i]
HeadPC == {"d_next", "d_data", "d_move", "d_unlock", "d_give", "c_tail", "c_walk", "c_unlock", "c_unlock2"}
TailPC == {"e_link", "e_tail", "e_unlock", "c_walk", "c_unlock"}
\* A lock is held from the step that takes it to the step that gives it back.
RLocks ==
    \A t \in Thread : (headLock = t <=> pc[t] \in HeadPC) /\ (tailLock = t <=> pc[t] \in TailPC)
\* The list is a chain of different nodes, none of them free; m_pTail is its last, unless an
\* enqueue is about to move it there.
RShape ==
    /\ \A i \in 0..RSize : next[RAt(i)] = IF i = RSize THEN Null ELSE RAt(i + 1)
    /\ \A i \in 0..RSize : RAt(i) \in Node \ unused
    /\ \A i, j \in 0..RSize : RAt(i) = RAt(j) => i = j
    /\ (\A t \in Thread : pc[t] # "e_tail") => tail = RAt(RSize)
\* A node not yet linked, or taken out, is its thread's alone.
OwnPC == {"e_lock", "e_link", "d_unlock", "d_free"}
ROwn ==
    \A t \in Thread :
        pc[t] \in OwnPC => /\ node[t] \in Node \ unused
                           /\ \A i \in 0..RSize : RAt(i) # node[t]
                           /\ \A u \in Thread : pc[u] \in OwnPC /\ node[u] = node[t] => u = t
\* What a call knows of its nodes
RKnows(t) ==
    /\ pc[t] \in {"e_lock", "e_link"} => next[node[t]] = Null /\ data[node[t]] = val[t] /\ val[t] \in Value
    /\ pc[t] = "e_tail" => node[t] = RAt(RSize)
    /\ pc[t] \in {"d_data", "d_move"} => RSize > 0 /\ node[t] = head /\ nxt[t] = items[1]
    /\ pc[t] = "d_move" => val[t] = data[nxt[t]]
RBusy == \A t \in Thread : RKnows(t)
RSaw ==
    \A t \in Thread : /\ pc[t] \in R!DeqPC \cup {"refused"} /\ items = <<>> => saw[t]
                      /\ pc[t] \in {"d_give", "refused"} => saw[t]
RInv == R!RWTypeOK /\ RLocks /\ RShape /\ ROwn /\ RBusy /\ RSaw

\* What the queue needs of the constants
RConstants == L!TaggedConstants /\ Null \notin Thread

\* The invariant holds at the beginning.
LEMMA RBegins ==
  ASSUME RConstants, R!RWInit
  PROVE  RInv
<1>1. R!RWTypeOK
  <2>1. <<>> \in Seq(Node)
    OBVIOUS
  <2> QED BY <2>1 DEF R!RWInit, R!RWTypeOK
<1>2. RLocks /\ ROwn /\ RBusy /\ RSaw
  BY DEF RConstants, R!RWInit, RLocks, ROwn, RBusy, RKnows, RSaw, HeadPC, TailPC, OwnPC, R!DeqPC
<1>3. RSize = 0 /\ RAt(0) = head /\ 0..0 = {0}
  BY DEF R!RWInit, RSize, RAt
<1>4. RShape
  <2>1. \A i \in 0..RSize : i = 0 /\ RAt(i) = head
    BY <1>3
  <2> QED BY <1>3, <2>1 DEF RShape, R!RWInit
<1> QED BY <1>1, <1>2, <1>4 DEF RInv

\* Nodes of the list are nodes, and the list of the layout is that of the invariant.
LEMMA RList ==
  ASSUME R!RWTypeOK
  PROVE  /\ RSize \in Nat /\ items \in Seq(Node) /\ head \in Node
         /\ \A i \in 0..RSize : RAt(i) \in Node
         /\ RAt(0) = head /\ \A i \in 1..RSize : RAt(i) = items[i]
         /\ (RSize = 0 <=> items = <<>>)
         /\ Len(<<head>> \o items) = RSize + 1
         /\ \A i \in 1..(RSize + 1) : (<<head>> \o items)[i] = RAt(i - 1)
<1>1. RSize \in Nat /\ items \in Seq(Node) /\ head \in Node
  BY DEF R!RWTypeOK, RSize
<1>2. \A i \in 1..RSize : items[i] \in Node /\ i # 0
  BY <1>1 DEF RSize
<1>3. (RSize = 0 <=> items = <<>>)
  BY <1>1 DEF RSize
<1>4. /\ Len(<<head>> \o items) = RSize + 1
      /\ (<<head>> \o items)[1] = head
      /\ \A i \in 2..(RSize + 1) : (<<head>> \o items)[i] = items[i - 1]
  BY <1>1 DEF RSize
<1>5. \A i \in 0..RSize : RAt(i) \in Node
  BY <1>1, <1>2 DEF RAt
<1>6. ASSUME NEW i \in 1..(RSize + 1) PROVE (<<head>> \o items)[i] = RAt(i - 1)
  <2>1. CASE i = 1
    BY <2>1, <1>4 DEF RAt
  <2>2. CASE i # 1
    <3>1. i \in 2..(RSize + 1) /\ i - 1 # 0
      BY <1>1, <2>2
    <3> QED BY <3>1, <1>4 DEF RAt
  <2> QED BY <2>1, <2>2
<1> QED BY <1>1, <1>2, <1>3, <1>4, <1>5, <1>6 DEF RAt

\* A lock is taken only when nobody has it, and given back only by the thread that has it.
LEMMA RLocksStep ==
  ASSUME RConstants, R!RWTypeOK, RLocks, R!RWNext
  PROVE  RLocks'
<1>0. Null \notin Thread /\ pc \in [Thread -> {"idle", "refused"} \cup R!EnqPC \cup R!DeqPC \cup R!ClearPC \cup R!DonePC]
  BY DEF RConstants, R!RWTypeOK
<1>1. ASSUME NEW t \in Thread, NEW to, pc' = [pc EXCEPT ![t] = to],
             headLock' = (IF to \in HeadPC THEN t ELSE IF pc[t] \in HeadPC THEN Null ELSE headLock),
             tailLock' = (IF to \in TailPC THEN t ELSE IF pc[t] \in TailPC THEN Null ELSE tailLock),
             to \in HeadPC => pc[t] \in HeadPC \/ headLock = Null,
             to \in TailPC => pc[t] \in TailPC \/ tailLock = Null
      PROVE  RLocks'
  <2>1. ASSUME NEW u \in Thread PROVE (headLock' = u <=> pc'[u] \in HeadPC) /\ (tailLock' = u <=> pc'[u] \in TailPC)
    <3>1. CASE u = t
      <4>1. pc'[u] = to
        BY <1>0, <1>1, <3>1
      <4>2. headLock' = u <=> to \in HeadPC
        BY <1>0, <1>1, <3>1 DEF RLocks
      <4>3. tailLock' = u <=> to \in TailPC
        BY <1>0, <1>1, <3>1 DEF RLocks
      <4> QED BY <4>1, <4>2, <4>3
    <3>2. CASE u # t
      <4>1. pc'[u] = pc[u] /\ u # Null
        BY <1>0, <1>1, <3>2
      <4>2. (headLock = u <=> pc[u] \in HeadPC) /\ (headLock = t <=> pc[t] \in HeadPC)
            /\ (tailLock = u <=> pc[u] \in TailPC) /\ (tailLock = t <=> pc[t] \in TailPC)
        BY DEF RLocks
      <4>3. headLock' = u <=> headLock = u
        BY <1>1, <3>2, <4>1, <4>2
      <4>4. tailLock' = u <=> tailLock = u
        BY <1>1, <3>2, <4>1, <4>2
      <4> QED BY <4>1, <4>2, <4>3, <4>4
    <3> QED BY <3>1, <3>2
  <2> QED BY <2>1 DEF RLocks
<1>2. PICK t \in Thread :
          \/ \E v \in Value, n \in Node : R!Enqueue(t, v, n)
          \/ R!LockTail(t, "e_lock", "e_link") \/ R!EnqLink(t) \/ R!EnqTail(t)
          \/ R!UnlockTail(t, "e_unlock", "done")
          \/ R!Dequeue(t) \/ R!LockHead(t, "d_lock", "d_next") \/ R!DeqNext(t) \/ R!DeqData(t) \/ R!DeqMove(t)
          \/ R!UnlockHead(t, "d_unlock", "d_free") \/ R!UnlockHead(t, "d_give", "refused") \/ R!DeqFree(t)
          \/ R!Clear(t) \/ R!LockHead(t, "c_head", "c_tail") \/ R!LockTail(t, "c_tail", "c_walk") \/ R!ClearWalk(t)
          \/ R!UnlockTail(t, "c_unlock", "c_unlock2") \/ R!UnlockHead(t, "c_unlock2", "done")
          \/ R!Leave(t)
  BY DEF R!RWNext
<1>3. (headLock = t <=> pc[t] \in HeadPC) /\ (tailLock = t <=> pc[t] \in TailPC)
  BY DEF RLocks
<1> USE DEF R!Goto, HeadPC, TailPC, R!lockVars
<1>4. CASE \/ R!LockTail(t, "e_lock", "e_link") \/ R!UnlockTail(t, "e_unlock", "done")
           \/ R!LockTail(t, "c_tail", "c_walk") \/ R!UnlockTail(t, "c_unlock", "c_unlock2")
  BY <1>1, <1>3, <1>4 DEF R!LockTail, R!UnlockTail
<1>5. CASE \/ R!LockHead(t, "d_lock", "d_next") \/ R!UnlockHead(t, "d_unlock", "d_free")
           \/ R!UnlockHead(t, "d_give", "refused") \/ R!LockHead(t, "c_head", "c_tail")
           \/ R!UnlockHead(t, "c_unlock2", "done")
  BY <1>1, <1>3, <1>5 DEF R!LockHead, R!UnlockHead
<1>6. CASE \/ \E v \in Value, n \in Node : R!Enqueue(t, v, n)
           \/ R!EnqLink(t) \/ R!EnqTail(t) \/ R!Dequeue(t) \/ R!Clear(t) \/ R!Leave(t)
  BY <1>1, <1>3, <1>6 DEF R!Enqueue, R!EnqLink, R!EnqTail, R!Dequeue, R!Clear, R!Leave
<1>7. CASE R!DeqNext(t) \/ R!DeqData(t) \/ R!DeqMove(t) \/ R!DeqFree(t) \/ R!ClearWalk(t)
  <2>1. CASE R!DeqNext(t)
    BY <1>1, <1>3, <2>1 DEF R!DeqNext
  <2>2. CASE R!DeqData(t)
    BY <1>1, <1>3, <2>2 DEF R!DeqData
  <2>3. CASE R!DeqMove(t)
    BY <1>1, <1>3, <2>3 DEF R!DeqMove
  <2>4. CASE R!DeqFree(t)
    BY <1>1, <1>3, <2>4 DEF R!DeqFree
  <2>5. CASE R!ClearWalk(t)
    BY <1>1, <1>3, <2>5 DEF R!ClearWalk
  <2> QED BY <1>7, <2>1, <2>2, <2>3, <2>4, <2>5
<1> QED BY <1>2, <1>4, <1>5, <1>6, <1>7

\* What a call could be refused for, it has seen.
LEMMA RWatches ==
  ASSUME R!Watch, \A t \in Thread : pc'[t] \in {"d_give", "refused"} => pc[t] \in R!DeqPC \cup {"refused"} /\ saw[t]
  PROVE  RSaw'
BY DEF RSaw, R!Watch, R!DeqPC

\* A step that leaves the list and the other threads' locals as they are
LEMMA RQuiet ==
  ASSUME RConstants, RInv, NEW t \in Thread, UNCHANGED <<head, tail, next, data, unused, items>>,
         \A u \in Thread \ {t} : pc'[u] = pc[u] /\ node'[u] = node[u] /\ nxt'[u] = nxt[u] /\ val'[u] = val[u],
         pc'[t] \in OwnPC => pc[t] \in OwnPC /\ node'[t] = node[t],
         pc[t] # "e_tail", RKnows(t)'
  PROVE  RShape' /\ ROwn' /\ RBusy'
<1>1. RSize' = RSize /\ \A i : RAt(i)' = RAt(i)
  BY DEF RSize, RAt
<1>2. RShape'
  <2>1. RSize \in Nat /\ \A i \in 0..RSize : RAt(i + 1)' = RAt(i + 1)
    BY RList DEF RInv, RAt
  <2>2. (\A u \in Thread : pc'[u] # "e_tail") => (\A u \in Thread : pc[u] # "e_tail")
    OBVIOUS
  <2>3. RAt(RSize)' = RAt(RSize)
    BY DEF RAt, RSize
  <2>4. /\ \A i \in 0..RSize : next[RAt(i)] = IF i = RSize THEN Null ELSE RAt(i + 1)
        /\ \A i \in 0..RSize : RAt(i) \in Node \ unused
        /\ \A i, j \in 0..RSize : RAt(i) = RAt(j) => i = j
        /\ (\A u \in Thread : pc[u] # "e_tail") => tail = RAt(RSize)
    BY DEF RInv, RShape
  <2> QED BY <1>1, <2>1, <2>2, <2>3, <2>4 DEF RShape
<1>3. ROwn'
  BY <1>1 DEF RInv, ROwn
<1>4. RBusy'
  <2> SUFFICES ASSUME NEW u \in Thread PROVE RKnows(u)'
    BY DEF RBusy
  <2>1. CASE u # t
    <3>1. RAt(RSize)' = RAt(RSize)
      BY DEF RAt, RSize
    <3> QED BY <1>1, <2>1, <3>1 DEF RInv, RBusy, RKnows
  <2> QED BY <2>1
<1> QED BY <1>2, <1>3, <1>4

\* Every step of the queue keeps the types.
LEMMA RTypeStep ==
  ASSUME RConstants, RInv, R!RWNext
  PROVE  R!RWTypeOK'
<1>0. saw' \in [Thread -> BOOLEAN]
  BY DEF R!RWNext, R!Watch
<1>1. RSize \in Nat /\ items \in Seq(Node) /\ head \in Node /\ \A i \in 0..RSize : RAt(i) \in Node
  BY RList DEF RInv
<1>2. PICK t \in Thread :
          \/ \E v \in Value, n \in Node : R!Enqueue(t, v, n)
          \/ R!LockTail(t, "e_lock", "e_link") \/ R!EnqLink(t) \/ R!EnqTail(t)
          \/ R!UnlockTail(t, "e_unlock", "done")
          \/ R!Dequeue(t) \/ R!LockHead(t, "d_lock", "d_next") \/ R!DeqNext(t) \/ R!DeqData(t) \/ R!DeqMove(t)
          \/ R!UnlockHead(t, "d_unlock", "d_free") \/ R!UnlockHead(t, "d_give", "refused") \/ R!DeqFree(t)
          \/ R!Clear(t) \/ R!LockHead(t, "c_head", "c_tail") \/ R!LockTail(t, "c_tail", "c_walk") \/ R!ClearWalk(t)
          \/ R!UnlockTail(t, "c_unlock", "c_unlock2") \/ R!UnlockHead(t, "c_unlock2", "done")
          \/ R!Leave(t)
  BY DEF R!RWNext
<1>3. RKnows(t)
  BY DEF RInv, RBusy
<1>4. pc[t] \in {"e_lock", "e_link", "e_tail", "d_free"} => node[t] \in Node
  BY <1>1, <1>3 DEF RInv, ROwn, OwnPC, RKnows
<1>5. pc[t] \in {"d_data", "d_move"} => nxt[t] \in Node /\ items # <<>>
  BY <1>1, <1>3 DEF RKnows, RSize
<1> USE <1>0 DEF R!RWTypeOK, RInv, R!Goto, R!EnqPC, R!DeqPC, R!ClearPC, R!DonePC, R!lockVars, R!queueVars, R!localVars
<1>6. CASE \/ R!LockTail(t, "e_lock", "e_link") \/ R!UnlockTail(t, "e_unlock", "done")
           \/ R!LockTail(t, "c_tail", "c_walk") \/ R!UnlockTail(t, "c_unlock", "c_unlock2")
  BY <1>6 DEF R!LockTail, R!UnlockTail
<1>7. CASE \/ R!LockHead(t, "d_lock", "d_next") \/ R!UnlockHead(t, "d_unlock", "d_free")
           \/ R!UnlockHead(t, "d_give", "refused") \/ R!LockHead(t, "c_head", "c_tail")
           \/ R!UnlockHead(t, "c_unlock2", "done")
  BY <1>7 DEF R!LockHead, R!UnlockHead
<1>8. CASE \E v \in Value, n \in Node : R!Enqueue(t, v, n)
  BY <1>8 DEF R!Enqueue
<1>9. CASE R!EnqLink(t)
  <2>1. Append(items, node[t]) \in Seq(Node) /\ node[t] \in Node
    BY <1>1, <1>4, <1>9 DEF R!EnqLink
  <2> QED BY <1>9, <2>1 DEF R!EnqLink
<1>10. CASE R!EnqTail(t) \/ R!Dequeue(t) \/ R!Clear(t) \/ R!Leave(t)
  BY <1>4, <1>10 DEF R!EnqTail, R!Dequeue, R!Clear, R!Leave
<1>11. CASE R!DeqNext(t)
  BY <1>1, <1>11 DEF R!DeqNext
<1>12. CASE R!DeqData(t)
  BY <1>5, <1>12 DEF R!DeqData
<1>13. CASE R!DeqMove(t)
  <2>1. Tail(items) \in Seq(Node)
    BY <1>1, <1>5, <1>13, TailOf DEF R!DeqMove
  <2> QED BY <1>5, <1>13, <2>1 DEF R!DeqMove
<1>14. CASE R!DeqFree(t)
  BY <1>4, <1>14 DEF R!DeqFree
<1>15. CASE R!ClearWalk(t)
  <2>1. /\ Len(<<head>> \o items) = RSize + 1
        /\ \A i \in 1..(RSize + 1) : (<<head>> \o items)[i] = RAt(i - 1)
    BY RList
  <2>2. \A i \in 1..(RSize + 1) : (<<head>> \o items)[i] \in Node
    <3>1. \A i \in 1..(RSize + 1) : i - 1 \in 0..RSize
      BY <1>1
    <3> QED BY <1>1, <2>1, <3>1
  <2>3. RSize + 1 \in 1..(RSize + 1) /\ 1..((RSize + 1) - 1) \subseteq 1..(RSize + 1)
    BY <1>1
  <2>4. head' \in Node /\ unused' \subseteq Node
    BY <1>15, <2>1, <2>2, <2>3 DEF R!ClearWalk
  <2>5. <<>> \in Seq(Node)
    OBVIOUS
  <2> QED BY <1>15, <2>4, <2>5 DEF R!ClearWalk
<1> QED BY <1>2, <1>6, <1>7, <1>8, <1>9, <1>10, <1>11, <1>12, <1>13, <1>14, <1>15

\* A call gets a node of its own.
LEMMA REnqueue ==
  ASSUME RConstants, RInv, NEW t \in Thread, NEW v \in Value, NEW n \in Node, R!Enqueue(t, v, n)
  PROVE  RShape' /\ ROwn' /\ RBusy'
<1>0. RSize \in Nat /\ \A i \in 0..RSize : RAt(i) \in Node /\ RAt(i) \notin unused
  BY RList DEF RInv, RShape
<1>1. /\ head' = head /\ tail' = tail /\ items' = items /\ nxt' = nxt
      /\ n \in unused /\ unused' = unused \ {n}
      /\ next' = [next EXCEPT ![n] = Null] /\ data' = [data EXCEPT ![n] = v]
      /\ pc[t] = "idle" /\ pc'[t] = "e_lock" /\ node'[t] = n /\ val'[t] = v
      /\ \A u \in Thread \ {t} : pc'[u] = pc[u] /\ node'[u] = node[u] /\ val'[u] = val[u]
      /\ next'[n] = Null /\ data'[n] = v
      /\ \A m \in Node \ {n} : next'[m] = next[m] /\ data'[m] = data[m]
  BY DEF R!Enqueue, R!Goto, R!lockVars, RInv, R!RWTypeOK
<1>2. /\ RSize' = RSize /\ RAt(RSize)' = RAt(RSize) /\ \A i : RAt(i)' = RAt(i)
  BY <1>1 DEF RSize, RAt
<1>3. \A i \in 0..RSize : RAt(i) # n
  BY <1>0, <1>1
<1>4. RShape'
  <2>1. /\ \A i \in 0..RSize : next[RAt(i)] = IF i = RSize THEN Null ELSE RAt(i + 1)
        /\ \A i, j \in 0..RSize : RAt(i) = RAt(j) => i = j
        /\ (\A u \in Thread : pc[u] # "e_tail") => tail = RAt(RSize)
    BY DEF RInv, RShape
  <2>2. (\A u \in Thread : pc'[u] # "e_tail") => (\A u \in Thread : pc[u] # "e_tail")
    BY <1>1
  <2>3. \A i \in 0..RSize : next'[RAt(i)] = IF i = RSize THEN Null ELSE RAt(i + 1)
    BY <1>0, <1>1, <1>3, <2>1
  <2>4. \A i \in 0..RSize : RAt(i + 1)' = RAt(i + 1)
    BY <1>1 DEF RAt
  <2> QED BY <1>0, <1>1, <1>2, <2>1, <2>2, <2>3, <2>4 DEF RShape
<1>5. \A u \in Thread \ {t} : pc[u] \in OwnPC => node[u] # n
  BY <1>1 DEF RInv, ROwn
<1>6. ROwn'
  <2> SUFFICES ASSUME NEW u \in Thread, pc'[u] \in OwnPC
               PROVE  /\ node'[u] \in Node \ unused'
                      /\ \A i \in 0..RSize : RAt(i) # node'[u]
                      /\ \A w \in Thread : pc'[w] \in OwnPC /\ node'[w] = node'[u] => w = u
    BY <1>2 DEF ROwn
  <2>1. CASE u = t
    BY <1>1, <1>3, <1>5, <2>1
  <2>2. CASE u # t
    BY <1>1, <1>5, <2>2 DEF RInv, ROwn
  <2> QED BY <2>1, <2>2
<1>7. RBusy'
  <2> SUFFICES ASSUME NEW u \in Thread PROVE RKnows(u)'
    BY DEF RBusy
  <2>1. CASE u = t
    BY <1>1, <2>1 DEF RKnows
  <2>2. CASE u # t
    <3>1. pc[u] \in {"e_lock", "e_link"} => node[u] \in Node \ {n}
      BY <1>5, <2>2 DEF RInv, ROwn, OwnPC
    <3>2. RKnows(u)
      BY DEF RInv, RBusy
    <3>3. pc[u] \in {"d_data", "d_move"} => nxt[u] \in Node \ {n}
      <4>1. RSize > 0 => 1 \in 0..RSize /\ RAt(1) = items[1]
        BY <1>0 DEF RAt
      <4> QED BY <1>0, <1>3, <3>2, <4>1 DEF RKnows
    <3> QED BY <1>1, <1>2, <2>2, <3>1, <3>2, <3>3 DEF RKnows
  <2> QED BY <2>1, <2>2
<1> QED BY <1>4, <1>6, <1>7

\* The thread that has the tail lock is the only one that moves the tail.
LEMMA RTailLock ==
  ASSUME RInv, NEW t \in Thread, pc[t] \in {"e_link", "e_tail", "c_walk"}
  PROVE  /\ \A u \in Thread \ {t} : pc[u] # "e_tail"
         /\ pc[t] # "e_tail" => tail = RAt(RSize)
<1>1. tailLock = t /\ \A u \in Thread \ {t} : pc[u] \notin TailPC
  BY DEF RInv, RLocks, TailPC
<1> QED BY <1>1 DEF RInv, RShape, TailPC

\* The thread that has the head lock is the only one that has read the head.
LEMMA RHeadLock ==
  ASSUME RInv, NEW t \in Thread, pc[t] \in {"d_next", "d_data", "d_move", "c_walk"}
  PROVE  \A u \in Thread \ {t} : pc[u] \notin {"d_data", "d_move"}
BY DEF RInv, RLocks, HeadPC

\* The node is linked behind the last.
LEMMA REnqLink ==
  ASSUME RConstants, RInv, NEW t \in Thread, R!EnqLink(t)
  PROVE  RShape' /\ ROwn' /\ RBusy'
<1> DEFINE n == RSize
           m == node[t]
<1>0. n \in Nat /\ items \in Seq(Node) /\ \A i \in 0..n : RAt(i) \in Node /\ RAt(i) \notin unused
  BY RList DEF RInv, RShape
<1>1. /\ head' = head /\ tail' = tail /\ data' = data /\ unused' = unused /\ node' = node /\ nxt' = nxt /\ val' = val
      /\ items' = Append(items, m) /\ next' = [next EXCEPT ![tail] = m]
      /\ pc[t] = "e_link" /\ pc'[t] = "e_tail" /\ \A u \in Thread \ {t} : pc'[u] = pc[u]
  BY DEF R!EnqLink, R!Goto, R!lockVars, R!localVars, RInv, R!RWTypeOK
<1>2. /\ m \in Node \ unused /\ next[m] = Null /\ \A i \in 0..n : RAt(i) # m
      /\ \A u \in Thread : pc[u] \in OwnPC /\ node[u] = m => u = t
  BY <1>1 DEF RInv, ROwn, OwnPC, RBusy, RKnows
<1>3. tail = RAt(n) /\ \A u \in Thread \ {t} : pc[u] # "e_tail"
  BY <1>1, RTailLock
<1>4. RSize' = n + 1 /\ \A i \in 1..n : items'[i] = items[i] /\ items'[n + 1] = m
  BY <1>0, <1>1, <1>2 DEF RSize
<1>5. (\A i \in 0..n : RAt(i)' = RAt(i)) /\ items'[n + 1] = m
  <2>1. items'[n + 1] = m
    BY <1>0, <1>1, <1>2 DEF RSize
  <2>2. \A i \in 1..n : items'[i] = items[i]
    BY <1>0, <1>1, <1>2 DEF RSize
  <2>3. ASSUME NEW i \in 0..n PROVE RAt(i)' = RAt(i)
    <3>1. CASE i = 0
      BY <1>1, <3>1 DEF RAt
    <3>2. CASE i # 0
      <4>1. i \in 1..n /\ i # 0
        BY <1>0, <3>2
      <4> QED BY <2>2, <4>1 DEF RAt
    <3> QED BY <3>1, <3>2
  <2> QED BY <2>1, <2>3
<1>6. /\ \A i \in 0..(n + 1) : RAt(i)' = IF i = n + 1 THEN m ELSE RAt(i)
      /\ \A i \in 0..n : RAt(i + 1)' = IF i = n THEN m ELSE RAt(i + 1)
  <2>1. \A i \in 0..(n + 1) : RAt(i)' = IF i = n + 1 THEN m ELSE RAt(i)
    <3> SUFFICES ASSUME NEW i \in 0..(n + 1) PROVE RAt(i)' = IF i = n + 1 THEN m ELSE RAt(i)
      OBVIOUS
    <3>1. CASE i = n + 1
      BY <1>0, <1>5, <3>1 DEF RAt
    <3>2. CASE i # n + 1
      <4>1. i \in 0..n
        BY <1>0, <3>2
      <4> QED BY <1>5, <3>2, <4>1
    <3> QED BY <3>1, <3>2
  <2>2. \A i \in 0..n : i + 1 \in 0..(n + 1) /\ (i + 1 = n + 1 <=> i = n)
    BY <1>0
  <2> QED BY <2>1, <2>2
<1>7. RShape'
  <2>0. /\ \A i \in 0..n : next[RAt(i)] = IF i = n THEN Null ELSE RAt(i + 1)
        /\ \A i, j \in 0..n : RAt(i) = RAt(j) => i = j
    BY DEF RInv, RShape
  <2>1. next'[tail] = m /\ \A k \in Node : k # tail => next'[k] = next[k]
    BY <1>0, <1>1, <1>3 DEF RInv, R!RWTypeOK
  <2>2. ASSUME NEW i \in 0..(n + 1) PROVE next'[RAt(i)'] = IF i = n + 1 THEN Null ELSE RAt(i + 1)'
    <3>1. CASE i = n + 1
      <4>1. RAt(i)' = m /\ m # tail
        BY <1>0, <1>2, <1>3, <1>6, <3>1
      <4> QED BY <4>1, <1>2, <2>1, <3>1
    <3>2. CASE i = n
      BY <1>0, <1>3, <1>6, <2>1, <3>2
    <3>3. CASE i < n
      <4>1. i \in 0..n /\ i # n /\ i # n + 1 /\ n \in 0..n
        BY <1>0, <3>3
      <4>2. RAt(i) # tail
        BY <1>3, <2>0, <4>1
      <4> QED BY <1>0, <1>6, <2>0, <2>1, <4>1, <4>2
    <3> QED BY <1>0, <3>1, <3>2, <3>3
  <2>3. \A i \in 0..(n + 1) : RAt(i)' \in Node \ unused'
    <3>1. \A i \in 0..(n + 1) : i # n + 1 => i \in 0..n
      BY <1>0
    <3> QED BY <1>0, <1>1, <1>2, <1>6, <3>1
  <2>4. ASSUME NEW i \in 0..(n + 1), NEW j \in 0..(n + 1), RAt(i)' = RAt(j)' PROVE i = j
    <3>1. (i # n + 1 => i \in 0..n) /\ (j # n + 1 => j \in 0..n)
      BY <1>0
    <3> QED BY <1>2, <1>6, <2>0, <2>4, <3>1
  <2> QED BY <1>1, <1>4, <2>2, <2>3, <2>4 DEF RShape
<1>8. ROwn'
  <2> SUFFICES ASSUME NEW u \in Thread, pc'[u] \in OwnPC
               PROVE  /\ node'[u] \in Node \ unused'
                      /\ \A i \in 0..(n + 1) : RAt(i)' # node'[u]
                      /\ \A w \in Thread : pc'[w] \in OwnPC /\ node'[w] = node'[u] => w = u
    BY <1>4 DEF ROwn
  <2>1. u # t /\ pc[u] \in OwnPC
    BY <1>1 DEF OwnPC
  <2>2. node[u] # m
    BY <1>2, <2>1
  <2>3. \A i \in 0..(n + 1) : i # n + 1 => i \in 0..n
    BY <1>0
  <2>4. pc'[t] \notin OwnPC
    BY <1>1 DEF OwnPC
  <2> QED BY <1>1, <1>6, <2>1, <2>2, <2>3, <2>4 DEF RInv, ROwn
<1>9. RBusy'
  <2> SUFFICES ASSUME NEW u \in Thread PROVE RKnows(u)'
    BY DEF RBusy
  <2>1. CASE u = t
    <3>1. RAt(RSize)' = m
      BY <1>0, <1>4, <1>5 DEF RAt
    <3> QED BY <1>1, <2>1, <3>1 DEF RKnows
  <2>2. CASE u # t
    <3>1. RKnows(u)
      BY DEF RInv, RBusy
    <3>2. pc[u] \in {"e_lock", "e_link"} => next'[node[u]] = next[node[u]]
      <4>1. pc[u] \in {"e_lock", "e_link"} => node[u] \in Node /\ node[u] # tail
        BY <1>0, <1>3 DEF RInv, ROwn, OwnPC
      <4> QED BY <1>1, <4>1 DEF RInv, R!RWTypeOK
    <3>3. pc[u] \in {"d_data", "d_move"} => RSize' > 0 /\ items'[1] = items[1]
      BY <1>0, <1>4, <3>1 DEF RKnows
    <3> QED BY <1>1, <1>3, <2>2, <3>1, <3>2, <3>3 DEF RKnows
  <2> QED BY <2>1, <2>2
<1> QED BY <1>7, <1>8, <1>9

\* The tail moves to the last node.
LEMMA REnqTail ==
  ASSUME RConstants, RInv, NEW t \in Thread, R!EnqTail(t)
  PROVE  RShape' /\ ROwn' /\ RBusy'
<1>1. /\ head' = head /\ tail' = node[t] /\ next' = next /\ data' = data /\ unused' = unused /\ node' = node
      /\ nxt' = nxt /\ val' = val /\ items' = items
      /\ pc[t] = "e_tail" /\ pc'[t] = "e_unlock" /\ \A u \in Thread \ {t} : pc'[u] = pc[u]
  BY DEF R!EnqTail, R!Goto, R!lockVars, R!localVars, RInv, R!RWTypeOK
<1>2. RSize' = RSize /\ RAt(RSize)' = RAt(RSize) /\ \A i : RAt(i)' = RAt(i)
  BY <1>1 DEF RSize, RAt
<1>3. RShape'
  <2>1. tail' = RAt(RSize)
    BY <1>1 DEF RInv, RBusy, RKnows
  <2>2. \A i \in 0..RSize : RAt(i + 1)' = RAt(i + 1)
    BY <1>1 DEF RAt
  <2> QED BY <1>1, <1>2, <2>1, <2>2 DEF RInv, RShape
<1>4. ROwn'
  BY <1>1, <1>2 DEF RInv, ROwn, OwnPC
<1>5. RBusy'
  <2> SUFFICES ASSUME NEW u \in Thread PROVE RKnows(u)'
    BY DEF RBusy
  <2> QED BY <1>1, <1>2 DEF RInv, RBusy, RKnows
<1> QED BY <1>3, <1>4, <1>5

\* The head moves to the first item, whose node is the dummy now.
LEMMA RDeqMove ==
  ASSUME RConstants, RInv, NEW t \in Thread, R!DeqMove(t)
  PROVE  RShape' /\ ROwn' /\ RBusy'
<1> DEFINE n == RSize
<1>0. n \in Nat /\ items \in Seq(Node) /\ \A i \in 0..n : RAt(i) \in Node /\ RAt(i) \notin unused
  BY RList DEF RInv, RShape
<1>1. /\ head' = nxt[t] /\ tail' = tail /\ next' = next /\ data' = data /\ unused' = unused /\ node' = node
      /\ nxt' = nxt /\ val' = val /\ items' = Tail(items)
      /\ pc[t] = "d_move" /\ pc'[t] = "d_unlock" /\ \A u \in Thread \ {t} : pc'[u] = pc[u]
  BY DEF R!DeqMove, R!Goto, R!lockVars, R!localVars, RInv, R!RWTypeOK
<1>2. n > 0 /\ node[t] = RAt(0) /\ nxt[t] = items[1] /\ \A u \in Thread \ {t} : pc[u] \notin {"d_data", "d_move"}
  <2>1. n > 0 /\ node[t] = head /\ nxt[t] = items[1]
    BY <1>1 DEF RInv, RBusy, RKnows
  <2> QED BY <1>1, <2>1, RHeadLock DEF RAt
<1>3. RSize' = n - 1 /\ \A i \in 1..(n - 1) : items'[i] = items[i + 1]
  <2>1. items # <<>>
    BY <1>0, <1>2 DEF RSize
  <2> QED BY <1>0, <1>1, <2>1, TailOf DEF RSize
<1>4. \A i \in 0..(n - 1) : RAt(i)' = RAt(i + 1)
  <2> SUFFICES ASSUME NEW i \in 0..(n - 1) PROVE RAt(i)' = RAt(i + 1)
    OBVIOUS
  <2>1. CASE i = 0
    BY <1>1, <1>2, <2>1 DEF RAt
  <2>2. CASE i # 0
    <3>1. i \in 1..(n - 1) /\ i + 1 # 0
      BY <1>0, <2>2
    <3> QED BY <1>3, <2>2, <3>1 DEF RAt
  <2> QED BY <2>1, <2>2
<1>5. /\ \A i \in 0..(n - 1) : i + 1 \in 0..n /\ (i = n - 1 <=> i + 1 = n) /\ i + 1 # 0
      /\ \A i \in 0..(n - 1) : i # n - 1 => i + 1 \in 0..(n - 1)
      /\ n - 1 \in 0..(n - 1) /\ (n - 1) + 1 = n /\ 0 \in 0..n
  BY <1>0, <1>2
<1>6. RShape'
  <2>1. /\ \A i \in 0..n : next[RAt(i)] = IF i = n THEN Null ELSE RAt(i + 1)
        /\ \A i, j \in 0..n : RAt(i) = RAt(j) => i = j
        /\ (\A u \in Thread : pc[u] # "e_tail") => tail = RAt(n)
    BY DEF RInv, RShape
  <2>2. \A i \in 0..(n - 1) : next'[RAt(i)'] = IF i = n - 1 THEN Null ELSE RAt(i + 1)'
    BY <1>1, <1>4, <1>5, <2>1
  <2>3. \A i \in 0..(n - 1) : RAt(i)' \in Node \ unused'
    BY <1>0, <1>1, <1>4, <1>5
  <2>4. \A i, j \in 0..(n - 1) : RAt(i)' = RAt(j)' => i = j
    <3> SUFFICES ASSUME NEW i \in 0..(n - 1), NEW j \in 0..(n - 1), RAt(i + 1) = RAt(j + 1) PROVE i = j
      BY <1>4
    <3>1. i + 1 = j + 1
      BY <1>5, <2>1
    <3> QED BY <3>1, <1>0
  <2>5. (\A u \in Thread : pc'[u] # "e_tail") => tail' = RAt(n)
    BY <1>1, <2>1
  <2>6. \A k : k = n - 1 => RAt(k)' = RAt(n)
    BY <1>4, <1>5
  <2>7. RAt(RSize)' = RAt(n)
    <3>1. (IF n - 1 = 0 THEN head' ELSE items'[n - 1]) = RAt(n)
      BY <2>6 DEF RAt
    <3> QED BY <3>1, <1>3 DEF RAt
  <2> QED BY <1>3, <2>2, <2>3, <2>4, <2>5, <2>7 DEF RShape
<1>7. \A u \in Thread : pc[u] \in OwnPC => node[u] # RAt(0) /\ \A i \in 0..(n - 1) : RAt(i)' # node[u]
  BY <1>4, <1>5 DEF RInv, ROwn
<1>8. ROwn'
  <2> SUFFICES ASSUME NEW u \in Thread, pc'[u] \in OwnPC
               PROVE  /\ node'[u] \in Node \ unused'
                      /\ \A i \in 0..(n - 1) : RAt(i)' # node'[u]
                      /\ \A w \in Thread : pc'[w] \in OwnPC /\ node'[w] = node'[u] => w = u
    BY <1>3 DEF ROwn
  <2>1. CASE u = t
    <3>1. \A i \in 0..(n - 1) : RAt(i)' # RAt(0)
      <4> SUFFICES ASSUME NEW i \in 0..(n - 1) PROVE RAt(i + 1) # RAt(0)
        BY <1>4
      <4> QED BY <1>5 DEF RInv, RShape
    <3> QED BY <1>0, <1>1, <1>2, <1>5, <1>7, <2>1, <3>1
  <2>2. CASE u # t
    <3>1. pc[u] \in OwnPC /\ node'[u] = node[u]
      BY <1>1, <2>2
    <3> QED BY <1>1, <1>2, <1>7, <2>2, <3>1 DEF RInv, ROwn
  <2> QED BY <2>1, <2>2
<1>9. RBusy'
  <2> SUFFICES ASSUME NEW u \in Thread PROVE RKnows(u)'
    BY DEF RBusy
  <2>1. CASE u = t
    BY <1>1, <2>1 DEF RKnows
  <2>2. CASE u # t
    <3>1. RAt(RSize)' = RAt(n)
      <4>1. \A k : k = n - 1 => RAt(k)' = RAt(n)
        BY <1>4, <1>5
      <4>2. (IF n - 1 = 0 THEN head' ELSE items'[n - 1]) = RAt(n)
        BY <4>1 DEF RAt
      <4> QED BY <4>2, <1>3 DEF RAt
    <3> QED BY <1>1, <1>2, <2>2, <3>1 DEF RInv, RBusy, RKnows
  <2> QED BY <2>1, <2>2
<1> QED BY <1>6, <1>8, <1>9

\* The node that was taken out becomes free memory.
LEMMA RDeqFree ==
  ASSUME RConstants, RInv, NEW t \in Thread, R!DeqFree(t)
  PROVE  RShape' /\ ROwn' /\ RBusy'
<1>1. /\ UNCHANGED <<head, tail, next, data, node, nxt, val, items>>
      /\ unused' = unused \cup {node[t]}
      /\ pc[t] = "d_free" /\ pc'[t] = "done" /\ \A u \in Thread \ {t} : pc'[u] = pc[u]
  BY DEF R!DeqFree, R!Goto, R!lockVars, R!localVars, R!queueVars, RInv, R!RWTypeOK
<1>2. RSize' = RSize /\ RAt(RSize)' = RAt(RSize) /\ \A i : RAt(i)' = RAt(i)
  BY <1>1 DEF RSize, RAt
<1>3. /\ \A i \in 0..RSize : RAt(i) # node[t]
      /\ \A u \in Thread : pc[u] \in OwnPC /\ node[u] = node[t] => u = t
  BY <1>1 DEF RInv, ROwn, OwnPC
<1>4. RShape'
  <2>1. \A i \in 0..RSize : RAt(i + 1)' = RAt(i + 1)
    BY <1>1 DEF RAt
  <2> QED BY <1>1, <1>2, <1>3, <2>1 DEF RInv, RShape
<1>5. ROwn'
  BY <1>1, <1>2, <1>3 DEF RInv, ROwn, OwnPC
<1>6. RBusy'
  <2> SUFFICES ASSUME NEW u \in Thread PROVE RKnows(u)'
    BY DEF RBusy
  <2> QED BY <1>1, <1>2 DEF RInv, RBusy, RKnows
<1> QED BY <1>4, <1>5, <1>6

\* clear leaves the last node as the dummy and frees the others.
LEMMA RClearWalk ==
  ASSUME RConstants, RInv, NEW t \in Thread, R!ClearWalk(t)
  PROVE  RShape' /\ ROwn' /\ RBusy'
<1> DEFINE n == RSize
<1>0. n \in Nat /\ \A i \in 0..n : RAt(i) \in Node /\ RAt(i) \notin unused
  BY RList DEF RInv, RShape
<1>1. /\ UNCHANGED <<tail, next, data, node, nxt, val>> /\ items' = <<>>
      /\ pc[t] = "c_walk" /\ pc'[t] = "c_unlock" /\ \A u \in Thread \ {t} : pc'[u] = pc[u]
  BY DEF R!ClearWalk, R!Goto, R!lockVars, R!localVars, RInv, R!RWTypeOK
<1>2. head' = RAt(n) /\ \A m \in unused' : m \in unused \/ \E i \in 0..(n - 1) : m = RAt(i)
  <2>1. Len(<<head>> \o items) = n + 1 /\ \A i \in 1..(n + 1) : (<<head>> \o items)[i] = RAt(i - 1)
    BY RList DEF RInv
  <2>2. n + 1 \in 1..(n + 1) /\ (n + 1) - 1 = n /\ \A i \in 1..n : i \in 1..(n + 1) /\ i - 1 \in 0..(n - 1)
    BY <1>0
  <2>3. /\ head' = (<<head>> \o items)[n + 1]
        /\ unused' = unused \cup {(<<head>> \o items)[i] : i \in 1..((n + 1) - 1)}
    BY <2>1 DEF R!ClearWalk
  <2> HIDE DEF n
  <2> QED BY <2>1, <2>2, <2>3
<1>3. tail = RAt(n) /\ \A u \in Thread : pc[u] \notin {"e_tail", "d_data", "d_move"}
  BY <1>1, RTailLock, RHeadLock
<1>4. RSize' = 0 /\ RAt(0)' = RAt(n) /\ RAt(RSize)' = RAt(n)
  BY <1>1, <1>2 DEF RSize, RAt
<1>5. RAt(n) \in Node \ unused' /\ next[RAt(n)] = Null
  <2>1. n \in 0..n /\ \A i \in 0..(n - 1) : i \in 0..n /\ i # n
    BY <1>0
  <2> QED BY <1>0, <1>2, <2>1 DEF RInv, RShape
<1>6. RShape'
  <2>1. \A i \in 0..0 : i = 0
    OBVIOUS
  <2> QED BY <1>1, <1>3, <1>4, <1>5, <2>1 DEF RShape
<1>7. ROwn'
  <2> SUFFICES ASSUME NEW u \in Thread, pc'[u] \in OwnPC
               PROVE  /\ node'[u] \in Node \ unused'
                      /\ \A i \in 0..0 : RAt(i)' # node'[u]
                      /\ \A w \in Thread : pc'[w] \in OwnPC /\ node'[w] = node'[u] => w = u
    BY <1>4 DEF ROwn
  <2>1. u # t /\ pc[u] \in OwnPC /\ node'[u] = node[u]
    BY <1>1 DEF OwnPC
  <2>2. (\A i \in 0..n : RAt(i) # node[u]) /\ node[u] \in Node \ unused
    BY <2>1 DEF RInv, ROwn
  <2>3. \A i \in 0..0 : i = 0
    OBVIOUS
  <2>4. n \in 0..n /\ \A i \in 0..(n - 1) : i \in 0..n
    BY <1>0
  <2>5. node[u] \notin unused' /\ \A i \in 0..0 : RAt(i)' # node[u]
    BY <1>2, <1>4, <2>2, <2>3, <2>4
  <2>6. \A w \in Thread : pc'[w] \in OwnPC => pc[w] \in OwnPC
    BY <1>1 DEF OwnPC
  <2> QED BY <1>1, <2>1, <2>2, <2>5, <2>6 DEF RInv, ROwn
<1>8. RBusy'
  <2> SUFFICES ASSUME NEW u \in Thread PROVE RKnows(u)'
    BY DEF RBusy
  <2>1. CASE u = t
    BY <1>1, <2>1 DEF RKnows
  <2>2. CASE u # t
    BY <1>1, <1>3, <2>2 DEF RInv, RBusy, RKnows
  <2> QED BY <2>1, <2>2
<1> QED BY <1>6, <1>7, <1>8

\* Every step keeps the invariant.
LEMMA RKeeps ==
  ASSUME RConstants, RInv, R!RWNext
  PROVE  RInv'
<1>0. R!RWTypeOK' /\ RLocks' /\ R!Watch
  BY RTypeStep, RLocksStep DEF RInv, R!RWNext
<1>1. PICK t \in Thread :
          \/ \E v \in Value, n \in Node : R!Enqueue(t, v, n)
          \/ R!LockTail(t, "e_lock", "e_link") \/ R!EnqLink(t) \/ R!EnqTail(t)
          \/ R!UnlockTail(t, "e_unlock", "done")
          \/ R!Dequeue(t) \/ R!LockHead(t, "d_lock", "d_next") \/ R!DeqNext(t) \/ R!DeqData(t) \/ R!DeqMove(t)
          \/ R!UnlockHead(t, "d_unlock", "d_free") \/ R!UnlockHead(t, "d_give", "refused") \/ R!DeqFree(t)
          \/ R!Clear(t) \/ R!LockHead(t, "c_head", "c_tail") \/ R!LockTail(t, "c_tail", "c_walk") \/ R!ClearWalk(t)
          \/ R!UnlockTail(t, "c_unlock", "c_unlock2") \/ R!UnlockHead(t, "c_unlock2", "done")
          \/ R!Leave(t)
  BY DEF R!RWNext
<1>2. ASSUME RShape', ROwn', RBusy', \A u \in Thread \ {t} : pc'[u] = pc[u],
             pc'[t] \in {"d_give", "refused"} => pc[t] \in R!DeqPC \cup {"refused"} /\ saw[t]
      PROVE  RInv'
  <2>1. \A u \in Thread : pc'[u] \in {"d_give", "refused"} => pc[u] \in R!DeqPC \cup {"refused"} /\ saw[u]
    BY <1>2 DEF RInv, RSaw, R!DeqPC
  <2>2. RSaw'
    BY <1>0, <2>1, RWatches
  <2> QED BY <1>0, <1>2, <2>2 DEF RInv
<1>3. pc \in [Thread -> {"idle", "refused"} \cup R!EnqPC \cup R!DeqPC \cup R!ClearPC \cup R!DonePC]
      /\ node \in [Thread -> Node \cup {Null}] /\ nxt \in [Thread -> Node \cup {Null}]
      /\ val \in [Thread -> Value \cup {None}]
  BY DEF RInv, R!RWTypeOK
<1>k. RKnows(t)
  BY DEF RInv, RBusy
<1> USE DEF R!Goto, R!lockVars, R!queueVars, R!localVars
<1>4. CASE \/ R!LockTail(t, "e_lock", "e_link") \/ R!UnlockTail(t, "e_unlock", "done")
           \/ R!LockTail(t, "c_tail", "c_walk") \/ R!UnlockTail(t, "c_unlock", "c_unlock2")
           \/ R!LockHead(t, "d_lock", "d_next") \/ R!UnlockHead(t, "d_unlock", "d_free")
           \/ R!UnlockHead(t, "d_give", "refused") \/ R!LockHead(t, "c_head", "c_tail")
           \/ R!UnlockHead(t, "c_unlock2", "done")
           \/ R!Dequeue(t) \/ R!Clear(t) \/ R!Leave(t)
  <2>1. /\ UNCHANGED <<head, tail, next, data, unused, items>>
        /\ \A u \in Thread \ {t} : pc'[u] = pc[u] /\ node'[u] = node[u] /\ nxt'[u] = nxt[u] /\ val'[u] = val[u]
        /\ pc'[t] \in {"idle", "refused"} \cup R!EnqPC \cup R!DeqPC \cup R!ClearPC \cup R!DonePC
        /\ pc'[t] \in OwnPC => pc[t] \in OwnPC /\ node'[t] = node[t]
        /\ pc[t] # "e_tail" /\ pc'[t] \notin {"e_lock", "e_tail", "d_data", "d_move", "d_give"}
        /\ pc'[t] = "e_link" => pc[t] = "e_lock" /\ node'[t] = node[t] /\ val'[t] = val[t]
        /\ pc'[t] = "refused" => pc[t] = "d_give"
    BY <1>3, <1>4 DEF OwnPC, R!LockTail, R!UnlockTail, R!LockHead, R!UnlockHead, R!Dequeue, R!Clear, R!Leave,
                      R!EnqPC, R!DeqPC, R!ClearPC, R!DonePC
  <2>2. RKnows(t)'
    BY <1>k, <2>1 DEF RKnows
  <2>3. RShape' /\ ROwn' /\ RBusy'
    BY <2>1, <2>2, RQuiet
  <2>4. pc[t] = "d_give" => saw[t]
    BY DEF RInv, RSaw
  <2> QED BY <1>2, <2>1, <2>3, <2>4 DEF R!DeqPC
<1>5. CASE R!DeqNext(t)
  <2>1. /\ UNCHANGED <<head, tail, next, data, unused, items, val>>
        /\ \A u \in Thread \ {t} : pc'[u] = pc[u] /\ node'[u] = node[u] /\ nxt'[u] = nxt[u] /\ val'[u] = val[u]
        /\ pc[t] = "d_next" /\ node'[t] = head /\ nxt'[t] = next[head]
        /\ pc'[t] = IF next[head] = Null THEN "d_give" ELSE "d_data"
    BY <1>3, <1>5 DEF R!DeqNext
  <2>2. /\ next[head] = Null => items = <<>>
        /\ next[head] # Null => RSize > 0 /\ next[head] = items[1]
    <3>1. RSize \in Nat /\ (RSize = 0 <=> items = <<>>) /\ RAt(0) = head /\ RAt(1) = items[1]
          /\ \A i \in 0..RSize : RAt(i) \in Node
      BY RList DEF RInv, RAt
    <3>2. next[head] = IF 0 = RSize THEN Null ELSE RAt(0 + 1)
      BY <3>1 DEF RInv, RShape
    <3>3. RSize > 0 => RAt(1) \in Node
      BY <3>1
    <3>4. Null \notin Node
      BY DEF RConstants, L!TaggedConstants
    <3> QED BY <3>1, <3>2, <3>3, <3>4
  <2>3. RKnows(t)'
    <3>1. RSize' = RSize
      BY <2>1 DEF RSize
    <3> QED BY <2>1, <2>2, <3>1 DEF RKnows
  <2>4. RShape' /\ ROwn' /\ RBusy'
    BY <2>1, <2>3, RQuiet DEF OwnPC
  <2>5. pc'[t] = "d_give" => saw[t]
    BY <2>1, <2>2 DEF RInv, RSaw, R!DeqPC
  <2> QED BY <1>2, <2>1, <2>4, <2>5 DEF R!DeqPC
<1>6. CASE R!DeqData(t)
  <2>1. /\ UNCHANGED <<head, tail, next, data, unused, items, node, nxt>>
        /\ \A u \in Thread \ {t} : pc'[u] = pc[u] /\ node'[u] = node[u] /\ nxt'[u] = nxt[u] /\ val'[u] = val[u]
        /\ pc[t] = "d_data" /\ val'[t] = data[nxt[t]] /\ pc'[t] = "d_move"
    BY <1>3, <1>6 DEF R!DeqData
  <2>2. RKnows(t)'
    <3>1. RSize' = RSize
      BY <2>1 DEF RSize
    <3> QED BY <1>k, <2>1, <3>1 DEF RKnows
  <2>3. RShape' /\ ROwn' /\ RBusy'
    BY <2>1, <2>2, RQuiet DEF OwnPC
  <2> QED BY <1>2, <2>1, <2>3
<1>7. CASE \E v \in Value, n \in Node : R!Enqueue(t, v, n)
  <2>1. RShape' /\ ROwn' /\ RBusy'
    BY <1>7, REnqueue
  <2>2. pc'[t] = "e_lock" /\ \A u \in Thread \ {t} : pc'[u] = pc[u]
    BY <1>3, <1>7 DEF R!Enqueue
  <2> QED BY <1>2, <2>1, <2>2
<1>8. CASE R!EnqLink(t)
  <2>1. RShape' /\ ROwn' /\ RBusy'
    BY <1>8, REnqLink
  <2>2. pc'[t] = "e_tail" /\ \A u \in Thread \ {t} : pc'[u] = pc[u]
    BY <1>3, <1>8 DEF R!EnqLink
  <2> QED BY <1>2, <2>1, <2>2
<1>9. CASE R!EnqTail(t)
  <2>1. RShape' /\ ROwn' /\ RBusy'
    BY <1>9, REnqTail
  <2>2. pc'[t] = "e_unlock" /\ \A u \in Thread \ {t} : pc'[u] = pc[u]
    BY <1>3, <1>9 DEF R!EnqTail
  <2> QED BY <1>2, <2>1, <2>2
<1>10. CASE R!DeqMove(t)
  <2>1. RShape' /\ ROwn' /\ RBusy'
    BY <1>10, RDeqMove
  <2>2. pc'[t] = "d_unlock" /\ \A u \in Thread \ {t} : pc'[u] = pc[u]
    BY <1>3, <1>10 DEF R!DeqMove
  <2> QED BY <1>2, <2>1, <2>2
<1>11. CASE R!DeqFree(t)
  <2>1. RShape' /\ ROwn' /\ RBusy'
    BY <1>11, RDeqFree
  <2>2. pc'[t] = "done" /\ \A u \in Thread \ {t} : pc'[u] = pc[u]
    BY <1>3, <1>11 DEF R!DeqFree
  <2> QED BY <1>2, <2>1, <2>2
<1>12. CASE R!ClearWalk(t)
  <2>1. RShape' /\ ROwn' /\ RBusy'
    BY <1>12, RClearWalk
  <2>2. pc'[t] = "c_unlock" /\ \A u \in Thread \ {t} : pc'[u] = pc[u]
    BY <1>3, <1>12 DEF R!ClearWalk
  <2> QED BY <1>2, <2>1, <2>2
<1> QED BY <1>1, <1>4, <1>5, <1>6, <1>7, <1>8, <1>9, <1>10, <1>11, <1>12

\* What the invariant says of the properties
LEMMA RShows ==
  ASSUME RConstants, RInv
  PROVE  R!RWTypeOK /\ R!RWLayout /\ R!RWNoRace /\ \A t \in Thread : pc[t] = "refused" => saw[t]
<1> DEFINE n == RSize
           list == <<head>> \o items
<1>0. /\ n \in Nat /\ Len(list) = n + 1 /\ \A i \in 1..(n + 1) : list[i] = RAt(i - 1)
      /\ RAt(0) = head /\ \A i \in 1..n : RAt(i) = items[i]
  BY RList DEF RInv
<1>1. \A i \in 1..(n + 1) : i - 1 \in 0..n /\ (i - 1 = n <=> i = n + 1) /\ (i - 1) + 1 = i /\ (i + 1) - 1 = i
  BY <1>0
<1> HIDE DEF list
<1>2. \A i \in 1..(n + 1) : next[list[i]] = IF i = n + 1 THEN Null ELSE list[i + 1]
  <2> SUFFICES ASSUME NEW i \in 1..(n + 1) PROVE next[list[i]] = IF i = n + 1 THEN Null ELSE list[i + 1]
    OBVIOUS
  <2>1. i # n + 1 => i + 1 \in 1..(n + 1)
    BY <1>0
  <2> QED BY <1>0, <1>1, <2>1 DEF RInv, RShape
<1>3. \A i \in 1..(n + 1) : list[i] \notin unused
  BY <1>0, <1>1 DEF RInv, RShape
<1>4. \A i, j \in 1..(n + 1) : list[i] = list[j] => i = j
  <2> SUFFICES ASSUME NEW i \in 1..(n + 1), NEW j \in 1..(n + 1), RAt(i - 1) = RAt(j - 1) PROVE i = j
    BY <1>0
  <2>1. i - 1 = j - 1
    BY <1>1 DEF RInv, RShape
  <2> QED BY <1>0, <2>1
<1>5. tail = list[n + 1] \/ \E t \in Thread : pc[t] = "e_tail" /\ node[t] = list[n + 1]
  <2>1. list[n + 1] = RAt(n)
    <3>1. n + 1 \in 1..(n + 1) /\ (n + 1) - 1 = n
      BY <1>0
    <3> QED BY <1>0, <3>1
  <2> QED BY <2>1 DEF RInv, RShape, RBusy, RKnows
<1>6. R!RWLayout
  BY <1>0, <1>2, <1>3, <1>4, <1>5 DEF R!RWLayout, list
<1>7. R!RWNoRace
  <2> SUFFICES ASSUME NEW t \in Thread PROVE R!Touches(t) \cap unused = {}
    BY DEF R!RWNoRace
  <2>1. \A i \in 0..n : RAt(i) \notin unused
    BY DEF RInv, RShape
  <2>2. CASE pc[t] = "e_link"
    <3>1. tail = RAt(n)
      BY <2>2, RTailLock
    <3> QED BY <1>0, <2>1, <2>2, <3>1 DEF R!Touches
  <2>3. CASE pc[t] = "d_next"
    BY <1>0, <2>1, <2>3 DEF R!Touches
  <2>4. CASE pc[t] = "d_data"
    <3>1. n > 0 /\ nxt[t] = RAt(1)
      BY <1>0, <2>4 DEF RInv, RBusy, RKnows
    <3> QED BY <1>0, <2>1, <2>4, <3>1 DEF R!Touches
  <2>5. CASE pc[t] \notin {"e_link", "d_next", "d_data"}
    BY <2>5 DEF R!Touches
  <2> QED BY <2>2, <2>3, <2>4, <2>5
<1> QED BY <1>6, <1>7 DEF RInv, RSaw

-----------------------------------------------------------------------------
(* All classes together *)

\* The classes whose invariants are proved here, for every size of the array and any number of
\* nodes and threads
Proved == {"vyukov", "circular", "fastforward", "two_lock"}
\* A call that has neither an argument nor found a value
Unset(calls) == \A t \in DOMAIN pc : pc[t] \in {"idle"} \cup calls => val[t] = None
Inv ==
    /\ kind \in {"vyukov", "tz", "circular", "fastforward"} \cup Linked
    /\ kind = "vyukov" => VInv
    /\ kind = "circular" => CInv /\ Unset({})
    /\ kind = "fastforward" => FInv /\ Unset({})
    /\ kind = "two_lock" => RInv /\ Unset(R!ClearPC)

\* Values are set by the calls that have them, and forgotten on return.
LEMMA UnsetBegins ==
  /\ C!Init \/ F!Init => Unset({})
  /\ R!RWInit => Unset(R!ClearPC)
<1>1. C!Init => Unset({})
  BY DEF C!Init, Unset
<1>2. F!Init => Unset({})
  BY DEF F!Init, Unset
<1>3. R!RWInit => Unset(R!ClearPC)
  BY DEF R!RWInit, Unset
<1> QED BY <1>1, <1>2, <1>3

\* Lamport's buffer: a call is left without its value.
LEMMA CUnset ==
  ASSUME C!Constants, C!TypeOK, C!Next, Unset({})
  PROVE  Unset({})'
<1> USE DEF Unset, C!TypeOK, C!Side, C!Constants, C!Goto
<1>1. ASSUME NEW v \in Value, C!Push(v) PROVE Unset({})'
  BY <1>1 DEF C!Push
<1>2. ASSUME C!PushCheck \/ C!PushWrite \/ C!PushTail PROVE Unset({})'
  BY <1>2 DEF C!PushCheck, C!PushWrite, C!PushTail
<1>3. ASSUME C!Pop \/ C!PopCheck \/ C!PopHead PROVE Unset({})'
  BY <1>3 DEF C!Pop, C!PopCheck, C!PopHead
<1>4. ASSUME C!PopRead PROVE Unset({})'
  BY <1>4 DEF C!PopRead
<1>5. ASSUME NEW t \in C!Side, C!Leave(t) PROVE Unset({})'
  BY <1>5 DEF C!Leave
<1> QED BY <1>1, <1>2, <1>3, <1>4, <1>5 DEF C!Next

\* The FastForward queue: the same
LEMMA FUnset ==
  ASSUME F!Constants, F!TypeOK, F!Next, Unset({})
  PROVE  Unset({})'
BY DEF Unset, F!TypeOK, F!Constants, F!Next, F!Enqueue, F!EnqCheck, F!EnqWrite, F!Dequeue, F!DeqRead,
    F!DeqClear, F!Leave, F!Goto, F!Side, F!EnqPC, F!DeqPC

\* The two-lock queue: the same, and clear has none either.
LEMMA RUnset ==
  ASSUME R!RWTypeOK, R!RWNext, Unset(R!ClearPC)
  PROVE  Unset(R!ClearPC)'
BY DEF Unset, R!RWTypeOK, R!RWNext, R!Enqueue, R!LockTail, R!EnqLink, R!EnqTail, R!UnlockTail, R!Dequeue,
    R!LockHead, R!DeqNext, R!DeqData, R!DeqMove, R!UnlockHead, R!DeqFree, R!Clear, R!ClearWalk, R!Leave, R!Goto,
    R!localVars, R!EnqPC, R!DeqPC, R!ClearPC, R!DonePC

\* The invariant of an object's class holds after its constructor,
LEMMA Begins == Init => Inv
<1> SUFFICES ASSUME Init PROVE Inv
  OBVIOUS
<1>1. V!Constants /\ C!Constants /\ F!Constants /\ RConstants
  BY ConstantsAssumption DEF RConstants
<1>2. kind \in {"vyukov", "tz", "circular", "fastforward"} \cup Linked
  BY DEF Init, Linked, Tagged
<1>3. kind = "vyukov" => V!Init
  BY DEF Init, Linked, Tagged
<1>4. kind = "circular" => C!Init
  BY DEF Init, Linked, Tagged
<1>5. kind = "fastforward" => F!Init
  BY DEF Init, Linked, Tagged
<1>6. kind = "two_lock" => R!RWInit
  BY DEF Init, Linked, Tagged
<1> QED BY <1>1, <1>2, <1>3, <1>4, <1>5, <1>6, VBegins, CBegins, FBegins, RBegins, UnsetBegins DEF Inv

\* and every step of a call on it keeps the invariant.
LEMMA Keeps == Inv /\ [Next]_vars => Inv'
<1> SUFFICES ASSUME Inv, [Next]_vars PROVE Inv'
  OBVIOUS
<1>1. V!Constants /\ C!Constants /\ F!Constants /\ RConstants
  BY ConstantsAssumption DEF RConstants
<1>2. CASE UNCHANGED vars
  <2> USE <1>2 DEF vars, arrayVars, nodeVars, tagVars
  <2>1. kind' = kind
    OBVIOUS
  <2>2. CASE kind = "vyukov"
    <3>1. VInv'
      BY <2>2 DEF Inv, VInv, V!TypeOK, VArg, VState, VLag, VReady, VSaw, VEnds, VCells, VBusy,
            VFilling, VEmptying, Fills, Empties, VAt, VSeq, VData, VSize, V!NoRace, V!Lacks
    <3> QED BY <2>1, <2>2, <3>1 DEF Inv, Linked, Tagged
  <2>3. CASE kind = "circular"
    <3>1. CInv' /\ Unset({})'
      BY <2>3 DEF Inv, Unset, CInv, C!TypeOK, CShape, CBusy, CSaw, CAt, CSize
    <3> QED BY <2>1, <2>3, <3>1 DEF Inv, Linked, Tagged
  <2>4. CASE kind = "fastforward"
    <3>1. FInv' /\ Unset({})'
      BY <2>4 DEF Inv, Unset, FInv, F!TypeOK, FShape, FBusy, FSaw, FAt, FSize
    <3> QED BY <2>1, <2>4, <3>1 DEF Inv, Linked, Tagged
  <2>5. CASE kind = "two_lock"
    <3>1. RInv' /\ Unset(R!ClearPC)'
      BY <2>5 DEF Inv, Unset, RInv, R!RWTypeOK, RLocks, RShape, ROwn, RBusy, RKnows, RSaw, RAt, RSize
    <3> QED BY <2>1, <2>5, <3>1 DEF Inv, Linked, Tagged
  <2>6. CASE kind \notin Proved
    BY <2>1, <2>6 DEF Inv, Linked, Tagged, Proved
  <2> QED BY <2>2, <2>3, <2>4, <2>5, <2>6 DEF Proved
<1>3. CASE Next
  <2>1. kind' = kind
    BY <1>3 DEF Next
  <2>2. CASE kind = "vyukov"
    <3>1. PICK t \in Thread : V!Step(t) /\ V!Watch
      BY <1>3, <2>2 DEF Next, V!Next, Linked, Tagged
    <3>2. VInv'
      BY <1>1, <2>2, <3>1, VKeeps DEF Inv
    <3> QED BY <2>1, <2>2, <3>2 DEF Inv, Linked, Tagged
  <2>3. CASE kind = "circular"
    <3>1. C!Next
      BY <1>3, <2>3 DEF Next, Linked, Tagged
    <3>2. CInv' /\ Unset({})'
      BY <1>1, <2>3, <3>1, CKeeps, CUnset DEF Inv, CInv
    <3> QED BY <2>1, <2>3, <3>2 DEF Inv, Linked, Tagged
  <2>4. CASE kind = "fastforward"
    <3>1. F!Next
      BY <1>3, <2>4 DEF Next, Linked, Tagged
    <3>2. FInv' /\ Unset({})'
      BY <1>1, <2>4, <3>1, FKeeps, FUnset DEF Inv, FInv
    <3> QED BY <2>1, <2>4, <3>2 DEF Inv, Linked, Tagged
  <2>5. CASE kind = "two_lock"
    <3>1. R!RWNext
      BY <1>3, <2>5 DEF Next, Linked, Tagged
    <3>2. RInv' /\ Unset(R!ClearPC)'
      BY <1>1, <2>5, <3>1, RKeeps, RUnset DEF Inv, RInv
    <3> QED BY <2>1, <2>5, <3>2 DEF Inv, Linked, Tagged
  <2>6. CASE kind \notin Proved
    BY <2>1, <2>6 DEF Inv, Linked, Tagged, Proved
  <2> QED BY <2>2, <2>3, <2>4, <2>5, <2>6 DEF Proved
<1> QED BY <1>2, <1>3

\* What the invariant says of the properties
LEMMA Shows == Inv => NoRace /\ (kind \in Proved => TypeOK /\ Layout /\ Refusals)
<1> SUFFICES ASSUME Inv PROVE NoRace /\ (kind \in Proved => TypeOK /\ Layout /\ Refusals)
  OBVIOUS
<1>1. V!Constants /\ C!Constants /\ F!Constants /\ RConstants
  BY ConstantsAssumption DEF RConstants
<1>2. CASE kind = "vyukov"
  <2>1. V!TypeOK /\ V!Layout /\ V!NoRace /\ V!Refusals
    BY <1>1, <1>2, VShows DEF Inv
  <2> QED BY <1>2, <2>1 DEF TypeOK, Layout, NoRace, Refusals, Choose, Linked, Tagged
<1>3. CASE kind = "circular"
  <2>1. C!TypeOK /\ C!Layout /\ C!NoRace /\ C!Refusals
    BY <1>1, <1>3, CShows DEF Inv
  <2> QED BY <1>3, <2>1 DEF TypeOK, Layout, NoRace, Refusals, Choose, Linked, Tagged
<1>4. CASE kind = "fastforward"
  <2>1. F!TypeOK /\ F!Layout /\ F!NoRace /\ C!Refusals
    BY <1>1, <1>4, FShows DEF Inv
  <2> QED BY <1>4, <2>1 DEF TypeOK, Layout, NoRace, Refusals, Choose, Linked, Tagged
<1>5. CASE kind = "two_lock"
  <2>1. R!RWTypeOK /\ R!RWLayout /\ R!RWNoRace /\ \A t \in Thread : pc[t] = "refused" => saw[t]
    BY <1>1, <1>5, RShows DEF Inv
  <2> QED BY <1>5, <2>1 DEF TypeOK, Layout, NoRace, Refusals, Choose, Linked, Tagged
<1>6. CASE kind \notin Proved
  BY <1>6 DEF Inv, NoRace, Choose, Linked, Tagged, Proved
<1> QED BY <1>2, <1>3, <1>4, <1>5, <1>6 DEF Proved

\* The invariant holds in every state.
LEMMA Always == Spec => []Inv
<1>1. Init => Inv
  BY Begins
<1>2. Inv /\ [Next]_vars => Inv'
  BY Keeps
<1> QED BY <1>1, <1>2, PTL DEF Spec

\* No two calls access the plain data of one cell at the same time, and no call on the two-lock
\* queue reads or writes a node that has been freed.
THEOREM NoTwoAtOneCell == Spec => []NoRace
<1>1. Inv => NoRace
  BY Shows
<1> QED BY <1>1, Always, PTL

\* The state of the classes proved here has its type: an index that is moved on without a bound
\* check stays inside the array.
THEOREM IndicesInside == Spec => [](kind \in Proved => TypeOK)
<1>1. Inv => (kind \in Proved => TypeOK)
  BY Shows
<1> QED BY <1>1, Always, PTL

\* Their array or list holds the items in order, but for cells that a call which has taken effect
\* has yet to fill or to empty.
THEOREM LaidOut == Spec => [](kind \in Proved => Layout)
<1>1. Inv => (kind \in Proved => Layout)
  BY Shows
<1> QED BY <1>1, Always, PTL

\* Their calls are refused only if, at some instant, the queue was full or empty (or, Vyukov's,
\* the cell in question was in use by another call).
THEOREM RefusedRightly == Spec => [](kind \in Proved => Refusals)
<1>1. Inv => (kind \in Proved => Refusals)
  BY Shows
<1> QED BY <1>1, Always, PTL

-----------------------------------------------------------------------------
(* Every class implements the BoundedQueue *)

\* What a step of t does to the abstract queue: nothing; begin a call; the effect of an
\* enqueue, a dequeue or a clear; or the end of a call.
Effect(t) ==
    \/ OpAt(t)' = OpAt(t) /\ ValAt(t)' = ValAt(t) /\ Contents' = Contents
    \/ OpAt(t) = "idle" /\ OpAt(t)' = "enq" /\ ValAt(t)' \in Value /\ Contents' = Contents
    \/ OpAt(t) = "idle" /\ OpAt(t)' \in {"deq", "clear"} /\ ValAt(t)' = ValAt(t) /\ Contents' = Contents
    \/ /\ OpAt(t) = "enq" /\ OpAt(t)' = "done" /\ ValAt(t)' = ValAt(t)
       /\ Len(Contents) < Room /\ Contents' = Append(Contents, ValAt(t))
    \/ /\ OpAt(t) = "deq" /\ OpAt(t)' = "done" /\ ValAt(t)' = Head(Contents)
       /\ Contents # <<>> /\ Contents' = Tail(Contents)
    \/ /\ OpAt(t) = "clear" /\ OpAt(t)' = "done" /\ ValAt(t)' = ValAt(t) /\ Contents' = <<>>
    \/ OpAt(t)' = "idle" /\ ValAt(t)' = None /\ Contents' = Contents
\* Nothing happens to the calls of the other threads.
Alone(t) == \A u \in AllThreads \ {t} : OpAt(u)' = OpAt(u) /\ ValAt(u)' = ValAt(u)

\* A step with such an effect is a step of the BoundedQueue.
LEMMA Effects ==
  ASSUME kind' = kind, kind # "tagged_stack", NEW t \in AllThreads, Alone(t), Effect(t)
  PROVE  B!BNext \/ UNCHANGED B!bvars
<1>1. Room' = Room
  BY DEF Room, Choose, Linked, Tagged
<1>2. /\ Ops' = [Ops EXCEPT ![t] = OpAt(t)'] /\ Ops[t] = OpAt(t)
      /\ Vals' = [Vals EXCEPT ![t] = ValAt(t)'] /\ Vals[t] = ValAt(t)
      /\ OpAt(t)' = OpAt(t) => Ops' = Ops
      /\ ValAt(t)' = ValAt(t) => Vals' = Vals
  BY DEF Alone, Ops, Vals
<1>3. CASE OpAt(t)' = OpAt(t) /\ ValAt(t)' = ValAt(t) /\ Contents' = Contents
  BY <1>1, <1>2, <1>3 DEF B!bvars
<1>4. CASE OpAt(t) = "idle" /\ OpAt(t)' = "enq" /\ ValAt(t)' \in Value /\ Contents' = Contents
  <2>1. B!CallEnqueue(t, ValAt(t)')
    BY <1>1, <1>2, <1>4 DEF B!CallEnqueue
  <2> QED BY <1>4, <2>1 DEF B!BNext
<1>5. CASE OpAt(t) = "idle" /\ OpAt(t)' \in {"deq", "clear"} /\ ValAt(t)' = ValAt(t) /\ Contents' = Contents
  <2>1. B!CallDequeue(t) \/ B!CallClear(t)
    BY <1>1, <1>2, <1>5 DEF B!CallDequeue, B!CallClear
  <2> QED BY <2>1 DEF B!BNext
<1>6. CASE /\ OpAt(t) = "enq" /\ OpAt(t)' = "done" /\ ValAt(t)' = ValAt(t)
           /\ Len(Contents) < Room /\ Contents' = Append(Contents, ValAt(t))
  <2>1. B!Enqueue(t)
    BY <1>1, <1>2, <1>6 DEF B!Enqueue
  <2> QED BY <2>1 DEF B!BNext
<1>7. CASE /\ OpAt(t) = "deq" /\ OpAt(t)' = "done" /\ ValAt(t)' = Head(Contents)
           /\ Contents # <<>> /\ Contents' = Tail(Contents)
  <2>1. B!Dequeue(t)
    BY <1>1, <1>2, <1>7 DEF B!Dequeue
  <2> QED BY <2>1 DEF B!BNext
<1>8. CASE OpAt(t) = "clear" /\ OpAt(t)' = "done" /\ ValAt(t)' = ValAt(t) /\ Contents' = <<>>
  <2>1. B!Clear(t)
    BY <1>1, <1>2, <1>8 DEF B!Clear
  <2> QED BY <2>1 DEF B!BNext
<1>9. CASE OpAt(t)' = "idle" /\ ValAt(t)' = None /\ Contents' = Contents
  <2>1. B!Finish(t)
    BY <1>1, <1>2, <1>9 DEF B!Finish
  <2> QED BY <2>1 DEF B!BNext
<1> QED BY <1>3, <1>4, <1>5, <1>6, <1>7, <1>8, <1>9 DEF Effect

\* Lamport's buffer: push takes effect when it moves the tail, pop when it moves the head.
LEMMA CEffect ==
  ASSUME C!Constants, kind = "circular", kind' = kind, CInv, Unset({}), C!Next
  PROVE  B!BNext \/ UNCHANGED B!bvars
<1>0. /\ Contents = items /\ Contents' = items' /\ Room = Size /\ items \in Seq(Value)
      /\ \A u \in C!Side : /\ OpAt(u) = C!OpOf(u) /\ OpAt(u)' = C!OpOf(u)'
                           /\ ValAt(u) = C!ValOf(u) /\ ValAt(u)' = C!ValOf(u)'
      /\ \A u : u \notin C!Side => OpAt(u)' = OpAt(u) /\ ValAt(u)' = ValAt(u)
  <2>1. C!TypeOK /\ C!TypeOK'
    BY CKeeps DEF CInv
  <2>2. DOMAIN pc = C!Side /\ DOMAIN pc' = C!Side /\ items \in Seq(Value)
    BY <2>1 DEF C!TypeOK
  <2>3. Contents = items /\ Contents' = items' /\ Room = Size
    BY DEF Contents, Room, Choose, Linked, Tagged
  <2>4. \A u \in C!Side : OpAt(u) = C!OpOf(u) /\ OpAt(u)' = C!OpOf(u)'
    BY <2>2 DEF OpAt, Choose, Tagged
  <2>5. \A u \in C!Side : ValAt(u) = C!ValOf(u) /\ ValAt(u)' = C!ValOf(u)'
    BY <2>2 DEF ValAt, Choose, Tagged
  <2> QED BY <2>2, <2>3, <2>4, <2>5 DEF OpAt, ValAt
<1>1. Producer \in AllThreads /\ Consumer \in AllThreads /\ C!Side \subseteq AllThreads
  BY DEF AllThreads, C!Side
<1>2. \E t \in C!Side : Alone(t) /\ Effect(t)
  <2> USE <1>0 DEF Alone, Effect, C!Goto, C!OpOf, C!ValOf, C!Side, C!PushPC, C!PopPC, C!Constants, CInv, C!TypeOK
  <2>1. ASSUME NEW v \in Value, C!Push(v) PROVE Alone(Producer) /\ Effect(Producer)
    BY <2>1 DEF C!Push
  <2>2. ASSUME C!PushCheck PROVE Alone(Producer) /\ Effect(Producer)
    BY <2>2 DEF C!PushCheck
  <2>3. ASSUME C!PushWrite PROVE Alone(Producer) /\ Effect(Producer)
    BY <2>3 DEF C!PushWrite
  <2>4. ASSUME C!PushTail PROVE Alone(Producer) /\ Effect(Producer)
    BY <2>4 DEF C!PushTail, CBusy, CSize
  <2>5. ASSUME C!Pop PROVE Alone(Consumer) /\ Effect(Consumer)
    BY <2>5 DEF C!Pop, Unset
  <2>6. ASSUME C!PopCheck PROVE Alone(Consumer) /\ Effect(Consumer)
    BY <2>6 DEF C!PopCheck
  <2>7. ASSUME C!PopRead PROVE Alone(Consumer) /\ Effect(Consumer)
    BY <2>7 DEF C!PopRead
  <2>8. ASSUME C!PopHead PROVE Alone(Consumer) /\ Effect(Consumer)
    BY <2>8, TailOf DEF C!PopHead, CBusy
  <2>9. ASSUME NEW t \in C!Side, C!Leave(t) PROVE Alone(t) /\ Effect(t)
    BY <2>9 DEF C!Leave
  <2> QED BY <2>1, <2>2, <2>3, <2>4, <2>5, <2>6, <2>7, <2>8, <2>9 DEF C!Next
<1> QED BY <1>1, <1>2, Effects

\* The FastForward queue: each side takes effect when it stores to its cell.
LEMMA FEffect ==
  ASSUME F!Constants, kind = "fastforward", kind' = kind, FInv, Unset({}), F!Next
  PROVE  B!BNext \/ UNCHANGED B!bvars
<1>0. /\ Contents = items /\ Contents' = items' /\ Room = Size + 1 /\ items \in Seq(Value)
      /\ \A u \in F!Side : /\ OpAt(u) = F!OpOf(u) /\ OpAt(u)' = F!OpOf(u)'
                           /\ ValAt(u) = F!ValOf(u) /\ ValAt(u)' = F!ValOf(u)'
      /\ \A u : u \notin F!Side => OpAt(u)' = OpAt(u) /\ ValAt(u)' = ValAt(u)
  <2>1. F!TypeOK /\ F!TypeOK'
    BY FKeeps DEF FInv
  <2>2. DOMAIN pc = F!Side /\ DOMAIN pc' = F!Side /\ items \in Seq(Value)
    BY <2>1 DEF F!TypeOK
  <2>3. Contents = items /\ Contents' = items' /\ Room = Size + 1
    BY DEF Contents, Room, Choose, Linked, Tagged, F!Capacity
  <2>4. \A u \in F!Side : OpAt(u) = F!OpOf(u) /\ OpAt(u)' = F!OpOf(u)'
    BY <2>2 DEF OpAt, Choose, Tagged
  <2>5. \A u \in F!Side : ValAt(u) = F!ValOf(u) /\ ValAt(u)' = F!ValOf(u)'
    BY <2>2 DEF ValAt, Choose, Tagged
  <2> QED BY <2>2, <2>3, <2>4, <2>5 DEF OpAt, ValAt
<1>1. Producer \in AllThreads /\ Consumer \in AllThreads /\ F!Side \subseteq AllThreads
  BY DEF AllThreads, F!Side
<1>2. \E t \in F!Side : Alone(t) /\ Effect(t)
  <2> USE <1>0 DEF Alone, Effect, F!Goto, F!OpOf, F!ValOf, F!Side, F!EnqPC, F!DeqPC, F!Constants, FInv, F!TypeOK
  <2>1. ASSUME NEW v \in Value, F!Enqueue(v) PROVE Alone(Producer) /\ Effect(Producer)
    BY <2>1 DEF F!Enqueue
  <2>2. ASSUME F!EnqCheck PROVE Alone(Producer) /\ Effect(Producer)
    BY <2>2 DEF F!EnqCheck
  <2>3. ASSUME F!EnqWrite PROVE Alone(Producer) /\ Effect(Producer)
    BY <2>3 DEF F!EnqWrite, FBusy, FSize
  <2>4. ASSUME F!Dequeue PROVE Alone(Consumer) /\ Effect(Consumer)
    BY <2>4 DEF F!Dequeue, Unset
  <2>5. ASSUME F!DeqRead PROVE Alone(Consumer) /\ Effect(Consumer)
    BY <2>5 DEF F!DeqRead
  <2>6. ASSUME F!DeqClear PROVE Alone(Consumer) /\ Effect(Consumer)
    BY <2>6, TailOf DEF F!DeqClear, FBusy
  <2>7. ASSUME NEW t \in F!Side, F!Leave(t) PROVE Alone(t) /\ Effect(t)
    BY <2>7 DEF F!Leave
  <2> QED BY <2>1, <2>2, <2>3, <2>4, <2>5, <2>6, <2>7 DEF F!Next
<1> QED BY <1>1, <1>2, Effects

\* The dequeue that takes a position finds the first item in the cell.
LEMMA VTakes ==
  ASSUME V!Constants, VInv, NEW t \in Thread, pc[t] = "d_cas", posDequeue = pos[t]
  PROVE  items # <<>> /\ array[V!CellOf(pos[t])].data = Head(items)
<1>1. VAt(0) = posDequeue /\ VAt(0) # VAt(1)
  <2>1. 1 < Modulus /\ V!TypeOK
    BY VConstants DEF VInv
  <2>2. VAt(0) = posDequeue /\ \A i, j \in Int : VAt(i) = VAt(j) /\ i - j < Modulus /\ j - i < Modulus => i = j
    BY <2>1, AtDiffer
  <2>3. 0 - 1 < Modulus /\ 1 - 0 < Modulus
    BY <2>1, VConstants
  <2>4. VAt(0) = VAt(1) => 0 = 1
    BY <2>2, <2>3
  <2> QED BY <2>2, <2>4
<1>2. VSize > 0 /\ VSize \in Nat /\ VSeq(0) = VAt(1) /\ items \in Seq(Value) /\ 0 \in 0..(BufferSize - 1)
  <2>1. BufferSize \in Nat /\ BufferSize > 1
    BY VConstants
  <2> QED BY <2>1 DEF VInv, VReady, V!TypeOK, VSize
<1>3. VData(0) = items[0 + 1]
  <2>1. VSeq(0) # VAt(0) /\ 0 < VSize
    BY <1>1, <1>2
  <2> QED BY <1>2, <2>1 DEF VInv, VState, VCells
<1> QED BY <1>1, <1>2, <1>3 DEF VData, VSize

\* Vyukov's queue: a call takes effect when its compare-and-swap succeeds; the value that a
\* dequeue will read is then in its cell, and stays there.
LEMMA VEffect ==
  ASSUME V!Constants, kind = "vyukov", kind' = kind, VInv, NEW t \in Thread, V!Step(t), V!Watch
  PROVE  B!BNext \/ UNCHANGED B!bvars
<1>0. /\ Contents = items /\ Contents' = items' /\ Room = BufferSize /\ items \in Seq(Value)
      /\ \A u \in Thread : /\ OpAt(u) = V!OpOf(u) /\ OpAt(u)' = V!OpOf(u)'
                           /\ ValAt(u) = V!ValOf(u) /\ ValAt(u)' = V!ValOf(u)'
      /\ \A u : u \notin Thread => OpAt(u)' = OpAt(u) /\ ValAt(u)' = ValAt(u)
  <2>1. V!TypeOK /\ V!TypeOK'
    BY VKeeps DEF VInv
  <2>2. DOMAIN pc = Thread /\ DOMAIN pc' = Thread /\ items \in Seq(Value)
    BY <2>1 DEF V!TypeOK
  <2>3. Contents = items /\ Contents' = items' /\ Room = BufferSize
    BY DEF Contents, Room, Choose, Linked, Tagged
  <2>4. \A u \in Thread : OpAt(u) = V!OpOf(u) /\ OpAt(u)' = V!OpOf(u)'
    BY <2>2 DEF OpAt, Choose, Tagged
  <2>5. \A u \in Thread : ValAt(u) = V!ValOf(u) /\ ValAt(u)' = V!ValOf(u)'
    BY <2>2 DEF ValAt, Choose, Tagged
  <2> QED BY <2>2, <2>3, <2>4, <2>5 DEF OpAt, ValAt
<1>1. t \in AllThreads
  BY DEF AllThreads
<1>2. Alone(t) /\ Effect(t)
  <2> USE <1>0 DEF Alone, Effect, V!Goto, V!OpOf, V!ValOf, V!EnqPC, V!DeqPC, V!DonePC, VInv, V!TypeOK
  <2>1. ASSUME NEW v \in Value, V!Enqueue(t, v) PROVE Alone(t) /\ Effect(t)
    BY <2>1 DEF V!Enqueue
  <2>2. ASSUME V!EnqLoad(t) PROVE Alone(t) /\ Effect(t)
    BY <2>2 DEF V!EnqLoad
  <2>3. ASSUME V!EnqSeq(t) PROVE Alone(t) /\ Effect(t)
    BY <2>3 DEF V!EnqSeq, V!Turn
  <2>4. ASSUME V!EnqCas(t) PROVE Alone(t) /\ Effect(t)
    <3>1. CASE posEnqueue = pos[t]
      <4>1. /\ Len(items) < BufferSize /\ items' = Append(items, val[t]) /\ val' = val /\ array' = array /\ pos' = pos
            /\ pc[t] = "e_cas" /\ pc' = [pc EXCEPT ![t] = "e_write"]
        BY <2>4, <3>1 DEF V!EnqCas, VReady, VSize
      <4> QED BY <4>1
    <3>2. CASE posEnqueue # pos[t]
      BY <2>4, <3>2 DEF V!EnqCas
    <3> QED BY <3>1, <3>2
  <2>5. ASSUME V!EnqWrite(t) PROVE Alone(t) /\ Effect(t)
    BY <2>5 DEF V!EnqWrite, VState, V!NoRace
  <2>6. ASSUME V!EnqPublish(t) PROVE Alone(t) /\ Effect(t)
    <3>1. pc[t] = "e_publish" /\ pc' = [pc EXCEPT ![t] = "done"] /\ UNCHANGED <<pos, val, items>>
      BY <2>6 DEF V!EnqPublish
    <3>2. DOMAIN pc = Thread /\ pc'[t] = "done" /\ \A u \in Thread \ {t} : pc'[u] = pc[u]
      BY ONLY <3>1, VInv, t \in Thread DEF VInv, V!TypeOK
    <3>3. \A u \in Thread : array'[V!CellOf(pos[u])].data = array[V!CellOf(pos[u])].data
      <4>1. \A u \in Thread : V!CellOf(pos[u]) \in 0..(BufferSize - 1)
        <5>1. BufferSize \in Nat \ {0} /\ \A u \in Thread : pos[u] \in Int
          BY ONLY VConstants, V!Constants, VInv DEF VInv, V!TypeOK, V!Pos
        <5> QED BY ONLY <5>1, ModDef DEF V!CellOf
      <4>2. array' = [array EXCEPT ![V!CellOf(pos[t])].sequence = V!Plus(pos[t], 1)]
        BY ONLY <2>6 DEF V!EnqPublish
      <4> QED BY ONLY <4>1, <4>2, VInv DEF VInv, V!TypeOK
    <3>4. \A u \in Thread : OpAt(u)' = OpAt(u) /\ ValAt(u)' = ValAt(u)
      BY ONLY <1>0, <3>1, <3>2, <3>3, t \in Thread DEF V!OpOf, V!ValOf, V!EnqPC, V!DeqPC, V!DonePC
    <3> QED BY ONLY <1>0, <3>1, <3>4, t \in Thread DEF Alone, Effect
  <2>7. ASSUME V!Dequeue(t) PROVE Alone(t) /\ Effect(t)
    BY <2>7 DEF V!Dequeue
  <2>8. ASSUME V!DeqLoad(t) PROVE Alone(t) /\ Effect(t)
    BY <2>8 DEF V!DeqLoad
  <2>9. ASSUME V!DeqSeq(t) PROVE Alone(t) /\ Effect(t)
    BY <2>9 DEF V!DeqSeq, V!Turn
  <2>10. ASSUME V!DeqCas(t) PROVE Alone(t) /\ Effect(t)
    <3>1. CASE posDequeue = pos[t]
      <4>1. /\ val' = val /\ array' = array /\ pos' = pos /\ items' = SubSeq(items, 2, Len(items))
            /\ pc[t] = "d_cas" /\ pc' = [pc EXCEPT ![t] = "d_read"]
        BY <2>10, <3>1 DEF V!DeqCas
      <4>2. items # <<>> /\ array[V!CellOf(pos[t])].data = Head(items)
        BY <3>1, <4>1, VTakes
      <4>3. items' = Tail(items)
        BY <4>1, <4>2, TailOf
      <4> QED BY <4>1, <4>2, <4>3
    <3>2. CASE posDequeue # pos[t]
      BY <2>10, <3>2 DEF V!DeqCas
    <3> QED BY <3>1, <3>2
  <2>11. ASSUME V!DeqRead(t) PROVE Alone(t) /\ Effect(t)
    BY <2>11 DEF V!DeqRead
  <2>12. ASSUME V!DeqRelease(t) PROVE Alone(t) /\ Effect(t)
    BY <2>12 DEF V!DeqRelease
  <2>13. ASSUME V!Leave(t) PROVE Alone(t) /\ Effect(t)
    BY <2>13 DEF V!Leave
  <2> QED BY <2>1, <2>2, <2>3, <2>4, <2>5, <2>6, <2>7, <2>8, <2>9, <2>10, <2>11, <2>12, <2>13 DEF V!Step
<1> QED BY <1>1, <1>2, Effects

\* The list of the two-lock queue cannot be as long as there are nodes while an enqueue has one.
LEMMA RFits ==
  ASSUME RConstants, RInv, NEW t \in Thread, pc[t] = "e_link"
  PROVE  RSize < Cardinality(Node)
<1> DEFINE n == RSize
           f == [i \in 0..(n + 1) |-> IF i = n + 1 THEN node[t] ELSE RAt(i)]
<1>0. n \in Nat /\ Cardinality(Node) \in Nat /\ IsFiniteSet(Node)
  <2>1. n \in Nat /\ IsFiniteSet(Node)
    BY RList DEF RInv, RConstants, L!TaggedConstants, L!IsFiniteSet, IsFiniteSet
  <2> QED BY <2>1, FS_CardinalityType
<1>1. /\ node[t] \in Node /\ \A i \in 0..n : RAt(i) \in Node /\ RAt(i) # node[t]
      /\ \A i, j \in 0..n : RAt(i) = RAt(j) => i = j
  BY DEF RInv, RShape, ROwn, OwnPC
<1>2. f \in [0..(n + 1) -> Node] /\ \A i, j \in 0..(n + 1) : f[i] = f[j] => i = j
  <2>1. \A i \in 0..(n + 1) : i = n + 1 \/ i \in 0..n
    BY <1>0
  <2> QED BY <1>1, <2>1
<1>3. IsFiniteSet(0..(n + 1)) /\ Cardinality(0..(n + 1)) = n + 2
  <2> DEFINE m == n + 1
  <2>1. m \in Int /\ m - 0 + 1 = n + 2 /\ 0 <= m
    BY <1>0
  <2> HIDE DEF m
  <2>2. IsFiniteSet(0..m) /\ Cardinality(0..m) = IF 0 > m THEN 0 ELSE m - 0 + 1
    BY <2>1, FS_Interval
  <2> QED BY <2>1, <2>2 DEF m
<1> HIDE DEF f
<1>4. ~ (Cardinality(Node) < Cardinality(0..(n + 1)))
  BY <1>0, <1>2, <1>3, FS_PigeonHole
<1> QED BY <1>0, <1>3, <1>4

\* The two-lock queue: an enqueue takes effect when it links its node, a dequeue when it moves the
\* head, and clear when it has both locks.
LEMMA REffect ==
  ASSUME RConstants, kind = "two_lock", kind' = kind, RInv, Unset(R!ClearPC), R!RWNext
  PROVE  B!BNext \/ UNCHANGED B!bvars
<1>0. /\ items \in Seq(Node) /\ Room = Cardinality(Node)
      /\ Contents = [i \in DOMAIN items |-> data[items[i]]] /\ Contents' = [i \in DOMAIN items' |-> data'[items'[i]]]
      /\ \A u \in Thread : /\ OpAt(u) = R!RWOp(u) /\ OpAt(u)' = R!RWOp(u)'
                           /\ ValAt(u) = R!RWVal(u) /\ ValAt(u)' = R!RWVal(u)'
      /\ \A u : u \notin Thread => OpAt(u)' = OpAt(u) /\ ValAt(u)' = ValAt(u)
  <2>1. R!RWTypeOK /\ R!RWTypeOK'
    BY RKeeps DEF RInv
  <2>2. DOMAIN pc = Thread /\ DOMAIN pc' = Thread /\ items \in Seq(Node)
    BY <2>1 DEF R!RWTypeOK
  <2>3. /\ Room = Cardinality(Node)
        /\ Contents = [i \in DOMAIN items |-> data[items[i]]] /\ Contents' = [i \in DOMAIN items' |-> data'[items'[i]]]
    BY DEF Contents, Room, Linked, Tagged
  <2>4. \A u \in Thread : OpAt(u) = R!RWOp(u) /\ OpAt(u)' = R!RWOp(u)'
    BY <2>2 DEF OpAt, Choose, Tagged
  <2>5. \A u \in Thread : ValAt(u) = R!RWVal(u) /\ ValAt(u)' = R!RWVal(u)'
    BY <2>2 DEF ValAt, Choose, Tagged
  <2> QED BY <2>2, <2>3, <2>4, <2>5 DEF OpAt, ValAt
<1>1. Thread \subseteq AllThreads
  BY DEF AllThreads
<1>3. ASSUME NEW t \in Thread, NEW x, pc' = [pc EXCEPT ![t] = x], val' = val
      PROVE  Alone(t) /\ pc'[t] = x /\ val'[t] = val[t]
  <2>1. ASSUME NEW u \in Thread \ {t} PROVE OpAt(u)' = OpAt(u) /\ ValAt(u)' = ValAt(u)
    <3>1. pc'[u] = pc[u] /\ val'[u] = val[u]
      BY <1>3
    <3>2. R!RWOp(u)' = R!RWOp(u) /\ R!RWVal(u)' = R!RWVal(u)
      BY <3>1 DEF R!RWOp, R!RWVal
    <3> QED BY <1>0, <3>2
  <2>2. \A u \in AllThreads \ {t} : OpAt(u)' = OpAt(u) /\ ValAt(u)' = ValAt(u)
    BY <1>0, <2>1
  <2>3. pc'[t] = x
    BY <1>3 DEF RInv, R!RWTypeOK
  <2> QED BY <1>3, <2>2, <2>3 DEF Alone
<1>2. \E t \in Thread : Alone(t) /\ Effect(t)
  <2> USE <1>0 DEF Alone, Effect, R!Goto, R!RWOp, R!RWVal, R!EnqPC, R!DeqPC, R!ClearPC, R!DonePC, RInv, R!RWTypeOK,
          R!queueVars, R!lockVars, R!localVars
  <2>1. ASSUME NEW t \in Thread, NEW v \in Value, NEW n \in Node, R!Enqueue(t, v, n) PROVE Alone(t) /\ Effect(t)
    <3>1. \A i \in DOMAIN items : items[i] # n
      BY <2>1, RList DEF R!Enqueue, RShape, RSize
    <3>2. Contents' = Contents
      BY <2>1, <3>1 DEF R!Enqueue
    <3> QED BY <2>1, <3>2 DEF R!Enqueue
  <2>2. ASSUME NEW t \in Thread, R!LockTail(t, "e_lock", "e_link") PROVE Alone(t) /\ Effect(t)
    BY <2>2 DEF R!LockTail
  <2>3. ASSUME NEW t \in Thread, R!EnqLink(t) PROVE Alone(t) /\ Effect(t)
    <3>1. Contents' = Append(Contents, val[t])
      BY <2>3 DEF R!EnqLink, RBusy, RKnows
    <3>2. Len(Contents) = RSize /\ pc[t] = "e_link"
      BY <2>3 DEF RSize, R!EnqLink
    <3>3. pc' = [pc EXCEPT ![t] = "e_tail"] /\ val' = val
      BY <2>3 DEF R!EnqLink
    <3>4. Alone(t) /\ pc'[t] = "e_tail" /\ val'[t] = val[t]
      BY ONLY <1>3, <3>3
    <3>5. OpAt(t) = "enq" /\ OpAt(t)' = "done" /\ ValAt(t) = val[t] /\ ValAt(t)' = val[t]
      BY ONLY <1>0, <3>2, <3>4 DEF R!RWOp, R!RWVal, R!EnqPC, R!DeqPC, R!ClearPC, R!DonePC
    <3>6. Len(Contents) < Room
      BY <3>2, RFits
    <3> QED BY ONLY <3>1, <3>4, <3>5, <3>6 DEF Effect
  <2>4. ASSUME NEW t \in Thread, R!EnqTail(t) PROVE Alone(t) /\ Effect(t)
    BY <2>4 DEF R!EnqTail
  <2>5. ASSUME NEW t \in Thread, R!UnlockTail(t, "e_unlock", "done") PROVE Alone(t) /\ Effect(t)
    BY <2>5 DEF R!UnlockTail
  <2>6. ASSUME NEW t \in Thread, R!Dequeue(t) PROVE Alone(t) /\ Effect(t)
    BY <2>6 DEF R!Dequeue, Unset
  <2>7. ASSUME NEW t \in Thread, R!LockHead(t, "d_lock", "d_next") PROVE Alone(t) /\ Effect(t)
    BY <2>7 DEF R!LockHead
  <2>8. ASSUME NEW t \in Thread, R!DeqNext(t) PROVE Alone(t) /\ Effect(t)
    BY <2>8 DEF R!DeqNext
  <2>9. ASSUME NEW t \in Thread, R!DeqData(t) PROVE Alone(t) /\ Effect(t)
    BY <2>9 DEF R!DeqData
  <2>10. ASSUME NEW t \in Thread, R!DeqMove(t) PROVE Alone(t) /\ Effect(t)
    <3>1. items # <<>> /\ val[t] = data[items[1]]
      BY <2>10 DEF R!DeqMove, RBusy, RKnows, RSize
    <3>2. Contents # <<>> /\ Head(Contents) = data[items[1]]
      BY <3>1
    <3>3. Contents' = Tail(Contents)
      BY <2>10, <3>1 DEF R!DeqMove
    <3>4. pc[t] = "d_move" /\ pc' = [pc EXCEPT ![t] = "d_unlock"] /\ val' = val
      BY <2>10 DEF R!DeqMove
    <3>5. Alone(t) /\ pc'[t] = "d_unlock" /\ val'[t] = val[t]
      BY ONLY <1>3, <3>4
    <3>6. OpAt(t) = "deq" /\ OpAt(t)' = "done" /\ ValAt(t)' = val[t]
      BY ONLY <1>0, <3>4, <3>5 DEF R!RWOp, R!RWVal, R!EnqPC, R!DeqPC, R!ClearPC, R!DonePC
    <3> QED BY ONLY <3>1, <3>2, <3>3, <3>5, <3>6 DEF Effect
  <2>11. ASSUME NEW t \in Thread, R!UnlockHead(t, "d_unlock", "d_free") PROVE Alone(t) /\ Effect(t)
    BY <2>11 DEF R!UnlockHead
  <2>12. ASSUME NEW t \in Thread, R!UnlockHead(t, "d_give", "refused") PROVE Alone(t) /\ Effect(t)
    BY <2>12 DEF R!UnlockHead
  <2>13. ASSUME NEW t \in Thread, R!DeqFree(t) PROVE Alone(t) /\ Effect(t)
    <3>1. pc[t] = "d_free" /\ pc' = [pc EXCEPT ![t] = "done"] /\ val' = val /\ Contents' = Contents
      BY <2>13 DEF R!DeqFree
    <3>2. Alone(t) /\ pc'[t] = "done" /\ val'[t] = val[t]
      BY ONLY <1>3, <3>1
    <3>3. OpAt(t)' = OpAt(t) /\ ValAt(t)' = ValAt(t)
      BY ONLY <1>0, <3>1, <3>2 DEF R!RWOp, R!RWVal, R!EnqPC, R!DeqPC, R!ClearPC, R!DonePC
    <3> QED BY ONLY <3>1, <3>2, <3>3 DEF Effect
  <2>14. ASSUME NEW t \in Thread, R!Clear(t) PROVE Alone(t) /\ Effect(t)
    BY <2>14 DEF R!Clear, Unset
  <2>15. ASSUME NEW t \in Thread, R!LockHead(t, "c_head", "c_tail") PROVE Alone(t) /\ Effect(t)
    BY <2>15 DEF R!LockHead
  <2>16. ASSUME NEW t \in Thread, R!LockTail(t, "c_tail", "c_walk") PROVE Alone(t) /\ Effect(t)
    BY <2>16 DEF R!LockTail
  <2>17. ASSUME NEW t \in Thread, R!ClearWalk(t) PROVE Alone(t) /\ Effect(t)
    <3>1. Contents' = <<>>
      BY <2>17 DEF R!ClearWalk
    <3> QED BY <2>17, <3>1 DEF R!ClearWalk, Unset
  <2>18. ASSUME NEW t \in Thread, R!UnlockTail(t, "c_unlock", "c_unlock2") PROVE Alone(t) /\ Effect(t)
    BY <2>18 DEF R!UnlockTail
  <2>19. ASSUME NEW t \in Thread, R!UnlockHead(t, "c_unlock2", "done") PROVE Alone(t) /\ Effect(t)
    BY <2>19 DEF R!UnlockHead
  <2>20. ASSUME NEW t \in Thread, R!Leave(t) PROVE Alone(t) /\ Effect(t)
    BY <2>20 DEF R!Leave
  <2> HIDE <1>0 DEF Alone, Effect, R!Goto, R!RWOp, R!RWVal, R!EnqPC, R!DeqPC, R!ClearPC, R!DonePC, RInv, R!RWTypeOK,
          R!queueVars, R!lockVars, R!localVars
  <2> QED BY <2>1, <2>2, <2>3, <2>4, <2>5, <2>6, <2>7, <2>8, <2>9, <2>10, <2>11, <2>12, <2>13, <2>14, <2>15,
             <2>16, <2>17, <2>18, <2>19, <2>20 DEF R!RWNext
<1> QED BY <1>1, <1>2, Effects

\* The constructor makes an empty queue,
LEMMA BeginsEmpty ==
  ASSUME Init, kind \in Proved
  PROVE  B!BInit
<1>1. Room \in Nat
  <2>1. IsFiniteSet(Node) /\ Size \in Nat /\ BufferSize \in Nat
    BY ConstantsAssumption DEF L!TaggedConstants, C!Constants, V!Constants, L!IsFiniteSet, IsFiniteSet
  <2>2. Cardinality(Node) \in Nat
    BY <2>1, FS_CardinalityType
  <2> QED BY <2>1, <2>2 DEF Room, Choose, Linked, Tagged, F!Capacity, Proved
<1>2. items = <<>> /\ \A u \in DOMAIN pc : pc[u] = "idle" /\ val[u] = None
  BY DEF Init, Proved, Linked, Tagged, V!Init, C!Init, F!Init, R!RWInit
<1>3. Contents = <<>>
  BY <1>2 DEF Contents
<1>4. Ops = [u \in AllThreads |-> "idle"] /\ Vals = [u \in AllThreads |-> None]
  <2>1. \A u : OpAt(u) = "idle" /\ ValAt(u) = None
    BY <1>2 DEF OpAt, ValAt, Choose, Proved, Tagged, V!OpOf, V!ValOf, C!OpOf, C!ValOf, F!OpOf, F!ValOf, R!RWOp, R!RWVal,
          V!EnqPC, V!DeqPC, V!DonePC, C!PushPC, C!PopPC, F!EnqPC, F!DeqPC, R!EnqPC, R!DeqPC, R!ClearPC, R!DonePC
  <2> QED BY <2>1 DEF Ops, Vals
<1> QED BY <1>1, <1>3, <1>4 DEF B!BInit

\* and every step of a call is one of the abstract queue, or none.
LEMMA Implements ==
  ASSUME Inv, kind \in Proved, [Next]_vars
  PROVE  kind' \in Proved /\ [B!BNext]_B!bvars
<1>1. V!Constants /\ C!Constants /\ F!Constants /\ RConstants
  BY ConstantsAssumption DEF RConstants
<1>2. CASE UNCHANGED vars
  <2> USE <1>2 DEF vars, arrayVars, nodeVars, tagVars
  <2>1. Room' = Room /\ Contents' = Contents
    BY DEF Room, Choose, Contents, Linked, Tagged
  <2>2. \A u : OpAt(u)' = OpAt(u) /\ ValAt(u)' = ValAt(u)
    BY DEF OpAt, ValAt, Choose, Proved, Tagged, V!OpOf, V!ValOf, C!OpOf, C!ValOf, F!OpOf, F!ValOf, R!RWOp, R!RWVal
  <2>3. Ops' = Ops /\ Vals' = Vals
    BY <2>2 DEF Ops, Vals
  <2> QED BY <2>1, <2>3 DEF B!bvars
<1>3. CASE Next
  <2>1. kind' = kind
    BY <1>3 DEF Next
  <2>2. CASE kind = "vyukov"
    <3>1. PICK t \in Thread : V!Step(t) /\ V!Watch
      BY <1>3, <2>2 DEF Next, V!Next, Linked, Tagged
    <3> QED BY <1>1, <2>1, <2>2, <3>1, VEffect DEF Inv
  <2>3. CASE kind = "circular"
    <3>1. C!Next
      BY <1>3, <2>3 DEF Next, Linked, Tagged
    <3> QED BY <1>1, <2>1, <2>3, <3>1, CEffect DEF Inv
  <2>4. CASE kind = "fastforward"
    <3>1. F!Next
      BY <1>3, <2>4 DEF Next, Linked, Tagged
    <3> QED BY <1>1, <2>1, <2>4, <3>1, FEffect DEF Inv
  <2>5. CASE kind = "two_lock"
    <3>1. R!RWNext
      BY <1>3, <2>5 DEF Next, Linked, Tagged
    <3> QED BY <1>1, <2>1, <2>5, <3>1, REffect DEF Inv
  <2> QED BY <2>1, <2>2, <2>3, <2>4, <2>5 DEF Proved
<1> QED BY <1>2, <1>3

\* Vyukov's queue, the two single-producer queues and the two-lock queue are first-in first-out
\* queues of their capacity: each call that succeeds takes effect at one instant.
THEOREM TakesEffectAtOnce == Spec /\ kind \in Proved => Linearizable
<1>1. Init /\ kind \in Proved => B!BInit
  BY BeginsEmpty
<1>2. Inv /\ kind \in Proved /\ [Next]_vars => (kind \in Proved)' /\ [B!BNext]_B!bvars
  BY Implements
<1> QED BY <1>1, <1>2, Always, PTL DEF Spec, Linearizable, B!BSpec
=============================================================================
