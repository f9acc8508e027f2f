-------------------------- MODULE TimeWindows_proofs --------------------------
(***************************************************************************)
(* Proofs about the structures that keep a window of the latest times, and *)
(* number its intervals modulo their number: the circular buffer and the   *)
(* cuckoo filter whose entries expire.                                     *)
(*                                                                         *)
(* The circular buffer, for every number of rows and columns, row length   *)
(* and set of times and values. The invariant has three parts. TypeOK says *)
(* that the buffer is a ring: the newest time is the beginning of a row,   *)
(* and that row is the slot of the time modulo the number of rows, so that *)
(* a slot of the window is the row of its number modulo rows, and of no    *)
(* other slot of the window. DeltaInv says that the reader's values and    *)
(* the changes make up the values, also of the cells that are not set;     *)
(* AnnoInv that a place of the table has one annotation, none of them      *)
(* ahead of the window, and that the reader has those that are not to be   *)
(* sent. A step of add, set or of a call that is refused is taken in two   *)
(* parts: the window moves, then a cell of it is written. Everything rests *)
(* on the lemmas about clear_rows (a recursive function, whose closed form *)
(* is found by descent) and about remainders.                              *)
(*                                                                         *)
(* The filter, for every number of keys, buckets and places, any hash, any *)
(* window and any number of kicks. FilterOK says that the entries are in   *)
(* buckets of their keys, at most one of each key, and that cnt counts     *)
(* them; it rests on one lemma for each way to change a bucket, and on the *)
(* invariant of the kick loop: the entry without a place is the only one   *)
(* of its key, and one of its buckets is the one it is tried in next.      *)
(* WindowOK adds that every entry stands for one time of the window: that  *)
(* at which its key was last added, or a later one if a jump over a whole  *)
(* window has left the entry behind.  It holds as long as the clock of the *)
(* filter is right (ClockRight), for times that jump as far as they like.  *)
(***************************************************************************)
EXTENDS CircularBuffer, CuckooFilterExpire, TLAPS, WellFoundedInduction, FiniteSetTheorems

\* A set of natural numbers that is not empty has a least element.
LEMMA LeastNatural ==
  ASSUME NEW S, S \subseteq Nat, S # {}
  PROVE  \E x \in S : \A y \in S : x <= y
<1> DEFINE R == OpToRel(<, Nat)
<1>1. PICK x \in S : \A y \in S : ~ (<<y, x>> \in R)
  <2>1. IsWellFoundedOn(R, Nat)
    BY NatLessThanWellFounded
  <2> HIDE DEF R
  <2> QED
    BY <2>1, WFMin
<1>2. \A y \in S : x <= y
  <2> SUFFICES ASSUME NEW y \in S PROVE x <= y
    OBVIOUS
  <2>1. x \in Nat /\ y \in Nat
    OBVIOUS
  <2>2. y < x => <<y, x>> \in R
    BY <2>1 DEF OpToRel
  <2> HIDE DEF R
  <2> QED
    BY <1>1, <2>1, <2>2
<1> QED
  BY <1>2

\* copy_cleared_row, which doubles the block it copies until none is left,
\* overwrites exactly the num rows behind the cleared one.
LEMMA CopyClearedRowIsAll ==
  ASSUME NEW num \in Nat
  PROVE  CopyClearedRow(num) = 1 .. num
<1> DEFINE body(f, n) == IF n = 0 THEN {}
        ELSE LET pool == 1 + num - n
                 ask  == IF n >= pool THEN pool ELSE n
             IN (pool .. pool + ask - 1) \cup f[n - ask]
<1> DEFINE fits(f) == f = [n \in 0 .. num |-> body(f, n)]
<1> DEFINE g == CHOOSE f : fits(f)
<1> DEFINE h == [n \in 0 .. num |-> (1 + num - n) .. num]
<1>1. CopyClearedRow(num) = g[num]
  BY DEF CopyClearedRow
<1>2. fits(h)
  <2>1. ASSUME NEW n \in 0 .. num PROVE h[n] = body(h, n)
    <3>1. CASE n = 0
      BY <3>1
    <3>2. CASE n # 0 /\ n >= 1 + num - n
      BY <3>2
    <3>3. CASE n # 0 /\ n < 1 + num - n
      BY <3>3
    <3> QED
      BY <3>1, <3>2, <3>3
  <2> QED
    BY <2>1
<1>3. fits(g)
  <2> HIDE DEF fits, h
  <2> QED
    BY <1>2
<1>4. \A n \in 0 .. num : g[n] = body(g, n)
  <2> HIDE DEF g
  <2> QED
    BY <1>3
<1> HIDE DEF g, h, fits
<1>a. g[0] = {}
  <2>1. 0 \in 0 .. num
    OBVIOUS
  <2>2. g[0] = body(g, 0)
    <3> HIDE DEF body
    <3> QED BY <1>4, <2>1
  <2> QED BY <2>2
<1>b. ASSUME NEW n \in 1 .. num, n >= 1 + num - n
      PROVE  g[n] = ((1 + num - n) .. (1 + num - n) + (1 + num - n) - 1) \cup g[n - (1 + num - n)]
  <2>1. g[n] = body(g, n)
    <3> HIDE DEF body
    <3> QED BY <1>4
  <2>2. n # 0 /\ n - n = 0
    OBVIOUS
  <2> QED BY <2>1, <2>2, <1>b
<1>c. ASSUME NEW n \in 1 .. num, n < 1 + num - n
      PROVE  g[n] = ((1 + num - n) .. (1 + num - n) + n - 1) \cup g[0]
  <2>1. g[n] = body(g, n)
    <3> HIDE DEF body
    <3> QED BY <1>4
  <2>2. n # 0 /\ n - n = 0
    OBVIOUS
  <2> QED BY <2>1, <2>2, <1>c
<1>h. \A n \in 0 .. num : h[n] = (1 + num - n) .. num
  BY DEF h
<1> HIDE DEF body
<1>5. \A n \in 0 .. num : g[n] = h[n]
  <2> DEFINE S == {n \in 0 .. num : g[n] # h[n]}
  <2> SUFFICES ASSUME S # {} PROVE FALSE
    OBVIOUS
  <2>s. S \subseteq Nat
    OBVIOUS
  <2>1. PICK n \in S : \A y \in S : n <= y
    <3> HIDE DEF S
    <3> QED
      BY <2>s, LeastNatural
  <2>2. n \in 0 .. num /\ g[n] # h[n]
    OBVIOUS
  <2>3. \A y \in 0 .. num : y < n => g[y] = h[y]
    BY <2>1
  <2>4. CASE n = 0
    <3>1. h[0] = {}
      BY <1>h
    <3> QED
      BY <1>a, <2>2, <2>4, <3>1
  <2> DEFINE p == 1 + num - n
  <2>p. p \in Nat \ {0} /\ n \in Nat /\ num = n + p - 1 /\ n = num + 1 - p
    BY <2>2
  <2>5. CASE n # 0 /\ n >= p
    <3>1. g[n] = (p .. p + p - 1) \cup g[n - p]
      BY <1>b, <2>2, <2>5
    <3>2. g[n - p] = h[n - p]
      <4>1. n - p \in 0 .. num /\ n - p < n
        BY <2>5, <2>p
      <4> QED
        BY <2>3, <4>1
    <3>3. h[n - p] = (p + p) .. num
      BY <1>h, <2>5, <2>p
    <3>4. h[n] = p .. num
      BY <1>h, <2>2
    <3> HIDE DEF p
    <3>5. p + p - 1 <= num
      BY <2>5, <2>p
    <3>6. (p .. p + p - 1) \cup ((p + p) .. num) = p .. num
      BY <2>p, <3>5
    <3> QED
      BY <2>2, <3>1, <3>2, <3>3, <3>4, <3>6
  <2>6. CASE n # 0 /\ n < p
    <3>1. g[n] = (p .. p + n - 1) \cup g[0]
      BY <1>c, <2>2, <2>6
    <3>2. g[0] = {}
      BY <1>a
    <3>4. h[n] = p .. num
      BY <1>h, <2>2
    <3> HIDE DEF p
    <3>5. p + n - 1 = num
      BY <2>p
    <3> QED
      BY <2>2, <3>1, <3>2, <3>4, <3>5
  <2> QED
    BY <2>2, <2>4, <2>5, <2>6
<1> QED
  BY <1>1, <1>5, <1>h

\* Division with remainder.
LEMMA DivMod ==
  ASSUME NEW d \in Nat \ {0}, NEW t \in Nat
  PROVE  t \div d \in Nat /\ t % d \in 0 .. d - 1 /\ t = d * (t \div d) + (t % d)
OBVIOUS

\* ... which gives the quotient and the remainder it was made from.
LEMMA DivUnique ==
  ASSUME NEW d \in Nat \ {0}, NEW q \in Nat, NEW r \in 0 .. d - 1
  PROVE  (d * q + r) \div d = q /\ (d * q + r) % d = r
OBVIOUS

\* The remainder of a number less than one divisor out of range.
LEMMA ModNear ==
  ASSUME NEW d \in Nat \ {0}, NEW x \in Int, -d < x, x < 2 * d
  PROVE  x % d = IF x < 0 THEN x + d ELSE IF x < d THEN x ELSE x - d
OBVIOUS

\* The remainder of a sum, from that of its first part.
LEMMA ModStep ==
  ASSUME NEW d \in Nat \ {0}, NEW k \in Nat, NEW i \in 0 .. d
  PROVE  (k+i) % d = IF (k % d) + i < d THEN (k % d) + i ELSE (k % d) + i - d
<1> DEFINE q == k \div d  m == k % d
<1>1. q \in Nat /\ m \in 0 .. d - 1 /\ k = d * q + m
  BY DivMod
<1> HIDE DEF q, m
<1>2. CASE m + i < d
  <2>1. (d * q + (m + i)) % d = m + i
    BY <1>1, <1>2, DivUnique
  <2>2. d * q + (m + i) = k + i
    BY <1>1
  <2> QED BY <2>1, <2>2, <1>2 DEF m
<1>3. CASE ~(m + i < d)
  <2>0. q + 1 \in Nat /\ m + i - d \in 0 .. d - 1
    BY <1>1, <1>3
  <2>1. (d * (q + 1) + (m + i - d)) % d = m + i - d
    BY <2>0, DivUnique
  <2>2. d * (q + 1) + (m + i - d) = k + i
    BY <1>1
  <2> QED BY <2>1, <2>2, <1>3, <1>1 DEF m
<1> QED BY <1>2, <1>3

\* A quotient grows by the multiples of the divisor that are added.
LEMMA DivAdd ==
  ASSUME NEW d \in Nat \ {0}, NEW t \in Nat, NEW j \in Nat
  PROVE  (t + j * d) \div d = (t \div d) + j
<1> DEFINE q == t \div d  m == t % d
<1>1. q \in Nat /\ m \in 0 .. d - 1 /\ t = d * q + m
  BY DivMod
<1> HIDE DEF q, m
<1>2. t + j * d = d * (q + j) + m
  BY <1>1
<1>3. (d * (q + j) + m) \div d = q + j
  BY <1>1, DivUnique
<1> QED BY <1>2, <1>3 DEF q

\* A quotient does not decrease.
LEMMA DivMonotone ==
  ASSUME NEW d \in Nat \ {0}, NEW t \in Nat, NEW u \in Nat, t <= u
  PROVE  t \div d <= u \div d
OBVIOUS

-----------------------------------------------------------------------------
(* The ring of rows.                                                       *)

\* What is added to a cell since the last output may exceed the cell.
Changes == Int \cup {NAN}

Buffers == [current_time: Times, current_row: Rows,
            values: [Rows -> [Columns -> Cells]], deltas: [Rows -> [Columns -> Changes]]]

\* The window ends with the row of the newest time, which begins it.
Ring(b) ==
  /\ b \in Buffers
  /\ rows - 1 <= CurrentSlot(b)
  /\ b.current_time = TimeOfSlot(CurrentSlot(b))
  /\ b.current_row = CurrentSlot(b) % rows

\* A time is that of its slot and less than a row more.
LEMMA SlotFacts ==
  ASSUME NEW t \in Nat
  PROVE  /\ Slot(t) \in Nat /\ RowOf(t) \in Rows
         /\ t = TimeOfSlot(Slot(t)) + (t % seconds_per_row)
         /\ t % seconds_per_row \in 0 .. seconds_per_row - 1
         /\ t <= MaxTime => Slot(t) \in Slots
<1>1. /\ Slot(t) \in Nat /\ t = TimeOfSlot(Slot(t)) + (t % seconds_per_row)
      /\ t % seconds_per_row \in 0 .. seconds_per_row - 1
  <2> DEFINE q == t \div seconds_per_row  m == t % seconds_per_row
  <2>1. seconds_per_row \in Nat \ {0}
    BY DimensionsAssumption
  <2>2. q \in Nat /\ m \in 0 .. seconds_per_row - 1 /\ t = seconds_per_row * q + m
    BY <2>1, DivMod
  <2> HIDE DEF q, m
  <2>3. t = q * seconds_per_row + m
    BY <2>1, <2>2
  <2> QED
    BY <2>2, <2>3 DEF q, m, Slot, TimeOfSlot
<1>2. RowOf(t) \in Rows
  <2>1. Slot(t) \in Nat /\ rows \in Nat \ {0}
    BY <1>1, DimensionsAssumption
  <2>2. Slot(t) % rows \in 0 .. rows - 1
    BY <2>1, DivMod
  <2> QED
    BY <2>2 DEF RowOf, Rows
<1>3. t <= MaxTime => Slot(t) <= Slot(MaxTime) /\ Slot(MaxTime) \in Nat
  BY DivMonotone, DivMod, DimensionsAssumption, BoundsAssumption DEF Slot
<1> QED
  BY <1>1, <1>2, <1>3 DEF Slots

\* The slot and the row of the time a slot begins at.
LEMMA SlotOfTime ==
  ASSUME NEW s \in Nat
  PROVE  TimeOfSlot(s) \in Nat /\ Slot(TimeOfSlot(s)) = s /\ RowOf(TimeOfSlot(s)) = s % rows
<1>1. (seconds_per_row * s + 0) \div seconds_per_row = s
  BY DivUnique, DimensionsAssumption
<1>2. seconds_per_row * s + 0 = s * seconds_per_row
  BY DimensionsAssumption
<1> QED
  BY <1>1, <1>2, DimensionsAssumption DEF TimeOfSlot, Slot, RowOf

\* The parts of a ring, and the constants, with the sets they are in.
LEMMA RingFacts ==
  ASSUME NEW b, Ring(b)
  PROVE  /\ b.current_time \in Times /\ b.current_time \in Nat
         /\ CurrentSlot(b) \in Nat /\ CurrentSlot(b) \in Slots /\ b.current_row \in Rows
         /\ rows \in Nat /\ rows > 1
<1>1. b.current_time \in Times /\ b.current_row \in Rows /\ rows \in Nat /\ rows > 1
  BY DimensionsAssumption DEF Ring, Buffers
<1>2. b.current_time \in Nat /\ b.current_time <= MaxTime
  BY <1>1, BoundsAssumption DEF Times
<1>3. Slot(b.current_time) \in Nat /\ Slot(b.current_time) \in Slots
  BY <1>2, SlotFacts
<1> QED
  BY <1>1, <1>2, <1>3 DEF CurrentSlot

\* clear_rows clears the rows of the delta slots after the newest one, and all
\* of them when the jump is longer than the ring: the one it clears first and
\* the blocks copied from it, before and after the end of the array, are these.
LEMMA ClearedRows ==
  ASSUME NEW b, Ring(b), NEW delta \in Nat \ {0}, NEW r \in Rows
  PROVE  r \in RowsToClear(b, delta)
           <=> \E i \in 1 .. rows : i <= delta /\ r = (CurrentSlot(b) + i) % rows
<1> DEFINE n == IF delta >= rows THEN rows ELSE delta
           row == IF b.current_row + 1 >= rows THEN 0 ELSE b.current_row + 1
<1>1. /\ rows \in Nat /\ rows > 1 /\ b.current_row \in 0 .. rows - 1 /\ CurrentSlot(b) \in Nat
      /\ b.current_row = CurrentSlot(b) % rows
  BY RingFacts DEF Rows, Ring
<1>2. n \in 1 .. rows /\ row \in 0 .. rows - 1
  BY <1>1
<1>3. CopyClearedRow(rows - row - 1) = 1 .. rows - row - 1
      /\ (row + n - 1 >= rows => CopyClearedRow(row + n - 1 - rows) = 1 .. row + n - 1 - rows)
      /\ CopyClearedRow(n - 1) = 1 .. n - 1
  BY <1>1, <1>2, CopyClearedRowIsAll
<1>4. RowsToClear(b, delta) =
        {row} \cup IF row + n - 1 >= rows
                   THEN {row + i : i \in 1 .. rows - row - 1} \cup {0}
                     \cup (1 .. row + n - 1 - rows)
                   ELSE {row + i : i \in 1 .. n - 1}
  BY <1>3 DEF RowsToClear
<1>5. ASSUME NEW i \in 1 .. rows
      PROVE  (CurrentSlot(b) + i) % rows =
               IF b.current_row + i < rows THEN b.current_row + i ELSE b.current_row + i - rows
  <2>1. rows \in Nat \ {0} /\ i \in 0 .. rows
    BY <1>1
  <2>2. (CurrentSlot(b) + i) % rows = IF (CurrentSlot(b) % rows) + i < rows
          THEN (CurrentSlot(b) % rows) + i ELSE (CurrentSlot(b) % rows) + i - rows
    BY <1>1, <2>1, ModStep
  <2> QED
    BY <1>1, <2>2
<1>6. ASSUME NEW i \in 1 .. rows
      PROVE  (CurrentSlot(b) + i) % rows =
               IF row + (i - 1) < rows THEN row + (i - 1) ELSE row + (i - 1) - rows
  BY <1>1, <1>5
<1>7. \A i \in 1 .. rows : i <= delta <=> i \in 1 .. n
  BY <1>1
<1> DEFINE slot(i) == IF row + (i - 1) < rows THEN row + (i - 1) ELSE row + (i - 1) - rows
<1>8. r \in RowsToClear(b, delta) <=> \E i \in 1 .. n : r = slot(i)
  <2> HIDE DEF n, row
  <2>1. r \in 0 .. rows - 1
    BY DEF Rows
  <2>2. CASE row + n - 1 >= rows
    <3>1. r \in RowsToClear(b, delta) <=> r \in row .. rows - 1 \/ r \in 0 .. row + n - 1 - rows
      <4>1. r \in RowsToClear(b, delta)
              <=> \/ r = row \/ r \in {row + i : i \in 1 .. rows - row - 1}
                  \/ r = 0 \/ r \in 1 .. row + n - 1 - rows
        BY <1>4, <2>2
      <4>2. r \in {row + i : i \in 1 .. rows - row - 1} <=> r \in row + 1 .. rows - 1
        <5>1. r \in row + 1 .. rows - 1 => r - row \in 1 .. rows - row - 1 /\ r = row + (r - row)
          BY <1>1, <1>2, <2>1
        <5>2. \A i \in 1 .. rows - row - 1 : row + i \in row + 1 .. rows - 1
          BY <1>1, <1>2
        <5> QED
          BY <5>1, <5>2
      <4> QED
        BY <1>1, <1>2, <2>1, <2>2, <4>1, <4>2
    <3>2. ASSUME r \in row .. rows - 1 PROVE \E i \in 1 .. n : r = slot(i)
      <4>1. r - row + 1 \in 1 .. n /\ r = slot(r - row + 1)
        BY <1>1, <1>2, <2>1, <2>2, <3>2
      <4> QED
        BY <4>1
    <3>3. ASSUME r \in 0 .. row + n - 1 - rows PROVE \E i \in 1 .. n : r = slot(i)
      <4>1. r + rows - row + 1 \in 1 .. n /\ r = slot(r + rows - row + 1)
        BY <1>1, <1>2, <2>1, <2>2, <3>3
      <4> QED
        BY <4>1
    <3>4. ASSUME NEW i \in 1 .. n, r = slot(i)
          PROVE  r \in row .. rows - 1 \/ r \in 0 .. row + n - 1 - rows
      BY <1>1, <1>2, <2>1, <2>2, <3>4
    <3> QED
      BY <3>1, <3>2, <3>3, <3>4
  <2>3. CASE row + n - 1 < rows
    <3>1. r \in RowsToClear(b, delta) <=> r \in row .. row + n - 1
      BY <1>1, <1>2, <1>4, <2>1, <2>3
    <3>2. ASSUME r \in row .. row + n - 1 PROVE \E i \in 1 .. n : r = slot(i)
      <4>1. r - row + 1 \in 1 .. n /\ r = slot(r - row + 1)
        BY <1>1, <1>2, <2>1, <2>3, <3>2
      <4> QED
        BY <4>1
    <3>3. ASSUME NEW i \in 1 .. n, r = slot(i) PROVE r \in row .. row + n - 1
      BY <1>1, <1>2, <2>1, <2>3, <3>3
    <3> QED
      BY <3>1, <3>2, <3>3
  <2> QED
    BY <1>1, <1>2, <2>2, <2>3
<1>9. \A i \in 1 .. rows : (CurrentSlot(b) + i) % rows = slot(i)
  BY <1>6
<1>10. 1 .. n \subseteq 1 .. rows
  BY <1>1, <1>2
<1> HIDE DEF n, slot
<1> QED
  BY <1>7, <1>8, <1>9, <1>10

\* The rows behind a slot, from 0 again after the last.
LEMMA RowStep ==
  ASSUME NEW k \in Nat
  PROVE  \A i \in 0 .. rows : (k + i) % rows =
           IF (k % rows) + i < rows THEN (k % rows) + i ELSE (k % rows) + i - rows
<1> TAKE i \in 0 .. rows
<1>1. rows \in Nat \ {0}
  BY DimensionsAssumption
<1> QED
  BY <1>1, ModStep

\* Slots less than a ring apart have different rows.
LEMMA RowsApart ==
  ASSUME NEW s \in Nat, NEW u \in Nat, s < u, u < s + rows
  PROVE  s % rows # u % rows
<1>1. rows \in Nat \ {0} /\ u - s \in 0 .. rows /\ s % rows \in 0 .. rows - 1
  BY DimensionsAssumption, DivMod
<1>2. s + (u - s) = u
  OBVIOUS
<1>3. u % rows = IF (s % rows) + (u - s) < rows THEN (s % rows) + (u - s)
                 ELSE (s % rows) + (u - s) - rows
  BY <1>1, <1>2, ModStep
<1> QED
  BY <1>1, <1>3

\* Every row is that of one of the next slots.
LEMMA EveryRow ==
  ASSUME NEW k \in Nat, NEW r \in Rows
  PROVE  \E i \in 1 .. rows : r = (k + i) % rows
<1> DEFINE m == k % rows
<1>1. rows \in Nat \ {0} /\ m \in 0 .. rows - 1 /\ r \in 0 .. rows - 1
  BY DimensionsAssumption, DivMod DEF Rows
<1>2. ASSUME NEW i \in 1 .. rows
      PROVE  (k + i) % rows = IF m + i < rows THEN m + i ELSE m + i - rows
  <2>1. i \in 0 .. rows
    BY <1>1
  <2> QED
    BY <2>1, RowStep
<1> HIDE DEF m
<1>3. CASE r > m
  <2>1. r - m \in 1 .. rows /\ m + (r - m) = r /\ r < rows
    BY <1>1, <1>3
  <2> QED
    BY <1>2, <2>1
<1>4. CASE r <= m
  <2>1. r - m + rows \in 1 .. rows /\ ~(m + (r - m + rows) < rows) /\ m + (r - m + rows) - rows = r
    BY <1>1, <1>4
  <2> QED
    BY <1>2, <2>1
<1> QED
  BY <1>1, <1>3, <1>4

\* check_row moves the window to the slot of the time, never back: the slots
\* that stay in it keep their row, the ones that enter it have an empty one.
LEMMA AdvancedFacts ==
  ASSUME NEW b, Ring(b), NEW t \in Times
  PROVE  /\ Ring(Advanced(b, t))
         /\ CurrentSlot(Advanced(b, t)) = IF Slot(t) > CurrentSlot(b) THEN Slot(t)
            ELSE CurrentSlot(b)
         /\ \A s \in Nat :
              CurrentSlot(Advanced(b, t)) - rows < s /\ s <= CurrentSlot(Advanced(b, t)) =>
                IF s <= CurrentSlot(b)
                THEN /\ Advanced(b, t).values[s % rows] = b.values[s % rows]
                     /\ Advanced(b, t).deltas[s % rows] = b.deltas[s % rows]
                ELSE /\ Advanced(b, t).values[s % rows] = EmptyRow
                     /\ Advanced(b, t).deltas[s % rows] = EmptyRow
<1> DEFINE a == Advanced(b, t)  K == CurrentSlot(b)  T == Slot(t)
           cleared == RowsToClear(b, T - K)
<1>1. /\ t \in Nat /\ K \in Nat /\ T \in Nat /\ rows \in Nat /\ rows > 1
      /\ rows - 1 <= K /\ b \in Buffers
  BY RingFacts, SlotFacts, BoundsAssumption DEF Times, Ring
<1>2. CASE T <= K
  <2>1. a = b
    BY <1>1, <1>2 DEF Advanced
  <2> QED
    BY <1>1, <1>2, <2>1
<1>3. CASE T > K
  <2>1. a = [current_time |-> t - (t % seconds_per_row), current_row |-> T % rows,
             values |-> [r \in Rows |-> IF r \in cleared THEN EmptyRow ELSE b.values[r]],
             deltas |-> [r \in Rows |-> IF r \in cleared THEN EmptyRow ELSE b.deltas[r]]]
    BY <1>1, <1>3 DEF Advanced
  <2>2. a.current_time = TimeOfSlot(T) /\ CurrentSlot(a) = T
    BY <1>1, <2>1, SlotFacts, SlotOfTime DEF CurrentSlot
  <2>3. Ring(a)
    <3>1. a.current_time \in Times
      BY <1>1, <2>2, SlotFacts, SlotOfTime, BoundsAssumption DEF Times
    <3>2. a.current_row \in Rows
      BY <1>1, <2>1, SlotFacts DEF RowOf
    <3>3. EmptyRow \in [Columns -> Cells] /\ EmptyRow \in [Columns -> Changes]
      BY DEF EmptyRow, Cells, Changes
    <3>4. a.values \in [Rows -> [Columns -> Cells]] /\ a.deltas \in [Rows -> [Columns -> Changes]]
      BY <1>1, <2>1, <3>3 DEF Buffers
    <3> QED
      <4>1. a \in Buffers
        BY <2>1, <3>1, <3>2, <3>4 DEF Buffers
      <4>2. rows - 1 <= CurrentSlot(a) /\ a.current_row = CurrentSlot(a) % rows
        BY <1>1, <1>3, <2>1, <2>2
      <4> QED
        BY <2>2, <4>1, <4>2 DEF Ring
  <2>4. ASSUME NEW s \in Nat, T - rows < s, s <= T
        PROVE  IF s <= K THEN a.values[s % rows] = b.values[s % rows]
               /\ a.deltas[s % rows] = b.deltas[s % rows]
               ELSE a.values[s % rows] = EmptyRow /\ a.deltas[s % rows] = EmptyRow
    <3>1. s % rows \in Rows
      BY <1>1, DivMod DEF Rows
    <3>2. T - K \in Nat \ {0}
      BY <1>1, <1>3
    <3>3. s % rows \in cleared <=> \E i \in 1 .. rows : i <= T - K /\ s % rows = (K + i) % rows
      BY <3>1, <3>2, ClearedRows
    <3>4. CASE s <= K
      <4>1. ASSUME NEW i \in 1 .. rows, i <= T - K PROVE s % rows # (K + i) % rows
        BY <1>1, <2>4, <3>4, <4>1, RowsApart
      <4> QED
        BY <2>1, <3>1, <3>3, <3>4, <4>1
    <3>5. CASE s > K
      <4>1. CASE s - K <= rows
        <5>1. s - K \in 1 .. rows /\ s - K <= T - K /\ K + (s - K) = s
          BY <1>1, <2>4, <3>5, <4>1
        <5> QED
          BY <2>1, <3>1, <3>3, <3>5, <5>1, <1>1
      <4>2. CASE s - K > rows
        <5>1. \E i \in 1 .. rows : s % rows = (K + i) % rows
          BY <1>1, <3>1, EveryRow
        <5>2. rows <= T - K
          BY <1>1, <2>4, <4>2
        <5> QED
          BY <2>1, <3>1, <3>3, <3>5, <5>1, <5>2, <1>1
      <4> QED
        BY <1>1, <4>1, <4>2
    <3> QED
      BY <1>1, <3>4, <3>5
  <2> HIDE DEF cleared
  <2> QED
    BY <1>1, <1>3, <2>2, <2>3, <2>4
<1> QED
  BY <1>1, <1>2, <1>3

\* The window, and the times check_row finds in it.
LEMMA WindowFacts ==
  ASSUME NEW b, Ring(b)
  PROVE  /\ Window(b) = {s \in Nat : CurrentSlot(b) - rows < s /\ s <= CurrentSlot(b)}
         /\ Window(b) \subseteq Slots /\ Slots \subseteq Nat
         /\ \A t \in Nat : InBuffer(b, t) <=> Slot(t) \in Window(b)
<1>1. /\ CurrentSlot(b) \in Nat /\ CurrentSlot(b) \in Slots /\ rows \in Nat /\ rows > 1
      /\ MaxTime \in Nat /\ Slot(MaxTime) \in Nat
  BY RingFacts, BoundsAssumption, SlotFacts
<1>2. CurrentSlot(b) <= Slot(MaxTime)
  BY <1>1 DEF Slots
<1>3. Window(b) = {s \in Nat : CurrentSlot(b) - rows < s /\ s <= CurrentSlot(b)}
  BY <1>1, <1>2 DEF Window, Slots
<1>4. Window(b) \subseteq Slots /\ Slots \subseteq Nat
  BY <1>1 DEF Window, Slots
<1>5. ASSUME NEW t \in Nat PROVE InBuffer(b, t) <=> Slot(t) \in Window(b)
  <2>1. Slot(t) \in Nat
    BY SlotFacts
  <2> QED
    BY <1>1, <1>3, <2>1 DEF InBuffer
<1> QED
  BY <1>3, <1>4, <1>5

\* The i-th row that output visits, and the time it gives it, are those of the
\* i-th slot of the window.
LEMMA VisitedFacts ==
  ASSUME NEW b, Ring(b), NEW i \in 1 .. rows
  PROVE  /\ CurrentSlot(b) - rows + i \in Window(b)
         /\ Visited(b, i) = (CurrentSlot(b) - rows + i) % rows /\ Visited(b, i) \in Rows
         /\ TimeOf(b, i) = TimeOfSlot(CurrentSlot(b) - rows + i)
         /\ Slot(TimeOf(b, i)) = CurrentSlot(b) - rows + i
         /\ RowOf(TimeOf(b, i)) = Visited(b, i) /\ InBuffer(b, TimeOf(b, i))
<1> DEFINE K == CurrentSlot(b)  s == K - rows + i
<1>1. /\ K \in Nat /\ rows \in Nat \ {0} /\ rows > 1 /\ rows - 1 <= K
      /\ b.current_row = K % rows /\ b.current_time = TimeOfSlot(K) /\ i \in 0 .. rows
  BY RingFacts DEF Ring
<1>2. s \in Nat /\ s \in Window(b)
  BY <1>1, WindowFacts
<1>3. TimeOf(b, i) = TimeOfSlot(s)
  <2> HIDE DEF K
  <2> QED
    BY <1>1, DimensionsAssumption DEF TimeOf, StartTime, TimeOfSlot
<1>4. TimeOf(b, i) \in Nat /\ Slot(TimeOf(b, i)) = s /\ RowOf(TimeOf(b, i)) = s % rows
  BY <1>2, <1>3, SlotOfTime
<1>5. Visited(b, i) = s % rows
  <2>1. (K + i) % rows = IF (K % rows) + i < rows THEN (K % rows) + i ELSE (K % rows) + i - rows
    BY <1>1, RowStep
  <2>2. s + rows = K + i /\ rows \in 0 .. rows
    BY <1>1
  <2>3. (s + rows) % rows = IF (s % rows) + rows < rows THEN (s % rows) + rows
                            ELSE (s % rows) + rows - rows
    BY <1>1, <1>2, <2>2, RowStep
  <2>4. s % rows \in 0 .. rows - 1 /\ K % rows \in 0 .. rows - 1
    BY <1>1, <1>2, DivMod
  <2>5. ((K % rows) + i) % rows = IF (K % rows) + i < rows THEN (K % rows) + i
                                  ELSE (K % rows) + i - rows
    <3>1. (K % rows) + i \in Int /\ -rows < (K % rows) + i /\ (K % rows) + i < 2 * rows
      BY <1>1, <2>4
    <3>2. (K % rows) + i >= 0
      BY <1>1, <2>4
    <3> HIDE DEF K
    <3> QED
      BY <1>1, <3>1, <3>2, ModNear
  <2> QED
    BY <1>1, <2>1, <2>2, <2>3, <2>4, <2>5 DEF Visited
<1>6. Visited(b, i) \in Rows
  BY <1>1, <1>2, <1>5, DivMod DEF Rows
<1>7. InBuffer(b, TimeOf(b, i))
  BY <1>2, <1>4, WindowFacts
<1> QED
  BY <1>2, <1>3, <1>4, <1>5, <1>6, <1>7

\* ... and every slot of the window is visited once.
LEMMA LineOfSlot ==
  ASSUME NEW b, Ring(b), NEW s \in Window(b)
  PROVE  /\ s - CurrentSlot(b) + rows \in 1 .. rows
         /\ \A i \in 1 .. rows : i = s - CurrentSlot(b) + rows <=> s = CurrentSlot(b) - rows + i
         /\ \A i \in 1 .. rows : Visited(b, i) = s % rows <=> i = s - CurrentSlot(b) + rows
<1> DEFINE K == CurrentSlot(b)
<1>1. /\ K \in Nat /\ rows \in Nat /\ rows > 1 /\ s \in Nat /\ K - rows < s /\ s <= K
  BY RingFacts, WindowFacts
<1>2. ASSUME NEW i \in 1 .. rows, i # s - K + rows PROVE Visited(b, i) # s % rows
  <2>1. Visited(b, i) = (K - rows + i) % rows /\ K - rows + i \in Nat
    BY VisitedFacts, WindowFacts
  <2> HIDE DEF K
  <2>2. CASE K - rows + i < s
    <3>1. s < (K - rows + i) + rows
      BY <1>1
    <3>2. (K - rows + i) % rows # s % rows
      BY <1>1, <2>1, <2>2, <3>1, RowsApart
    <3> QED
      BY <2>1, <3>2
  <2>3. CASE s < K - rows + i
    <3>1. K - rows + i < s + rows
      BY <1>1
    <3> QED
      BY <1>1, <2>1, <2>3, <3>1, RowsApart
  <2> QED
    BY <1>1, <1>2, <2>2, <2>3
<1>3. ASSUME NEW i \in 1 .. rows, i = s - K + rows PROVE Visited(b, i) = s % rows
  <2>1. Visited(b, i) = (K - rows + i) % rows
    BY VisitedFacts
  <2>2. K - rows + i = s
    BY <1>1, <1>3
  <2> QED
    BY <2>1, <2>2
<1>4. s - K + rows \in 1 .. rows
  BY <1>1
<1>5. \A i \in 1 .. rows : i = s - K + rows <=> s = K - rows + i
  BY <1>1
<1> HIDE DEF K
<1>6. \A i \in 1 .. rows : Visited(b, i) = s % rows <=> i = s - K + rows
  BY <1>2, <1>3
<1> QED
  BY <1>4, <1>5, <1>6 DEF K

\* cb_serialize and cb_fromstring: the changes come back to the rows they were
\* in, since the time written for a row is one that check_row looks up there.
LEMMA RestoredSame == ASSUME NEW b, Ring(b) PROVE Restored(b) = b
<1> DEFINE read == [b EXCEPT !.deltas = EmptyRows]
           Lines(row) == {i \in 1 .. rows : /\ Dirty(b, Visited(b, i))
                                            /\ InBuffer(read, TimeOf(b, i))
                                            /\ RowOf(TimeOf(b, i)) = row}
           back == [row \in Rows |->
                      IF Lines(row) = {} THEN EmptyRow
                      ELSE b.deltas[Visited(b, CHOOSE i \in Lines(row) : TRUE)]]
<1>1. b \in Buffers /\ CurrentSlot(b) \in Nat /\ rows \in Nat /\ rows > 1
      /\ b.current_row = CurrentSlot(b) % rows
  BY RingFacts DEF Ring
<1>r. Restored(b) = [read EXCEPT !.deltas = back]
  BY DEF Restored
<1>2. read = [current_time |-> b.current_time, current_row |-> b.current_row,
              values |-> b.values, deltas |-> EmptyRows]
  BY <1>1 DEF Buffers
<1>3. ASSUME NEW i \in 1 .. rows
      PROVE  InBuffer(read, TimeOf(b, i)) /\ RowOf(TimeOf(b, i)) = Visited(b, i)
  <2>1. InBuffer(b, TimeOf(b, i)) /\ RowOf(TimeOf(b, i)) = Visited(b, i)
    BY VisitedFacts
  <2> QED
    BY <1>2, <2>1 DEF InBuffer, CurrentSlot
<1> HIDE DEF read
<1>4. ASSUME NEW row \in Rows PROVE back[row] = b.deltas[row]
  <2>1. Lines(row) = {i \in 1 .. rows : Dirty(b, row) /\ Visited(b, i) = row}
    BY <1>3
  <2>2. b.deltas[row] \in [Columns -> Changes]
    BY <1>1 DEF Buffers
  <2>3. CASE Lines(row) = {}
    <3>1. \E i \in 1 .. rows : Visited(b, i) = row
      <4>1. b.current_row \in Nat
        BY <1>1 DEF Buffers, Rows
      <4> QED
        BY <4>1, EveryRow DEF Visited
    <3>2. ~ Dirty(b, row)
      BY <2>1, <2>3, <3>1
    <3>3. b.deltas[row] = EmptyRow
      BY <2>2, <3>2 DEF Dirty, EmptyRow
    <3> QED
      BY <2>3, <3>3
  <2>4. CASE Lines(row) # {}
    <3>1. (CHOOSE i \in Lines(row) : TRUE) \in Lines(row)
      BY <2>4
    <3>2. Visited(b, CHOOSE i \in Lines(row) : TRUE) = row
      BY <2>1, <3>1
    <3> QED
      BY <2>4, <3>2
  <2> QED
    BY <2>3, <2>4
<1>5. back = b.deltas
  <2>1. b.deltas \in [Rows -> [Columns -> Changes]]
    BY <1>1 DEF Buffers
  <2> HIDE DEF Lines
  <2> QED
    BY <1>4, <2>1
<1> HIDE DEF back
<1> QED
  BY <1>1, <1>2, <1>5, <1>r DEF Buffers

-----------------------------------------------------------------------------
(* Writing a cell.                                                         *)

Loose == [current_time: Times, current_row: Rows,
          values: [Rows -> [Columns -> Changes]], deltas: [Rows -> [Columns -> Changes]]]

\* A cell is written, and no other.
LEMMA WrittenFacts ==
  ASSUME NEW b \in Buffers, NEW row \in Rows, NEW c \in Columns,
         NEW new \in Changes, NEW delta \in Changes
  PROVE  LET w == Written(b, row, c, new, delta)
         IN /\ w \in Loose /\ w.current_time = b.current_time /\ w.current_row = b.current_row
            /\ \A r \in Rows, d \in Columns :
                 /\ w.values[r][d] = IF r = row /\ d = c THEN new ELSE b.values[r][d]
                 /\ w.deltas[r][d] = IF r = row /\ d = c THEN delta ELSE b.deltas[r][d]
<1> DEFINE w == Written(b, row, c, new, delta)
           values == [b.values EXCEPT ![row] = [b.values[row] EXCEPT ![c] = new]]
           deltas == [b.deltas EXCEPT ![row] = [b.deltas[row] EXCEPT ![c] = delta]]
<1>1. b.values \in [Rows -> [Columns -> Changes]] /\ b.deltas \in [Rows -> [Columns -> Changes]]
      /\ b.current_time \in Times /\ b.current_row \in Rows
      /\ b = [current_time |-> b.current_time, current_row |-> b.current_row,
              values |-> b.values, deltas |-> b.deltas]
  <2>1. Cells \subseteq Changes
    BY BoundsAssumption DEF Cells, Changes
  <2> QED
    BY <2>1 DEF Buffers
<1>2. values \in [Rows -> [Columns -> Changes]] /\ deltas \in [Rows -> [Columns -> Changes]]
  BY <1>1
<1>3. /\ w.current_time = b.current_time /\ w.current_row = b.current_row
      /\ w.values = values /\ w.deltas = deltas
  BY <1>1 DEF Written
<1>4. w \in Loose
  BY <1>1, <1>2, <1>3 DEF Written, Loose
<1>5. ASSUME NEW r \in Rows, NEW d \in Columns
      PROVE  /\ values[r][d] = IF r = row /\ d = c THEN new ELSE b.values[r][d]
             /\ deltas[r][d] = IF r = row /\ d = c THEN delta ELSE b.deltas[r][d]
  BY <1>1
<1> HIDE DEF w, values, deltas
<1> QED
  BY <1>3, <1>4, <1>5 DEF w

\* What cb_add and cb_set do to a cell, with the change they record for it: a
\* reader who knew the old value from what it has knows the new one.
Updates(b, row, c, w) ==
  w = b \/ \E new \in Int, delta \in Changes :
             /\ w = Written(b, row, c, new, delta)
             /\ \A r \in Changes :
                  /\ headers[c] # "none"
                  /\ Merged(r, b.deltas[row][c], headers[c]) = b.values[row][c]
                  => Merged(r, delta, headers[c]) = new

\* The types of a cell's value and change, and of a value given.
LEMMA CellTypes ==
  ASSUME NEW b \in Buffers, NEW row \in Rows, NEW c \in Columns, NEW v \in Values
  PROVE  v \in Int /\ b.values[row][c] \in Changes /\ b.deltas[row][c] \in Changes
<1>1. v \in Int
  <2>1. \A m \in Magnitudes : m \in Nat
    BY BoundsAssumption
  <2>2. v \in Magnitudes \/ \E m \in Magnitudes : v = -m
    BY DEF Values
  <2> QED
    BY <2>1, <2>2
<1>2. b.values \in [Rows -> [Columns -> Cells]] /\ b.deltas \in [Rows -> [Columns -> Changes]]
  BY DEF Buffers
<1>3. b.values[row][c] \in Cells /\ b.deltas[row][c] \in Changes
  BY <1>2
<1>4. Cells \subseteq Changes
  BY BoundsAssumption DEF Cells, Changes
<1> QED
  BY <1>1, <1>3, <1>4

\* cb_add records the change it makes.
LEMMA AddUpdates ==
  ASSUME NEW b \in Buffers, NEW row \in Rows, NEW c \in Columns, NEW v \in Values
  PROVE  Updates(b, row, c, AddTo(b, row, c, v))
<1> DEFINE old == b.values[row][c]  pending == b.deltas[row][c]  new == Plus(old, v)
           delta == IF new = old \/ headers[c] = "none" THEN pending
                    ELSE IF headers[c] = "sum" THEN Plus(pending, v) ELSE new
<1>1. v \in Int /\ old \in Changes /\ pending \in Changes /\ NAN \notin Int
  BY CellTypes, NANAssumption
<1>2. new \in Int
  BY <1>1 DEF Plus, Changes
<1>3. delta \in Changes
  BY <1>1, <1>2 DEF Plus, Changes
<1>4. AddTo(b, row, c, v) = Written(b, row, c, new, delta)
  BY DEF AddTo
<1>5. ASSUME NEW r \in Changes, headers[c] # "none", Merged(r, pending, headers[c]) = old
      PROVE  Merged(r, delta, headers[c]) = new
  <2> HIDE DEF old, pending
  <2>1. CASE new = old
    BY <1>5, <2>1
  <2>2. CASE new # old /\ headers[c] = "sum"
    BY <1>1, <1>2, <1>5, <2>2 DEF Plus, Merged, Changes
  <2>3. CASE new # old /\ headers[c] # "sum"
    BY <1>1, <1>2, <1>5, <2>3 DEF Merged, Changes
  <2> QED
    BY <2>1, <2>2, <2>3
<1> HIDE DEF new, delta
<1> QED
  BY <1>2, <1>3, <1>4, <1>5 DEF Updates

\* cb_set records the change it makes.
LEMMA SetUpdates ==
  ASSUME NEW b \in Buffers, NEW row \in Rows, NEW c \in Columns, NEW v \in Values
  PROVE  Updates(b, row, c, SetTo(b, row, c, v))
<1> DEFINE old == b.values[row][c]  pending == b.deltas[row][c]
           added == IF v = old THEN pending ELSE Plus(pending, IF old = NAN THEN v ELSE v - old)
<1>1. v \in Int /\ old \in Changes /\ pending \in Changes /\ NAN \notin Int
  BY CellTypes, NANAssumption
<1>2. CASE headers[c] = "sum"
  <2>1. SetTo(b, row, c, v) = Written(b, row, c, v, added)
    BY <1>2 DEF SetTo
  <2>2. added \in Changes
    BY <1>1 DEF Plus, Changes
  <2>3. ASSUME NEW r \in Changes, Merged(r, pending, headers[c]) = old
        PROVE  Merged(r, added, headers[c]) = v
    <3> HIDE DEF old, pending
    <3> QED
      BY <1>1, <1>2, <2>3 DEF Merged, Plus, Changes
  <2> HIDE DEF added
  <2> QED
    BY <1>1, <2>1, <2>2, <2>3 DEF Updates
<1>3. CASE headers[c] = "none"
  BY <1>1, <1>3 DEF SetTo, Updates
<1>4. CASE headers[c] \notin {"sum", "none"}
  <2>1. SetTo(b, row, c, v) = b \/ SetTo(b, row, c, v) = Written(b, row, c, v, v)
    BY <1>4 DEF SetTo
  <2>2. v \in Changes /\ \A r \in Changes : Merged(r, v, headers[c]) = v
    BY <1>1, <1>4 DEF Merged, Changes
  <2> QED
    BY <1>1, <2>1, <2>2 DEF Updates
<1> QED
  BY <1>2, <1>3, <1>4

\* A buffer with a cell written is still a ring, at the same place.
LEMMA WriteRing ==
  ASSUME NEW b, Ring(b), NEW row \in Rows, NEW c \in Columns, NEW w,
         Updates(b, row, c, w), InRange(w)
  PROVE  Ring(w) /\ CurrentSlot(w) = CurrentSlot(b) /\ Window(w) = Window(b)
<1>1. b \in Buffers
  BY DEF Ring
<1>2. CASE w = b
  BY <1>2
<1>3. CASE w # b
  <2>1. PICK new \in Int, delta \in Changes : w = Written(b, row, c, new, delta)
    BY <1>3 DEF Updates
  <2>2. new \in Changes
    BY DEF Changes
  <2>3. w \in Loose /\ w.current_time = b.current_time /\ w.current_row = b.current_row
    BY <1>1, <2>1, <2>2, WrittenFacts
  <2>4. w.values \in [Rows -> [Columns -> Cells]]
    BY DEF InRange
  <2>5. w \in Buffers
    BY <2>3, <2>4 DEF Loose, Buffers
  <2>6. CurrentSlot(w) = CurrentSlot(b)
    BY <2>3 DEF CurrentSlot
  <2> QED
    BY <2>3, <2>5, <2>6 DEF Ring, Window
<1> QED
  BY <1>2, <1>3

-----------------------------------------------------------------------------
(* The inductive invariant, by parts.                                      *)

Annotations == [slot: Slots, column: Columns, text: Texts, delta: BOOLEAN]
Heards == [slot: Slots, column: Columns, text: Texts]

TypeOK ==
  /\ Ring(cb) /\ headers \in [Columns -> Methods]
  /\ received \in [Slots -> [Columns -> Changes]] /\ lost \subseteq Slots \X Columns
  /\ anno \subseteq Annotations /\ heard \subseteq Heards /\ excused \subseteq Slots \X Columns

\* The reader of got has what is outside the window empty.
Fresh == \A s \in Slots, c \in Columns : s \notin Window(cb) => received[s][c] = NAN

\* What was never set has no change, and the reader has nothing of it.
Unset(b, got) ==
  \A s \in Window(b), c \in Columns :
    b.values[s % rows][c] = NAN => b.deltas[s % rows][c] = NAN /\ got[s][c] = NAN

\* DeltasAreExact, of a buffer, a reader and the cells lost.
Exact(b, got, unknown) ==
  \A s \in Window(b), c \in Columns :
    headers[c] # "none" /\ <<s, c>> \notin unknown =>
      Merged(got[s][c], b.deltas[s % rows][c], headers[c]) = b.values[s % rows][c]

DeltaInv == Fresh /\ Unset(cb, received) /\ Exact(cb, received, lost)

OnePerPlace == \A a, b \in anno : Place(a) = Place(b) => a = b
NotAhead == \A a \in anno : a.slot <= CurrentSlot(cb)

AnnoInv == OnePerPlace /\ NotAhead /\ AnnotationsDelivered

-----------------------------------------------------------------------------
(* Steps that move the window, and write a cell or not.                    *)

Moves(t) ==
  /\ Forgets(Advanced(cb, t)) /\ UNCHANGED <<headers, anno>>
  /\ \/ cb' = Advanced(cb, t)
     \/ \E c \in Columns : /\ InBuffer(Advanced(cb, t), t) /\ InRange(cb')
                           /\ Updates(Advanced(cb, t), RowOf(t), c, cb')

\* add, set and the calls that are refused move the window to the slot of the
\* time given, and write one cell of it or none.
LEMMA MovesCases ==
  ASSUME Ring(cb), Add \/ Set \/ Refuse
  PROVE  \E t \in Times : Moves(t)
<1>1. Given \subseteq Times
  BY BoundsAssumption DEF Times
<1>2. ASSUME NEW t \in Given, NEW c \in Columns, NEW v \in Values,
             Commit(Advanced(cb, t), IF InBuffer(Advanced(cb, t), t)
                                     THEN AddTo(Advanced(cb, t), RowOf(t), c, v)
                                       ELSE Advanced(cb, t))
      PROVE  \E u \in Times : Moves(u)
  <2>1. Advanced(cb, t) \in Buffers /\ RowOf(t) \in Rows
    BY <1>1, AdvancedFacts, SlotFacts, BoundsAssumption DEF Ring, Times
  <2> QED
    BY <1>1, <1>2, <2>1, AddUpdates DEF Commit, Moves
<1>3. ASSUME NEW t \in Given, NEW c \in Columns, NEW v \in Values,
             Commit(Advanced(cb, t), IF InBuffer(Advanced(cb, t), t)
                                     THEN SetTo(Advanced(cb, t), RowOf(t), c, v)
                                       ELSE Advanced(cb, t))
      PROVE  \E u \in Times : Moves(u)
  <2>1. Advanced(cb, t) \in Buffers /\ RowOf(t) \in Rows
    BY <1>1, AdvancedFacts, SlotFacts, BoundsAssumption DEF Ring, Times
  <2> QED
    BY <1>1, <1>3, <2>1, SetUpdates DEF Commit, Moves
<1>4. CASE Refuse
  BY <1>1, <1>4 DEF Refuse, Moves
<1> QED
  BY <1>2, <1>3, <1>4 DEF Add, Set

\* Such a call leaves a ring, and never moves it back.
LEMMA MovesRing ==
  ASSUME Ring(cb), NEW t \in Times, Moves(t)
  PROVE  /\ Ring(cb') /\ CurrentSlot(cb') = CurrentSlot(Advanced(cb, t))
         /\ Window(cb') = Window(Advanced(cb, t)) /\ RowOf(t) \in Rows
         /\ CurrentSlot(cb) <= CurrentSlot(cb')
<1>1. Ring(Advanced(cb, t)) /\ RowOf(t) \in Rows /\ Slot(t) \in Nat /\ CurrentSlot(cb) \in Nat
  <2>1. t \in Nat
    BY BoundsAssumption DEF Times
  <2> QED
    BY <2>1, AdvancedFacts, SlotFacts, RingFacts
<1>2. CurrentSlot(Advanced(cb, t)) = IF Slot(t) > CurrentSlot(cb) THEN Slot(t) ELSE CurrentSlot(cb)
  BY AdvancedFacts
<1>3. CASE cb' = Advanced(cb, t)
  BY <1>1, <1>2, <1>3
<1>4. CASE cb' # Advanced(cb, t)
  BY <1>1, <1>2, <1>4, WriteRing DEF Moves
<1> QED
  BY <1>3, <1>4

\* The window moves: the reader forgets what leaves it.
LEMMA MovedExact ==
  ASSUME TypeOK, DeltaInv, NEW t \in Times, Moves(t)
  PROVE  LET b == Advanced(cb, t) IN Unset(b, received') /\ Exact(b, received', lost')
<1> DEFINE b == Advanced(cb, t)
<1>1. Ring(cb) /\ Ring(b) /\ headers' = headers
  BY AdvancedFacts DEF TypeOK, Moves
<1>2. Window(b) \subseteq Slots /\ Window(b) \subseteq Nat
      /\ \A s \in Window(b) : s \in Window(cb) <=> s <= CurrentSlot(cb)
  <2>1. /\ Window(b) = {s \in Nat : CurrentSlot(b) - rows < s /\ s <= CurrentSlot(b)}
        /\ Window(cb) = {s \in Nat : CurrentSlot(cb) - rows < s /\ s <= CurrentSlot(cb)}
        /\ Window(b) \subseteq Slots
    BY <1>1, WindowFacts
  <2>2. CurrentSlot(b) >= CurrentSlot(cb) /\ CurrentSlot(b) \in Nat /\ CurrentSlot(cb) \in Nat
        /\ rows \in Nat
    <3>1. t \in Nat
      BY BoundsAssumption DEF Times
    <3> QED
      BY <1>1, <3>1, AdvancedFacts, RingFacts, SlotFacts
  <2> QED
    BY <2>1, <2>2
<1>3. ASSUME NEW s \in Window(b), NEW c \in Columns, s \in Window(cb)
      PROVE  /\ b.values[s % rows][c] = cb.values[s % rows][c]
             /\ b.deltas[s % rows][c] = cb.deltas[s % rows][c]
             /\ received'[s][c] = received[s][c]
             /\ <<s, c>> \in lost' <=> <<s, c>> \in lost
  <2>1. s <= CurrentSlot(cb) /\ s \in Nat /\ CurrentSlot(b) - rows < s /\ s <= CurrentSlot(b)
        /\ s \in Slots
    BY <1>1, <1>2, <1>3, WindowFacts
  <2>2. b.values[s % rows] = cb.values[s % rows] /\ b.deltas[s % rows] = cb.deltas[s % rows]
    BY <1>1, <2>1, AdvancedFacts
  <2>3. received'[s] = received[s] /\ (<<s, c>> \in lost' <=> <<s, c>> \in lost)
    BY <2>1 DEF Moves, Forgets
  <2> QED
    BY <2>2, <2>3
<1>4. ASSUME NEW s \in Window(b), NEW c \in Columns, s \notin Window(cb)
      PROVE  /\ b.values[s % rows][c] = NAN /\ b.deltas[s % rows][c] = NAN
             /\ received'[s][c] = NAN
  <2>1. /\ ~ (s <= CurrentSlot(cb)) /\ s \in Nat /\ CurrentSlot(b) - rows < s /\ s <= CurrentSlot(b)
        /\ s \in Slots
    BY <1>1, <1>2, <1>4, WindowFacts
  <2>2. b.values[s % rows] = EmptyRow /\ b.deltas[s % rows] = EmptyRow
    BY <1>1, <2>1, AdvancedFacts
  <2>3. received'[s] = received[s] /\ received[s][c] = NAN
    BY <1>4, <2>1 DEF Moves, Forgets, DeltaInv, Fresh
  <2> QED
    BY <2>2, <2>3 DEF EmptyRow
<1> HIDE DEF b
<1>5. Unset(b, received')
  <2> SUFFICES ASSUME NEW s \in Window(b), NEW c \in Columns, b.values[s % rows][c] = NAN
               PROVE  b.deltas[s % rows][c] = NAN /\ received'[s][c] = NAN
    BY DEF Unset
  <2>1. CASE s \in Window(cb)
    <3>1. /\ b.values[s % rows][c] = cb.values[s % rows][c]
          /\ b.deltas[s % rows][c] = cb.deltas[s % rows][c]
          /\ received'[s][c] = received[s][c]
      BY <1>3, <2>1
    <3>2. cb.deltas[s % rows][c] = NAN /\ received[s][c] = NAN
      BY <2>1, <3>1 DEF Unset, DeltaInv
    <3> QED
      BY <3>1, <3>2
  <2>2. CASE s \notin Window(cb)
    BY <1>4, <2>2
  <2> QED
    BY <2>1, <2>2
<1>6. Exact(b, received', lost')
  <2> SUFFICES ASSUME NEW s \in Window(b),
                      NEW c \in Columns, headers[c] # "none", <<s, c>> \notin lost'
               PROVE  Merged(received'[s][c], b.deltas[s % rows][c],
                      headers[c]) = b.values[s % rows][c]
    BY DEF Exact
  <2>1. CASE s \in Window(cb)
    BY <1>3, <2>1 DEF Exact, DeltaInv
  <2>2. CASE s \notin Window(cb)
    BY <1>4, <2>2 DEF Merged
  <2> QED
    BY <2>1, <2>2
<1> QED
  BY <1>5, <1>6 DEF b

\* A cell is written: the change recorded for it makes up for it.
LEMMA WrittenExact ==
  ASSUME NEW b, Ring(b), NEW t \in Nat, InBuffer(b, t), NEW c \in Columns,
         NEW w, Updates(b, RowOf(t), c, w), InRange(w), NEW got, NEW unknown,
         got \in [Slots -> [Columns -> Changes]], Unset(b, got), Exact(b, got, unknown)
  PROVE  Unset(w, got) /\ Exact(w, got, unknown)
<1> DEFINE row == RowOf(t)
<1>1. row \in Rows /\ b \in Buffers /\ Window(w) = Window(b) /\ NAN \notin Int
  BY SlotFacts, WriteRing, NANAssumption DEF Ring
<1>2. CASE w = b
  BY <1>2
<1>3. CASE w # b
  <2>1. PICK new \in Int, delta \in Changes :
               /\ w = Written(b, row, c, new, delta)
               /\ \A r \in Changes :
                    /\ headers[c] # "none"
                    /\ Merged(r, b.deltas[row][c], headers[c]) = b.values[row][c]
                    => Merged(r, delta, headers[c]) = new
    BY <1>3 DEF Updates
  <2>2. new \in Changes
    BY DEF Changes
  <2>3. \A r \in Rows, d \in Columns :
          /\ w.values[r][d] = IF r = row /\ d = c THEN new ELSE b.values[r][d]
          /\ w.deltas[r][d] = IF r = row /\ d = c THEN delta ELSE b.deltas[r][d]
    <3>1. w = Written(b, row, c, new, delta)
      BY <2>1
    <3>2. b \in Buffers /\ row \in Rows
      BY <1>1
    <3> HIDE DEF row
    <3>3. \A r \in Rows, d \in Columns :
            /\ Written(b, row, c, new, delta).values[r][d] =
                 IF r = row /\ d = c THEN new ELSE b.values[r][d]
            /\ Written(b, row, c, new, delta).deltas[r][d] =
                 IF r = row /\ d = c THEN delta ELSE b.deltas[r][d]
      <4>1. new \in Changes /\ delta \in Changes /\ c \in Columns
        BY <2>2
      <4> QED
        BY ONLY <3>2, <4>1, WrittenFacts
    <3> QED
      BY <3>1, <3>3
  <2>4. \A s \in Window(b) : s % rows \in Rows /\ s \in Slots
    BY WindowFacts, DivMod, DimensionsAssumption DEF Rows
  <2> HIDE DEF row
  <2>5. Unset(w, got)
    BY <1>1, <2>3, <2>4 DEF Unset
  <2>6. Exact(w, got, unknown)
    <3> SUFFICES ASSUME NEW s \in Window(b),
                        NEW d \in Columns, headers[d] # "none", <<s, d>> \notin unknown
                 PROVE  Merged(got[s][d], w.deltas[s % rows][d], headers[d]) = w.values[s % rows][d]
      BY <1>1 DEF Exact
    <3>1. got[s][d] \in Changes
      BY <2>4
    <3>2. Merged(got[s][d], b.deltas[s % rows][d], headers[d]) = b.values[s % rows][d]
      BY DEF Exact
    <3>3. CASE s % rows = row /\ d = c
      BY <2>1, <2>3, <2>4, <3>1, <3>2, <3>3
    <3>4. CASE ~ (s % rows = row /\ d = c)
      BY <2>3, <2>4, <3>2, <3>4
    <3> QED
      BY <3>3, <3>4
  <2> QED
    BY <2>5, <2>6
<1> QED
  BY <1>2, <1>3

\* Such a call keeps the type of the state.
LEMMA MovesType ==
  ASSUME TypeOK, NEW t \in Times, Moves(t)
  PROVE  TypeOK'
<1>1. Ring(cb')
  BY MovesRing DEF TypeOK
<1>2. EmptyRow \in [Columns -> Changes]
  BY DEF EmptyRow, Changes
<1>3. received' \in [Slots -> [Columns -> Changes]]
  BY <1>2 DEF TypeOK, Moves, Forgets
<1>4. lost' \subseteq lost /\ heard' \subseteq heard /\ excused' \subseteq excused
  BY DEF Moves, Forgets
<1> QED
  BY <1>1, <1>3, <1>4 DEF TypeOK, Moves

\* Such a call keeps the changes exact.
LEMMA MovesDelta ==
  ASSUME TypeOK, DeltaInv, NEW t \in Times, Moves(t)
  PROVE  DeltaInv'
<1> DEFINE b == Advanced(cb, t)
<1>1. /\ Ring(b) /\ RowOf(t) \in Rows /\ t \in Nat /\ Window(cb') = Window(b)
      /\ headers' = headers /\ received' \in [Slots -> [Columns -> Changes]]
  BY AdvancedFacts, MovesRing, MovesType, BoundsAssumption DEF TypeOK, Moves, Times
<1>2. Unset(b, received') /\ Exact(b, received', lost')
  BY MovedExact
<1>3. Unset(cb', received') /\ Exact(cb', received', lost')
  <2>1. CASE cb' = b
    BY <1>2, <2>1
  <2>2. CASE cb' # b
    BY <1>1, <1>2, <2>2, WrittenExact DEF Moves
  <2> QED
    BY <2>1, <2>2
<1>4. \A s \in Slots, c \in Columns : s \notin Window(cb') => received'[s][c] = NAN
  BY <1>1 DEF Moves, Forgets, EmptyRow
<1> HIDE DEF b
<1> QED
  BY <1>1, <1>3, <1>4 DEF DeltaInv, Fresh, Unset, Exact

\* Such a call keeps the annotations.
LEMMA MovesAnno ==
  ASSUME TypeOK, AnnoInv, NEW t \in Times, Moves(t)
  PROVE  AnnoInv'
<1>1. /\ Ring(cb) /\ Ring(cb') /\ Window(cb') = Window(Advanced(cb, t))
      /\ CurrentSlot(cb) <= CurrentSlot(cb') /\ anno' = anno
      /\ CurrentSlot(cb) \in Nat /\ CurrentSlot(cb') \in Nat /\ rows \in Nat
  BY MovesRing, RingFacts DEF TypeOK, Moves
<1>2. OnePerPlace'
  BY <1>1 DEF AnnoInv, OnePerPlace, Place
<1>3. \A a \in anno : a.slot \in Slots /\ a.slot <= CurrentSlot(cb) /\ a.slot \in Nat
  BY <1>1, WindowFacts DEF AnnoInv, NotAhead, TypeOK, Annotations
<1>4. NotAhead'
  BY <1>1, <1>3 DEF NotAhead
<1>5. ASSUME NEW a \in anno, a.slot \in Window(cb'), ~ a.delta, Place(a) \notin excused'
      PROVE  Heard(a) \in heard'
  <2>1. a.slot \in Window(cb)
    BY <1>1, <1>3, <1>5, WindowFacts
  <2>2. Place(a) \notin excused
    BY <1>1, <1>5 DEF Moves, Forgets, Place
  <2>3. Heard(a) \in heard
    BY <1>5, <2>1, <2>2 DEF AnnoInv, AnnotationsDelivered
  <2> QED
    BY <1>1, <1>5, <2>3 DEF Moves, Forgets, Heard
<1> QED
  BY <1>1, <1>2, <1>4, <1>5 DEF AnnoInv, AnnotationsDelivered, Place, Heard

-----------------------------------------------------------------------------
(* The other steps: the type of the state.                                 *)

\* output_cbufd sends the changes of the slots of the window, each with its
\* time, and of no other slot.
LEMMA SentFacts ==
  ASSUME Ring(cb), NEW s \in Slots
  PROVE  Sent(s) = IF s \in Window(cb) THEN cb.deltas[s % rows] ELSE EmptyRow
<1> DEFINE lines == {i \in 1 .. rows : Slot(TimeOf(cb, i)) = s}
<1>1. \A i \in 1 .. rows : /\ Slot(TimeOf(cb, i)) = CurrentSlot(cb) - rows + i
                           /\ CurrentSlot(cb) - rows + i \in Window(cb)
  BY VisitedFacts
<1>2. CASE s \notin Window(cb)
  <2>1. lines = {}
    BY <1>1, <1>2
  <2> QED
    BY <1>2, <2>1 DEF Sent
<1>3. CASE s \in Window(cb)
  <2> DEFINE j == s - CurrentSlot(cb) + rows
  <2>1. j \in 1 .. rows /\ (\A i \in 1 .. rows : i = j <=> s = CurrentSlot(cb) - rows + i)
        /\ Visited(cb, j) = s % rows
    BY <1>3, LineOfSlot
  <2> HIDE DEF j
  <2>2. lines = {j}
    BY <1>1, <2>1
  <2>3. (CHOOSE i \in lines : TRUE) = j
    BY <2>2
  <2>4. Sent(s) = cb.deltas[Visited(cb, j)]
    BY <2>2, <2>3 DEF Sent
  <2> QED
    BY <1>3, <2>1, <2>4
<1> QED
  BY <1>2, <1>3

\* The cells that can be written have changes, or are empty.
LEMMA RowTypes ==
  ASSUME Ring(cb)
  PROVE  /\ EmptyRow \in [Columns -> Changes] /\ EmptyRows \in [Rows -> [Columns -> Changes]]
         /\ cb.values \in [Rows -> [Columns -> Cells]]
            /\ cb.deltas \in [Rows -> [Columns -> Changes]]
         /\ cb.values \in [Rows -> [Columns -> Changes]]
         /\ \A s \in Window(cb) : s \in Slots /\ s \in Nat /\ s % rows \in Rows
<1>1. EmptyRow \in [Columns -> Changes]
  BY DEF EmptyRow, Changes
<1>2. EmptyRows \in [Rows -> [Columns -> Changes]]
  BY <1>1 DEF EmptyRows
<1>3. cb.values \in [Rows -> [Columns -> Cells]] /\ cb.deltas \in [Rows -> [Columns -> Changes]]
  BY DEF Ring, Buffers
<1>4. Cells \subseteq Changes
  BY BoundsAssumption DEF Cells, Changes
<1>5. \A s \in Window(cb) : s \in Slots /\ s \in Nat /\ s % rows \in Rows
  BY WindowFacts, DivMod, DimensionsAssumption DEF Rows
<1> QED
  BY <1>1, <1>2, <1>3, <1>4, <1>5

\* A buffer whose changes are replaced is still a ring.
LEMMA DeltasReplaced ==
  ASSUME Ring(cb), NEW deltas \in [Rows -> [Columns -> Changes]],
         cb' = [cb EXCEPT !.deltas = deltas]
  PROVE  /\ Ring(cb') /\ CurrentSlot(cb') = CurrentSlot(cb) /\ Window(cb') = Window(cb)
         /\ cb'.values = cb.values /\ cb'.deltas = deltas
<1>1. cb \in Buffers
  BY DEF Ring
<1>2. /\ cb' \in Buffers /\ cb'.current_time = cb.current_time /\ cb'.current_row = cb.current_row
      /\ cb'.values = cb.values /\ cb'.deltas = deltas
  BY <1>1 DEF Buffers
<1>3. CurrentSlot(cb') = CurrentSlot(cb)
  BY <1>2 DEF CurrentSlot
<1> QED
  BY <1>2, <1>3 DEF Ring, Window

\* What the reader makes of a change is a change.
LEMMA MergedType ==
  ASSUME NEW a \in Changes, NEW d \in Changes, NEW method
  PROVE  Merged(a, d, method) \in Changes
BY DEF Merged, Plus, Changes

\* set_header keeps the type of the state.
LEMMA SetHeaderType == ASSUME TypeOK, SetHeader PROVE TypeOK'
<1>1. PICK c \in Columns, aggregation \in Methods :
        /\ headers' = [headers EXCEPT ![c] = aggregation]
        /\ lost' = lost \cup {x \in Window(cb) \X {c} : cb.values[x[1] % rows][c] # NAN}
        /\ received' = [s \in Slots |-> IF <<s, c>> \in lost'
                                        THEN [received[s] EXCEPT ![c] = NAN] ELSE received[s]]
        /\ UNCHANGED <<cb, anno, heard, excused>>
  BY DEF SetHeader
<1>2. NAN \in Changes /\ Window(cb) \subseteq Slots
  BY WindowFacts DEF Changes, TypeOK
<1>3. received' \in [Slots -> [Columns -> Changes]]
  BY <1>1, <1>2 DEF TypeOK
<1>4. lost' \subseteq Slots \X Columns
  BY <1>1, <1>2 DEF TypeOK
<1>5. headers' \in [Columns -> Methods]
  BY <1>1 DEF TypeOK
<1> QED
  BY <1>1, <1>3, <1>4, <1>5 DEF TypeOK

\* An output in the cbufd format keeps the type of the state.
LEMMA OutputType == ASSUME TypeOK, OutputCbufd PROVE TypeOK'
<1>1. Ring(cb) /\ EmptyRows \in [Rows -> [Columns -> Changes]] /\ NAN \in Changes
  BY RowTypes DEF TypeOK, Changes
<1>2. Ring(cb')
  BY <1>1, DeltasReplaced DEF OutputCbufd
<1>3. \A s \in Slots : Sent(s) \in [Columns -> Changes]
  BY <1>1, SentFacts, RowTypes
<1>4. received' \in [Slots -> [Columns -> Changes]]
  <2>1. ASSUME NEW s \in Slots, NEW c \in Columns
        PROVE  (IF <<s, c>> \in lost THEN NAN
                ELSE Merged(received[s][c], Sent(s)[c], headers[c])) \in Changes
    BY <1>1, <1>3, MergedType DEF TypeOK
  <2> QED
    BY <2>1 DEF OutputCbufd
<1>5. anno' \subseteq Annotations
  <2>1. anno' = AfterOutput("cbufd", anno) /\ anno \subseteq Annotations
    BY DEF OutputCbufd, TypeOK
  <2>2. ASSUME NEW a \in Annotations
        PROVE  [a EXCEPT !.delta = FlagAfter("cbufd", a)] \in Annotations
    BY DEF Annotations, FlagAfter
  <2> QED
    BY <2>1, <2>2 DEF AfterOutput
<1>6. heard' \subseteq Heards
  BY DEF OutputCbufd, TypeOK, Annotations, Heard, Heards
<1> QED
  BY <1>2, <1>4, <1>5, <1>6 DEF OutputCbufd, TypeOK

\* annotate keeps the type of the state.
LEMMA AnnotateType == ASSUME TypeOK, Annotate PROVE TypeOK'
<1>1. PICK t \in Given, c \in Columns, note \in Texts, delta \in BOOLEAN :
        LET s == Slot(t)
            asked == delta \/ \E a \in At(s, c) : a.delta
        IN /\ InBuffer(cb, t)
           /\ anno' = (anno \ At(s, c)) \cup
                {[slot |-> s, column |-> c, text |-> note, delta |-> Pending(s, c, delta)]}
           /\ excused' = IF asked THEN excused \ {<<s, c>>} ELSE excused \cup {<<s, c>>}
           /\ UNCHANGED <<cb, headers, received, lost, heard>>
  BY DEF Annotate
<1>2. Slot(t) \in Slots
  <2>1. t \in Nat
    BY BoundsAssumption
  <2> QED
    BY <1>1, <2>1, WindowFacts DEF TypeOK
<1>3. Pending(Slot(t), c, delta) \in BOOLEAN
  BY DEF Pending
<1>4. anno' \subseteq Annotations
  BY <1>1, <1>2, <1>3 DEF TypeOK, Annotations
<1>5. excused' \subseteq Slots \X Columns
  BY <1>1, <1>2 DEF TypeOK
<1> QED
  BY <1>1, <1>4, <1>5 DEF TypeOK

\* An output in the cbuf format keeps the type of the state.
LEMMA FullOutputType == ASSUME TypeOK, OutputCbuf PROVE TypeOK'
<1>1. anno' \subseteq Annotations
  BY DEF OutputCbuf, AfterOutput, TypeOK, Annotations, FlagAfter
<1> QED
  BY <1>1 DEF OutputCbuf, TypeOK

\* An output that fails among the rows keeps the type of the buffer.
LEMMA RowsFailType ==
  ASSUME TypeOK, NEW written \in Nat, RowsFail(written)
  PROVE  /\ Ring(cb') /\ CurrentSlot(cb') = CurrentSlot(cb) /\ Window(cb') = Window(cb)
         /\ cb'.values = cb.values
         /\ received' \in [Slots -> [Columns -> Changes]] /\ lost' \subseteq Slots \X Columns
<1> DEFINE cells == {x \in (1 .. rows) \X Columns : (x[1] - 1) * columns + x[2] <= written}
           deltas == [r \in Rows |-> [c \in Columns |->
                        IF \E x \in cells : Visited(cb, x[1]) = r /\ x[2] = c
                        THEN NAN ELSE cb.deltas[r][c]]]
<1>1. Ring(cb) /\ NAN \in Changes
  BY DEF TypeOK, Changes
<1>2. deltas \in [Rows -> [Columns -> Changes]]
  <2> HIDE DEF cells
  <2> QED
    BY <1>1, RowTypes
<1>3. cb' = [cb EXCEPT !.deltas = deltas]
  BY DEF RowsFail
<1>4. /\ Ring(cb') /\ CurrentSlot(cb') = CurrentSlot(cb) /\ Window(cb') = Window(cb)
      /\ cb'.values = cb.values
  <2> HIDE DEF deltas
  <2> QED
    BY <1>1, <1>2, <1>3, DeltasReplaced
<1>5. received' \in [Slots -> [Columns -> Changes]]
  BY <1>1 DEF RowsFail, TypeOK
<1>6. ASSUME NEW x \in cells PROVE <<Slot(TimeOf(cb, x[1])), x[2]>> \in Slots \X Columns
  <2>1. x[1] \in 1 .. rows /\ x[2] \in Columns
    OBVIOUS
  <2>2. Slot(TimeOf(cb, x[1])) \in Slots
    BY <1>1, <2>1, VisitedFacts, WindowFacts
  <2> QED
    BY <2>1, <2>2
<1>7. lost' = lost \cup {<<Slot(TimeOf(cb, x[1])), x[2]>> :
                x \in {x \in cells : cb.deltas[Visited(cb, x[1])][x[2]] # NAN}}
  BY DEF RowsFail
<1>8. lost' \subseteq Slots \X Columns
  <2> HIDE DEF cells
  <2> QED
    BY <1>6, <1>7 DEF TypeOK
<1> QED
  BY <1>4, <1>5, <1>8

\* An output that fails keeps the type of the annotations.
LEMMA AnnotationsFailType ==
  ASSUME TypeOK, NEW visited \in SUBSET anno, AnnotationsFail(visited)
  PROVE  anno' \subseteq Annotations /\ heard' \subseteq Heards
         /\ excused' \subseteq Slots \X Columns
<1>1. anno' \subseteq Annotations
  BY DEF AnnotationsFail, AfterOutput, TypeOK, Annotations, FlagAfter
<1>2. excused' \subseteq Slots \X Columns
  BY DEF AnnotationsFail, TypeOK, Annotations, Place
<1> QED
  BY <1>1, <1>2 DEF AnnotationsFail, TypeOK

\* An output that fails keeps the type of the state.
LEMMA FailType == ASSUME TypeOK, OutputFails PROVE TypeOK'
<1>1. headers' = headers
  BY DEF OutputFails
<1>2. CASE \E written \in 0 .. rows * columns : RowsFail(written) /\ AnnotationsFail(anno)
  <2>1. PICK written \in 0 .. rows * columns : RowsFail(written) /\ AnnotationsFail(anno)
    BY <1>2
  <2>2. written \in Nat
    OBVIOUS
  <2> QED
    BY <1>1, <2>1, <2>2, RowsFailType, AnnotationsFailType DEF TypeOK
<1>3. CASE (\E visited \in SUBSET anno : AnnotationsFail(visited))
           /\ UNCHANGED <<cb, lost, received>>
  BY <1>1, <1>3, AnnotationsFailType DEF TypeOK
<1> QED
  BY <1>2, <1>3 DEF OutputFails

\* A time printed with six digits is a time.
LEMMA PrintedType == ASSUME NEW t \in Nat PROVE Printed(t) \in Nat
<1> DEFINE q == t \div Precision
<1>1. q \in Nat /\ Precision \in Nat \ {0} /\ t % Precision \in Nat
  BY DivMod, PrecisionAssumption
<1>2. q % 2 \in Nat
  BY <1>1
<1>3. q * Precision \in Nat /\ (q + 1) * Precision \in Nat /\ (q + (q % 2)) * Precision \in Nat
  BY <1>1, <1>2
<1> HIDE DEF q
<1> QED
  BY <1>1, <1>3 DEF Printed, q

\* An annotation that is kept over a restart is in the window where it is put.
LEMMA ReplayedType ==
  ASSUME TypeOK, NEW a \in Kept
  PROVE  /\ a \in anno /\ a \in Annotations /\ Replayed(a) \in Annotations
         /\ Replayed(a).slot \in Window(cb)
         /\ Replayed(a) = [slot |-> Replayed(a).slot, column |-> a.column, text |-> a.text,
                           delta |-> a.delta]
<1>1. a \in anno /\ a \in Annotations /\ Ring(cb) /\ a.slot \in Nat
  BY WindowFacts DEF Kept, TypeOK, Annotations
<1> DEFINE t == Printed(TimeOfSlot(a.slot))
<1>2. t \in Nat /\ InBuffer(cb, t)
  BY <1>1, SlotOfTime, PrintedType DEF Kept
<1>3. Slot(t) \in Window(cb) /\ Slot(t) \in Slots
  BY <1>1, <1>2, WindowFacts
<1> QED
  BY <1>1, <1>3 DEF Replayed, Annotations

\* A restart keeps the type of the state, and the buffer as it is.
LEMMA RestartType ==
  ASSUME TypeOK, Restart
  PROVE  TypeOK' /\ cb' = cb
<1>1. cb' = cb
  BY RestoredSame DEF Restart, TypeOK
<1>2. ASSUME NEW a \in Kept
      PROVE  [Replayed(a) EXCEPT !.delta = \E b \in Together(a) : b.delta] \in Annotations
  BY ReplayedType DEF Annotations
<1>3. anno' \subseteq Annotations
  BY <1>2 DEF Restart, Reannotated
<1>4. excused' \subseteq Slots \X Columns
  <2>1. \A a \in Kept : Place(Replayed(a)) \in Slots \X Columns
    BY ReplayedType DEF Place, Annotations
  <2> QED
    BY <2>1 DEF Restart, Misplaced
<1> QED
  BY <1>1, <1>3, <1>4 DEF Restart, TypeOK, Ring

-----------------------------------------------------------------------------
(* The other steps: the changes.                                           *)

\* set_header: what the reader has under the old aggregation is given up.
LEMMA SetHeaderDelta == ASSUME TypeOK, DeltaInv, SetHeader PROVE DeltaInv'
<1>1. PICK c \in Columns, aggregation \in Methods :
        /\ headers' = [headers EXCEPT ![c] = aggregation]
        /\ lost' = lost \cup {x \in Window(cb) \X {c} : cb.values[x[1] % rows][c] # NAN}
        /\ received' = [s \in Slots |-> IF <<s, c>> \in lost'
                                        THEN [received[s] EXCEPT ![c] = NAN] ELSE received[s]]
        /\ cb' = cb
  BY DEF SetHeader
<1>2. Ring(cb) /\ \A s \in Window(cb) : s \in Slots
  BY RowTypes DEF TypeOK
<1>3. ASSUME NEW s \in Slots, NEW d \in Columns
      PROVE  /\ received'[s][d] = received[s][d] \/ received'[s][d] = NAN
             /\ d # c => received'[s][d] = received[s][d] /\ headers'[d] = headers[d]
  BY <1>1 DEF TypeOK
<1>4. Fresh' /\ Unset(cb', received')
  BY <1>1, <1>2, <1>3 DEF DeltaInv, Fresh, Unset, Window
<1>5. ASSUME NEW s \in Window(cb), NEW d \in Columns, headers'[d] # "none", <<s, d>> \notin lost'
      PROVE  Merged(received'[s][d], cb.deltas[s % rows][d], headers'[d]) = cb.values[s % rows][d]
  <2>1. CASE d = c
    <3>1. cb.values[s % rows][d] = NAN
      BY <1>1, <1>5, <2>1
    <3>2. cb.deltas[s % rows][d] = NAN /\ received[s][d] = NAN
      BY <3>1 DEF DeltaInv, Unset
    <3>3. received'[s][d] = NAN
      BY <1>2, <1>3, <3>2
    <3> QED
      BY <3>1, <3>2, <3>3 DEF Merged
  <2>2. CASE d # c
    <3>1. received'[s][d] = received[s][d] /\ headers'[d] = headers[d]
      BY <1>2, <1>3, <2>2
    <3>2. <<s, d>> \notin lost
      BY <1>1, <1>5
    <3> QED
      BY <1>5, <3>1, <3>2 DEF DeltaInv, Exact
  <2> QED
    BY <2>1, <2>2
<1> QED
  BY <1>1, <1>4, <1>5 DEF DeltaInv, Exact, Fresh, Unset, Window

\* An output in the cbufd format: the reader gets what is cleared.
LEMMA OutputDelta == ASSUME TypeOK, DeltaInv, OutputCbufd PROVE DeltaInv'
<1>1. Ring(cb) /\ EmptyRows \in [Rows -> [Columns -> Changes]]
  BY RowTypes DEF TypeOK
<1>2. /\ cb'.values = cb.values /\ Window(cb') = Window(cb) /\ cb'.deltas = EmptyRows
      /\ headers' = headers /\ lost' = lost
  BY <1>1, DeltasReplaced DEF OutputCbufd
<1>3. \A s \in Window(cb) : s \in Slots /\ s % rows \in Rows
  BY <1>1, RowTypes
<1>4. ASSUME NEW s \in Slots, NEW c \in Columns
      PROVE  received'[s][c] = IF <<s, c>> \in lost THEN NAN
                               ELSE Merged(received[s][c], Sent(s)[c], headers[c])
  BY DEF OutputCbufd
<1>5. \A s \in Window(cb), c \in Columns : cb'.deltas[s % rows][c] = NAN
  BY <1>2, <1>3 DEF EmptyRows, EmptyRow
<1>6. \A s \in Window(cb) : Sent(s) = cb.deltas[s % rows]
  BY <1>1, <1>3, SentFacts
<1>7. ASSUME NEW s \in Slots, NEW c \in Columns, s \notin Window(cb)
      PROVE  received'[s][c] = NAN
  <2>1. Sent(s)[c] = NAN /\ received[s][c] = NAN
    BY <1>1, <1>7, SentFacts DEF EmptyRow, DeltaInv, Fresh
  <2> QED
    BY <1>4, <2>1 DEF Merged
<1>8. ASSUME NEW s \in Window(cb), NEW c \in Columns, cb.values[s % rows][c] = NAN
      PROVE  received'[s][c] = NAN
  <2>1. Sent(s)[c] = NAN /\ received[s][c] = NAN
    BY <1>6, <1>8 DEF DeltaInv, Unset
  <2> QED
    BY <1>3, <1>4, <2>1 DEF Merged
<1>9. ASSUME NEW s \in Window(cb), NEW c \in Columns, headers[c] # "none", <<s, c>> \notin lost
      PROVE  Merged(received'[s][c], cb'.deltas[s % rows][c], headers[c]) = cb.values[s % rows][c]
  <2>1. received'[s][c] = cb.values[s % rows][c]
    BY <1>3, <1>4, <1>6, <1>9 DEF DeltaInv, Exact
  <2> QED
    BY <1>5, <2>1 DEF Merged
<1> QED
  BY <1>2, <1>5, <1>7, <1>8, <1>9 DEF DeltaInv, Exact, Fresh, Unset

\* An output that fails among the rows: what is cleared is given up.
LEMMA RowsFailDelta ==
  ASSUME TypeOK, DeltaInv, NEW written \in Nat, RowsFail(written), headers' = headers
  PROVE  DeltaInv'
<1> DEFINE cells == {x \in (1 .. rows) \X Columns : (x[1] - 1) * columns + x[2] <= written}
<1>1. /\ Ring(cb) /\ Window(cb') = Window(cb) /\ cb'.values = cb.values
      /\ \A s \in Window(cb) : s \in Slots /\ s % rows \in Rows
  BY RowsFailType, RowTypes DEF TypeOK
<1>2. cells \subseteq (1 .. rows) \X Columns
  OBVIOUS
<1>3. cb'.deltas = [r \in Rows |-> [c \in Columns |->
                      IF \E x \in cells : Visited(cb, x[1]) = r /\ x[2] = c
                      THEN NAN ELSE cb.deltas[r][c]]]
  <2>1. cb \in Buffers
    BY <1>1 DEF Ring
  <2> QED
    BY <2>1 DEF RowsFail, Buffers
<1>4. lost' = lost \cup {<<Slot(TimeOf(cb, x[1])), x[2]>> :
                x \in {x \in cells : cb.deltas[Visited(cb, x[1])][x[2]] # NAN}}
  BY DEF RowsFail
<1>5. received' = [s \in Slots |-> [c \in Columns |->
                     IF <<s, c>> \in lost' THEN NAN ELSE received[s][c]]]
  BY DEF RowsFail
<1> HIDE DEF cells
<1>6. ASSUME NEW s \in Window(cb), NEW c \in Columns
      PROVE  /\ cb'.deltas[s % rows][c] = NAN \/ cb'.deltas[s % rows][c] = cb.deltas[s % rows][c]
             /\ <<s, c>> \notin lost' => cb'.deltas[s % rows][c] = cb.deltas[s % rows][c]
  <2>1. CASE \E x \in cells : Visited(cb, x[1]) = s % rows /\ x[2] = c
    <3>1. PICK x \in cells : Visited(cb, x[1]) = s % rows /\ x[2] = c
      BY <2>1
    <3>2. x[1] \in 1 .. rows
      BY <1>2
    <3>3. x[1] = s - CurrentSlot(cb) + rows /\ s = CurrentSlot(cb) - rows + x[1]
      BY <1>1, <3>1, <3>2, LineOfSlot
    <3>4. Slot(TimeOf(cb, x[1])) = s
      BY <1>1, <3>2, <3>3, VisitedFacts
    <3>5. cb.deltas[s % rows][c] # NAN => <<s, c>> \in lost'
      BY <1>4, <3>1, <3>4
    <3>6. cb'.deltas[s % rows][c] = NAN
      BY <1>1, <1>3, <2>1
    <3> QED
      BY <3>5, <3>6
  <2>2. CASE ~ \E x \in cells : Visited(cb, x[1]) = s % rows /\ x[2] = c
    BY <1>1, <1>3, <2>2
  <2> QED
    BY <2>1, <2>2
<1>7. Fresh' /\ Unset(cb', received')
  BY <1>1, <1>5, <1>6 DEF DeltaInv, Fresh, Unset
<1>8. Exact(cb', received', lost')
  <2>1. lost \subseteq lost'
    BY <1>4
  <2> QED
    BY <1>1, <1>5, <1>6, <2>1 DEF DeltaInv, Exact
<1> QED
  BY <1>7, <1>8 DEF DeltaInv, Unset, Exact

\* The other calls do not touch the changes.
LEMMA OtherDelta ==
  ASSUME TypeOK, DeltaInv, UNCHANGED <<cb, headers, received, lost>>
  PROVE  DeltaInv'
BY DEF DeltaInv, Fresh, Unset, Exact, Window

-----------------------------------------------------------------------------
(* The other steps: the annotations.                                       *)

\* annotate replaces the entry of the place, and keeps its flag.
LEMMA AnnotateAnno == ASSUME TypeOK, AnnoInv, Annotate PROVE AnnoInv'
<1>1. PICK t \in Given, c \in Columns, note \in Texts, delta \in BOOLEAN :
        LET s == Slot(t)
            asked == delta \/ \E a \in At(s, c) : a.delta
        IN /\ InBuffer(cb, t)
           /\ anno' = (anno \ At(s, c)) \cup
                {[slot |-> s, column |-> c, text |-> note, delta |-> Pending(s, c, delta)]}
           /\ excused' = IF asked THEN excused \ {<<s, c>>} ELSE excused \cup {<<s, c>>}
           /\ UNCHANGED <<cb, headers, received, lost, heard>>
  BY DEF Annotate
<1> DEFINE s == Slot(t)
           new == [slot |-> s, column |-> c, text |-> note, delta |-> Pending(s, c, delta)]
<1>2. /\ InBuffer(cb, t) /\ anno' = (anno \ At(s, c)) \cup {new} /\ UNCHANGED <<cb, heard>>
      /\ excused' = IF Pending(s, c, delta) THEN excused \ {<<s, c>>} ELSE excused \cup {<<s, c>>}
  BY <1>1 DEF Pending
<1>3. \A a \in anno : a \notin At(s, c) => Place(a) # <<s, c>>
  BY DEF At, Place
<1>4. Place(new) = <<s, c>> /\ new.slot = s /\ new.delta = Pending(s, c, delta)
  BY DEF Place
<1> HIDE DEF new
<1>5. OnePerPlace'
  BY <1>2, <1>3, <1>4 DEF AnnoInv, OnePerPlace, Place
<1>6. s <= CurrentSlot(cb)
  BY <1>2 DEF InBuffer
<1>7. NotAhead'
  BY <1>2, <1>4, <1>6 DEF AnnoInv, NotAhead, CurrentSlot
<1>8. ASSUME NEW a \in anno', a.slot \in Window(cb'), ~ a.delta, Place(a) \notin excused'
      PROVE  Heard(a) \in heard'
  <2>1. a # new
    BY <1>2, <1>4, <1>8
  <2>2. a \in anno /\ Place(a) # <<s, c>>
    BY <1>2, <1>3, <2>1
  <2>3. Place(a) \notin excused /\ a.slot \in Window(cb)
    BY <1>2, <1>8, <2>2
  <2> QED
    BY <1>2, <1>8, <2>2, <2>3 DEF AnnoInv, AnnotationsDelivered
<1> QED
  BY <1>5, <1>7, <1>8 DEF AnnoInv, AnnotationsDelivered, Place, Heard, Window

\* What an output leaves of the entries visited.
LEMMA AfterOutputFacts ==
  ASSUME TypeOK, NEW format, NEW visited \in SUBSET anno, NEW a \in AfterOutput(format, visited)
  PROVE  \/ a \in anno \ visited
         \/ \E b \in visited : /\ InTime(b) /\ Place(a) = Place(b) /\ Heard(a) = Heard(b)
                               /\ a.slot = b.slot /\ a.delta = FlagAfter(format, b)
<1>1. \A b \in anno : b \in Annotations
  BY DEF TypeOK
<1>2. CASE a \notin anno \ visited
  <2>1. PICK b \in visited : InTime(b) /\ a = [b EXCEPT !.delta = FlagAfter(format, b)]
    BY <1>2 DEF AfterOutput
  <2>2. b \in Annotations
    BY <1>1
  <2> QED
    BY <2>1, <2>2 DEF Annotations, Place, Heard
<1> QED
  BY <1>2

\* After an output every place has one entry still.
LEMMA AfterOutputPlaces ==
  ASSUME TypeOK, AnnoInv, NEW format, NEW visited \in SUBSET anno,
         anno' = AfterOutput(format, visited), CurrentSlot(cb') = CurrentSlot(cb)
  PROVE  OnePerPlace' /\ NotAhead'
<1>1. ASSUME NEW a \in anno'
      PROVE  \E b \in anno : /\ Place(a) = Place(b) /\ a.slot = b.slot
                             /\ a = IF b \in visited
                                THEN [b EXCEPT !.delta = FlagAfter(format, b)] ELSE b
  <2>1. \A b \in anno : b \in Annotations
    BY DEF TypeOK
  <2> QED
    BY <2>1 DEF AfterOutput, Annotations, Place
<1>2. OnePerPlace'
  BY <1>1 DEF AnnoInv, OnePerPlace, Place
<1>3. NotAhead'
  BY <1>1 DEF AnnoInv, NotAhead
<1> QED
  BY <1>2, <1>3

\* An output in the cbufd format: the reader gets the entries that are flagged.
LEMMA OutputAnno == ASSUME TypeOK, AnnoInv, OutputCbufd PROVE AnnoInv'
<1>1. CurrentSlot(cb') = CurrentSlot(cb) /\ Window(cb') = Window(cb)
  BY RowTypes, DeltasReplaced DEF OutputCbufd, TypeOK
<1>2. anno' = AfterOutput("cbufd", anno) /\ excused' = excused
  BY DEF OutputCbufd
<1>3. OnePerPlace' /\ NotAhead'
  BY <1>1, <1>2, AfterOutputPlaces
<1> DEFINE told == {a \in anno : InTime(a) /\ a.delta}
<1>4. heard' = {h \in heard : Place(h) \notin {Place(a) : a \in told}} \cup {Heard(a) : a \in told}
  BY DEF OutputCbufd
<1>5. ASSUME NEW a \in anno', a.slot \in Window(cb'), ~ a.delta, Place(a) \notin excused'
      PROVE  Heard(a) \in heard'
  <2>1. PICK b \in anno : InTime(b) /\ Place(a) = Place(b) /\ Heard(a) = Heard(b) /\ a.slot = b.slot
    BY <1>2, AfterOutputFacts
  <2>2. CASE b.delta
    BY <1>4, <2>1, <2>2
  <2>3. CASE ~ b.delta
    <3>1. Heard(b) \in heard
      BY <1>1, <1>2, <1>5, <2>1, <2>3 DEF AnnoInv, AnnotationsDelivered
    <3>2. \A x \in told : Place(x) # Place(b)
      BY <2>3 DEF AnnoInv, OnePerPlace
    <3>3. Place(Heard(b)) = Place(b)
      BY DEF Place, Heard
    <3> QED
      BY <1>4, <2>1, <3>1, <3>2, <3>3
  <2> QED
    BY <2>2, <2>3
<1> QED
  BY <1>3, <1>5 DEF AnnoInv, AnnotationsDelivered, Place, Heard

\* An output in the cbuf format leaves the flags alone.
LEMMA FullOutputAnno == ASSUME TypeOK, AnnoInv, OutputCbuf PROVE AnnoInv'
<1>1. anno' = AfterOutput("cbuf", anno) /\ UNCHANGED <<cb, heard, excused>>
  BY DEF OutputCbuf
<1>2. OnePerPlace' /\ NotAhead'
  BY <1>1, AfterOutputPlaces
<1>3. ASSUME NEW a \in anno', a.slot \in Window(cb), ~ a.delta, Place(a) \notin excused
      PROVE  Heard(a) \in heard
  <2>1. PICK b \in anno : /\ Place(a) = Place(b) /\ Heard(a) = Heard(b)
                          /\ a.slot = b.slot /\ a.delta = FlagAfter("cbuf", b)
    BY <1>1, AfterOutputFacts
  <2>2. b.delta \in BOOLEAN
    BY DEF TypeOK, Annotations
  <2> QED
    BY <1>3, <2>1, <2>2 DEF AnnoInv, AnnotationsDelivered, FlagAfter
<1> QED
  BY <1>1, <1>2, <1>3 DEF AnnoInv, AnnotationsDelivered, Place, Heard, Window, CurrentSlot

\* The entries visited by an output that fails are excused.
LEMMA FailAnno ==
  ASSUME TypeOK, AnnoInv, NEW visited \in SUBSET anno, AnnotationsFail(visited),
         CurrentSlot(cb') = CurrentSlot(cb), Window(cb') = Window(cb)
  PROVE  AnnoInv'
<1> DEFINE unheard == {Place(a) : a \in {a \in visited : InTime(a) /\ a.delta}}
<1>1. /\ anno' = AfterOutput("cbufd", visited) /\ excused' = excused \cup unheard
      /\ heard' = {h \in heard : Place(h) \notin unheard}
  BY DEF AnnotationsFail
<1>2. OnePerPlace' /\ NotAhead'
  BY <1>1, AfterOutputPlaces
<1>3. ASSUME NEW a \in anno', a.slot \in Window(cb), ~ a.delta, Place(a) \notin excused'
      PROVE  Heard(a) \in heard'
  <2>1. PICK b \in anno : /\ Place(a) = Place(b) /\ Heard(a) = Heard(b) /\ a.slot = b.slot
                          /\ (a = b \/ (b \in visited /\ InTime(b)))
    BY <1>1, AfterOutputFacts
  <2>2. Place(a) \notin unheard /\ Place(a) \notin excused
    BY <1>1, <1>3
  <2>3. ~ b.delta
    BY <1>3, <2>1, <2>2
  <2>4. Heard(b) \in heard
    BY <1>3, <2>1, <2>2, <2>3 DEF AnnoInv, AnnotationsDelivered
  <2>5. Place(Heard(b)) = Place(b)
    BY DEF Place, Heard
  <2> HIDE DEF unheard
  <2> QED
    BY <1>1, <2>1, <2>2, <2>4, <2>5
<1> QED
  BY <1>1, <1>2, <1>3 DEF AnnoInv, AnnotationsDelivered, Place, Heard

\* ... wherever it fails.
LEMMA OutputFailsAnno == ASSUME TypeOK, AnnoInv, OutputFails PROVE AnnoInv'
<1>1. CASE \E written \in 0 .. rows * columns : RowsFail(written) /\ AnnotationsFail(anno)
  <2>1. PICK written \in 0 .. rows * columns : RowsFail(written) /\ AnnotationsFail(anno)
    BY <1>1
  <2>2. written \in Nat
    OBVIOUS
  <2> QED
    BY <2>1, <2>2, RowsFailType, FailAnno
<1>2. CASE (\E visited \in SUBSET anno : AnnotationsFail(visited))
           /\ UNCHANGED <<cb, lost, received>>
  BY <1>2, FailAnno
<1> QED
  BY <1>1, <1>2 DEF OutputFails

\* A restart: what is put into another row, or merged there, is excused.
LEMMA RestartAnno == ASSUME TypeOK, AnnoInv, Restart PROVE AnnoInv'
<1>1. cb' = cb /\ heard' = heard /\ excused' = Misplaced
  BY RestartType DEF Restart
<1>2. anno' \subseteq Reannotated
      /\ \A a \in Reannotated : \E b \in anno' : \A x \in anno' : Place(x) = Place(a) <=> x = b
  BY DEF Restart
<1>3. OnePerPlace'
  <2> SUFFICES ASSUME NEW a \in anno', NEW b \in anno', Place(a) = Place(b) PROVE a = b
    BY DEF OnePerPlace, Place
  <2> QED
    BY <1>2
<1>4. ASSUME NEW a \in anno'
      PROVE  \E k \in Kept : /\ a.slot = Replayed(k).slot /\ Place(a) = Place(Replayed(k))
                             /\ Heard(a) = Heard(Replayed(k))
                                /\ a.delta = (\E b \in Together(k) : b.delta)
  <2>1. PICK k \in Kept : a = [Replayed(k) EXCEPT !.delta = \E b \in Together(k) : b.delta]
    BY <1>2 DEF Reannotated
  <2>2. Replayed(k) \in Annotations
    BY ReplayedType
  <2> QED
    BY <2>1, <2>2 DEF Annotations, Place, Heard
<1>5. NotAhead'
  <2>1. \A k \in Kept : Replayed(k).slot <= CurrentSlot(cb)
    BY ReplayedType, WindowFacts DEF TypeOK
  <2> QED
    BY <1>1, <1>4, <2>1 DEF NotAhead
<1>6. ASSUME NEW a \in anno', a.slot \in Window(cb), ~ a.delta, Place(a) \notin excused'
      PROVE  Heard(a) \in heard'
  <2>1. PICK k \in Kept : /\ a.slot = Replayed(k).slot /\ Place(a) = Place(Replayed(k))
                          /\ Heard(a) = Heard(Replayed(k))
                             /\ a.delta = (\E b \in Together(k) : b.delta)
    BY <1>4
  <2>2. Replayed(k) = k /\ Place(k) \notin excused
    BY <1>1, <1>6, <2>1 DEF Misplaced
  <2>3. k \in Together(k) /\ k \in anno
    BY DEF Together, Kept
  <2>4. ~ k.delta
    BY <1>6, <2>1, <2>3
  <2>5. Heard(k) \in heard
    BY <1>6, <2>1, <2>2, <2>3, <2>4 DEF AnnoInv, AnnotationsDelivered
  <2> QED
    BY <1>1, <2>1, <2>2, <2>5
<1> QED
  BY <1>1, <1>3, <1>5, <1>6 DEF AnnoInv, AnnotationsDelivered, Place, Heard

\* The other calls do not touch the annotations.
LEMMA OtherAnno ==
  ASSUME TypeOK, AnnoInv, UNCHANGED <<cb, anno, heard, excused>>
  PROVE  AnnoInv'
BY DEF AnnoInv, OnePerPlace, NotAhead, AnnotationsDelivered, Place, Heard, Window, CurrentSlot

-----------------------------------------------------------------------------
(* The theorems.                                                           *)

IInv == TypeOK /\ DeltaInv /\ AnnoInv

\* new() makes a ring of empty rows.
LEMMA InitIInv == Init => IInv
<1> SUFFICES ASSUME Init PROVE IInv
  OBVIOUS
<1>1. /\ rows - 1 \in Nat /\ rows \in Nat \ {0} /\ seconds_per_row \in Nat \ {0} /\ MaxTime \in Nat
      /\ TimeOfSlot(rows - 1) \in Nat /\ Slot(TimeOfSlot(rows - 1)) = rows - 1
  BY SlotOfTime, DimensionsAssumption, BoundsAssumption
<1>2. /\ cb.current_time = seconds_per_row * (rows - 1) /\ cb.current_row = rows - 1
      /\ cb.values = EmptyRows /\ cb.deltas = EmptyRows
      /\ cb = [current_time |-> cb.current_time, current_row |-> cb.current_row,
               values |-> cb.values, deltas |-> cb.deltas]
  BY DEF Init, New
<1>3. cb.current_time = TimeOfSlot(rows - 1)
  BY <1>1, <1>2 DEF TimeOfSlot
<1>4. cb.current_time <= MaxTime
  BY <1>2, BoundsAssumption
<1>5. EmptyRow \in [Columns -> Changes] /\ EmptyRow \in [Columns -> Cells]
  BY DEF EmptyRow, Changes, Cells
<1>6. cb \in Buffers
  BY <1>1, <1>2, <1>3, <1>4, <1>5 DEF Buffers, Times, Rows, EmptyRows
<1>7. (rows - 1) % rows = rows - 1
  <2> DEFINE final == rows - 1
  <2>1. /\ final \in Int /\ -rows < final /\ final < 2 * rows
        /\ ~ (final < 0) /\ final < rows
    BY <1>1
  <2> HIDE DEF final
  <2>2. final % rows = final
    BY <1>1, <2>1, ModNear
  <2> QED
    BY <2>2 DEF final
<1>8. Ring(cb)
  BY <1>1, <1>2, <1>3, <1>6, <1>7 DEF Ring, CurrentSlot
<1>9. TypeOK
  BY <1>5, <1>8 DEF Init, TypeOK
<1>10. \A s \in Window(cb) : s % rows \in Rows /\ s \in Slots
  BY <1>8, RowTypes
<1>11. DeltaInv
  BY <1>2, <1>10 DEF Init, DeltaInv, Fresh, Unset, Exact, EmptyRows, EmptyRow, Merged
<1>12. AnnoInv
  BY DEF Init, AnnoInv, OnePerPlace, NotAhead, AnnotationsDelivered
<1> QED
  BY <1>9, <1>11, <1>12 DEF IInv

\* Every call of the API, every output and every restart keeps the invariant.
LEMMA Inductive == IInv /\ [Next]_vars => IInv'
<1> SUFFICES ASSUME IInv, [Next]_vars PROVE IInv'
  OBVIOUS
<1>1. TypeOK /\ DeltaInv /\ AnnoInv /\ Ring(cb)
  BY DEF IInv, TypeOK
<1>2. CASE Add \/ Set \/ Refuse
  <2>1. PICK t \in Times : Moves(t)
    BY <1>1, <1>2, MovesCases
  <2> QED
    BY <1>1, <2>1, MovesType, MovesDelta, MovesAnno DEF IInv
<1>3. CASE SetHeader
  BY <1>1, <1>3, SetHeaderType, SetHeaderDelta, OtherAnno DEF IInv, SetHeader
<1>4. CASE Annotate
  BY <1>1, <1>4, AnnotateType, AnnotateAnno, OtherDelta DEF IInv, Annotate
<1>5. CASE OutputCbufd
  BY <1>1, <1>5, OutputType, OutputDelta, OutputAnno DEF IInv
<1>6. CASE OutputCbuf
  BY <1>1, <1>6, FullOutputType, FullOutputAnno, OtherDelta DEF IInv, OutputCbuf
<1>7. CASE OutputFails
  <2>1. DeltaInv'
    <3>1. headers' = headers
      BY <1>7 DEF OutputFails
    <3>2. CASE \E written \in 0 .. rows * columns : RowsFail(written) /\ AnnotationsFail(anno)
      <4>1. PICK written \in 0 .. rows * columns : RowsFail(written)
        BY <3>2
      <4>2. written \in Nat
        OBVIOUS
      <4> QED
        BY <1>1, <3>1, <4>1, <4>2, RowsFailDelta
    <3>3. CASE UNCHANGED <<cb, lost, received>>
      BY <1>1, <3>1, <3>3, OtherDelta
    <3> QED
      BY <1>7, <3>2, <3>3 DEF OutputFails
  <2> QED
    BY <1>1, <1>7, <2>1, FailType, OutputFailsAnno DEF IInv
<1>8. CASE Restart
  BY <1>1, <1>8, RestartType, RestartAnno, OtherDelta DEF IInv, Restart
<1>9. CASE UNCHANGED vars
  BY <1>1, <1>9, OtherDelta, OtherAnno DEF IInv, vars, TypeOK, Ring
<1> QED
  BY <1>2, <1>3, <1>4, <1>5, <1>6, <1>7, <1>8, <1>9 DEF Next

\* Every reachable state has its type: the buffer is a ring (the newest time
\* is the beginning of a row, its row is that of the slot), whatever the times
\* given to add and set, over failed outputs and restarts.
THEOREM TypeCorrect == Spec => []TypeOK
<1>1. IInv => TypeOK
  BY DEF IInv
<1> QED
  BY InitIInv, Inductive, <1>1, PTL DEF Spec

\* A reader that merges every cbufd output, and the changes still to come, has
\* the values of the buffer: no change is lost, sent twice or given the wrong
\* time, for any number of rows and columns and whatever the jump of the window.
THEOREM ChangesExact == Spec => []DeltasAreExact
<1>1. IInv => DeltasAreExact
  BY DEF IInv, DeltaInv, Exact, DeltasAreExact
<1> QED
  BY InitIInv, Inductive, <1>1, PTL DEF Spec

\* A reader of the cbufd output has every annotation of the window that is not
\* to be sent any more: neither an output in the other format, nor an annotation
\* in place of another, nor a move of the window makes it miss one.
THEOREM AnnotationsArrive == Spec => []AnnotationsDelivered
<1>1. IInv => AnnotationsDelivered
  BY DEF IInv, AnnoInv
<1> QED
  BY InitIInv, Inductive, <1>1, PTL DEF Spec

-----------------------------------------------------------------------------
(* The reads.                                                              *)

\* From one slot of the window to a later one there are as many rows as slots.
LEMMA Distance ==
  ASSUME NEW s \in Nat, NEW n \in 0 .. rows - 1
  PROVE  /\ (((s + n) % rows) - (s % rows)) % rows = n
         /\ \A i \in 1 .. n + 1 : ((s % rows) + i - 1) % rows = (s + i - 1) % rows
<1>1. rows \in Nat \ {0} /\ s % rows \in 0 .. rows - 1
  BY DimensionsAssumption, DivMod
<1>2. (s + n) % rows = IF (s % rows) + n < rows THEN (s % rows) + n ELSE (s % rows) + n - rows
  <2>1. n \in 0 .. rows
    BY <1>1
  <2> QED
    BY <2>1, RowStep
<1>3. (((s + n) % rows) - (s % rows)) % rows = n
  <2> DEFINE m == s % rows  d == ((s + n) % rows) - m
  <2>1. m \in 0 .. rows - 1 /\ d = IF m + n < rows THEN n ELSE n - rows
    BY <1>1, <1>2
  <2> HIDE DEF m, d
  <2>2. d \in Int /\ -rows < d /\ d < 2 * rows /\ (d >= 0 => d = n /\ d < rows)
        /\ (d < 0 => d + rows = n)
    BY <1>1, <2>1
  <2>3. d % rows = IF d < 0 THEN d + rows ELSE IF d < rows THEN d ELSE d - rows
    BY <1>1, <2>2, ModNear
  <2>4. d % rows = n
    BY <1>1, <2>2, <2>3
  <2> QED
    BY <2>4 DEF d, m
<1>4. ASSUME NEW i \in 1 .. n + 1 PROVE ((s % rows) + i - 1) % rows = (s + i - 1) % rows
  <2> DEFINE m == s % rows  x == m + i - 1
  <2>1. i - 1 \in 0 .. rows /\ s + (i - 1) = s + i - 1
    BY <1>1
  <2>2. (s + i - 1) % rows = IF m + (i - 1) < rows THEN m + (i - 1) ELSE m + (i - 1) - rows
    BY <2>1, RowStep
  <2>3. m \in 0 .. rows - 1
    BY <1>1
  <2> HIDE DEF m
  <2>4. x \in Int /\ -rows < x /\ x < 2 * rows /\ ~ (x < 0) /\ x = m + (i - 1)
    BY <1>1, <2>1, <2>3
  <2> HIDE DEF x
  <2>5. x % rows = IF x < 0 THEN x + rows ELSE IF x < rows THEN x ELSE x - rows
    BY <1>1, <2>4, ModNear
  <2>6. x % rows = (s + i - 1) % rows
    <3> DEFINE j == i - 1
    <3>1. j \in 0 .. rows
      BY <2>1
    <3>2. x = m + j /\ (s + i - 1) % rows = IF m + j < rows THEN m + j ELSE m + j - rows
      BY <2>2, <2>4
    <3> HIDE DEF j
    <3> QED
      BY <1>1, <2>3, <2>5, <3>1, <3>2
  <2> QED
    BY <2>6 DEF x, m
<1> QED
  BY <1>3, <1>4

\* get_range between two times of the window.
LEMMA RangeFacts ==
  ASSUME Ring(cb), NEW c \in Columns, NEW start \in Nat, NEW end \in Nat, Slot(start) <= Slot(end),
         Slot(start) \in Window(cb), Slot(end) \in Window(cb)
  PROVE  GetRange(c, start, end) = [i \in 1 .. Slot(end) - Slot(start) + 1 |->
                                      cb.values[(Slot(start) + i - 1) % rows][c]]
<1> DEFINE s == Slot(start)  n == Slot(end) - s
<1>1. /\ s \in Nat /\ Slot(end) \in Nat /\ n \in 0 .. rows - 1 /\ s + n = Slot(end)
      /\ InBuffer(cb, start) /\ InBuffer(cb, end)
  <2>1. /\ s \in Nat /\ Slot(end) \in Nat /\ CurrentSlot(cb) - rows < s
        /\ Slot(end) <= CurrentSlot(cb)
        /\ CurrentSlot(cb) \in Nat /\ rows \in Nat
    BY WindowFacts, RingFacts
  <2>2. InBuffer(cb, start) /\ InBuffer(cb, end)
    BY WindowFacts
  <2> QED
    BY <2>1, <2>2
<1>2. (RowOf(end) - RowOf(start)) % rows = n
  BY <1>1, Distance DEF RowOf
<1>3. \A i \in 1 .. n + 1 : (RowOf(start) + i - 1) % rows = (s + i - 1) % rows
  BY <1>1, Distance DEF RowOf
<1>4. GetRange(c, start, end) = [i \in 1 .. n + 1 |-> cb.values[(RowOf(start) + i - 1) % rows][c]]
  BY <1>1, <1>2 DEF GetRange
<1> HIDE DEF n, s
<1>5. GetRange(c, start, end) = [i \in 1 .. n + 1 |-> cb.values[(s + i - 1) % rows][c]]
  BY <1>3, <1>4
<1> QED
  BY <1>5 DEF n, s

\* get_range returns the cells of the slots between its bounds in their order,
\* and without bounds what a cbuf output sends, wherever the ring has its end.
THEOREM RangeReads == Spec => []RangeIsWindow
<1>1. IInv => RangeIsWindow
  <2> SUFFICES ASSUME IInv, NEW c \in Columns
               PROVE  /\ OutputRows(c) = GetRange(c, StartTime(cb), cb.current_time)
                      /\ \A start \in Times, end \in Times :
                           start <= end /\ Slot(start) \in Window(cb) /\ Slot(end) \in Window(cb) =>
                             LET range == GetRange(c, start, end)
                             IN /\ Len(range) = Slot(end) - Slot(start) + 1
                                /\ \A i \in 1 .. Len(range) :
                                     range[i] = Get(c, start + (i - 1) * seconds_per_row)
    BY DEF RangeIsWindow
  <2>1. /\ Ring(cb) /\ CurrentSlot(cb) \in Nat /\ rows \in Nat /\ rows > 1
        /\ rows - 1 <= CurrentSlot(cb) /\ cb.current_time \in Nat
    BY RingFacts DEF IInv, TypeOK, Ring
  <2>2. OutputRows(c) = GetRange(c, StartTime(cb), cb.current_time)
    <3> DEFINE s == CurrentSlot(cb) - rows + 1
    <3>1. StartTime(cb) = TimeOfSlot(s) /\ s \in Nat /\ Slot(StartTime(cb)) = s /\ s \in Window(cb)
      <4>1. TimeOf(cb, 1) = TimeOfSlot(s) /\ s \in Window(cb) /\ Slot(TimeOf(cb, 1)) = s
        BY <2>1, VisitedFacts
      <4>2. TimeOf(cb, 1) = StartTime(cb)
        BY <2>1, DimensionsAssumption DEF TimeOf, StartTime
      <4> QED
        BY <2>1, <4>1, <4>2
    <3>2. Slot(cb.current_time) = CurrentSlot(cb) /\ CurrentSlot(cb) \in Window(cb)
      BY <2>1, WindowFacts DEF CurrentSlot
    <3>3. StartTime(cb) \in Nat
      BY <3>1, SlotOfTime
    <3>4. GetRange(c, StartTime(cb), cb.current_time) =
            [i \in 1 .. CurrentSlot(cb) - s + 1 |-> cb.values[(s + i - 1) % rows][c]]
      <4>1. s <= CurrentSlot(cb)
        BY <2>1
      <4> HIDE DEF s
      <4>2. Slot(StartTime(cb)) <= Slot(cb.current_time)
        BY <3>1, <3>2, <4>1
      <4> QED
        <5> DEFINE u == StartTime(cb)  v == cb.current_time
        <5>1. u \in Nat /\ v \in Nat /\ Slot(u) <= Slot(v) /\ Slot(u) \in Window(cb)
              /\ Slot(v) \in Window(cb)
          BY <2>1, <3>1, <3>2, <3>3, <4>2
        <5>2. Slot(u) = s /\ Slot(v) = CurrentSlot(cb)
          BY <3>1, <3>2
        <5> HIDE DEF u, v
        <5>3. GetRange(c, u, v) = [i \in 1 .. Slot(v) - Slot(u) + 1 |->
                                     cb.values[(Slot(u) + i - 1) % rows][c]]
          BY <2>1, <5>1, RangeFacts
        <5>4. GetRange(c, u, v)
              = [i \in 1 .. CurrentSlot(cb) - s + 1 |-> cb.values[(s + i - 1) % rows][c]]
          BY <5>2, <5>3
        <5> QED
          BY <5>4 DEF u, v
    <3>5. CurrentSlot(cb) - s + 1 = rows
      BY <2>1
    <3>6. \A i \in 1 .. rows : Visited(cb, i) = (s + i - 1) % rows
      <4>1. \A i \in 1 .. rows : CurrentSlot(cb) - rows + i = s + i - 1
        BY <2>1
      <4> QED
        BY <2>1, <4>1, VisitedFacts
    <3> HIDE DEF s
    <3> QED
      BY <3>4, <3>5, <3>6 DEF OutputRows
  <2>3. ASSUME NEW start \in Times, NEW end \in Times, start <= end,
               Slot(start) \in Window(cb), Slot(end) \in Window(cb)
        PROVE  /\ Len(GetRange(c, start, end)) = Slot(end) - Slot(start) + 1
               /\ \A i \in 1 .. Len(GetRange(c, start, end)) :
                    GetRange(c, start, end)[i] = Get(c, start + (i - 1) * seconds_per_row)
    <3> DEFINE s == Slot(start)  n == Slot(end) - s + 1
    <3>1. start \in Nat /\ end \in Nat /\ seconds_per_row \in Nat \ {0}
      BY BoundsAssumption, DimensionsAssumption DEF Times
    <3>2. s \in Nat /\ Slot(end) \in Nat /\ s <= Slot(end)
      BY <2>3, <3>1, SlotFacts, DivMonotone DEF Slot
    <3>3. GetRange(c, start, end) = [i \in 1 .. n |-> cb.values[(s + i - 1) % rows][c]]
      BY <2>1, <2>3, <3>1, <3>2, RangeFacts
    <3>4. n \in Nat
      BY <3>2
    <3>5. Len(GetRange(c, start, end)) = n
      <4> HIDE DEF n, s
      <4> QED
        BY <3>3, <3>4
    <3>6. ASSUME NEW i \in 1 .. n PROVE Get(c,
                 start + (i - 1) * seconds_per_row) = cb.values[(s + i - 1) % rows][c]
      <4> DEFINE t == start + (i - 1) * seconds_per_row
      <4>1. i - 1 \in Nat
        BY <3>4
      <4>2. t \in Nat
        BY <3>1, <4>1
      <4>3. Slot(t) = s + (i - 1)
        BY <3>1, <4>1, DivAdd DEF Slot
      <4>4. Slot(t) \in Window(cb)
        <5>1. CurrentSlot(cb) - rows < s /\ Slot(end) <= CurrentSlot(cb)
          BY <2>1, <2>3, WindowFacts
        <5> QED
          BY <2>1, <3>2, <4>1, <4>3, <5>1, WindowFacts
      <4>5. InBuffer(cb, t)
        BY <2>1, <4>2, <4>4, WindowFacts
      <4>6. s + (i - 1) = s + i - 1
        BY <3>2
      <4> QED
        BY <4>3, <4>5, <4>6 DEF Get, RowOf
    <3> HIDE DEF n, s
    <3> QED
      BY <3>3, <3>5, <3>6 DEF n, s
  <2> QED
    BY <2>2, <2>3
<1> QED
  BY InitIInv, Inductive, <1>1, PTL DEF Spec

-----------------------------------------------------------------------------
(* The refinement.                                                         *)

\* The cells a buffer shows.
Visible(b) == [s \in Slots |-> [c \in Columns |->
               IF s \in Window(b) THEN b.values[s % rows][c] ELSE NAN]]

\* What get returns is what the buffer has for the slots of the window.
LEMMA ShownIsVisible ==
  ASSUME Ring(cb)
  PROVE  Shown = Visible(cb)
<1> SUFFICES ASSUME NEW s \in Slots, NEW c \in Columns
             PROVE  (IF Get(c, TimeOfSlot(s)) = NIL THEN NAN ELSE Get(c, TimeOfSlot(s)))
                      = IF s \in Window(cb) THEN cb.values[s % rows][c] ELSE NAN
  BY DEF Visible, Shown
<1>1. s \in Nat /\ TimeOfSlot(s) \in Nat /\ Slot(TimeOfSlot(s)) = s
      /\ RowOf(TimeOfSlot(s)) = s % rows
  BY WindowFacts, SlotOfTime
<1>2. InBuffer(cb, TimeOfSlot(s)) <=> s \in Window(cb)
  BY <1>1, WindowFacts
<1>3. CASE s \in Window(cb)
  <2>1. cb.values[s % rows][c] \in Cells
    BY <1>3, RowTypes
  <2>2. cb.values[s % rows][c] # NIL
    BY <2>1, NANAssumption, BoundsAssumption DEF Cells
  <2> QED
    BY <1>1, <1>2, <1>3, <2>2 DEF Get
<1>4. CASE s \notin Window(cb)
  BY <1>2, <1>4 DEF Get
<1> QED
  BY <1>3, <1>4

\* Two slots of the window do not share a row.
LEMMA DistinctRows ==
  ASSUME NEW b, Ring(b), NEW s \in Window(b), NEW u \in Window(b), s % rows = u % rows
  PROVE  s = u
<1>1. /\ s \in Nat /\ u \in Nat /\ CurrentSlot(b) \in Nat /\ rows \in Nat
      /\ CurrentSlot(b) - rows < s /\ s <= CurrentSlot(b)
      /\ CurrentSlot(b) - rows < u /\ u <= CurrentSlot(b)
  BY WindowFacts, RingFacts
<1>2. ~ (s < u)
  BY <1>1, RowsApart
<1>3. ~ (u < s)
  BY <1>1, RowsApart
<1> QED
  BY <1>1, <1>2, <1>3

\* The window moves to its new end, and keeps the slots it had before.
LEMMA MovedShows ==
  ASSUME Ring(cb), NEW t \in Times
  PROVE  Visible(Advanced(cb, t)) =
           [s \in Slots |-> IF s \in Window(Advanced(cb, t)) THEN Visible(cb)[s]
                            ELSE [c \in Columns |-> NAN]]
<1> DEFINE b == Advanced(cb, t)
<1>1. Ring(b) /\ CurrentSlot(b) \in Nat /\ CurrentSlot(cb) \in Nat /\ rows \in Nat
  BY AdvancedFacts, RingFacts
<1>2. ASSUME NEW s \in Slots, s \in Window(b), NEW c \in Columns
      PROVE  b.values[s % rows][c] = Visible(cb)[s][c]
  <2>1. s \in Nat /\ CurrentSlot(b) - rows < s /\ s <= CurrentSlot(b)
    BY <1>1, <1>2, WindowFacts
  <2>2. CurrentSlot(cb) <= CurrentSlot(b)
    <3>1. t \in Nat
      BY BoundsAssumption DEF Times
    <3> QED
      BY <1>1, <3>1, AdvancedFacts, SlotFacts
  <2>3. CASE s <= CurrentSlot(cb)
    <3>1. s \in Window(cb)
      BY <1>1, <2>1, <2>2, <2>3, WindowFacts
    <3>2. b.values[s % rows] = cb.values[s % rows]
      BY <2>1, <2>3, AdvancedFacts
    <3> QED
      BY <3>1, <3>2 DEF Visible
  <2>4. CASE ~ (s <= CurrentSlot(cb))
    <3>1. s \notin Window(cb)
      BY <2>4, WindowFacts
    <3>2. b.values[s % rows] = EmptyRow
      BY <2>1, <2>4, AdvancedFacts
    <3> QED
      BY <3>1, <3>2 DEF Visible, EmptyRow
  <2> QED
    BY <2>3, <2>4
<1> HIDE DEF b
<1>3. Visible(b) = [s \in Slots |-> IF s \in Window(b) THEN Visible(cb)[s]
      ELSE [c \in Columns |-> NAN]]
  <2> SUFFICES ASSUME NEW s \in Slots
               PROVE  Visible(b)[s] = IF s \in Window(b) THEN Visible(cb)[s]
                      ELSE [c \in Columns |-> NAN]
    BY DEF Visible
  <2>1. Visible(b)[s] = [c \in Columns |-> IF s \in Window(b) THEN b.values[s % rows][c] ELSE NAN]
    BY DEF Visible
  <2>2. Visible(cb)[s] = [c \in Columns |-> Visible(cb)[s][c]]
    BY DEF Visible
  <2>3. CASE s \in Window(b)
    BY <1>2, <2>1, <2>2, <2>3
  <2>4. CASE s \notin Window(b)
    BY <2>1, <2>4
  <2> QED
    BY <2>3, <2>4
<1> QED
  BY <1>3 DEF b

\* A cell written is the only one that get returns anew.
LEMMA WrittenShows ==
  ASSUME NEW b, Ring(b), NEW t \in Nat, InBuffer(b, t), NEW c \in Columns,
         NEW w, w # b, Updates(b, RowOf(t), c, w), InRange(w)
  PROVE  \E v \in Cells : Visible(w) = [Visible(b) EXCEPT ![Slot(t)][c] = v]
<1> DEFINE row == RowOf(t)  u == Slot(t)
<1>1. /\ row \in Rows /\ b \in Buffers /\ Window(w) = Window(b) /\ row = u % rows
      /\ u \in Window(b) /\ u \in Slots
  BY SlotFacts, WriteRing, WindowFacts DEF Ring, RowOf
<1>2. PICK new \in Int, delta \in Changes : w = Written(b, row, c, new, delta)
  BY DEF Updates
<1>3. \A r \in Rows, d \in Columns :
        w.values[r][d] = IF r = row /\ d = c THEN new ELSE b.values[r][d]
  <2>1. new \in Changes
    BY DEF Changes
  <2> QED
    BY <1>1, <1>2, <2>1, WrittenFacts
<1>4. new \in Cells
  <2>1. w.values[row][c] \in Cells
    BY <1>1 DEF InRange
  <2> QED
    BY <1>1, <1>3, <2>1
<1>5. \A s \in Window(b) : s % rows \in Rows /\ (s % rows = row <=> s = u)
  <2>1. ASSUME NEW s \in Window(b) PROVE s % rows \in Rows
    <3>1. s \in Nat /\ rows \in Nat \ {0}
      BY WindowFacts, DimensionsAssumption
    <3> QED
      BY <3>1, DivMod DEF Rows
  <2>2. ASSUME NEW s \in Window(b) PROVE s % rows = row <=> s = u
    <3>1. s % rows = u % rows => s = u
      BY <1>1, DistinctRows
    <3> QED
      BY <1>1, <3>1
  <2> QED
    BY <2>1, <2>2
<1> HIDE DEF row, u
<1>6. ASSUME NEW s \in Slots, NEW d \in Columns
      PROVE  Visible(w)[s][d] = IF s = u /\ d = c THEN new ELSE Visible(b)[s][d]
  BY <1>1, <1>3, <1>5 DEF Visible
<1>7. Visible(w) = [Visible(b) EXCEPT ![u][c] = new]
  <2>1. ASSUME NEW s \in Slots PROVE Visible(w)[s] = [Visible(b) EXCEPT ![u][c] = new][s]
    <3>1. Visible(w)[s] = [d \in Columns |-> Visible(w)[s][d]]
          /\ Visible(b)[s] = [d \in Columns |-> Visible(b)[s][d]]
      BY DEF Visible
    <3>2. Visible(b) = [x \in Slots |-> Visible(b)[x]]
      BY DEF Visible
    <3>3. [Visible(b) EXCEPT ![u][c] = new][s] = IF s = u
          THEN [Visible(b)[u] EXCEPT ![c] = new] ELSE Visible(b)[s]
      BY <1>1, <3>2
    <3>4. CASE s = u
      BY <1>6, <3>1, <3>3, <3>4
    <3>5. CASE s # u
      BY <1>6, <3>1, <3>3, <3>5
    <3> QED
      BY <3>4, <3>5
  <2>2. Visible(w) = [x \in Slots |-> Visible(w)[x]] /\ Visible(b) = [x \in Slots |-> Visible(b)[x]]
    BY DEF Visible
  <2> QED
    BY <2>1, <2>2
<1> QED
  BY <1>4, <1>7 DEF u

\* A call that moves the window is a step of TimeSeries.
LEMMA MovesRefine ==
  ASSUME Ring(cb), Shown = Visible(cb), NEW t \in Times, Moves(t)
  PROVE  LET top == CurrentSlot(cb')
         IN /\ top \in Slots /\ top >= CurrentSlot(cb)
            /\ \/ Visible(cb') = Series!Moved(top)
               \/ \E s \in (IF top > CurrentSlot(cb) THEN {top} ELSE Series!Window(top)),
                     c \in Columns, v \in Cells :
                    Visible(cb') = [Series!Moved(top) EXCEPT ![s][c] = v]
<1> DEFINE b == Advanced(cb, t)  top == CurrentSlot(cb')
<1>1. /\ Ring(b) /\ Ring(cb') /\ top = CurrentSlot(b) /\ top \in Slots /\ top \in Nat
      /\ CurrentSlot(cb) \in Nat /\ top >= CurrentSlot(cb) /\ t \in Nat
  <2>1. t \in Nat
    BY BoundsAssumption DEF Times
  <2>2. Ring(b) /\ Ring(cb') /\ top = CurrentSlot(b) /\ top >= CurrentSlot(cb)
    BY AdvancedFacts, MovesRing
  <2>3. top \in Slots /\ top \in Nat /\ CurrentSlot(cb) \in Nat
    BY <2>2, RingFacts
  <2> QED
    BY <2>1, <2>2, <2>3
<1>2. Window(b) = Series!Window(top)
  BY <1>1 DEF Window, Series!Window
<1>3. Visible(b) = Series!Moved(top)
  BY <1>2, MovedShows DEF Series!Moved
<1>4. CASE cb' = b
  BY <1>1, <1>3, <1>4
<1>5. CASE cb' # b
  <2>1. PICK c \in Columns : InBuffer(b, t) /\ InRange(cb') /\ Updates(b, RowOf(t), c, cb')
    BY <1>5 DEF Moves
  <2>2. PICK v \in Cells : Visible(cb') = [Visible(b) EXCEPT ![Slot(t)][c] = v]
    BY <1>1, <1>5, <2>1, WrittenShows
  <2>3. Slot(t) \in Series!Window(top)
    BY <1>1, <1>2, <2>1, WindowFacts
  <2>4. top > CurrentSlot(cb) => Slot(t) = top
    BY <1>1, AdvancedFacts
  <2> HIDE DEF b, top
  <2>5. Slot(t) \in (IF top > CurrentSlot(cb) THEN {top} ELSE Series!Window(top))
    BY <2>3, <2>4
  <2>6. Visible(cb') = [Series!Moved(top) EXCEPT ![Slot(t)][c] = v]
    BY <1>3, <2>2
  <2>7. \E s \in (IF top > CurrentSlot(cb) THEN {top} ELSE Series!Window(top)),
           d \in Columns, x \in Cells :
          Visible(cb') = [Series!Moved(top) EXCEPT ![s][d] = x]
    BY <2>5, <2>6
  <2> QED
    BY <1>1, <2>7 DEF top
<1> QED
  BY <1>4, <1>5

\* Every other call leaves what get returns as it is.
LEMMA StepShows ==
  ASSUME IInv, IInv', [Next]_vars
  PROVE  \/ \E t \in Times : Moves(t)
         \/ CurrentSlot(cb') = CurrentSlot(cb) /\ Visible(cb') = Visible(cb)
<1>1. Ring(cb) /\ TypeOK
  BY DEF IInv, TypeOK
<1>2. CASE Add \/ Set \/ Refuse
  BY <1>1, <1>2, MovesCases
<1>3. CASE cb' = cb
  BY <1>3
<1>4. CASE cb'.values = cb.values /\ CurrentSlot(cb') = CurrentSlot(cb) /\ Window(cb') = Window(cb)
  BY <1>4 DEF Visible
<1>5. CASE OutputCbufd
  BY <1>1, <1>4, <1>5, RowTypes, DeltasReplaced DEF OutputCbufd
<1>6. CASE OutputFails
  <2>1. CASE \E written \in 0 .. rows * columns : RowsFail(written)
    <3>1. PICK written \in 0 .. rows * columns : RowsFail(written)
      BY <2>1
    <3>2. written \in Nat
      OBVIOUS
    <3> QED
      BY <1>1, <1>4, <3>1, <3>2, RowsFailType
  <2>2. CASE UNCHANGED <<cb, lost, received>>
    BY <1>3, <2>2
  <2> QED
    BY <1>6, <2>1, <2>2 DEF OutputFails
<1>7. CASE Restart
  BY <1>1, <1>3, <1>7, RestartType
<1>8. CASE SetHeader \/ Annotate \/ OutputCbuf \/ UNCHANGED vars
  BY <1>3, <1>8 DEF SetHeader, Annotate, OutputCbuf, vars
<1> QED
  BY <1>2, <1>5, <1>6, <1>7, <1>8 DEF Next

\* The circular buffer implements the sliding window: rows are cleared and
\* reused exactly when their slot leaves the window, however far it jumps, what
\* enters it is empty, and an output, failed or not, or a restart changes nothing.
THEOREM SeriesImplemented == Spec => ImplementsSeries
<1>1. Init => Series!Init
  <2> SUFFICES ASSUME Init PROVE Series!Init
    OBVIOUS
  <2>1. Ring(cb)
    BY InitIInv DEF IInv, TypeOK
  <2>2. Shown = Visible(cb)
    BY <2>1, ShownIsVisible
  <2>3. \A s \in Window(cb) : s % rows \in Rows
    BY <2>1, RowTypes
  <2>4. Visible(cb) = [s \in Slots |-> [c \in Columns |-> NAN]]
    BY <2>3 DEF Visible, Init, New, EmptyRows, EmptyRow
  <2>5. CurrentSlot(cb) = rows - 1
    <3>1. rows - 1 \in Nat /\ seconds_per_row * (rows - 1) = TimeOfSlot(rows - 1)
      BY DimensionsAssumption DEF TimeOfSlot
    <3> QED
      BY <3>1, SlotOfTime DEF Init, New, CurrentSlot
  <2> QED
    BY <2>2, <2>4, <2>5 DEF Series!Init
<1>2. IInv => Shown = Visible(cb)
  <2> SUFFICES ASSUME IInv PROVE Shown = Visible(cb)
    OBVIOUS
  <2>1. Ring(cb)
    BY DEF IInv, TypeOK
  <2> QED
    BY <2>1, ShownIsVisible
<1>3. IInv /\ IInv' /\ Shown = Visible(cb) /\ (Shown = Visible(cb))' /\ [Next]_vars
        => [Series!Next]_<<CurrentSlot(cb), Shown>>
  <2> SUFFICES ASSUME IInv, IInv', Shown = Visible(cb), Shown' = Visible(cb'), [Next]_vars
               PROVE  [Series!Next]_<<CurrentSlot(cb), Shown>>
    OBVIOUS
  <2>1. CASE \E t \in Times : Moves(t)
    <3>1. PICK t \in Times : Moves(t)
      BY <2>1
    <3>2. Ring(cb)
      BY DEF IInv, TypeOK
    <3>3. Series!Advance(CurrentSlot(cb')) /\ CurrentSlot(cb') \in Slots
      <4> DEFINE top == CurrentSlot(cb')
      <4>1. /\ top \in Slots /\ top >= CurrentSlot(cb)
            /\ \/ Visible(cb') = Series!Moved(top)
               \/ \E s \in (IF top > CurrentSlot(cb) THEN {top} ELSE Series!Window(top)),
                     c \in Columns, v \in Cells :
                    Visible(cb') = [Series!Moved(top) EXCEPT ![s][c] = v]
        BY <3>1, <3>2, MovesRefine
      <4>2. CurrentSlot(cb)' = top
        BY DEF CurrentSlot
      <4> HIDE DEF top
      <4>3. Series!Advance(top) /\ top \in Slots
        BY <4>1, <4>2 DEF Series!Advance
      <4> QED
        BY <4>3 DEF top
    <3> QED
      BY <3>3 DEF Series!Next
  <2>2. CASE CurrentSlot(cb') = CurrentSlot(cb) /\ Visible(cb') = Visible(cb)
    BY <2>2 DEF CurrentSlot
  <2> QED
    BY <2>1, <2>2, StepShows
<1> QED
  BY InitIInv, Inductive, <1>1, <1>2, <1>3, PTL DEF Spec, ImplementsSeries, Series!Spec

-----------------------------------------------------------------------------
(* The cuckoo filter whose entries expire.                                 *)

\* The two buckets of a key.
Pair(k) == {Home[k], Partner[k][Home[k]]}

\* The types of a filter's fields.
Filters == [buckets: [Buckets -> SUBSET Entry], cnt: Int, timet: Int, interval: Intervals,
            lru_interval: -1 .. MAX_INTERVALS - 1]

\* Entries are in a bucket of their key, a key has one, and a bucket is not too full.
Placed(f) == \A b \in Buckets : \A e \in f.buckets[b] : b \in Pair(e.fp)
Unique(f) ==
  \A b1, b2 \in Buckets : \A e1 \in f.buckets[b1], e2 \in f.buckets[b2] :
    e1.fp = e2.fp => b1 = b2 /\ e1 = e2
Bounded(f) == \A b \in Buckets : Cardinality(f.buckets[b]) <= BUCKET_SIZE

Good(f) == f \in Filters /\ Placed(f) /\ Unique(f) /\ Bounded(f)

\* The entries with the buckets they are in.
Places(f) == UNION {{b} \X f.buckets[b] : b \in Buckets}

\* The sizes are natural numbers, and a remainder is an interval.
LEMMA SizeFacts ==
  /\ MAX_INTERVALS \in Nat \ {0} /\ MAX_INTERVALS > 1 /\ MAX_INTERVALS \in Nat
  /\ num_buckets \in Nat /\ BUCKET_SIZE \in Nat
  /\ Intervals \subseteq Nat /\ \A i \in Int : i % MAX_INTERVALS \in Intervals
BY SizeAssumption DEF Intervals

\* The entries of a bucket are finite in number.
LEMMA EntryFinite == IsFiniteSet(Entry) /\ IsFiniteSet(Buckets)
<1>1. IsFiniteSet(Keys) /\ IsFiniteSet(Intervals) /\ IsFiniteSet(Buckets)
  BY HashAssumption, SizeAssumption, FS_Interval DEF Intervals, Buckets
<1>2. IsFiniteSet(Keys \X Intervals)
  BY <1>1, FS_Product
<1> DEFINE h == [x \in Keys \X Intervals |-> [fp |-> x[1], interval |-> x[2]]]
<1>3. h \in Surjection(Keys \X Intervals, Entry)
  <2>1. h \in [Keys \X Intervals -> Entry]
    BY DEF Entry
  <2>2. ASSUME NEW e \in Entry PROVE \E x \in Keys \X Intervals : h[x] = e
    <3>1. <<e.fp, e.interval>> \in Keys \X Intervals /\ e = [fp |-> e.fp, interval |-> e.interval]
      BY DEF Entry
    <3> QED
      BY <3>1
  <2> QED
    BY <2>1, <2>2 DEF Surjection
<1> QED
  BY <1>1, <1>2, <1>3, FS_Surjection

\* The places of a filter are finite in number, and hold what its buckets do.
LEMMA PlacesFinite ==
  ASSUME NEW f \in Filters
  PROVE  /\ IsFiniteSet(Places(f)) /\ Cardinality(Places(f)) \in Nat
         /\ \A b \in Buckets : IsFiniteSet(f.buckets[b]) /\ Cardinality(f.buckets[b]) \in Nat
         /\ Places(f) \subseteq Buckets \X Entry
         /\ \A b \in Buckets, e \in Entry : <<b, e>> \in Places(f) <=> e \in f.buckets[b]
<1>1. f.buckets \in [Buckets -> SUBSET Entry]
  BY DEF Filters
<1>2. \A b \in Buckets : f.buckets[b] \in SUBSET Entry
  BY <1>1
<1>3. Places(f) \subseteq Buckets \X Entry
  BY <1>2 DEF Places
<1>4. IsFiniteSet(Buckets \X Entry)
  BY EntryFinite, FS_Product
<1>5. \A b \in Buckets, e \in Entry : <<b, e>> \in Places(f) <=> e \in f.buckets[b]
  BY <1>2 DEF Places
<1> QED
  BY <1>2, <1>3, <1>4, <1>5, EntryFinite, FS_Subset, FS_CardinalityType

\* One element in place of another.
LEMMA Exchange ==
  ASSUME NEW S, IsFiniteSet(S), NEW x \in S, NEW y, y = x \/ y \notin S
  PROVE  IsFiniteSet((S \ {x}) \cup {y}) /\ Cardinality((S \ {x}) \cup {y}) = Cardinality(S)
<1>1. IsFiniteSet(S \ {x}) /\ Cardinality(S \ {x}) = Cardinality(S) - 1 /\ Cardinality(S) \in Nat
  BY FS_RemoveElement, FS_CardinalityType
<1> DEFINE R == S \ {x}
<1>2. y \notin R
  OBVIOUS
<1> HIDE DEF R
<1>3. IsFiniteSet(R \cup {y}) /\ Cardinality(R \cup {y}) = Cardinality(R) + 1
  <2>1. IsFiniteSet(R)
    BY <1>1 DEF R
  <2> QED
    BY <1>2, <2>1, FS_AddElement
<1>4. Cardinality(R) + 1 = Cardinality(S)
  BY <1>1 DEF R
<1> QED
  BY <1>3, <1>4 DEF R

\* A bucket set: the rest of the filter is as it was.
LEMMA WithBucketFacts ==
  ASSUME NEW f \in Filters, NEW b \in Buckets, NEW S \in SUBSET Entry
  PROVE  LET w == WithBucket(f, b, S)
         IN /\ w \in Filters
            /\ w.cnt = f.cnt /\ w.timet = f.timet /\ w.interval = f.interval
            /\ w.lru_interval = f.lru_interval
            /\ w.buckets[b] = S /\ \A x \in Buckets : x # b => w.buckets[x] = f.buckets[x]
BY DEF Filters, WithBucket

\* An entry takes the place of another: one of the same key or, if its key has
\* none, of any other.
LEMMA SwapFacts ==
  ASSUME NEW f, Good(f), NEW b \in Buckets, NEW out \in f.buckets[b], NEW e \in Entry,
         b \in Pair(e.fp), e.fp = out.fp \/ e.fp \notin KeysIn(f)
  PROVE  LET w == WithBucket(f, b, (f.buckets[b] \ {out}) \cup {e})
         IN /\ Good(w) /\ Cardinality(Places(w)) = Cardinality(Places(f))
            /\ Entries(w) = (Entries(f) \ {out}) \cup {e}
            /\ w.cnt = f.cnt /\ w.timet = f.timet /\ w.interval = f.interval
            /\ w.lru_interval = f.lru_interval
<1> DEFINE S == (f.buckets[b] \ {out}) \cup {e}
<1> DEFINE w == WithBucket(f, b, S)
<1>1. f \in Filters /\ f.buckets \in [Buckets -> SUBSET Entry]
  BY DEF Good, Filters
<1>2. S \in SUBSET Entry
  BY <1>1
<1>3. /\ w \in Filters
      /\ w.cnt = f.cnt /\ w.timet = f.timet /\ w.interval = f.interval
      /\ w.lru_interval = f.lru_interval
      /\ w.buckets[b] = S /\ \A x \in Buckets : x # b => w.buckets[x] = f.buckets[x]
  <2> HIDE DEF S
  <2> QED
    BY <1>1, <1>2, WithBucketFacts
<1> HIDE DEF w
<1>4. \A x \in Buckets : \A d \in f.buckets[x] :
        d \in Entry /\ d \in Entries(f) /\ d.fp \in KeysIn(f)
  BY <1>1 DEF Entries, KeysIn
<1>5. \A x \in Buckets : \A d \in f.buckets[x] : d.fp = e.fp => x = b /\ d = out
  BY <1>4 DEF Good, Unique
<1>6. \A x \in Buckets : \A d \in w.buckets[x] :
        \/ x = b /\ d = e
        \/ d \in f.buckets[x] /\ ~(x = b /\ d = out)
  BY <1>3
<1>7. Placed(w)
  BY <1>6 DEF Good, Placed
<1>8. Unique(w)
  BY <1>5, <1>6 DEF Good, Unique
<1>9. e = out \/ e \notin f.buckets[b]
  BY <1>5
<1>10. Bounded(w)
  <2>1. IsFiniteSet(f.buckets[b]) /\ Cardinality(f.buckets[b]) <= BUCKET_SIZE
    BY <1>1, PlacesFinite DEF Good, Bounded
  <2>2. Cardinality(S) = Cardinality(f.buckets[b])
    BY <1>9, <2>1, Exchange
  <2> HIDE DEF S
  <2> QED
    BY <1>3, <2>1, <2>2 DEF Good, Bounded
<1>11. Cardinality(Places(w)) = Cardinality(Places(f))
  <2>1. Places(w) = (Places(f) \ {<<b, out>>}) \cup {<<b, e>>}
    <3>1. \A x \in Buckets, d \in Entry :
            <<x, d>> \in Places(w) <=> <<x, d>> \in (Places(f) \ {<<b, out>>}) \cup {<<b, e>>}
      BY <1>1, <1>3, <1>9, PlacesFinite
    <3>2. Places(w) \subseteq Buckets \X Entry /\ Places(f) \subseteq Buckets \X Entry
      BY <1>1, <1>3, PlacesFinite
    <3> QED
      BY <3>1, <3>2
  <2>2. <<b, out>> \in Places(f) /\ (<<b, e>> = <<b, out>> \/ <<b, e>> \notin Places(f))
    BY <1>1, <1>4, <1>9, PlacesFinite
  <2>3. IsFiniteSet(Places(f))
    BY <1>1, PlacesFinite
  <2>4. Cardinality((Places(f) \ {<<b, out>>}) \cup {<<b, e>>}) = Cardinality(Places(f))
    BY <2>2, <2>3, Exchange
  <2> QED
    BY <2>1, <2>4
<1>12. Entries(w) = (Entries(f) \ {out}) \cup {e}
  <2>1. ASSUME NEW d \in Entries(w) PROVE d \in (Entries(f) \ {out}) \cup {e}
    <3>1. PICK x \in Buckets : d \in w.buckets[x]
      BY DEF Entries
    <3>2. d # e => d \in f.buckets[x] /\ d # out
      BY <1>6, <3>1 DEF Good, Unique
    <3> QED
      BY <3>2, <1>4
  <2>2. ASSUME NEW d \in Entries(f), d # out PROVE d \in Entries(w)
    <3>1. PICK x \in Buckets : d \in f.buckets[x]
      BY DEF Entries
    <3>2. d \in w.buckets[x]
      BY <1>3, <2>2, <3>1
    <3> QED
      BY <3>2 DEF Entries
  <2>3. e \in Entries(w)
    BY <1>3 DEF Entries
  <2> QED
    BY <2>1, <2>2, <2>3
<1>13. Good(w)
  BY <1>3, <1>7, <1>8, <1>10 DEF Good
<1> QED
  BY <1>3, <1>11, <1>12, <1>13 DEF w

\* An entry of a key that has none is put into one of its buckets.
LEMMA PutFacts ==
  ASSUME NEW f, Good(f), NEW b \in Buckets, NEW e \in Entry,
         b \in Pair(e.fp), e.fp \notin KeysIn(f), HasRoom(f, b)
  PROVE  LET w == Put(f, b, e)
         IN /\ Good(w) /\ Cardinality(Places(w)) = Cardinality(Places(f)) + 1
            /\ Entries(w) = Entries(f) \cup {e}
            /\ w.cnt = f.cnt /\ w.timet = f.timet /\ w.interval = f.interval
            /\ w.lru_interval = f.lru_interval
<1> DEFINE S == f.buckets[b] \cup {e}
<1> DEFINE w == WithBucket(f, b, S)
<1>1. f \in Filters /\ f.buckets \in [Buckets -> SUBSET Entry]
  BY DEF Good, Filters
<1>2. S \in SUBSET Entry
  BY <1>1
<1>3. /\ w \in Filters
      /\ w.cnt = f.cnt /\ w.timet = f.timet /\ w.interval = f.interval
      /\ w.lru_interval = f.lru_interval
      /\ w.buckets[b] = S /\ \A x \in Buckets : x # b => w.buckets[x] = f.buckets[x]
  <2> HIDE DEF S
  <2> QED
    BY <1>1, <1>2, WithBucketFacts
<1>w. Put(f, b, e) = w
  BY DEF Put
<1> HIDE DEF w
<1>4. \A x \in Buckets : \A d \in f.buckets[x] :
        d \in Entry /\ d \in Entries(f) /\ d.fp \in KeysIn(f)
  BY <1>1 DEF Entries, KeysIn
<1>5. \A x \in Buckets : \A d \in f.buckets[x] : d.fp # e.fp
  BY <1>4
<1>6. \A x \in Buckets : \A d \in w.buckets[x] : (x = b /\ d = e) \/ d \in f.buckets[x]
  BY <1>3
<1>7. Placed(w)
  BY <1>6 DEF Good, Placed
<1>8. Unique(w)
  BY <1>5, <1>6 DEF Good, Unique
<1>10. Bounded(w)
  <2>1. IsFiniteSet(f.buckets[b]) /\ Cardinality(f.buckets[b]) < BUCKET_SIZE
        /\ Cardinality(f.buckets[b]) \in Nat
    BY <1>1, PlacesFinite DEF HasRoom
  <2>2. Cardinality(S) <= BUCKET_SIZE
    <3>1. \/ Cardinality(S) = Cardinality(f.buckets[b])
          \/ Cardinality(S) = Cardinality(f.buckets[b]) + 1
      BY <2>1, FS_AddElement
    <3> QED
      BY <2>1, <3>1, SizeFacts
  <2> HIDE DEF S
  <2> QED
    BY <1>3, <2>2 DEF Good, Bounded
<1>11. Cardinality(Places(w)) = Cardinality(Places(f)) + 1
  <2>1. Places(w) = Places(f) \cup {<<b, e>>}
    <3>1. \A x \in Buckets, d \in Entry :
            <<x, d>> \in Places(w) <=> <<x, d>> \in Places(f) \cup {<<b, e>>}
      BY <1>1, <1>3, PlacesFinite
    <3>2. Places(w) \subseteq Buckets \X Entry /\ Places(f) \subseteq Buckets \X Entry
      BY <1>1, <1>3, PlacesFinite
    <3> QED
      BY <3>1, <3>2
  <2>2. <<b, e>> \notin Places(f)
    BY <1>1, <1>5, PlacesFinite
  <2> QED
    BY <1>1, <2>1, <2>2, PlacesFinite, FS_AddElement
<1>12. Entries(w) = Entries(f) \cup {e}
  <2>1. ASSUME NEW d \in Entries(w) PROVE d \in Entries(f) \cup {e}
    <3>1. PICK x \in Buckets : d \in w.buckets[x]
      BY DEF Entries
    <3> QED
      BY <1>4, <1>6, <3>1
  <2>2. ASSUME NEW d \in Entries(f) PROVE d \in Entries(w)
    <3>1. PICK x \in Buckets : d \in f.buckets[x]
      BY DEF Entries
    <3>2. d \in w.buckets[x]
      BY <1>3, <3>1
    <3> QED
      BY <3>2 DEF Entries
  <2>3. e \in Entries(w)
    BY <1>3 DEF Entries
  <2> QED
    BY <2>1, <2>2, <2>3
<1>13. Good(w)
  BY <1>3, <1>7, <1>8, <1>10 DEF Good
<1> QED
  BY <1>w, <1>3, <1>11, <1>12, <1>13

\* bucket_insert_lookup: the entry of the key has the later interval.
LEMMA RefreshFacts ==
  ASSUME NEW f, Good(f), NEW b \in Buckets, NEW i \in Intervals, NEW e \in f.buckets[b]
  PROVE  LET w == Refresh(f, b, e.fp, i)
             m == IF index_r2v(f, i) > index_r2v(f, e.interval)
                  THEN [fp |-> e.fp, interval |-> i] ELSE e
         IN /\ Good(w) /\ Cardinality(Places(w)) = Cardinality(Places(f))
            /\ Entries(w) = (Entries(f) \ {e}) \cup {m}
            /\ w.cnt = f.cnt /\ w.timet = f.timet /\ w.interval = f.interval
            /\ w.lru_interval = f.lru_interval
<1> DEFINE Later(x) == index_r2v(f, i) > index_r2v(f, x.interval)
<1> DEFINE m == IF Later(e) THEN [fp |-> e.fp, interval |-> i] ELSE e
<1> DEFINE S == {IF x.fp = e.fp /\ Later(x) THEN [x EXCEPT !.interval = i] ELSE x
                   : x \in f.buckets[b]}
<1>1. f.buckets[b] \in SUBSET Entry
  BY DEF Good, Filters
<1>2. \A x \in f.buckets[b] : x.fp = e.fp <=> x = e
  BY DEF Good, Unique
<1>3. e \in Entry /\ [e EXCEPT !.interval = i] = [fp |-> e.fp, interval |-> i]
  BY <1>1 DEF Entry
<1>4. m \in Entry /\ m.fp = e.fp
  BY <1>3 DEF Entry
<1>5. Refresh(f, b, e.fp, i) = WithBucket(f, b, S)
  BY DEF Refresh
<1>6. S = (f.buckets[b] \ {e}) \cup {m}
  <2> HIDE DEF Later
  <2> QED
    BY <1>2, <1>3
<1>7. b \in Pair(m.fp)
  BY <1>4 DEF Good, Placed
<1> HIDE DEF S, m
<1>8. Refresh(f, b, e.fp, i) = WithBucket(f, b, (f.buckets[b] \ {e}) \cup {m})
  BY <1>5, <1>6
<1> QED
  BY <1>4, <1>7, <1>8, SwapFacts DEF m

\* A filter with fewer entries.
LEMMA FewerFacts ==
  ASSUME NEW f, Good(f), NEW g \in Filters, \A b \in Buckets : g.buckets[b] \subseteq f.buckets[b]
  PROVE  Good(g)
<1>1. Placed(g) /\ Unique(g)
  BY DEF Good, Placed, Unique
<1>2. Bounded(g)
  <2> SUFFICES ASSUME NEW b \in Buckets PROVE Cardinality(g.buckets[b]) <= BUCKET_SIZE
    BY DEF Bounded
  <2>1. f \in Filters /\ Cardinality(f.buckets[b]) <= BUCKET_SIZE
    BY DEF Good, Bounded
  <2>2. /\ IsFiniteSet(f.buckets[b]) /\ Cardinality(f.buckets[b]) \in Nat
        /\ Cardinality(g.buckets[b]) \in Nat
    BY <2>1, PlacesFinite
  <2>3. Cardinality(g.buckets[b]) <= Cardinality(f.buckets[b])
    BY <2>2, FS_Subset
  <2> QED
    BY <2>1, <2>2, <2>3, SizeFacts
<1> QED
  BY <1>1, <1>2 DEF Good

\* The oldest interval found is one of the intervals.
LEMMA OldestFound ==
  ASSUME NEW f \in Filters
  PROVE  LET found == {index_r2v(f, e.interval) : e \in Entries(f)} \cup {MAX_INTERVALS - 1}
         IN index_v2r(f, Min(found)) \in -1 .. MAX_INTERVALS - 1
<1> DEFINE found == {index_r2v(f, e.interval) : e \in Entries(f)} \cup {MAX_INTERVALS - 1}
<1>1. f.interval \in Nat /\ \A e \in Entries(f) : e.interval \in Nat
  <2>1. f.interval \in Intervals /\ f.buckets \in [Buckets -> SUBSET Entry]
    BY DEF Filters
  <2>2. \A e \in Entries(f) : e \in Entry
    BY <2>1 DEF Entries
  <2>3. \A e \in Entry : e.interval \in Intervals
    BY DEF Entry
  <2> QED
    BY <2>1, <2>2, <2>3, SizeFacts
<1>2. found \subseteq Nat /\ found # {}
  <2>1. \A e \in Entries(f) : index_r2v(f, e.interval) \in Nat
    <3> SUFFICES ASSUME NEW e \in Entries(f) PROVE index_r2v(f, e.interval) \in Nat
      OBVIOUS
    <3>1. e.interval - (f.interval + 1) \in Int
      BY <1>1
    <3> QED
      BY <3>1, SizeFacts DEF index_r2v
  <2> QED
    BY <2>1, SizeFacts
<1> HIDE DEF found
<1>3. PICK x \in found : \A y \in found : x <= y
  BY <1>2, LeastNatural
<1>4. Min(found) \in found
  BY <1>3 DEF Min
<1>5. Min(found) + f.interval + 1 \in Int
  <2>1. Min(found) \in Nat
    BY <1>2, <1>4
  <2> QED
    BY <1>1, <2>1
<1>6. index_v2r(f, Min(found)) \in Intervals
  BY <1>5, SizeFacts DEF index_v2r
<1> QED
  BY <1>6 DEF found, Intervals

\* prune_range: the entries of the intervals are removed, and counted.
LEMMA PruneFacts ==
  ASSUME NEW f, Good(f), f.cnt = Cardinality(Places(f)), NEW start, NEW end
  PROVE  LET w == prune_range(f, start, end)
         IN /\ Good(w) /\ w.cnt = Cardinality(Places(w))
            /\ w.timet = f.timet /\ w.interval = f.interval
            /\ Entries(w) = {e \in Entries(f) : ~InIntervals(e.interval, start, end)}
<1> DEFINE Gone(b) == {e \in f.buckets[b] : InIntervals(e.interval, start, end)}
<1> DEFINE expired == UNION {{b} \X Gone(b) : b \in Buckets}
<1> DEFINE found == {index_r2v(f, e.interval) : e \in Entries(f)} \cup {MAX_INTERVALS - 1}
<1> DEFINE w == prune_range(f, start, end)
<1>1. f \in Filters /\ f.buckets \in [Buckets -> SUBSET Entry] /\ f.cnt \in Int
  BY DEF Good, Filters
<1>2. f = [buckets |-> f.buckets, cnt |-> f.cnt, timet |-> f.timet, interval |-> f.interval,
           lru_interval |-> f.lru_interval]
  BY <1>1 DEF Filters
<1>3. w = [buckets |-> [b \in Buckets |-> f.buckets[b] \ Gone(b)],
           cnt |-> f.cnt - Cardinality(expired), timet |-> f.timet, interval |-> f.interval,
           lru_interval |-> index_v2r(f, Min(found))]
  <2>1. w = [f EXCEPT !.buckets = [b \in Buckets |-> f.buckets[b] \ Gone(b)],
                      !.cnt = f.cnt - Cardinality(expired),
                      !.lru_interval = index_v2r(f, Min(found))]
    BY DEF prune_range
  <2> HIDE DEF w, expired, found, Gone
  <2> QED
    BY <1>2, <2>1
<1>4. /\ expired \subseteq Places(f)
      /\ \A b \in Buckets, e \in Entry : <<b, e>> \in expired <=> e \in Gone(b)
  BY <1>1 DEF Places
<1>5. IsFiniteSet(Places(f)) /\ IsFiniteSet(expired) /\ Cardinality(expired) \in Nat
  BY <1>1, <1>4, PlacesFinite, FS_Subset, FS_CardinalityType
<1>6. w \in Filters
  <2>1. index_v2r(f, Min(found)) \in -1 .. MAX_INTERVALS - 1
    BY <1>1, OldestFound
  <2>2. [b \in Buckets |-> f.buckets[b] \ Gone(b)] \in [Buckets -> SUBSET Entry]
    BY <1>1
  <2>3. f.cnt - Cardinality(expired) \in Int
    BY <1>1, <1>5
  <2> HIDE DEF found, expired, Gone
  <2> QED
    BY <1>1, <1>3, <2>1, <2>2, <2>3 DEF Filters
<1>7. \A b \in Buckets : w.buckets[b] = f.buckets[b] \ Gone(b)
  BY <1>3
<1>8. w.cnt = f.cnt - Cardinality(expired) /\ w.timet = f.timet /\ w.interval = f.interval
  BY <1>3
<1> HIDE DEF w
<1>9. Good(w)
  BY <1>6, <1>7, FewerFacts
<1>10. w.cnt = Cardinality(Places(w))
  <2>1. Places(w) = Places(f) \ expired
    <3> HIDE DEF expired
    <3>1. \A b \in Buckets, e \in Entry :
            <<b, e>> \in Places(w) <=> <<b, e>> \in Places(f) \ expired
      BY <1>1, <1>4, <1>6, <1>7, PlacesFinite
    <3>2. Places(w) \subseteq Buckets \X Entry /\ Places(f) \subseteq Buckets \X Entry
      BY <1>1, <1>6, PlacesFinite
    <3> QED
      BY <3>1, <3>2
  <2> HIDE DEF expired
  <2>2. Cardinality(Places(f) \ expired)
          = Cardinality(Places(f)) - Cardinality(Places(f) \cap expired)
    BY <1>5, FS_Difference
  <2>3. Places(f) \cap expired = expired
    BY <1>4
  <2> QED
    BY <1>8, <2>1, <2>2, <2>3
<1>11. Entries(w) = {e \in Entries(f) : ~InIntervals(e.interval, start, end)}
  BY <1>7 DEF Entries
<1> QED
  BY <1>8, <1>9, <1>10, <1>11 DEF w

\* bucket_delete: the entry of the key is removed, and counted.
LEMMA RemoveFacts ==
  ASSUME NEW f, Good(f), f.cnt = Cardinality(Places(f)), NEW b \in Buckets, NEW k \in Keys,
         Holds(f, b, k)
  PROVE  LET w == Remove(f, b, k)
         IN /\ Good(w) /\ w.cnt = Cardinality(Places(w))
            /\ w.timet = f.timet /\ w.interval = f.interval
            /\ Entries(w) = {e \in Entries(f) : e.fp # k}
<1> DEFINE S == {e \in f.buckets[b] : e.fp # k}
<1> DEFINE v == WithBucket(f, b, S)
<1> DEFINE w == Remove(f, b, k)
<1>1. f \in Filters /\ f.buckets \in [Buckets -> SUBSET Entry] /\ f.cnt \in Int
  BY DEF Good, Filters
<1>2. /\ v \in Filters /\ v.cnt = f.cnt /\ v.timet = f.timet /\ v.interval = f.interval
      /\ v.buckets[b] = S /\ \A x \in Buckets : x # b => v.buckets[x] = f.buckets[x]
  BY <1>1, WithBucketFacts
<1>3. w = [v EXCEPT !.cnt = @ - 1]
  BY DEF Remove
<1> HIDE DEF v, w
<1>4. /\ w \in Filters /\ w.cnt = f.cnt - 1 /\ w.timet = f.timet /\ w.interval = f.interval
      /\ w.buckets = v.buckets
  BY <1>1, <1>2, <1>3 DEF Filters
<1>5. PICK out \in f.buckets[b] : out.fp = k
  BY DEF Holds
<1>6. \A x \in Buckets : \A e \in f.buckets[x] : e.fp = k => x = b /\ e = out
  BY <1>5 DEF Good, Unique
<1>7. S = f.buckets[b] \ {out}
  BY <1>5, <1>6
<1>8. Good(w)
  BY <1>2, <1>4, FewerFacts
<1>9. Places(w) = Places(f) \ {<<b, out>>}
  <2>1. \A x \in Buckets, e \in Entry :
          <<x, e>> \in Places(w) <=> <<x, e>> \in Places(f) \ {<<b, out>>}
    <3> HIDE DEF S
    <3> QED
      BY <1>1, <1>2, <1>4, <1>7, PlacesFinite
  <2>2. Places(w) \subseteq Buckets \X Entry /\ Places(f) \subseteq Buckets \X Entry
    BY <1>1, <1>4, PlacesFinite
  <2> QED
    BY <2>1, <2>2
<1>10. w.cnt = Cardinality(Places(w))
  <2>1. <<b, out>> \in Places(f) /\ IsFiniteSet(Places(f))
    <3>1. out \in Entry
      BY <1>1, <1>5
    <3> QED
      BY <1>1, <1>5, <3>1, PlacesFinite
  <2>2. Cardinality(Places(f) \ {<<b, out>>}) = Cardinality(Places(f)) - 1
    BY <2>1, FS_RemoveElement
  <2> QED
    BY <1>4, <1>9, <2>2
<1>11. Entries(w) = {e \in Entries(f) : e.fp # k}
  <2>1. \A x \in Buckets : w.buckets[x] = {e \in f.buckets[x] : e.fp # k}
    BY <1>2, <1>4, <1>6
  <2> QED
    BY <2>1 DEF Entries
<1> QED
  BY <1>4, <1>8, <1>10, <1>11 DEF w

-----------------------------------------------------------------------------
(* The displacement loop.                                                  *)

\* The other bucket of a key is the other of its pair.
LEMMA PairFacts ==
  ASSUME NEW k \in Keys
  PROVE  /\ Pair(k) \subseteq Buckets /\ Home[k] \in Pair(k) /\ Partner[k][Home[k]] \in Pair(k)
         /\ \A b \in Pair(k) : Partner[k][b] \in Pair(k)
<1>1. Home[k] \in Buckets /\ Partner[k] \in [Buckets -> Buckets]
  BY HashAssumption
<1>2. \A b \in Buckets : Partner[k][b] \in Buckets /\ Partner[k][Partner[k][b]] = b
  BY <1>1, HashAssumption
<1> QED
  BY <1>1, <1>2 DEF Pair

\* What the loop has made of the filter f, into which the entry new goes: the
\* entry to place next has no other of its key in the filter, where there are as
\* many entries as before, or one more in the end.
Loop(s, f, new) ==
  /\ Good(s.cf) /\ s.cf.cnt = f.cnt /\ s.cf.timet = f.timet /\ s.cf.interval = f.interval
  /\ Entries(s.cf) \subseteq Entries(f) \cup {new}
  /\ s.result \in {"full", "added"}
  /\ s.result = "added" => Cardinality(Places(s.cf)) = Cardinality(Places(f)) + 1
  /\ s.result = "full" =>
       /\ Cardinality(Places(s.cf)) = Cardinality(Places(f))
       /\ s.e \in Entry /\ s.e.fp \notin KeysIn(s.cf) /\ s.e \in Entries(f) \cup {new}
       /\ s.ri \in Pair(s.e.fp)

\* A pass of the loop places the entry, or takes another one out for it; it
\* never meets a second entry of the key displaced.
LEMMA KickFacts ==
  ASSUME NEW f, NEW new \in Entry, NEW s, Loop(s, f, new), NEW t \in Kick(s)
  PROVE  Loop(t, f, new)
<1>1. CASE s.result # "full"
  BY <1>1 DEF Kick
<1>2. CASE s.result = "full"
  <2>1. PICK out \in s.cf.buckets[s.ri] :
          LET d  == WithBucket(s.cf, s.ri, (s.cf.buckets[s.ri] \ {out}) \cup {s.e})
              to == Partner[out.fp][s.ri]
          IN \/ Holds(d, to, out.fp)
             \/ HasRoom(d, to) /\ t = [cf |-> Put(d, to, out), ri |-> to, e |-> out,
                                       result |-> "added"]
             \/ t = [cf |-> d, ri |-> to, e |-> out, result |-> "full"]
    BY <1>2 DEF Kick
  <2> DEFINE d  == WithBucket(s.cf, s.ri, (s.cf.buckets[s.ri] \ {out}) \cup {s.e})
             to == Partner[out.fp][s.ri]
  <2>2. /\ Good(s.cf) /\ s.e \in Entry /\ s.e.fp \in Keys /\ s.e.fp \notin KeysIn(s.cf)
        /\ s.e \in Entries(f) \cup {new} /\ s.ri \in Pair(s.e.fp)
        /\ s.ri \in Buckets /\ out \in Entry /\ out.fp \in Keys
        /\ Cardinality(Places(s.cf)) = Cardinality(Places(f))
        /\ s.cf.cnt = f.cnt /\ s.cf.timet = f.timet /\ s.cf.interval = f.interval
        /\ Entries(s.cf) \subseteq Entries(f) \cup {new}
    <3>1. s.e \in Entry /\ s.e.fp \in Keys /\ s.ri \in Pair(s.e.fp)
      BY <1>2 DEF Loop, Entry
    <3>2. s.ri \in Buckets
      BY <3>1, PairFacts
    <3>3. out \in Entry
      BY <3>2 DEF Loop, Good, Filters
    <3>4. out.fp \in Keys
      BY <3>3 DEF Entry
    <3> QED
      BY <1>2, <3>1, <3>2, <3>3, <3>4 DEF Loop
  <2>3. /\ Good(d) /\ Cardinality(Places(d)) = Cardinality(Places(s.cf))
        /\ Entries(d) = (Entries(s.cf) \ {out}) \cup {s.e}
        /\ d.cnt = s.cf.cnt /\ d.timet = s.cf.timet /\ d.interval = s.cf.interval
    BY <2>2, SwapFacts
  <2> HIDE DEF d
  <2>4. out \in Entries(s.cf)
    BY <2>2 DEF Entries
  <2>5. out.fp \notin KeysIn(d)
    <3>1. \A x \in Entries(s.cf) : x.fp = out.fp => x = out
      BY <2>2 DEF Good, Unique, Entries
    <3>2. s.e.fp # out.fp
      BY <2>2, <2>4 DEF KeysIn
    <3> QED
      BY <2>3, <3>1, <3>2 DEF KeysIn
  <2>6. to \in Pair(out.fp) /\ to \in Buckets
    <3>1. s.ri \in Pair(out.fp)
      BY <2>2 DEF Good, Placed
    <3> QED
      BY <2>2, <3>1, PairFacts
  <2> HIDE DEF to
  <2>7. ~Holds(d, to, out.fp)
    BY <2>5, <2>6 DEF Holds, KeysIn, Entries
  <2>8. CASE /\ HasRoom(d, to)
             /\ t = [cf |-> Put(d, to, out), ri |-> to, e |-> out, result |-> "added"]
    <3>1. /\ Good(Put(d, to, out))
          /\ Cardinality(Places(Put(d, to, out))) = Cardinality(Places(d)) + 1
          /\ Entries(Put(d, to, out)) = Entries(d) \cup {out}
          /\ Put(d, to, out).cnt = d.cnt /\ Put(d, to, out).timet = d.timet
          /\ Put(d, to, out).interval = d.interval
      BY <2>2, <2>3, <2>5, <2>6, <2>8, PutFacts
    <3>2. t.cf = Put(d, to, out) /\ t.result = "added"
      BY <2>8
    <3> QED
      BY <2>2, <2>3, <2>4, <3>1, <3>2 DEF Loop
  <2>9. CASE t = [cf |-> d, ri |-> to, e |-> out, result |-> "full"]
    <3>1. t.cf = d /\ t.result = "full" /\ t.ri = to /\ t.e = out
      BY <2>9
    <3> QED
      BY <2>2, <2>3, <2>4, <2>5, <2>6, <3>1 DEF Loop
  <2> QED
    BY <2>1, <2>7, <2>8, <2>9 DEF d, to
<1> QED
  BY <1>1, <1>2

\* The recursive function of the loop exists: the least bound for which it does
\* not would be preceded by one for which it does, and one more pass extends it.
LEMMA LoopExists ==
  ASSUME NEW start
  PROVE  \E h : h = [n \in 0 .. Kicks |-> IF n = 0 THEN start
                                          ELSE UNION {Kick(s) : s \in h[n - 1]}]
<1> DEFINE step(X) == UNION {Kick(s) : s \in X}
<1> DEFINE fits(h, m) == h = [n \in 0 .. m |-> IF n = 0 THEN start ELSE step(h[n - 1])]
<1> DEFINE none == {m \in 0 .. Kicks : ~ \E h : fits(h, m)}
<1> HIDE DEF step
<1>0. Kicks \in Nat
  BY SizeAssumption
<1>1. SUFFICES ASSUME none # {} PROVE FALSE
  <2>1. Kicks \in 0 .. Kicks
    BY <1>0
  <2> QED
    BY <2>1 DEF step
<1>2. PICK m \in none : \A k \in none : m <= k
  <2>1. none \subseteq Nat
    BY <1>0
  <2> HIDE DEF none
  <2> QED
    BY <1>1, <2>1, LeastNatural
<1>3. m \in 0 .. Kicks /\ m \in Nat /\ ~ \E h : fits(h, m)
  BY <1>0, <1>2
<1>4. CASE m = 0
  <2> DEFINE h == [n \in 0 .. m |-> start]
  <2>1. fits(h, m)
    BY <1>4
  <2> QED
    BY <1>3, <2>1
<1>5. CASE m # 0
  <2>1. m - 1 \in 0 .. Kicks /\ m - 1 \in Nat /\ ~(m <= m - 1)
    BY <1>0, <1>3, <1>5
  <2>2. PICK g : fits(g, m - 1)
    <3>1. m - 1 \notin none
      BY <1>2, <2>1
    <3> QED
      BY <2>1, <3>1
  <2> DEFINE h == [n \in 0 .. m |-> IF n = 0 THEN start ELSE step(g[n - 1])]
  <2>3. ASSUME NEW n \in 0 .. m - 1 PROVE h[n] = g[n]
    <3>1. n \in 0 .. m /\ n \in 0 .. m - 1
      BY <1>3, <2>1, <2>3
    <3>2. g[n] = IF n = 0 THEN start ELSE step(g[n - 1])
      <4>1. g = [i \in 0 .. m - 1 |-> IF i = 0 THEN start ELSE step(g[i - 1])]
        BY <2>2
      <4> QED
        BY <4>1, <3>1
    <3> QED
      BY <3>1, <3>2
  <2>4. h = [n \in 0 .. m |-> IF n = 0 THEN start ELSE step(h[n - 1])]
    <3>1. ASSUME NEW n \in 0 .. m, n # 0 PROVE h[n - 1] = g[n - 1]
      <4>1. n - 1 \in 0 .. m - 1
        BY <1>3, <3>1
      <4> HIDE DEF h
      <4> QED
        BY <2>3, <4>1
    <3> QED
      BY <3>1
  <2>5. fits(h, m)
    BY <2>4
  <2> HIDE DEF h, fits
  <2> QED
    BY <1>3, <2>5
<1> QED
  BY <1>4, <1>5

\* Displacing adds the new entry, or drops one when no pass found a place; all
\* others stay in the filter, as they were.
LEMMA DisplaceFacts ==
  ASSUME NEW f, Good(f), NEW new \in Entry, new.fp \notin KeysIn(f), NEW ri \in Pair(new.fp),
         NEW done \in Displace(f, ri, new)
  PROVE  /\ Good(done.cf) /\ done.cf.cnt = f.cnt /\ done.cf.timet = f.timet
         /\ done.cf.interval = f.interval
         /\ Entries(done.cf) \subseteq Entries(f) \cup {new}
         /\ Cardinality(Places(done.cf)) =
              Cardinality(Places(f)) + (IF done.result = "added" THEN 1 ELSE 0)
<1> DEFINE start == {[cf |-> f, ri |-> ri, e |-> new, result |-> "full"]}
<1> DEFINE fits(h) == h = [n \in 0 .. Kicks |-> IF n = 0 THEN start
                                                ELSE UNION {Kick(s) : s \in h[n - 1]}]
<1> DEFINE g == CHOOSE h : fits(h)
<1>0. Kicks \in Nat
  BY SizeAssumption
<1>1. Displace(f, ri, new) = {Done(s.cf, s.result) : s \in g[Kicks]}
  BY DEF Displace
<1>2. fits(g)
  <2>1. \E h : fits(h)
    <3> HIDE DEF start
    <3> QED
      BY LoopExists
  <2> HIDE DEF fits
  <2> QED
    BY <2>1
<1> HIDE DEF g
<1>3. g[0] = start /\ \A n \in 1 .. Kicks : g[n] = UNION {Kick(s) : s \in g[n - 1]}
  <2> HIDE DEF start
  <2>1. g = [n \in 0 .. Kicks |-> IF n = 0 THEN start ELSE UNION {Kick(s) : s \in g[n - 1]}]
    BY <1>2
  <2>2. 0 \in 0 .. Kicks /\ \A n \in 1 .. Kicks : n \in 0 .. Kicks /\ n # 0
    BY <1>0
  <2> QED
    BY <2>1, <2>2
<1>4. \A s \in g[0] : Loop(s, f, new)
  <2>1. \A s \in g[0] : s.cf = f /\ s.ri = ri /\ s.e = new /\ s.result = "full"
    BY <1>3
  <2> QED
    BY <2>1 DEF Loop
<1>5. \A n \in 0 .. Kicks : \A s \in g[n] : Loop(s, f, new)
  <2> DEFINE bad == {n \in 0 .. Kicks : ~ \A s \in g[n] : Loop(s, f, new)}
  <2> SUFFICES ASSUME bad # {} PROVE FALSE
    OBVIOUS
  <2>1. PICK n \in bad : \A k \in bad : n <= k
    <3>1. bad \subseteq Nat
      BY <1>0
    <3> HIDE DEF bad
    <3> QED
      BY <3>1, LeastNatural
  <2>2. n \in 1 .. Kicks /\ n - 1 \in 0 .. Kicks /\ ~(n <= n - 1)
    BY <1>0, <1>4, <2>1
  <2>3. \A s \in g[n - 1] : Loop(s, f, new)
    BY <2>1, <2>2
  <2>4. ASSUME NEW t \in g[n] PROVE Loop(t, f, new)
    <3>1. PICK s \in g[n - 1] : t \in Kick(s)
      BY <1>3, <2>2, <2>4
    <3> QED
      BY <2>3, <3>1, KickFacts
  <2> QED
    BY <2>1, <2>4
<1>6. PICK s \in g[Kicks] : done = Done(s.cf, s.result)
  BY <1>1
<1>7. Loop(s, f, new)
  <2>1. Kicks \in 0 .. Kicks
    BY <1>0
  <2> QED
    BY <1>5, <1>6, <2>1
<1>8. done.cf = s.cf /\ done.result = s.result
  BY <1>6 DEF Done
<1>9. Cardinality(Places(f)) \in Nat
  BY PlacesFinite DEF Good
<1> QED
  BY <1>7, <1>8, <1>9 DEF Loop

-----------------------------------------------------------------------------
(* The operations on a filter.                                             *)

\* A filter with its count set.
LEMMA CountedFacts ==
  ASSUME NEW done, Good(done.cf)
  PROVE  LET w == Counted(done)
         IN /\ Good(w) /\ Places(w) = Places(done.cf) /\ Entries(w) = Entries(done.cf)
            /\ w.timet = done.cf.timet /\ w.interval = done.cf.interval
            /\ w.cnt = done.cf.cnt + (IF done.result = "added" THEN 1 ELSE 0)
<1> DEFINE w == Counted(done)
<1>1. done.cf \in Filters
  BY DEF Good
<1>2. /\ w \in Filters /\ w.buckets = done.cf.buckets
      /\ w.timet = done.cf.timet /\ w.interval = done.cf.interval
      /\ w.cnt = done.cf.cnt + (IF done.result = "added" THEN 1 ELSE 0)
  <2>1. CASE done.result = "added"
    BY <1>1, <2>1 DEF Counted, Filters
  <2>2. CASE done.result # "added"
    <3>1. w = done.cf /\ done.cf.cnt \in Int
      BY <1>1, <2>2 DEF Counted, Filters
    <3> QED
      BY <1>1, <2>2, <3>1
  <2> QED
    BY <2>1, <2>2
<1> HIDE DEF w
<1>3. Good(w)
  BY <1>2, FewerFacts
<1> QED
  BY <1>2, <1>3 DEF w, Places, Entries

\* bucket_insert moves the interval of the key's entry forward, or gives a key
\* that has none an entry, for which another one may be lost; the count is right.
LEMMA InsertFacts ==
  ASSUME NEW f, Good(f), f.cnt = Cardinality(Places(f)), NEW k \in Keys, NEW i \in Intervals,
         NEW done \in bucket_insert(f, k, i)
  PROVE  LET w == Counted(done)
         IN /\ Good(w) /\ w.cnt = Cardinality(Places(w))
            /\ w.timet = f.timet /\ w.interval = f.interval
            /\ \/ \E e \in Entries(f) :
                    /\ e.fp = k
                    /\ Entries(w) = (Entries(f) \ {e}) \cup
                         {IF index_r2v(f, i) > index_r2v(f, e.interval)
                          THEN [fp |-> k, interval |-> i] ELSE e}
               \/ /\ k \notin KeysIn(f)
                  /\ Entries(w) \subseteq Entries(f) \cup {[fp |-> k, interval |-> i]}
<1> DEFINE i1 == Home[k]
           i2 == Partner[k][i1]
           new == [fp |-> k, interval |-> i]
<1>1. i1 \in Pair(k) /\ i2 \in Pair(k) /\ i1 \in Buckets /\ i2 \in Buckets /\ new \in Entry
  BY PairFacts DEF Entry
<1>2. f \in Filters /\ f.cnt \in Int /\ Cardinality(Places(f)) \in Nat /\ new.fp = k
  BY PlacesFinite DEF Good, Filters
<1>3. ASSUME NEW b \in Buckets, Holds(f, b, k), done = Done(Refresh(f, b, k, i), "duplicate")
      PROVE  /\ Good(done.cf) /\ done.cf.cnt = f.cnt /\ done.result # "added"
             /\ done.cf.timet = f.timet /\ done.cf.interval = f.interval
             /\ Cardinality(Places(done.cf)) = Cardinality(Places(f))
             /\ \E e \in Entries(f) :
                  /\ e.fp = k
                  /\ Entries(done.cf) = (Entries(f) \ {e}) \cup
                       {IF index_r2v(f, i) > index_r2v(f, e.interval)
                        THEN [fp |-> k, interval |-> i] ELSE e}
  <2>1. PICK e \in f.buckets[b] : e.fp = k
    BY <1>3 DEF Holds
  <2>2. e \in Entries(f)
    BY <2>1 DEF Entries
  <2>3. done.cf = Refresh(f, b, e.fp, i) /\ done.result = "duplicate"
    BY <1>3, <2>1 DEF Done
  <2> QED
    BY <2>1, <2>2, <2>3, RefreshFacts
<1>4. ASSUME ~Holds(f, i1, k), ~Holds(f, i2, k)
      PROVE  k \notin KeysIn(f)
  <2>1. \A b \in Buckets : \A e \in f.buckets[b] : e.fp = k => b = i1 \/ b = i2
    BY DEF Good, Placed, Pair
  <2> HIDE DEF i1, i2
  <2> QED
    BY <1>4, <2>1 DEF Holds, KeysIn, Entries
<1>5. ASSUME NEW b \in Pair(k), k \notin KeysIn(f), HasRoom(f, b),
             done = Done(Put(f, b, new), "added")
      PROVE  /\ Good(done.cf) /\ done.cf.cnt = f.cnt /\ done.result = "added"
             /\ done.cf.timet = f.timet /\ done.cf.interval = f.interval
             /\ Cardinality(Places(done.cf)) = Cardinality(Places(f)) + 1
             /\ Entries(done.cf) = Entries(f) \cup {new}
  <2>1. done.cf = Put(f, b, new) /\ done.result = "added" /\ b \in Buckets
    BY <1>5, PairFacts DEF Done
  <2> HIDE DEF new
  <2> QED
    BY <1>1, <1>2, <1>5, <2>1, PutFacts
<1>6. ASSUME NEW b \in Pair(k), k \notin KeysIn(f), done \in Displace(f, b, new)
      PROVE  /\ Good(done.cf) /\ done.cf.cnt = f.cnt
             /\ done.cf.timet = f.timet /\ done.cf.interval = f.interval
             /\ Cardinality(Places(done.cf)) =
                  Cardinality(Places(f)) + (IF done.result = "added" THEN 1 ELSE 0)
             /\ Entries(done.cf) \subseteq Entries(f) \cup {new}
  <2> HIDE DEF new
  <2> QED
    BY <1>1, <1>2, <1>6, DisplaceFacts
<1>7. \/ Holds(f, i1, k) /\ done = Done(Refresh(f, i1, k, i), "duplicate")
      \/ Holds(f, i2, k) /\ done = Done(Refresh(f, i2, k, i), "duplicate")
      \/ /\ k \notin KeysIn(f)
         /\ \E b \in Pair(k) : \/ HasRoom(f, b) /\ done = Done(Put(f, b, new), "added")
                               \/ done \in Displace(f, b, new)
  <2>1. CASE Holds(f, i1, k) \/ Holds(f, i2, k)
    BY <2>1 DEF bucket_insert
  <2>2. CASE ~Holds(f, i1, k) /\ ~Holds(f, i2, k)
    <3>1. done \in IF HasRoom(f, i1) THEN {Done(Put(f, i1, new), "added")}
                   ELSE IF HasRoom(f, i2) THEN {Done(Put(f, i2, new), "added")}
                   ELSE UNION {Displace(f, ri, new) : ri \in {i1, i2}}
      BY <2>2 DEF bucket_insert
    <3> HIDE DEF i1, i2, new
    <3> QED
      BY <1>1, <1>4, <2>2, <3>1
  <2> QED
    BY <2>1, <2>2
<1> HIDE DEF i1, i2
<1>8. /\ Good(done.cf) /\ done.cf.cnt = f.cnt
      /\ done.cf.timet = f.timet /\ done.cf.interval = f.interval
      /\ Cardinality(Places(done.cf)) =
           Cardinality(Places(f)) + (IF done.result = "added" THEN 1 ELSE 0)
      /\ \/ \E e \in Entries(f) :
              /\ e.fp = k
              /\ Entries(done.cf) = (Entries(f) \ {e}) \cup
                   {IF index_r2v(f, i) > index_r2v(f, e.interval)
                    THEN [fp |-> k, interval |-> i] ELSE e}
         \/ k \notin KeysIn(f) /\ Entries(done.cf) \subseteq Entries(f) \cup {new}
  <2>1. CASE Holds(f, i1, k) /\ done = Done(Refresh(f, i1, k, i), "duplicate")
    BY <1>1, <1>2, <1>3, <2>1
  <2>2. CASE Holds(f, i2, k) /\ done = Done(Refresh(f, i2, k, i), "duplicate")
    BY <1>1, <1>2, <1>3, <2>2
  <2>3. CASE /\ k \notin KeysIn(f)
             /\ \E b \in Pair(k) : \/ HasRoom(f, b) /\ done = Done(Put(f, b, new), "added")
                                   \/ done \in Displace(f, b, new)
    <3> HIDE DEF new
    <3> QED
      BY <1>5, <1>6, <2>3
  <2> QED
    BY <1>7, <2>1, <2>2, <2>3
<1> HIDE DEF new
<1>9. LET w == Counted(done)
      IN /\ Good(w) /\ Places(w) = Places(done.cf) /\ Entries(w) = Entries(done.cf)
         /\ w.timet = done.cf.timet /\ w.interval = done.cf.interval
         /\ w.cnt = done.cf.cnt + (IF done.result = "added" THEN 1 ELSE 0)
  BY <1>8, CountedFacts
<1> QED
  BY <1>8, <1>9 DEF new

\* ExpireByTime removes the entries of the intervals the time moves over.
LEMMA TimeFacts ==
  ASSUME NEW f, Good(f), f.cnt = Cardinality(Places(f)), NEW t \in Int
  PROVE  LET w == ExpireByTime(f, t)
             moves == f.interval # t % MAX_INTERVALS /\ t > f.timet
             oldest == (f.interval + 1) % MAX_INTERVALS
         IN /\ Good(w) /\ w.cnt = Cardinality(Places(w))
            /\ ~moves => w = f
            /\ moves => /\ w.timet = t /\ w.interval = t % MAX_INTERVALS
                        /\ Entries(w) = {e \in Entries(f) :
                                           ~InIntervals(e.interval, oldest, t % MAX_INTERVALS)}
<1> DEFINE w == ExpireByTime(f, t)
           moves == f.interval # t % MAX_INTERVALS /\ t > f.timet
           oldest == (f.interval + 1) % MAX_INTERVALS
           pruned == IF f.cnt > 0 THEN prune_range(f, oldest, t % MAX_INTERVALS) ELSE f
<1>1. CASE ~moves
  BY <1>1 DEF ExpireByTime
<1>2. CASE moves
  <2>1. w = [pruned EXCEPT !.interval = t % MAX_INTERVALS, !.timet = t]
    BY <1>2 DEF ExpireByTime
  <2>2. f \in Filters /\ f.cnt \in Nat
    BY PlacesFinite DEF Good
  <2>3. /\ Good(pruned) /\ pruned.cnt = Cardinality(Places(pruned))
        /\ Entries(pruned) = {e \in Entries(f) :
                                ~InIntervals(e.interval, oldest, t % MAX_INTERVALS)}
    <3>1. CASE f.cnt > 0
      <4> HIDE DEF oldest
      <4> QED
        BY <3>1, PruneFacts
    <3>2. CASE ~(f.cnt > 0)
      <4>1. Cardinality(Places(f)) = 0 /\ IsFiniteSet(Places(f))
        BY <2>2, <3>2, PlacesFinite
      <4>2. Places(f) = {}
        BY <4>1, FS_EmptySet
      <4>3. \A b \in Buckets : f.buckets[b] = {}
        <5>1. f \in Filters
          BY DEF Good
        <5>2. \A b \in Buckets, e \in Entry : <<b, e>> \in Places(f) <=> e \in f.buckets[b]
          BY <5>1, PlacesFinite DEF Good
        <5>3. \A b \in Buckets : f.buckets[b] \subseteq Entry
          BY <5>1 DEF Filters
        <5> QED
          BY <4>2, <5>2, <5>3
      <4>4. Entries(f) = {}
        BY <4>3 DEF Entries
      <4> QED
        BY <3>2, <4>4
    <3> QED
      BY <3>1, <3>2
  <2> HIDE DEF pruned
  <2>4. pruned \in Filters
    BY <2>3 DEF Good
  <2>5. pruned = [buckets |-> pruned.buckets, cnt |-> pruned.cnt, timet |-> pruned.timet,
                  interval |-> pruned.interval, lru_interval |-> pruned.lru_interval]
    BY <2>4 DEF Filters
  <2>6. w = [buckets |-> pruned.buckets, cnt |-> pruned.cnt, timet |-> t,
             interval |-> t % MAX_INTERVALS, lru_interval |-> pruned.lru_interval]
    BY <2>1, <2>5
  <2>7. w \in Filters
    <3>1. t % MAX_INTERVALS \in Intervals
      BY SizeFacts
    <3> QED
      BY <2>4, <2>6, <3>1 DEF Filters
  <2>8. /\ w.buckets = pruned.buckets /\ w.cnt = pruned.cnt /\ w.timet = t
        /\ w.interval = t % MAX_INTERVALS
    BY <2>6
  <2> HIDE DEF w
  <2>9. Good(w)
    BY <2>3, <2>7, <2>8, FewerFacts
  <2>10. Places(w) = Places(pruned) /\ Entries(w) = Entries(pruned)
    BY <2>8 DEF Places, Entries
  <2> QED
    BY <1>2, <2>3, <2>8, <2>9, <2>10 DEF w
<1> QED
  BY <1>1, <1>2

\* ExpireByCapacity removes entries, or none.
LEMMA CapacityFacts ==
  ASSUME NEW f, Good(f), f.cnt = Cardinality(Places(f))
  PROVE  LET w == ExpireByCapacity(f)
         IN /\ Good(w) /\ w.cnt = Cardinality(Places(w))
            /\ w.timet = f.timet /\ w.interval = f.interval
            /\ Entries(w) \subseteq Entries(f)
<1> DEFINE lru == IF f.lru_interval = -1 THEN (f.interval + 1) % MAX_INTERVALS
                  ELSE f.lru_interval
<1>1. ExpireByCapacity(f) = f \/ ExpireByCapacity(f) = prune_range(f, lru, lru)
  BY DEF ExpireByCapacity
<1> HIDE DEF lru
<1> QED
  BY <1>1, PruneFacts

\* An empty filter.
LEMMA NewFacts ==
  /\ Good(NewFilter) /\ NewFilter.cnt = Cardinality(Places(NewFilter))
  /\ NewFilter.timet = MAX_INTERVALS - 1 /\ NewFilter.interval = MAX_INTERVALS - 1
  /\ Entries(NewFilter) = {}
<1>1. NewFilter \in Filters
  BY SizeFacts DEF NewFilter, Filters, Intervals
<1>2. \A b \in Buckets : NewFilter.buckets[b] = {}
  BY DEF NewFilter
<1>3. Placed(NewFilter) /\ Unique(NewFilter) /\ Bounded(NewFilter)
  <2>1. Placed(NewFilter) /\ Unique(NewFilter)
    BY <1>2 DEF Placed, Unique
  <2>2. Bounded(NewFilter)
    <3>1. Cardinality({}) = 0 /\ 0 <= BUCKET_SIZE
      BY FS_EmptySet, SizeAssumption
    <3> QED
      BY <1>2, <3>1 DEF Bounded
  <2> QED
    BY <2>1, <2>2
<1>4. Places(NewFilter) = {} /\ Entries(NewFilter) = {}
  BY <1>2 DEF Places, Entries
<1> QED
  BY <1>1, <1>3, <1>4, FS_EmptySet DEF Good, NewFilter

-----------------------------------------------------------------------------
(* The filter in every state.                                              *)

\* The filter is in order, and its count right.
FilterOK ==
  /\ Good(cf) /\ cf.cnt = Cardinality(Places(cf))
  /\ last \in [Keys -> Int] /\ newest \in Nat /\ misled \in BOOLEAN /\ restarts \in Nat

\* new() makes an empty filter.
LEMMA InitFilterOK == FilterInit => FilterOK
<1> SUFFICES ASSUME FilterInit PROVE FilterOK
  OBVIOUS
<1>1. misled \in BOOLEAN
  BY DEF FilterInit
<1>2. last \in [Keys -> Int] /\ newest \in Nat /\ restarts \in Nat
  BY SizeFacts DEF FilterInit
<1>3. Good(cf) /\ cf.cnt = Cardinality(Places(cf))
  BY NewFacts DEF FilterInit
<1> QED
  BY <1>1, <1>2, <1>3 DEF FilterOK

\* add keeps the filter in order, whatever expires and is displaced.
LEMMA AddFilterOK ==
  ASSUME FilterOK, NEW k \in Keys, NEW t \in 0 .. LastTime, AddKey(k, t)
  PROVE  FilterOK'
<1> DEFINE f == ExpireByTime(cf, t)
           g == ExpireByCapacity(f)
<1>1. t \in Int /\ t \in Nat /\ t % MAX_INTERVALS \in Intervals
  BY SizeFacts, SizeAssumption
<1>2. Good(f) /\ f.cnt = Cardinality(Places(f))
  BY <1>1, TimeFacts DEF FilterOK
<1>3. Good(g) /\ g.cnt = Cardinality(Places(g))
  <2> HIDE DEF f
  <2> QED
    BY <1>2, CapacityFacts
<1>4. PICK done \in bucket_insert(g, k, t % MAX_INTERVALS) : cf' = Counted(done)
  BY DEF AddKey
<1>5. Good(cf') /\ cf'.cnt = Cardinality(Places(cf'))
  <2> HIDE DEF g
  <2> QED
    BY <1>1, <1>3, <1>4, InsertFacts
<1>6. (Places(cf))' = Places(cf') /\ (Good(cf))' = Good(cf')
  BY DEF Places, Good, Placed, Unique, Bounded
<1>7. newest' \in Nat /\ restarts' \in Nat /\ misled' \in BOOLEAN
  <2>1. newest' \in Nat /\ restarts' \in Nat
    BY <1>1 DEF AddKey, FilterOK
  <2>2. misled' \in BOOLEAN
    BY DEF AddKey
  <2> QED
    BY <2>1, <2>2
<1>8. last' \in [Keys -> Int]
  <2>1. PICK bad : last' = [x \in Keys |->
               LET before == IF x \in KeysIn(f) \ KeysIn(g) THEN -1 ELSE last[x]
                   added  == IF x = k /\ t > before THEN t ELSE before
               IN IF x \in bad \/ added <= newest' - MAX_INTERVALS THEN -1 ELSE added]
    <3>1. last' = LastAdded(f, g, cf', k, t, newest')
      BY DEF AddKey
    <3> HIDE DEF f, g
    <3> QED
      BY <3>1 DEF LastAdded
  <2> HIDE DEF f, g
  <2> QED
    BY <1>1, <2>1 DEF FilterOK
<1> QED
  BY <1>5, <1>6, <1>7, <1>8 DEF FilterOK

\* delete keeps the filter in order: it takes the one entry of the key.
LEMMA DeleteFilterOK ==
  ASSUME FilterOK, NEW k \in Keys, Delete(k)
  PROVE  /\ FilterOK'
         /\ cf'.timet = cf.timet /\ cf'.interval = cf.interval
         /\ Entries(cf') = {e \in Entries(cf) : e.fp # k}
<1> DEFINE i1 == Home[k]
           i2 == Partner[k][i1]
<1>1. i1 \in Buckets /\ i2 \in Buckets
  BY PairFacts
<1>2. /\ Good(cf') /\ cf'.cnt = Cardinality(Places(cf'))
      /\ cf'.timet = cf.timet /\ cf'.interval = cf.interval
      /\ Entries(cf') = {e \in Entries(cf) : e.fp # k}
  <2>1. CASE Holds(cf, i1, k)
    <3>1. cf' = Remove(cf, i1, k)
      BY <2>1 DEF Delete
    <3> HIDE DEF i1, i2
    <3> QED
      BY <1>1, <2>1, <3>1, RemoveFacts DEF FilterOK
  <2>2. CASE ~Holds(cf, i1, k) /\ Holds(cf, i2, k)
    <3>1. cf' = Remove(cf, i2, k)
      BY <2>2 DEF Delete
    <3> HIDE DEF i1, i2
    <3> QED
      BY <1>1, <2>2, <3>1, RemoveFacts DEF FilterOK
  <2>3. CASE ~Holds(cf, i1, k) /\ ~Holds(cf, i2, k)
    <3>1. cf' = cf
      BY <2>3 DEF Delete
    <3>2. \A b \in Buckets : \A e \in cf.buckets[b] : e.fp = k => b = i1 \/ b = i2
      BY DEF FilterOK, Good, Placed, Pair
    <3>3. \A e \in Entries(cf) : e.fp # k
      <4> HIDE DEF i1, i2
      <4> QED
        BY <2>3, <3>2 DEF Holds, Entries
    <3> QED
      BY <3>1, <3>3 DEF FilterOK
  <2> QED
    BY <2>1, <2>2, <2>3
<1>3. (Places(cf))' = Places(cf') /\ (Good(cf))' = Good(cf')
  BY DEF Places, Good, Placed, Unique, Bounded
<1>4. last' \in [Keys -> Int] /\ newest' \in Nat /\ misled' \in BOOLEAN /\ restarts' \in Nat
  BY DEF Delete, FilterOK
<1> QED
  BY <1>2, <1>3, <1>4 DEF FilterOK

\* A restart keeps the entries and their number.
LEMMA RestartFilterOK ==
  ASSUME FilterOK, FilterRestart
  PROVE  FilterOK'
<1>1. cf \in Filters
  BY DEF FilterOK, Good
<1>2. cf' = [buckets |-> cf.buckets, cnt |-> cf.cnt, timet |-> MAX_INTERVALS - 1,
             interval |-> MAX_INTERVALS - 1, lru_interval |-> -1]
  BY DEF FilterRestart, NewFilter
<1>3. cf' \in Filters
  BY <1>1, <1>2, SizeFacts DEF Filters, Intervals
<1>4. cf'.buckets = cf.buckets /\ cf'.cnt = cf.cnt
  BY <1>2
<1>5. Good(cf')
  BY <1>3, <1>4, FewerFacts DEF FilterOK
<1>6. Places(cf') = Places(cf)
  BY <1>4 DEF Places
<1>7. (Places(cf))' = Places(cf') /\ (Good(cf))' = Good(cf')
  BY DEF Places, Good, Placed, Unique, Bounded
<1> QED
  BY <1>4, <1>5, <1>6, <1>7 DEF FilterOK, FilterRestart, remembered

\* clear empties the filter.
LEMMA ClearFilterOK ==
  ASSUME FilterOK, Clear
  PROVE  FilterOK'
<1>1. (Places(cf))' = Places(cf') /\ (Good(cf))' = Good(cf')
  BY DEF Places, Good, Placed, Unique, Bounded
<1>2. misled' \in BOOLEAN
  BY DEF Clear
<1>3. last' \in [Keys -> Int] /\ newest' \in Nat /\ restarts' \in Nat
  BY NewFacts, SizeFacts DEF Clear, FilterOK
<1>4. Good(cf') /\ cf'.cnt = Cardinality(Places(cf'))
  BY NewFacts DEF Clear
<1> QED
  BY <1>1, <1>2, <1>3, <1>4 DEF FilterOK

\* Every operation keeps the filter in order.
LEMMA FilterOKInductive == FilterOK /\ [FilterNext]_filterVars => FilterOK'
<1> SUFFICES ASSUME FilterOK, [FilterNext]_filterVars PROVE FilterOK'
  OBVIOUS
<1>1. CASE \E k \in Keys, t \in 0 .. LastTime : AddKey(k, t)
  BY <1>1, AddFilterOK
<1>2. CASE AddTooOld \/ UNCHANGED filterVars
  BY <1>2 DEF AddTooOld, filterVars, remembered, FilterOK, Good, Placed, Unique, Bounded, Places
<1>3. CASE \E k \in Keys : Delete(k)
  BY <1>3, DeleteFilterOK
<1>4. CASE Clear
  BY <1>4, ClearFilterOK
<1>5. CASE FilterRestart
  BY <1>5, RestartFilterOK
<1> QED
  BY <1>1, <1>2, <1>3, <1>4, <1>5 DEF FilterNext

\* In every state the buckets hold at most BUCKET_SIZE entries each, every entry is
\* in a bucket of its key, no key has two, and cnt is the number of entries: cf_count
\* and the expiry by capacity rely on it.
THEOREM FilterCorrect == FilterSpec => []FilterOK
<1>1. FilterInit => FilterOK
  BY InitFilterOK
<1>2. FilterOK /\ [FilterNext]_filterVars => FilterOK'
  BY FilterOKInductive
<1> QED
  BY <1>1, <1>2, PTL DEF FilterSpec

\* A key has at most one entry, in one of its two buckets, whatever expires, is
\* displaced or is lost to a full filter: cf_delete leaves no copy behind.
THEOREM OncePerKey == FilterSpec => []AtMostOnce
<1>1. FilterOK => AtMostOnce
  BY DEF FilterOK, Good, Placed, Unique, Pair, AtMostOnce
<1> QED
  BY <1>1, FilterCorrect, PTL

-----------------------------------------------------------------------------
(* The window.                                                             *)

\* A time by its distance from the oldest interval of the window, the one after
\* that of the latest time: it lies in that window, or in the next one.
LEMMA Position ==
  ASSUME NEW top \in Nat, NEW x \in Nat, NEW i \in 0 .. MAX_INTERVALS - 1,
         x = top + 1 + i \/ x + MAX_INTERVALS = top + 1 + i
  PROVE  LET m == top % MAX_INTERVALS
             r == (m + 1) % MAX_INTERVALS
         IN /\ m \in 0 .. MAX_INTERVALS - 1 /\ r = IF m + 1 < MAX_INTERVALS THEN m + 1 ELSE 0
            /\ x % MAX_INTERVALS = IF r + i < MAX_INTERVALS THEN r + i ELSE r + i - MAX_INTERVALS
<1> DEFINE M == MAX_INTERVALS
           m == top % M
           r == (m + 1) % M
           xm == x % M
<1>0. M \in Nat \ {0} /\ M > 1
  BY SizeFacts
<1> HIDE DEF M
<1>1. m \in 0 .. M - 1
  BY <1>0, DivMod
<1>2. r = IF m + 1 < M THEN m + 1 ELSE 0
  <2>1. m + 1 \in Int /\ -M < m + 1 /\ m + 1 < 2 * M
    BY <1>0, <1>1
  <2>2. (m + 1) % M = IF m + 1 < 0 THEN m + 1 + M ELSE IF m + 1 < M THEN m + 1 ELSE m + 1 - M
    BY <1>0, <2>1, ModNear
  <2> HIDE DEF m
  <2> QED
    BY <1>0, <1>1, <2>2
<1>3. (top + 1) % M = r
  <2>1. (top + 1) % M = IF m + 1 < M THEN m + 1 ELSE m + 1 - M
    <3>1. 1 \in 0 .. M
      BY <1>0
    <3> QED
      BY <1>0, <3>1, ModStep
  <2> HIDE DEF m, r
  <2> QED
    BY <1>0, <1>1, <1>2, <2>1
<1>4. i \in 0 .. M - 1 /\ (x = top + 1 + i \/ x + M = top + 1 + i)
  BY DEF M
<1>5. (top + 1 + i) % M = IF r + i < M THEN r + i ELSE r + i - M
  <2>1. i \in 0 .. M /\ top + 1 \in Nat
    BY <1>0, <1>4
  <2> HIDE DEF r
  <2> QED
    BY <1>0, <1>3, <2>1, ModStep
<1>6. xm = (top + 1 + i) % M
  <2>1. CASE x + M = top + 1 + i
    <3>1. xm \in 0 .. M - 1
      BY <1>0, DivMod
    <3>2. (x + M) % M = IF xm + M < M THEN xm + M ELSE xm + M - M
      <4>1. M \in 0 .. M
        BY <1>0
      <4> QED
        BY <1>0, <4>1, ModStep
    <3>4. (x + M) % M = xm
      <4> HIDE DEF xm
      <4> QED
        BY <1>0, <3>1, <3>2
    <3> QED
      BY <2>1, <3>4
  <2>2. CASE x = top + 1 + i
    BY <2>2
  <2> QED
    BY <1>4, <2>1, <2>2
<1> QED
  BY <1>1, <1>2, <1>4, <1>5, <1>6 DEF M

\* As the time moves on to t, the intervals it moves over are those of the times
\* that the window leaves behind.
LEMMA ExpiredIntervals ==
  ASSUME NEW top \in Nat, NEW t \in Nat, top < t, t < top + MAX_INTERVALS,
         NEW x \in Nat, top - MAX_INTERVALS < x, x <= top
  PROVE  /\ t % MAX_INTERVALS # top % MAX_INTERVALS
         /\ InIntervals(x % MAX_INTERVALS, ((top % MAX_INTERVALS) + 1) % MAX_INTERVALS,
                        t % MAX_INTERVALS)
              <=> x + MAX_INTERVALS <= t
<1> DEFINE M == MAX_INTERVALS
           m == top % M
           r == (m + 1) % M
           i == x + M - (top + 1)
           j == t - (top + 1)
           xm == x % M
           tm == t % M
<1>0. M \in Nat \ {0} /\ M > 1
  BY SizeFacts
<1>1. /\ m \in 0 .. M - 1 /\ r = IF m + 1 < M THEN m + 1 ELSE 0
      /\ i \in 0 .. M - 1 /\ xm = IF r + i < M THEN r + i ELSE r + i - M
  <2>1. i \in 0 .. M - 1 /\ x + M = top + 1 + i
    BY <1>0
  <2> HIDE DEF i
  <2> QED
    BY <2>1, Position
<1>2. j \in 0 .. M - 2 /\ tm = IF r + j < M THEN r + j ELSE r + j - M
  <2>1. j \in 0 .. M - 2 /\ j \in 0 .. M - 1 /\ t = top + 1 + j
    BY <1>0
  <2> HIDE DEF j
  <2> QED
    BY <2>1, Position
<1>3. InIntervals(xm, r, tm) <=> (IF tm >= r THEN r <= xm /\ xm <= tm ELSE r <= xm \/ xm <= tm)
  BY DEF InIntervals
<1>4. tm # m /\ (InIntervals(xm, r, tm) <=> i <= j)
  <2> HIDE DEF M, m, r, i, j, xm, tm
  <2> QED
    BY <1>0, <1>1, <1>2, <1>3
<1>5. i <= j <=> x + M <= t
  BY <1>0
<1> QED
  BY <1>4, <1>5

\* Virtual indices order the times of the window.
LEMMA VirtualOrder ==
  ASSUME NEW f, NEW top \in Nat, f.interval = top % MAX_INTERVALS,
         NEW x \in Nat, top - MAX_INTERVALS < x, x <= top
  PROVE  index_r2v(f, x % MAX_INTERVALS) = x + MAX_INTERVALS - (top + 1)
<1> DEFINE M == MAX_INTERVALS
           m == top % M
           r == (m + 1) % M
           i == x + M - (top + 1)
           xm == x % M
           d == xm - (m + 1)
<1>0. M \in Nat \ {0} /\ M > 1
  BY SizeFacts
<1>1. /\ m \in 0 .. M - 1 /\ r = IF m + 1 < M THEN m + 1 ELSE 0
      /\ i \in 0 .. M - 1 /\ xm = IF r + i < M THEN r + i ELSE r + i - M
  <2>1. i \in 0 .. M - 1 /\ x + M = top + 1 + i
    BY <1>0
  <2> HIDE DEF i
  <2> QED
    BY <2>1, Position
<1>2. index_r2v(f, xm) = d % M
  BY DEF index_r2v
<1>3. d \in Int /\ (d = i \/ d = i - M)
  <2> HIDE DEF M, m, r, i, xm
  <2> QED
    BY <1>0, <1>1
<1>4. d % M = i
  <2> HIDE DEF M, m, i, xm, d
  <2>1. CASE d = i
    BY <1>0, <1>1, <1>3, <2>1
  <2>2. CASE d = i - M
    BY <1>0, <1>1, <1>3, <2>2
  <2> QED
    BY <1>3, <2>1, <2>2
<1> QED
  BY <1>2, <1>4

\* A key has one entry.
LEMMA OneEntry ==
  ASSUME NEW f, Good(f), NEW e1 \in Entries(f), NEW e2 \in Entries(f), e1.fp = e2.fp
  PROVE  e1 = e2
BY DEF Good, Unique, Entries

\* Every interval is that of one time of the window.
LEMMA IntervalTime ==
  ASSUME NEW top \in Nat, top >= MAX_INTERVALS - 1, NEW i \in Intervals
  PROVE  \E v \in Nat : top - MAX_INTERVALS < v /\ v <= top /\ i = v % MAX_INTERVALS
<1> DEFINE M == MAX_INTERVALS
           q == top \div M
           m == top % M
<1>0. M \in Nat \ {0} /\ M > 1 /\ i \in 0 .. M - 1
  BY SizeFacts DEF Intervals
<1>1. q \in Nat /\ m \in 0 .. M - 1 /\ top = M * q + m
  BY <1>0, DivMod
<1> HIDE DEF M, q, m
<1>2. CASE i <= m
  <2>1. M * q \in Nat /\ M * q + i \in Nat
    BY <1>0, <1>1
  <2>2. (M * q + i) % M = i
    BY <1>0, <1>1, DivUnique
  <2>3. top - M < M * q + i /\ M * q + i <= top
    BY <1>0, <1>1, <1>2, <2>1
  <2> QED
    BY <2>1, <2>2, <2>3 DEF M
<1>3. CASE ~(i <= m)
  <2>1. q # 0
    <3>1. M * 0 = 0
      BY <1>0
    <3> QED
      BY <1>0, <1>1, <1>3, <3>1 DEF M
  <2>2. q - 1 \in Nat
    BY <1>1, <2>1
  <2>3. M * (q - 1) \in Nat /\ M * q = M * (q - 1) + M
    <3>1. \A n \in Nat : M * n \in Nat /\ M * (n + 1) = M * n + M
      BY <1>0
    <3>2. (q - 1) + 1 = q
      BY <1>1
    <3>3. M * (q - 1) \in Nat /\ M * ((q - 1) + 1) = M * (q - 1) + M
      BY <2>2, <3>1
    <3> QED
      BY <3>2, <3>3
  <2>4. (M * (q - 1) + i) % M = i
    BY <1>0, <2>2, DivUnique
  <2> DEFINE p == M * (q - 1)
             mq == M * q
  <2>5. mq = p + M /\ p \in Nat /\ top = mq + m
    BY <1>1, <2>3
  <2>6. (p + i) % M = i
    BY <2>4
  <2> HIDE DEF p, mq
  <2>7. p + i \in Nat /\ top - M < p + i /\ p + i <= top
    BY <1>0, <1>1, <1>3, <2>5
  <2> QED
    BY <2>6, <2>7 DEF M
<1> QED
  BY <1>2, <1>3

\* Two times of the window in the same interval are the same.
LEMMA OneTime ==
  ASSUME NEW top \in Nat, NEW x \in Nat, top - MAX_INTERVALS < x, x <= top,
         NEW y \in Nat, top - MAX_INTERVALS < y, y <= top,
         x % MAX_INTERVALS = y % MAX_INTERVALS
  PROVE  x = y
<1> DEFINE f == [interval |-> top % MAX_INTERVALS]
<1>1. f.interval = top % MAX_INTERVALS
  OBVIOUS
<1> HIDE DEF f
<1>2. index_r2v(f, x % MAX_INTERVALS) = x + MAX_INTERVALS - (top + 1)
  BY <1>1, VirtualOrder
<1>3. index_r2v(f, y % MAX_INTERVALS) = y + MAX_INTERVALS - (top + 1)
  BY <1>1, VirtualOrder
<1>4. x + MAX_INTERVALS - (top + 1) = y + MAX_INTERVALS - (top + 1)
  BY <1>2, <1>3
<1> QED
  BY <1>4, SizeFacts

\* The clock stands in the interval of the newest time, if not always at that time,
\* and what is remembered of each key lies in the window.
Timed ==
  /\ cf.timet <= newest /\ cf.timet \in Int /\ cf.interval = newest % MAX_INTERVALS
  /\ newest >= MAX_INTERVALS - 1
  /\ \A k \in Keys : last[k] = -1 \/ (last[k] > newest - MAX_INTERVALS /\ last[k] <= newest)

\* The time v of the window up to top that an entry stands for: that of the key in
\* times, or a later one if the key is in late.
StandsFor(e, v, top, times, late) ==
  /\ v > top - MAX_INTERVALS /\ v <= top /\ e.interval = v % MAX_INTERVALS
  /\ times[e.fp] <= v
  /\ e.fp \notin late => v = times[e.fp]

\* Every entry of f stands for a time.
Stand(f, top, times, late) ==
  \A e \in Entries(f) : \E v \in Nat : StandsFor(e, v, top, times, late)

\* The filter holds what is remembered, and an entry of every other key it holds
\* outlives its time.
Match ==
  /\ Stand(cf, newest, last, overdue)
  /\ \A k \in Keys : last[k] # -1 => k \in KeysIn(cf)

\* The window, as long as the clock is right.
WindowOK == FilterOK /\ (ClockRight => Timed /\ Match)

\* The latest time when the filter is at newest and is given t, and the keys whose
\* entries in f outlive their time then.
Latest(t) == IF t > newest THEN t ELSE newest
Late(f, t) == IF t >= newest + MAX_INTERVALS THEN KeysIn(f) ELSE overdue

\* What is known of a time that is given to a filter with the right clock.
LEMMA GivenTime ==
  ASSUME FilterOK, Timed, NEW t \in 0 .. LastTime, ~TooOld(t),
         ~(cf.timet < newest /\ t < newest)
  PROVE  /\ MAX_INTERVALS \in Nat /\ MAX_INTERVALS > 1 /\ t \in Nat /\ newest \in Nat
         /\ Latest(t) \in Nat /\ newest <= Latest(t) /\ t <= Latest(t)
         /\ t > Latest(t) - MAX_INTERVALS /\ Latest(t) >= MAX_INTERVALS - 1
         /\ newest >= MAX_INTERVALS - 1
         /\ t <= newest => Latest(t) = newest /\ ExpireByTime(cf, t) = cf
         /\ \A x \in Keys : /\ last[x] \in Int
                            /\ last[x] = -1 \/ last[x] > newest - MAX_INTERVALS
                            /\ last[x] <= newest
<1> DEFINE M == MAX_INTERVALS
           ct == cf.timet
<1>1. M \in Nat /\ M > 1 /\ t \in Nat /\ newest \in Nat
  BY SizeFacts, SizeAssumption DEF FilterOK
<1>2. ct \in Int /\ ct <= newest /\ newest >= M - 1 /\ t >= ct - (M - 1)
  BY <1>1 DEF Timed, TooOld
<1>3. ct = newest \/ t >= newest
  BY <1>1, <1>2
<1>4. \A x \in Keys : last[x] \in Int
  BY DEF FilterOK
<1>5. \A x \in Keys : last[x] = -1 \/ (last[x] > newest - M /\ last[x] <= newest)
  BY DEF Timed
<1>6. t <= newest => ExpireByTime(cf, t) = cf
  <2> SUFFICES ASSUME t <= newest PROVE cf.interval = t % M \/ ~(t > cf.timet)
    BY DEF ExpireByTime
  <2>1. CASE t = newest
    BY <2>1 DEF Timed
  <2>2. CASE t # newest
    <3>1. ~(t > ct)
      BY <1>1, <1>2, <1>3, <2>2
    <3> QED
      BY <3>1
  <2> QED
    BY <2>1, <2>2
<1>7. /\ Latest(t) \in Nat /\ newest <= Latest(t) /\ t <= Latest(t)
      /\ t > Latest(t) - M /\ Latest(t) >= M - 1
      /\ t <= newest => Latest(t) = newest
  <2> HIDE DEF M, ct
  <2> QED
    BY <1>1, <1>2, <1>3 DEF Latest
<1>8. \A x \in Keys : last[x] = -1 \/ last[x] > newest - M
  BY <1>5
<1>9. \A x \in Keys : last[x] <= newest
  BY <1>1, <1>4, <1>5
<1> QED
  BY <1>1, <1>2, <1>4, <1>6, <1>7, <1>8, <1>9

\* Expiry by time moves the window: what is left stands for times in it, and what
\* is not left had none, or the filter had forgotten it.
LEMMA TimeWindow ==
  ASSUME FilterOK, Timed, Match, NEW t \in 0 .. LastTime, ~TooOld(t),
         ~(cf.timet < newest /\ t < newest), NEW f, f = ExpireByTime(cf, t)
  PROVE  /\ Good(f) /\ f.cnt = Cardinality(Places(f))
         /\ f.timet \in Int /\ f.timet <= Latest(t)
         /\ f.interval = Latest(t) % MAX_INTERVALS
         /\ Stand(f, Latest(t), last, Late(f, t))
         /\ \A x \in Keys : x \notin KeysIn(f) => last[x] <= Latest(t) - MAX_INTERVALS \/ last[x] = -1
<1> DEFINE M == MAX_INTERVALS
           top == Latest(t)
<1>0. /\ M \in Nat /\ M > 1 /\ t \in Nat /\ newest \in Nat
      /\ top \in Nat /\ newest <= top /\ t <= top
      /\ t > top - M /\ top >= M - 1 /\ newest >= M - 1
      /\ t <= newest => top = newest /\ f = cf
  BY GivenTime
<1>l. \A x \in Keys : /\ last[x] \in Int
                      /\ last[x] = -1 \/ last[x] > newest - M
                      /\ last[x] <= newest
  BY GivenTime
<1>1. Good(cf) /\ cf.cnt = Cardinality(Places(cf)) /\ cf.interval = newest % M
      /\ cf.timet \in Int /\ cf.timet <= newest
  BY DEF FilterOK, Timed
<1>k. \A e \in Entries(cf) : e.fp \in Keys /\ e.interval \in Intervals
  BY <1>1 DEF Good, Filters, Entries, Entry
<1>2. CASE t <= newest
  <2>1. top = newest /\ f = cf /\ ~(t >= newest + M)
    BY <1>0, <1>2
  <2>2. Stand(f, top, last, Late(f, t))
    BY <2>1 DEF Match, Late
  <2>3. \A x \in Keys : x \notin KeysIn(f) => last[x] = -1
    BY <2>1 DEF Match
  <2> QED
    BY <1>1, <2>1, <2>2, <2>3
<1>3. CASE ~(t <= newest)
  <2>1. top = t /\ newest < t /\ t > cf.timet
    BY <1>0, <1>1, <1>3 DEF Latest
  <2> DEFINE moves == cf.interval # t % M
             oldest == ((newest % M) + 1) % M
  <2>2. /\ Good(f) /\ f.cnt = Cardinality(Places(f))
        /\ ~moves => f = cf
        /\ moves => /\ f.timet = t /\ f.interval = t % M
                    /\ Entries(f) = {e \in Entries(cf) : ~InIntervals(e.interval, oldest, t % M)}
    <3>1. t \in Int /\ cf.interval = newest % M /\ t > cf.timet
      BY <1>0, <1>1, <2>1
    <3>2. /\ Good(f) /\ f.cnt = Cardinality(Places(f))
          /\ ~(cf.interval # t % M /\ t > cf.timet) => f = cf
          /\ cf.interval # t % M /\ t > cf.timet =>
                /\ f.timet = t /\ f.interval = t % M
                /\ Entries(f) = {e \in Entries(cf) :
                                   ~InIntervals(e.interval, (cf.interval + 1) % M, t % M)}
      BY <1>1, <3>1, TimeFacts
    <3>3. (cf.interval + 1) % M = oldest
      BY <3>1
    <3> HIDE DEF M, oldest
    <3> QED
      BY <3>1, <3>2, <3>3
  <2>3. /\ f.timet \in Int /\ f.timet <= top /\ f.interval = top % M
        /\ Entries(f) \subseteq Entries(cf)
    <3>1. CASE moves
      BY <1>0, <2>1, <2>2, <3>1
    <3>2. CASE ~moves
      BY <1>0, <1>1, <2>1, <2>2, <3>2
    <3> QED
      BY <3>1, <3>2
  <2>4. CASE t < newest + M
    <3>1. moves
      <4>1. newest - M < newest
        BY <1>0
      <4> QED
        BY <1>0, <1>1, <2>1, <2>4, <4>1, ExpiredIntervals
    <3>2. Entries(f) = {e \in Entries(cf) : ~InIntervals(e.interval, oldest, t % M)}
      BY <2>2, <3>1
    <3>3. Late(f, t) = overdue
      <4>1. ~(t >= newest + M)
        BY <1>0, <2>4
      <4> QED
        BY <4>1 DEF Late
    <3>4. ASSUME NEW e \in Entries(cf), NEW v \in Nat, StandsFor(e, v, newest, last, overdue)
          PROVE  InIntervals(e.interval, oldest, t % M) <=> v + M <= t
      <4>1. v > newest - M /\ v <= newest /\ e.interval = v % M
        BY <3>4 DEF StandsFor
      <4>2. newest - M < v
        BY <1>0, <4>1
      <4> HIDE DEF oldest
      <4>3. InIntervals(v % M, oldest, t % M) <=> v + M <= t
        BY <1>0, <2>1, <2>4, <4>1, <4>2, ExpiredIntervals DEF oldest
      <4> QED
        BY <4>1, <4>3
    <3>5. ASSUME NEW e \in Entries(f)
          PROVE  \E v \in Nat : StandsFor(e, v, top, last, overdue)
      <4>1. e \in Entries(cf) /\ ~InIntervals(e.interval, oldest, t % M)
        BY <3>2
      <4>2. PICK v \in Nat : StandsFor(e, v, newest, last, overdue)
        BY <4>1 DEF Match, Stand
      <4>3. ~(v + M <= t)
        BY <3>4, <4>1, <4>2
      <4>4. v > top - M /\ v <= top
        <5>1. v <= newest
          BY <4>2 DEF StandsFor
        <5> HIDE DEF top
        <5> QED
          BY <1>0, <2>1, <4>3, <5>1
      <4>5. StandsFor(e, v, top, last, overdue)
        BY <4>2, <4>4 DEF StandsFor
      <4> QED
        BY <4>5
    <3>6. ASSUME NEW x \in Keys, x \notin KeysIn(f)
          PROVE  last[x] <= top - M \/ last[x] = -1
      <4>1. CASE last[x] # -1
        <5>1. PICK e \in Entries(cf) : e.fp = x
          BY <4>1 DEF Match, KeysIn
        <5>2. PICK v \in Nat : StandsFor(e, v, newest, last, overdue)
          BY DEF Match, Stand
        <5>3. v + M <= t
          BY <3>2, <3>4, <3>6, <5>1, <5>2 DEF KeysIn
        <5>4. last[x] <= v /\ last[x] \in Int
          BY <1>l, <5>1, <5>2 DEF StandsFor
        <5> HIDE DEF top
        <5> QED
          BY <1>0, <2>1, <5>3, <5>4
      <4> QED
        BY <4>1
    <3> QED
      BY <2>2, <2>3, <3>3, <3>5, <3>6 DEF Stand
  <2>5. CASE ~(t < newest + M)
    <3>1. Late(f, t) = KeysIn(f) /\ newest <= top - M
      <4>1. t >= newest + M
        BY <1>0, <2>5
      <4> HIDE DEF top
      <4> QED
        BY <1>0, <2>1, <4>1 DEF Late
    <3>2. ASSUME NEW e \in Entries(f)
          PROVE  \E v \in Nat : StandsFor(e, v, top, last, KeysIn(f))
      <4>1. e.fp \in KeysIn(f) /\ e.fp \in Keys /\ e.interval \in Intervals
        BY <1>k, <2>3 DEF KeysIn
      <4>2. PICK v \in Nat : top - M < v /\ v <= top /\ e.interval = v % M
        BY <1>0, <4>1, IntervalTime
      <4>3. v > top - M /\ last[e.fp] <= v
        <5>1. last[e.fp] \in Int /\ last[e.fp] <= newest
          BY <1>l, <4>1
        <5> HIDE DEF top
        <5> QED
          BY <1>0, <3>1, <4>2, <5>1
      <4>4. StandsFor(e, v, top, last, KeysIn(f))
        BY <4>1, <4>2, <4>3 DEF StandsFor
      <4> QED
        BY <4>4
    <3>3. ASSUME NEW x \in Keys PROVE last[x] <= top - M
      <4>1. last[x] \in Int /\ last[x] <= newest
        BY <1>l
      <4> HIDE DEF top
      <4> QED
        BY <1>0, <3>1, <4>1
    <3> QED
      BY <2>2, <2>3, <3>1, <3>2, <3>3 DEF Stand
  <2> QED
    BY <2>4, <2>5
<1> QED
  BY <1>2, <1>3


\* A query finds the entry of a key, if it has one.
LEMMA QueryFacts ==
  ASSUME NEW f, Good(f), NEW k \in Keys
  PROVE  /\ \A e \in Entries(f) : e.fp = k => cf_query(f, k) = {e.interval}
         /\ k \notin KeysIn(f) => cf_query(f, k) = {}
<1> DEFINE i1 == Home[k]
           i2 == Partner[k][i1]
<1>1. i1 \in Buckets /\ i2 \in Buckets
  BY PairFacts
<1>2. cf_query(f, k) = IF Holds(f, i1, k) THEN bucket_lookup(f, i1, k)
                       ELSE bucket_lookup(f, i2, k)
  BY DEF cf_query
<1>3. ASSUME NEW e \in Entries(f), e.fp = k
      PROVE  cf_query(f, k) = {e.interval}
  <2>1. PICK b \in Buckets : e \in f.buckets[b]
    BY DEF Entries
  <2>2. b = i1 \/ b = i2
    BY <1>3, <2>1 DEF Good, Placed, Pair
  <2>3. bucket_lookup(f, b, k) = {e.interval}
    <3>1. \A x \in f.buckets[b] : x.fp = k => x = e
      BY <1>3, <2>1 DEF Good, Unique
    <3> QED
      BY <1>3, <2>1, <3>1 DEF bucket_lookup
  <2>4. b # i1 => ~Holds(f, i1, k)
    BY <1>1, <1>3, <2>1 DEF Good, Unique, Holds
  <2>5. Holds(f, b, k)
    BY <1>3, <2>1 DEF Holds
  <2> HIDE DEF i1, i2
  <2> QED
    BY <1>2, <2>2, <2>3, <2>4, <2>5
<1>4. ASSUME k \notin KeysIn(f)
      PROVE  cf_query(f, k) = {}
  <2>1. \A b \in Buckets : \A x \in f.buckets[b] : x.fp # k
    BY <1>4 DEF KeysIn, Entries
  <2> HIDE DEF i1, i2
  <2>2. bucket_lookup(f, i1, k) = {} /\ bucket_lookup(f, i2, k) = {}
    BY <1>1, <2>1 DEF bucket_lookup
  <2> QED
    BY <1>2, <2>2
<1> QED
  BY <1>3, <1>4

\* Adding a key at a time keeps the filter and what is remembered of the keys in
\* agreement, however far the time jumps, as long as the clock is right.
LEMMA AddWindow ==
  ASSUME FilterOK, Timed, Match, NEW k \in Keys, NEW t \in 0 .. LastTime, AddKey(k, t),
         ~(cf.timet < newest /\ t < newest)
  PROVE  Timed' /\ Match'
<1> DEFINE M == MAX_INTERVALS
           f == ExpireByTime(cf, t)
           g == ExpireByCapacity(f)
           top == Latest(t)
           late == Late(f, t)
           before(x) == IF x \in KeysIn(f) \ KeysIn(g) THEN -1 ELSE last[x]
           added(x) == IF x = k /\ t > before(x) THEN t ELSE before(x)
<1>a. ~TooOld(t)
  BY DEF AddKey
<1>0. /\ M \in Nat /\ M > 1 /\ t \in Nat /\ newest \in Nat
      /\ top \in Nat /\ newest <= top /\ t <= top /\ t > top - M /\ top >= M - 1
  BY <1>a, GivenTime
<1>l. \A x \in Keys : last[x] \in Int /\ last[x] <= top
  <2>1. \A x \in Keys : last[x] \in Int /\ last[x] <= newest
    BY <1>a, GivenTime
  <2> HIDE DEF top
  <2> QED
    BY <1>0, <2>1
<1>1. newest' = top
  BY DEF AddKey, Latest
<1>2. /\ Good(f) /\ f.cnt = Cardinality(Places(f)) /\ f.timet \in Int /\ f.timet <= top
      /\ f.interval = top % M
      /\ Stand(f, top, last, late)
      /\ \A x \in Keys : x \notin KeysIn(f) => last[x] <= top - M \/ last[x] = -1
  BY <1>a, TimeWindow
<1>3. /\ Good(g) /\ g.cnt = Cardinality(Places(g)) /\ g.timet = f.timet /\ g.interval = top % M
      /\ Entries(g) \subseteq Entries(f)
  <2> HIDE DEF f, top
  <2> QED
    BY <1>2, CapacityFacts
<1>4. PICK done \in bucket_insert(g, k, t % M) : cf' = Counted(done)
  BY DEF AddKey
<1>5. last' = [x \in Keys |-> IF x \in (KeysIn(g) \cup {k}) \ KeysIn(cf') \/ added(x) <= top - M
                              THEN -1 ELSE added(x)]
  <2>1. last' = LastAdded(f, g, cf', k, t, newest')
    BY DEF AddKey
  <2> HIDE DEF f, g, top
  <2> QED
    BY <1>1, <2>1 DEF LastAdded
<1>6. /\ Good(cf') /\ cf'.timet = f.timet /\ cf'.interval = top % M
      /\ \/ \E e \in Entries(g) :
              /\ e.fp = k
              /\ Entries(cf') = (Entries(g) \ {e}) \cup
                   {IF index_r2v(g, t % M) > index_r2v(g, e.interval)
                    THEN [fp |-> k, interval |-> t % M] ELSE e}
         \/ /\ k \notin KeysIn(g)
            /\ Entries(cf') \subseteq Entries(g) \cup {[fp |-> k, interval |-> t % M]}
  <2>1. t % M \in Intervals
    BY <1>0, SizeFacts
  <2> HIDE DEF f, g, top
  <2> QED
    BY <1>3, <1>4, <2>1, InsertFacts
<1>7. overdue' = {x \in late \cap KeysIn(cf') : x = k => cf_query(cf', k) # {t % M}}
  <2>1. overdue' = Outlives(f, cf', k, t)
    BY DEF AddKey
  <2> HIDE DEF f
  <2> QED
    BY <2>1 DEF Outlives, Late
<1>8. \A e \in Entries(f) : \E v \in Nat : StandsFor(e, v, top, last, late)
  BY <1>2 DEF Stand
<1> HIDE DEF f, g, late, top
<1>10. Timed'
  <2>1. ASSUME NEW x \in Keys PROVE last'[x] = -1 \/ (last'[x] > top - M /\ last'[x] <= top)
    <3>1. before(x) \in Int /\ before(x) <= top
      <4>1. last[x] \in Int /\ last[x] <= top
        BY <1>l
      <4> QED
        BY <1>0, <4>1
    <3> HIDE DEF before
    <3>2. added(x) \in Int /\ added(x) <= top
      BY <1>0, <3>1
    <3> HIDE DEF added
    <3>3. last'[x] = -1 \/ (~(added(x) <= top - M) /\ last'[x] = added(x))
      BY <1>5
    <3> QED
      BY <1>0, <3>2, <3>3
  <2> QED
    BY <1>0, <1>1, <1>2, <1>6, <2>1 DEF Timed
<1>11. ASSUME NEW e \in Entries(cf')
       PROVE  \E v \in Nat : StandsFor(e, v, top, last', overdue')
  <2>0. e.fp \in Keys /\ e.fp \in KeysIn(cf')
    BY <1>6, <1>11 DEF Good, Filters, Entries, Entry, KeysIn
  <2>1. CASE e.fp # k
    <3>1. e \in Entries(g)
      <4>1. ASSUME NEW e0 \in Entries(g), e0.fp = k,
                   e = IF index_r2v(g, t % M) > index_r2v(g, e0.interval)
                       THEN [fp |-> k, interval |-> t % M] ELSE e0
            PROVE  e.fp = k
        BY <4>1
      <4>2. e = [fp |-> k, interval |-> t % M] => e.fp = k
        OBVIOUS
      <4> QED
        BY <1>6, <2>1, <4>1, <4>2
    <3>2. e.fp \in KeysIn(g) /\ e \in Entries(f)
      BY <1>3, <3>1 DEF KeysIn
    <3>3. PICK v \in Nat : StandsFor(e, v, top, last, late)
      BY <1>8, <3>2
    <3>4. /\ v > top - M /\ v <= top /\ e.interval = v % M /\ last[e.fp] <= v
          /\ e.fp \notin late => v = last[e.fp]
      BY <3>3 DEF StandsFor
    <3>5. added(e.fp) = last[e.fp]
      BY <2>1, <3>2
    <3> HIDE DEF added
    <3>6. last'[e.fp] = IF last[e.fp] <= top - M THEN -1 ELSE last[e.fp]
      BY <1>5, <2>0, <3>5
    <3>7. last'[e.fp] <= v
      BY <1>0, <3>4, <3>6
    <3>8. e.fp \notin overdue' => v = last'[e.fp]
      <4>1. e.fp \notin overdue' => e.fp \notin late
        BY <1>7, <2>0, <2>1
      <4>2. v = last[e.fp] => ~(last[e.fp] <= top - M)
        BY <1>0, <3>4
      <4> QED
        BY <3>4, <3>6, <4>1, <4>2
    <3> QED
      BY <3>4, <3>7, <3>8 DEF StandsFor
  <2>2. CASE e.fp = k /\ k \in KeysIn(g)
    <3>1. PICK e0 \in Entries(g) :
            /\ e0.fp = k
            /\ Entries(cf') = (Entries(g) \ {e0}) \cup
                   {IF index_r2v(g, t % M) > index_r2v(g, e0.interval)
                    THEN [fp |-> k, interval |-> t % M] ELSE e0}
      BY <1>6, <2>2
    <3>2. e = IF index_r2v(g, t % M) > index_r2v(g, e0.interval)
              THEN [fp |-> k, interval |-> t % M] ELSE e0
      <4>1. e \notin Entries(g) \ {e0}
        BY <1>3, <2>2, <3>1, OneEntry
      <4> QED
        BY <3>1, <4>1
    <3>3. PICK v \in Nat : StandsFor(e0, v, top, last, late)
      BY <1>3, <1>8, <3>1
    <3>4. /\ v > top - M /\ v <= top /\ e0.interval = v % M /\ last[k] <= v
          /\ k \notin late => v = last[k]
      BY <3>1, <3>3 DEF StandsFor
    <3>l. last[k] \in Int
      BY <1>l
    <3>5. index_r2v(g, t % M) > index_r2v(g, e0.interval) <=> t > v
      <4>0. top - M < t /\ top - M < v
        BY <1>0, <3>4
      <4>1. index_r2v(g, t % M) = t + M - (top + 1)
        BY <1>0, <1>3, <4>0, VirtualOrder
      <4>2. index_r2v(g, v % M) = v + M - (top + 1)
        BY <1>0, <1>3, <3>4, <4>0, VirtualOrder
      <4> HIDE DEF M
      <4> QED
        BY <1>0, <3>4, <4>1, <4>2
    <3>6. before(k) = last[k]
      BY <2>2
    <3>7. added(k) = IF t > last[k] THEN t ELSE last[k]
      BY <3>6
    <3> HIDE DEF added, before
    <3>8. last'[k] = IF added(k) <= top - M THEN -1 ELSE added(k)
      BY <1>5, <2>0, <2>2
    <3>9. ~(added(k) <= top - M)
      BY <1>0, <3>4, <3>7, <3>l
    <3>10. last'[k] = IF t > last[k] THEN t ELSE last[k]
      BY <3>7, <3>8, <3>9
    <3>11. CASE t > v
      <4>1. e = [fp |-> k, interval |-> t % M]
        BY <3>2, <3>5, <3>11
      <4>2. last'[k] = t
        BY <1>0, <3>4, <3>10, <3>11, <3>l
      <4>3. StandsFor(e, t, top, last', overdue')
        BY <1>0, <4>1, <4>2 DEF StandsFor
      <4> QED
        BY <1>0, <4>3
    <3>12. CASE ~(t > v)
      <4>1. e = e0
        BY <3>2, <3>5, <3>12
      <4>2. last'[k] <= v
        BY <1>0, <3>4, <3>10, <3>12, <3>l
      <4>3. ASSUME k \notin overdue' PROVE v = last'[k]
        <5>1. CASE k \notin late
          <6>1. v = last[k]
            BY <3>4, <5>1
          <6> QED
            BY <1>0, <3>10, <3>12, <6>1
        <5>2. CASE k \in late
          <6>1. cf_query(cf', k) = {t % M}
            BY <1>7, <2>0, <2>2, <4>3, <5>2
          <6>2. cf_query(cf', k) = {v % M}
            BY <1>6, <2>2, <3>4, <4>1, QueryFacts
          <6>3. t % M = v % M
            BY <6>1, <6>2
          <6>4. top - M < t /\ top - M < v
            BY <1>0, <3>4
          <6>5. t = v
            BY <1>0, <3>4, <6>3, <6>4, OneTime
          <6> QED
            BY <1>0, <3>4, <3>10, <3>l, <6>5
        <5> QED
          BY <5>1, <5>2
      <4>4. StandsFor(e, v, top, last', overdue')
        BY <2>2, <3>4, <4>1, <4>2, <4>3 DEF StandsFor
      <4> QED
        BY <4>4
    <3> QED
      BY <3>11, <3>12
  <2>3. CASE e.fp = k /\ k \notin KeysIn(g)
    <3>1. Entries(cf') \subseteq Entries(g) \cup {[fp |-> k, interval |-> t % M]}
      BY <1>6, <2>3 DEF KeysIn
    <3>2. e \notin Entries(g)
      BY <2>3 DEF KeysIn
    <3>3. e = [fp |-> k, interval |-> t % M]
      BY <3>1, <3>2
    <3>4. t > before(k)
      <4>1. before(k) \in Int /\ (before(k) = -1 \/ before(k) <= top - M)
        <5>1. k \notin KeysIn(f) => last[k] <= top - M \/ last[k] = -1
          BY <1>2
        <5>2. last[k] \in Int
          BY <1>l
        <5> QED
          BY <2>3, <5>1, <5>2
      <4> HIDE DEF before
      <4> QED
        BY <1>0, <4>1
    <3>5. added(k) = t
      BY <3>4
    <3> HIDE DEF added, before
    <3>6. ~(added(k) <= top - M)
      BY <1>0, <3>5
    <3>7. last'[k] = t
      BY <1>5, <2>0, <2>3, <3>5, <3>6
    <3>8. StandsFor(e, t, top, last', overdue')
      BY <1>0, <3>3, <3>7 DEF StandsFor
    <3> QED
      BY <1>0, <3>8
  <2> QED
    BY <2>1, <2>2, <2>3
<1>12. ASSUME NEW x \in Keys, x \notin KeysIn(cf') PROVE last'[x] = -1
  <2>1. CASE x = k \/ x \in KeysIn(g)
    BY <1>5, <1>12, <2>1
  <2>2. CASE x # k /\ x \notin KeysIn(g)
    <3>1. before(x) <= top - M \/ before(x) = -1
      BY <1>2, <2>2
    <3>2. added(x) = before(x)
      BY <2>2
    <3> HIDE DEF added, before
    <3> QED
      BY <1>5, <3>1, <3>2
  <2> QED
    BY <2>1, <2>2
<1>13. Match'
  <2>1. (Stand(cf, newest, last, overdue))'
    <3>1. (Entries(cf))' = Entries(cf')
      BY DEF Entries
    <3>2. \A e \in Entries(cf') : \E v \in Nat : StandsFor(e, v, newest', last', overdue')
      BY <1>1, <1>11
    <3> QED
      BY <3>1, <3>2 DEF Stand, StandsFor
  <2>2. \A x \in Keys : last'[x] # -1 => x \in KeysIn(cf')
    BY <1>12
  <2> QED
    BY <2>1, <2>2 DEF Match, KeysIn, Entries
<1> QED
  BY <1>10, <1>13

\* The clock of an empty filter stands in the last interval.
LEMMA NewTime == (MAX_INTERVALS - 1) % MAX_INTERVALS = MAX_INTERVALS - 1
<1> DEFINE M == MAX_INTERVALS
<1>1. M \in Nat \ {0} /\ M > 1
  BY SizeFacts
<1> HIDE DEF M
<1>2. M - 1 \in Int /\ -M < M - 1 /\ M - 1 < 2 * M
  BY <1>1
<1>3. (M - 1) % M = IF M - 1 < 0 THEN M - 1 + M ELSE IF M - 1 < M THEN M - 1 ELSE M - 1 - M
  BY <1>1, <1>2, ModNear
<1> QED
  BY <1>1, <1>3 DEF M

\* No key is in an empty filter, and none is remembered.
LEMMA EmptyWindow ==
  ASSUME cf = NewFilter, newest = MAX_INTERVALS - 1, \A k \in Keys : last[k] = -1
  PROVE  Timed /\ Match
<1>1. newest % MAX_INTERVALS = MAX_INTERVALS - 1
  BY NewTime
<1>2. Timed
  BY <1>1, NewFacts, SizeFacts DEF Timed
<1>3. Entries(cf) = {}
  BY NewFacts
<1>4. Match
  BY <1>3 DEF Match, Stand
<1> QED
  BY <1>2, <1>4

\* Every operation keeps the window.
LEMMA WindowInductive == WindowOK /\ [FilterNext]_filterVars => WindowOK'
<1> SUFFICES ASSUME WindowOK, [FilterNext]_filterVars PROVE WindowOK'
  OBVIOUS
<1>1. FilterOK'
  BY FilterOKInductive DEF WindowOK
<1>2. ASSUME NEW k \in Keys, NEW t \in 0 .. LastTime, AddKey(k, t)
      PROVE  WindowOK'
  <2>1. ASSUME ClockRight'
        PROVE  ClockRight /\ ~(cf.timet < newest /\ t < newest)
    <3>1. restarts' = restarts /\ misled' = (misled \/ (cf.timet < newest /\ t < newest))
      BY <1>2 DEF AddKey
    <3>2. restarts' = 0 /\ ~misled'
      BY <2>1 DEF ClockRight
    <3>3. misled \in BOOLEAN
      BY DEF WindowOK, FilterOK
    <3>4. ~misled /\ ~(cf.timet < newest /\ t < newest)
      BY <3>1, <3>2, <3>3, Zenon
    <3> QED
      BY <3>1, <3>2, <3>4 DEF ClockRight
  <2>2. ClockRight' => Timed' /\ Match'
    BY <1>2, <2>1, AddWindow DEF WindowOK
  <2> QED
    BY <1>1, <2>2 DEF WindowOK
<1>3. CASE AddTooOld \/ UNCHANGED filterVars
  BY <1>1, <1>3 DEF WindowOK, AddTooOld, filterVars, remembered, ClockRight, Timed, Match, Stand,
     StandsFor, Entries, KeysIn
<1>4. ASSUME NEW k \in Keys, Delete(k)
      PROVE  WindowOK'
  <2>1. /\ cf'.timet = cf.timet /\ cf'.interval = cf.interval
        /\ Entries(cf') = {e \in Entries(cf) : e.fp # k}
    BY <1>4, DeleteFilterOK DEF WindowOK
  <2>2. last \in [Keys -> Int] /\ last' = [last EXCEPT ![k] = -1]
        /\ overdue' = overdue \ {k} /\ newest' = newest
    BY <1>4 DEF Delete, WindowOK, FilterOK
  <2>3. \A x \in Keys : last'[x] = IF x = k THEN -1 ELSE last[x]
    BY <2>2
  <2>4. \A e \in Entries(cf) : e.fp \in Keys
    BY DEF WindowOK, FilterOK, Good, Filters, Entries, Entry
  <2>5. ASSUME Timed PROVE Timed'
    BY <2>1, <2>2, <2>3, <2>5 DEF Timed
  <2>6. ASSUME Match PROVE Match'
    <3>1. ASSUME NEW e \in Entries(cf')
          PROVE  \E v \in Nat : StandsFor(e, v, newest', last', overdue')
      <4>1. e \in Entries(cf) /\ e.fp # k /\ e.fp \in Keys
        BY <2>1, <2>4
      <4>2. PICK v \in Nat : StandsFor(e, v, newest, last, overdue)
        BY <2>6, <4>1 DEF Match, Stand
      <4>3. StandsFor(e, v, newest', last', overdue')
        BY <2>2, <2>3, <4>1, <4>2 DEF StandsFor
      <4> QED
        BY <4>3
    <3>2. \A x \in Keys : last'[x] # -1 => \E e \in Entries(cf') : e.fp = x
      BY <2>1, <2>3, <2>6 DEF Match, KeysIn
    <3> QED
      BY <3>1, <3>2 DEF Match, Stand, StandsFor, Entries, KeysIn
  <2>7. ClockRight' => ClockRight
    BY <1>4 DEF Delete, ClockRight
  <2> QED
    BY <1>1, <2>5, <2>6, <2>7 DEF WindowOK
<1>5. CASE Clear
  <2>1. cf' = NewFilter /\ newest' = MAX_INTERVALS - 1 /\ \A k \in Keys : last'[k] = -1
    BY <1>5, NewFacts DEF Clear
  <2>2. Timed'
    BY <2>1, NewFacts, SizeFacts, NewTime DEF Timed
  <2>3. Match'
    <3>1. Entries(cf') = {}
      BY <2>1, NewFacts
    <3> QED
      BY <2>1, <3>1 DEF Match, Stand, Entries, KeysIn
  <2> QED
    BY <1>1, <2>2, <2>3 DEF WindowOK
<1>6. CASE FilterRestart
  <2>1. restarts' # 0
    BY <1>6 DEF FilterRestart, WindowOK, FilterOK
  <2> QED
    BY <1>1, <2>1 DEF WindowOK, ClockRight
<1> QED
  BY <1>2, <1>3, <1>4, <1>5, <1>6 DEF FilterNext

\* As long as the clock is right, it stands in the interval of the latest time, every
\* entry stands for a time of the window up to it, that its key was last added at or a
\* later one, and every key added in the window has an entry.
THEOREM WindowCorrect == FilterSpec => []WindowOK
<1>1. FilterInit => WindowOK
  BY InitFilterOK, EmptyWindow DEF FilterInit, WindowOK
<1>2. WindowOK /\ [FilterNext]_filterVars => WindowOK'
  BY WindowInductive
<1> QED
  BY <1>1, <1>2, PTL DEF FilterSpec

\* cf_query finds a key that was added within the window, unless it was deleted or
\* removed for lack of room, with the interval it was last added in or, if a jump over
\* a whole window had left its entry behind, that or a later one: however far the time
\* of any add is from the one before.
THEOREM NothingLostEarly == FilterSpec => []NothingExpiresEarly
<1>1. WindowOK => NothingExpiresEarly
  <2> SUFFICES ASSUME FilterOK, Timed, Match, NEW k \in Keys, last[k] # -1
               PROVE  \E i \in Intervals :
                        /\ cf_query(cf, k) = {i}
                        /\ index_r2v(cf, i) >= index_r2v(cf, last[k] % MAX_INTERVALS)
                        /\ k \notin overdue => i = last[k] % MAX_INTERVALS
    BY DEF WindowOK, NothingExpiresEarly
  <2>1. PICK e \in Entries(cf) : e.fp = k
    BY DEF Match, KeysIn
  <2>2. PICK v \in Nat : StandsFor(e, v, newest, last, overdue)
    BY DEF Match, Stand
  <2>3. /\ v > newest - MAX_INTERVALS /\ v <= newest /\ e.interval = v % MAX_INTERVALS
        /\ last[k] <= v
        /\ k \notin overdue => v = last[k]
    BY <2>1, <2>2 DEF StandsFor
  <2>4. e.interval \in Intervals
    BY DEF FilterOK, Good, Filters, Entries, Entry
  <2>5. cf_query(cf, k) = {e.interval}
    BY <2>1, QueryFacts DEF FilterOK
  <2>6. index_r2v(cf, e.interval) >= index_r2v(cf, last[k] % MAX_INTERVALS)
    <3>1. /\ MAX_INTERVALS \in Nat /\ newest \in Nat /\ newest >= MAX_INTERVALS - 1
          /\ last[k] \in Int /\ last[k] > newest - MAX_INTERVALS
      BY SizeFacts DEF FilterOK, Timed
    <3>2. newest - MAX_INTERVALS < v /\ newest - MAX_INTERVALS < last[k]
          /\ last[k] <= newest /\ last[k] \in Nat
      BY <2>3, <3>1
    <3>3. cf.interval = newest % MAX_INTERVALS
      BY DEF Timed
    <3>4. index_r2v(cf, v % MAX_INTERVALS) = v + MAX_INTERVALS - (newest + 1)
      BY <2>3, <3>1, <3>2, <3>3, VirtualOrder
    <3>5. index_r2v(cf, last[k] % MAX_INTERVALS) = last[k] + MAX_INTERVALS - (newest + 1)
      BY <3>1, <3>2, <3>3, VirtualOrder
    <3>6. v + MAX_INTERVALS - (newest + 1) >= last[k] + MAX_INTERVALS - (newest + 1)
      BY <2>3, <3>1
    <3> QED
      BY <2>3, <3>4, <3>5, <3>6
  <2> QED
    BY <2>3, <2>4, <2>5, <2>6
<1> QED
  BY <1>1, WindowCorrect, PTL

\* cf_query finds no key that was last added before the window, or not at all, unless a
\* jump over a whole window left its entry behind.
THEOREM NothingKeptLate == FilterSpec => []EverythingExpires
<1>1. WindowOK => EverythingExpires
  <2> SUFFICES ASSUME FilterOK, Match, NEW k \in Keys, k \notin overdue, last[k] = -1
               PROVE  cf_query(cf, k) = {}
    BY DEF WindowOK, EverythingExpires
  <2>1. ASSUME NEW e \in Entries(cf), e.fp = k
        PROVE  FALSE
    <3>1. PICK v \in Nat : StandsFor(e, v, newest, last, overdue)
      BY DEF Match, Stand
    <3>2. v = -1
      BY <2>1, <3>1 DEF StandsFor
    <3> QED
      BY <3>2
  <2>2. k \notin KeysIn(cf)
    BY <2>1 DEF KeysIn
  <2> QED
    BY <2>2, QueryFacts DEF FilterOK
<1> QED
  BY <1>1, WindowCorrect, PTL
=============================================================================
