--------------------------- MODULE SegmentsProofs ---------------------------
(***************************************************************************)
(* What seeking relies on: cutting a position into a segment and an offset *)
(* loses nothing, stays inside the book, and agrees with how the           *)
(* transcoder cuts the files.                                              *)
(***************************************************************************)
EXTENDS Segments, TLAPS

\* Where a position before the end of a segmented book falls, on integers.
LEMMA Cut ==
  ASSUME NEW g \in Nat, NEW d \in Nat \ {0}
  PROVE  /\ g \div d \in Nat
         /\ g % d \in 0 .. d - 1
         /\ g = (g \div d) * d + (g % d)
  OBVIOUS

\* Converting to a segment and back gives the position again: what /play or a
\* seek starts at is what /status reports there.
THEOREM RoundTrip ==
  ASSUME NEW g \in Nat, NEW d \in Nat
  PROVE  LET x == GlobalToSegment(g, d)
         IN  SegmentToGlobal(x.segment, x.local, d) = g
<1>1. CASE d = 0
  BY <1>1 DEF GlobalToSegment, SegmentToGlobal
<1>2. CASE d # 0
  BY <1>2, Cut DEF GlobalToSegment, SegmentToGlobal
<1> QED BY <1>1, <1>2

\* And the other way: a local position that is inside its segment comes back as
\* the same segment and offset, so the row's segment and what the player reports
\* can be told from the global position.
THEOREM LocalRoundTrip ==
  ASSUME NEW k \in Nat, NEW d \in Nat \ {0}, NEW l \in 0 .. d - 1
  PROVE  GlobalToSegment(SegmentToGlobal(k, l, d), d) = [segment |-> k, local |-> l]
<1> DEFINE g == k * d + l
<1>1. g \in Nat
  OBVIOUS
<1>2. g \div d = k /\ g % d = l
  <2>1. g = (g \div d) * d + (g % d) /\ g \div d \in Nat /\ g % d \in 0 .. d - 1
    BY <1>1, Cut
  <2>2. ASSUME NEW q \in Nat, NEW r \in 0 .. d - 1, q * d + r = k * d + l
        PROVE  q = k
    <3>1. (q - k) * d = l - r
      BY <2>2
    <3>2. CASE q - k >= 1
      <4>1. (q - k) * d >= d
        BY <3>2
      <4> QED BY <3>1, <4>1
    <3>3. CASE q - k <= -1
      <4>1. (k - q) * d >= d
        BY <3>3
      <4> QED BY <3>1, <4>1
    <3> QED BY <3>2, <3>3
  <2>3. g \div d = k
    BY <2>1, <2>2
  <2> QED BY <2>1, <2>3
<1> QED BY <1>2 DEF GlobalToSegment, SegmentToGlobal

\* How many segments there are: the last one starts before the end and ends at
\* it or after it.
LEMMA CountIsCeiling ==
  ASSUME NEW total \in Nat \ {0}, NEW d \in Nat \ {0}
  PROVE  LET n == SegmentCount(total, d)
         IN  /\ n \in Nat \ {0}
             /\ (n - 1) * d < total
             /\ total <= n * d
<1> DEFINE t == total + d - 1
<1> DEFINE n == t \div d
<1>1. t \in Nat /\ t >= d
  OBVIOUS
<1>2. n \in Nat /\ t % d \in 0 .. d - 1 /\ t = n * d + (t % d)
  BY <1>1, Cut
<1>3. n # 0
  BY <1>1, <1>2
<1>4. total <= n * d
  BY <1>2
<1>5. (n - 1) * d < total
  <2>1. (n - 1) * d = n * d - d
    BY <1>2
  <2> QED BY <1>2, <2>1
<1>6. SegmentCount(total, d) = n
  BY DEF SegmentCount
<1> QED BY <1>2, <1>3, <1>4, <1>5, <1>6

\* The files tile the book: none is empty or longer than a segment, and each
\* ends where the next one starts, the last one at the end of the book.
THEOREM SegmentsTile ==
  ASSUME NEW total \in Nat \ {0}, NEW d \in Nat \ {0},
         NEW k \in 0 .. SegmentCount(total, d) - 1
  PROVE  /\ SegmentLength(k, total, d) \in 1 .. d
         /\ SegmentToGlobal(k, SegmentLength(k, total, d), d) =
              IF k + 1 = SegmentCount(total, d) THEN total
              ELSE SegmentToGlobal(k + 1, 0, d)
<1> DEFINE n == SegmentCount(total, d)
<1>1. n \in Nat \ {0} /\ (n - 1) * d < total /\ total <= n * d
  BY CountIsCeiling
<1> HIDE DEF n
<1>2. k \in Nat /\ k < n
  BY <1>1 DEF n
<1>3. (k + 1) * d = k * d + d
  BY <1>2
<1>4. CASE k + 1 = n
  <2>1. k * d < total /\ total <= k * d + d
    BY <1>1, <1>2, <1>3, <1>4
  <2>2. SegmentLength(k, total, d) = total - k * d
    BY <1>1, <1>2, <1>3, <2>1 DEF SegmentLength, n
  <2> QED BY <1>2, <1>4, <2>1, <2>2 DEF SegmentToGlobal, n
<1>5. CASE k + 1 # n
  <2>1. k + 1 <= n - 1
    BY <1>1, <1>2, <1>5
  <2>2. (k + 1) * d <= (n - 1) * d
    BY <1>1, <1>2, <2>1
  <2>3. SegmentLength(k, total, d) = d
    BY <1>1, <1>2, <2>2 DEF SegmentLength, n
  <2> QED BY <1>2, <1>3, <1>5, <2>3 DEF SegmentToGlobal, n
<1> QED BY <1>4, <1>5

\* A position before the end of the book falls into a segment that exists, and
\* before the end of its file: a seek there can be carried out.
THEOREM PositionHasItsFile ==
  ASSUME NEW total \in Nat \ {0}, NEW d \in Nat, NEW g \in 0 .. total - 1
  PROVE  LET x == GlobalToSegment(g, d)
         IN  /\ x.segment \in 0 .. SegmentCount(total, d) - 1
             /\ x.local \in 0 .. SegmentLength(x.segment, total, d) - 1
<1>1. CASE d = 0
  BY <1>1 DEF GlobalToSegment, SegmentCount, SegmentLength
<1>2. CASE d # 0
  <2> DEFINE k == g \div d
  <2> DEFINE n == SegmentCount(total, d)
  <2>1. k \in Nat /\ g % d \in 0 .. d - 1 /\ g = k * d + (g % d)
    BY <1>2, Cut
  <2>2. n \in Nat \ {0} /\ (n - 1) * d < total /\ total <= n * d
    BY <1>2, CountIsCeiling
  <2>3. GlobalToSegment(g, d) = [segment |-> k, local |-> g % d]
    BY <1>2 DEF GlobalToSegment
  <2> HIDE DEF n, k
  <2>4. k < n
    <3>1. SUFFICES ASSUME k >= n PROVE FALSE
      BY <2>1, <2>2
    <3>2. k * d >= n * d
      BY <1>2, <2>1, <2>2, <3>1
    <3> QED BY <2>1, <2>2, <3>2
  <2>5. SegmentLength(k, total, d) = IF (k + 1) * d <= total THEN d ELSE total - k * d
    BY <1>2, <2>1, <2>2, <2>4 DEF SegmentLength, n
  <2>6. g % d < SegmentLength(k, total, d)
    BY <1>2, <2>1, <2>5
  <2>7. SegmentLength(k, total, d) \in Int
    BY <1>2, <2>1, <2>5
  <2> QED BY <2>1, <2>2, <2>3, <2>4, <2>6, <2>7 DEF n
<1> QED BY <1>1, <1>2
=============================================================================
