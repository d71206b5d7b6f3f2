---------------------------- MODULE SkwRxProofs ----------------------------
(***************************************************************************)
(* The receive reordering, for any number of sessions, sequence numbers    *)
(* and any window: the types (TypeOK) and the count of what a session      *)
(* holds; and, for a window that divides the sequence numbers (Regular),   *)
(* that what is held is in the window (BufferConsistent), that no frame is *)
(* forgotten (NoStuckFrame), and that nothing is lost or handed up twice   *)
(* (FramesConserved) or out of order (ReleaseInOrder).                     *)
(*                                                                         *)
(* The invariant is RxInv.  Below it lie the arithmetic of sequence        *)
(* numbers, what one round of each loop does to a session (ForceRoundGood, *)
(* RoundGood), and what a loop of any number of rounds does: a run of its  *)
(* rounds exists (Iterate), and induction up to a bound (UpTo) carries the *)
(* facts along it.                                                         *)
(***************************************************************************)
EXTENDS SkwRx, FiniteSetTheorems, WellFoundedInduction, TLAPS

(* Remainders. *)

\* A remainder lies below the modulus, and with the quotient gives the number.
LEMMA ModRange ==
  ASSUME NEW m \in Nat \ {0}, NEW x \in Int
  PROVE  /\ x % m \in 0 .. m - 1 /\ x \div m \in Int
         /\ x = m * (x \div m) + (x % m)
OBVIOUS

\* There is no other remainder.
LEMMA ModUnique ==
  ASSUME NEW m \in Nat \ {0}, NEW q \in Int, NEW r \in 0 .. m - 1
  PROVE  (m * q + r) % m = r
OBVIOUS

\* A number below the modulus is its own remainder.
LEMMA ModSmall ==
  ASSUME NEW m \in Nat \ {0}, NEW r \in 0 .. m - 1
  PROVE  r % m = r
OBVIOUS

\* Multiples of m do not change a remainder.
LEMMA ModShift ==
  ASSUME NEW m \in Nat \ {0}, NEW x \in Int, NEW d \in Int
  PROVE  (x + m * d) % m = x % m
<1> DEFINE q == x \div m
           r == x % m
<1>1. q \in Int /\ r \in 0 .. m - 1 /\ x = m * q + r
  BY ModRange
<1> HIDE DEF q, r
<1>2. x + m * d = m * (q + d) + r
  <2>1. m * (q + d) = m * q + m * d
    BY <1>1
  <2> QED BY <1>1, <2>1
<1>3. q + d \in Int
  BY <1>1
<1> QED BY <1>1, <1>2, <1>3, ModUnique DEF r

\* One modulus more.
LEMMA ModPlus ==
  ASSUME NEW m \in Nat \ {0}, NEW x \in Int
  PROVE  (x + m) % m = x % m
<1> DEFINE q == x \div m
           r == x % m
<1>1. q \in Int /\ r \in 0 .. m - 1 /\ x = m * q + r
  BY ModRange
<1> HIDE DEF q, r
<1>2. x + m = m * (q + 1) + r /\ q + 1 \in Int
  BY <1>1
<1>3. (m * (q + 1) + r) % m = r
  BY <1>1, <1>2, ModUnique
<1> QED BY <1>2, <1>3 DEF r

\* A remainder may be taken first.
LEMMA ModMod ==
  ASSUME NEW m \in Nat \ {0}, NEW x \in Int, NEW y \in Int
  PROVE  ((x % m) + y) % m = (x + y) % m
<1> DEFINE q == x \div m
           r == x % m
<1>1. q \in Int /\ r \in 0 .. m - 1 /\ x = m * q + r
  BY ModRange
<1> HIDE DEF q, r
<1>2. r + y \in Int /\ x + y = (r + y) + m * q
  BY <1>1
<1>3. ((r + y) + m * q) % m = (r + y) % m
  BY <1>1, <1>2, ModShift
<1> QED BY <1>2, <1>3 DEF r

\* A remainder keeps what it is modulo a divisor.
LEMMA ModOfMod ==
  ASSUME NEW m \in Nat \ {0}, NEW n \in Nat \ {0}, n % m = 0, NEW x \in Int
  PROVE  (x % n) % m = x % m
<1> DEFINE q == x \div n
           r == x % n
           c == n \div m
<1>1. q \in Int /\ r \in 0 .. n - 1 /\ x = n * q + r
  BY ModRange
<1>2. c \in Int /\ n = m * c
  <2>1. n = m * c + 0 /\ c \in Int
    BY ModRange
  <2> QED BY <2>1
<1> HIDE DEF q, r, c
<1>3. x = r + m * (c * q)
  <2>1. n * q = m * (c * q)
    BY <1>1, <1>2
  <2> QED BY <1>1, <2>1
<1>4. c * q \in Int /\ r \in Int
  BY <1>1, <1>2
<1>5. (r + m * (c * q)) % m = r % m
  BY <1>4, ModShift
<1> QED BY <1>3, <1>5 DEF r

\* The remainder of the next number.
LEMMA ModUp ==
  ASSUME NEW m \in Nat \ {0}, NEW x \in Int
  PROVE  (x + 1) % m = IF x % m = m - 1 THEN 0 ELSE (x % m) + 1
<1> DEFINE r == x % m
<1>1. r \in 0 .. m - 1
  BY ModRange
<1>2. (x + 1) % m = (r + 1) % m
  <2> DEFINE one == 1
  <2>1. one \in Int
    OBVIOUS
  <2> HIDE DEF one
  <2>2. ((x % m) + one) % m = (x + one) % m
    BY <2>1, ModMod
  <2> QED BY <2>2 DEF one
<1> HIDE DEF r
<1>3. CASE r = m - 1
  <2>1. (0 + m) % m = 0 % m
    BY ModPlus
  <2>2. 0 % m = 0
    BY ModSmall
  <2>3. r + 1 = 0 + m
    BY <1>1, <1>3
  <2> QED BY <1>2, <1>3, <2>1, <2>2, <2>3 DEF r
<1>4. CASE r # m - 1
  <2>1. r + 1 \in 0 .. m - 1
    BY <1>1, <1>4
  <2>2. (r + 1) % m = r + 1
    BY <2>1, ModSmall
  <2> QED BY <1>2, <1>4, <2>2 DEF r
<1> QED BY <1>3, <1>4

\* The remainder of a number up to a modulus smaller.
LEMMA ModDown ==
  ASSUME NEW m \in Nat \ {0}, NEW x \in Int, NEW d \in 0 .. m
  PROVE  (x - d) % m = IF x % m >= d THEN (x % m) - d ELSE (x % m) - d + m
<1> DEFINE r == x % m
<1>1. r \in 0 .. m - 1
  BY ModRange
<1>2. x - d = x + (-d) /\ -d \in Int
  OBVIOUS
<1>3. (x - d) % m = (r - d) % m
  <2>1. (r + (-d)) % m = (x + (-d)) % m
    BY <1>2, ModMod
  <2>2. r + (-d) = r - d
    BY <1>1
  <2> QED BY <1>2, <2>1, <2>2
<1> HIDE DEF r
<1>4. CASE r >= d
  <2>1. r - d \in 0 .. m - 1
    BY <1>1, <1>4
  <2> QED BY <1>3, <1>4, <2>1, ModSmall DEF r
<1>5. CASE ~(r >= d)
  <2>1. r - d + m \in 0 .. m - 1
    BY <1>1, <1>5
  <2>2. r - d \in Int
    BY <1>1
  <2>3. ((r - d) + m) % m = (r - d) % m
    BY <2>2, ModPlus
  <2>4. (r - d + m) % m = r - d + m
    BY <2>1, ModSmall
  <2> QED BY <1>3, <1>5, <2>2, <2>3, <2>4 DEF r
<1> QED BY <1>4, <1>5

\* A remainder may be taken first of what is subtracted.
LEMMA ModSub ==
  ASSUME NEW m \in Nat \ {0}, NEW x \in Int, NEW y \in Int
  PROVE  (y - (x % m)) % m = (y - x) % m
<1> DEFINE q == x \div m
           r == x % m
<1>1. q \in Int /\ r \in 0 .. m - 1 /\ x = m * q + r
  BY ModRange
<1> HIDE DEF q, r
<1>2. y - x \in Int /\ y - r = (y - x) + m * q
  BY <1>1
<1>3. ((y - x) + m * q) % m = (y - x) % m
  BY <1>1, <1>2, ModShift
<1> QED BY <1>2, <1>3 DEF r
-----------------------------------------------------------------------------
(* Sequence numbers. *)

\* How far a lies ahead of b.
Gap(a, b) == (a - b) % SnMod

\* The sizes of WindowAssumption as integers; a sequence number fits an u16.
LEMMA Sizes ==
  /\ SnMod \in Nat \ {0} /\ U16Mod \in Nat \ {0} /\ WinSize \in Nat \ {0}
  /\ SnMod \in Int /\ U16Mod \in Int /\ WinSize \in Int
  /\ 2 * WinSize <= SnMod /\ U16Mod % SnMod = 0
  /\ Sn \subseteq U16 /\ U16 \subseteq Int /\ Sn \subseteq Int
<1> USE WindowAssumption
<1>1. SnMod <= U16Mod
  <2>1. CASE U16Mod < SnMod
    <3>1. U16Mod \in 0 .. SnMod - 1
      BY <2>1
    <3>2. U16Mod % SnMod = U16Mod
      BY <3>1, ModSmall
    <3> QED BY <3>2
  <2> QED BY <2>1
<1> QED BY <1>1 DEF Sn, U16

\* A distance is a sequence number.
LEMMA GapRange ==
  ASSUME NEW a \in Int, NEW b \in Int PROVE Gap(a, b) \in 0 .. SnMod - 1
<1>1. a - b \in Int
  OBVIOUS
<1> QED BY <1>1, Sizes, ModRange DEF Gap

\* What the functions of linux/ieee80211.h return is a sequence number.
LEMMA SnRange ==
  ASSUME NEW a \in Int, NEW b \in Int
  PROVE  ieee80211_sn_inc(a) \in Sn /\ ieee80211_sn_sub(a, b) \in Sn /\ ieee80211_sn_add(a, b) \in Sn
<1>1. a + 1 \in Int /\ a - b \in Int /\ a + b \in Int
  OBVIOUS
<1> QED BY <1>1, Sizes, ModRange DEF Sn, ieee80211_sn_inc, ieee80211_sn_sub, ieee80211_sn_add

\* ieee80211_sn_less: more than half of the numbers ahead is behind.
LEMMA LessGap ==
  ASSUME NEW a, NEW b
  PROVE  ieee80211_sn_less(a, b) <=> Gap(a, b) > SnMod \div 2
BY DEF ieee80211_sn_less, Gap

\* A distance when either end moves on by one.
LEMMA GapInc ==
  ASSUME NEW a \in Int, NEW b \in Int
  PROVE  /\ Gap(a, ieee80211_sn_inc(b)) = IF Gap(a, b) = 0 THEN SnMod - 1 ELSE Gap(a, b) - 1
         /\ Gap(ieee80211_sn_inc(a), b) = IF Gap(a, b) = SnMod - 1 THEN 0 ELSE Gap(a, b) + 1
<1> DEFINE x == a - b
           c == b + 1
           e == a + 1
           nb == -b
           one == 1
<1>1. x \in Int /\ c \in Int /\ e \in Int /\ nb \in Int
  OBVIOUS
<1>2. (a - (c % SnMod)) % SnMod = (a - c) % SnMod
  <2> HIDE DEF c
  <2> QED BY <1>1, Sizes, ModSub
<1>3. ((e % SnMod) + nb) % SnMod = (e + nb) % SnMod
  <2> HIDE DEF e, nb
  <2> QED BY <1>1, Sizes, ModMod
<1>4. (x - one) % SnMod = IF x % SnMod >= one THEN (x % SnMod) - one ELSE (x % SnMod) - one + SnMod
  <2>1. one \in 0 .. SnMod
    BY Sizes
  <2> HIDE DEF x, one
  <2> QED BY <1>1, <2>1, Sizes, ModDown
<1>5. (x + 1) % SnMod = IF x % SnMod = SnMod - 1 THEN 0 ELSE (x % SnMod) + 1
  <2> HIDE DEF x
  <2> QED BY <1>1, Sizes, ModUp
<1>6. x - one = a - c /\ x + 1 = e + nb
  OBVIOUS
<1>7. ieee80211_sn_inc(b) = c % SnMod /\ ieee80211_sn_inc(a) = e % SnMod
  BY DEF ieee80211_sn_inc
<1>8. e % SnMod \in Int
  <2> HIDE DEF e
  <2> QED BY <1>1, Sizes, ModRange
<1>9. ieee80211_sn_inc(a) - b = (e % SnMod) + nb
  <2> DEFINE em == e % SnMod
  <2>1. em \in Int
    BY <1>8
  <2> HIDE DEF em
  <2>2. em - b = em + nb
    BY <2>1
  <2> QED BY <1>7, <2>2 DEF em
<1>10. x % SnMod \in 0 .. SnMod - 1
  <2> HIDE DEF x
  <2> QED BY <1>1, Sizes, ModRange
<1>11. Gap(a, b) = x % SnMod
  BY DEF Gap
<1>12. Gap(a, ieee80211_sn_inc(b)) = (x - one) % SnMod
  <2> HIDE DEF c, x, one
  <2> QED BY <1>2, <1>6, <1>7 DEF Gap
<1>13. Gap(ieee80211_sn_inc(a), b) = (x + 1) % SnMod
  <2> HIDE DEF e, nb, x
  <2> QED BY <1>3, <1>6, <1>9 DEF Gap
<1> DEFINE g == x % SnMod
<1>14. g \in 0 .. SnMod - 1 /\ g = Gap(a, b)
  BY <1>10, <1>11
<1>15. (x - one) % SnMod = IF g >= 1 THEN g - 1 ELSE g - 1 + SnMod
  BY <1>4
<1>16. (x + 1) % SnMod = IF g = SnMod - 1 THEN 0 ELSE g + 1
  BY <1>5
<1> HIDE DEF g, x, one
<1> QED BY <1>12, <1>13, <1>14, <1>15, <1>16, Sizes

\* A distance the other way around.
LEMMA GapFlip ==
  ASSUME NEW a \in Int, NEW b \in Int
  PROVE  Gap(b, a) = IF Gap(a, b) = 0 THEN 0 ELSE SnMod - Gap(a, b)
<1> DEFINE x == a - b
           q == x \div SnMod
           g == x % SnMod
<1>1. q \in Int /\ g \in 0 .. SnMod - 1 /\ x = SnMod * q + g
  <2>1. x \in Int
    OBVIOUS
  <2> HIDE DEF x
  <2> QED BY <2>1, Sizes, ModRange
<1>2. Gap(a, b) = g
  BY DEF Gap
<1>3. b - a = -x /\ x \in Int
  OBVIOUS
<1> HIDE DEF x, q, g
<1>4. CASE g = 0
  <2>1. -x = SnMod * (-q) + 0 /\ -q \in Int /\ 0 \in 0 .. SnMod - 1
    BY <1>1, <1>4, Sizes
  <2>2. (SnMod * (-q) + 0) % SnMod = 0
    BY <2>1, Sizes, ModUnique
  <2> QED BY <1>2, <1>3, <1>4, <2>1, <2>2 DEF Gap
<1>5. CASE g # 0
  <2>1. -x = SnMod * (-q - 1) + (SnMod - g)
    BY <1>1, Sizes
  <2>2. -q - 1 \in Int /\ SnMod - g \in 0 .. SnMod - 1
    BY <1>1, <1>5, Sizes
  <2>3. (SnMod * (-q - 1) + (SnMod - g)) % SnMod = SnMod - g
    BY <2>2, Sizes, ModUnique
  <2> QED BY <1>2, <1>3, <1>5, <2>1, <2>3 DEF Gap
<1> QED BY <1>4, <1>5

\* A distance to a number d further on, as to the end of the window.
LEMMA GapAhead ==
  ASSUME NEW a \in Int, NEW b \in Int, NEW d \in 0 .. SnMod
  PROVE  Gap(a, b + d) = IF Gap(a, b) >= d THEN Gap(a, b) - d ELSE Gap(a, b) - d + SnMod
<1> DEFINE x == a - b
<1>1. x \in Int /\ d \in Int /\ a - (b + d) = x - d
  BY Sizes
<1>2. (x - d) % SnMod = IF x % SnMod >= d THEN (x % SnMod) - d ELSE (x % SnMod) - d + SnMod
  <2> HIDE DEF x
  <2> QED BY <1>1, Sizes, ModDown
<1> QED BY <1>1, <1>2 DEF Gap

\* What ieee80211_sn_sub goes back is the distance it leaves.
LEMMA GapSub ==
  ASSUME NEW a \in Int, NEW d \in 0 .. SnMod - 1
  PROVE  Gap(a, ieee80211_sn_sub(a, d)) = d
<1> DEFINE x == a - d
<1>1. x \in Int /\ a - x = d
  BY Sizes
<1>2. (a - (x % SnMod)) % SnMod = (a - x) % SnMod
  <2> HIDE DEF x
  <2> QED BY <1>1, Sizes, ModSub
<1>3. d % SnMod = d
  BY Sizes, ModSmall
<1> QED BY <1>1, <1>2, <1>3 DEF Gap, ieee80211_sn_sub

\* Only equal sequence numbers are at distance 0.
LEMMA GapEqual ==
  ASSUME NEW a \in Sn, NEW b \in Sn
  PROVE  Gap(a, b) = 0 <=> a = b
<1> DEFINE x == a - b
<1>1. a \in 0 .. SnMod - 1 /\ b \in 0 .. SnMod - 1 /\ SnMod \in Nat \ {0}
  BY Sizes DEF Sn
<1>2. CASE a >= b
  <2>1. x \in 0 .. SnMod - 1
    BY <1>1, <1>2
  <2>2. x % SnMod = x
    <3> HIDE DEF x
    <3> QED BY <2>1, <1>1, ModSmall
  <2> QED BY <1>1, <1>2, <2>2 DEF Gap
<1>3. CASE ~(a >= b)
  <2>1. x + SnMod \in 1 .. SnMod - 1 /\ x \in Int
    BY <1>1, <1>3
  <2>2. (x + SnMod) % SnMod = x + SnMod /\ (x + SnMod) % SnMod = x % SnMod
    <3> DEFINE y == x + SnMod
    <3>1. y \in 0 .. SnMod - 1
      BY <2>1
    <3>2. y % SnMod = y
      <4> HIDE DEF y
      <4> QED BY <3>1, <1>1, ModSmall
    <3>3. (x + SnMod) % SnMod = x % SnMod
      <4> HIDE DEF x, y
      <4> QED BY <2>1, <1>1, ModPlus
    <3> QED BY <3>2, <3>3
  <2>3. x % SnMod # 0
    <3> HIDE DEF x
    <3> QED BY <2>1, <2>2
  <2> QED BY <1>1, <1>3, <2>3 DEF Gap
<1> QED BY <1>1, <1>2, <1>3

\* An u16 that wraps is as far from everything.
LEMMA GapMod ==
  ASSUME NEW a \in Int, NEW b \in Int
  PROVE  Gap(a % U16Mod, b) = Gap(a, b)
<1> DEFINE y == a % U16Mod
           nb == -b
<1>1. y \in Int /\ nb \in Int
  BY Sizes, ModRange
<1>2. y % SnMod = a % SnMod
  BY Sizes, ModOfMod
<1>3. ((y % SnMod) + nb) % SnMod = (y + nb) % SnMod
  <2> HIDE DEF y, nb
  <2> QED BY <1>1, Sizes, ModMod
<1>4. ((a % SnMod) + nb) % SnMod = (a + nb) % SnMod
  <2> HIDE DEF y, nb
  <2> QED BY <1>1, Sizes, ModMod
<1>5. (y + nb) % SnMod = (a + nb) % SnMod
  BY <1>2, <1>3, <1>4
<1>6. a + nb = a - b
  OBVIOUS
<1>7. y + nb = y - b
  <2> HIDE DEF y
  <2> QED BY <1>1
<1> HIDE DEF nb
<1> QED BY <1>5, <1>6, <1>7 DEF Gap

\* Distances add up.
LEMMA GapSum ==
  ASSUME NEW a \in Int, NEW b \in Int, NEW c \in Int
  PROVE  Gap(a, c) = IF Gap(a, b) + Gap(b, c) >= SnMod THEN Gap(a, b) + Gap(b, c) - SnMod
                     ELSE Gap(a, b) + Gap(b, c)
<1> DEFINE x == a - b
           y == b - c
           p == x \div SnMod
           q == y \div SnMod
           g == x % SnMod
           h == y % SnMod
<1>1. x \in Int /\ y \in Int /\ a - c = x + y
  OBVIOUS
<1>2. p \in Int /\ g \in 0 .. SnMod - 1 /\ x = SnMod * p + g
  <2> HIDE DEF x
  <2> QED BY <1>1, Sizes, ModRange
<1>3. q \in Int /\ h \in 0 .. SnMod - 1 /\ y = SnMod * q + h
  <2> HIDE DEF y
  <2> QED BY <1>1, Sizes, ModRange
<1>4. Gap(a, b) = g /\ Gap(b, c) = h /\ Gap(a, c) = (x + y) % SnMod
  BY <1>1 DEF Gap
<1> HIDE DEF x, y, p, q, g, h
<1>5. CASE g + h >= SnMod
  <2>1. p + q + 1 \in Int /\ g + h - SnMod \in 0 .. SnMod - 1
    BY <1>2, <1>3, <1>5, Sizes
  <2>2. x + y = SnMod * (p + q + 1) + (g + h - SnMod)
    <3>1. SnMod * (p + q + 1) = SnMod * p + SnMod * q + SnMod
      BY <1>2, <1>3, Sizes
    <3> QED BY <1>2, <1>3, <3>1, Sizes
  <2>3. (SnMod * (p + q + 1) + (g + h - SnMod)) % SnMod = g + h - SnMod
    BY <2>1, Sizes, ModUnique
  <2> QED BY <1>4, <1>5, <2>2, <2>3
<1>6. CASE ~(g + h >= SnMod)
  <2>1. p + q \in Int /\ g + h \in 0 .. SnMod - 1
    BY <1>2, <1>3, <1>6, Sizes
  <2>2. x + y = SnMod * (p + q) + (g + h)
    <3>1. SnMod * (p + q) = SnMod * p + SnMod * q
      BY <1>2, <1>3, Sizes
    <3> QED BY <1>2, <1>3, <3>1, Sizes
  <2>3. (SnMod * (p + q) + (g + h)) % SnMod = g + h
    BY <2>1, Sizes, ModUnique
  <2> QED BY <1>4, <1>6, <2>2, <2>3
<1> QED BY <1>5, <1>6
-----------------------------------------------------------------------------
(* Windows that divide the sequence numbers. *)

\* Nothing lies ahead of itself.
LEMMA GapSelf == ASSUME NEW a \in Int PROVE Gap(a, a) = 0
<1>1. a - a = 0 /\ 0 \in 0 .. SnMod - 1 /\ SnMod \in Nat \ {0}
  BY Sizes
<1>2. 0 % SnMod = 0
  BY <1>1, ModSmall
<1> QED BY <1>1, <1>2 DEF Gap

\* What lies nowhere but a multiple of SnMod away is as far ahead.
LEMMA GapFrom ==
  ASSUME NEW a \in Int, NEW b \in Int, NEW c \in Int, Gap(a, b) = 0
  PROVE  Gap(a, c) = Gap(b, c)
<1> DEFINE g == Gap(b, c)
           h == Gap(a, c)
           o == Gap(a, b)
<1>1. g \in 0 .. SnMod - 1 /\ SnMod \in Nat \ {0}
  BY GapRange, Sizes
<1>2. h = IF o + g >= SnMod THEN o + g - SnMod ELSE o + g
  BY GapSum
<1>3. o = 0
  OBVIOUS
<1> HIDE DEF g, h, o
<1>4. h = g
  BY <1>1, <1>2, <1>3
<1> QED BY <1>4 DEF g, h

\* A window of at least two frames that divides the sequence numbers, of less
\* than half of them.
Regular == WinSize > 1 /\ 2 * WinSize < SnMod /\ SnMod % WinSize = 0

\* Numbers at distance 0 share a slot.
LEMMA GapSlot ==
  ASSUME Regular, NEW a \in Int, NEW b \in Int, Gap(a, b) = 0
  PROVE  a % WinSize = b % WinSize
<1> DEFINE x == a - b
           q == x \div SnMod
           c == SnMod \div WinSize
<1>1. x \in Int /\ a = b + x
  OBVIOUS
<1>2. q \in Int /\ x = SnMod * q + (x % SnMod)
  <2> HIDE DEF x
  <2> QED BY <1>1, Sizes, ModRange
<1>3. x % SnMod = 0
  BY DEF Gap
<1>4. c \in Int /\ SnMod = WinSize * c + 0
  BY Sizes, ModRange DEF Regular
<1> HIDE DEF x, q, c
<1>5. c * q \in Int /\ a = b + WinSize * (c * q)
  <2>1. SnMod * q = WinSize * (c * q)
    BY <1>2, <1>4, Sizes
  <2> QED BY <1>1, <1>2, <1>3, <1>4, <2>1, Sizes
<1>6. (b + WinSize * (c * q)) % WinSize = b % WinSize
  BY <1>5, Sizes, ModShift
<1> QED BY <1>5, <1>6

\* Numbers of one slot less than a window apart are at distance 0.
LEMMA SlotGap ==
  ASSUME Regular, NEW a \in Int, NEW b \in Int, a % WinSize = b % WinSize, Gap(a, b) < WinSize
  PROVE  Gap(a, b) = 0
<1> DEFINE x == a - b
           g == x % SnMod
           qa == a \div WinSize
           qb == b \div WinSize
           r == b % WinSize
<1>1. /\ qa \in Int /\ qb \in Int /\ r \in 0 .. WinSize - 1
      /\ a = WinSize * qa + r /\ b = WinSize * qb + r
  BY Sizes, ModRange
<1>2. x \in Int /\ 0 \in 0 .. WinSize - 1
  BY Sizes
<1>3. x = WinSize * (qa - qb) + 0 /\ qa - qb \in Int
  <2>1. x = (WinSize * qa + r) - (WinSize * qb + r)
    BY <1>1
  <2> HIDE DEF x, qa, qb, r
  <2> QED BY <1>1, <2>1, Sizes
<1>4. x % WinSize = 0
  <2> DEFINE e == qa - qb
  <2>1. e \in Int /\ x = WinSize * e + 0
    BY <1>3
  <2> HIDE DEF x, e
  <2>2. (WinSize * e + 0) % WinSize = 0
    BY <1>2, <2>1, Sizes, ModUnique
  <2> QED BY <2>1, <2>2
<1>5. g % WinSize = x % WinSize
  <2> HIDE DEF x
  <2> QED BY <1>2, Sizes, ModOfMod DEF Regular
<1>6. g \in 0 .. WinSize - 1
  BY GapRange, Sizes DEF Gap
<1>7. g % WinSize = g
  <2> HIDE DEF g
  <2> QED BY <1>6, Sizes, ModSmall
<1> HIDE DEF x
<1> QED BY <1>4, <1>5, <1>7 DEF Gap, x

\* An u16 that wraps keeps its slot.
LEMMA SlotMod ==
  ASSUME Regular, NEW a \in Int
  PROVE  (a % U16Mod) % WinSize = a % WinSize
<1>1. (U16Mod % SnMod) % WinSize = U16Mod % WinSize
  BY Sizes, ModOfMod DEF Regular
<1>2. 0 % WinSize = 0
  BY Sizes, ModSmall
<1>3. U16Mod % WinSize = 0
  BY <1>1, <1>2, Sizes
<1> QED BY <1>3, Sizes, ModOfMod

-----------------------------------------------------------------------------
(* A session and the functions that work on it. *)

Session == [live : BOOLEAN, win_start : U16, stored_num : Nat, buf : [Slots -> FrameType]]
Work == [ref : Refs, t : Session, r : ReorderType, out : Seq(FrameType)]

\* The slots that hold a frame.
Busy(t) == {k \in Slots : ~IsEmpty(t.buf[k])}

Counted(t) == t.stored_num = Cardinality(Busy(t))
InSlots(t) == \A k \in Busy(t) : t.buf[k].sn % WinSize = k
InWindow(t) == \A k \in Busy(t) : Gap(t.buf[k].sn, t.win_start) <= WinSize

Good(s) == s \in Work /\ Counted(s.t) /\ InSlots(s.t) /\ (Regular => InWindow(s.t))

\* The part of the release list that came between s and z.
Sent(s, z) == Len(s.out) + 1 .. Len(z.out)

\* What left the buffer between s and z went to the tail of the release list,
\* each list once.
HandedUp(s, z) ==
  /\ Len(s.out) <= Len(z.out)
  /\ \A i \in 1 .. Len(s.out) : z.out[i] = s.out[i]
  /\ \A k \in Busy(s.t) \ Busy(z.t) : \E i \in Sent(s, z) : z.out[i] = s.t.buf[k]
  /\ \A i \in Sent(s, z) :
       \E k \in Busy(s.t) \ Busy(z.t) : z.out[i] = s.t.buf[k] /\ z.out[i].sn % WinSize = k
  /\ \A i, j \in Sent(s, z) : i # j => z.out[i].sn % WinSize # z.out[j].sn % WinSize

\* f comes before g, seen from the window of t; one beyond it may come first.
Before(t, f, g) ==
  Gap(f.sn, t.win_start) # WinSize => Gap(f.sn, t.win_start) < Gap(g.sn, t.win_start)

\* What is handed up comes before what is handed up later, or kept; as long as
\* something is kept, the window moves forward less than its size; and what was
\* at its start is gone when it has moved.
Sorted(s, z) ==
  /\ \A i, j \in Sent(s, z) : i < j => Before(s.t, z.out[i], z.out[j])
  /\ \A i \in Sent(s, z), k \in Busy(z.t) : Before(s.t, z.out[i], s.t.buf[k])
  /\ Busy(z.t) # {} => Gap(z.t.win_start, s.t.win_start) <= WinSize
  /\ z.t.win_start # s.t.win_start => s.t.win_start % WinSize \notin Busy(z.t)

\* What z still holds it held in s, and the rest was handed up, in order.
Kept(s, z) ==
  /\ z.ref = s.ref /\ z.t.live = s.t.live
  /\ Busy(z.t) \subseteq Busy(s.t)
  /\ \A k \in Busy(z.t) : z.t.buf[k] = s.t.buf[k]
  /\ HandedUp(s, z)
  /\ Regular => Sorted(s, z)

\* The order of two frames is the same from a window further on.
LEMMA BeforeMoved ==
  ASSUME Regular, NEW w \in Int, NEW v \in Int, Gap(v, w) <= WinSize,
         NEW a \in Int, NEW b \in Int,
         Gap(a, v) <= WinSize, Gap(a, w) <= WinSize, Gap(b, v) <= WinSize, Gap(b, w) <= WinSize,
         Gap(a, v) # WinSize => Gap(a, v) < Gap(b, v),
         Gap(a, w) # WinSize
  PROVE  Gap(a, w) < Gap(b, w)
<1> DEFINE d == Gap(v, w)
           av == Gap(a, v)
           aw == Gap(a, w)
           bv == Gap(b, v)
           bw == Gap(b, w)
<1>1. /\ d \in 0 .. SnMod - 1 /\ av \in 0 .. SnMod - 1 /\ aw \in 0 .. SnMod - 1
      /\ bv \in 0 .. SnMod - 1 /\ bw \in 0 .. SnMod - 1
  BY GapRange
<1>2. /\ aw = IF av + d >= SnMod THEN av + d - SnMod ELSE av + d
      /\ bw = IF bv + d >= SnMod THEN bv + d - SnMod ELSE bv + d
  BY GapSum
<1>3. SnMod \in Nat \ {0} /\ WinSize \in Nat \ {0} /\ 2 * WinSize < SnMod
  BY Sizes DEF Regular
<1>4. /\ d <= WinSize /\ av <= WinSize /\ aw <= WinSize /\ bv <= WinSize /\ bw <= WinSize
      /\ av # WinSize => av < bv
      /\ aw # WinSize
  OBVIOUS
<1> HIDE DEF d, av, aw, bv, bw
<1>5. aw < bw
  BY <1>1, <1>2, <1>3, <1>4
<1> QED BY <1>5 DEF aw, bw

\* What a good session holds: frames, in the window.
LEMMA HeldFrame ==
  ASSUME NEW s, Good(s), NEW k \in Busy(s.t)
  PROVE  /\ k \in Slots /\ s.t.buf[k] \in FrameType /\ s.t.buf[k].sn \in Int
         /\ s.t.buf[k].sn % WinSize = k
         /\ Regular => Gap(s.t.buf[k].sn, s.t.win_start) <= WinSize
<1>1. s.t \in Session /\ k \in Slots
  BY DEF Good, Work, Busy
<1>2. s.t.buf[k] \in FrameType
  BY <1>1 DEF Session
<1>3. s.t.buf[k].sn \in Sn
  BY <1>2 DEF FrameType
<1> QED BY <1>1, <1>2, <1>3, Sizes DEF Good, InSlots, InWindow

\* A frame handed up from what y still had lay in s.
LEMMA HandedUpTrans ==
  ASSUME NEW s, NEW y, NEW z, Good(s), Good(y), Good(z), Kept(s, y), Kept(y, z)
  PROVE  HandedUp(s, z)
<1> DEFINE l == Len(s.out)
           m == Len(y.out)
           n == Len(z.out)
<1>1. l \in Nat /\ m \in Nat /\ n \in Nat
  BY DEF Good, Work
<1>2. /\ Busy(y.t) \subseteq Busy(s.t) /\ Busy(z.t) \subseteq Busy(y.t)
      /\ \A k \in Busy(y.t) : y.t.buf[k] = s.t.buf[k]
      /\ HandedUp(s, y) /\ HandedUp(y, z)
  BY DEF Kept
<1>3. l <= m /\ m <= n /\ (\A i \in 1 .. l : y.out[i] = s.out[i]) /\ (\A i \in 1 .. m : z.out[i] = y.out[i])
  BY <1>2 DEF HandedUp
<1> HIDE DEF l, m, n
<1>4. l <= n /\ \A i \in 1 .. l : z.out[i] = s.out[i]
  <2>1. \A i \in 1 .. l : i \in 1 .. m
    BY <1>1, <1>3
  <2> QED BY <1>1, <1>3, <2>1
<1>5. /\ Sent(s, y) = l + 1 .. m /\ Sent(y, z) = m + 1 .. n /\ Sent(s, z) = l + 1 .. n
  BY DEF Sent, l, m, n
<1>6. /\ Sent(s, z) = Sent(s, y) \cup Sent(y, z)
      /\ \A i \in Sent(s, y) : z.out[i] = y.out[i]
  <2>1. \A i \in l + 1 .. m : i \in 1 .. m
    BY <1>1
  <2>2. l + 1 .. n = (l + 1 .. m) \cup (m + 1 .. n)
    BY <1>1, <1>3
  <2> QED BY <1>3, <1>5, <2>1, <2>2
<1>7. ASSUME NEW k \in Busy(s.t) \ Busy(z.t) PROVE \E i \in Sent(s, z) : z.out[i] = s.t.buf[k]
  <2>1. CASE k \in Busy(y.t)
    <3>1. PICK i \in Sent(y, z) : z.out[i] = y.t.buf[k]
      BY <1>2, <1>7, <2>1 DEF HandedUp
    <3> QED BY <1>2, <1>6, <2>1, <3>1
  <2>2. CASE k \notin Busy(y.t)
    <3>1. PICK i \in Sent(s, y) : y.out[i] = s.t.buf[k]
      BY <1>2, <1>7, <2>2 DEF HandedUp
    <3> QED BY <1>6, <3>1
  <2> QED BY <2>1, <2>2
<1>8. /\ \A i \in Sent(s, y) :
           \E k \in Busy(s.t) \ Busy(y.t) : z.out[i] = s.t.buf[k] /\ z.out[i].sn % WinSize = k
      /\ \A i \in Sent(y, z) :
           \E k \in Busy(y.t) \ Busy(z.t) : z.out[i] = s.t.buf[k] /\ z.out[i].sn % WinSize = k
  BY <1>2, <1>6 DEF HandedUp
<1>9. ASSUME NEW i \in Sent(s, z)
      PROVE  \E k \in Busy(s.t) \ Busy(z.t) : z.out[i] = s.t.buf[k] /\ z.out[i].sn % WinSize = k
  BY <1>2, <1>6, <1>8
<1>10. ASSUME NEW i \in Sent(s, z), NEW j \in Sent(s, z), i # j
       PROVE  z.out[i].sn % WinSize # z.out[j].sn % WinSize
  <2>1. CASE i \in Sent(s, y) /\ j \in Sent(s, y)
    BY <1>2, <1>6, <1>10, <2>1 DEF HandedUp
  <2>2. CASE i \in Sent(y, z) /\ j \in Sent(y, z)
    BY <1>2, <1>10, <2>2 DEF HandedUp
  <2>3. CASE i \in Sent(s, y) /\ j \in Sent(y, z)
    BY <1>8, <2>3
  <2>4. CASE i \in Sent(y, z) /\ j \in Sent(s, y)
    BY <1>8, <2>4
  <2> QED BY <1>6, <2>1, <2>2, <2>3, <2>4
<1> QED BY <1>4, <1>7, <1>9, <1>10 DEF HandedUp, l, n

\* The order is kept over two stretches.
LEMMA SortedTrans ==
  ASSUME Regular, NEW s, NEW y, NEW z, Good(s), Good(y), Good(z), Kept(s, y), Kept(y, z)
  PROVE  Sorted(s, z)
<1> DEFINE l == Len(s.out)
           m == Len(y.out)
           n == Len(z.out)
           u == s.t.win_start
           v == y.t.win_start
           w == z.t.win_start
<1>1. l \in Nat /\ m \in Nat /\ n \in Nat
  BY DEF Good, Work
<1>2. u \in Int /\ v \in Int /\ w \in Int
  BY Sizes DEF Good, Work, Session
<1>3. /\ Busy(y.t) \subseteq Busy(s.t) /\ Busy(z.t) \subseteq Busy(y.t)
      /\ \A k \in Busy(y.t) : y.t.buf[k] = s.t.buf[k]
      /\ HandedUp(s, y) /\ HandedUp(y, z) /\ Sorted(s, y) /\ Sorted(y, z)
  BY DEF Kept
<1>4. l <= m /\ m <= n /\ \A i \in 1 .. m : z.out[i] = y.out[i]
  BY <1>3 DEF HandedUp
<1>5. \A k \in Busy(y.t) : /\ s.t.buf[k].sn \in Int
                           /\ Gap(s.t.buf[k].sn, u) <= WinSize /\ Gap(s.t.buf[k].sn, v) <= WinSize
  <2> SUFFICES ASSUME NEW k \in Busy(y.t)
               PROVE  /\ s.t.buf[k].sn \in Int
                      /\ Gap(s.t.buf[k].sn, u) <= WinSize /\ Gap(s.t.buf[k].sn, v) <= WinSize
    OBVIOUS
  <2>1. k \in Busy(s.t) /\ y.t.buf[k] = s.t.buf[k]
    BY <1>3
  <2> QED BY <2>1, HeldFrame
<1>6. Busy(y.t) # {} => Gap(v, u) <= WinSize
  BY <1>3 DEF Sorted
<1>7. ASSUME NEW j \in Busy(y.t), NEW k \in Busy(y.t), Before(y.t, s.t.buf[j], s.t.buf[k])
      PROVE  Before(s.t, s.t.buf[j], s.t.buf[k])
  <2> DEFINE a == s.t.buf[j].sn
             b == s.t.buf[k].sn
  <2>1. /\ a \in Int /\ b \in Int /\ Gap(a, u) <= WinSize /\ Gap(a, v) <= WinSize
        /\ Gap(b, u) <= WinSize /\ Gap(b, v) <= WinSize /\ Gap(v, u) <= WinSize
    BY <1>5, <1>6
  <2>2. Gap(a, v) # WinSize => Gap(a, v) < Gap(b, v)
    BY <1>7 DEF Before
  <2>3. Gap(a, u) # WinSize => Gap(a, u) < Gap(b, u)
    <3> HIDE DEF a, b, u, v
    <3> QED BY <1>2, <2>1, <2>2, BeforeMoved
  <2> QED BY <2>3 DEF Before
<1> HIDE DEF l, m, n, u, v, w
<1>8. /\ Sent(s, y) = l + 1 .. m /\ Sent(y, z) = m + 1 .. n /\ Sent(s, z) = l + 1 .. n
  BY DEF Sent, l, m, n
<1>9. /\ Sent(s, z) = Sent(s, y) \cup Sent(y, z)
      /\ \A i \in Sent(s, y) : z.out[i] = y.out[i]
      /\ \A i \in Sent(y, z), j \in Sent(s, y) : ~(i < j)
  <2>1. \A i \in l + 1 .. m : i \in 1 .. m
    BY <1>1
  <2>2. l + 1 .. n = (l + 1 .. m) \cup (m + 1 .. n)
    BY <1>1, <1>4
  <2>3. \A i \in m + 1 .. n, j \in l + 1 .. m : ~(i < j)
    BY <1>1
  <2> QED BY <1>4, <1>8, <2>1, <2>2, <2>3
<1>10. ASSUME NEW i \in Sent(y, z)
       PROVE  \E k \in Busy(y.t) \ Busy(z.t) : z.out[i] = s.t.buf[k]
  BY <1>3 DEF HandedUp
<1>11. ASSUME NEW i \in Sent(s, z), NEW j \in Sent(s, z), i < j
       PROVE  Before(s.t, z.out[i], z.out[j])
  <2>1. CASE i \in Sent(s, y) /\ j \in Sent(s, y)
    BY <1>3, <1>9, <1>11, <2>1 DEF Sorted
  <2>2. CASE i \in Sent(s, y) /\ j \in Sent(y, z)
    <3>1. PICK k \in Busy(y.t) : z.out[j] = s.t.buf[k]
      BY <1>10, <2>2
    <3>2. Before(s.t, y.out[i], s.t.buf[k])
      BY <1>3, <2>2 DEF Sorted
    <3> QED BY <1>9, <2>2, <3>1, <3>2
  <2>3. CASE i \in Sent(y, z) /\ j \in Sent(y, z)
    <3>1. PICK k \in Busy(y.t) : z.out[i] = s.t.buf[k]
      BY <1>10, <2>3
    <3>2. PICK k2 \in Busy(y.t) : z.out[j] = s.t.buf[k2]
      BY <1>10, <2>3
    <3>3. Before(y.t, z.out[i], z.out[j])
      BY <1>3, <1>11, <2>3 DEF Sorted
    <3> QED BY <1>7, <3>1, <3>2, <3>3
  <2> QED BY <1>9, <1>11, <2>1, <2>2, <2>3
<1>12. ASSUME NEW i \in Sent(s, z), NEW k \in Busy(z.t)
       PROVE  Before(s.t, z.out[i], s.t.buf[k])
  <2>1. k \in Busy(y.t) /\ y.t.buf[k] = s.t.buf[k]
    BY <1>3
  <2>2. CASE i \in Sent(s, y)
    BY <1>3, <1>9, <2>1, <2>2 DEF Sorted
  <2>3. CASE i \in Sent(y, z)
    <3>1. PICK j \in Busy(y.t) : z.out[i] = s.t.buf[j]
      BY <1>10, <2>3
    <3>2. Before(y.t, z.out[i], y.t.buf[k])
      BY <1>3, <2>3 DEF Sorted
    <3> QED BY <1>7, <2>1, <3>1, <3>2
  <2> QED BY <1>9, <2>2, <2>3
<1>13. ASSUME Busy(z.t) # {} PROVE Gap(w, u) <= WinSize
  <2>1. PICK k \in Busy(z.t) : TRUE
    BY <1>13
  <2> DEFINE a == s.t.buf[k].sn
  <2>2. k \in Busy(y.t) /\ z.t.buf[k] = y.t.buf[k] /\ y.t.buf[k] = s.t.buf[k]
    BY <1>3 DEF Kept
  <2>3. a \in Int /\ Gap(a, u) <= WinSize /\ Gap(a, v) <= WinSize
    BY <1>5, <2>2
  <2>4. Gap(a, w) <= WinSize
    BY <2>2, HeldFrame DEF w
  <2>5. Gap(w, v) <= WinSize /\ Gap(v, u) <= WinSize
    BY <1>3, <1>13, <2>2 DEF Sorted, u, v, w
  <2> HIDE DEF a
  <2>6. /\ Gap(a, u) = IF Gap(a, w) + Gap(w, u) >= SnMod THEN Gap(a, w) + Gap(w, u) - SnMod
                       ELSE Gap(a, w) + Gap(w, u)
        /\ Gap(a, v) = IF Gap(a, w) + Gap(w, v) >= SnMod THEN Gap(a, w) + Gap(w, v) - SnMod
                       ELSE Gap(a, w) + Gap(w, v)
        /\ Gap(a, u) = IF Gap(a, v) + Gap(v, u) >= SnMod THEN Gap(a, v) + Gap(v, u) - SnMod
                       ELSE Gap(a, v) + Gap(v, u)
    BY <1>2, <2>3, GapSum
  <2>7. /\ Gap(a, u) \in 0 .. SnMod - 1 /\ Gap(a, v) \in 0 .. SnMod - 1 /\ Gap(a, w) \in 0 .. SnMod - 1
        /\ Gap(w, u) \in 0 .. SnMod - 1 /\ Gap(w, v) \in 0 .. SnMod - 1 /\ Gap(v, u) \in 0 .. SnMod - 1
    BY <1>2, <2>3, GapRange
  <2>8. SnMod \in Nat \ {0} /\ WinSize \in Nat \ {0} /\ 2 * WinSize < SnMod
    BY Sizes DEF Regular
  <2> DEFINE au == Gap(a, u)
             av == Gap(a, v)
             aw == Gap(a, w)
             wu == Gap(w, u)
             wv == Gap(w, v)
             vu == Gap(v, u)
  <2> HIDE DEF au, av, aw, wu, wv, vu
  <2>9. wu <= WinSize
    BY <2>3, <2>4, <2>5, <2>6, <2>7, <2>8 DEF au, av, aw, wu, wv, vu
  <2> QED BY <2>9 DEF wu
<1>14. ASSUME w # u PROVE u % WinSize \notin Busy(z.t)
  BY <1>3, <1>14 DEF Sorted, u, v, w
<1> QED BY <1>11, <1>12, <1>13, <1>14 DEF Sorted, u, w

\* What is kept twice is kept.
LEMMA KeptTrans ==
  ASSUME NEW s, NEW y, NEW z, Good(s), Good(y), Good(z), Kept(s, y), Kept(y, z)
  PROVE  Kept(s, z)
<1>1. HandedUp(s, z) /\ (Regular => Sorted(s, z))
  BY HandedUpTrans, SortedTrans
<1> QED BY <1>1 DEF Kept

\* A step that hands up nothing.
LEMMA KeptQuiet ==
  ASSUME NEW s, NEW z, Good(s), z.ref = s.ref, z.t.live = s.t.live, z.out = s.out,
         Busy(z.t) = Busy(s.t), \A k \in Busy(s.t) : z.t.buf[k] = s.t.buf[k],
         \/ z.t.win_start = s.t.win_start
         \/ Busy(s.t) = {}
         \/ /\ z.t.win_start = ieee80211_sn_inc(s.t.win_start)
            /\ s.t.win_start % WinSize \notin Busy(s.t)
  PROVE  Kept(s, z)
<1> DEFINE l == Len(s.out)
           u == s.t.win_start
           w == z.t.win_start
<1>1. l \in Nat /\ u \in Int
  <2>1. s.t \in Session /\ s.out \in Seq(FrameType)
    BY DEF Good, Work
  <2>2. u \in U16
    BY <2>1 DEF Session
  <2>3. Len(s.out) \in Nat
    BY <2>1
  <2> HIDE DEF u
  <2> QED BY <2>1, <2>2, <2>3, Sizes
<1>2. Sent(s, z) = {}
  <2>1. l + 1 .. l = {}
    <3> HIDE DEF l
    <3> QED BY <1>1
  <2> QED BY <2>1 DEF Sent
<1>3. HandedUp(s, z)
  <2>1. l <= l
    <3> HIDE DEF l
    <3> QED BY <1>1
  <2> QED BY <1>2, <2>1 DEF HandedUp
<1>4. Gap(u, u) = 0 /\ Gap(ieee80211_sn_inc(u), u) <= WinSize
  <2> HIDE DEF u
  <2>1. u - u = 0 /\ 0 \in 0 .. SnMod - 1
    BY <1>1, Sizes
  <2>2. 0 % SnMod = 0
    BY <2>1, Sizes, ModSmall
  <2>3. Gap(u, u) = 0
    BY <2>1, <2>2 DEF Gap
  <2>4. Gap(ieee80211_sn_inc(u), u) = IF Gap(u, u) = SnMod - 1 THEN 0 ELSE Gap(u, u) + 1
    BY <1>1, GapInc
  <2> QED BY <2>3, <2>4, Sizes
<1>5. ASSUME Busy(z.t) # {} PROVE Gap(w, u) <= WinSize
  <2>1. CASE w = u
    <3> HIDE DEF w, u
    <3> QED BY <1>4, <2>1, Sizes
  <2>2. CASE w = ieee80211_sn_inc(u)
    BY <1>4, <2>2
  <2> QED BY <1>5, <2>1, <2>2
<1>6. Sorted(s, z)
  BY <1>2, <1>5 DEF Sorted
<1> QED BY <1>3, <1>6 DEF Kept

\* Nothing happened.
LEMMA KeptSame == ASSUME NEW s, Good(s) PROVE Kept(s, s)
BY KeptQuiet

\* The slots that hold a frame are finitely many, at most WinSize.
LEMMA BusyCount ==
  ASSUME NEW t
  PROVE  /\ IsFiniteSet(Busy(t)) /\ Cardinality(Busy(t)) \in 0 .. WinSize
         /\ Cardinality(Busy(t)) = 0 <=> Busy(t) = {}
<1>1. 0 \in Int /\ WinSize - 1 \in Int /\ WinSize \in Nat \ {0}
  BY Sizes
<1>2. IsFiniteSet(Slots) /\ Cardinality(Slots) = WinSize
  <2> DEFINE z == 0
             e == WinSize - 1
  <2>1. z \in Int /\ e \in Int
    BY <1>1
  <2>2. IsFiniteSet(z .. e) /\ Cardinality(z .. e) = IF z > e THEN 0 ELSE e - z + 1
    <3> HIDE DEF z, e
    <3> QED BY <2>1, FS_Interval
  <2> QED BY <1>1, <2>2 DEF Slots
<1>3. Busy(t) \subseteq Slots
  BY DEF Busy
<1>4. IsFiniteSet(Busy(t)) /\ Cardinality(Busy(t)) <= Cardinality(Slots)
  BY <1>2, <1>3, FS_Subset
<1>5. Cardinality(Busy(t)) \in Nat
  BY <1>4, FS_CardinalityType
<1>6. Cardinality(Busy(t)) = 0 <=> Busy(t) = {}
  BY <1>4, FS_EmptySet
<1> QED BY <1>1, <1>2, <1>4, <1>5, <1>6

\* Every number has a slot.
LEMMA SlotOf == ASSUME NEW a \in Int PROVE a % WinSize \in Slots
BY Sizes, ModRange DEF Slots

\* The empty slot is a frame, and empty.
LEMMA EmptyFrame == Empty \in FrameType /\ IsEmpty(Empty)
<1>1. 0 \in Sn /\ 0 \in 0 .. MsduAge
  BY Sizes, WindowAssumption DEF Sn
<1> QED BY <1>1 DEF Empty, IsEmpty, FrameType

\* What leaves the slot of the window's first number lets the window move on.
LEMMA WindowStep ==
  ASSUME Regular, NEW t \in Session, InSlots(t), InWindow(t),
         t.win_start % WinSize \notin Busy(t)
  PROVE  \A k \in Busy(t) : Gap(t.buf[k].sn, ieee80211_sn_inc(t.win_start)) <= WinSize
<1> SUFFICES ASSUME NEW k \in Busy(t)
             PROVE  Gap(t.buf[k].sn, ieee80211_sn_inc(t.win_start)) <= WinSize
  OBVIOUS
<1> DEFINE a == t.buf[k].sn
           w == t.win_start
<1>1. a \in Int /\ w \in Int
  BY Sizes DEF Session, FrameType, Busy
<1>2. a % WinSize = k /\ Gap(a, w) <= WinSize
  BY DEF InSlots, InWindow
<1> HIDE DEF a, w
<1>3. Gap(a, w) # 0
  <2> SUFFICES ASSUME Gap(a, w) = 0 PROVE FALSE
    OBVIOUS
  <2>1. a % WinSize = w % WinSize
    BY <1>1, GapSlot
  <2> QED BY <1>2, <2>1 DEF w
<1>4. Gap(a, w) \in 0 .. SnMod - 1
  BY <1>1, GapRange
<1>5. Gap(a, ieee80211_sn_inc(w)) = Gap(a, w) - 1
  BY <1>1, <1>3, GapInc
<1>6. Gap(a, ieee80211_sn_inc(w)) <= WinSize
  BY <1>2, <1>4, <1>5, Sizes
<1> QED BY <1>6 DEF a, w

\* The record Emptied returns.
LEMMA EmptiedForm ==
  ASSUME NEW t \in Session, NEW k \in Slots
  PROVE  Emptied(t, k) =
           [live |-> t.live, win_start |-> ieee80211_sn_inc(t.win_start),
            stored_num |-> t.stored_num - 1, buf |-> [t.buf EXCEPT ![k] = Empty]]
<1> DEFINE n == t.stored_num - 1
           w == ieee80211_sn_inc(t.win_start)
           b == [t.buf EXCEPT ![k] = Empty]
           t1 == [t EXCEPT !.buf = b]
           t2 == [t1 EXCEPT !.stored_num = n]
           t3 == [t2 EXCEPT !.win_start = w]
<1>1. t = [live |-> t.live, win_start |-> t.win_start, stored_num |-> t.stored_num, buf |-> t.buf]
  BY DEF Session
<1>2. Emptied(t, k) = t3
  BY DEF Emptied
<1> HIDE DEF n, w, b
<1>3. t1 = [live |-> t.live, win_start |-> t.win_start, stored_num |-> t.stored_num, buf |-> b]
  BY <1>1
<1> HIDE DEF t1
<1>4. t2 = [live |-> t.live, win_start |-> t.win_start, stored_num |-> n, buf |-> b]
  BY <1>3
<1> HIDE DEF t2
<1>5. t3 = [live |-> t.live, win_start |-> w, stored_num |-> n, buf |-> b]
  BY <1>4
<1> QED BY <1>2, <1>5 DEF n, w, b

\* The record Dequeue returns.
LEMMA DequeueForm ==
  ASSUME NEW s \in Work, NEW k \in Slots
  PROVE  Dequeue(s, k) =
           [ref |-> s.ref, r |-> s.r, out |-> Append(s.out, s.t.buf[k]), t |-> Emptied(s.t, k)]
<1> DEFINE u == Emptied(s.t, k)
           o == Append(s.out, s.t.buf[k])
           s1 == [s EXCEPT !.out = o]
           s2 == [s1 EXCEPT !.t = u]
<1>1. s = [ref |-> s.ref, t |-> s.t, r |-> s.r, out |-> s.out]
  BY DEF Work
<1>2. Dequeue(s, k) = s2
  BY DEF Dequeue
<1> HIDE DEF u, o
<1>3. s1 = [ref |-> s.ref, t |-> s.t, r |-> s.r, out |-> o]
  BY <1>1
<1> HIDE DEF s1
<1>4. s2 = [ref |-> s.ref, t |-> u, r |-> s.r, out |-> o]
  BY <1>3
<1> QED BY <1>2, <1>4 DEF u, o

\* The frame of the window's slot that is handed up comes before the others.
LEMMA KeptOne ==
  ASSUME NEW s, NEW z, Good(s), z.ref = s.ref, z.t.live = s.t.live,
         NEW k \in Busy(s.t), Regular => k = s.t.win_start % WinSize,
         z.out = Append(s.out, s.t.buf[k]), Busy(z.t) = Busy(s.t) \ {k},
         \A j \in Busy(z.t) : z.t.buf[j] = s.t.buf[j],
         z.t.win_start = ieee80211_sn_inc(s.t.win_start)
  PROVE  Kept(s, z)
<1> DEFINE o == s.out
           l == Len(o)
           f == s.t.buf[k]
           u == s.t.win_start
<1>1. o \in Seq(FrameType) /\ l \in Nat /\ u \in Int
  <2>1. s.t \in Session /\ s.out \in Seq(FrameType)
    BY DEF Good, Work
  <2>2. u \in U16
    BY <2>1 DEF Session
  <2>3. Len(s.out) \in Nat
    BY <2>1
  <2> HIDE DEF u
  <2> QED BY <2>1, <2>2, <2>3, Sizes
<1>2. /\ f \in FrameType /\ f.sn \in Int /\ f.sn % WinSize = k
      /\ Regular => Gap(f.sn, u) <= WinSize
  BY HeldFrame
<1> HIDE DEF f
<1>3. Len(z.out) = l + 1 /\ z.out[l + 1] = f /\ \A i \in 1 .. l : z.out[i] = o[i]
  <2> HIDE DEF o
  <2> QED BY <1>1, <1>2 DEF o, f
<1>4. Sent(s, z) = {l + 1}
  <2>1. l + 1 .. l + 1 = {l + 1}
    <3> HIDE DEF l
    <3> QED BY <1>1
  <2> QED BY <1>3, <2>1 DEF Sent
<1> HIDE DEF l
<1>5. HandedUp(s, z)
  <2>1. Len(s.out) <= Len(z.out)
    BY <1>1, <1>3 DEF l, o
  <2>2. \A i \in 1 .. Len(s.out) : z.out[i] = s.out[i]
    BY <1>3 DEF l
  <2>3. Busy(s.t) \ Busy(z.t) = {k}
    OBVIOUS
  <2>4. z.out[l + 1] = s.t.buf[k] /\ z.out[l + 1].sn % WinSize = k
    BY <1>2, <1>3 DEF f
  <2> QED BY <1>4, <2>1, <2>2, <2>3, <2>4 DEF HandedUp
<1>6. ASSUME Regular PROVE Sorted(s, z)
  <2> DEFINE a == f.sn
  <2>1. Gap(a, u) = WinSize \/ Gap(a, u) = 0
    <3>1. a \in Int /\ a % WinSize = u % WinSize /\ Gap(a, u) <= WinSize
      BY <1>2, <1>6
    <3> HIDE DEF a, u
    <3>2. Gap(a, u) \in 0 .. SnMod - 1
      BY <1>1, <3>1, GapRange
    <3>3. Gap(a, u) = WinSize \/ Gap(a, u) < WinSize
      BY <3>1, <3>2, Sizes
    <3> QED BY <1>1, <1>6, <3>1, <3>3, SlotGap
  <2>2. ASSUME NEW j \in Busy(z.t) PROVE Before(s.t, f, s.t.buf[j])
    <3> DEFINE b == s.t.buf[j].sn
    <3>1. j \in Busy(s.t) /\ j # u % WinSize
      BY <1>6
    <3>2. b \in Int /\ b % WinSize = j
      BY <3>1, HeldFrame
    <3>3. Gap(b, u) # 0
      <4> HIDE DEF b, u
      <4> QED BY <1>1, <1>6, <3>1, <3>2, GapSlot
    <3>4. Gap(b, u) \in 0 .. SnMod - 1
      BY <1>1, <3>2, GapRange
    <3>5. 0 < Gap(b, u)
      <4> DEFINE g == Gap(b, u)
      <4> HIDE DEF g
      <4>1. 0 < g
        BY <3>3, <3>4, Sizes DEF g
      <4> QED BY <4>1 DEF g
    <3> QED BY <2>1, <3>5 DEF Before
  <2>3. Gap(z.t.win_start, u) <= WinSize
    <3>1. u - u = 0 /\ 0 \in 0 .. SnMod - 1
      BY <1>1, Sizes
    <3>2. 0 % SnMod = 0
      BY <3>1, Sizes, ModSmall
    <3>3. Gap(u, u) = 0
      BY <3>1, <3>2 DEF Gap
    <3>4. Gap(ieee80211_sn_inc(u), u) = IF Gap(u, u) = SnMod - 1 THEN 0 ELSE Gap(u, u) + 1
      BY <1>1, GapInc
    <3> QED BY <3>3, <3>4, Sizes
  <2>4. u % WinSize \notin Busy(z.t)
    BY <1>6
  <2>5. \A i, j \in Sent(s, z) : ~(i < j)
    BY <1>1, <1>4
  <2> QED BY <1>3, <1>4, <2>2, <2>3, <2>4, <2>5 DEF Sorted
<1> QED BY <1>5, <1>6 DEF Kept

\* Handing up the frame of a slot, under Regular that of win_start, keeps a
\* session good.
LEMMA DequeueGood ==
  ASSUME NEW s, Good(s), NEW k \in Busy(s.t), Regular => k = s.t.win_start % WinSize
  PROVE  /\ Good(Dequeue(s, k)) /\ Kept(s, Dequeue(s, k)) /\ Dequeue(s, k).r = s.r
         /\ Busy(Dequeue(s, k).t) = Busy(s.t) \ {k}
         /\ Dequeue(s, k).t.win_start = ieee80211_sn_inc(s.t.win_start)
<1> DEFINE z == Dequeue(s, k)
<1>0. s \in Work /\ s.t \in Session /\ k \in Slots
  BY DEF Good, Work, Busy
<1>1. /\ z = [ref |-> s.ref, r |-> s.r, out |-> Append(s.out, s.t.buf[k]), t |-> z.t]
      /\ z.t = [live |-> s.t.live, win_start |-> ieee80211_sn_inc(s.t.win_start),
                stored_num |-> s.t.stored_num - 1, buf |-> [s.t.buf EXCEPT ![k] = Empty]]
  BY <1>0, DequeueForm, EmptiedForm
<1> HIDE DEF z
<1>2. /\ z.ref = s.ref /\ z.r = s.r /\ z.out = Append(s.out, s.t.buf[k])
      /\ z.t.live = s.t.live /\ z.t.win_start = ieee80211_sn_inc(s.t.win_start)
      /\ z.t.stored_num = s.t.stored_num - 1 /\ z.t.buf = [s.t.buf EXCEPT ![k] = Empty]
  <2>1. z.ref = s.ref /\ z.r = s.r /\ z.out = Append(s.out, s.t.buf[k])
    BY <1>1
  <2>2. z.t.live = s.t.live /\ z.t.win_start = ieee80211_sn_inc(s.t.win_start)
    BY <1>1
  <2>3. z.t.stored_num = s.t.stored_num - 1 /\ z.t.buf = [s.t.buf EXCEPT ![k] = Empty]
    BY <1>1
  <2> QED BY <2>1, <2>2, <2>3
<1>3. s.t.buf \in [Slots -> FrameType]
  BY <1>0 DEF Session
<1>4. /\ z.t.buf \in [Slots -> FrameType]
      /\ \A j \in Slots : z.t.buf[j] = IF j = k THEN Empty ELSE s.t.buf[j]
  BY <1>0, <1>2, <1>3, EmptyFrame
<1>5. Busy(z.t) = Busy(s.t) \ {k}
  BY <1>4, EmptyFrame DEF Busy
<1>6. /\ Cardinality(Busy(z.t)) = Cardinality(Busy(s.t)) - 1
      /\ Cardinality(Busy(s.t)) \in Nat \ {0}
  <2>1. IsFiniteSet(Busy(s.t))
    BY BusyCount
  <2>2. Cardinality(Busy(s.t) \ {k}) = Cardinality(Busy(s.t)) - 1
    BY <2>1, FS_RemoveElement
  <2>3. Cardinality(Busy(s.t)) \in Nat /\ Cardinality(Busy(s.t)) # 0
    BY BusyCount, Sizes
  <2> QED BY <1>5, <2>2, <2>3
<1>7. Counted(z.t) /\ z.t.stored_num \in Nat
  BY <1>2, <1>6 DEF Counted, Good
<1>8. ieee80211_sn_inc(s.t.win_start) \in U16
  BY <1>0, SnRange, Sizes DEF Session
<1>9. z.t \in Session
  <2>1. z.t = [live |-> z.t.live, win_start |-> z.t.win_start, stored_num |-> z.t.stored_num,
               buf |-> z.t.buf]
    BY <1>1, <1>2
  <2>2. z.t.live \in BOOLEAN /\ z.t.win_start \in U16
    BY <1>0, <1>2, <1>8 DEF Session
  <2> QED BY <1>4, <1>7, <2>1, <2>2 DEF Session
<1>10. z \in Work
  <2>1. s.t.buf[k] \in FrameType
    BY <1>0, <1>3
  <2>2. s.ref \in Refs /\ s.r \in ReorderType /\ s.out \in Seq(FrameType)
    BY <1>0 DEF Work
  <2>3. Append(s.out, s.t.buf[k]) \in Seq(FrameType)
    BY <2>1, <2>2
  <2> QED BY <1>1, <1>9, <2>2, <2>3 DEF Work
<1>11. InSlots(z.t)
  BY <1>4, <1>5 DEF InSlots, Good, Busy
<1>12. Kept(s, z)
  <2>1. \A j \in Busy(z.t) : z.t.buf[j] = s.t.buf[j]
    BY <1>4, <1>5 DEF Busy
  <2> QED BY <1>2, <1>5, <2>1, KeptOne
<1>13. ASSUME Regular PROVE InWindow(z.t)
  <2> DEFINE u == [s.t EXCEPT !.buf = z.t.buf]
  <2>1. u = [live |-> s.t.live, win_start |-> s.t.win_start, stored_num |-> s.t.stored_num,
             buf |-> z.t.buf]
    BY <1>0 DEF Session
  <2>2. u.win_start = s.t.win_start /\ u.buf = z.t.buf /\ u \in Session
    BY <1>0, <1>4, <2>1 DEF Session
  <2> HIDE DEF u
  <2>3. Busy(u) = Busy(z.t)
    BY <2>2 DEF Busy
  <2>4. InSlots(u)
    BY <1>11, <2>2, <2>3 DEF InSlots
  <2>5. InWindow(u)
    BY <1>4, <1>5, <1>13, <2>2, <2>3 DEF InWindow, Good, Busy
  <2>6. u.win_start % WinSize \notin Busy(u)
    BY <1>5, <1>13, <2>2, <2>3
  <2>7. \A j \in Busy(u) : Gap(u.buf[j].sn, ieee80211_sn_inc(u.win_start)) <= WinSize
    BY <1>13, <2>2, <2>4, <2>5, <2>6, WindowStep
  <2> QED BY <1>2, <2>2, <2>3, <2>7 DEF InWindow
<1>14. Good(z)
  BY <1>7, <1>10, <1>11, <1>13 DEF Good
<1> QED BY <1>2, <1>5, <1>12, <1>14 DEF z

\* The window of a session moved to w, its buffer untouched.
LEMMA MovedForm ==
  ASSUME NEW s \in Work, NEW w \in U16
  PROVE  LET z == [s EXCEPT !.t.win_start = w]
         IN  /\ z \in Work /\ z.ref = s.ref /\ z.r = s.r /\ z.out = s.out
             /\ z.t.live = s.t.live /\ z.t.win_start = w /\ z.t.stored_num = s.t.stored_num
             /\ z.t.buf = s.t.buf
<1> DEFINE u == [s.t EXCEPT !.win_start = w]
           z == [s EXCEPT !.t = u]
<1>1. s = [ref |-> s.ref, t |-> s.t, r |-> s.r, out |-> s.out]
  BY DEF Work
<1>2. s.t \in Session /\ s.ref \in Refs /\ s.r \in ReorderType /\ s.out \in Seq(FrameType)
  BY DEF Work
<1>3. s.t = [live |-> s.t.live, win_start |-> s.t.win_start, stored_num |-> s.t.stored_num,
             buf |-> s.t.buf]
  BY <1>2 DEF Session
<1>4. u = [live |-> s.t.live, win_start |-> w, stored_num |-> s.t.stored_num, buf |-> s.t.buf]
  BY <1>3
<1>5. u \in Session
  BY <1>2, <1>4 DEF Session
<1>6. [s EXCEPT !.t.win_start = w] = z
  OBVIOUS
<1>7. /\ u.live = s.t.live /\ u.win_start = w /\ u.stored_num = s.t.stored_num
      /\ u.buf = s.t.buf
  BY <1>4
<1> HIDE DEF u
<1>8. z = [ref |-> s.ref, t |-> u, r |-> s.r, out |-> s.out]
  BY <1>1
<1> HIDE DEF z
<1>9. z \in Work
  BY <1>2, <1>5, <1>8 DEF Work
<1>10. z.t = u /\ z.ref = s.ref /\ z.r = s.r /\ z.out = s.out
  BY <1>8
<1> QED BY <1>6, <1>7, <1>9, <1>10

\* A window that moves keeps a session good if it moves by one, past a slot
\* that holds nothing, or anywhere over an empty buffer.
LEMMA MovedGood ==
  ASSUME NEW s, Good(s), NEW w \in U16,
         \/ Busy(s.t) = {}
         \/ w = ieee80211_sn_inc(s.t.win_start) /\ s.t.win_start % WinSize \notin Busy(s.t)
  PROVE  LET z == [s EXCEPT !.t.win_start = w]
         IN  /\ Good(z) /\ Kept(s, z) /\ z.r = s.r
             /\ Busy(z.t) = Busy(s.t) /\ z.t.win_start = w
<1> DEFINE z == [s EXCEPT !.t.win_start = w]
<1>0. s \in Work /\ s.t \in Session
  BY DEF Good, Work
<1>1. /\ z \in Work /\ z.ref = s.ref /\ z.r = s.r /\ z.out = s.out
      /\ z.t.live = s.t.live /\ z.t.win_start = w /\ z.t.stored_num = s.t.stored_num
      /\ z.t.buf = s.t.buf
  BY <1>0, MovedForm
<1> HIDE DEF z
<1>2. Busy(z.t) = Busy(s.t)
  BY <1>1 DEF Busy
<1>3. Counted(z.t) /\ InSlots(z.t) /\ Kept(s, z)
  <2>1. Kept(s, z)
    BY <1>1, <1>2, KeptQuiet
  <2> QED BY <1>1, <1>2, <2>1 DEF Good, Counted, InSlots
<1>4. ASSUME Regular PROVE InWindow(z.t)
  <2>1. CASE Busy(s.t) = {}
    BY <1>2, <2>1 DEF InWindow
  <2>2. CASE w = ieee80211_sn_inc(s.t.win_start) /\ s.t.win_start % WinSize \notin Busy(s.t)
    <3>1. \A k \in Busy(s.t) : Gap(s.t.buf[k].sn, ieee80211_sn_inc(s.t.win_start)) <= WinSize
      BY <1>0, <1>4, <2>2, WindowStep DEF Good
    <3> QED BY <1>1, <1>2, <2>2, <3>1 DEF InWindow
  <2> QED BY <2>1, <2>2
<1> QED BY <1>1, <1>2, <1>3, <1>4 DEF Good, z

\* What a round of skw_reorder_force_release does, if it does anything: the
\* buffer is empty and the window jumps, or it moves on past an empty slot.
LEMMA ForceRoundGood ==
  ASSUME NEW s, Good(s), NEW to_sn \in U16
  PROVE  LET z == ForceRound(s, to_sn)
             w == s.t.win_start
         IN  /\ Good(z) /\ Kept(s, z) /\ z.r = s.r
             /\ ~ieee80211_sn_less(w, ieee80211_sn_inc(to_sn)) => z = s
             /\ ieee80211_sn_less(w, ieee80211_sn_inc(to_sn)) =>
                  \/ z.t.win_start = to_sn /\ Busy(z.t) = {}
                  \/ /\ z.t.win_start = ieee80211_sn_inc(w)
                     /\ Regular => w % WinSize \notin Busy(z.t)
<1> DEFINE z == ForceRound(s, to_sn)
           w == s.t.win_start
           k == w % WinSize
           P == /\ Good(z) /\ Kept(s, z) /\ z.r = s.r
                /\ \/ z.t.win_start = to_sn /\ Busy(z.t) = {}
                   \/ /\ z.t.win_start = ieee80211_sn_inc(w)
                      /\ Regular => k \notin Busy(z.t)
<1>0. /\ s \in Work /\ s.t \in Session /\ w \in U16 /\ k \in Slots
      /\ ieee80211_sn_inc(w) \in U16
  BY Sizes, SlotOf, SnRange DEF Good, Work, Session
<1>1. CASE ~ieee80211_sn_less(w, ieee80211_sn_inc(to_sn))
  <2>1. z = s
    BY <1>1 DEF ForceRound
  <2>2. Kept(s, s)
    BY KeptSame
  <2> QED BY <1>1, <2>1, <2>2
<1>2. CASE ieee80211_sn_less(w, ieee80211_sn_inc(to_sn)) /\ s.t.stored_num = 0
  <2>1. z = [s EXCEPT !.t.win_start = to_sn]
    BY <1>2 DEF ForceRound
  <2>2. Busy(s.t) = {}
    BY <1>2, BusyCount DEF Good, Counted
  <2>3. P
    <3> HIDE DEF z, w, k
    <3> QED BY <2>1, <2>2, MovedGood
  <2> QED BY <1>2, <2>3
<1>3. CASE /\ ieee80211_sn_less(w, ieee80211_sn_inc(to_sn)) /\ s.t.stored_num # 0
           /\ IsEmpty(s.t.buf[k])
  <2>1. z = [s EXCEPT !.t.win_start = ieee80211_sn_inc(w)]
    BY <1>3 DEF ForceRound
  <2>2. k \notin Busy(s.t)
    BY <1>3 DEF Busy
  <2>3. P
    <3>1. /\ Good(z) /\ Kept(s, z) /\ z.r = s.r /\ Busy(z.t) = Busy(s.t)
          /\ z.t.win_start = ieee80211_sn_inc(w)
      <4> HIDE DEF z
      <4> QED BY <1>0, <2>1, <2>2, MovedGood
    <3> QED BY <2>2, <3>1
  <2> QED BY <1>3, <2>3
<1>4. CASE /\ ieee80211_sn_less(w, ieee80211_sn_inc(to_sn)) /\ s.t.stored_num # 0
           /\ ~IsEmpty(s.t.buf[k])
  <2>1. z = Dequeue(s, k)
    BY <1>4 DEF ForceRound
  <2>2. k \in Busy(s.t)
    BY <1>0, <1>4 DEF Busy
  <2>3. P
    <3>1. /\ Good(z) /\ Kept(s, z) /\ z.r = s.r /\ Busy(z.t) = Busy(s.t) \ {k}
          /\ z.t.win_start = ieee80211_sn_inc(w)
      <4> HIDE DEF z
      <4> QED BY <2>1, <2>2, DequeueGood
    <3> QED BY <3>1
  <2> QED BY <1>4, <2>3
<1> QED BY <1>1, <1>2, <1>3, <1>4
-----------------------------------------------------------------------------
(* Loops. *)

\* Induction up to a bound, over the members of a set.
LEMMA UpTo ==
  ASSUME NEW N \in Nat, NEW T, 0 \in T, \A n \in 1 .. N : n - 1 \in T => n \in T
  PROVE  \A n \in 0 .. N : n \in T
<1> DEFINE R == {ss \in Nat \X Nat : ss[1] < ss[2]}
           F == (0 .. N) \ T
<1>1. IsWellFoundedOn(R, Nat)
  BY NatLessThanWellFounded DEF OpToRel
<1>2. SUFFICES ASSUME F # {} PROVE FALSE
  BY DEF F
<1>3. F \subseteq Nat
  OBVIOUS
<1>4. PICK m \in F : \A k \in F : ~ (<<k, m>> \in R)
  <2> HIDE DEF F, R
  <2> QED BY ONLY <1>1, <1>2, <1>3, WFMin
<1>5. m \in 1 .. N
  OBVIOUS
<1>6. m - 1 \in F
  BY <1>5, <1>4
<1>7. <<m - 1, m>> \in R
  BY <1>5
<1> QED BY <1>4, <1>6, <1>7

\* The rounds of a loop over the states S, and what a run of N of them is.
Rounds(N, S) == [1 .. N -> [S -> S]]
HasRun(N, S, x, F) ==
  \E h \in [0 .. N -> S] : h[0] = x /\ \A n \in 1 .. N : h[n] = F[n][h[n - 1]]

\* A loop of N rounds over the states S has a run from x.
LEMMA Iterate ==
  ASSUME NEW N \in Nat, NEW S, NEW x \in S, NEW F \in Rounds(N, S)
  PROVE  HasRun(N, S, x, F)
<1> DEFINE Run(h, m) == h[0] = x /\ \A n \in 1 .. m : h[n] = F[n][h[n - 1]]
           T == {m \in 0 .. N : \E h \in [0 .. m -> S] : Run(h, m)}
<1>0. F \in [1 .. N -> [S -> S]]
  BY DEF Rounds
<1>1. 0 \in T
  <2> DEFINE h == [n \in 0 .. 0 |-> x]
  <2>1. h \in [0 .. 0 -> S] /\ Run(h, 0)
    OBVIOUS
  <2> HIDE DEF h, Run
  <2> QED BY <2>1
<1>2. ASSUME NEW m \in 1 .. N, m - 1 \in T PROVE m \in T
  <2>1. PICK h \in [0 .. m - 1 -> S] : Run(h, m - 1)
    <3> HIDE DEF Run
    <3> QED BY <1>2
  <2> DEFINE y == F[m][h[m - 1]]
             g == [n \in 0 .. m |-> IF n = m THEN y ELSE h[n]]
  <2>2. m - 1 \in 0 .. m - 1 /\ m \in 0 .. N
    OBVIOUS
  <2>3. y \in S
    <3>1. h[m - 1] \in S /\ F[m] \in [S -> S]
      BY <1>0, <2>2
    <3> QED BY <3>1
  <2> HIDE DEF y
  <2>4. g \in [0 .. m -> S]
    BY <2>3
  <2>5. /\ g[0] = h[0] /\ g[m] = y /\ g[m - 1] = h[m - 1]
        /\ \A n \in 1 .. m - 1 : g[n] = h[n] /\ g[n - 1] = h[n - 1]
    OBVIOUS
  <2>6. \A n \in 1 .. m : n = m \/ n \in 1 .. m - 1
    OBVIOUS
  <2> HIDE DEF g
  <2>7. Run(g, m)
    <3>1. g[0] = x
      BY <2>1, <2>5
    <3>2. ASSUME NEW n \in 1 .. m PROVE g[n] = F[n][g[n - 1]]
      <4>1. CASE n = m
        BY <2>5, <4>1 DEF y
      <4>2. CASE n \in 1 .. m - 1
        <5>1. h[n] = F[n][h[n - 1]]
          BY <2>1, <4>2
        <5> QED BY <2>5, <4>2, <5>1
      <4> QED BY <2>6, <4>1, <4>2
    <3> QED BY <3>1, <3>2
  <2> HIDE DEF Run
  <2> QED BY <2>2, <2>4, <2>7
<1>3. \A m \in 0 .. N : m \in T
  <2> HIDE DEF T
  <2> QED BY <1>1, <1>2, UpTo
<1>4. N \in T
  BY <1>3
<1> QED BY <1>4 DEF HasRun

\* Only the timer and the to-do entry of the struct change.
LEMMA SetR ==
  ASSUME NEW s, Good(s), NEW r \in ReorderType
  PROVE  LET z == [s EXCEPT !.r = r]
         IN  /\ Good(z) /\ Kept(s, z) /\ z.r = r /\ z.t = s.t /\ z.ref = s.ref /\ z.out = s.out
<1> DEFINE z == [s EXCEPT !.r = r]
<1>1. s \in Work /\ s = [ref |-> s.ref, t |-> s.t, r |-> s.r, out |-> s.out]
  BY DEF Good, Work
<1>2. z = [ref |-> s.ref, t |-> s.t, r |-> r, out |-> s.out]
  BY <1>1
<1> HIDE DEF z
<1>3. z.r = r /\ z.t = s.t /\ z.ref = s.ref /\ z.out = s.out
  BY <1>2
<1>4. z \in Work
  BY <1>1, <1>2 DEF Work
<1>5. Good(z) /\ Kept(s, z)
  <2>1. Kept(s, z)
    BY <1>3, KeptQuiet
  <2> QED BY <1>3, <1>4, <2>1 DEF Good
<1> QED BY <1>3, <1>5 DEF z

\* del_timer leaves the session alone.
LEMMA DelTimerGood ==
  ASSUME NEW s, Good(s)
  PROVE  LET z == del_timer(s)
         IN  /\ Good(z) /\ Kept(s, z) /\ z.t = s.t /\ z.ref = s.ref /\ z.out = s.out
             /\ z.r = [s.r EXCEPT !.pending = FALSE] /\ z.r \in ReorderType
<1> DEFINE r == [s.r EXCEPT !.pending = FALSE]
<1>1. s.r \in ReorderType
  BY DEF Good, Work
<1>2. r \in ReorderType
  BY <1>1 DEF ReorderType
<1>3. del_timer(s) = [s EXCEPT !.r = r]
  BY DEF del_timer
<1> HIDE DEF r
<1>4. LET z == [s EXCEPT !.r = r]
      IN  /\ Good(z) /\ Kept(s, z) /\ z.r = r /\ z.t = s.t /\ z.ref = s.ref /\ z.out = s.out
  BY <1>2, SetR
<1> QED BY <1>2, <1>3, <1>4 DEF r

\* The window is past to_sn, and the frame of to_sn gone, or the buffer is empty.
Past(z, to_sn) ==
  \/ z.t.win_start = to_sn /\ Busy(z.t) = {}
  \/ /\ Gap(z.t.win_start, ieee80211_sn_inc(to_sn)) = 0
     /\ Regular => to_sn % WinSize \notin Busy(z.t)

\* After n rounds the window is past to_sn or n steps nearer to it.
LEMMA ForceRoundNearer ==
  ASSUME NEW s, Good(s), NEW to_sn \in U16, NEW n \in Nat,
         LET w == s.t.win_start
             target == ieee80211_sn_inc(to_sn)
         IN  Past(s, to_sn) \/ (ieee80211_sn_less(w, target) /\ Gap(w, target) >= n)
  PROVE  LET z == ForceRound(s, to_sn)
             w == z.t.win_start
             target == ieee80211_sn_inc(to_sn)
         IN  Past(z, to_sn) \/ (ieee80211_sn_less(w, target) /\ Gap(w, target) >= n + 1)
<1> DEFINE z == ForceRound(s, to_sn)
           w == s.t.win_start
           w1 == z.t.win_start
           target == ieee80211_sn_inc(to_sn)
           L == ieee80211_sn_less(w, target)
           L1 == ieee80211_sn_less(w1, target)
<1>1. /\ Good(z) /\ Kept(s, z)
      /\ ~L => z = s
      /\ L => \/ w1 = to_sn /\ Busy(z.t) = {}
              \/ w1 = ieee80211_sn_inc(w) /\ (Regular => w % WinSize \notin Busy(z.t))
  BY ForceRoundGood
<1>2. w \in Int /\ w1 \in Int /\ to_sn \in Int /\ target \in Int /\ target \in Sn
  <2>1. w \in U16 /\ w1 \in U16
    BY <1>1 DEF Good, Work, Session
  <2> QED BY <2>1, SnRange, Sizes
<1>3. SnMod \div 2 \in Nat /\ SnMod \div 2 < SnMod /\ SnMod \in Nat \ {0}
  <2>1. SnMod \in Nat \ {0}
    BY Sizes
  <2> QED BY <2>1
<1> HIDE DEF z, w, w1, target
<1>g. /\ L <=> Gap(w, target) > SnMod \div 2
      /\ L1 <=> Gap(w1, target) > SnMod \div 2
      /\ Gap(w, target) \in 0 .. SnMod - 1
  BY <1>2, LessGap, GapRange
<1>4. CASE w1 = to_sn /\ Busy(z.t) = {}
  BY <1>4 DEF Past, z, w1
<1>5. CASE L /\ w1 = ieee80211_sn_inc(w) /\ (Regular => w % WinSize \notin Busy(z.t))
  <2>1. Gap(w1, target) = IF Gap(w, target) = SnMod - 1 THEN 0 ELSE Gap(w, target) + 1
    BY <1>2, <1>5, GapInc
  <2>2. CASE Gap(w, target) = SnMod - 1
    <3>1. Gap(w1, target) = 0
      BY <2>1, <2>2
    <3>2. Gap(w, to_sn) = 0
      <4>1. Gap(w, target) = IF Gap(w, to_sn) = 0 THEN SnMod - 1 ELSE Gap(w, to_sn) - 1
        BY <1>2, GapInc DEF target
      <4>2. Gap(w, to_sn) \in 0 .. SnMod - 1
        BY <1>2, GapRange
      <4> QED BY <1>3, <2>2, <4>1, <4>2
    <3>3. Regular => to_sn % WinSize \notin Busy(z.t)
      <4>1. Regular => to_sn % WinSize = w % WinSize
        BY <1>2, <3>2, GapSlot
      <4> QED BY <1>5, <4>1
    <3> QED BY <3>1, <3>3 DEF Past, z, w1, target
  <2>3. CASE Gap(w, target) # SnMod - 1
    <3>1. Gap(w1, target) = Gap(w, target) + 1
      BY <2>1, <2>3
    <3>2. L1
      BY <1>g, <1>3, <1>5, <3>1
    <3>3. Past(s, to_sn) => Past(z, to_sn)
      <4>1. CASE Busy(s.t) = {}
        <5>1. Busy(z.t) = {}
          BY <1>1, <4>1 DEF Kept
        <5> SUFFICES ASSUME s.t.win_start = to_sn PROVE Past(z, to_sn)
          <6>1. CASE Gap(s.t.win_start, ieee80211_sn_inc(to_sn)) = 0
            BY <1>g, <1>3, <1>5, <6>1 DEF w, target
          <6> QED BY <6>1 DEF Past
        <5>2. w1 = target
          BY <1>5 DEF w, target
        <5>3. Gap(w1, target) = 0
          BY <1>2, <5>2, GapEqual
        <5> QED BY <5>1, <5>3 DEF Past, z, w1, target
      <4>2. CASE Gap(s.t.win_start, ieee80211_sn_inc(to_sn)) = 0
        BY <1>g, <1>3, <1>5, <4>2 DEF w, target
      <4> QED BY <4>1, <4>2 DEF Past
    <3>4. CASE Past(s, to_sn)
      BY <3>3, <3>4 DEF z
    <3>5. CASE Gap(w, target) >= n
      <4>1. Gap(w1, target) >= n + 1
        BY <1>g, <3>1, <3>5
      <4> QED BY <3>2, <4>1 DEF z, w1, target
    <3> QED BY <3>4, <3>5 DEF w, target
  <2> QED BY <2>2, <2>3
<1>6. CASE ~L
  BY <1>1, <1>6 DEF z, w, target
<1> QED BY <1>1, <1>4, <1>5, <1>6

\* skw_reorder_force_release hands up frames and loses none of those it
\* leaves; it stops the timer of its own session at most; and the window ends
\* past to_sn unless it was there before.
LEMMA ForceReleaseGood ==
  ASSUME NEW s, Good(s), NEW to_sn \in U16
  PROVE  LET z == skw_reorder_force_release(s, to_sn)
             L == ieee80211_sn_less(s.t.win_start, ieee80211_sn_inc(to_sn))
         IN  /\ Good(z) /\ Kept(s, z)
             /\ z.r = s.r \/ (s.r.ref_cnt = s.ref /\ z.r = [s.r EXCEPT !.pending = FALSE])
             /\ z.r \in ReorderType
             /\ L => Past(z, to_sn)
             /\ ~L => z.t = s.t
<1> DEFINE target == ieee80211_sn_inc(to_sn)
           L == ieee80211_sn_less(s.t.win_start, target)
           late == /\ s.r.pending
                   /\ s.r.ref_cnt = s.ref
                   /\ \/ ieee80211_sn_less(s.r.expired_sn, to_sn)
                      \/ ieee80211_sn_less(to_sn, s.t.win_start)
           x == IF late THEN del_timer(s) ELSE s
           Run(h) == h = [n \in 0 .. SnMod |-> IF n = 0 THEN x ELSE ForceRound(h[n - 1], to_sn)]
           g == CHOOSE h : Run(h)
           S == {z \in Work : Good(z)}
           F == [n \in 1 .. SnMod |-> [z \in S |-> ForceRound(z, to_sn)]]
<1>z. skw_reorder_force_release(s, to_sn) = g[SnMod]
  BY DEF skw_reorder_force_release
<1>m. SnMod \in Nat \ {0} /\ SnMod \in 0 .. SnMod /\ 0 \in 0 .. SnMod
  BY Sizes
<1>x. /\ Good(x) /\ Kept(s, x) /\ x.t = s.t
      /\ x.r = s.r \/ (s.r.ref_cnt = s.ref /\ x.r = [s.r EXCEPT !.pending = FALSE])
      /\ x.r \in ReorderType
  <2>1. CASE late
    <3>1. x = del_timer(s)
      BY <2>1
    <3>2. s.r.ref_cnt = s.ref
      BY <2>1
    <3> HIDE DEF x
    <3> QED BY <3>1, <3>2, DelTimerGood
  <2>2. CASE ~late
    <3>1. x = s
      BY <2>2
    <3> HIDE DEF x
    <3>2. Kept(s, s)
      BY KeptSame
    <3>3. s.r \in ReorderType
      BY DEF Good, Work
    <3> QED BY <3>1, <3>2, <3>3
  <2> QED BY <2>1, <2>2
<1>S. x \in S /\ \A z \in S : Good(z)
  <2> HIDE DEF x
  <2> QED BY <1>x DEF Good
<1>F. \A z \in S : ForceRound(z, to_sn) \in S
  <2> SUFFICES ASSUME NEW z \in S PROVE ForceRound(z, to_sn) \in S
    OBVIOUS
  <2>1. Good(ForceRound(z, to_sn))
    BY <1>S, ForceRoundGood
  <2> QED BY <2>1 DEF Good
<1> HIDE DEF x, S
<1>1. PICK h \in [0 .. SnMod -> S] : h[0] = x /\ \A n \in 1 .. SnMod : h[n] = F[n][h[n - 1]]
  <2>1. F \in Rounds(SnMod, S)
    BY <1>F DEF Rounds
  <2>2. SnMod \in Nat /\ x \in S
    BY <1>m, <1>S
  <2> HIDE DEF F
  <2>3. HasRun(SnMod, S, x, F)
    BY <2>1, <2>2, Iterate
  <2> QED BY <2>3 DEF HasRun
<1>2. \A n \in 1 .. SnMod : h[n - 1] \in S /\ h[n] = ForceRound(h[n - 1], to_sn)
  <2> SUFFICES ASSUME NEW n \in 1 .. SnMod
               PROVE  h[n - 1] \in S /\ h[n] = ForceRound(h[n - 1], to_sn)
    OBVIOUS
  <2>1. n - 1 \in 0 .. SnMod
    BY <1>m
  <2>2. h[n - 1] \in S
    BY <2>1
  <2>3. h[n] = F[n][h[n - 1]]
    BY <1>1
  <2>4. F[n][h[n - 1]] = ForceRound(h[n - 1], to_sn)
    BY <2>2
  <2> HIDE DEF F
  <2> QED BY <2>2, <2>3, <2>4
<1>3. Run(h)
  <2>1. h = [n \in 0 .. SnMod |-> h[n]]
    OBVIOUS
  <2>2. \A n \in 0 .. SnMod : h[n] = IF n = 0 THEN x ELSE ForceRound(h[n - 1], to_sn)
    <3>1. \A n \in 0 .. SnMod : n = 0 \/ n \in 1 .. SnMod
      BY <1>m
    <3> QED BY <1>1, <1>2, <3>1
  <2> QED BY <2>1, <2>2
<1>4. Run(g)
  <2> HIDE DEF Run
  <2> QED BY <1>3
<1>5. g[0] = x /\ \A n \in 1 .. SnMod : g[n] = ForceRound(g[n - 1], to_sn)
  <2>1. \A n \in 1 .. SnMod : n \in 0 .. SnMod /\ n # 0
    BY <1>m
  <2> HIDE DEF g
  <2> QED BY <1>4, <1>m, <2>1
<1> HIDE DEF g, Run, F
<1> DEFINE J(n) == /\ Good(g[n]) /\ Kept(s, g[n]) /\ g[n].r = x.r
                   /\ ~L => g[n].t = s.t
                   /\ L => \/ Past(g[n], to_sn)
                           \/ /\ ieee80211_sn_less(g[n].t.win_start, target)
                              /\ Gap(g[n].t.win_start, target) >= n
           T == {n \in 0 .. SnMod : J(n)}
<1>6. 0 \in T
  <2>1. target \in Int /\ s.t.win_start \in Int
    BY Sizes, SnRange DEF Good, Work, Session
  <2>2. Gap(s.t.win_start, target) \in 0 .. SnMod - 1
    BY <2>1, GapRange
  <2>3. J(0)
    <3>1. Gap(s.t.win_start, target) >= 0
      BY <2>2
    <3>2. g[0] = x /\ x.t = s.t
      BY <1>5, <1>x
    <3>3. g[0].t.win_start = s.t.win_start
      BY <3>2
    <3>4. Good(g[0]) /\ Kept(s, g[0]) /\ g[0].r = x.r /\ g[0].t = s.t
      BY <3>2, <1>x
    <3> HIDE DEF target
    <3> QED BY <3>1, <3>3, <3>4
  <2> HIDE DEF J
  <2> QED BY <1>m, <2>3
<1>7. ASSUME NEW n \in 1 .. SnMod, n - 1 \in T PROVE n \in T
  <2> DEFINE y == g[n - 1]
             z == g[n]
  <2>1. z = ForceRound(y, to_sn)
    BY <1>5
  <2>2. J(n - 1) /\ n - 1 \in Nat /\ n \in 0 .. SnMod /\ n - 1 + 1 = n
    BY <1>7
  <2>3. Good(y) /\ Kept(s, y) /\ y.r = x.r
    BY <2>2
  <2>4. /\ Good(z) /\ Kept(y, z) /\ z.r = y.r
        /\ ~ieee80211_sn_less(y.t.win_start, target) => z = y
    <3> HIDE DEF y, z
    <3> QED BY <2>1, <2>3, ForceRoundGood
  <2>5. Kept(s, z)
    <3> HIDE DEF y, z
    <3> QED BY <2>3, <2>4, KeptTrans
  <2>6. ASSUME ~L PROVE z.t = s.t
    BY <2>2, <2>4, <2>6
  <2>7. ASSUME L
        PROVE  \/ Past(z, to_sn)
               \/ ieee80211_sn_less(z.t.win_start, target) /\ Gap(z.t.win_start, target) >= n
    <3> DEFINE m == n - 1
    <3>1. m \in Nat /\ m + 1 = n
      BY <2>2
    <3>2. \/ Past(y, to_sn)
          \/ ieee80211_sn_less(y.t.win_start, target) /\ Gap(y.t.win_start, target) >= m
      BY <2>2, <2>7
    <3> HIDE DEF y, z, m
    <3>3. \/ Past(z, to_sn)
          \/ ieee80211_sn_less(z.t.win_start, target) /\ Gap(z.t.win_start, target) >= m + 1
      BY <2>1, <2>3, <3>1, <3>2, ForceRoundNearer
    <3> QED BY <3>1, <3>3
  <2>8. J(n)
    BY <2>3, <2>4, <2>5, <2>6, <2>7
  <2> HIDE DEF J
  <2> QED BY <2>2, <2>8
<1>8. J(SnMod)
  <2>1. \A n \in 0 .. SnMod : n \in T
    <3> HIDE DEF T
    <3> QED BY <1>6, <1>7, <1>m, UpTo
  <2> QED BY <2>1, <1>m
<1> DEFINE z == g[SnMod]
<1>9. L => Past(z, to_sn)
  <2>1. target \in Int /\ z.t.win_start \in Int
    BY <1>8, Sizes, SnRange DEF Good, Work, Session
  <2> DEFINE e == Gap(z.t.win_start, target)
  <2>2. e \in 0 .. SnMod - 1
    BY <2>1, GapRange
  <2>3. ~(e >= SnMod)
    <3> HIDE DEF e
    <3> QED BY <2>2, <1>m
  <2> QED BY <1>8, <2>3
<1>10. /\ Good(z) /\ Kept(s, z) /\ z.r = x.r /\ (~L => z.t = s.t)
  BY <1>8
<1> HIDE DEF z, J, L
<1> QED BY <1>z, <1>x, <1>9, <1>10 DEF z, L, target
-----------------------------------------------------------------------------
(* The timer and the to-do entry. *)

\* An armed timer and its callback belong to the current session; an active
\* entry is on the list.
TimerOk(r) ==
  /\ r.pending \/ r.running => r.expired_ref = r.ref_cnt
  /\ r.actived => r.queued

\* Something will look at the buffer of the current session again.
Armed(r) == r.pending \/ r.running \/ r.queued

\* What the functions may do to the struct of session q.
Rearmed(q, r) ==
  /\ q \in ReorderType /\ q.ref_cnt = r.ref_cnt /\ q.running = r.running
  /\ r.queued => q.queued
  /\ TimerOk(r) => TimerOk(q)

\* Rearmed is transitive.
LEMMA RearmedTrans ==
  ASSUME NEW p, NEW q, NEW r, Rearmed(p, q), Rearmed(q, r) PROVE Rearmed(p, r)
BY DEF Rearmed

\* Rearmed is reflexive.
LEMMA RearmedSame == ASSUME NEW r \in ReorderType PROVE Rearmed(r, r)
BY DEF Rearmed

\* A timer that is stopped.
LEMMA StopTimer ==
  ASSUME NEW r \in ReorderType
  PROVE  Rearmed([r EXCEPT !.pending = FALSE], r) /\ [r EXCEPT !.pending = FALSE].queued = r.queued
BY DEF Rearmed, TimerOk, ReorderType

\* A timer that is armed for its own session.
LEMMA StartTimer ==
  ASSUME NEW r \in ReorderType, NEW sn \in U16, NEW ref \in Refs, r.ref_cnt = ref
  PROVE  LET q == [r EXCEPT !.pending = TRUE, !.expired_sn = sn, !.expired_ref = ref]
         IN  Rearmed(q, r) /\ q.pending
<1> DEFINE q1 == [r EXCEPT !.pending = TRUE]
           q2 == [q1 EXCEPT !.expired_sn = sn]
           q3 == [q2 EXCEPT !.expired_ref = ref]
<1>1. /\ q1 \in ReorderType /\ q1.ref_cnt = r.ref_cnt /\ q1.running = r.running /\ q1.pending
      /\ q1.actived = r.actived /\ q1.queued = r.queued
  BY DEF ReorderType
<1> HIDE DEF q1
<1>2. /\ q2 \in ReorderType /\ q2.ref_cnt = r.ref_cnt /\ q2.running = r.running /\ q2.pending
      /\ q2.actived = r.actived /\ q2.queued = r.queued
  BY <1>1 DEF ReorderType
<1> HIDE DEF q2
<1>3. /\ q3 \in ReorderType /\ q3.ref_cnt = r.ref_cnt /\ q3.running = r.running /\ q3.pending
      /\ q3.actived = r.actived /\ q3.queued = r.queued /\ q3.expired_ref = ref
  BY <1>2 DEF ReorderType
<1>4. q3 = [r EXCEPT !.pending = TRUE, !.expired_sn = sn, !.expired_ref = ref]
  BY DEF q1, q2
<1> HIDE DEF q3
<1> QED BY <1>3, <1>4 DEF Rearmed, TimerOk

\* An entry that goes to the to-do list.
LEMMA StartTodo ==
  ASSUME NEW r \in ReorderType, NEW sn \in U16
  PROVE  LET q == [r EXCEPT !.seq = sn, !.actived = TRUE, !.queued = TRUE]
         IN  Rearmed(q, r) /\ q.queued
<1> DEFINE q1 == [r EXCEPT !.seq = sn]
           q2 == [q1 EXCEPT !.actived = TRUE]
           q3 == [q2 EXCEPT !.queued = TRUE]
<1>1. /\ q1 \in ReorderType /\ q1.ref_cnt = r.ref_cnt /\ q1.running = r.running
      /\ q1.pending = r.pending /\ q1.expired_ref = r.expired_ref
  BY DEF ReorderType
<1> HIDE DEF q1
<1>2. /\ q2 \in ReorderType /\ q2.ref_cnt = r.ref_cnt /\ q2.running = r.running
      /\ q2.pending = r.pending /\ q2.expired_ref = r.expired_ref
  BY <1>1 DEF ReorderType
<1> HIDE DEF q2
<1>3. /\ q3 \in ReorderType /\ q3.ref_cnt = r.ref_cnt /\ q3.running = r.running
      /\ q3.pending = r.pending /\ q3.expired_ref = r.expired_ref /\ q3.queued
  BY <1>2 DEF ReorderType
<1>4. q3 = [r EXCEPT !.seq = sn, !.actived = TRUE, !.queued = TRUE]
  BY DEF q1, q2
<1> HIDE DEF q3
<1> QED BY <1>3, <1>4 DEF Rearmed, TimerOk

\* skw_set_reorder_timer leaves the session as it is and, for a frame that is
\* in the buffer of the current session, arms the timer or queues the entry.
LEMMA SetTimerGood ==
  ASSUME NEW s, Good(s), NEW sn \in U16
  PROVE  LET z == skw_set_reorder_timer(s, sn)
         IN  /\ Good(z) /\ Kept(s, z) /\ z.t = s.t /\ z.ref = s.ref /\ z.out = s.out
             /\ Rearmed(z.r, s.r)
             /\ TimerOk(s.r) /\ s.r.ref_cnt = s.ref /\ sn % WinSize \in Busy(s.t) => Armed(z.r)
             /\ Armed(s.r) => Armed(z.r)
<1> DEFINE z == skw_set_reorder_timer(s, sn)
           r1 == [s.r EXCEPT !.pending = TRUE, !.expired_sn = sn, !.expired_ref = s.ref]
           r2 == [s.r EXCEPT !.seq = sn, !.actived = TRUE, !.queued = TRUE]
<1>0. s.r \in ReorderType /\ s.ref \in Refs
  BY DEF Good, Work
<1>1. CASE s.r.pending \/ s.r.ref_cnt # s.ref \/ IsEmpty(Slot(s, sn))
  <2>1. z = s
    BY <1>1 DEF skw_set_reorder_timer
  <2>2. Kept(s, s) /\ Rearmed(s.r, s.r)
    BY <1>0, RearmedSame, KeptSame
  <2>3. s.r.ref_cnt = s.ref /\ sn % WinSize \in Busy(s.t) => Armed(s.r)
    BY <1>1 DEF Armed, Busy, Slot
  <2> QED BY <2>1, <2>2, <2>3
<1>2. CASE /\ ~(s.r.pending \/ s.r.ref_cnt # s.ref \/ IsEmpty(Slot(s, sn)))
           /\ Slot(s, sn).age = 0
  <2>1. z = [s EXCEPT !.r = r1]
    BY <1>2 DEF skw_set_reorder_timer
  <2>2. Rearmed(r1, s.r) /\ r1.pending
    <3>1. s.r.ref_cnt = s.ref
      BY <1>2
    <3> HIDE DEF r1
    <3> QED BY <1>0, <3>1, StartTimer DEF r1
  <2>3. r1 \in ReorderType
    BY <2>2 DEF Rearmed
  <2> HIDE DEF z, r1
  <2>4. /\ Good(z) /\ Kept(s, z) /\ z.r = r1 /\ z.t = s.t /\ z.ref = s.ref /\ z.out = s.out
    BY <2>1, <2>3, SetR
  <2> QED BY <2>2, <2>4 DEF Armed, z
<1>3. CASE /\ ~(s.r.pending \/ s.r.ref_cnt # s.ref \/ IsEmpty(Slot(s, sn)))
           /\ Slot(s, sn).age # 0 /\ s.r.actived
  <2>1. z = s
    BY <1>3 DEF skw_set_reorder_timer
  <2>2. Kept(s, s) /\ Rearmed(s.r, s.r)
    BY <1>0, RearmedSame, KeptSame
  <2>3. TimerOk(s.r) => Armed(s.r)
    BY <1>3 DEF Armed, TimerOk
  <2> QED BY <2>1, <2>2, <2>3
<1>4. CASE /\ ~(s.r.pending \/ s.r.ref_cnt # s.ref \/ IsEmpty(Slot(s, sn)))
           /\ Slot(s, sn).age # 0 /\ ~s.r.actived
  <2>1. z = [s EXCEPT !.r = r2]
    BY <1>4 DEF skw_set_reorder_timer
  <2>2. Rearmed(r2, s.r) /\ r2.queued
    <3> HIDE DEF r2
    <3> QED BY <1>0, StartTodo DEF r2
  <2>3. r2 \in ReorderType
    BY <2>2 DEF Rearmed
  <2> HIDE DEF z, r2
  <2>4. /\ Good(z) /\ Kept(s, z) /\ z.r = r2 /\ z.t = s.t /\ z.ref = s.ref /\ z.out = s.out
    BY <2>1, <2>3, SetR
  <2> QED BY <2>2, <2>4 DEF Armed, z
<1> QED BY <1>1, <1>2, <1>3, <1>4

-----------------------------------------------------------------------------
(* skw_reorder_release. *)

\* Round n of the loop looks at this sequence number.
At(s, n) == (s.t.win_start + n) % U16Mod

\* No complete frame waits at the start of the window.
HeadWaits(t) == \A k \in Slots : t.buf[k].sn = t.win_start => ~skw_is_release_ready(t.buf[k])

\* The state z in which a loop on session s may break.
Rests(s, z) ==
  /\ HeadWaits(z.t)
  /\ TimerOk(s.r) /\ s.r.ref_cnt = s.ref => Busy(z.t) = {} \/ Armed(z.r)

\* Where the loop that started in s is when it has yet to look at At(s, n).
Sync(s, a, n) ==
  /\ a.mode = "stop" => Rests(s, a.s)
  /\ a.mode = "release" => Busy(a.s.t) = {} \/ Gap(At(s, n), a.s.t.win_start) = 0
  /\ a.mode = "gap" => /\ Gap(At(s, n), a.s.t.win_start) \in 1 .. n
                       /\ a.s.t.win_start % WinSize \notin Busy(a.s.t)
  /\ a.mode # "stop" => \A j \in 0 .. n - 1 : At(s, j) % WinSize \notin Busy(a.s.t)

Modes == {"release", "gap", "stop"}
Releasing == {a \in [s : Work, mode : Modes] : Good(a.s)}

Turn(s, a, n) ==
  /\ a \in Releasing /\ Kept(s, a.s) /\ Rearmed(a.s.r, s.r)
  /\ Regular => Sync(s, a, n)

\* A round moves the window by one at most, or to one past what it looks at.
Loop(s, a, n) == Turn(s, a, n) /\ Gap(a.s.t.win_start, s.t.win_start) <= n

\* The types of a good session, for the provers.
LEMMA GoodTypes ==
  ASSUME NEW s, Good(s)
  PROVE  /\ s \in Work /\ s.t \in Session /\ s.r \in ReorderType /\ s.ref \in Refs
         /\ s.t.win_start \in U16 /\ s.t.win_start \in Int
         /\ s.t.buf \in [Slots -> FrameType] /\ s.t.win_start % WinSize \in Slots
<1>1. s \in Work /\ s.t \in Session /\ s.r \in ReorderType /\ s.ref \in Refs
  BY DEF Good, Work
<1>2. s.t.win_start \in U16 /\ s.t.buf \in [Slots -> FrameType]
  BY <1>1 DEF Session
<1>3. s.t.win_start \in Int
  BY <1>2, Sizes
<1> QED BY <1>1, <1>2, <1>3, SlotOf

\* What a round looks at is an u16.
LEMMA AtType == ASSUME NEW s, Good(s), NEW n \in Int PROVE At(s, n) \in U16 /\ At(s, n) \in Int
<1>1. s.t.win_start + n \in Int
  BY GoodTypes
<1>2. (s.t.win_start + n) % U16Mod \in 0 .. U16Mod - 1
  BY <1>1, Sizes, ModRange
<1> QED BY <1>2, Sizes DEF At, U16

\* The next round looks one further.
LEMMA AtNext ==
  ASSUME NEW s, Good(s), NEW n \in Int, NEW b \in Int
  PROVE  Gap(At(s, n + 1), b) =
           IF Gap(At(s, n), b) = SnMod - 1 THEN 0 ELSE Gap(At(s, n), b) + 1
<1> DEFINE a == s.t.win_start + n
           x == a - b
           c == s.t.win_start + (n + 1)
<1>1. a \in Int /\ x \in Int /\ c \in Int /\ c - b = x + 1 /\ b \in Int
  <2> DEFINE w == s.t.win_start
  <2>1. w \in Int
    BY GoodTypes
  <2> HIDE DEF w
  <2>2. w + n - b \in Int /\ w + (n + 1) - b = w + n - b + 1 /\ w + (n + 1) \in Int
    BY <2>1
  <2> QED BY <2>1, <2>2 DEF w
<1>2. At(s, n) = a % U16Mod /\ At(s, n + 1) = c % U16Mod
  BY DEF At
<1>3. (x + 1) % SnMod = IF x % SnMod = SnMod - 1 THEN 0 ELSE (x % SnMod) + 1
  <2> HIDE DEF x
  <2> QED BY <1>1, Sizes, ModUp
<1>4. Gap(a, b) = x % SnMod /\ Gap(c, b) = (x + 1) % SnMod
  <2> HIDE DEF a, c
  <2> QED BY <1>1 DEF Gap, x
<1>5. Gap(a % U16Mod, b) = Gap(a, b) /\ Gap(c % U16Mod, b) = Gap(c, b)
  <2> HIDE DEF a, c, x
  <2> QED BY <1>1, GapMod
<1> HIDE DEF a, c, x
<1> QED BY <1>2, <1>3, <1>4, <1>5

\* A complete frame at the start of the window lies in its slot.
LEMMA HeadSlot ==
  ASSUME NEW t, InSlots(t),
         t.win_start % WinSize \notin Busy(t) \/
         ~skw_is_release_ready(t.buf[t.win_start % WinSize])
  PROVE  HeadWaits(t)
<1> SUFFICES ASSUME NEW k \in Slots, t.buf[k].sn = t.win_start, skw_is_release_ready(t.buf[k])
             PROVE  FALSE
  BY DEF HeadWaits
<1>1. k \in Busy(t)
  BY DEF skw_is_release_ready, Busy
<1>2. t.win_start % WinSize = k
  BY <1>1 DEF InSlots
<1> QED BY <1>1, <1>2

\* With two windows in the sequence numbers, what lies less than a window
\* ahead is not behind.
LEMMA AheadLess ==
  ASSUME Regular, NEW a \in Int, NEW b \in Int, Gap(a, b) \in 1 .. WinSize - 1
  PROVE  ieee80211_sn_less(b, ieee80211_sn_inc(a)) /\ ~ieee80211_sn_less(a, b)
<1> DEFINE c == ieee80211_sn_inc(a)
<1>1. c \in Int
  BY Sizes, SnRange
<1>2. Gap(c, b) = IF Gap(a, b) = SnMod - 1 THEN 0 ELSE Gap(a, b) + 1
  BY GapInc
<1>3. SnMod \in Nat \ {0} /\ WinSize \in Nat \ {0} /\ 2 * WinSize < SnMod
  BY Sizes DEF Regular
<1>4. Gap(c, b) \in 2 .. WinSize
  BY <1>2, <1>3
<1> HIDE DEF c
<1>5. Gap(b, c) = SnMod - Gap(c, b)
  BY <1>1, <1>4, GapFlip
<1>6. Gap(b, c) > SnMod \div 2 /\ ~(Gap(a, b) > SnMod \div 2)
  <2> DEFINE h == SnMod \div 2
  <2>1. h \in Int /\ 2 * h <= SnMod /\ SnMod <= 2 * h + 1
    BY <1>3
  <2> HIDE DEF h
  <2>2. Gap(b, c) > h
    BY <1>3, <1>4, <1>5, <2>1
  <2>3. ~(Gap(a, b) > h)
    BY <1>3, <2>1
  <2> QED BY <2>2, <2>3 DEF h
<1> QED BY <1>6, LessGap DEF c

\* One round keeps the loop where it should be.
LEMMA RoundTurn ==
  ASSUME NEW s, Good(s), NEW n \in 0 .. WinSize - 1, NEW a, Turn(s, a, n)
  PROVE  Turn(s, ReleaseRound(a, At(s, n)), n + 1)
<1> DEFINE sn == At(s, n)
           k == sn % WinSize
           y == a.s
           slot == Slot(y, sn)
           due == IF y.r.pending /\ y.r.expired_sn = y.t.win_start THEN del_timer(y) ELSE y
           b == ReleaseRound(a, sn)
           Kind(c) == c \in Releasing /\ Kept(y, c.s) /\ Rearmed(c.s.r, y.r)
           Stops(c) == c.mode = "stop" /\ (Regular => Rests(s, c.s))
<1>n. n \in Int /\ n + 1 \in Int /\ WinSize \in Nat \ {0}
  BY Sizes
<1>a. /\ a \in Releasing /\ Kept(s, y) /\ Rearmed(y.r, s.r) /\ (Regular => Sync(s, a, n))
      /\ a.mode \in Modes /\ Good(y)
  BY DEF Turn, Releasing
<1>y. /\ y \in Work /\ y.t \in Session /\ y.r \in ReorderType /\ y.ref \in Refs
      /\ y.t.win_start \in U16 /\ y.t.win_start \in Int /\ y.t.win_start % WinSize \in Slots
  <2> HIDE DEF y
  <2> QED BY <1>a, GoodTypes
<1>ok. TimerOk(s.r) /\ s.r.ref_cnt = s.ref => TimerOk(y.r) /\ y.r.ref_cnt = y.ref
  BY <1>a DEF Rearmed, Kept
<1>k. sn \in U16 /\ sn \in Int /\ k \in Slots
  BY <1>n, AtType, SlotOf
<1>s. slot = y.t.buf[k] /\ (k \in Busy(y.t) <=> ~IsEmpty(slot))
  BY <1>k DEF Slot, Busy
<1>f. InSlots(y.t) /\ (y.t.stored_num = 0 <=> Busy(y.t) = {})
  BY <1>a, BusyCount DEF Good, Counted
<1>1. \A c : Kind(c) => c \in Releasing /\ Kept(s, c.s) /\ Rearmed(c.s.r, s.r)
  <2> SUFFICES ASSUME NEW c, Kind(c)
               PROVE  c \in Releasing /\ Kept(s, c.s) /\ Rearmed(c.s.r, s.r)
    OBVIOUS
  <2>1. Good(c.s)
    BY DEF Releasing
  <2> HIDE DEF y
  <2> QED BY <1>a, <2>1, KeptTrans, RearmedTrans
<1>2. \A c : Kind(c) /\ Stops(c) => Turn(s, c, n + 1)
  <2> SUFFICES ASSUME NEW c, Kind(c), Stops(c) PROVE Turn(s, c, n + 1)
    OBVIOUS
  <2>1. c \in Releasing /\ Kept(s, c.s) /\ Rearmed(c.s.r, s.r)
    BY <1>1
  <2> HIDE DEF Kind
  <2> QED BY <2>1 DEF Turn, Sync
<1>3. \A z, m : Good(z) /\ m \in Modes => [s |-> z, mode |-> m] \in Releasing
  BY DEF Releasing, Good
<1>same. Kept(y, y) /\ Rearmed(y.r, y.r)
  <2> HIDE DEF y
  <2> QED BY <1>a, <1>y, RearmedSame, KeptSame
<1>due. Good(due) /\ Kept(y, due) /\ due.t = y.t /\ due.ref = y.ref /\ Rearmed(due.r, y.r)
  <2>1. CASE due = y
    <3> HIDE DEF y, due
    <3> QED BY <2>1, <1>a, <1>same
  <2>2. CASE due = del_timer(y)
    <3> HIDE DEF y, due
    <3> QED BY <2>2, <1>a, <1>y, DelTimerGood, StopTimer
  <2> QED BY <2>1, <2>2
<1>visited. ASSUME NEW c, Kind(c), Regular, a.mode # "stop", k \notin Busy(c.s.t)
            PROVE  \A j \in 0 .. n : At(s, j) % WinSize \notin Busy(c.s.t)
  <2> SUFFICES ASSUME NEW j \in 0 .. n PROVE At(s, j) % WinSize \notin Busy(c.s.t)
    OBVIOUS
  <2>1. CASE j = n
    BY <2>1, <1>visited
  <2>2. CASE j \in 0 .. n - 1
    <3>1. At(s, j) % WinSize \notin Busy(y.t)
      BY <1>a, <1>visited, <2>2 DEF Sync
    <3> QED BY <1>visited, <3>1 DEF Kept
  <2> QED BY <2>1, <2>2
<1>next. n + 1 - 1 = n
  BY <1>n
<1> HIDE DEF Stops
<1>4. CASE a.mode = "stop"
  <2>1. b = a
    BY <1>4 DEF ReleaseRound
  <2>2. Kind(a)
    BY <1>a, <1>same
  <2>3. Stops(a)
    BY <1>4, <1>a DEF Stops, Sync
  <2> QED BY <1>2, <2>1, <2>2, <2>3
<1>5. CASE a.mode # "stop" /\ y.t.stored_num = 0
  <2>1. b = [s |-> del_timer(y), mode |-> "stop"]
    BY <1>5 DEF ReleaseRound
  <2> DEFINE z == del_timer(y)
  <2>2. Good(z) /\ Kept(y, z) /\ Rearmed(z.r, y.r) /\ z.t = y.t
    <3> HIDE DEF y, z
    <3> QED BY <1>a, <1>y, DelTimerGood, StopTimer DEF z
  <2> HIDE DEF z
  <2>3. b.s = z /\ b.mode = "stop"
    BY <2>1 DEF z
  <2>4. b \in Releasing
    BY <1>3, <2>1, <2>2 DEF z, Modes
  <2>5. Busy(z.t) = {} /\ InSlots(z.t)
    BY <1>5, <1>f, <2>2
  <2>6. Rests(s, z)
    BY <2>5, HeadSlot DEF Rests
  <2>7. Kind(b) /\ Stops(b)
    <3> HIDE DEF b
    <3> QED BY <2>2, <2>3, <2>4, <2>6 DEF Stops
  <2> HIDE DEF b
  <2> QED BY <1>2, <2>7 DEF b
<1>6. CASE a.mode # "stop" /\ y.t.stored_num # 0 /\ IsEmpty(slot) /\ y.r.pending
  <2>1. b = [s |-> y, mode |-> "stop"]
    BY <1>6 DEF ReleaseRound
  <2>2. b.s = y /\ b.mode = "stop" /\ b \in Releasing
    BY <1>3, <1>a, <2>1 DEF Modes
  <2>3. ASSUME Regular PROVE y.t.win_start % WinSize \notin Busy(y.t)
    <3>1. CASE a.mode = "gap"
      BY <1>a, <2>3, <3>1 DEF Sync
    <3>2. CASE a.mode = "release"
      <4>1. Gap(sn, y.t.win_start) = 0
        BY <1>a, <1>f, <1>6, <2>3, <3>2 DEF Sync
      <4>2. k = y.t.win_start % WinSize
        <5> HIDE DEF y, sn
        <5> QED BY <1>y, <1>k, <2>3, <4>1, GapSlot
      <4> QED BY <4>2, <1>s, <1>6
    <3> QED BY <3>1, <3>2, <1>a, <1>6 DEF Modes
  <2>4. Regular => Rests(s, y)
    <3>1. Regular => HeadWaits(y.t)
      BY <2>3, <1>f, HeadSlot
    <3> QED BY <3>1, <1>6 DEF Rests, Armed
  <2>5. Kind(b) /\ Stops(b)
    <3> HIDE DEF b
    <3> QED BY <2>2, <2>4, <1>same DEF Stops
  <2> HIDE DEF b
  <2> QED BY <1>2, <2>5 DEF b
<1>7. CASE a.mode # "stop" /\ y.t.stored_num # 0 /\ IsEmpty(slot) /\ ~y.r.pending
  <2>1. b = [s |-> y, mode |-> "gap"]
    BY <1>7 DEF ReleaseRound
  <2>2. b.s = y /\ b.mode = "gap" /\ b \in Releasing
    BY <1>3, <1>a, <2>1 DEF Modes
  <2>3. Kind(b)
    <3> HIDE DEF b
    <3> QED BY <2>2, <1>same
  <2>4. ASSUME Regular PROVE Sync(s, b, n + 1)
    <3> DEFINE w == y.t.win_start
               g == Gap(sn, w)
               g1 == Gap(At(s, n + 1), w)
    <3>1. g1 = IF g = SnMod - 1 THEN 0 ELSE g + 1
      <4> HIDE DEF w
      <4> QED BY <1>n, <1>y, AtNext DEF w
    <3>2. /\ (a.mode = "release" /\ g = 0 /\ k = w % WinSize)
             \/ (a.mode = "gap" /\ g \in 1 .. n /\ w % WinSize \notin Busy(y.t))
      <4>1. CASE a.mode = "gap"
        BY <1>a, <2>4, <4>1 DEF Sync
      <4>2. CASE a.mode = "release"
        <5>1. g = 0
          BY <1>a, <1>f, <1>7, <2>4, <4>2 DEF Sync
        <5>2. k = w % WinSize
          <6> HIDE DEF w, sn
          <6> QED BY <1>y, <1>k, <2>4, <5>1, GapSlot DEF w
        <5> QED BY <4>2, <5>1, <5>2
      <4> QED BY <4>1, <4>2, <1>a, <1>7 DEF Modes
    <3>3. SnMod \in Nat /\ WinSize \in Nat \ {0} /\ 2 * WinSize < SnMod
      BY <2>4, Sizes DEF Regular
    <3>4. g1 \in 1 .. n + 1
      <4> HIDE DEF g, g1, y, w, k, sn
      <4> QED BY <1>n, <3>1, <3>2, <3>3
    <3>5. w % WinSize \notin Busy(y.t)
      BY <3>2, <1>s, <1>7
    <3>6. \A j \in 0 .. n : At(s, j) % WinSize \notin Busy(b.s.t)
      <4>1. k \notin Busy(b.s.t)
        BY <1>s, <1>7, <2>2
      <4> HIDE DEF b, Kind
      <4> QED BY <1>visited, <2>3, <2>4, <1>7, <4>1
    <3>7. b.s.t.win_start = w
      BY <2>2
    <3> HIDE DEF b, w, g, g1
    <3> QED BY <1>next, <2>2, <3>4, <3>5, <3>6, <3>7 DEF Sync, w, g1
  <2>5. b \in Releasing /\ Kept(s, b.s) /\ Rearmed(b.s.r, s.r)
    <3> HIDE DEF b, Kind
    <3> QED BY <1>1, <2>3
  <2> QED BY <2>4, <2>5 DEF Turn
<1>8. CASE /\ a.mode = "gap" /\ y.t.stored_num # 0 /\ ~IsEmpty(slot)
           /\ skw_is_msdu_timeout(slot)
  <2> DEFINE z == skw_reorder_force_release(y, sn)
             L == ieee80211_sn_less(y.t.win_start, ieee80211_sn_inc(sn))
  <2>1. b = [s |-> z, mode |-> "release"]
    BY <1>8 DEF ReleaseRound
  <2>2. /\ Good(z) /\ Kept(y, z) /\ z.r \in ReorderType /\ (L => Past(z, sn))
        /\ z.r = y.r \/ (y.r.ref_cnt = y.ref /\ z.r = [y.r EXCEPT !.pending = FALSE])
    <3> HIDE DEF y, sn
    <3> QED BY <1>a, <1>k, ForceReleaseGood
  <2> HIDE DEF z
  <2>3. Rearmed(z.r, y.r)
    <3>1. CASE z.r = y.r
      BY <1>same, <3>1
    <3>2. CASE z.r = [y.r EXCEPT !.pending = FALSE]
      <4> HIDE DEF y
      <4> QED BY <1>y, <3>2, StopTimer
    <3> QED BY <2>2, <3>1, <3>2
  <2>4. b.s = z /\ b.mode = "release" /\ b \in Releasing
    BY <1>3, <2>1, <2>2 DEF Modes
  <2>5. Kind(b)
    <3> HIDE DEF b
    <3> QED BY <2>2, <2>3, <2>4
  <2>6. ASSUME Regular PROVE Sync(s, b, n + 1)
    <3> DEFINE w == y.t.win_start
    <3>1. Gap(sn, w) \in 1 .. WinSize - 1
      <4>1. Gap(sn, w) \in 1 .. n
        BY <1>a, <1>8, <2>6 DEF Sync
      <4> HIDE DEF w, sn, y
      <4> QED BY <1>n, <4>1
    <3>2. L
      <4> HIDE DEF sn, y
      <4> QED BY <1>k, <1>y, <2>6, <3>1, AheadLess DEF w
    <3>3. Past(z, sn)
      BY <2>2, <3>2
    <3>4. Busy(z.t) = {} \/ Gap(At(s, n + 1), z.t.win_start) = 0
      <4>1. CASE Gap(z.t.win_start, ieee80211_sn_inc(sn)) = 0
        <5> DEFINE v == z.t.win_start
                   c == ieee80211_sn_inc(sn)
        <5>1. v \in Int /\ c \in Int
          BY <2>2, <1>k, GoodTypes, SnRange, Sizes
        <5>2. Gap(c, v) = 0
          <6> HIDE DEF c, v
          <6> QED BY <5>1, <4>1, GapFlip DEF c, v
        <5>3. Gap(c, v) = IF Gap(sn, v) = SnMod - 1 THEN 0 ELSE Gap(sn, v) + 1
          <6> HIDE DEF v, sn
          <6> QED BY <5>1, <1>k, GapInc DEF v
        <5>4. Gap(At(s, n + 1), v) = IF Gap(sn, v) = SnMod - 1 THEN 0 ELSE Gap(sn, v) + 1
          <6> HIDE DEF v
          <6> QED BY <5>1, <1>n, AtNext
        <5> QED BY <5>2, <5>3, <5>4
      <4> QED BY <3>3, <4>1 DEF Past
    <3>5. k \notin Busy(z.t)
      BY <2>6, <3>3 DEF Past
    <3>6. \A j \in 0 .. n : At(s, j) % WinSize \notin Busy(b.s.t)
      <4>1. k \notin Busy(b.s.t)
        BY <3>5, <2>4
      <4> HIDE DEF b, Kind
      <4> QED BY <1>visited, <2>5, <2>6, <1>8, <4>1
    <3> HIDE DEF b
    <3> QED BY <1>next, <2>4, <3>4, <3>6 DEF Sync
  <2>7. b \in Releasing /\ Kept(s, b.s) /\ Rearmed(b.s.r, s.r)
    <3> HIDE DEF b, Kind
    <3> QED BY <1>1, <2>5
  <2> QED BY <2>6, <2>7 DEF Turn
<1>9. CASE /\ a.mode = "gap" /\ y.t.stored_num # 0 /\ ~IsEmpty(slot)
           /\ ~skw_is_msdu_timeout(slot)
  <2> DEFINE z == skw_set_reorder_timer(y, sn)
  <2>1. b = [s |-> z, mode |-> "stop"]
    BY <1>9 DEF ReleaseRound
  <2>2. /\ Good(z) /\ Kept(y, z) /\ z.t = y.t /\ z.ref = y.ref /\ Rearmed(z.r, y.r)
        /\ TimerOk(y.r) /\ y.r.ref_cnt = y.ref /\ k \in Busy(y.t) => Armed(z.r)
    <3> HIDE DEF y, sn, z
    <3> QED BY <1>a, <1>k, SetTimerGood DEF z
  <2>3. k \in Busy(y.t)
    BY <1>s, <1>9
  <2> HIDE DEF z
  <2>4. b.s = z /\ b.mode = "stop" /\ b \in Releasing
    BY <1>3, <2>1, <2>2 DEF Modes
  <2>5. TimerOk(s.r) /\ s.r.ref_cnt = s.ref => Armed(z.r)
    BY <1>ok, <2>2, <2>3
  <2>6. Regular => HeadWaits(z.t)
    BY <1>a, <1>9, <1>f, <2>2, HeadSlot DEF Sync
  <2>7. Kind(b) /\ Stops(b)
    <3> HIDE DEF b
    <3> QED BY <2>2, <2>4, <2>5, <2>6 DEF Stops, Rests
  <2> HIDE DEF b
  <2> QED BY <1>2, <2>7 DEF b
<1>10. CASE /\ a.mode = "release" /\ y.t.stored_num # 0 /\ ~IsEmpty(slot)
            /\ (skw_is_release_ready(slot) \/ skw_is_msdu_timeout(slot))
  <2> DEFINE z == Dequeue(due, k)
             w == y.t.win_start
  <2>1. b = [s |-> z, mode |-> "release"]
    BY <1>10 DEF ReleaseRound
  <2>2. Regular => Gap(sn, w) = 0 /\ k = w % WinSize
    <3>1. ASSUME Regular PROVE Gap(sn, w) = 0
      BY <1>a, <1>f, <1>10, <3>1 DEF Sync
    <3>2. ASSUME Regular PROVE k = w % WinSize
      <4> HIDE DEF w, sn
      <4> QED BY <1>y, <1>k, <3>1, <3>2, GapSlot DEF w
    <3> QED BY <3>1, <3>2
  <2>3. k \in Busy(due.t) /\ due.t.win_start = w
    BY <1>s, <1>10, <1>due
  <2>4. /\ Good(z) /\ Kept(due, z) /\ z.r = due.r /\ Busy(z.t) = Busy(due.t) \ {k}
        /\ z.t.win_start = ieee80211_sn_inc(due.t.win_start)
    <3> HIDE DEF due, k, w
    <3> QED BY <1>due, <2>2, <2>3, DequeueGood
  <2>5. Kept(y, z) /\ Rearmed(z.r, y.r)
    <3> HIDE DEF due, k, y, z
    <3> QED BY <1>a, <1>due, <2>4, KeptTrans
  <2> HIDE DEF z
  <2>6. b.s = z /\ b.mode = "release" /\ b \in Releasing
    BY <1>3, <2>1, <2>4 DEF Modes
  <2>7. Kind(b)
    <3> HIDE DEF b
    <3> QED BY <2>5, <2>6
  <2>8. ASSUME Regular PROVE Sync(s, b, n + 1)
    <3> DEFINE v == ieee80211_sn_inc(w)
               g == Gap(At(s, n + 1), w)
    <3>1. g = 1
      <4>1. g = IF Gap(sn, w) = SnMod - 1 THEN 0 ELSE Gap(sn, w) + 1
        <5> HIDE DEF w
        <5> QED BY <1>n, <1>y, AtNext DEF w
      <4>2. SnMod \in Nat /\ SnMod > 1
        BY <2>8, Sizes DEF Regular
      <4> HIDE DEF g, w, sn
      <4> QED BY <2>2, <2>8, <4>1, <4>2
    <3>2. Gap(At(s, n + 1), v) = 0
      <4>1. At(s, n + 1) \in Int
        BY <1>n, AtType
      <4>2. Gap(At(s, n + 1), v) = IF g = 0 THEN SnMod - 1 ELSE g - 1
        <5> DEFINE e == At(s, n + 1)
        <5> HIDE DEF w, e
        <5> QED BY <1>y, <4>1, GapInc DEF w, e
      <4> HIDE DEF g
      <4> QED BY <3>1, <4>2
    <3>3. z.t.win_start = v
      BY <2>3, <2>4
    <3>4. \A j \in 0 .. n : At(s, j) % WinSize \notin Busy(b.s.t)
      <4>1. k \notin Busy(b.s.t)
        BY <2>4, <2>6
      <4> HIDE DEF b, Kind
      <4> QED BY <1>visited, <2>7, <2>8, <1>10, <4>1
    <3> HIDE DEF b, v
    <3> QED BY <1>next, <2>6, <3>2, <3>3, <3>4 DEF Sync
  <2>9. b \in Releasing /\ Kept(s, b.s) /\ Rearmed(b.s.r, s.r)
    <3> HIDE DEF b, Kind
    <3> QED BY <1>1, <2>7
  <2> QED BY <2>8, <2>9 DEF Turn
<1>11. CASE /\ a.mode = "release" /\ y.t.stored_num # 0 /\ ~IsEmpty(slot)
            /\ ~(skw_is_release_ready(slot) \/ skw_is_msdu_timeout(slot))
  <2> DEFINE z == skw_set_reorder_timer(due, sn)
             w == y.t.win_start
  <2>1. b = [s |-> z, mode |-> "stop"]
    BY <1>11 DEF ReleaseRound
  <2>2. /\ Good(z) /\ Kept(due, z) /\ z.t = due.t /\ Rearmed(z.r, due.r)
        /\ TimerOk(due.r) /\ due.r.ref_cnt = due.ref /\ k \in Busy(due.t) => Armed(z.r)
    <3> HIDE DEF due, sn, z
    <3> QED BY <1>due, <1>k, SetTimerGood DEF z
  <2>3. k \in Busy(due.t)
    BY <1>s, <1>11, <1>due
  <2>4. Kept(y, z) /\ Rearmed(z.r, y.r) /\ z.t = y.t
    <3> HIDE DEF due, k, y, z
    <3> QED BY <1>a, <1>due, <2>2, KeptTrans, RearmedTrans
  <2> HIDE DEF z
  <2>5. b.s = z /\ b.mode = "stop" /\ b \in Releasing
    BY <1>3, <2>1, <2>2 DEF Modes
  <2>6. TimerOk(s.r) /\ s.r.ref_cnt = s.ref => Armed(z.r)
    <3>1. TimerOk(y.r) /\ y.r.ref_cnt = y.ref => TimerOk(due.r) /\ due.r.ref_cnt = due.ref
      <4> HIDE DEF due, y
      <4> QED BY <1>due DEF Rearmed
    <3> HIDE DEF due, y
    <3> QED BY <1>ok, <2>2, <2>3, <3>1
  <2>7. ASSUME Regular PROVE HeadWaits(z.t)
    <3>1. Gap(sn, w) = 0
      BY <1>a, <1>f, <1>11, <2>7 DEF Sync
    <3>2. k = w % WinSize
      <4> HIDE DEF w, sn
      <4> QED BY <1>y, <1>k, <2>7, <3>1, GapSlot DEF w
    <3>3. ~skw_is_release_ready(y.t.buf[w % WinSize])
      BY <1>s, <1>11, <3>2
    <3> QED BY <1>f, <2>4, <3>3, HeadSlot
  <2>8. Kind(b) /\ Stops(b)
    <3> HIDE DEF b
    <3> QED BY <2>4, <2>5, <2>6, <2>7 DEF Stops, Rests
  <2> HIDE DEF b
  <2> QED BY <1>2, <2>8 DEF b
<1>12. a.mode \in {"release", "gap", "stop"}
  BY <1>a DEF Modes
<1> HIDE DEF b, slot, y
<1> QED BY <1>4, <1>5, <1>6, <1>7, <1>8, <1>9, <1>10, <1>11, <1>12 DEF b

\* How far a round moves the window.
LEMMA RoundMoves ==
  ASSUME NEW s, Good(s), NEW n \in 0 .. WinSize - 1, NEW a \in Releasing,
         Gap(a.s.t.win_start, s.t.win_start) <= n
  PROVE  Gap(ReleaseRound(a, At(s, n)).s.t.win_start, s.t.win_start) <= n + 1
<1> DEFINE w == s.t.win_start
           y == a.s
           v == y.t.win_start
           sn == At(s, n)
           slot == Slot(y, sn)
           due == IF y.r.pending /\ y.r.expired_sn = y.t.win_start THEN del_timer(y) ELSE y
           b == ReleaseRound(a, sn)
           x == b.s.t.win_start
<1> SUFFICES Gap(x, w) <= n + 1
  OBVIOUS
<1>1. /\ Good(y) /\ y \in Work /\ w \in Int /\ v \in Int /\ sn \in U16 /\ sn \in Int
      /\ n \in Int /\ sn % WinSize \in Slots
  <2>1. n \in Int
    BY Sizes
  <2>2. sn \in U16 /\ sn \in Int
    BY <2>1, AtType
  <2>3. Good(y)
    BY DEF Releasing
  <2> HIDE DEF sn, y
  <2> QED BY <2>1, <2>2, <2>3, GoodTypes, SlotOf DEF y
<1>2. SnMod \in Nat \ {0} /\ WinSize \in Nat \ {0} /\ 2 * WinSize <= SnMod /\ n \in 0 .. WinSize - 1
  BY Sizes
<1>3. Gap(sn, w) = n
  <2> DEFINE e == w + n
  <2>1. e \in Int /\ e - w = n
    BY <1>1
  <2>2. sn = e % U16Mod
    BY DEF At
  <2> HIDE DEF e, sn, w
  <2>3. Gap(sn, w) = n % SnMod
    BY <1>1, <2>1, <2>2, GapMod DEF Gap
  <2>4. n \in 0 .. SnMod - 1
    BY <1>2
  <2> QED BY <1>2, <2>3, <2>4, ModSmall
<1>4. Gap(v, w) <= n /\ Gap(v, w) \in 0 .. SnMod - 1
  BY <1>1, GapRange
<1>5. CASE x = v
  <2> HIDE DEF x, v, w
  <2> QED BY <1>1, <1>2, <1>4, <1>5
<1>6. ASSUME NEW u \in Int PROVE Gap(ieee80211_sn_inc(u), w) <= Gap(u, w) + 1
  <2>1. Gap(ieee80211_sn_inc(u), w) = IF Gap(u, w) = SnMod - 1 THEN 0 ELSE Gap(u, w) + 1
    <3> HIDE DEF w
    <3> QED BY <1>1, GapInc
  <2>2. Gap(u, w) \in 0 .. SnMod - 1
    <3> HIDE DEF w
    <3> QED BY <1>1, GapRange
  <2> HIDE DEF w
  <2> QED BY <1>2, <2>1, <2>2
<1>due. Good(due) /\ due.t = y.t /\ due \in Work
  <2>1. CASE due = y
    <3> HIDE DEF y, due
    <3> QED BY <1>1, <2>1
  <2>2. CASE due = del_timer(y)
    <3> HIDE DEF y, due
    <3> QED BY <1>1, <2>2, DelTimerGood, GoodTypes
  <2> QED BY <2>1, <2>2
<1>t. /\ del_timer(y).t = y.t /\ skw_set_reorder_timer(y, sn).t = y.t
      /\ skw_set_reorder_timer(due, sn).t = y.t
  <2> HIDE DEF y, sn, due
  <2> QED BY <1>1, <1>due, DelTimerGood, SetTimerGood
<1>7. CASE b.s = Dequeue(due, sn % WinSize)
  <2> DEFINE k == sn % WinSize
  <2>1. Dequeue(due, k).t = Emptied(due.t, k)
    <3> HIDE DEF due, k
    <3> QED BY <1>1, <1>due, DequeueForm DEF k
  <2>2. Emptied(due.t, k).win_start = ieee80211_sn_inc(due.t.win_start)
    <3> DEFINE t == due.t
    <3>1. t \in Session
      BY <1>due, GoodTypes
    <3>2. k \in Slots
      BY <1>1
    <3> HIDE DEF t, k
    <3>3. Emptied(t, k) =
           [live |-> t.live, win_start |-> ieee80211_sn_inc(t.win_start),
            stored_num |-> t.stored_num - 1, buf |-> [t.buf EXCEPT ![k] = Empty]]
      BY <3>1, <3>2, EmptiedForm
    <3>4. Emptied(t, k).win_start = ieee80211_sn_inc(t.win_start)
      BY <3>3
    <3> QED BY <3>4 DEF t
  <2>3. x = ieee80211_sn_inc(v)
    BY <1>7, <1>due, <2>1, <2>2
  <2> HIDE DEF x, v, w
  <2>4. Gap(ieee80211_sn_inc(v), w) <= Gap(v, w) + 1
    BY <1>1, <1>6
  <2>5. Gap(ieee80211_sn_inc(v), w) \in 0 .. SnMod - 1
    BY <1>1, SnRange, Sizes, GapRange
  <2> DEFINE g == Gap(ieee80211_sn_inc(v), w)
             h == Gap(v, w)
  <2> HIDE DEF g, h
  <2>6. g <= n + 1
    BY <1>2, <1>4, <2>4, <2>5 DEF g, h
  <2> QED BY <2>3, <2>6 DEF g
<1>8. CASE b.s = skw_reorder_force_release(y, sn)
  <2> DEFINE z == skw_reorder_force_release(y, sn)
             L == ieee80211_sn_less(y.t.win_start, ieee80211_sn_inc(sn))
  <2>1. Good(z) /\ (L => Past(z, sn)) /\ (~L => z.t = y.t)
    <3> HIDE DEF y, sn
    <3> QED BY <1>1, ForceReleaseGood
  <2> HIDE DEF z
  <2>2. CASE ~L
    BY <1>5, <1>8, <2>1, <2>2 DEF z
  <2>3. CASE z.t.win_start = sn
    <3>1. x = sn
      BY <1>8, <2>3 DEF z
    <3> HIDE DEF x, sn, w
    <3> QED BY <1>1, <1>2, <1>3, <3>1
  <2>4. CASE Gap(z.t.win_start, ieee80211_sn_inc(sn)) = 0
    <3> DEFINE c == ieee80211_sn_inc(sn)
    <3>1. x = z.t.win_start /\ x \in Int /\ c \in Int
      BY <1>1, <1>8, <2>1, GoodTypes, SnRange, Sizes DEF z
    <3> HIDE DEF x, c, w, sn
    <3>2. Gap(x, w) = Gap(c, w)
      BY <1>1, <2>4, <3>1, GapFrom DEF c
    <3>3. Gap(c, w) <= n + 1
      BY <1>1, <1>3, <1>6 DEF c
    <3> QED BY <3>2, <3>3
  <2> QED BY <2>1, <2>2, <2>3, <2>4 DEF Past
<1>9. \/ x = v
      \/ b.s = Dequeue(due, sn % WinSize)
      \/ b.s = skw_reorder_force_release(y, sn)
  <2>1. \/ b.s = y \/ b.s = del_timer(y) \/ b.s = skw_set_reorder_timer(y, sn)
        \/ b.s = skw_set_reorder_timer(due, sn)
        \/ b.s = Dequeue(due, sn % WinSize)
        \/ b.s = skw_reorder_force_release(y, sn)
    <3> DEFINE d1 == del_timer(y)
               d2 == skw_reorder_force_release(y, sn)
               d3 == skw_set_reorder_timer(y, sn)
               d4 == Dequeue(due, sn % WinSize)
               d5 == skw_set_reorder_timer(due, sn)
    <3>1. \/ b = a \/ b = [s |-> d1, mode |-> "stop"]
          \/ b = [s |-> y, mode |-> IF y.r.pending THEN "stop" ELSE "gap"]
          \/ b = [s |-> d2, mode |-> "release"] \/ b = [s |-> d3, mode |-> "stop"]
          \/ b = [s |-> d4, mode |-> "release"] \/ b = [s |-> d5, mode |-> "stop"]
      BY DEF ReleaseRound
    <3> HIDE DEF b, d1, d2, d3, d4, d5
    <3>2. b.s \in {y, d1, d2, d3, d4, d5}
      BY <3>1
    <3> QED BY <3>2 DEF d1, d2, d3, d4, d5
  <2> QED BY <1>t, <2>1
<1> HIDE DEF b, x, due
<1> QED BY <1>5, <1>7, <1>8, <1>9

\* One round, with its movement.
LEMMA RoundGood ==
  ASSUME NEW s, Good(s), NEW n \in 0 .. WinSize - 1, NEW a, Loop(s, a, n)
  PROVE  Loop(s, ReleaseRound(a, At(s, n)), n + 1)
<1>1. Turn(s, a, n) /\ Gap(a.s.t.win_start, s.t.win_start) <= n
  BY DEF Loop
<1>2. a \in Releasing
  BY <1>1 DEF Turn
<1>3. Turn(s, ReleaseRound(a, At(s, n)), n + 1)
  BY <1>1, RoundTurn
<1>4. Gap(ReleaseRound(a, At(s, n)).s.t.win_start, s.t.win_start) <= n + 1
  BY <1>1, <1>2, RoundMoves
<1> QED BY <1>3, <1>4 DEF Loop

\* skw_reorder_release hands up frames and loses none of those it leaves, and
\* what it leaves does not wait for nothing.  The window moves forward, by its
\* size at most.
LEMMA ReleaseGood ==
  ASSUME NEW s, Good(s)
  PROVE  LET z == skw_reorder_release(s)
         IN  /\ Good(z) /\ Kept(s, z) /\ Rearmed(z.r, s.r) /\ (Regular => Rests(s, z))
             /\ Gap(z.t.win_start, s.t.win_start) <= WinSize
<1> DEFINE x == [s |-> s, mode |-> "release"]
           Run(h) == h = [n \in 0 .. WinSize |->
                            IF n = 0 THEN x ELSE ReleaseRound(h[n - 1], (s.t.win_start + n - 1) % U16Mod)]
           g == CHOOSE h : Run(h)
           S == Releasing
           F == [n \in 1 .. WinSize |->
                   [a \in S |-> IF Loop(s, a, n - 1) THEN ReleaseRound(a, At(s, n - 1)) ELSE x]]
<1>z. skw_reorder_release(s) = g[WinSize].s
  BY DEF skw_reorder_release
<1>m. WinSize \in Nat \ {0} /\ WinSize \in 0 .. WinSize /\ 0 \in 0 .. WinSize
  BY Sizes
<1>at. \A n \in 1 .. WinSize : (s.t.win_start + n - 1) % U16Mod = At(s, n - 1)
  <2> DEFINE w == s.t.win_start
  <2>1. w \in Int
    BY GoodTypes
  <2> HIDE DEF w
  <2>2. \A n \in 1 .. WinSize : w + n - 1 = w + (n - 1)
    BY <2>1, <1>m
  <2> QED BY <2>2 DEF At, w
<1>x. Loop(s, x, 0)
  <2>1. x.s = s /\ x.mode = "release"
    OBVIOUS
  <2>2. x \in Releasing
    BY DEF Releasing, Good, Modes
  <2>3. Kept(s, s) /\ Rearmed(s.r, s.r)
    BY GoodTypes, RearmedSame, KeptSame
  <2>4. Gap(At(s, 0), s.t.win_start) = 0
    <3> DEFINE w == s.t.win_start
    <3>1. w \in Int
      BY GoodTypes
    <3>2. At(s, 0) = w % U16Mod
      BY <3>1 DEF At
    <3> HIDE DEF w
    <3>3. Gap(w % U16Mod, w) = Gap(w, w)
      BY <3>1, GapMod
    <3>4. Gap(w, w) = 0
      <4>1. w - w = 0 /\ 0 \in 0 .. SnMod - 1
        BY <3>1, Sizes
      <4>2. 0 % SnMod = 0
        BY <4>1, Sizes, ModSmall
      <4> QED BY <4>1, <4>2 DEF Gap
    <3> QED BY <3>2, <3>3, <3>4 DEF w
  <2> HIDE DEF x
  <2>5. \A j \in 0 .. 0 - 1 : At(s, j) % WinSize \notin Busy(x.s.t)
    OBVIOUS
  <2>6. Gap(x.s.t.win_start, s.t.win_start) <= 0
    BY <2>1, GoodTypes, GapSelf
  <2> QED BY <2>1, <2>2, <2>3, <2>4, <2>5, <2>6 DEF Loop, Turn, Sync
<1> HIDE DEF x
<1>L. ASSUME NEW n \in 1 .. WinSize, NEW a, Loop(s, a, n - 1)
      PROVE  Loop(s, ReleaseRound(a, At(s, n - 1)), n)
  <2> DEFINE m == n - 1
  <2>1. m \in 0 .. WinSize - 1 /\ m + 1 = n
    BY <1>m
  <2>2. Loop(s, a, m)
    BY <1>L
  <2> HIDE DEF m
  <2>3. Loop(s, ReleaseRound(a, At(s, m)), m + 1)
    BY <2>1, <2>2, RoundGood
  <2> QED BY <2>1, <2>3 DEF m
<1>S. x \in S
  BY <1>x DEF Loop, Turn
<1>F. \A n \in 1 .. WinSize : \A a \in S :
        (IF Loop(s, a, n - 1) THEN ReleaseRound(a, At(s, n - 1)) ELSE x) \in S
  BY <1>L, <1>S DEF Loop, Turn
<1> HIDE DEF S
<1>1. PICK h \in [0 .. WinSize -> S] : h[0] = x /\ \A n \in 1 .. WinSize : h[n] = F[n][h[n - 1]]
  <2>1. F \in Rounds(WinSize, S)
    BY <1>F DEF Rounds
  <2>2. WinSize \in Nat /\ x \in S
    BY <1>m, <1>S
  <2> HIDE DEF F
  <2>3. HasRun(WinSize, S, x, F)
    BY <2>1, <2>2, Iterate
  <2> QED BY <2>3 DEF HasRun
<1>2. ASSUME NEW n \in 1 .. WinSize, Loop(s, h[n - 1], n - 1)
      PROVE  h[n] = ReleaseRound(h[n - 1], At(s, n - 1)) /\ Loop(s, h[n], n)
  <2>1. n - 1 \in 0 .. WinSize
    BY <1>m
  <2>2. h[n - 1] \in S
    BY <2>1
  <2>3. h[n] = F[n][h[n - 1]]
    BY <1>1
  <2>4. F[n][h[n - 1]] = ReleaseRound(h[n - 1], At(s, n - 1))
    BY <1>2, <2>2
  <2> HIDE DEF F
  <2>5. h[n] = ReleaseRound(h[n - 1], At(s, n - 1))
    BY <2>3, <2>4
  <2> QED BY <1>2, <1>L, <2>5
<1> HIDE DEF F
<1>3. \A n \in 0 .. WinSize : Loop(s, h[n], n)
  <2> DEFINE T == {n \in 0 .. WinSize : Loop(s, h[n], n)}
  <2>1. 0 \in T
    BY <1>1, <1>x, <1>m
  <2>2. ASSUME NEW n \in 1 .. WinSize, n - 1 \in T PROVE n \in T
    <3>1. n \in 0 .. WinSize /\ Loop(s, h[n - 1], n - 1)
      BY <2>2, <1>m
    <3> QED BY <1>2, <3>1
  <2>3. \A n \in 0 .. WinSize : n \in T
    <3> HIDE DEF T
    <3> QED BY <1>m, <2>1, <2>2, UpTo
  <2> QED BY <2>3
<1>4. \A n \in 1 .. WinSize : h[n] = ReleaseRound(h[n - 1], At(s, n - 1))
  <2> SUFFICES ASSUME NEW n \in 1 .. WinSize PROVE h[n] = ReleaseRound(h[n - 1], At(s, n - 1))
    OBVIOUS
  <2>1. n - 1 \in 0 .. WinSize
    BY <1>m
  <2> QED BY <1>2, <1>3, <2>1
<1>5. Run(h)
  <2>1. h = [n \in 0 .. WinSize |-> h[n]]
    OBVIOUS
  <2>2. \A n \in 0 .. WinSize :
          h[n] = IF n = 0 THEN x ELSE ReleaseRound(h[n - 1], (s.t.win_start + n - 1) % U16Mod)
    <3> SUFFICES ASSUME NEW n \in 0 .. WinSize
                 PROVE  h[n] = IF n = 0 THEN x
                               ELSE ReleaseRound(h[n - 1], (s.t.win_start + n - 1) % U16Mod)
      OBVIOUS
    <3>1. CASE n = 0
      BY <1>1, <3>1
    <3>2. CASE n \in 1 .. WinSize
      <4>1. n # 0
        BY <1>m, <3>2
      <4>2. (s.t.win_start + n - 1) % U16Mod = At(s, n - 1)
        BY <1>at, <3>2
      <4> QED BY <1>4, <3>2, <4>1, <4>2
    <3> QED BY <3>1, <3>2, <1>m
  <2> QED BY <2>1, <2>2
<1>6. Run(g)
  <2> HIDE DEF Run
  <2> QED BY <1>5
<1>7. \A n \in 0 .. WinSize : g[n] = h[n]
  <2>1. g[0] = x /\ \A n \in 1 .. WinSize : g[n] = ReleaseRound(g[n - 1], At(s, n - 1))
    <3>1. \A n \in 1 .. WinSize : n \in 0 .. WinSize /\ n # 0
      BY <1>m
    <3> HIDE DEF g
    <3>2. g[0] = x
      BY <1>6, <1>m
    <3>3. ASSUME NEW n \in 1 .. WinSize PROVE g[n] = ReleaseRound(g[n - 1], At(s, n - 1))
      <4>1. g[n] = ReleaseRound(g[n - 1], (s.t.win_start + n - 1) % U16Mod)
        BY <1>6, <3>1
      <4> QED BY <4>1, <1>at
    <3> QED BY <3>2, <3>3
  <2> DEFINE T == {n \in 0 .. WinSize : g[n] = h[n]}
  <2> HIDE DEF g
  <2>2. 0 \in T
    BY <1>1, <1>m, <2>1
  <2>3. ASSUME NEW n \in 1 .. WinSize, n - 1 \in T PROVE n \in T
    <3>1. n \in 0 .. WinSize /\ g[n - 1] = h[n - 1]
      BY <2>3, <1>m
    <3> QED BY <1>4, <2>1, <3>1
  <2>4. \A n \in 0 .. WinSize : n \in T
    <3> HIDE DEF T
    <3> QED BY <1>m, <2>2, <2>3, UpTo
  <2> QED BY <2>4
<1> DEFINE c == g[WinSize]
           z == c.s
<1>8. Loop(s, c, WinSize)
  BY <1>3, <1>7, <1>m
<1> HIDE DEF c, g
<1>9. Good(z) /\ Kept(s, z) /\ Rearmed(z.r, s.r)
  BY <1>8 DEF Loop, Turn, Releasing
<1>11. Gap(z.t.win_start, s.t.win_start) <= WinSize
  BY <1>8 DEF Loop
<1>10. ASSUME Regular PROVE Rests(s, z)
  <2>1. Sync(s, c, WinSize) /\ c.mode \in Modes
    BY <1>8, <1>10 DEF Loop, Turn, Releasing
  <2>2. CASE c.mode = "stop"
    BY <2>1, <2>2 DEF Sync
  <2>3. CASE c.mode # "stop"
    <3>1. \A j \in 0 .. WinSize - 1 : At(s, j) % WinSize \notin Busy(z.t)
      BY <2>1, <2>3 DEF Sync
    <3>2. ASSUME NEW k \in Slots PROVE k \notin Busy(z.t)
      <4> DEFINE w == s.t.win_start
                 j == (k - w) % WinSize
      <4>1. w \in Int /\ k \in Int /\ k - w \in Int /\ k \in 0 .. WinSize - 1
        BY <1>m, GoodTypes DEF Slots
      <4>2. j \in 0 .. WinSize - 1 /\ j \in Int
        <5> DEFINE e == k - w
        <5> HIDE DEF e
        <5>1. e \in Int
          BY <4>1 DEF e
        <5>2. e % WinSize \in 0 .. WinSize - 1
          BY <5>1, <1>m, ModRange
        <5> QED BY <1>m, <5>2 DEF e
      <4>3. (((k - w) % WinSize) + w) % WinSize = ((k - w) + w) % WinSize
        <5> DEFINE e == k - w
        <5>1. e \in Int
          BY <4>1
        <5> HIDE DEF e, w
        <5>2. ((e % WinSize) + w) % WinSize = (e + w) % WinSize
          BY <5>1, <4>1, <1>m, ModMod
        <5> QED BY <5>2 DEF e
      <4>4. (k - w) + w = k /\ k % WinSize = k
        <5>1. (k - w) + w = k
          BY <4>1
        <5>2. k % WinSize = k
          BY <4>1, <1>m, ModSmall
        <5> QED BY <5>1, <5>2
      <4>5. (j + w) % WinSize = k
        BY <4>3, <4>4
      <4> HIDE DEF j, w
      <4>6. w + j = j + w /\ w + j \in Int
        BY <4>1, <4>2
      <4>7. ((w + j) % U16Mod) % WinSize = (w + j) % WinSize
        BY <1>10, <4>6, SlotMod
      <4>8. At(s, j) % WinSize = k
        BY <4>5, <4>6, <4>7 DEF At, w
      <4> QED BY <3>1, <4>2, <4>8
    <3>3. Busy(z.t) = {}
      BY <3>2 DEF Busy
    <3>4. HeadWaits(z.t)
      <4>1. InSlots(z.t)
        BY <1>9 DEF Good
      <4> QED BY <3>3, <4>1, HeadSlot
    <3> QED BY <3>3, <3>4 DEF Rests
  <2> QED BY <2>2, <2>3
<1> QED BY <1>z, <1>9, <1>10, <1>11 DEF z, c

-----------------------------------------------------------------------------
(* skw_ampdu_reorder. *)

\* What lies nowhere but a multiple of SnMod away is as far from everything.
LEMMA GapSame ==
  ASSUME NEW a \in Int, NEW b \in Int, NEW c \in Int, Gap(a, b) = 0
  PROVE  Gap(c, a) = Gap(c, b)
<1> DEFINE x == a - b
           q == x \div SnMod
           y == c - a
<1>1. x \in Int /\ y \in Int /\ c - b = y + x
  OBVIOUS
<1>2. q \in Int /\ x = SnMod * q + (x % SnMod)
  <2> HIDE DEF x
  <2> QED BY <1>1, Sizes, ModRange
<1>3. x % SnMod = 0
  BY DEF Gap
<1> HIDE DEF x, q, y
<1>4. SnMod * q \in Int /\ x = SnMod * q
  BY <1>1, <1>2, <1>3, Sizes
<1>5. (y + SnMod * q) % SnMod = y % SnMod
  BY <1>1, <1>2, Sizes, ModShift
<1> QED BY <1>1, <1>4, <1>5 DEF Gap, y

\* The frame that is sn less d is d nearer.
LEMMA GapDown ==
  ASSUME NEW a \in Int, NEW b \in Int, NEW d \in 0 .. SnMod, Gap(a, b) >= d
  PROVE  Gap(ieee80211_sn_sub(a, d), b) = Gap(a, b) - d
<1> DEFINE x == a - b
           e == a - d
           nb == -b
<1>1. x \in Int /\ e \in Int /\ nb \in Int /\ e + nb = x - d /\ d \in Int
  BY Sizes
<1>2. ((e % SnMod) + nb) % SnMod = (e + nb) % SnMod
  <2> HIDE DEF e, nb
  <2> QED BY <1>1, Sizes, ModMod
<1>3. (x - d) % SnMod = IF x % SnMod >= d THEN (x % SnMod) - d ELSE (x % SnMod) - d + SnMod
  <2> HIDE DEF x
  <2> QED BY <1>1, Sizes, ModDown
<1>4. Gap(a, b) = x % SnMod
  BY DEF Gap
<1>5. (e % SnMod) - b = (e % SnMod) + nb
  <2>1. e % SnMod \in Int
    <3> HIDE DEF e
    <3> QED BY <1>1, Sizes, ModRange
  <2> HIDE DEF e
  <2> QED BY <2>1
<1>6. Gap(ieee80211_sn_sub(a, d), b) = ((e % SnMod) - b) % SnMod
  BY DEF Gap, ieee80211_sn_sub
<1> HIDE DEF x, e, nb
<1> QED BY <1>1, <1>2, <1>3, <1>4, <1>5, <1>6

\* Not behind the window and not beyond it is in it.
LEMMA InsideWindow ==
  ASSUME Regular, NEW a \in Int, NEW w \in Int, ~ieee80211_sn_less(a, w)
  PROVE  /\ ieee80211_sn_less(a, w + WinSize) => Gap(a, w) < WinSize
         /\ ~ieee80211_sn_less(a, w + WinSize) =>
              ieee80211_sn_less(w, ieee80211_sn_inc(ieee80211_sn_sub(a, WinSize)))
<1> DEFINE h == SnMod \div 2
           g == Gap(a, w)
           e == w + WinSize
           g1 == Gap(a, e)
           p == ieee80211_sn_sub(a, WinSize)
           q == ieee80211_sn_inc(p)
<1>1. SnMod \in Nat \ {0} /\ WinSize \in Nat \ {0} /\ 2 * WinSize < SnMod /\ WinSize > 1
  BY Sizes DEF Regular
<1>2. h \in Int /\ 2 * h <= SnMod /\ SnMod <= 2 * h + 1
  BY <1>1
<1>3. WinSize \in 0 .. SnMod /\ e \in Int /\ p \in Int /\ q \in Int
  <2>1. WinSize \in 0 .. SnMod /\ e \in Int
    BY <1>1
  <2>2. p \in Int
    BY SnRange, Sizes
  <2>3. q \in Int
    <3> HIDE DEF p
    <3> QED BY <2>2, SnRange, Sizes
  <2> QED BY <2>1, <2>2, <2>3
<1>4. g1 = IF g >= WinSize THEN g - WinSize ELSE g - WinSize + SnMod
  BY <1>3, GapAhead
<1>5. g \in 0 .. SnMod - 1 /\ ~(g > h)
  BY GapRange, LessGap
<1>6. ieee80211_sn_less(a, e) <=> g1 > h
  BY LessGap
<1>7. ASSUME ~(g1 > h) PROVE ieee80211_sn_less(w, q)
  <2> DEFINE gp == Gap(p, w)
             gq == Gap(q, w)
             gw == Gap(w, q)
  <2>1. g >= WinSize
    <3> HIDE DEF g, g1, h, e, p, q
    <3> QED BY <1>1, <1>2, <1>4, <1>5, <1>7
  <2>2. gp = g - WinSize
    <3> HIDE DEF h, e
    <3> QED BY <1>3, <2>1, GapDown
  <2>3. gq = IF gp = SnMod - 1 THEN 0 ELSE gp + 1
    <3> HIDE DEF p
    <3> QED BY <1>3, GapInc
  <2>4. gw = IF gq = 0 THEN 0 ELSE SnMod - gq
    <3> HIDE DEF q
    <3> QED BY <1>3, GapFlip
  <2>5. gw > h
    <3> HIDE DEF gp, gq, gw, g, g1, h, e, p, q
    <3> QED BY <1>1, <1>2, <1>5, <2>1, <2>2, <2>3, <2>4
  <2> HIDE DEF q
  <2> QED BY <2>5, LessGap
<1>8. ASSUME g1 > h PROVE g < WinSize
  <2> HIDE DEF g, g1, h, e, p, q
  <2> QED BY <1>1, <1>2, <1>4, <1>5, <1>8
<1> QED BY <1>6, <1>7, <1>8

\* The window after skw_reorder_force_release made room for the frame a.
LEMMA RoomMade ==
  ASSUME Regular, NEW a \in Int, NEW z, Good(z), Past(z, ieee80211_sn_sub(a, WinSize))
  PROVE  Gap(a, z.t.win_start) <= WinSize /\ Gap(a, z.t.win_start) # 0
<1> DEFINE p == ieee80211_sn_sub(a, WinSize)
           q == ieee80211_sn_inc(p)
           w == z.t.win_start
<1>1. /\ SnMod \in Nat \ {0} /\ WinSize \in Nat \ {0} /\ 2 * WinSize < SnMod
      /\ w \in Int /\ WinSize > 1
  <2>1. w \in Int
    BY GoodTypes
  <2> QED BY <2>1, Sizes DEF Regular
<1>2. p \in Int /\ WinSize \in 0 .. SnMod - 1
  <2>1. p \in Int
    BY SnRange, Sizes
  <2>2. WinSize \in 0 .. SnMod - 1
    <3> HIDE DEF w
    <3> QED BY <1>1
  <2> QED BY <2>1, <2>2
<1>3. Gap(a, p) = WinSize
  BY <1>2, GapSub
<1>4. q \in Int
  <2> HIDE DEF p
  <2> QED BY <1>2, SnRange, Sizes
<1>5. CASE w = p
  BY <1>1, <1>3, <1>5
<1>6. CASE Gap(w, q) = 0
  <2>1. Gap(a, w) = Gap(a, q)
    <3> HIDE DEF w, q
    <3> QED BY <1>1, <1>4, <1>6, GapSame
  <2>2. Gap(a, q) = IF Gap(a, p) = 0 THEN SnMod - 1 ELSE Gap(a, p) - 1
    <3> HIDE DEF p
    <3> QED BY <1>2, GapInc
  <2> HIDE DEF p, q, w
  <2>3. Gap(a, q) = WinSize - 1
    BY <1>1, <1>3, <2>2
  <2> QED BY <1>1, <2>1, <2>3 DEF w
<1> QED BY <1>5, <1>6 DEF Past

\* The list of a slot with one more subframe, and the session that holds it.
Joined(old, f) ==
  IF IsEmpty(old) THEN [sn |-> f.sn, got |-> {f.part}, age |-> 0]
  ELSE [old EXCEPT !.got = @ \cup {f.part}]
Buffered(a, f) ==
  [a EXCEPT !.t.buf[f.sn % WinSize] = Joined(a.t.buf[f.sn % WinSize], f),
            !.t.stored_num = @ + count_first_skb(a.t.buf[f.sn % WinSize])]

\* The types of what the peer sends.
LEMMA FrameParts ==
  ASSUME NEW f \in Frames
  PROVE  f.sn \in Sn /\ f.sn \in Int /\ f.sn \in U16 /\ f.part \in 0 .. Parts
<1>1. PICK n \in RxSns : f \in {[sn |-> n, part |-> p] : p \in AllParts(n)}
  BY DEF Frames
<1>2. PICK p \in AllParts(n) : f = [sn |-> n, part |-> p]
  BY <1>1
<1>3. n \in Sn /\ p \in 0 .. Parts
  BY WindowAssumption DEF AllParts
<1> QED BY <1>2, <1>3, Sizes

\* A list with one more subframe is a list of the same number.
LEMMA JoinedForm ==
  ASSUME NEW old \in FrameType, NEW f \in Frames
  PROVE  /\ Joined(old, f) \in FrameType /\ ~IsEmpty(Joined(old, f))
         /\ Joined(old, f).sn = IF IsEmpty(old) THEN f.sn ELSE old.sn
<1>1. f.sn \in Sn /\ f.part \in 0 .. Parts /\ 0 \in 0 .. MsduAge
  BY FrameParts, WindowAssumption
<1>2. CASE IsEmpty(old)
  <2>1. Joined(old, f) = [sn |-> f.sn, got |-> {f.part}, age |-> 0]
    BY <1>2 DEF Joined
  <2> QED BY <1>1, <1>2, <2>1 DEF FrameType, IsEmpty
<1>3. CASE ~IsEmpty(old)
  <2> DEFINE g == old.got \cup {f.part}
  <2>1. Joined(old, f) = [old EXCEPT !.got = g]
    BY <1>3 DEF Joined
  <2>2. g \subseteq 0 .. Parts /\ g # {}
    BY <1>1 DEF FrameType
  <2> HIDE DEF g
  <2>3. old = [sn |-> old.sn, got |-> old.got, age |-> old.age]
    BY DEF FrameType
  <2>4. Joined(old, f) = [sn |-> old.sn, got |-> g, age |-> old.age]
    BY <2>1, <2>3
  <2>5. old.sn \in Sn /\ old.age \in 0 .. MsduAge
    BY DEF FrameType
  <2> DEFINE z == Joined(old, f)
             m == old.sn
             t == old.age
  <2>6. z = [sn |-> m, got |-> g, age |-> t] /\ m \in Sn /\ t \in 0 .. MsduAge
    BY <2>4, <2>5
  <2> HIDE DEF z, m, t
  <2>7. z.sn = m /\ z.got = g
    BY <2>6
  <2>8. z \in FrameType
    BY <2>2, <2>6 DEF FrameType
  <2>9. ~IsEmpty(z)
    BY <2>2, <2>7 DEF IsEmpty
  <2> QED BY <1>3, <2>7, <2>8, <2>9 DEF z, m
<1> QED BY <1>2, <1>3

\* The record Buffered returns.
LEMMA BufferedForm ==
  ASSUME NEW a \in Work, NEW f \in Frames
  PROVE  LET z == Buffered(a, f)
             k == f.sn % WinSize
             old == a.t.buf[k]
         IN  /\ z = [ref |-> a.ref, t |-> z.t, r |-> a.r, out |-> a.out]
             /\ z.t = [live |-> a.t.live, win_start |-> a.t.win_start,
                       stored_num |-> a.t.stored_num + count_first_skb(old),
                       buf |-> [a.t.buf EXCEPT ![k] = Joined(old, f)]]
<1> DEFINE k == f.sn % WinSize
           old == a.t.buf[k]
           new == Joined(old, f)
           n == a.t.stored_num + count_first_skb(old)
           b == [a.t.buf EXCEPT ![k] = new]
           u1 == [a.t EXCEPT !.buf = b]
           u2 == [u1 EXCEPT !.stored_num = n]
           z == [a EXCEPT !.t = u2]
<1>1. a = [ref |-> a.ref, t |-> a.t, r |-> a.r, out |-> a.out] /\ a.t \in Session
  BY DEF Work
<1>2. a.t = [live |-> a.t.live, win_start |-> a.t.win_start, stored_num |-> a.t.stored_num,
             buf |-> a.t.buf]
  BY <1>1 DEF Session
<1>3. Buffered(a, f) = z
  <2> HIDE DEF new
  <2>1. Buffered(a, f) = [a EXCEPT !.t.buf[k] = new, !.t.stored_num = n]
    <3>1. Buffered(a, f) = [a EXCEPT !.t.buf[k] = new, !.t.stored_num = @ + count_first_skb(old)]
      BY DEF Buffered, new
    <3> DEFINE c == count_first_skb(old)
    <3> HIDE DEF c, k, new
    <3> QED BY <3>1, <1>1, <1>2 DEF c
  <2> QED BY <2>1, <1>1, <1>2
<1> HIDE DEF n, b, new
<1>4. u1 = [live |-> a.t.live, win_start |-> a.t.win_start, stored_num |-> a.t.stored_num, buf |-> b]
  BY <1>2
<1> HIDE DEF u1
<1>5. u2 = [live |-> a.t.live, win_start |-> a.t.win_start, stored_num |-> n, buf |-> b]
  BY <1>4
<1> HIDE DEF u2
<1>6. z = [ref |-> a.ref, t |-> u2, r |-> a.r, out |-> a.out]
  BY <1>1
<1>7. z.t = u2
  BY <1>6
<1> HIDE DEF z
<1> QED BY <1>3, <1>5, <1>6, <1>7 DEF n, b, new

\* A frame is buffered in the slot of its number; a session that is good, and
\* whose window the frame is in, stays good.
LEMMA BufferedGood ==
  ASSUME NEW a, Good(a), NEW f \in Frames,
         Regular => Gap(f.sn, a.t.win_start) <= WinSize
  PROVE  LET z == Buffered(a, f)
             k == f.sn % WinSize
         IN  /\ Good(z) /\ z.ref = a.ref /\ z.r = a.r /\ z.out = a.out
             /\ z.t.live = a.t.live /\ z.t.win_start = a.t.win_start /\ Busy(z.t) = Busy(a.t) \cup {k}
             /\ z.t.buf = [a.t.buf EXCEPT ![k] = Joined(a.t.buf[k], f)]
<1> DEFINE z == Buffered(a, f)
           k == f.sn % WinSize
           old == a.t.buf[k]
           new == Joined(old, f)
<1>0. /\ a \in Work /\ a.t \in Session /\ a.t.buf \in [Slots -> FrameType] /\ k \in Slots
      /\ a.r \in ReorderType /\ a.ref \in Refs
  BY GoodTypes, FrameParts, SlotOf
<1>1. /\ new \in FrameType /\ ~IsEmpty(new)
      /\ new.sn = IF IsEmpty(old) THEN f.sn ELSE old.sn
  <2>1. old \in FrameType
    BY <1>0
  <2> HIDE DEF old
  <2> QED BY <2>1, JoinedForm
<1>2. /\ z = [ref |-> a.ref, t |-> z.t, r |-> a.r, out |-> a.out]
      /\ z.t = [live |-> a.t.live, win_start |-> a.t.win_start,
                stored_num |-> a.t.stored_num + count_first_skb(old),
                buf |-> [a.t.buf EXCEPT ![k] = new]]
  BY <1>0, BufferedForm
<1> HIDE DEF z, new
<1>3. z.ref = a.ref /\ z.r = a.r /\ z.out = a.out
  BY <1>2
<1>4. z.t.live = a.t.live /\ z.t.win_start = a.t.win_start
  BY <1>2
<1>5. /\ z.t.stored_num = a.t.stored_num + count_first_skb(old)
      /\ z.t.buf = [a.t.buf EXCEPT ![k] = new]
  BY <1>2
<1>6. /\ z.t.buf \in [Slots -> FrameType]
      /\ \A j \in Slots : z.t.buf[j] = IF j = k THEN new ELSE a.t.buf[j]
  BY <1>0, <1>1, <1>5
<1>7. Busy(z.t) = Busy(a.t) \cup {k}
  BY <1>0, <1>1, <1>6 DEF Busy
<1>8. Counted(z.t) /\ z.t.stored_num \in Nat
  <2>1. IsFiniteSet(Busy(a.t)) /\ Cardinality(Busy(a.t)) \in Nat
    BY BusyCount, Sizes
  <2>2. k \in Busy(a.t) <=> ~IsEmpty(old)
    BY <1>0 DEF Busy
  <2>3. CASE IsEmpty(old)
    <3>1. Cardinality(Busy(z.t)) = Cardinality(Busy(a.t)) + 1
      BY <1>7, <2>1, <2>2, <2>3, FS_AddElement
    <3>2. count_first_skb(old) = 1
      BY <2>3 DEF count_first_skb
    <3> QED BY <1>5, <2>1, <3>1, <3>2 DEF Counted, Good
  <2>4. CASE ~IsEmpty(old)
    <3>1. Busy(z.t) = Busy(a.t)
      BY <1>7, <2>2, <2>4
    <3>2. count_first_skb(old) = 0
      BY <2>4 DEF count_first_skb
    <3> QED BY <1>5, <2>1, <3>1, <3>2 DEF Counted, Good
  <2> QED BY <2>3, <2>4
<1>9. z \in Work
  <2>1. a.t.live \in BOOLEAN /\ a.t.win_start \in U16 /\ a.out \in Seq(FrameType)
    BY <1>0 DEF Session, Work
  <2>2. z.t = [live |-> z.t.live, win_start |-> z.t.win_start, stored_num |-> z.t.stored_num,
               buf |-> z.t.buf]
    BY <1>2, <1>4, <1>5
  <2>3. z.t \in Session
    BY <1>4, <1>6, <1>8, <2>1, <2>2 DEF Session
  <2> QED BY <1>0, <1>2, <2>1, <2>3 DEF Work
<1>10. ASSUME NEW j \in Busy(z.t)
       PROVE  \/ j \in Busy(a.t) /\ z.t.buf[j].sn = a.t.buf[j].sn
              \/ j = k /\ z.t.buf[j].sn = f.sn
  BY <1>0, <1>1, <1>6, <1>7 DEF Busy
<1>11. InSlots(z.t)
  BY <1>10 DEF InSlots, Good
<1>12. ASSUME Regular PROVE InWindow(z.t)
  BY <1>4, <1>10, <1>12 DEF InWindow, Good
<1>13. Good(z)
  BY <1>8, <1>9, <1>11, <1>12 DEF Good
<1> QED BY <1>3, <1>4, <1>5, <1>7, <1>13 DEF z, new

\* A frame reaches the window: it is dropped, buffered or handed up, together
\* with the frames that make room for it; unless a release is due, the window
\* and the timer are left alone.
LEMMA WindowGood ==
  ASSUME NEW s, Good(s), NEW f \in Frames
  PROVE  LET w == ampdu_window(s, f)
             z == w.s
         IN  /\ Good(z) /\ z.ref = s.ref /\ z.t.live = s.t.live /\ Rearmed(z.r, s.r)
             /\ ~w.release =>
                  /\ z.r = s.r
                  /\ z.t = s.t \/ f.sn % WinSize \in Busy(z.t)
                  /\ Regular /\ HeadWaits(s.t) => HeadWaits(z.t)
<1> DEFINE w   == ampdu_window(s, f)
           to  == ieee80211_sn_sub(f.sn, WinSize)
           oob == ~ieee80211_sn_less(f.sn, s.t.win_start + WinSize)
           a   == IF oob THEN skw_reorder_force_release(s, to) ELSE s
           k   == f.sn % WinSize
           old == a.t.buf[k]
           new == Joined(old, f)
           b   == Buffered(a, f)
           dup == IF f.sn \in Amsdu THEN f.part \in old.got ELSE ~IsEmpty(old)
           due == IF b.r.pending /\ b.r.expired_sn = b.t.win_start THEN del_timer(b) ELSE b
           head == skw_is_release_ready(new) /\ f.sn = a.t.win_start
           P(v) == /\ Good(v.s) /\ v.s.ref = s.ref /\ v.s.t.live = s.t.live /\ Rearmed(v.s.r, s.r)
                   /\ ~v.release =>
                        /\ v.s.r = s.r
                        /\ v.s.t = s.t \/ k \in Busy(v.s.t)
                        /\ Regular /\ HeadWaits(s.t) => HeadWaits(v.s.t)
<1>w. w = IF ieee80211_sn_less(f.sn, s.t.win_start) THEN [s |-> s, release |-> FALSE]
          ELSE IF dup THEN [s |-> a, release |-> oob]
          ELSE IF head THEN [s |-> Dequeue(due, k), release |-> TRUE]
          ELSE [s |-> b, release |-> oob]
  BY DEF ampdu_window, Joined, Buffered
<1>s. /\ s \in Work /\ s.r \in ReorderType /\ s.t.win_start \in Int /\ Rearmed(s.r, s.r)
      /\ Kept(s, s)
  <2>1. s \in Work /\ s.r \in ReorderType /\ s.t.win_start \in Int
    BY GoodTypes
  <2> QED BY <2>1, RearmedSame, KeptSame
<1>f. f.sn \in Sn /\ f.sn \in Int /\ f.sn \in U16 /\ k \in Slots
  BY FrameParts, SlotOf
<1> SUFFICES P(w)
  OBVIOUS
<1>1. CASE ieee80211_sn_less(f.sn, s.t.win_start)
  <2>1. w = [s |-> s, release |-> FALSE]
    BY <1>w, <1>1
  <2>2. w.s = s
    BY <2>1
  <2> HIDE DEF w, k
  <2> QED BY <1>s, <2>2
<1>2. CASE ~ieee80211_sn_less(f.sn, s.t.win_start)
  <2>to. to \in U16 /\ to \in Int
    BY <1>f, SnRange, Sizes
  <2>i. Regular => /\ ~oob => Gap(f.sn, s.t.win_start) < WinSize
                   /\ oob => ieee80211_sn_less(s.t.win_start, ieee80211_sn_inc(to))
    BY <1>s, <1>f, <1>2, InsideWindow
  <2>a. /\ Good(a) /\ a.ref = s.ref /\ a.t.live = s.t.live /\ Rearmed(a.r, s.r)
        /\ (Regular => Gap(f.sn, a.t.win_start) <= WinSize)
    <3>1. CASE oob
      <4>1. a = skw_reorder_force_release(s, to)
        BY <3>1
      <4> HIDE DEF a
      <4>2. /\ Good(a) /\ Kept(s, a)
            /\ a.r = s.r \/ a.r = [s.r EXCEPT !.pending = FALSE]
            /\ ieee80211_sn_less(s.t.win_start, ieee80211_sn_inc(to)) => Past(a, to)
        <5> HIDE DEF to
        <5> QED BY <2>to, <4>1, ForceReleaseGood
      <4>3. Rearmed(a.r, s.r)
        <5>1. CASE a.r = s.r
          BY <1>s, <5>1
        <5>2. CASE a.r = [s.r EXCEPT !.pending = FALSE]
          BY <1>s, <5>2, StopTimer
        <5> QED BY <4>2, <5>1, <5>2
      <4>4. Regular => Gap(f.sn, a.t.win_start) <= WinSize
        BY <1>f, <2>i, <3>1, <4>2, RoomMade
      <4> QED BY <4>2, <4>3, <4>4 DEF Kept
    <3>2. CASE ~oob
      <4>1. a = s
        BY <3>2
      <4>2. Regular => Gap(f.sn, s.t.win_start) <= WinSize
        <5>1. Gap(f.sn, s.t.win_start) \in 0 .. SnMod - 1 /\ WinSize \in Nat
          BY <1>s, <1>f, GapRange, Sizes
        <5> DEFINE g == Gap(f.sn, s.t.win_start)
        <5> HIDE DEF g
        <5>2. g < WinSize => g <= WinSize
          BY <5>1, Sizes DEF g
        <5> QED BY <2>i, <3>2, <5>2 DEF g
      <4> HIDE DEF a, oob
      <4> QED BY <1>s, <4>1, <4>2
    <3> QED BY <3>1, <3>2
  <2>o. ~oob => a = s
    OBVIOUS
  <2> HIDE DEF a, oob, to
  <2>b. /\ Good(b) /\ b.ref = a.ref /\ b.r = a.r /\ b.t.live = a.t.live
        /\ b.t.win_start = a.t.win_start /\ Busy(b.t) = Busy(a.t) \cup {k}
        /\ b.t.buf = [a.t.buf EXCEPT ![k] = new]
    BY <2>a, BufferedGood
  <2> HIDE DEF b
  <2>1. CASE dup
    <3>1. w = [s |-> a, release |-> oob]
      BY <1>w, <1>2, <2>1
    <3>2. w.s = a /\ w.release = oob
      BY <3>1
    <3>3. ~w.release => a = s
      BY <2>o, <3>2
    <3> HIDE DEF w, k
    <3> QED BY <2>a, <3>2, <3>3
  <2>2. CASE ~dup /\ head
    <3>1. w = [s |-> Dequeue(due, k), release |-> TRUE]
      BY <1>w, <1>2, <2>2
    <3>2. w.s = Dequeue(due, k) /\ w.release
      BY <3>1
    <3> HIDE DEF w
    <3>3. Good(due) /\ due.t = b.t /\ due.ref = b.ref /\ Rearmed(due.r, b.r)
      <4>0. b.r \in ReorderType
        BY <2>b, GoodTypes
      <4>1. CASE due = b
        <5> HIDE DEF due
        <5> QED BY <2>b, <4>0, <4>1, RearmedSame
      <4>2. CASE due = del_timer(b)
        <5> HIDE DEF due
        <5> QED BY <2>b, <4>0, <4>2, DelTimerGood, StopTimer
      <4> QED BY <4>1, <4>2
    <3>4. k \in Busy(due.t) /\ k = due.t.win_start % WinSize
      BY <2>2, <2>b, <3>3
    <3> DEFINE z == Dequeue(due, k)
    <3>5. Good(z) /\ Kept(due, z) /\ z.r = due.r
      <4> HIDE DEF due, k
      <4> QED BY <3>3, <3>4, DequeueGood
    <3> HIDE DEF due, z
    <3>6. Rearmed(z.r, s.r)
      BY <2>a, <2>b, <3>3, <3>5, RearmedTrans
    <3> QED BY <2>a, <2>b, <3>2, <3>3, <3>5, <3>6 DEF Kept, z
  <2>3. CASE ~dup /\ ~head
    <3>1. w = [s |-> b, release |-> oob]
      BY <1>w, <1>2, <2>3
    <3>2. w.s = b /\ w.release = oob
      BY <3>1
    <3>3. ASSUME ~oob, Regular, HeadWaits(s.t) PROVE HeadWaits(b.t)
      <4> SUFFICES ASSUME NEW j \in Slots, b.t.buf[j].sn = b.t.win_start,
                          skw_is_release_ready(b.t.buf[j])
                   PROVE  FALSE
        BY DEF HeadWaits
      <4>a. a = s
        BY <2>o, <3>3
      <4>b. s.t.buf \in [Slots -> FrameType]
        BY GoodTypes
      <4>1. CASE j # k
        <5>1. b.t.buf[j] = s.t.buf[j] /\ b.t.win_start = s.t.win_start
          BY <1>f, <2>b, <4>1, <4>a, <4>b
        <5> QED BY <3>3, <5>1 DEF HeadWaits
      <4>2. CASE j = k
        <5>1. b.t.buf[k] = new /\ b.t.win_start = s.t.win_start
          BY <1>f, <2>b, <4>a, <4>b
        <5>2. skw_is_release_ready(new) /\ new.sn = s.t.win_start
          BY <4>2, <5>1
        <5>3. old \in FrameType
          BY <1>f, <4>a, <4>b
        <5>4. new.sn = IF IsEmpty(old) THEN f.sn ELSE old.sn
          <6> HIDE DEF old
          <6> QED BY <5>3, JoinedForm
        <5>5. CASE IsEmpty(old)
          BY <2>3, <4>a, <5>2, <5>4, <5>5
        <5>6. CASE ~IsEmpty(old)
          <6> DEFINE v == s.t.win_start
          <6>1. k \in Busy(s.t)
            BY <1>f, <4>a, <5>6 DEF Busy
          <6>2. old.sn % WinSize = k /\ old.sn = v
            BY <4>a, <5>2, <5>4, <5>6, <6>1 DEF Good, InSlots
          <6>3. v \in Sn /\ v \in Int
            BY <1>s, <5>3, <6>2 DEF FrameType
          <6>4. f.sn % WinSize = v % WinSize
            BY <6>2
          <6>5. Gap(f.sn, v) < WinSize
            BY <2>i, <3>3
          <6> HIDE DEF v
          <6>6. Gap(f.sn, v) = 0
            BY <1>f, <3>3, <6>3, <6>4, <6>5, SlotGap
          <6>7. f.sn = v
            BY <1>f, <6>3, <6>6, GapEqual
          <6> QED BY <2>3, <4>a, <5>2, <6>7 DEF v
        <5> QED BY <5>5, <5>6
      <4> QED BY <4>1, <4>2
    <3>4. k \in Busy(b.t)
      BY <2>b
    <3>5. ~oob => b.r = s.r
      BY <2>b, <2>o
    <3> HIDE DEF w, k
    <3> QED BY <2>a, <2>b, <3>2, <3>3, <3>4, <3>5
  <2> HIDE DEF w, dup, head
  <2> QED BY <2>1, <2>2, <2>3
<1> HIDE DEF w
<1> QED BY <1>1, <1>2

-----------------------------------------------------------------------------
(* What a step hands up. *)

\* Every list of t is still a list of u, or on the list o, exactly once.
Passed(t, u, o) ==
  \A k \in Busy(t) :
    \/ k \in Busy(u) /\ u.buf[k].sn = t.buf[k].sn /\ t.buf[k].got \subseteq u.buf[k].got
    \/ \E i \in DOMAIN o :
         /\ o[i].sn = t.buf[k].sn /\ t.buf[k].got \subseteq o[i].got
         /\ \A j \in DOMAIN o : o[j].sn = t.buf[k].sn => j = i

Ordered(t, o) == \A i, j \in DOMAIN o : i < j => Before(t, o[i], o[j])

\* The window of u is that of t, or ahead of it.
Forward(t, u) ==
  Gap(u.win_start, t.win_start) = 0 \/ ieee80211_sn_less(t.win_start, u.win_start)

\* The functions hand up what they do not keep.
LEMMA KeptPasses ==
  ASSUME Regular, NEW s, NEW z, Good(s), Good(z), s.out = <<>>, Kept(s, z)
  PROVE  Passed(s.t, z.t, z.out) /\ Ordered(s.t, z.out)
<1> DEFINE o == z.out
<1>1. o \in Seq(FrameType) /\ Len(s.out) = 0
  BY DEF Good, Work
<1>2. Sent(s, z) = DOMAIN o
  <2> HIDE DEF o
  <2>1. DOMAIN o = 1 .. Len(o)
    BY <1>1
  <2> QED BY <1>1, <2>1 DEF Sent, o
<1>3. HandedUp(s, z) /\ Sorted(s, z)
  BY DEF Kept
<1>4. ASSUME NEW k \in Busy(s.t), k \notin Busy(z.t)
      PROVE  \E i \in DOMAIN o :
               /\ o[i].sn = s.t.buf[k].sn /\ s.t.buf[k].got \subseteq o[i].got
               /\ \A j \in DOMAIN o : o[j].sn = s.t.buf[k].sn => j = i
  <2>1. PICK i \in DOMAIN o : o[i] = s.t.buf[k]
    BY <1>2, <1>3, <1>4 DEF HandedUp
  <2>2. \A j \in DOMAIN o : o[j].sn = o[i].sn => j = i
    BY <1>2, <1>3 DEF HandedUp
  <2> HIDE DEF o
  <2> QED BY <2>1, <2>2
<1>5. Passed(s.t, z.t, o)
  BY <1>4 DEF Passed, Kept
<1>6. Ordered(s.t, o)
  BY <1>2, <1>3 DEF Ordered, Sorted
<1> QED BY <1>5, <1>6

\* With two windows in the sequence numbers, a window or less ahead is ahead.
LEMMA AheadForward ==
  ASSUME Regular, NEW a \in Int, NEW b \in Int, Gap(a, b) <= WinSize
  PROVE  Gap(a, b) = 0 \/ ieee80211_sn_less(b, a)
<1> DEFINE g == Gap(a, b)
           f == Gap(b, a)
           h == SnMod \div 2
<1>1. f = IF g = 0 THEN 0 ELSE SnMod - g
  BY GapFlip
<1>2. /\ g \in 0 .. SnMod - 1 /\ g <= WinSize
      /\ SnMod \in Nat \ {0} /\ WinSize \in Nat \ {0} /\ 2 * WinSize < SnMod
  BY GapRange, Sizes DEF Regular
<1>3. h \in Int /\ 2 * h <= SnMod /\ SnMod <= 2 * h + 1
  BY <1>2
<1> HIDE DEF g, f, h
<1>4. g = 0 \/ f > h
  BY <1>1, <1>2, <1>3
<1> QED BY <1>4, LessGap DEF g, f, h

\* Where skw_reorder_force_release leaves the window is not behind.
LEMMA ForceForward ==
  ASSUME NEW s, Good(s), NEW to_sn \in U16
  PROVE  Forward(s.t, skw_reorder_force_release(s, to_sn).t)
<1> DEFINE z == skw_reorder_force_release(s, to_sn)
           c == ieee80211_sn_inc(to_sn)
           w == s.t.win_start
           x == z.t.win_start
           h == SnMod \div 2
<1> SUFFICES Gap(x, w) = 0 \/ ieee80211_sn_less(w, x)
  BY DEF Forward
<1>1. /\ Good(z) /\ (ieee80211_sn_less(w, c) => Past(z, to_sn))
      /\ (~ieee80211_sn_less(w, c) => z.t = s.t)
  BY ForceReleaseGood
<1> HIDE DEF z
<1>2. w \in Int /\ x \in Int /\ to_sn \in Int /\ c \in Int
  <2>1. to_sn \in Int
    BY Sizes
  <2> QED BY <1>1, <2>1, GoodTypes, SnRange, Sizes
<1>3. SnMod \in Nat \ {0} /\ h \in Int
  BY Sizes
<1>4. CASE ~ieee80211_sn_less(w, c)
  <2>1. x = w
    BY <1>1, <1>4
  <2> HIDE DEF x, w
  <2> QED BY <1>2, <2>1, GapSelf
<1>5. CASE ieee80211_sn_less(w, c)
  <2>1. Gap(w, c) > h
    BY <1>5, LessGap
  <2>2. CASE x = to_sn
    <3> DEFINE g == Gap(w, to_sn)
    <3>1. Gap(w, c) = IF g = 0 THEN SnMod - 1 ELSE g - 1
      <4> HIDE DEF w
      <4> QED BY <1>2, GapInc
    <3>2. g \in 0 .. SnMod - 1
      BY <1>2, GapRange
    <3>3. Gap(to_sn, w) = IF g = 0 THEN 0 ELSE SnMod - g
      <4> HIDE DEF w
      <4> QED BY <1>2, GapFlip
    <3>4. CASE g = 0
      BY <2>2, <3>3, <3>4
    <3>5. CASE g # 0
      <4>1. g > h
        <5> HIDE DEF g, w, c, h
        <5> QED BY <1>3, <2>1, <3>1, <3>2, <3>5
      <4> HIDE DEF x, w
      <4> QED BY <2>2, <4>1, LessGap
    <3> QED BY <3>4, <3>5
  <2>3. CASE Gap(x, c) = 0
    <3> HIDE DEF x, w, c
    <3>1. Gap(w, x) = Gap(w, c)
      BY <1>2, <2>3, GapSame
    <3> QED BY <2>1, <3>1, LessGap
  <2> QED BY <1>1, <1>5, <2>2, <2>3 DEF Past
<1> QED BY <1>4, <1>5

\* The subframes of a list stay on it.
LEMMA JoinedGot ==
  ASSUME NEW old \in FrameType, NEW f, ~IsEmpty(old)
  PROVE  old.got \subseteq Joined(old, f).got
<1> DEFINE g == old.got \cup {f.part}
<1>1. Joined(old, f) = [old EXCEPT !.got = g]
  BY DEF Joined
<1> HIDE DEF g
<1>2. [old EXCEPT !.got = g].got = g
  BY DEF FrameType
<1> QED BY <1>1, <1>2 DEF g

\* What is on an empty list and one more frame.
LEMMA OneOut ==
  ASSUME NEW x
  PROVE  LET o == Append(<<>>, x) IN DOMAIN o = {1} /\ o[1] = x
OBVIOUS

\* Nothing is lost and no order broken when a frame reaches the window: it is
\* dropped, buffered or handed up alone, unless others make room for it.
LEMMA WindowSends ==
  ASSUME Regular, NEW s, Good(s), s.out = <<>>, NEW f \in Frames
  PROVE  LET z == ampdu_window(s, f).s
         IN  Passed(s.t, z.t, z.out) /\ Ordered(s.t, z.out) /\ Forward(s.t, z.t)
<1> DEFINE w   == ampdu_window(s, f)
           to  == ieee80211_sn_sub(f.sn, WinSize)
           oob == ~ieee80211_sn_less(f.sn, s.t.win_start + WinSize)
           a   == IF oob THEN skw_reorder_force_release(s, to) ELSE s
           k   == f.sn % WinSize
           old == a.t.buf[k]
           new == Joined(old, f)
           b   == Buffered(a, f)
           dup == IF f.sn \in Amsdu THEN f.part \in old.got ELSE ~IsEmpty(old)
           due == IF b.r.pending /\ b.r.expired_sn = b.t.win_start THEN del_timer(b) ELSE b
           head == skw_is_release_ready(new) /\ f.sn = a.t.win_start
           P(z) == Passed(s.t, z.t, z.out) /\ Ordered(s.t, z.out) /\ Forward(s.t, z.t)
<1>w. w = IF ieee80211_sn_less(f.sn, s.t.win_start) THEN [s |-> s, release |-> FALSE]
          ELSE IF dup THEN [s |-> a, release |-> oob]
          ELSE IF head THEN [s |-> Dequeue(due, k), release |-> TRUE]
          ELSE [s |-> b, release |-> oob]
  BY DEF ampdu_window, Joined, Buffered
<1>s. /\ s \in Work /\ s.t.win_start \in Int /\ s.t.buf \in [Slots -> FrameType]
      /\ Kept(s, s) /\ Forward(s.t, s.t)
  <2>1. s \in Work /\ s.t.win_start \in Int /\ s.t.buf \in [Slots -> FrameType]
    BY GoodTypes
  <2> QED BY <2>1, KeptSame, GapSelf DEF Forward
<1>f. f.sn \in Sn /\ f.sn \in Int /\ f.sn \in U16 /\ k \in Slots
  BY FrameParts, SlotOf
<1> SUFFICES P(w.s)
  OBVIOUS
<1>0. P(s)
  BY <1>s, KeptPasses
<1>1. CASE ieee80211_sn_less(f.sn, s.t.win_start)
  <2>1. w = [s |-> s, release |-> FALSE]
    BY <1>w, <1>1
  <2>2. w.s = s
    BY <2>1
  <2> HIDE DEF w, P
  <2> QED BY <1>0, <2>2
<1>2. CASE ~ieee80211_sn_less(f.sn, s.t.win_start)
  <2>to. to \in U16 /\ to \in Int
    BY <1>f, SnRange, Sizes
  <2>i. /\ ~oob => Gap(f.sn, s.t.win_start) < WinSize
        /\ oob => ieee80211_sn_less(s.t.win_start, ieee80211_sn_inc(to))
    BY <1>s, <1>f, <1>2, InsideWindow
  <2>a. /\ Good(a) /\ P(a) /\ Gap(f.sn, a.t.win_start) <= WinSize
        /\ oob => Gap(f.sn, a.t.win_start) # 0
    <3>1. CASE oob
      <4>1. a = skw_reorder_force_release(s, to)
        BY <3>1
      <4> HIDE DEF a
      <4>2. /\ Good(a) /\ Kept(s, a) /\ Forward(s.t, a.t)
            /\ ieee80211_sn_less(s.t.win_start, ieee80211_sn_inc(to)) => Past(a, to)
        <5> HIDE DEF to
        <5> QED BY <2>to, <4>1, ForceReleaseGood, ForceForward
      <4>3. Gap(f.sn, a.t.win_start) <= WinSize /\ Gap(f.sn, a.t.win_start) # 0
        BY <1>f, <2>i, <3>1, <4>2, RoomMade
      <4>4. Passed(s.t, a.t, a.out) /\ Ordered(s.t, a.out)
        BY <4>2, KeptPasses
      <4> QED BY <4>2, <4>3, <4>4
    <3>2. CASE ~oob
      <4>1. a = s
        BY <3>2
      <4>2. Gap(f.sn, s.t.win_start) <= WinSize
        <5> DEFINE g == Gap(f.sn, s.t.win_start)
        <5>1. g \in 0 .. SnMod - 1 /\ WinSize \in Nat
          BY <1>s, <1>f, GapRange, Sizes
        <5>2. g < WinSize
          BY <2>i, <3>2
        <5> HIDE DEF g
        <5>3. g <= WinSize
          BY <5>1, <5>2, Sizes
        <5> QED BY <5>3 DEF g
      <4> HIDE DEF a, oob, P
      <4> QED BY <1>0, <3>2, <4>1, <4>2
    <3> QED BY <3>1, <3>2
  <2>o. ~oob => a = s
    OBVIOUS
  <2>v. a.t.win_start \in Int /\ a.t.buf \in [Slots -> FrameType] /\ old \in FrameType
    BY <1>f, <2>a, GoodTypes
  <2> HIDE DEF a, oob, to, P
  <2>b. /\ Good(b) /\ b.out = a.out /\ b.t.win_start = a.t.win_start
        /\ Busy(b.t) = Busy(a.t) \cup {k} /\ b.t.buf = [a.t.buf EXCEPT ![k] = new]
    BY <2>a, BufferedGood
  <2>n. new.sn = (IF IsEmpty(old) THEN f.sn ELSE old.sn)
        /\ (~IsEmpty(old) => old.got \subseteq new.got)
    <3> HIDE DEF old
    <3> QED BY <2>v, JoinedForm, JoinedGot
  <2>k. k \in Busy(a.t) <=> ~IsEmpty(old)
    BY <1>f DEF Busy
  <2> HIDE DEF b, new
  <2>j. \A j \in Busy(a.t) : b.t.buf[j].sn = a.t.buf[j].sn /\ a.t.buf[j].got \subseteq b.t.buf[j].got
    <3> SUFFICES ASSUME NEW j \in Busy(a.t)
                 PROVE  b.t.buf[j].sn = a.t.buf[j].sn /\ a.t.buf[j].got \subseteq b.t.buf[j].got
      OBVIOUS
    <3>0. j \in Slots
      BY DEF Busy
    <3>1. CASE j = k
      BY <1>f, <2>v, <2>b, <2>n, <2>k, <3>1
    <3>2. CASE j # k
      BY <2>v, <2>b, <3>0, <3>2
    <3> QED BY <3>1, <3>2
  <2>1. CASE dup
    <3>1. w = [s |-> a, release |-> oob]
      BY <1>w, <1>2, <2>1
    <3>2. w.s = a
      BY <3>1
    <3> HIDE DEF w
    <3> QED BY <2>a, <3>2
  <2>2. CASE ~dup /\ head
    <3>1. w = [s |-> Dequeue(due, k), release |-> TRUE]
      BY <1>w, <1>2, <2>2
    <3> DEFINE z == Dequeue(due, k)
               o == z.out
               u == z.t
    <3>2. w.s = z
      BY <3>1
    <3>3. a = s
      <4>1. Gap(f.sn, a.t.win_start) = 0
        BY <1>f, <2>2, GapSelf
      <4> QED BY <2>a, <2>o, <4>1
    <3>4. due.t = b.t /\ due.out = <<>> /\ due \in Work
      <4>1. CASE due = b
        <5> HIDE DEF due
        <5> QED BY <2>b, <3>3, <4>1, GoodTypes
      <4>2. CASE due = del_timer(b)
        <5> HIDE DEF due
        <5> QED BY <2>b, <3>3, <4>2, DelTimerGood, GoodTypes
      <4> QED BY <4>1, <4>2
    <3> HIDE DEF w, due, k
    <3>5. z = [ref |-> due.ref, r |-> due.r, out |-> Append(due.out, due.t.buf[k]), t |-> Emptied(due.t, k)]
      BY <1>f, <3>4, DequeueForm
    <3>6. o = Append(<<>>, b.t.buf[k]) /\ u = Emptied(b.t, k)
      <4> HIDE DEF z
      <4> QED BY <3>4, <3>5 DEF z
    <3>7. DOMAIN o = {1} /\ o[1] = new
      <4>1. b.t.buf[k] = new
        BY <1>f, <2>v, <2>b
      <4> HIDE DEF z, o
      <4> QED BY <3>6, <4>1, OneOut DEF o
    <3>8. /\ u.win_start = ieee80211_sn_inc(b.t.win_start)
          /\ u.buf = [b.t.buf EXCEPT ![k] = Empty]
      <4>1. b.t \in Session
        BY <2>b, GoodTypes
      <4>2. Emptied(b.t, k) =
              [live |-> b.t.live, win_start |-> ieee80211_sn_inc(b.t.win_start),
               stored_num |-> b.t.stored_num - 1, buf |-> [b.t.buf EXCEPT ![k] = Empty]]
        BY <1>f, <4>1, EmptiedForm
      <4> HIDE DEF z, u
      <4> QED BY <3>6, <4>2 DEF u
    <3>9. b.t.buf \in [Slots -> FrameType]
      BY <2>b, GoodTypes
    <3> HIDE DEF z, o, u
    <3>10. Ordered(s.t, o)
      <4>1. \A i, j \in {1} : ~(i < j)
        OBVIOUS
      <4> QED BY <3>7, <4>1 DEF Ordered
    <3>11. Forward(s.t, u)
      <4> DEFINE v == s.t.win_start
                 x == u.win_start
      <4>1. x = ieee80211_sn_inc(v)
        BY <2>b, <3>3, <3>8
      <4>2. v \in Int /\ x \in Int
        BY <1>s, <4>1, SnRange, Sizes
      <4> HIDE DEF v, x
      <4>3. Gap(x, v) = IF Gap(v, v) = SnMod - 1 THEN 0 ELSE Gap(v, v) + 1
        BY <4>1, <4>2, GapInc
      <4>4. Gap(v, v) = 0 /\ SnMod \in Nat /\ WinSize \in Nat \ {0}
        BY <4>2, GapSelf, Sizes
      <4>5. Gap(x, v) <= WinSize
        BY <4>3, <4>4
      <4> QED BY <4>2, <4>5, AheadForward DEF Forward, v, x
    <3>12. Passed(s.t, u, o)
      <4> SUFFICES ASSUME NEW j \in Busy(s.t)
                   PROVE  \/ /\ j \in Busy(u) /\ u.buf[j].sn = s.t.buf[j].sn
                             /\ s.t.buf[j].got \subseteq u.buf[j].got
                          \/ \E i \in DOMAIN o :
                               /\ o[i].sn = s.t.buf[j].sn /\ s.t.buf[j].got \subseteq o[i].got
                               /\ \A m \in DOMAIN o : o[m].sn = s.t.buf[j].sn => m = i
        BY DEF Passed
      <4>1. CASE j = k
        <5>1. new.sn = s.t.buf[j].sn /\ s.t.buf[j].got \subseteq new.got
          BY <2>n, <2>k, <3>3, <4>1
        <5> QED BY <3>7, <5>1
      <4>2. CASE j # k
        <5>1. j \in Slots /\ j \in Busy(b.t)
          BY <2>b, <3>3 DEF Busy
        <5>2. u.buf[j] = b.t.buf[j]
          BY <3>8, <3>9, <4>2, <5>1
        <5>3. j \in Busy(u)
          BY <5>1, <5>2 DEF Busy
        <5>4. b.t.buf[j].sn = s.t.buf[j].sn /\ s.t.buf[j].got \subseteq b.t.buf[j].got
          BY <2>j, <3>3
        <5> QED BY <5>2, <5>3, <5>4
      <4> QED BY <4>1, <4>2
    <3> QED BY <3>2, <3>10, <3>11, <3>12 DEF P, o, u
  <2>3. CASE ~dup /\ ~head
    <3>1. w = [s |-> b, release |-> oob]
      BY <1>w, <1>2, <2>3
    <3>2. w.s = b
      BY <3>1
    <3> HIDE DEF w
    <3>3. Passed(s.t, b.t, a.out)
      <4> SUFFICES ASSUME NEW j \in Busy(s.t), j \in Busy(a.t),
                          a.t.buf[j].sn = s.t.buf[j].sn, s.t.buf[j].got \subseteq a.t.buf[j].got
                   PROVE  /\ j \in Busy(b.t) /\ b.t.buf[j].sn = s.t.buf[j].sn
                          /\ s.t.buf[j].got \subseteq b.t.buf[j].got
        BY <2>a DEF Passed, P
      <4> QED BY <2>b, <2>j
    <3>4. Ordered(s.t, a.out) /\ Forward(s.t, b.t)
      BY <2>a, <2>b DEF P, Forward
    <3> QED BY <2>b, <3>2, <3>3, <3>4 DEF P
  <2> HIDE DEF w, dup, head
  <2> QED BY <2>1, <2>2, <2>3
<1> HIDE DEF w, P
<1> QED BY <1>1, <1>2

-----------------------------------------------------------------------------
(* The inductive invariant. *)

Holds(t) == Counted(t) /\ InSlots(t) /\ (Regular => InWindow(t))

\* A session nobody works on waits for something.
Settled(t, r) == HeadWaits(t) /\ (Busy(t) = {} \/ Armed(r))

\* The RX thread about to look at a session has the current one in its hand,
\* or one that was removed, and then it has put nothing into the current one.
Reader ==
  /\ rx.ref <= reorder.ref_cnt
  /\ rx.pc = "frame" =>
       IF rx.ref = reorder.ref_cnt THEN cur = rx.ref
       ELSE cur # NoTid => Busy(tids[cur]) = {}

Waiting == cur # NoTid /\ rx.pc # "release" => Settled(tids[cur], reorder)

RxInv ==
  /\ TypeOK
  /\ \A r \in Refs : Holds(tids[r])
  /\ cur # NoTid => cur = reorder.ref_cnt
  /\ TimerOk(reorder)
  /\ Reader
  /\ Regular => Waiting

\* Sessions are numbered, NoTid is none of them.
LEMMA RefsNat == Refs \subseteq Nat /\ NoTid \notin Refs /\ 0 \in Refs
BY WindowAssumption DEF Refs, NoTid

\* A session of TypeOK is one of the functions' sessions, and a good session
\* is one of TypeOK.
LEMMA SessionType ==
  ASSUME NEW t
  PROVE  /\ t \in TidType => t \in Session
         /\ t \in Session /\ Counted(t) => t \in TidType
<1>1. ASSUME t \in TidType PROVE t \in Session
  <2>1. 0 .. WinSize \subseteq Nat
    BY Sizes
  <2> QED BY <1>1, <2>1 DEF TidType, Session
<1>2. ASSUME t \in Session, Counted(t) PROVE t \in TidType
  <2>1. t.stored_num \in 0 .. WinSize
    BY <1>2, BusyCount DEF Counted
  <2>2. t = [live |-> t.live, win_start |-> t.win_start, stored_num |-> t.stored_num, buf |-> t.buf]
    BY <1>2 DEF Session
  <2>3. t.live \in BOOLEAN /\ t.win_start \in U16 /\ t.buf \in [Slots -> FrameType]
    BY <1>2 DEF Session
  <2> QED BY <2>1, <2>2, <2>3 DEF TidType
<1> QED BY <1>1, <1>2

\* What the functions are given is good.
LEMMA ViewGood ==
  ASSUME RxInv, NEW r \in Refs
  PROVE  LET s == View(r, <<>>)
         IN  Good(s) /\ s.ref = r /\ s.t = tids[r] /\ s.r = reorder /\ s.out = <<>>
<1> DEFINE s == View(r, <<>>)
<1>1. s.ref = r /\ s.t = tids[r] /\ s.r = reorder /\ s.out = <<>>
  BY DEF View
<1>2. tids[r] \in TidType /\ reorder \in ReorderType /\ Holds(tids[r])
  BY DEF RxInv, TypeOK
<1>3. tids[r] \in Session
  BY <1>2, SessionType
<1>4. <<>> \in Seq(FrameType)
  OBVIOUS
<1>5. s \in Work
  BY <1>2, <1>3, <1>4 DEF View, Work
<1> HIDE DEF s
<1>6. Good(s)
  BY <1>1, <1>2, <1>5 DEF Good, Holds
<1> QED BY <1>1, <1>6 DEF s

\* Forgetting the dead fields changes nothing that matters.
LEMMA ForgetKeeps ==
  ASSUME NEW r \in ReorderType
  PROVE  LET q == Forget(r)
         IN  /\ q \in ReorderType /\ q.ref_cnt = r.ref_cnt
             /\ q.pending = r.pending /\ q.running = r.running
             /\ q.actived = r.actived /\ q.queued = r.queued
             /\ TimerOk(r) => TimerOk(q)
             /\ Armed(q) <=> Armed(r)
<1> DEFINE a == IF r.queued THEN r.seq ELSE 0
           b == IF r.pending \/ r.running THEN r.expired_sn ELSE 0
           c == IF r.pending \/ r.running THEN r.expired_ref ELSE 0
           q1 == [r EXCEPT !.seq = a]
           q2 == [q1 EXCEPT !.expired_sn = b]
           q3 == [q2 EXCEPT !.expired_ref = c]
<1>1. a \in U16 /\ b \in U16 /\ c \in Refs
  <2>1. 0 \in U16 /\ 0 \in Refs
    BY RefsNat, Sizes DEF U16
  <2>2. r.seq \in U16 /\ r.expired_sn \in U16 /\ r.expired_ref \in Refs
    BY DEF ReorderType
  <2> QED BY <2>1, <2>2
<1>2. Forget(r) = q3
  BY DEF Forget
<1>3. r.pending \/ r.running => c = r.expired_ref
  OBVIOUS
<1> HIDE DEF a, b, c
<1>4. /\ q1 \in ReorderType /\ q1.ref_cnt = r.ref_cnt /\ q1.pending = r.pending
      /\ q1.running = r.running /\ q1.actived = r.actived /\ q1.queued = r.queued
  BY <1>1 DEF ReorderType
<1> HIDE DEF q1
<1>5. /\ q2 \in ReorderType /\ q2.ref_cnt = r.ref_cnt /\ q2.pending = r.pending
      /\ q2.running = r.running /\ q2.actived = r.actived /\ q2.queued = r.queued
  BY <1>1, <1>4 DEF ReorderType
<1> HIDE DEF q2
<1>6. /\ q3 \in ReorderType /\ q3.ref_cnt = r.ref_cnt /\ q3.pending = r.pending
      /\ q3.running = r.running /\ q3.actived = r.actived /\ q3.queued = r.queued
      /\ q3.expired_ref = c
  BY <1>1, <1>5 DEF ReorderType
<1> HIDE DEF q3
<1>7. (TimerOk(r) => TimerOk(q3)) /\ (Armed(q3) <=> Armed(r))
  BY <1>3, <1>6 DEF TimerOk, Armed
<1> QED BY <1>2, <1>6, <1>7

\* What the functions return becomes the session and the struct.
LEMMA Committed ==
  ASSUME RxInv, NEW z, Good(z), Commit(z)
  PROVE  /\ tids' \in [Refs -> TidType] /\ \A r \in Refs : Holds(tids'[r])
         /\ tids'[z.ref] = z.t /\ \A r \in Refs : r # z.ref => tids'[r] = tids[r]
         /\ reorder' \in ReorderType /\ reorder'.ref_cnt = z.r.ref_cnt
         /\ TimerOk(z.r) => TimerOk(reorder')
         /\ Armed(reorder') <=> Armed(z.r)
<1> DEFINE u == z.t
           k == z.ref
           p == z.r
<1>1. tids' = [tids EXCEPT ![k] = u] /\ reorder' = Forget(p)
  BY DEF Commit
<1>2. u \in Session /\ k \in Refs /\ p \in ReorderType /\ Holds(u)
  BY GoodTypes DEF Good, Holds
<1> HIDE DEF u, k, p
<1>3. u \in TidType
  BY <1>2, SessionType DEF Holds
<1>4. tids \in [Refs -> TidType] /\ \A r \in Refs : Holds(tids[r])
  BY DEF RxInv, TypeOK
<1>5. /\ tids' \in [Refs -> TidType] /\ tids'[k] = u
      /\ \A r \in Refs : r # k => tids'[r] = tids[r]
  BY <1>1, <1>2, <1>3, <1>4
<1>6. ASSUME NEW r \in Refs PROVE Holds(tids'[r])
  BY <1>2, <1>4, <1>5
<1>7. /\ reorder' \in ReorderType /\ reorder'.ref_cnt = p.ref_cnt
      /\ (TimerOk(p) => TimerOk(reorder')) /\ (Armed(reorder') <=> Armed(p))
  BY <1>1, <1>2, ForgetKeeps
<1> QED BY <1>5, <1>6, <1>7 DEF u, k, p

\* The record of a session that holds nothing.
LEMMA SessionForm ==
  ASSUME NEW w, NEW l
  PROVE  [NoSession EXCEPT !.live = l, !.win_start = w] =
           [live |-> l, win_start |-> w, stored_num |-> 0, buf |-> [k \in Slots |-> Empty]]
<1> DEFINE e == [k \in Slots |-> Empty]
           t0 == NoSession
           t1 == [t0 EXCEPT !.live = l]
           t2 == [t1 EXCEPT !.win_start = w]
<1>1. t0 = [live |-> FALSE, win_start |-> 0, stored_num |-> 0, buf |-> e]
  BY DEF NoSession
<1>2. [NoSession EXCEPT !.live = l, !.win_start = w] = t2
  OBVIOUS
<1> HIDE DEF e, t0
<1>3. t1 = [live |-> l, win_start |-> 0, stored_num |-> 0, buf |-> e]
  BY <1>1
<1> HIDE DEF t1
<1>4. t2 = [live |-> l, win_start |-> w, stored_num |-> 0, buf |-> e]
  BY <1>3
<1> QED BY <1>2, <1>4 DEF e

\* An empty session waits for nothing.
LEMMA NewSession ==
  ASSUME NEW w \in U16, NEW l \in BOOLEAN
  PROVE  LET t == [NoSession EXCEPT !.live = l, !.win_start = w]
         IN  t \in TidType /\ Holds(t) /\ Busy(t) = {} /\ HeadWaits(t)
<1> DEFINE t == [NoSession EXCEPT !.live = l, !.win_start = w]
           e == [k \in Slots |-> Empty]
<1>1. t = [live |-> l, win_start |-> w, stored_num |-> 0, buf |-> e]
  BY SessionForm
<1>2. e \in [Slots -> FrameType] /\ \A k \in Slots : IsEmpty(e[k])
  BY EmptyFrame
<1> HIDE DEF t, e
<1>3. t.buf = e /\ t.stored_num = 0
  BY <1>1
<1>4. Busy(t) = {}
  BY <1>2, <1>3 DEF Busy
<1>5. t \in Session
  <2>1. 0 \in Nat
    OBVIOUS
  <2> QED BY <1>1, <1>2, <2>1 DEF Session
<1>6. Counted(t)
  BY <1>3, <1>4, BusyCount DEF Counted
<1>7. InSlots(t) /\ InWindow(t)
  BY <1>4 DEF InSlots, InWindow
<1>8. HeadWaits(t)
  BY <1>4, <1>7, HeadSlot
<1>9. t \in TidType
  BY <1>5, <1>6, SessionType
<1> QED BY <1>4, <1>6, <1>7, <1>8, <1>9 DEF Holds, t

\* A session that is not allocated holds nothing.
LEMMA NoSessionHolds == NoSession \in TidType /\ Holds(NoSession) /\ Busy(NoSession) = {}
<1> DEFINE t == [NoSession EXCEPT !.live = FALSE, !.win_start = 0]
<1>1. 0 \in U16 /\ FALSE \in BOOLEAN
  BY Sizes DEF U16
<1>2. t \in TidType /\ Holds(t) /\ Busy(t) = {}
  BY <1>1, NewSession
<1>3. t = [live |-> FALSE, win_start |-> 0, stored_num |-> 0, buf |-> [k \in Slots |-> Empty]]
  BY SessionForm
<1> HIDE DEF t
<1>4. t = NoSession
  BY <1>3 DEF NoSession
<1> QED BY <1>2, <1>4

RxType == [pc : {"idle", "frame", "release", "todo"}, ref : Refs]

\* The release list is handed up and the RX thread holds nothing.
LEMMA Delivered ==
  ASSUME NEW o \in Seq(FrameType), NEW r, Deliver(o, r), reorder' \in ReorderType
  PROVE  /\ out' \in Seq(FrameType) /\ rx' \in RxType /\ rx'.pc \in {"idle", "todo"} /\ Reader'
<1> DEFINE p == IF r.queued THEN "todo" ELSE "idle"
<1>1. p \in {"idle", "todo"}
  OBVIOUS
<1>2. rx' = [RxIdle EXCEPT !.pc = p] /\ out' = o
  BY DEF Deliver
<1> HIDE DEF p
<1>3. rx' = [pc |-> p, ref |-> 0]
  BY <1>2 DEF RxIdle
<1>4. rx' \in RxType /\ rx'.pc = p /\ rx'.ref = 0
  BY <1>1, <1>3, RefsNat DEF RxType
<1>5. reorder'.ref_cnt \in Nat
  BY RefsNat DEF ReorderType
<1>6. 0 <= reorder'.ref_cnt
  BY <1>5
<1>7. Reader'
  BY <1>1, <1>4, <1>6 DEF Reader
<1> QED BY <1>1, <1>2, <1>4, <1>7

\* The RX thread reads reorder->tid_rx.
LEMMA RxFrameInv == ASSUME RxInv, RxFrame PROVE RxInv'
<1>1. UNCHANGED <<tids, cur, reorder>> /\ rx.pc = "idle"
  BY DEF RxFrame
<1>2. /\ tids' \in [Refs -> TidType] /\ cur' \in Refs \cup {NoTid} /\ reorder' \in ReorderType
      /\ (\A r \in Refs : Holds(tids'[r])) /\ (cur' # NoTid => cur' = reorder'.ref_cnt)
      /\ TimerOk(reorder')
  BY <1>1 DEF RxInv, TypeOK
<1>3. ASSUME Regular PROVE Waiting'
  <2>1. Waiting
    BY <1>3 DEF RxInv
  <2>2. cur # NoTid => Settled(tids[cur], reorder)
    BY <1>1, <2>1 DEF Waiting
  <2> QED BY <1>1, <2>2 DEF Waiting
<1>4. CASE cur = NoTid
  <2>1. PICK f \in Frames : Deliver(<<[sn |-> f.sn, got |-> {f.part}, age |-> 0]>>, reorder)
    BY <1>4 DEF RxFrame
  <2> DEFINE g == [sn |-> f.sn, got |-> {f.part}, age |-> 0]
  <2>2. g \in FrameType
    BY FrameParts, WindowAssumption DEF FrameType
  <2> HIDE DEF g
  <2>3. <<g>> \in Seq(FrameType)
    BY <2>2
  <2>4. Deliver(<<g>>, reorder)
    BY <2>1 DEF g
  <2>5. out' \in Seq(FrameType) /\ rx' \in RxType /\ Reader'
    BY <1>2, <2>3, <2>4, Delivered
  <2> QED BY <1>2, <1>3, <2>5 DEF RxInv, TypeOK, RxType
<1>5. CASE cur # NoTid
  <2>1. rx' = [pc |-> "frame", ref |-> reorder.ref_cnt] /\ out' = <<>>
    BY <1>5 DEF RxFrame
  <2>2. reorder.ref_cnt \in Refs /\ reorder.ref_cnt \in Nat
    BY RefsNat DEF RxInv, TypeOK, ReorderType
  <2>3. rx' \in RxType /\ rx'.ref = reorder.ref_cnt /\ out' \in Seq(FrameType)
    BY <2>1, <2>2 DEF RxType
  <2>4. reorder.ref_cnt <= reorder.ref_cnt
    BY <2>2
  <2>5. cur = reorder.ref_cnt
    BY <1>5 DEF RxInv
  <2>6. Reader'
    BY <1>1, <2>3, <2>4, <2>5 DEF Reader
  <2> QED BY <1>2, <1>3, <2>3, <2>6 DEF RxInv, TypeOK, RxType
<1> QED BY <1>4, <1>5

\* The frame goes into the session read before.  If that is the current one,
\* what it leaves there is settled or a release is due; if not, the current
\* one is as it was.
LEMMA RxReorderInv == ASSUME RxInv, NEW f \in Frames, RxReorder(f) PROVE RxInv' /\ reorder'.ref_cnt = reorder.ref_cnt
<1> DEFINE v == View(rx.ref, <<>>)
           w == ampdu_window(v, f)
           y == w.s
           s == IF y.t.stored_num = 0 THEN del_timer(y)
                ELSE IF w.release THEN y ELSE skw_set_reorder_timer(y, f.sn)
<1>1. /\ rx.pc = "frame" /\ cur' = cur /\ Commit(s)
      /\ IF y.t.stored_num > 0 /\ w.release
         THEN rx' = [rx EXCEPT !.pc = "release"] /\ out' = s.out
         ELSE Deliver(s.out, s.r)
  BY DEF RxReorder
<1>2. /\ rx.ref \in Refs /\ rx.ref \in Nat /\ rx \in RxType /\ cur \in Refs \cup {NoTid}
      /\ reorder \in ReorderType /\ reorder.ref_cnt \in Nat
  <2>1. rx \in RxType /\ cur \in Refs \cup {NoTid} /\ reorder \in ReorderType
    BY DEF RxInv, TypeOK, RxType
  <2>2. rx.ref \in Refs
    BY <2>1 DEF RxType
  <2>3. reorder.ref_cnt \in Refs
    BY <2>1 DEF ReorderType
  <2> QED BY <2>1, <2>2, <2>3, RefsNat
<1>3. Good(v) /\ v.ref = rx.ref /\ v.t = tids[rx.ref] /\ v.r = reorder
  BY <1>2, ViewGood
<1>4. f.sn \in U16
  BY FrameParts
<1>5. /\ Good(y) /\ y.ref = v.ref /\ Rearmed(y.r, v.r)
      /\ ~w.release =>
           /\ y.r = v.r
           /\ y.t = v.t \/ f.sn % WinSize \in Busy(y.t)
           /\ Regular /\ HeadWaits(v.t) => HeadWaits(y.t)
  <2> HIDE DEF v
  <2> QED BY <1>3, WindowGood
<1> HIDE DEF v, w
<1>6. y.t.stored_num \in Nat /\ (y.t.stored_num = 0 <=> Busy(y.t) = {})
  <2>1. y.t \in Session
    BY <1>5, GoodTypes
  <2>2. y.t.stored_num \in Nat
    BY <2>1 DEF Session
  <2>3. Counted(y.t)
    BY <1>5 DEF Good
  <2> QED BY <2>2, <2>3, BusyCount DEF Counted
<1>7. /\ Good(s) /\ s.ref = y.ref /\ s.t = y.t /\ Rearmed(s.r, y.r)
      /\ y.t.stored_num # 0 /\ ~w.release =>
           /\ TimerOk(y.r) /\ y.r.ref_cnt = y.ref /\ f.sn % WinSize \in Busy(y.t) => Armed(s.r)
           /\ Armed(y.r) => Armed(s.r)
  <2>1. CASE y.t.stored_num = 0
    <3>1. s = del_timer(y)
      BY <2>1
    <3> HIDE DEF y, s
    <3>2. y.r \in ReorderType
      BY <1>5, GoodTypes
    <3> QED BY <1>5, <2>1, <3>1, <3>2, DelTimerGood, StopTimer
  <2>2. CASE y.t.stored_num # 0 /\ w.release
    <3>1. s = y
      BY <2>2
    <3> HIDE DEF y, s
    <3>2. y.r \in ReorderType
      BY <1>5, GoodTypes
    <3> QED BY <1>5, <2>2, <3>1, <3>2, RearmedSame
  <2>3. CASE y.t.stored_num # 0 /\ ~w.release
    <3>1. s = skw_set_reorder_timer(y, f.sn)
      BY <2>3
    <3> HIDE DEF y, s
    <3> QED BY <1>4, <1>5, <3>1, SetTimerGood
  <2> QED BY <2>1, <2>2, <2>3
<1> HIDE DEF y, s
<1>8. s.out \in Seq(FrameType)
  BY <1>7 DEF Good, Work
<1>10. /\ tids' \in [Refs -> TidType] /\ \A r \in Refs : Holds(tids'[r])
       /\ tids'[rx.ref] = s.t /\ \A r \in Refs : r # rx.ref => tids'[r] = tids[r]
       /\ reorder' \in ReorderType /\ reorder'.ref_cnt = s.r.ref_cnt
       /\ TimerOk(s.r) => TimerOk(reorder')
       /\ Armed(reorder') <=> Armed(s.r)
  BY <1>1, <1>3, <1>5, <1>7, Committed
<1>11. reorder'.ref_cnt = reorder.ref_cnt /\ TimerOk(reorder')
  <2>1. TimerOk(reorder)
    BY DEF RxInv
  <2>2. s.r.ref_cnt = reorder.ref_cnt /\ TimerOk(s.r)
    BY <1>3, <1>5, <1>7, <2>1 DEF Rearmed
  <2> QED BY <1>10, <2>2
<1>12. cur' # NoTid => cur' = reorder'.ref_cnt
  BY <1>1, <1>11 DEF RxInv
<1>13. CASE y.t.stored_num > 0 /\ w.release
  <2>1. rx' = [rx EXCEPT !.pc = "release"] /\ out' = s.out
    BY <1>1, <1>13
  <2>2. rx' \in RxType /\ rx'.pc = "release" /\ rx'.ref = rx.ref
    BY <1>2, <2>1 DEF RxType
  <2>3. Reader'
    <3>1. rx.ref <= reorder.ref_cnt
      BY DEF RxInv, Reader
    <3> QED BY <1>11, <2>2, <3>1 DEF Reader
  <2>4. Waiting'
    BY <2>2 DEF Waiting
  <2> QED BY <1>1, <1>2, <1>8, <1>10, <1>11, <1>12, <2>1, <2>2, <2>3, <2>4 DEF RxInv, TypeOK, RxType
<1>14. CASE ~(y.t.stored_num > 0 /\ w.release)
  <2>1. Deliver(s.out, s.r)
    BY <1>1, <1>14
  <2>2. out' \in Seq(FrameType) /\ rx' \in RxType /\ Reader'
    BY <1>8, <1>10, <2>1, Delivered
  <2>3. ASSUME Regular, cur # NoTid PROVE Settled(tids'[cur], reorder')
    <3>1. Settled(tids[cur], reorder) /\ cur \in Refs
      BY <1>1, <1>2, <2>3 DEF RxInv, Waiting
    <3>2. CASE rx.ref = reorder.ref_cnt
      <4>1. cur = rx.ref
        BY <1>1, <3>2 DEF RxInv, Reader
      <4>2. tids'[cur] = y.t /\ v.t = tids[cur] /\ InSlots(y.t)
        BY <1>3, <1>5, <1>7, <1>10, <4>1 DEF Good
      <4>3. CASE Busy(y.t) = {}
        <5>1. HeadWaits(y.t)
          BY <4>2, <4>3, HeadSlot
        <5> QED BY <4>2, <4>3, <5>1 DEF Settled
      <4>4. CASE Busy(y.t) # {}
        <5>1. y.t.stored_num # 0 /\ ~w.release
          <6>1. y.t.stored_num # 0
            BY <1>6, <4>4
          <6>2. y.t.stored_num > 0
            BY <1>6, <6>1
          <6> QED BY <1>14, <6>1, <6>2
        <5>2. HeadWaits(y.t)
          BY <1>5, <2>3, <3>1, <4>2, <5>1 DEF Settled
        <5>3. CASE f.sn % WinSize \in Busy(y.t)
          <6>1. TimerOk(y.r) /\ y.r.ref_cnt = y.ref
            BY <1>3, <1>5, <3>2, <4>1 DEF RxInv, Rearmed
          <6>2. Armed(s.r)
            BY <1>7, <5>1, <5>3, <6>1
          <6> QED BY <1>10, <4>2, <5>2, <6>2 DEF Settled
        <5>4. CASE y.t = v.t
          <6>1. Armed(reorder)
            BY <3>1, <4>2, <4>4, <5>4 DEF Settled
          <6>2. Armed(s.r)
            BY <1>3, <1>5, <1>7, <5>1, <6>1
          <6> QED BY <1>10, <4>2, <5>2, <6>2 DEF Settled
        <5> QED BY <1>5, <5>1, <5>3, <5>4
      <4> QED BY <4>3, <4>4
    <3>3. CASE rx.ref # reorder.ref_cnt
      <4>1. Busy(tids[cur]) = {} /\ cur = reorder.ref_cnt
        BY <1>1, <2>3, <3>3 DEF RxInv, Reader
      <4>2. tids'[cur] = tids[cur]
        BY <1>10, <3>1, <3>3, <4>1
      <4> QED BY <3>1, <4>1, <4>2 DEF Settled
    <3> QED BY <3>2, <3>3
  <2>4. Regular => Waiting'
    BY <1>1, <2>3 DEF Waiting
  <2> QED BY <1>1, <1>2, <1>10, <1>11, <1>12, <2>2, <2>4 DEF RxInv, TypeOK, RxType
<1> QED BY <1>13, <1>14

\* The to-do entry is applied to the current session; a release follows.
LEMMA RxTodoInv == ASSUME RxInv, RxTodo PROVE RxInv' /\ reorder'.ref_cnt = reorder.ref_cnt
<1> DEFINE r == [reorder EXCEPT !.queued = FALSE, !.actived = FALSE]
           v == [View(cur, <<>>) EXCEPT !.r = r]
           s == skw_reorder_force_release(v, reorder.seq)
<1>1. /\ cur' = cur /\ rx' = [RxIdle EXCEPT !.pc = "release", !.ref = reorder.ref_cnt]
      /\ IF cur = NoTid THEN UNCHANGED tids /\ reorder' = Forget(r) /\ out' = <<>>
         ELSE Commit(s) /\ out' = s.out
  BY DEF RxTodo
<1>2. /\ reorder \in ReorderType /\ reorder.ref_cnt \in Refs /\ reorder.ref_cnt \in Nat
      /\ cur \in Refs \cup {NoTid} /\ reorder.seq \in U16 /\ TimerOk(reorder)
      /\ cur # NoTid => cur = reorder.ref_cnt
  <2>1. reorder \in ReorderType
    BY DEF RxInv, TypeOK
  <2>2. reorder.ref_cnt \in Refs /\ reorder.seq \in U16
    BY <2>1 DEF ReorderType
  <2> QED BY <2>1, <2>2, RefsNat DEF RxInv, TypeOK
<1>3. r \in ReorderType /\ r.ref_cnt = reorder.ref_cnt /\ TimerOk(r)
  <2> DEFINE q == [reorder EXCEPT !.queued = FALSE]
  <2>1. q \in ReorderType /\ q.ref_cnt = reorder.ref_cnt /\ q.pending = reorder.pending
        /\ q.running = reorder.running /\ q.expired_ref = reorder.expired_ref
    BY <1>2 DEF ReorderType
  <2>2. r = [q EXCEPT !.actived = FALSE]
    OBVIOUS
  <2> HIDE DEF q, r
  <2>3. r \in ReorderType /\ r.ref_cnt = q.ref_cnt /\ r.pending = q.pending
        /\ r.running = q.running /\ r.expired_ref = q.expired_ref /\ ~r.actived
    BY <2>1, <2>2 DEF ReorderType
  <2> QED BY <1>2, <2>1, <2>3 DEF TimerOk
<1> HIDE DEF r, s
<1>4. rx' = [pc |-> "release", ref |-> reorder.ref_cnt]
  BY <1>1 DEF RxIdle
<1>5. rx' \in RxType /\ rx'.pc = "release" /\ rx'.ref = reorder.ref_cnt
  BY <1>2, <1>4 DEF RxType
<1>6. Waiting'
  BY <1>5 DEF Waiting
<1>7. reorder'.ref_cnt = reorder.ref_cnt => Reader'
  BY <1>2, <1>5 DEF Reader
<1>8. CASE cur = NoTid
  <2>1. tids' = tids /\ reorder' = Forget(r) /\ out' = <<>>
    BY <1>1, <1>8
  <2>2. reorder' \in ReorderType /\ reorder'.ref_cnt = reorder.ref_cnt /\ TimerOk(reorder')
    BY <1>3, <2>1, ForgetKeeps
  <2>3. out' \in Seq(FrameType)
    BY <2>1
  <2>4. tids' \in [Refs -> TidType] /\ \A k \in Refs : Holds(tids'[k])
    BY <2>1 DEF RxInv, TypeOK
  <2> QED BY <1>1, <1>2, <1>5, <1>6, <1>7, <1>8, <2>2, <2>3, <2>4 DEF RxInv, TypeOK, RxType
<1>9. CASE cur # NoTid
  <2>1. Commit(s) /\ out' = s.out /\ cur \in Refs
    BY <1>1, <1>2, <1>9
  <2> DEFINE x == View(cur, <<>>)
  <2>2. Good(x) /\ x.ref = cur /\ x.t = tids[cur]
    BY <2>1, ViewGood
  <2> HIDE DEF x
  <2>3. Good(v) /\ v.ref = cur /\ v.r = r
    BY <1>3, <2>2, SetR DEF x
  <2> HIDE DEF v
  <2>4. /\ Good(s) /\ Kept(v, s)
        /\ s.r = v.r \/ s.r = [v.r EXCEPT !.pending = FALSE]
    BY <1>2, <2>3, ForceReleaseGood DEF s
  <2>5. s.r.ref_cnt = reorder.ref_cnt /\ TimerOk(s.r)
    <3>1. CASE s.r = v.r
      BY <1>3, <2>3, <3>1
    <3>2. CASE s.r = [v.r EXCEPT !.pending = FALSE]
      BY <1>3, <2>3, <3>2, StopTimer DEF Rearmed
    <3> QED BY <2>4, <3>1, <3>2
  <2>6. /\ tids' \in [Refs -> TidType] /\ \A k \in Refs : Holds(tids'[k])
        /\ reorder' \in ReorderType /\ reorder'.ref_cnt = s.r.ref_cnt
        /\ TimerOk(s.r) => TimerOk(reorder')
    BY <2>1, <2>4, Committed
  <2>7. out' \in Seq(FrameType)
    BY <2>1, <2>4 DEF Good, Work
  <2> QED BY <1>1, <1>2, <1>5, <1>6, <1>7, <2>5, <2>6, <2>7 DEF RxInv, TypeOK, RxType
<1> QED BY <1>8, <1>9

\* A release leaves the current session settled.
LEMMA RxReleaseInv == ASSUME RxInv, RxRelease PROVE RxInv' /\ reorder'.ref_cnt = reorder.ref_cnt
<1> DEFINE v == View(cur, <<>>)
           s == skw_reorder_release(v)
<1>1. /\ cur' = cur
      /\ IF cur = NoTid THEN UNCHANGED <<tids, reorder>> /\ Deliver(<<>>, reorder)
         ELSE Commit(s) /\ Deliver(s.out, s.r)
  BY DEF RxRelease
<1>2. /\ cur \in Refs \cup {NoTid} /\ TimerOk(reorder) /\ reorder \in ReorderType
      /\ cur # NoTid => cur = reorder.ref_cnt
  BY DEF RxInv, TypeOK
<1> HIDE DEF s
<1>3. CASE cur = NoTid
  <2>1. tids' = tids /\ reorder' = reorder /\ Deliver(<<>>, reorder)
    BY <1>1, <1>3
  <2>2. <<>> \in Seq(FrameType) /\ reorder' \in ReorderType
    BY <1>2, <2>1
  <2>3. out' \in Seq(FrameType) /\ rx' \in RxType /\ Reader'
    BY <2>1, <2>2, Delivered
  <2>4. Waiting'
    BY <1>1, <1>3 DEF Waiting
  <2>5. tids' \in [Refs -> TidType] /\ \A r \in Refs : Holds(tids'[r])
    BY <2>1 DEF RxInv, TypeOK
  <2> QED BY <1>1, <1>2, <1>3, <2>1, <2>3, <2>4, <2>5 DEF RxInv, TypeOK, RxType
<1>4. CASE cur # NoTid
  <2>1. Commit(s) /\ Deliver(s.out, s.r) /\ cur \in Refs /\ cur = reorder.ref_cnt
    BY <1>1, <1>2, <1>4
  <2>2. Good(v) /\ v.ref = cur /\ v.r = reorder
    BY <2>1, ViewGood
  <2> HIDE DEF v
  <2>3. Good(s) /\ Kept(v, s) /\ Rearmed(s.r, v.r) /\ (Regular => Rests(v, s))
    BY <2>2, ReleaseGood DEF s
  <2>4. s.r.ref_cnt = reorder.ref_cnt /\ TimerOk(s.r) /\ s.ref = cur
    BY <1>2, <2>2, <2>3 DEF Rearmed, Kept
  <2>5. /\ tids' \in [Refs -> TidType] /\ \A k \in Refs : Holds(tids'[k])
        /\ tids'[s.ref] = s.t
        /\ reorder' \in ReorderType /\ reorder'.ref_cnt = s.r.ref_cnt
        /\ (TimerOk(s.r) => TimerOk(reorder')) /\ (Armed(reorder') <=> Armed(s.r))
    BY <2>1, <2>3, Committed
  <2>6. s.out \in Seq(FrameType)
    BY <2>3 DEF Good, Work
  <2>7. out' \in Seq(FrameType) /\ rx' \in RxType /\ Reader'
    BY <2>1, <2>5, <2>6, Delivered
  <2>8. ASSUME Regular PROVE Waiting'
    <3>1. HeadWaits(s.t) /\ (Busy(s.t) = {} \/ Armed(s.r))
      BY <1>2, <2>1, <2>2, <2>3, <2>8 DEF Rests
    <3>2. tids'[cur'] = s.t
      BY <1>1, <2>4, <2>5
    <3> QED BY <2>5, <3>1, <3>2 DEF Waiting, Settled
  <2> QED BY <1>1, <1>2, <2>1, <2>4, <2>5, <2>7, <2>8 DEF RxInv, TypeOK, RxType
<1> QED BY <1>3, <1>4

\* When only the struct changes, and what armed it before arms it still.
LEMMA StructInv ==
  ASSUME RxInv, UNCHANGED <<tids, cur, rx>>, out' = <<>>, reorder' \in ReorderType,
         reorder'.ref_cnt = reorder.ref_cnt, TimerOk(reorder'), Armed(reorder) => Armed(reorder')
  PROVE  RxInv' /\ reorder'.ref_cnt = reorder.ref_cnt
<1>1. out' \in Seq(FrameType)
  OBVIOUS
<1>2. TypeOK' /\ \A r \in Refs : Holds(tids'[r])
  BY <1>1 DEF RxInv, TypeOK
<1>3. (cur' # NoTid => cur' = reorder'.ref_cnt) /\ Reader'
  BY DEF RxInv, Reader
<1>4. Waiting => Waiting'
  BY DEF Waiting, Settled
<1> QED BY <1>2, <1>3, <1>4 DEF RxInv

\* A timer that expires belongs to the current session.
LEMMA TimerExpiresInv == ASSUME RxInv, TimerExpires PROVE RxInv' /\ reorder'.ref_cnt = reorder.ref_cnt
<1> DEFINE q == [reorder EXCEPT !.pending = FALSE]
           p == [q EXCEPT !.running = TRUE]
<1>1. reorder \in ReorderType /\ TimerOk(reorder) /\ reorder.pending
  BY DEF RxInv, TypeOK, TimerExpires
<1>2. reorder' = p
  BY DEF TimerExpires
<1>3. q \in ReorderType /\ q.ref_cnt = reorder.ref_cnt /\ q.expired_ref = reorder.expired_ref
      /\ q.actived = reorder.actived /\ q.queued = reorder.queued
  BY <1>1 DEF ReorderType
<1> HIDE DEF q
<1>4. p \in ReorderType /\ p.ref_cnt = q.ref_cnt /\ p.expired_ref = q.expired_ref
      /\ p.actived = q.actived /\ p.queued = q.queued /\ p.running
  BY <1>3 DEF ReorderType
<1> HIDE DEF p
<1>5. TimerOk(p) /\ Armed(p)
  BY <1>1, <1>3, <1>4 DEF TimerOk, Armed
<1> QED BY <1>2, <1>3, <1>4, <1>5, StructInv DEF TimerExpires

\* A request goes to the list unless one is there.
LEMMA QueueGood ==
  ASSUME NEW r \in ReorderType, NEW sn \in U16, TimerOk(r)
  PROVE  LET q == Queue(r, sn)
         IN  /\ q \in ReorderType /\ q.ref_cnt = r.ref_cnt /\ q.pending = r.pending
             /\ q.running = r.running /\ q.expired_ref = r.expired_ref /\ q.queued
<1> DEFINE q1 == [r EXCEPT !.actived = TRUE]
           q2 == [q1 EXCEPT !.queued = TRUE]
           q3 == [q2 EXCEPT !.seq = sn]
<1>1. CASE r.actived
  BY <1>1 DEF Queue, TimerOk
<1>2. CASE ~r.actived
  <2>1. Queue(r, sn) = q3
    BY <1>2 DEF Queue
  <2>2. q1 \in ReorderType /\ q1.ref_cnt = r.ref_cnt /\ q1.pending = r.pending
        /\ q1.running = r.running /\ q1.expired_ref = r.expired_ref
    BY DEF ReorderType
  <2> HIDE DEF q1
  <2>3. q2 \in ReorderType /\ q2.ref_cnt = r.ref_cnt /\ q2.pending = r.pending
        /\ q2.running = r.running /\ q2.expired_ref = r.expired_ref /\ q2.queued
    BY <2>2 DEF ReorderType
  <2> HIDE DEF q2
  <2>4. q3 \in ReorderType /\ q3.ref_cnt = r.ref_cnt /\ q3.pending = r.pending
        /\ q3.running = r.running /\ q3.expired_ref = r.expired_ref /\ q3.queued
    BY <2>3 DEF ReorderType
  <2> QED BY <2>1, <2>4
<1> QED BY <1>1, <1>2

\* The callback of an expired timer queues the entry: an armed timer belongs
\* to the current session.
LEMMA TimeoutInv == ASSUME RxInv, skw_reorder_timeout PROVE RxInv' /\ reorder'.ref_cnt = reorder.ref_cnt
<1> DEFINE q == Queue(reorder, reorder.expired_sn)
           p == [q EXCEPT !.running = FALSE]
<1>1. reorder \in ReorderType /\ TimerOk(reorder) /\ reorder.running
  BY DEF RxInv, TypeOK, skw_reorder_timeout
<1>2. reorder.ref_cnt = reorder.expired_ref /\ reorder.expired_sn \in U16
  BY <1>1 DEF TimerOk, ReorderType
<1>3. reorder' = Forget(p)
  BY <1>2 DEF skw_reorder_timeout
<1>4. /\ q \in ReorderType /\ q.ref_cnt = reorder.ref_cnt /\ q.pending = reorder.pending
      /\ q.expired_ref = reorder.expired_ref /\ q.queued
  BY <1>1, <1>2, QueueGood
<1> HIDE DEF q
<1>5. p \in ReorderType /\ p.ref_cnt = q.ref_cnt /\ p.pending = q.pending /\ ~p.running
      /\ p.expired_ref = q.expired_ref /\ p.queued
  BY <1>4 DEF ReorderType
<1> HIDE DEF p
<1>6. TimerOk(p) /\ Armed(p)
  BY <1>1, <1>2, <1>4, <1>5 DEF TimerOk, Armed
<1>7. /\ reorder' \in ReorderType /\ reorder'.ref_cnt = p.ref_cnt /\ TimerOk(reorder')
      /\ Armed(reorder')
  BY <1>3, <1>5, <1>6, ForgetKeeps
<1> QED BY <1>4, <1>5, <1>7, StructInv DEF skw_reorder_timeout

\* A block-ack request queues the entry.
LEMMA UpdateInv == ASSUME RxInv, NEW ssn \in Ssns, skw_update_tid_rx(ssn) PROVE RxInv' /\ reorder'.ref_cnt = reorder.ref_cnt
<1> DEFINE q == Queue(reorder, ssn)
           p == [q EXCEPT !.seq = ssn]
<1>1. reorder \in ReorderType /\ TimerOk(reorder) /\ ssn \in U16
  BY WindowAssumption, Sizes DEF RxInv, TypeOK
<1>2. reorder' = p
  BY DEF skw_update_tid_rx
<1>3. /\ q \in ReorderType /\ q.ref_cnt = reorder.ref_cnt /\ q.pending = reorder.pending
      /\ q.running = reorder.running /\ q.expired_ref = reorder.expired_ref /\ q.queued
  BY <1>1, QueueGood
<1> HIDE DEF q
<1>4. p \in ReorderType /\ p.ref_cnt = q.ref_cnt /\ p.pending = q.pending
      /\ p.running = q.running /\ p.expired_ref = q.expired_ref /\ p.queued
  BY <1>1, <1>3 DEF ReorderType
<1> HIDE DEF p
<1>5. TimerOk(p) /\ Armed(p)
  BY <1>1, <1>3, <1>4 DEF TimerOk, Armed
<1> QED BY <1>2, <1>3, <1>4, <1>5, StructInv DEF skw_update_tid_rx

\* A new session holds nothing; the RX thread does not have it yet.
LEMMA AddInv == ASSUME RxInv, NEW ssn \in Ssns, skw_add_tid_rx(ssn) PROVE RxInv' /\ reorder'.ref_cnt = reorder.ref_cnt
<1> DEFINE t == [NoSession EXCEPT !.live = TRUE, !.win_start = ssn]
           k == reorder.ref_cnt
           q == [reorder EXCEPT !.seq = 0]
           p == [q EXCEPT !.actived = FALSE]
<1>1. /\ cur = NoTid /\ tids' = [tids EXCEPT ![k] = t] /\ cur' = k /\ reorder' = p
      /\ out' = <<>> /\ rx' = rx
  BY DEF skw_add_tid_rx
<1>2. /\ reorder \in ReorderType /\ TimerOk(reorder) /\ k \in Refs /\ NoTid \notin Refs
      /\ tids \in [Refs -> TidType] /\ \A r \in Refs : Holds(tids[r])
  BY RefsNat DEF RxInv, TypeOK, ReorderType
<1>3. t \in TidType /\ Holds(t) /\ Busy(t) = {} /\ HeadWaits(t)
  <2>1. ssn \in U16 /\ TRUE \in BOOLEAN
    BY WindowAssumption, Sizes
  <2> QED BY <2>1, NewSession
<1> HIDE DEF t
<1>4. /\ q \in ReorderType /\ q.ref_cnt = k /\ q.pending = reorder.pending
      /\ q.running = reorder.running /\ q.expired_ref = reorder.expired_ref
  <2>1. 0 \in U16
    BY Sizes DEF U16
  <2> QED BY <1>2, <2>1 DEF ReorderType
<1> HIDE DEF q
<1>5. /\ p \in ReorderType /\ p.ref_cnt = k /\ p.pending = q.pending
      /\ p.running = q.running /\ p.expired_ref = q.expired_ref /\ ~p.actived
  BY <1>4 DEF ReorderType
<1> HIDE DEF p
<1>6. TimerOk(p)
  BY <1>2, <1>4, <1>5 DEF TimerOk
<1>7. /\ tids' \in [Refs -> TidType] /\ tids'[k] = t
      /\ \A r \in Refs : r # k => tids'[r] = tids[r]
  BY <1>1, <1>2, <1>3
<1>8. \A r \in Refs : Holds(tids'[r])
  BY <1>2, <1>3, <1>7
<1>9. Reader'
  <2>1. rx'.ref <= reorder'.ref_cnt
    BY <1>1, <1>5 DEF RxInv, Reader
  <2>2. rx.pc = "frame" => rx.ref # k
    BY <1>1, <1>2 DEF RxInv, Reader
  <2>3. Busy(tids'[cur']) = {}
    BY <1>1, <1>3, <1>7
  <2> QED BY <1>1, <1>5, <2>1, <2>2, <2>3 DEF Reader
<1>10. Waiting'
  BY <1>1, <1>3, <1>7 DEF Waiting, Settled
<1>11. out' \in Seq(FrameType) /\ rx' \in RxType
  BY <1>1 DEF RxInv, TypeOK, RxType
<1> QED BY <1>1, <1>2, <1>5, <1>6, <1>7, <1>8, <1>9, <1>10, <1>11 DEF RxInv, TypeOK, RxType

\* The removal takes the session from the RX thread and the timer with it.
LEMMA DelInv == ASSUME RxInv, skw_del_tid_rx PROVE RxInv' /\ reorder'.ref_cnt = reorder.ref_cnt + 1
<1> DEFINE k == reorder.ref_cnt + 1
           q == [reorder EXCEPT !.ref_cnt = k]
           p == [q EXCEPT !.pending = FALSE]
<1>1. /\ reorder.ref_cnt < MaxRef /\ ~reorder.running /\ cur' = NoTid
      /\ out' = <<>> /\ tids' = tids /\ rx' = rx
      /\ reorder' = Forget([reorder EXCEPT !.ref_cnt = @ + 1, !.pending = FALSE])
  BY DEF skw_del_tid_rx
<1>2. reorder \in ReorderType /\ TimerOk(reorder)
  BY DEF RxInv, TypeOK
<1>3. reorder.ref_cnt \in Nat /\ k \in Refs /\ k = reorder.ref_cnt + 1
  <2>1. reorder.ref_cnt \in Refs
    BY <1>2 DEF ReorderType
  <2> DEFINE c == reorder.ref_cnt
  <2> HIDE DEF c
  <2>2. c \in 0 .. MaxRef /\ c < MaxRef /\ MaxRef \in Nat
    BY <1>1, <2>1, WindowAssumption DEF Refs, c
  <2>3. c \in Nat /\ c + 1 \in 0 .. MaxRef
    BY <2>2
  <2> QED BY <2>3 DEF Refs, c
<1>4. [reorder EXCEPT !.ref_cnt = @ + 1, !.pending = FALSE] = p
  OBVIOUS
<1> HIDE DEF k
<1>5. /\ q \in ReorderType /\ q.ref_cnt = k /\ q.running = reorder.running
      /\ q.actived = reorder.actived /\ q.queued = reorder.queued
  BY <1>2, <1>3 DEF ReorderType
<1> HIDE DEF q
<1>6. /\ p \in ReorderType /\ p.ref_cnt = k /\ p.running = q.running /\ ~p.pending
      /\ p.actived = q.actived /\ p.queued = q.queued
  BY <1>5 DEF ReorderType
<1>7. TimerOk(p)
  BY <1>1, <1>2, <1>5, <1>6 DEF TimerOk
<1>8. reorder' \in ReorderType /\ reorder'.ref_cnt = k /\ TimerOk(reorder')
  BY <1>1, <1>4, <1>6, <1>7, ForgetKeeps
<1> HIDE DEF p
<1>9. Reader'
  <2>1. rx.ref <= reorder.ref_cnt /\ rx.ref \in Nat
    BY RefsNat DEF RxInv, TypeOK, Reader
  <2> DEFINE a == rx.ref
             b == reorder.ref_cnt
  <2>2. a <= b /\ a \in Nat /\ b \in Nat /\ k = b + 1
    BY <1>3, <2>1
  <2> HIDE DEF a, b
  <2>3. a <= k /\ a # k
    BY <2>2
  <2> QED BY <1>1, <1>8, <2>3 DEF Reader, a
<1>10. Waiting'
  BY <1>1 DEF Waiting
<1>11. TypeOK' /\ \A r \in Refs : Holds(tids'[r])
  <2>1. out' \in Seq(FrameType)
    BY <1>1
  <2>2. tids' \in [Refs -> TidType] /\ cur' \in Refs \cup {NoTid} /\ rx' \in RxType
        /\ \A r \in Refs : Holds(tids'[r])
    BY <1>1 DEF RxInv, TypeOK, RxType
  <2> QED BY <1>8, <2>1, <2>2 DEF TypeOK, RxType
<1> QED BY <1>1, <1>3, <1>8, <1>9, <1>10, <1>11 DEF RxInv

\* A removed session is given back; only its own armed timer can be stopped,
\* and then there is no current session.
LEMMA FreeInv == ASSUME RxInv, NEW r \in Refs, skw_free_tid_rx(r) PROVE RxInv' /\ reorder'.ref_cnt = reorder.ref_cnt
<1> DEFINE e == ieee80211_sn_add(tids[r].win_start, WinSize - 1)
           v == View(r, <<>>)
           s == skw_reorder_force_release(v, e)
<1>1. /\ r # cur /\ tids' = [tids EXCEPT ![r] = NoSession] /\ reorder' = Forget(s.r)
      /\ out' = s.out /\ cur' = cur /\ rx' = rx
  BY DEF skw_free_tid_rx, GraceOver
<1>2. Good(v) /\ v.ref = r /\ v.t = tids[r] /\ v.r = reorder
  BY ViewGood
<1>3. e \in U16
  <2>1. tids[r].win_start \in Int
    BY <1>2, GoodTypes
  <2>2. WinSize - 1 \in Int
    BY Sizes
  <2> QED BY <2>1, <2>2, SnRange, Sizes
<1>4. /\ reorder \in ReorderType /\ TimerOk(reorder) /\ tids \in [Refs -> TidType]
      /\ \A k \in Refs : Holds(tids[k])
  BY DEF RxInv, TypeOK
<1> HIDE DEF e, v
<1>5. /\ Good(s) /\ s.r \in ReorderType
      /\ s.r = v.r \/ (v.r.ref_cnt = v.ref /\ s.r = [v.r EXCEPT !.pending = FALSE])
  BY <1>2, <1>3, ForceReleaseGood
<1> HIDE DEF s
<1>6. s.r.ref_cnt = reorder.ref_cnt /\ TimerOk(s.r)
  <2>1. CASE s.r = v.r
    BY <1>2, <1>4, <2>1
  <2>2. CASE s.r = [v.r EXCEPT !.pending = FALSE]
    BY <1>2, <1>4, <2>2, StopTimer DEF Rearmed
  <2> QED BY <1>5, <2>1, <2>2
<1>7. /\ reorder' \in ReorderType /\ reorder'.ref_cnt = reorder.ref_cnt /\ TimerOk(reorder')
      /\ Armed(reorder') <=> Armed(s.r)
  BY <1>1, <1>5, <1>6, ForgetKeeps
<1>8. /\ tids' \in [Refs -> TidType] /\ \A k \in Refs : Holds(tids'[k])
      /\ \A k \in Refs : k # r => tids'[k] = tids[k]
  <2>1. /\ tids' \in [Refs -> TidType] /\ tids'[r] = NoSession
        /\ \A k \in Refs : k # r => tids'[k] = tids[k]
    BY <1>1, <1>4, NoSessionHolds
  <2> QED BY <1>4, <2>1, NoSessionHolds
<1>9. cur' # NoTid => tids'[cur'] = tids[cur] /\ cur \in Refs
  BY <1>1, <1>8 DEF RxInv, TypeOK
<1>10. Reader'
  BY <1>1, <1>7, <1>9 DEF RxInv, Reader
<1>11. cur # NoTid => Armed(reorder') <=> Armed(reorder)
  <2> SUFFICES ASSUME cur # NoTid PROVE s.r = v.r
    BY <1>2, <1>7
  <2>1. cur = reorder.ref_cnt
    BY DEF RxInv
  <2> QED BY <1>1, <1>2, <1>5, <2>1
<1>12. Waiting => Waiting'
  BY <1>1, <1>9, <1>11 DEF Waiting, Settled
<1>13. out' \in Seq(FrameType)
  BY <1>1, <1>5 DEF Good, Work
<1> QED BY <1>1, <1>7, <1>8, <1>10, <1>12, <1>13 DEF RxInv, TypeOK

\* Time changes the age of what is buffered and nothing else.
LEMMA OlderKeeps ==
  ASSUME NEW t \in TidType
  PROVE  LET z == Older(t)
         IN  /\ z \in TidType /\ Busy(z) = Busy(t)
             /\ z.win_start = t.win_start /\ z.stored_num = t.stored_num
             /\ \A k \in Slots : z.buf[k].sn = t.buf[k].sn /\ z.buf[k].got = t.buf[k].got
<1> DEFINE b == [k \in Slots |->
                   IF IsEmpty(t.buf[k]) \/ t.buf[k].age = MsduAge THEN t.buf[k]
                   ELSE [t.buf[k] EXCEPT !.age = @ + 1]]
           z == [t EXCEPT !.buf = b]
<1>1. Older(t) = z
  BY DEF Older
<1>2. ASSUME NEW k \in Slots
      PROVE  b[k] \in FrameType /\ b[k].sn = t.buf[k].sn /\ b[k].got = t.buf[k].got
  <2> DEFINE f == t.buf[k]
             g == [f EXCEPT !.age = f.age + 1]
  <2>1. f \in FrameType
    BY DEF TidType
  <2>2. CASE IsEmpty(f) \/ f.age = MsduAge
    BY <2>1, <2>2
  <2>3. CASE ~(IsEmpty(f) \/ f.age = MsduAge)
    <3>1. b[k] = g
      BY <2>3
    <3> HIDE DEF b, f
    <3>2. f.age \in 0 .. MsduAge /\ f.age # MsduAge /\ MsduAge \in Nat
      BY <2>1, <2>3, WindowAssumption DEF FrameType
    <3> DEFINE n == f.age + 1
    <3>3. n \in 0 .. MsduAge
      BY <3>2
    <3> HIDE DEF n
    <3>4. g \in FrameType /\ g.sn = f.sn /\ g.got = f.got
      BY <2>1, <3>3 DEF FrameType, n
    <3> QED BY <3>1, <3>4 DEF f
  <2> QED BY <2>2, <2>3
<1>3. b \in [Slots -> FrameType]
  <2>1. b = [k \in Slots |-> b[k]]
    OBVIOUS
  <2> HIDE DEF b
  <2> QED BY <1>2, <2>1
<1> HIDE DEF b
<1>4. z \in TidType /\ z.buf = b /\ z.win_start = t.win_start /\ z.stored_num = t.stored_num
  BY <1>3 DEF TidType
<1> HIDE DEF z
<1>5. Busy(z) = Busy(t)
  BY <1>2, <1>4 DEF Busy, IsEmpty
<1> QED BY <1>1, <1>2, <1>4, <1>5

\* Time passes.
LEMMA TimePassesInv == ASSUME RxInv, TimePasses PROVE RxInv'
<1>1. /\ tids' = [r \in Refs |-> Older(tids[r])] /\ out' = <<>>
      /\ cur' = cur /\ reorder' = reorder /\ rx' = rx
  BY DEF TimePasses
<1>2. tids \in [Refs -> TidType] /\ \A r \in Refs : Holds(tids[r])
  BY DEF RxInv, TypeOK
<1>3. ASSUME NEW r \in Refs
      PROVE  /\ tids'[r] \in TidType /\ Holds(tids'[r]) /\ Busy(tids'[r]) = Busy(tids[r])
             /\ HeadWaits(tids[r]) => HeadWaits(tids'[r])
  <2> DEFINE t == tids[r]
             z == Older(t)
  <2>1. t \in TidType /\ Holds(t) /\ tids'[r] = z
    BY <1>1, <1>2
  <2> HIDE DEF t, z
  <2>2. /\ z \in TidType /\ Busy(z) = Busy(t)
        /\ z.win_start = t.win_start /\ z.stored_num = t.stored_num
        /\ \A k \in Slots : z.buf[k].sn = t.buf[k].sn /\ z.buf[k].got = t.buf[k].got
    BY <2>1, OlderKeeps DEF z
  <2>3. Counted(z) /\ InSlots(z)
    BY <2>1, <2>2 DEF Holds, Counted, InSlots, Busy
  <2>4. Regular => InWindow(z)
    BY <2>1, <2>2 DEF Holds, InWindow, Busy
  <2>5. HeadWaits(t) => HeadWaits(z)
    BY <2>2 DEF HeadWaits, skw_is_release_ready, IsEmpty
  <2> QED BY <2>1, <2>2, <2>3, <2>4, <2>5 DEF Holds, t
<1>4. tids' \in [Refs -> TidType]
  <2>1. tids' = [r \in Refs |-> tids'[r]]
    BY <1>1
  <2> QED BY <1>3, <2>1
<1>5. cur # NoTid => cur \in Refs
  BY DEF RxInv, TypeOK
<1>6. Reader'
  BY <1>1, <1>3, <1>5 DEF RxInv, Reader
<1>7. Waiting => Waiting'
  BY <1>1, <1>3, <1>5 DEF Waiting, Settled
<1>8. out' \in Seq(FrameType)
  BY <1>1
<1> QED BY <1>1, <1>3, <1>4, <1>6, <1>7, <1>8 DEF RxInv, TypeOK

\* Init has no session.
LEMMA RxInit == Init => RxInv
<1> SUFFICES ASSUME Init PROVE RxInv
  OBVIOUS
<1>0. 0 \in U16 /\ 0 \in Refs /\ 0 <= 0
  BY RefsNat, Sizes DEF U16
<1>1. tids \in [Refs -> TidType] /\ \A r \in Refs : Holds(tids[r])
  BY NoSessionHolds DEF Init
<1>2. reorder \in ReorderType /\ TimerOk(reorder) /\ reorder.ref_cnt = 0
  <2>1. reorder = [ref_cnt |-> 0, pending |-> FALSE, running |-> FALSE,
                   expired_sn |-> 0, expired_ref |-> 0,
                   seq |-> 0, actived |-> FALSE, queued |-> FALSE]
    BY DEF Init
  <2> QED BY <1>0, <2>1 DEF ReorderType, TimerOk
<1>3. rx \in RxType /\ rx.ref = 0 /\ rx.pc = "idle"
  <2>1. rx = [pc |-> "idle", ref |-> 0]
    BY DEF Init, RxIdle
  <2> QED BY <1>0, <2>1 DEF RxType
<1>4. cur = NoTid /\ out \in Seq(FrameType)
  BY DEF Init
<1> QED BY <1>0, <1>1, <1>2, <1>3, <1>4 DEF RxInv, TypeOK, RxType, Reader, Waiting

\* Every step keeps the invariant.
LEMMA RxNext == RxInv /\ [Next]_vars => RxInv'
<1> SUFFICES ASSUME RxInv, [Next]_vars PROVE RxInv'
  OBVIOUS
<1>1. CASE RxFrame
  BY <1>1, RxFrameInv
<1>2. CASE RxThread
  BY <1>2, RxReorderInv, RxTodoInv, RxReleaseInv DEF RxThread
<1>3. CASE TimerExpires
  BY <1>3, TimerExpiresInv
<1>4. CASE skw_reorder_timeout
  BY <1>4, TimeoutInv
<1>5. CASE \E ssn \in Ssns : skw_update_tid_rx(ssn)
  BY <1>5, UpdateInv
<1>6. CASE \E ssn \in Ssns : skw_add_tid_rx(ssn)
  BY <1>6, AddInv
<1>7. CASE skw_del_tid_rx
  BY <1>7, DelInv
<1>8. CASE \E r \in Refs : skw_free_tid_rx(r)
  BY <1>8, FreeInv
<1>9. CASE TimePasses
  BY <1>9, TimePassesInv
<1>10. CASE UNCHANGED vars
  BY <1>10 DEF vars, RxInv, TypeOK, Reader, Waiting
<1> QED BY <1>1, <1>2, <1>3, <1>4, <1>5, <1>6, <1>7, <1>8, <1>9, <1>10 DEF Next

\* The invariant holds in every behaviour.
LEMMA RxInvariant == Spec => []RxInv
BY RxInit, RxNext, PTL DEF Spec
-----------------------------------------------------------------------------
(* What a step of the system hands up. *)

\* The sessions yet to come hold nothing.
Fresh == \A r \in Refs : r = cur \/ r < reorder.ref_cnt \/ tids[r] = NoSession

\* Nothing is lost, nothing handed up twice or out of order, and no window
\* moves back.
GoodStep ==
  /\ \A r \in Refs : Passed(tids[r], tids'[r], out')
  /\ \A r \in Refs : tids[r].live /\ tids'[r].live => Forward(tids[r], tids'[r])
  /\ \E r \in Refs : Ordered(tids[r], out')

\* A session that stays as it is, whatever is handed up meanwhile.
LEMMA SameStays ==
  ASSUME NEW t, t.win_start \in U16, NEW o
  PROVE  Passed(t, t, o) /\ Forward(t, t)
<1>1. Gap(t.win_start, t.win_start) = 0
  BY Sizes, GapSelf
<1> QED BY <1>1 DEF Passed, Forward

\* The windows the sessions start from.
LEMMA Starts ==
  ASSUME RxInv
  PROVE  \A r \in Refs : tids[r].win_start \in U16
BY DEF RxInv, TypeOK, TidType

\* One session was worked on, the others stay as they are.
LEMMA OneSession ==
  ASSUME RxInv, NEW r \in Refs, \A q \in Refs : q # r => tids'[q] = tids[q],
         Passed(tids[r], tids'[r], out'), Ordered(tids[r], out'),
         tids[r].live /\ tids'[r].live => Forward(tids[r], tids'[r])
  PROVE  GoodStep
<1>1. ASSUME NEW q \in Refs
      PROVE  /\ Passed(tids[q], tids'[q], out')
             /\ tids[q].live /\ tids'[q].live => Forward(tids[q], tids'[q])
  <2>1. CASE q = r
    BY <2>1
  <2>2. CASE q # r
    <3>1. tids'[q] = tids[q]
      BY <2>2
    <3>2. tids[q].win_start \in U16
      BY Starts
    <3> QED BY <3>1, <3>2, SameStays
  <2> QED BY <2>1, <2>2
<1> QED BY <1>1 DEF GoodStep

\* The sessions stay as they are; one frame at most is handed up.
LEMMA NoSessionMoved ==
  ASSUME RxInv, tids' = tids, DOMAIN out' \subseteq {1}
  PROVE  GoodStep
<1>1. \A r \in Refs : Passed(tids[r], tids'[r], out') /\ Forward(tids[r], tids'[r])
  BY Starts, SameStays
<1>2. \A i, j \in DOMAIN out' : ~(i < j)
  OBVIOUS
<1>3. Ordered(tids[0], out') /\ 0 \in Refs
  BY <1>2, RefsNat DEF Ordered
<1> QED BY <1>1, <1>3 DEF GoodStep

\* A frame goes past the buffer, or waits to be looked at.
LEMMA RxFrameStep == ASSUME RxInv, RxFrame PROVE GoodStep
<1>1. tids' = tids
  BY DEF RxFrame
<1>2. DOMAIN out' \subseteq {1}
  <2>1. CASE cur = NoTid
    <3>1. PICK f \in Frames : Deliver(<<[sn |-> f.sn, got |-> {f.part}, age |-> 0]>>, reorder)
      BY <2>1 DEF RxFrame
    <3> DEFINE g == [sn |-> f.sn, got |-> {f.part}, age |-> 0]
    <3>2. out' = <<g>>
      BY <3>1 DEF Deliver
    <3> HIDE DEF g
    <3> QED BY <3>2
  <2>2. CASE cur # NoTid
    BY <2>2 DEF RxFrame
  <2> QED BY <2>1, <2>2
<1> QED BY <1>1, <1>2, NoSessionMoved

\* The frame reaches the window; what follows touches the timer only.
LEMMA RxReorderStep ==
  ASSUME Regular, RxInv, NEW f \in Frames, RxReorder(f)
  PROVE  GoodStep /\ \A r \in Refs : r # rx.ref => tids'[r] = tids[r]
<1> DEFINE v == View(rx.ref, <<>>)
           w == ampdu_window(v, f)
           y == w.s
           s == IF y.t.stored_num = 0 THEN del_timer(y)
                ELSE IF w.release THEN y ELSE skw_set_reorder_timer(y, f.sn)
<1>1. /\ Commit(s)
      /\ IF y.t.stored_num > 0 /\ w.release
         THEN rx' = [rx EXCEPT !.pc = "release"] /\ out' = s.out
         ELSE Deliver(s.out, s.r)
  BY DEF RxReorder
<1>2. rx.ref \in Refs
  BY DEF RxInv, TypeOK
<1>3. Good(v) /\ v.ref = rx.ref /\ v.t = tids[rx.ref] /\ v.out = <<>>
  BY <1>2, ViewGood
<1>4. /\ Good(y) /\ y.ref = v.ref
      /\ Passed(v.t, y.t, y.out) /\ Ordered(v.t, y.out) /\ Forward(v.t, y.t)
  <2> HIDE DEF v
  <2> QED BY <1>3, WindowGood, WindowSends
<1> HIDE DEF v, w
<1>5. Good(s) /\ s.ref = y.ref /\ s.t = y.t /\ s.out = y.out
  <2>1. CASE s = del_timer(y)
    <3> HIDE DEF y, s
    <3> QED BY <1>4, <2>1, DelTimerGood
  <2>2. CASE s = y
    <3> HIDE DEF y, s
    <3> QED BY <1>4, <2>2
  <2>3. CASE s = skw_set_reorder_timer(y, f.sn)
    <3> HIDE DEF y, s
    <3> QED BY <1>4, <2>3, FrameParts, SetTimerGood
  <2> QED BY <2>1, <2>2, <2>3
<1>6. out' = s.out
  BY <1>1 DEF Deliver
<1> HIDE DEF y, s
<1>7. tids'[rx.ref] = s.t /\ \A r \in Refs : r # rx.ref => tids'[r] = tids[r]
  BY <1>1, <1>3, <1>4, <1>5, Committed
<1> QED BY <1>2, <1>3, <1>4, <1>5, <1>6, <1>7, OneSession

\* The to-do entry releases what is before its number.
LEMMA RxTodoStep ==
  ASSUME Regular, RxInv, RxTodo
  PROVE  GoodStep /\ \A q \in Refs : q # cur => tids'[q] = tids[q]
<1> DEFINE r == [reorder EXCEPT !.queued = FALSE, !.actived = FALSE]
           v == [View(cur, <<>>) EXCEPT !.r = r]
           s == skw_reorder_force_release(v, reorder.seq)
<1>1. IF cur = NoTid THEN UNCHANGED tids /\ reorder' = Forget(r) /\ out' = <<>>
      ELSE Commit(s) /\ out' = s.out
  BY DEF RxTodo
<1>2. reorder \in ReorderType /\ reorder.seq \in U16 /\ cur \in Refs \cup {NoTid}
  BY DEF RxInv, TypeOK, ReorderType
<1>3. r \in ReorderType
  <2> DEFINE q == [reorder EXCEPT !.queued = FALSE]
  <2>1. q \in ReorderType
    BY <1>2 DEF ReorderType
  <2>2. r = [q EXCEPT !.actived = FALSE]
    OBVIOUS
  <2> HIDE DEF q, r
  <2> QED BY <2>1, <2>2 DEF ReorderType
<1> HIDE DEF r, s
<1>4. CASE cur = NoTid
  <2>1. tids' = tids /\ out' = <<>>
    BY <1>1, <1>4
  <2> QED BY <2>1, NoSessionMoved
<1>5. CASE cur # NoTid
  <2>1. Commit(s) /\ out' = s.out /\ cur \in Refs
    BY <1>1, <1>2, <1>5
  <2> DEFINE x == View(cur, <<>>)
  <2>2. Good(x) /\ x.ref = cur /\ x.t = tids[cur] /\ x.out = <<>>
    BY <2>1, ViewGood
  <2> HIDE DEF x
  <2>3. Good(v) /\ v.ref = cur /\ v.t = tids[cur] /\ v.out = <<>>
    BY <1>3, <2>2, SetR DEF x
  <2> HIDE DEF v
  <2>4. Good(s) /\ Kept(v, s) /\ Forward(v.t, s.t)
    BY <1>2, <2>3, ForceReleaseGood, ForceForward DEF s
  <2>5. Passed(v.t, s.t, s.out) /\ Ordered(v.t, s.out)
    BY <2>3, <2>4, KeptPasses
  <2>6. s.ref = cur
    BY <2>3, <2>4 DEF Kept
  <2>7. tids'[cur] = s.t /\ \A q \in Refs : q # cur => tids'[q] = tids[q]
    BY <2>1, <2>4, <2>6, Committed
  <2> QED BY <2>1, <2>3, <2>4, <2>5, <2>7, OneSession
<1> QED BY <1>4, <1>5

\* What is ready is released, up to a gap.
LEMMA RxReleaseStep ==
  ASSUME Regular, RxInv, RxRelease
  PROVE  GoodStep /\ \A q \in Refs : q # cur => tids'[q] = tids[q]
<1> DEFINE v == View(cur, <<>>)
           s == skw_reorder_release(v)
<1>1. IF cur = NoTid THEN UNCHANGED <<tids, reorder>> /\ Deliver(<<>>, reorder)
      ELSE Commit(s) /\ Deliver(s.out, s.r)
  BY DEF RxRelease
<1>2. cur \in Refs \cup {NoTid}
  BY DEF RxInv, TypeOK
<1> HIDE DEF s
<1>3. CASE cur = NoTid
  <2>1. tids' = tids /\ out' = <<>>
    BY <1>1, <1>3 DEF Deliver
  <2> QED BY <2>1, NoSessionMoved
<1>4. CASE cur # NoTid
  <2>1. Commit(s) /\ out' = s.out /\ cur \in Refs
    BY <1>1, <1>2, <1>4 DEF Deliver
  <2>2. Good(v) /\ v.ref = cur /\ v.t = tids[cur] /\ v.out = <<>>
    BY <2>1, ViewGood
  <2> HIDE DEF v
  <2>3. Good(s) /\ Kept(v, s) /\ Gap(s.t.win_start, v.t.win_start) <= WinSize
    BY <2>2, ReleaseGood DEF s
  <2>4. Forward(v.t, s.t)
    BY <2>2, <2>3, GoodTypes, AheadForward DEF Forward
  <2>5. Passed(v.t, s.t, s.out) /\ Ordered(v.t, s.out)
    BY <2>2, <2>3, KeptPasses
  <2>6. s.ref = cur
    BY <2>2, <2>3 DEF Kept
  <2>7. tids'[cur] = s.t /\ \A q \in Refs : q # cur => tids'[q] = tids[q]
    BY <2>1, <2>3, <2>6, Committed
  <2> QED BY <2>1, <2>2, <2>4, <2>5, <2>7, OneSession
<1> QED BY <1>3, <1>4

\* A session is added where none was.
LEMMA AddStep ==
  ASSUME RxInv, Fresh, NEW ssn \in Ssns, skw_add_tid_rx(ssn) PROVE GoodStep
<1> DEFINE k == reorder.ref_cnt
           t == [NoSession EXCEPT !.live = TRUE, !.win_start = ssn]
<1>1. cur = NoTid /\ tids' = [tids EXCEPT ![k] = t] /\ out' = <<>>
  BY DEF skw_add_tid_rx
<1>2. k \in Refs /\ k \in Nat /\ k # NoTid /\ tids \in [Refs -> TidType]
  BY RefsNat DEF RxInv, TypeOK, ReorderType
<1> HIDE DEF t
<1>3. tids[k] = NoSession
  <2>1. ~(k < k)
    BY <1>2
  <2> QED BY <1>1, <1>2, <2>1 DEF Fresh
<1>4. \A q \in Refs : q # k => tids'[q] = tids[q]
  BY <1>1, <1>2
<1>5. ~tids[k].live /\ Busy(tids[k]) = {}
  <2>1. ~NoSession.live
    BY DEF NoSession
  <2> QED BY <1>3, <2>1, NoSessionHolds
<1>6. Passed(tids[k], tids'[k], out')
  BY <1>5 DEF Passed
<1>7. Ordered(tids[k], out')
  BY <1>1 DEF Ordered
<1> HIDE DEF k
<1> QED BY <1>2, <1>4, <1>5, <1>6, <1>7, OneSession

\* What lies d ahead.
LEMMA GapAdd ==
  ASSUME NEW a \in Int, NEW d \in 0 .. SnMod - 1
  PROVE  Gap(ieee80211_sn_add(a, d), a) = d
<1> DEFINE x == a + d
           na == -a
           y == x % SnMod
<1>1. x \in Int /\ na \in Int /\ x + na = d /\ d \in Int
  BY Sizes
<1>2. y \in Int
  <2> HIDE DEF x
  <2> QED BY <1>1, Sizes, ModRange
<1>3. (y + na) % SnMod = (x + na) % SnMod
  <2> HIDE DEF x, na
  <2> QED BY <1>1, Sizes, ModMod
<1>4. y - a = y + na
  <2> HIDE DEF y
  <2> QED BY <1>2
<1>5. ieee80211_sn_add(a, d) = y
  BY DEF ieee80211_sn_add
<1>6. d % SnMod = d
  BY Sizes, ModSmall
<1> HIDE DEF x, y, na
<1> QED BY <1>1, <1>3, <1>4, <1>5, <1>6 DEF Gap

\* Nothing is left in a session released up to the end of its window: what is
\* one beyond shares the slot of its start.
LEMMA AllReleased ==
  ASSUME Regular, NEW s, Good(s)
  PROVE  LET e == ieee80211_sn_add(s.t.win_start, WinSize - 1)
         IN  Busy(skw_reorder_force_release(s, e).t) = {}
<1> DEFINE w == s.t.win_start
           e == ieee80211_sn_add(w, WinSize - 1)
           c == ieee80211_sn_inc(e)
           z == skw_reorder_force_release(s, e)
           x == z.t.win_start
<1> SUFFICES Busy(z.t) = {}
  OBVIOUS
<1>1. /\ SnMod \in Nat \ {0} /\ WinSize \in Nat \ {0} /\ 2 * WinSize < SnMod
      /\ WinSize - 1 \in 0 .. SnMod - 1 /\ WinSize - 1 \in Int /\ WinSize \in 0 .. SnMod
  BY Sizes DEF Regular
<1>2. w \in Int /\ e \in Int /\ e \in U16 /\ c \in Int
  <2>1. w \in Int
    BY GoodTypes
  <2>2. e \in Sn
    <3> HIDE DEF w
    <3> QED BY <1>1, <2>1, SnRange
  <2>3. e \in Int /\ e \in U16
    BY <2>2, Sizes
  <2> HIDE DEF e
  <2> QED BY <2>1, <2>3, SnRange, Sizes
<1>3. Gap(e, w) = WinSize - 1
  <2> HIDE DEF w
  <2> QED BY <1>1, <1>2, GapAdd
<1>4. Gap(c, w) = WinSize
  <2>1. Gap(c, w) = IF Gap(e, w) = SnMod - 1 THEN 0 ELSE Gap(e, w) + 1
    <3> HIDE DEF w, e
    <3> QED BY <1>2, GapInc
  <2> HIDE DEF w, e, c
  <2> QED BY <1>1, <1>3, <2>1
<1>5. ieee80211_sn_less(w, c)
  <2> HIDE DEF w, c
  <2>1. Gap(c, w) <= WinSize /\ Gap(c, w) # 0
    BY <1>1, <1>4
  <2> QED BY <1>2, <2>1, AheadForward
<1>6. Good(z) /\ Kept(s, z) /\ Past(z, e)
  <2> HIDE DEF e
  <2> QED BY <1>2, <1>5, ForceReleaseGood DEF w, c
<1> HIDE DEF z, e
<1>7. CASE Gap(x, c) = 0
  <2>1. x \in Int
    BY <1>6, GoodTypes
  <2>2. Gap(x, w) = WinSize
    <3> HIDE DEF x, w, c
    <3> QED BY <1>2, <1>4, <1>7, <2>1, GapFrom
  <2>3. x # w
    <3> HIDE DEF x, w
    <3> QED BY <1>1, <1>2, <2>2, GapSelf
  <2>4. w % WinSize \notin Busy(z.t)
    BY <1>6, <2>3 DEF Kept, Sorted
  <2>5. x % WinSize = w % WinSize
    <3> DEFINE v == w + WinSize
    <3>1. v \in Int /\ Gap(x, v) = 0
      <4>1. v \in Int
        <5> HIDE DEF w
        <5> QED BY <1>1, <1>2
      <4>2. Gap(x, v) = IF Gap(x, w) >= WinSize THEN Gap(x, w) - WinSize
                        ELSE Gap(x, w) - WinSize + SnMod
        <5> HIDE DEF x, w
        <5> QED BY <1>1, <1>2, <2>1, GapAhead DEF v
      <4> HIDE DEF v, x, w
      <4> QED BY <1>1, <2>2, <4>1, <4>2
    <3>2. x % WinSize = v % WinSize
      <4> HIDE DEF v, x
      <4> QED BY <2>1, <3>1, GapSlot
    <3>3. v % WinSize = w % WinSize
      <4> HIDE DEF w
      <4> QED BY <1>1, <1>2, ModPlus
    <3> QED BY <3>2, <3>3
  <2>6. ASSUME NEW k \in Busy(z.t) PROVE FALSE
    <3> DEFINE n == z.t.buf[k].sn
    <3>1. n \in Int /\ n % WinSize = k /\ Gap(n, x) <= WinSize
      BY <1>6, HeldFrame
    <3>2. Gap(n, w) <= WinSize
      <4>1. z.t.buf[k] = s.t.buf[k] /\ k \in Busy(s.t)
        BY <1>6 DEF Kept
      <4> QED BY <4>1, HeldFrame
    <3> HIDE DEF n, x, w
    <3>3. Gap(n, w) = IF Gap(n, x) + Gap(x, w) >= SnMod THEN Gap(n, x) + Gap(x, w) - SnMod
                      ELSE Gap(n, x) + Gap(x, w)
      BY <1>2, <2>1, <3>1, GapSum
    <3>4. Gap(n, x) \in 0 .. SnMod - 1
      BY <2>1, <3>1, GapRange
    <3>5. Gap(n, x) = 0
      BY <1>1, <2>2, <3>1, <3>2, <3>3, <3>4
    <3>6. n % WinSize = x % WinSize
      BY <2>1, <3>1, <3>5, GapSlot
    <3> QED BY <2>4, <2>5, <2>6, <3>1, <3>6
  <2> QED BY <2>6 DEF Busy
<1>8. CASE Busy(z.t) = {}
  BY <1>8
<1> QED BY <1>6, <1>7, <1>8 DEF Past

\* A removed session hands up all it has.
LEMMA FreeStep ==
  ASSUME Regular, RxInv, NEW r \in Refs, skw_free_tid_rx(r) PROVE GoodStep
<1> DEFINE e == ieee80211_sn_add(tids[r].win_start, WinSize - 1)
           v == View(r, <<>>)
           s == skw_reorder_force_release(v, e)
<1>1. tids' = [tids EXCEPT ![r] = NoSession] /\ out' = s.out
  BY DEF skw_free_tid_rx
<1>2. Good(v) /\ v.t = tids[r] /\ v.out = <<>>
  BY ViewGood
<1>3. e \in U16
  <2>1. tids[r].win_start \in Int
    BY <1>2, GoodTypes
  <2>2. WinSize - 1 \in Int
    BY Sizes
  <2> QED BY <2>1, <2>2, SnRange, Sizes
<1>4. Busy(s.t) = {}
  <2> HIDE DEF v
  <2> QED BY <1>2, AllReleased
<1> HIDE DEF e, v
<1>5. Good(s) /\ Kept(v, s)
  BY <1>2, <1>3, ForceReleaseGood
<1> HIDE DEF s
<1>6. Passed(v.t, s.t, s.out) /\ Ordered(v.t, s.out)
  BY <1>2, <1>5, KeptPasses
<1>7. tids'[r] = NoSession /\ \A q \in Refs : q # r => tids'[q] = tids[q]
  BY <1>1 DEF RxInv, TypeOK
<1>8. Passed(tids[r], tids'[r], out') /\ Ordered(tids[r], out')
  BY <1>1, <1>2, <1>4, <1>6 DEF Passed
<1>9. ~tids'[r].live
  BY <1>7 DEF NoSession
<1> QED BY <1>7, <1>8, <1>9, OneSession

\* Time hands up nothing.
LEMMA TimeStep == ASSUME RxInv, TimePasses PROVE GoodStep
<1>1. tids' = [r \in Refs |-> Older(tids[r])] /\ out' = <<>>
  BY DEF TimePasses
<1>2. ASSUME NEW r \in Refs
      PROVE  Passed(tids[r], tids'[r], out') /\ Forward(tids[r], tids'[r])
  <2> DEFINE t == tids[r]
             z == Older(t)
  <2>1. t \in TidType /\ tids'[r] = z /\ t.win_start \in Int
    BY <1>1, Sizes DEF RxInv, TypeOK, TidType
  <2> HIDE DEF t, z
  <2>2. /\ Busy(z) = Busy(t) /\ z.win_start = t.win_start
        /\ \A k \in Slots : z.buf[k].sn = t.buf[k].sn /\ z.buf[k].got = t.buf[k].got
    BY <2>1, OlderKeeps DEF z
  <2>3. Passed(t, z, out')
    BY <2>2 DEF Passed, Busy
  <2>4. Forward(t, z)
    BY <2>1, <2>2, GapSelf DEF Forward
  <2> QED BY <2>1, <2>3, <2>4 DEF t
<1>3. Ordered(tids[0], out') /\ 0 \in Refs
  BY <1>1, RefsNat DEF Ordered
<1> QED BY <1>2, <1>3 DEF GoodStep

\* Every step is a good one.
LEMMA EveryStep == ASSUME Regular, RxInv, Fresh, Next PROVE GoodStep
<1>1. CASE RxFrame
  BY <1>1, RxFrameStep
<1>2. CASE RxThread
  BY <1>2, RxReorderStep, RxTodoStep, RxReleaseStep DEF RxThread
<1>3. CASE skw_del_tid_rx \/ TimerExpires \/ skw_reorder_timeout
           \/ \E ssn \in Ssns : skw_update_tid_rx(ssn)
  <2>1. tids' = tids /\ out' = <<>>
    BY <1>3 DEF skw_del_tid_rx, TimerExpires, skw_reorder_timeout, skw_update_tid_rx
  <2> QED BY <2>1, NoSessionMoved
<1>4. CASE \E ssn \in Ssns : skw_add_tid_rx(ssn)
  BY <1>4, AddStep
<1>5. CASE \E r \in Refs : skw_free_tid_rx(r)
  BY <1>5, FreeStep
<1>6. CASE TimePasses
  BY <1>6, TimeStep
<1> QED BY <1>1, <1>2, <1>3, <1>4, <1>5, <1>6 DEF Next

\* A session that holds nothing does not age.
LEMMA FreshOlder == Older(NoSession) = NoSession
<1> DEFINE e == [k \in Slots |-> Empty]
           b == [k \in Slots |-> IF IsEmpty(e[k]) \/ e[k].age = MsduAge THEN e[k]
                                 ELSE [e[k] EXCEPT !.age = @ + 1]]
<1>1. NoSession.buf = e
  BY DEF NoSession
<1>2. b = e
  BY EmptyFrame
<1>3. Older(NoSession) = [NoSession EXCEPT !.buf = b]
  BY <1>1 DEF Older
<1> HIDE DEF e, b
<1> QED BY <1>1, <1>2, <1>3 DEF NoSession

\* Only the session of ref_cnt is ever worked on, or one before it.
LEMMA FreshNext == ASSUME Regular, RxInv, Fresh, [Next]_vars PROVE Fresh'
<1>0. /\ reorder.ref_cnt \in Nat /\ reorder.ref_cnt \in Refs /\ rx.ref \in Nat
      /\ tids \in [Refs -> TidType] /\ cur \in Refs \cup {NoTid} /\ Refs \subseteq Nat
      /\ cur # NoTid => cur = reorder.ref_cnt
  BY RefsNat DEF RxInv, TypeOK, ReorderType
<1> DEFINE Same == cur' = cur /\ reorder'.ref_cnt = reorder.ref_cnt
<1>1. ASSUME Same, NEW x, x = cur \/ (x \in Nat /\ x < reorder.ref_cnt),
             \A q \in Refs : q # x => tids'[q] = tids[q]
      PROVE  Fresh'
  <2> SUFFICES ASSUME NEW q \in Refs, q # cur, ~(q < reorder.ref_cnt) PROVE tids'[q] = NoSession
    BY <1>1 DEF Fresh
  <2>1. q # x
    BY <1>1
  <2> QED BY <1>1, <2>1 DEF Fresh
<1>2. CASE RxFrame \/ TimerExpires \/ skw_reorder_timeout
           \/ (\E ssn \in Ssns : skw_update_tid_rx(ssn)) \/ UNCHANGED vars
  <2>1. tids' = tids /\ cur' = cur
    BY <1>2 DEF RxFrame, TimerExpires, skw_reorder_timeout, skw_update_tid_rx, vars
  <2>2. reorder'.ref_cnt = reorder.ref_cnt
    <3>1. CASE RxFrame \/ UNCHANGED vars
      BY <3>1 DEF RxFrame, vars
    <3> QED BY <1>2, <3>1, TimerExpiresInv, TimeoutInv, UpdateInv
  <2> QED BY <2>1, <2>2 DEF Fresh
<1>3. ASSUME NEW f \in Frames, RxReorder(f) PROVE Fresh'
  <2>1. Same
    BY <1>3, RxReorderInv DEF RxReorder
  <2>2. \A q \in Refs : q # rx.ref => tids'[q] = tids[q]
    BY <1>3, RxReorderStep
  <2>3. rx.ref <= reorder.ref_cnt /\ (rx.ref = reorder.ref_cnt => cur = rx.ref)
    BY <1>3 DEF RxReorder, RxInv, Reader
  <2>4. rx.ref = cur \/ (rx.ref \in Nat /\ rx.ref < reorder.ref_cnt)
    <3> DEFINE a == rx.ref
               b == reorder.ref_cnt
    <3>1. a \in Nat /\ b \in Nat /\ a <= b /\ (a = b => cur = a)
      BY <1>0, <2>3
    <3> HIDE DEF a, b
    <3>2. a = b \/ a < b
      BY <3>1
    <3> QED BY <3>1, <3>2 DEF a, b
  <2> QED BY <1>1, <2>1, <2>2, <2>4
<1>4. CASE RxTodo
  <2>1. Same
    BY <1>4, RxTodoInv DEF RxTodo
  <2>2. \A q \in Refs : q # cur => tids'[q] = tids[q]
    BY <1>4, RxTodoStep
  <2> QED BY <1>1, <2>1, <2>2
<1>5. CASE RxRelease
  <2>1. Same
    BY <1>5, RxReleaseInv DEF RxRelease
  <2>2. \A q \in Refs : q # cur => tids'[q] = tids[q]
    BY <1>5, RxReleaseStep
  <2> QED BY <1>1, <2>1, <2>2
<1>6. ASSUME NEW ssn \in Ssns, skw_add_tid_rx(ssn) PROVE Fresh'
  <2> DEFINE k == reorder.ref_cnt
  <2>1. cur = NoTid /\ cur' = k /\ reorder'.ref_cnt = k
    BY <1>6, AddInv DEF skw_add_tid_rx
  <2>2. \A q \in Refs : q # k => tids'[q] = tids[q]
    BY <1>0, <1>6 DEF skw_add_tid_rx
  <2>3. NoTid \notin Refs
    BY RefsNat
  <2> HIDE DEF k
  <2> QED BY <2>1, <2>2, <2>3 DEF Fresh, k
<1>7. CASE skw_del_tid_rx
  <2>1. tids' = tids /\ cur' = NoTid /\ reorder'.ref_cnt = reorder.ref_cnt + 1
    BY <1>7, DelInv DEF skw_del_tid_rx
  <2> DEFINE b == reorder.ref_cnt
  <2>2. ASSUME NEW q \in Refs, ~(q < reorder'.ref_cnt) PROVE q # cur /\ ~(q < b)
    <3>1. q \in Nat /\ b \in Nat /\ ~(q < b + 1)
      BY <1>0, <2>1, <2>2
    <3> HIDE DEF b
    <3>2. q # b /\ ~(q < b)
      BY <3>1
    <3>3. NoTid \notin Refs
      BY RefsNat
    <3> QED BY <1>0, <3>2, <3>3 DEF b
  <2> QED BY <2>1, <2>2 DEF Fresh
<1>8. ASSUME NEW r \in Refs, skw_free_tid_rx(r) PROVE Fresh'
  <2>1. Same
    BY <1>8, FreeInv DEF skw_free_tid_rx
  <2>2. \A q \in Refs : tids'[q] = IF q = r THEN NoSession ELSE tids[q]
    BY <1>0, <1>8 DEF skw_free_tid_rx
  <2> QED BY <2>1, <2>2 DEF Fresh
<1>9. CASE TimePasses
  <2>1. cur' = cur /\ reorder' = reorder /\ \A q \in Refs : tids'[q] = Older(tids[q])
    BY <1>9 DEF TimePasses
  <2> QED BY <2>1, FreshOlder DEF Fresh
<1> HIDE DEF Same
<1> QED BY <1>2, <1>3, <1>4, <1>5, <1>6, <1>7, <1>8, <1>9 DEF Next, RxThread

\* The invariants hold and every step is a good one.
LEMMA FreshInvariant == ASSUME Regular PROVE Spec => []Fresh
<1>1. Init => Fresh
  BY DEF Init, Fresh
<1>2. RxInv /\ Fresh /\ [Next]_vars => Fresh'
  BY FreshNext
<1> QED BY <1>1, <1>2, RxInvariant, PTL DEF Spec

-----------------------------------------------------------------------------
(* Theorems. *)

\* Every variable of the reordering keeps its type, whatever the window: in
\* particular stored_num is never decremented below zero.
THEOREM TypeCorrect == Spec => []TypeOK
<1>1. RxInv => TypeOK
  BY DEF RxInv
<1> QED BY <1>1, RxInvariant, PTL

\* The number stored_num of a session is the number of its non-empty lists,
\* each in the slot of its sequence number, whatever the window.
THEOREM ListsCounted ==
  Spec => [](\A r \in Refs : Counted(tids[r]) /\ InSlots(tids[r]))
<1>1. RxInv => \A r \in Refs : Counted(tids[r]) /\ InSlots(tids[r])
  BY DEF RxInv, Holds
<1> QED BY <1>1, RxInvariant, PTL

\* With a window that divides the sequence numbers, what a session holds is
\* in its window, or one beyond, after every release, removal and time out.
THEOREM BufferCorrect == ASSUME Regular PROVE Spec => []BufferConsistent
<1>1. RxInv => BufferConsistent
  <2> SUFFICES ASSUME RxInv PROVE BufferConsistent
    OBVIOUS
  <2>1. \A r \in Refs : Counted(tids[r]) /\ InSlots(tids[r]) /\ InWindow(tids[r])
    BY DEF RxInv, Holds
  <2>2. \A r \in Refs : tids[r].stored_num = Cardinality({k \in Slots : ~IsEmpty(tids[r].buf[k])})
    BY <2>1 DEF Counted, Busy
  <2>3. cur # NoTid => cur \in Refs
    BY DEF RxInv, TypeOK
  <2>4. ASSUME cur # NoTid, NEW k \in Slots, ~IsEmpty(tids[cur].buf[k])
        PROVE  /\ tids[cur].buf[k].sn % WinSize = k
               /\ (tids[cur].buf[k].sn - tids[cur].win_start) % SnMod <= WinSize
    <3>1. InSlots(tids[cur]) /\ InWindow(tids[cur]) /\ k \in Busy(tids[cur])
      BY <2>1, <2>3, <2>4 DEF Busy
    <3> QED BY <3>1 DEF InSlots, InWindow, Gap
  <2> QED BY <2>2, <2>4 DEF BufferConsistent
<1> QED BY <1>1, RxInvariant, PTL

\* With such a window no buffered frame of the current session is forgotten,
\* and none that is ready is left at its start.
THEOREM NoFrameStuck == ASSUME Regular PROVE Spec => []NoStuckFrame
<1>1. RxInv => NoStuckFrame
  <2> SUFFICES ASSUME RxInv, cur # NoTid, rx.pc \in {"idle", "todo"} PROVE
         /\ tids[cur].stored_num > 0 =>
              \/ reorder.pending
              \/ reorder.running /\ reorder.expired_ref = reorder.ref_cnt
              \/ reorder.queued
         /\ \A k \in Slots : tids[cur].buf[k].sn = tids[cur].win_start =>
                               ~skw_is_release_ready(tids[cur].buf[k])
    BY DEF NoStuckFrame
  <2>1. Settled(tids[cur], reorder) /\ cur \in Refs
    BY DEF RxInv, Waiting, TypeOK
  <2>2. ASSUME tids[cur].stored_num > 0 PROVE Busy(tids[cur]) # {}
    <3>1. Counted(tids[cur])
      BY <2>1 DEF RxInv, Holds
    <3>2. Busy(tids[cur]) = {} => Cardinality(Busy(tids[cur])) = 0
      BY BusyCount
    <3> DEFINE c == Cardinality(Busy(tids[cur]))
               n == tids[cur].stored_num
    <3>3. n = c /\ n > 0
      BY <2>2, <3>1 DEF Counted
    <3> HIDE DEF c, n
    <3>4. c # 0
      BY <3>3
    <3> QED BY <3>2, <3>4 DEF c
  <2>3. reorder.running => reorder.expired_ref = reorder.ref_cnt
    BY DEF RxInv, TimerOk
  <2> QED BY <2>1, <2>2, <2>3 DEF Settled, HeadWaits, Armed
<1> QED BY <1>1, RxInvariant, PTL

\* With such a window nothing that was buffered is lost and nothing handed up
\* twice, in any step: by the RX thread, a stale to-do entry or the removal.
THEOREM FramesKept == ASSUME Regular PROVE Spec => FramesConserved
<1> DEFINE Goes(r, f) ==
             \/ \E g \in Held(tids'[r]) : g.sn = f.sn /\ f.got \subseteq g.got
             \/ Cardinality({i \in DOMAIN out' :
                               out'[i].sn = f.sn /\ f.got \subseteq out'[i].got}) = 1
           A == \A r \in Refs : \A f \in Held(tids[r]) : Goes(r, f)
<1>1. ASSUME RxInv, Fresh, Next, NEW r \in Refs, NEW f \in Held(tids[r]) PROVE Goes(r, f)
  <2>1. PICK k \in Busy(tids[r]) : f = tids[r].buf[k]
    BY DEF Held, Busy
  <2>2. Passed(tids[r], tids'[r], out')
    BY <1>1, EveryStep DEF GoodStep
  <2>3. CASE /\ k \in Busy(tids'[r]) /\ tids'[r].buf[k].sn = f.sn
             /\ f.got \subseteq tids'[r].buf[k].got
    <3>1. tids'[r].buf[k] \in Held(tids'[r])
      BY <2>3 DEF Held, Busy
    <3> QED BY <2>3, <3>1
  <2>4. CASE \E i \in DOMAIN out' :
               /\ out'[i].sn = f.sn /\ f.got \subseteq out'[i].got
               /\ \A j \in DOMAIN out' : out'[j].sn = f.sn => j = i
    <3>1. PICK i \in DOMAIN out' :
               /\ out'[i].sn = f.sn /\ f.got \subseteq out'[i].got
               /\ \A j \in DOMAIN out' : out'[j].sn = f.sn => j = i
      BY <2>4
    <3>2. {j \in DOMAIN out' : out'[j].sn = f.sn /\ f.got \subseteq out'[j].got} = {i}
      BY <3>1
    <3> QED BY <3>2, FS_Singleton
  <2> QED BY <2>1, <2>2, <2>3, <2>4 DEF Passed
<1>2. ASSUME RxInv, Fresh, Next PROVE A
  <2> HIDE DEF Goes
  <2> QED BY <1>1, <1>2
<1>3. RxInv /\ Fresh /\ [Next]_vars => [A]_vars
  <2> HIDE DEF A
  <2> QED BY <1>2
<1> QED BY <1>3, RxInvariant, FreshInvariant, PTL DEF Spec, FramesConserved

\* With such a window what one step hands up is in order, and the window of a
\* session only moves forward, whatever stale request is applied to it.
THEOREM OrderKept == ASSUME Regular PROVE Spec => ReleaseInOrder
<1> DEFINE A == /\ \E r \in Refs :
                     LET Dist(i) == (out'[i].sn - tids[r].win_start) % SnMod
                     IN  \A i, j \in DOMAIN out' :
                           i < j /\ Dist(i) # WinSize => Dist(i) < Dist(j)
                /\ \A r \in Refs : tids[r].live /\ tids'[r].live =>
                     \/ (tids'[r].win_start - tids[r].win_start) % SnMod = 0
                     \/ ieee80211_sn_less(tids[r].win_start, tids'[r].win_start)
<1>1. ASSUME RxInv, Fresh, Next PROVE A
  <2>1. GoodStep
    BY <1>1, EveryStep
  <2>2. PICK r \in Refs : Ordered(tids[r], out')
    BY <2>1 DEF GoodStep
  <2>3. \A i, j \in DOMAIN out' :
           i < j /\ (out'[i].sn - tids[r].win_start) % SnMod # WinSize =>
             (out'[i].sn - tids[r].win_start) % SnMod < (out'[j].sn - tids[r].win_start) % SnMod
    BY <2>2 DEF Ordered, Before, Gap
  <2>4. \A q \in Refs : tids[q].live /\ tids'[q].live =>
           \/ (tids'[q].win_start - tids[q].win_start) % SnMod = 0
           \/ ieee80211_sn_less(tids[q].win_start, tids'[q].win_start)
    BY <2>1 DEF GoodStep, Forward, Gap
  <2> QED BY <2>3, <2>4
<1>2. RxInv /\ Fresh /\ [Next]_vars => [A]_vars
  <2> HIDE DEF A
  <2> QED BY <1>1
<1> QED BY <1>2, RxInvariant, FreshInvariant, PTL DEF Spec, ReleaseInOrder
=============================================================================
