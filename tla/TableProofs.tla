----------------------------- MODULE TableProofs -----------------------------
(***************************************************************************)
(* Theorems about a table, for pictures and screens of any size and any    *)
(* piece count: its grid is the upload's, its pieces fit together and      *)
(* nowhere else, they are scattered off each other and off the frame, and  *)
(* the camera brings each of them into reach.                              *)
(***************************************************************************)
EXTENDS TableProps, SumLemmas

-----------------------------------------------------------------------------
(* The knob of a tab.                                                        *)

PercentNear(p, n) ==
  Percent(p, n) \in Int /\ 100 * Percent(p, n) <= p * n /\ 100 * Percent(p, n) >= p * n - 99

LEMMA PercentType == \A p, n \in Int : PercentNear(p, n)
<1> SUFFICES ASSUME NEW p \in Int, NEW n \in Int PROVE PercentNear(p, n)
  OBVIOUS
<1>1. ASSUME NEW k \in Int PROVE k \div 100 \in Int /\ 100 * (k \div 100) <= k /\ 100 * (k \div 100) >= k - 99
  OBVIOUS
<1> QED
  BY <1>1 DEF Percent, PercentNear

\* What holds, of the tab.
TabHolds(tab) ==
  LET k == Knob(tab)
      points == {k.shoulderL, k.shoulderR, k.crownL, k.crownR, k.apex}
  IN  /\ k.shoulderL.u <= k.neckL.u /\ k.neckL.u < k.neckR.u /\ k.neckR.u <= k.shoulderR.u
      /\ \A c \in points :
           LET room_ == IF tab.style = "legacy" THEN 1500 ELSE c.w + Margin
           IN  room_ <= c.u /\ c.u <= CellUnit - room_ /\ c.w <= MaxTabHeight

LEMMA LegacyHolds ==
  ASSUME NEW tab \in LegacyTabs
  PROVE  TabHolds(tab)
<1>1. /\ tab.style = "legacy" /\ tab.pos \in {-600, 600} /\ tab.size \in {-1000, 1000}
      /\ tab.tilt \in {-400, 400} /\ tab.asymmetry \in {-500, 500}
  BY DEF LegacyTabs
<1>2. Knob(tab) = BuildTabEdge(tab)
  BY <1>1 DEF Knob
<1> DEFINE h == 2800 + tab.size
<1>3. h \in {1800, 3800}
  BY <1>1
<1>4. Percent(20, h) \in {360, 760} /\ Percent(90, h) \in {1620, 3420}
  BY <1>3 DEF Percent
<1> HIDE DEF h
<1>5. Knob(tab) =
        LET tc == 5000 + tab.pos
            apex == tc + tab.tilt
            bwL == 2000 + tab.asymmetry
            bwR == 2000 - tab.asymmetry
        IN  [neckL |-> At(tc - 1100, 0), neckR |-> At(tc + 1100, 0),
             shoulderL |-> At(apex - bwL, Percent(20, h)), shoulderR |-> At(apex + bwR, Percent(20, h)),
             crownL |-> At(apex - bwL, Percent(90, h)), crownR |-> At(apex + bwR, Percent(90, h)),
             apex |-> At(apex, h)]
  BY <1>2 DEF BuildTabEdge, CellUnit, h
<1> QED
  BY <1>1, <1>3, <1>4, <1>5 DEF TabHolds, At, CellUnit, MaxTabHeight

\* Clipping a point into its corridor leaves it there, and moves it only if it
\* was outside.
Inside(c, u, w) ==
  /\ c.w = w /\ c.u \in Int
  /\ w + 150 <= c.u /\ c.u <= 10000 - w - 150
  /\ c.u <= u \/ c.u = w + 150
  /\ c.u >= u \/ c.u = 10000 - w - 150

LEMMA SafeInside == \A u, w \in Int : w <= 3800 => Inside(Safe(u, w), u, w)
BY DEF Inside, Safe, At, Margin, CellUnit, MaxTabHeight, Larger, Smaller

LEMMA NeckFits ==
  ASSUME NEW n \in Int, NEW centre \in Int, NEW left, NEW right, left.u \in Int, right.u \in Int,
         n > 0, left.u + 2 <= centre, centre + 2 <= right.u
  PROVE  LET m == NeckHalf(n, centre, left, right) IN
         m \in Int /\ m > 0 /\ left.u <= centre - m /\ centre + m <= right.u
<1>1. ASSUME NEW d \in Int, d >= 2 PROVE Percent(98, d) \in Int /\ 0 < Percent(98, d) /\ Percent(98, d) <= d
  BY <1>1 DEF Percent
<1> QED
  BY <1>1 DEF NeckHalf, Smaller

\* The tab of a "shape2:" seed, from its numbers.
LEMMA NumbersHold ==
  ASSUME NEW h \in Int, 1800 <= h, h <= 3800, NEW a \in Int, 1200 <= a, a <= 4900,
         NEW off \in Int, -9 <= off, off <= 9, NEW nape \in Int, 24 <= nape,
         NEW lean \in Int, -12 <= lean, lean <= 12, NEW slant \in Int, -12 <= slant, slant <= 12,
         NEW base \in Int, 12 <= base, base <= 42, NEW brow \in Int, 65 <= brow, brow <= 100,
         NEW tab,
         tab = [style |-> "varied", height |-> h, half |-> a, centre |-> off, neck |-> nape,
                lean |-> lean, skew |-> slant, shoulder |-> base, crown |-> brow]
  PROVE  TabHolds(tab)
<1> DEFINE k == Percent(slant, a)
           centre == 5000 + Percent(off, 10000 - a)
           apex == centre + Percent(lean, a)
           low == Percent(base, h)
           high == Percent(brow, h)
           n == Percent(nape, a)
           left == Safe(apex - a - k, low)
           right == Safe(apex + a - k, low)
           crownL == Safe(apex - a - k, high)
           crownR == Safe(apex + a - k, high)
           top == Safe(apex, h)
           m == NeckHalf(n, centre, left, right)
<1>k. Knob(tab) = [neckL |-> At(centre - m, 0), neckR |-> At(centre + m, 0),
                   shoulderL |-> left, shoulderR |-> right,
                   crownL |-> crownL, crownR |-> crownR, apex |-> top]
  BY DEF Knob, DrawTab, CellUnit
<1>0. /\ slant * a <= 12 * a /\ slant * a >= -12 * a
      /\ lean * a <= 12 * a /\ lean * a >= -12 * a
      /\ off * (10000 - a) <= 9 * (10000 - a) /\ off * (10000 - a) >= -9 * (10000 - a)
      /\ base * h <= 42 * h /\ base * h >= 12 * h
      /\ brow * h <= 100 * h /\ brow * h >= 65 * h
      /\ nape * a >= 24 * a
  <2>1. ASSUME NEW p \in Int, NEW q \in Int, NEW r \in Nat, p <= q PROVE p * r <= q * r
    <3>1. (q - p) * r >= 0
      BY <2>1
    <3> QED
      BY <3>1
  <2>2. 10000 - a \in Nat /\ a \in Nat /\ h \in Nat
    OBVIOUS
  <2> QED
    BY <2>1, <2>2
<1>1. PercentNear(slant, a) /\ PercentNear(lean, a) /\ PercentNear(nape, a)
  BY PercentType
<1>2. PercentNear(base, h) /\ PercentNear(brow, h)
  BY PercentType
<1>3. k \in Int /\ 100 * k <= 12 * a /\ 100 * k >= -12 * a - 99
  BY <1>0, <1>1 DEF PercentNear
<1>4. centre \in Int /\ 100 * (centre - 5000) <= 9 * (10000 - a) /\ 100 * (centre - 5000) >= -9 * (10000 - a) - 99
  <2>1. 10000 - a \in Int
    OBVIOUS
  <2>2. PercentNear(off, 10000 - a)
    BY <2>1, PercentType
  <2> QED
    BY <1>0, <2>2 DEF PercentNear
<1>5. apex \in Int /\ 100 * (apex - centre) <= 12 * a /\ 100 * (apex - centre) >= -12 * a - 99
  <2>1. Percent(lean, a) \in Int /\ 100 * Percent(lean, a) <= 12 * a /\ 100 * Percent(lean, a) >= -12 * a - 99
    BY <1>0, <1>1 DEF PercentNear
  <2> HIDE DEF centre
  <2> QED
    BY <1>4, <2>1
<1>6. low \in Int /\ 100 * low <= 42 * h /\ 100 * low >= 12 * h - 99
  BY <1>0, <1>2 DEF PercentNear
<1>7. high \in Int /\ 100 * high <= 100 * h /\ 100 * high >= 65 * h - 99
  BY <1>0, <1>2 DEF PercentNear
<1>8. n \in Int /\ 100 * n >= 24 * a - 99
  BY <1>0, <1>1 DEF PercentNear
<1> HIDE DEF k, centre, apex, low, high, n
<1>9. low >= 0 /\ low <= 1596 /\ high >= 0 /\ high <= 3800 /\ n > 0
  BY <1>6, <1>7, <1>8
<1>10. apex - a - k \in Int /\ apex + a - k \in Int
  BY <1>3, <1>5
<1>11. Inside(left, apex - a - k, low)
  <2>1. low \in Int /\ low <= 3800
    BY <1>6, <1>9
  <2> QED
    BY <1>10, <2>1, SafeInside
<1>12. Inside(right, apex + a - k, low)
  <2>1. low \in Int /\ low <= 3800
    BY <1>6, <1>9
  <2> QED
    BY <1>10, <2>1, SafeInside
<1>13. Inside(crownL, apex - a - k, high) /\ Inside(crownR, apex + a - k, high) /\ Inside(top, apex, h)
  BY <1>5, <1>7, <1>9, <1>10, SafeInside
<1> HIDE DEF left, right, crownL, crownR, top
<1>14. left.u + 2 <= centre /\ centre + 2 <= right.u
  BY <1>3, <1>4, <1>5, <1>6, <1>9, <1>11, <1>12 DEF Inside
<1>15. m \in Int /\ m > 0 /\ left.u <= centre - m /\ centre + m <= right.u
  BY <1>4, <1>8, <1>9, <1>11, <1>12, <1>14, NeckFits DEF Inside
<1> HIDE DEF m
<1>16. /\ Knob(tab).shoulderL = left /\ Knob(tab).shoulderR = right
       /\ Knob(tab).neckL.u = centre - m /\ Knob(tab).neckR.u = centre + m
       /\ Knob(tab).crownL = crownL /\ Knob(tab).crownR = crownR /\ Knob(tab).apex = top
  BY <1>k DEF At
<1>17. \A c \in {left, right, crownL, crownR, top} :
         c.w + 150 <= c.u /\ c.u <= 10000 - (c.w + 150) /\ c.w <= 3800
  <2>1. ASSUME NEW c, NEW u, NEW w \in Int, w <= 3800, Inside(c, u, w)
        PROVE  c.w + 150 <= c.u /\ c.u <= 10000 - (c.w + 150) /\ c.w <= 3800
    BY <2>1 DEF Inside
  <2>2. low <= 3800
    BY <1>6, <1>9
  <2> QED
    BY <1>6, <1>7, <1>9, <1>11, <1>12, <1>13, <2>1, <2>2
<1>18. centre - m < centre + m
  BY <1>4, <1>15
<1>19. tab.style # "legacy"
  OBVIOUS
<1> QED
  BY <1>15, <1>16, <1>17, <1>18, <1>19 DEF TabHolds, Margin, CellUnit, MaxTabHeight

LEMMA DrawnHolds ==
  ASSUME NEW tab \in DrawnTabs
  PROVE  TabHolds(tab)
<1>1. /\ tab.height \in 1800..3800 /\ tab.half \in 1200..4900
      /\ tab.centre \in -9..9 /\ tab.neck \in 24..62 /\ tab.lean \in -12..12 /\ tab.skew \in -12..12
      /\ tab.shoulder \in 12..42 /\ tab.crown \in 65..100
  BY DEF DrawnTabs
<1>3. tab = [style |-> "varied", height |-> tab.height, half |-> tab.half, centre |-> tab.centre,
                neck |-> tab.neck, lean |-> tab.lean, skew |-> tab.skew,
                shoulder |-> tab.shoulder, crown |-> tab.crown]
  BY DEF DrawnTabs
<1>4. tab.height \in Int /\ 1800 <= tab.height /\ tab.height <= 3800
  <2>1. PICK k \in 1800..3800 : k = tab.height
    BY <1>1
  <2>2. k \in Int /\ 1800 <= k /\ k <= 3800
    OBVIOUS
  <2> QED
    BY ONLY <2>1, <2>2
<1>5. tab.half \in Int /\ 1200 <= tab.half /\ tab.half <= 4900
  <2>1. PICK k \in 1200..4900 : k = tab.half
    BY <1>1
  <2>2. k \in Int /\ 1200 <= k /\ k <= 4900
    OBVIOUS
  <2> QED
    BY ONLY <2>1, <2>2
<1>6. /\ tab.centre \in Int /\ -9 <= tab.centre /\ tab.centre <= 9
      /\ tab.neck \in Int /\ 24 <= tab.neck
      /\ tab.lean \in Int /\ -12 <= tab.lean /\ tab.lean <= 12
      /\ tab.skew \in Int /\ -12 <= tab.skew /\ tab.skew <= 12
      /\ tab.shoulder \in Int /\ 12 <= tab.shoulder /\ tab.shoulder <= 42
      /\ tab.crown \in Int /\ 65 <= tab.crown /\ tab.crown <= 100
  BY <1>1
<1> QED
  BY <1>3, <1>4, <1>5, <1>6, NumbersHold

-----------------------------------------------------------------------------
(* The grid.                                                                 *)

Positive == Nat \ {0}

\* The square root is found.
LEMMA IdealRowsType ==
  ASSUME NEW t \in Positive, NEW w \in Positive, NEW h \in Positive
  PROVE  IdealRows(t, w, h) \in Nat
<1> DEFINE k == 4 * t * h
           T == {r \in Nat : (2 * r + 1) * (2 * r + 1) * w > k}
<1>1. t * h \in Nat /\ k \in Nat /\ k = 4 * (t * h) /\ w \in Nat /\ w >= 1
  BY DEF Positive
<1>2. t * h \in T
  <2> DEFINE m == t * h
  <2>1. m \in Nat
    BY <1>1
  <2>2. k = 4 * m
    BY <1>1
  <2> HIDE DEF m, k
  <2>3. (2 * m + 1) * (2 * m + 1) = 4 * (m * m) + 4 * m + 1
    BY <2>1
  <2>4. m * m \in Nat
    BY <2>1
  <2> DEFINE q == (2 * m + 1) * (2 * m + 1)
  <2>5. q \in Nat /\ q > k
    BY <2>1, <2>2, <2>3, <2>4
  <2> HIDE DEF q
  <2>6. q * w >= q
    <3>1. q * (w - 1) >= 0
      BY <1>1, <2>5
    <3> QED
      BY <1>1, <2>5, <3>1
  <2>7. q * w > k
    BY <1>1, <2>2, <2>1, <2>5, <2>6
  <2> QED
    BY <2>1, <2>7 DEF q, m
<1>3. PICK r \in T : \A n \in T : r <= n
  BY <1>2, NatMin
<1>4. r \in 0..(t * h)
  BY <1>1, <1>2, <1>3
<1>5. r = 0 \/ (2 * r - 1) * (2 * r - 1) * w <= k
  <2> SUFFICES ASSUME r # 0 PROVE (2 * r - 1) * (2 * r - 1) * w <= k
    OBVIOUS
  <2>1. r - 1 \in Nat /\ r - 1 \notin T
    BY <1>3
  <2>2. ~ ((2 * (r - 1) + 1) * (2 * (r - 1) + 1) * w > k)
    BY <2>1
  <2>3. 2 * (r - 1) + 1 = 2 * r - 1
    BY <1>3
  <2>4. ~ ((2 * r - 1) * (2 * r - 1) * w > k)
    BY <2>2, <2>3
  <2>5. (2 * r - 1) * (2 * r - 1) * w \in Int
    BY <1>1, <1>3
  <2> HIDE DEF k
  <2> QED
    BY <1>1, <2>4, <2>5
<1>6. (2 * r + 1) * (2 * r + 1) * w > k
  BY <1>3
<1>7. \E n \in 0..(t * h) : /\ (2 * n - 1) * (2 * n - 1) * w <= 4 * t * h \/ n = 0
                            /\ (2 * n + 1) * (2 * n + 1) * w > 4 * t * h
  BY <1>4, <1>5, <1>6
<1>8. IdealRows(t, w, h) \in 0..(t * h)
  BY <1>7 DEF IdealRows
<1> QED
  BY <1>1, <1>8

\* One term of LnRatio's series from the next.
Term(k, next, zz) ==
  LnUnit \div (2 * k + 1) + (IF k = LnTerms THEN 0 ELSE (next * zz) \div LnUnit)

LEMMA TermType ==
  ASSUME NEW zz \in Nat, NEW k \in 0..LnTerms, NEW next, k # LnTerms => next \in Nat
  PROVE  Term(k, next, zz) \in Nat
<1>0. LnUnit = 32000 /\ LnTerms = 12
  BY DEF LnUnit, LnTerms
<1>1. ASSUME NEW a \in Nat, NEW b \in Positive PROVE a \div b \in Nat
  BY <1>1 DEF Positive
<1>2. 2 * k + 1 \in Positive /\ LnUnit \in Positive /\ LnUnit \in Nat
  BY <1>0 DEF Positive
<1>3. LnUnit \div (2 * k + 1) \in Nat
  BY <1>1, <1>2
<1>4. k # LnTerms => (next * zz) \div LnUnit \in Nat
  <2> SUFFICES ASSUME next \in Nat PROVE (next * zz) \div LnUnit \in Nat
    OBVIOUS
  <2>1. next * zz \in Nat
    OBVIOUS
  <2> QED
    BY <1>1, <1>2, <2>1
<1> QED
  BY <1>3, <1>4 DEF Term

SeriesFrom(zz, m, f) ==
  \A k \in m..LnTerms : f[k] \in Nat /\ f[k] = Term(k, f[k + 1], zz)

\* The series can be summed: from its last term backwards.
LEMMA SeriesExists ==
  ASSUME NEW zz \in Nat
  PROVE  \E f : SeriesFrom(zz, 0, f)
<1>0. LnTerms \in Nat
  BY DEF LnTerms
<1> DEFINE B == {n \in 0..LnTerms : ~ \E f : SeriesFrom(zz, LnTerms - n, f)}
<1>1. ASSUME NEW n \in B PROVE \E m \in B : m < n
  <2>1. CASE n = 0
    <3> DEFINE f == [k \in 0..LnTerms |-> Term(LnTerms, 0, zz)]
    <3>1. Term(LnTerms, 0, zz) \in Nat /\ \A x : Term(LnTerms, x, zz) = Term(LnTerms, 0, zz)
      <4>1. \A x : Term(LnTerms, x, zz) = Term(LnTerms, 0, zz)
        BY DEF Term
      <4> QED
        BY <1>0, <4>1, TermType
    <3>2. SeriesFrom(zz, LnTerms, f)
      <4>1. LnTerms..LnTerms = {LnTerms} /\ LnTerms \in 0..LnTerms
        BY <1>0
      <4>2. f[LnTerms] = Term(LnTerms, f[LnTerms + 1], zz) /\ f[LnTerms] \in Nat
        BY <3>1, <4>1
      <4> QED
        BY <4>1, <4>2 DEF SeriesFrom
    <3>3. LnTerms - n = LnTerms
      BY <1>0, <2>1
    <3> QED
      BY <3>2, <3>3
  <2>2. CASE n # 0
    <3> DEFINE m == LnTerms - n
    <3>1. n - 1 \in 0..LnTerms /\ n - 1 < n /\ LnTerms - (n - 1) = m + 1 /\ m \in 0..LnTerms /\ m # LnTerms
          /\ m + 1 \in 0..LnTerms
      BY <1>0, <2>2
    <3> SUFFICES ASSUME n - 1 \notin B PROVE FALSE
      BY <3>1
    <3>2. PICK f : SeriesFrom(zz, m + 1, f)
      BY <3>1
    <3> HIDE DEF m
    <3>3. f[m + 1] \in Nat
      BY <1>0, <3>1, <3>2 DEF SeriesFrom
    <3> DEFINE g == [k \in 0..LnTerms |-> IF k = m THEN Term(m, f[m + 1], zz) ELSE f[k]]
    <3>4. Term(m, f[m + 1], zz) \in Nat
      BY <3>1, <3>3, TermType
    <3>5. ASSUME NEW k \in m..LnTerms PROVE g[k] \in Nat /\ g[k] = Term(k, g[k + 1], zz)
      <4>1. CASE k = m
        <5>1. g[m] = Term(m, f[m + 1], zz) /\ g[m + 1] = f[m + 1]
          BY <1>0, <3>1
        <5> QED
          BY <4>1, <5>1, <3>4
      <4>2. CASE k # m
        <5>1. k \in (m + 1)..LnTerms /\ k \in 0..LnTerms
          BY <1>0, <3>1, <4>2
        <5>2. g[k] = f[k]
          BY <4>2, <5>1
        <5>3. f[k] \in Nat /\ f[k] = Term(k, f[k + 1], zz)
          BY <3>2, <5>1 DEF SeriesFrom
        <5>4. CASE k = LnTerms
          BY <5>2, <5>3, <5>4 DEF Term
        <5>5. CASE k # LnTerms
          <6>1. k + 1 \in 0..LnTerms /\ k + 1 # m
            BY <1>0, <3>1, <5>1, <5>5
          <6>2. g[k + 1] = f[k + 1]
            BY <6>1
          <6> QED
            BY <5>2, <5>3, <6>2
        <5> QED
          BY <5>4, <5>5
      <4> QED
        BY <4>1, <4>2
    <3>6. SeriesFrom(zz, m, g)
      BY <3>5 DEF SeriesFrom
    <3> QED
      BY <3>6 DEF m
  <2> QED
    BY <2>1, <2>2
<1>2. B = {}
  <2>1. B \in SUBSET Nat
    BY <1>0
  <2> HIDE DEF B
  <2> QED
    BY <1>1, <2>1, Descent
<1>3. LnTerms \in 0..LnTerms /\ LnTerms - LnTerms = 0
  BY <1>0
<1> QED
  BY <1>2, <1>3

\* Whatever function solves the recursion, its first term is a natural number.
LEMMA SeriesType ==
  ASSUME NEW zz \in Nat, NEW f, \A k \in 0..LnTerms : f[k] = Term(k, f[k + 1], zz)
  PROVE  f[0] \in Nat
<1>0. LnTerms \in Nat
  BY DEF LnTerms
<1> DEFINE B == {n \in 0..LnTerms : f[LnTerms - n] \notin Nat}
<1>1. ASSUME NEW n \in B PROVE \E m \in B : m < n
  <2> DEFINE k == LnTerms - n
  <2>1. k \in 0..LnTerms /\ f[k] \notin Nat
    BY <1>0
  <2>2. f[k] = Term(k, f[k + 1], zz)
    BY <2>1
  <2>3. k # LnTerms /\ f[k + 1] \notin Nat
    BY <2>1, <2>2, TermType
  <2>4. n - 1 \in 0..LnTerms /\ LnTerms - (n - 1) = k + 1
    BY <1>0, <2>3
  <2> QED
    BY <1>0, <2>3, <2>4
<1>2. B = {}
  <2>1. B \in SUBSET Nat
    BY <1>0
  <2> HIDE DEF B
  <2> QED
    BY <1>1, <2>1, Descent
<1>3. LnTerms \in 0..LnTerms /\ LnTerms - LnTerms = 0
  BY <1>0
<1> QED
  BY <1>2, <1>3

LEMMA SeriesIsNat ==
  ASSUME NEW q \in Nat
  PROVE  Series(q) \in Nat
<1> DEFINE Solves(f) == f = [k \in 0..LnTerms |->
                               LnUnit \div (2 * k + 1) + (IF k = LnTerms THEN 0 ELSE (f[k + 1] * q) \div LnUnit)]
           f == CHOOSE f : Solves(f)
<1>1. \E e : Solves(e)
  <2>1. PICK h : SeriesFrom(q, 0, h)
    BY SeriesExists
  <2> DEFINE e == [k \in 0..LnTerms |-> h[k]]
  <2>2. \A k \in 0..LnTerms : k # LnTerms => k + 1 \in 0..LnTerms
    BY DEF LnTerms
  <2>3. \A k \in 0..LnTerms :
          h[k] = LnUnit \div (2 * k + 1) + (IF k = LnTerms THEN 0 ELSE (e[k + 1] * q) \div LnUnit)
    BY <2>1, <2>2 DEF SeriesFrom, Term
  <2> QED
    BY <2>3
<1>2. Solves(f)
  BY <1>1
<1>3. Series(q) = f[0]
  BY DEF Series
<1> HIDE DEF f
<1>4. \A k \in 0..LnTerms : f[k] = Term(k, f[k + 1], q)
  BY <1>2 DEF Term
<1> QED
  BY <1>3, <1>4, SeriesType

LEMMA LnRatioType ==
  ASSUME NEW a \in Positive, NEW b \in Positive
  PROVE  LnRatio(a, b) \in Nat
<1> DEFINE c == a + b
           d == Distance(a, b) * 200
           z == (d \div c) * (LnUnit \div 200) + ((d % c) * (LnUnit \div 200)) \div c
           q == (z * z) \div LnUnit
<1>0. ASSUME NEW n \in Nat, NEW m \in Positive PROVE n \div m \in Nat /\ n % m \in Nat
  BY <1>0 DEF Positive
<1>1. c \in Positive /\ d \in Nat
  BY DEF Positive, Distance, Larger, Smaller
<1>2. LnUnit \div 200 = 160 /\ LnUnit \div 2 = 16000 /\ LnUnit \in Positive /\ 16000 \in Positive
  BY DEF LnUnit, Positive
<1> HIDE DEF c, d
<1>3. z \in Nat
  <2>1. d \div c \in Nat /\ d % c \in Nat
    BY <1>0, <1>1
  <2>2. (d % c) * 160 \in Nat
    BY <2>1
  <2>3. ((d % c) * 160) \div c \in Nat
    BY <1>0, <1>1, <2>2
  <2> QED
    BY <1>2, <2>1, <2>3
<1>4. LnRatio(a, b) = (z * Series(q)) \div 16000
  BY <1>2 DEF LnRatio, c, d
<1> HIDE DEF z
<1>5. z * z \in Nat
  BY <1>3
<1>6. q \in Nat
  BY <1>0, <1>2, <1>5
<1> HIDE DEF q
<1>7. Series(q) \in Nat
  BY <1>6, SeriesIsNat
<1>8. z * Series(q) \in Nat
  BY <1>3, <1>7
<1> QED
  BY <1>0, <1>2, <1>4, <1>8

LEMMA CandidatesType ==
  ASSUME NEW t \in Positive, NEW w \in Positive, NEW h \in Positive
  PROVE  Candidates(t, w, h) # {} /\ Candidates(t, w, h) \subseteq Grids
<1>1. ASSUME NEW x \in Nat, NEW d \in Positive PROVE Near(x, d) # {} /\ Near(x, d) \subseteq Positive
  <2>1. Near(x, d) \subseteq Positive
    BY DEF Near, Positive
  <2>2. CASE x >= 1
    <3>1. x \in Near(x, d)
      BY <2>2 DEF Near, Positive
    <3> QED
      BY <2>1, <3>1
  <2>3. CASE x = 0
    <3>1. 1 \in Near(x, d)
      BY <2>3 DEF Near, Positive
    <3> QED
      BY <2>1, <3>1
  <2> QED
    BY <2>2, <2>3, <2>1
<1>2. ASSUME NEW r \in Positive PROVE Rounded(t, r) \in Nat
  <2>1. 2 * t + r \in Nat /\ 2 * r \in Positive
    BY DEF Positive
  <2>2. ASSUME NEW n \in Nat, NEW m \in Positive PROVE n \div m \in Nat
    BY DEF Positive
  <2> QED
    BY <2>1, <2>2 DEF Rounded
<1> DEFINE rows == Near(IdealRows(t, w, h), 3)
<1>3. rows # {} /\ rows \subseteq Positive
  <2>1. 3 \in Positive
    BY DEF Positive
  <2> QED
    BY <1>1, <2>1, IdealRowsType
<1>4. \A r \in rows : Near(Rounded(t, r), 1) # {} /\ Near(Rounded(t, r), 1) \subseteq Positive
  <2>1. 1 \in Positive
    BY DEF Positive
  <2> QED
    BY <1>1, <1>2, <1>3, <2>1
<1>5. Candidates(t, w, h) = UNION {{[rows |-> r, cols |-> c] : c \in Near(Rounded(t, r), 1)} : r \in rows}
  BY DEF Candidates
<1> HIDE DEF rows
<1>6. Candidates(t, w, h) # {}
  <2>1. PICK r \in rows : TRUE
    BY <1>3
  <2>2. PICK c \in Near(Rounded(t, r), 1) : TRUE
    BY <1>4
  <2>3. [rows |-> r, cols |-> c] \in Candidates(t, w, h)
    BY <1>5
  <2> QED
    BY <2>3
<1>7. ASSUME NEW g \in Candidates(t, w, h) PROVE g \in Grids
  <2>1. PICK r \in rows : \E c \in Near(Rounded(t, r), 1) : g = [rows |-> r, cols |-> c]
    BY <1>5
  <2> QED
    BY <1>3, <1>4, <2>1 DEF Grids, Positive
<1> QED
  BY <1>6, <1>7

LEMMA CostType ==
  ASSUME NEW t \in Positive, NEW w \in Positive, NEW h \in Positive, NEW g \in Grids
  PROVE  Cost(g, t, w, h) \in Nat
<1>1. g.rows \in Positive /\ g.cols \in Positive
  BY DEF Grids, Positive
<1>2. ASSUME NEW a \in Positive, NEW b \in Positive PROVE a * b \in Positive
  BY <1>2 DEF Positive
<1>3. SquarenessErr(g, w, h) \in Nat
  BY <1>1, <1>2, LnRatioType DEF SquarenessErr
<1>4. CountErr(g, t) \in Nat
  <2>1. ASSUME NEW a \in Positive, NEW b \in Positive PROVE Distance(a, b) * LnUnit \in Nat
    BY DEF Distance, Larger, Smaller, LnUnit, Positive
  <2>2. Distance(g.rows * g.cols, t) * LnUnit \in Nat
    BY <1>1, <1>2, <2>1
  <2>3. ASSUME NEW n \in Nat, NEW m \in Positive PROVE n \div m \in Nat
    BY DEF Positive
  <2> QED
    BY <2>2, <2>3 DEF CountErr
<1> QED
  BY <1>3, <1>4 DEF Cost

\* Of grids, one comes first.
LEMMA FirstGrid ==
  ASSUME NEW S \in SUBSET Grids, S # {}
  PROVE  \E g \in S : \A o \in S : g.rows < o.rows \/ (g.rows = o.rows /\ g.cols <= o.cols)
<1>1. \A g \in S : g.rows \in Nat /\ g.cols \in Nat
  BY DEF Grids
<1> DEFINE R == {g.rows : g \in S}
<1>2. PICK r \in R : \A n \in R : r <= n
  <2>1. R \in SUBSET Nat /\ R # {}
    BY <1>1
  <2> HIDE DEF R
  <2> QED
    BY <2>1, NatMin
<1> DEFINE C == {g.cols : g \in {g \in S : g.rows = r}}
<1>3. PICK c \in C : \A n \in C : c <= n
  <2>1. C \in SUBSET Nat /\ C # {}
    BY <1>1, <1>2
  <2> HIDE DEF C
  <2> QED
    BY <2>1, NatMin
<1>4. PICK g \in S : g.rows = r /\ g.cols = c
  BY <1>3
<1>5. ASSUME NEW o \in S PROVE g.rows < o.rows \/ (g.rows = o.rows /\ g.cols <= o.cols)
  <2>1. r <= o.rows
    BY <1>2
  <2>2. o.rows = r => c <= o.cols
    BY <1>3
  <2> QED
    BY <1>1, <1>4, <2>1, <2>2
<1> QED
  BY <1>5

\* deriveGrid finds a grid.
LEMMA DeriveGridType ==
  ASSUME NEW t \in Positive, NEW w \in Positive, NEW h \in Positive
  PROVE  DeriveGrid(t, w, h) \in Grids
<1> DEFINE all == Candidates(t, w, h)
           cost == [g \in all |-> Cost(g, t, w, h)]
           cheapest == {g \in all : \A o \in all : cost[g] <= cost[o]}
           K == {cost[g] : g \in all}
<1>1. all # {} /\ all \subseteq Grids
  BY CandidatesType
<1>2. \A g \in all : cost[g] \in Nat
  BY <1>1, CostType
<1> HIDE DEF all
<1>3. PICK k \in K : \A n \in K : k <= n
  <2>1. K \in SUBSET Nat /\ K # {}
    BY <1>1, <1>2
  <2> HIDE DEF K
  <2> QED
    BY <2>1, NatMin
<1>4. cheapest # {} /\ cheapest \subseteq Grids
  BY <1>1, <1>3
<1>5. DeriveGrid(t, w, h) = CHOOSE g \in cheapest :
        \A o \in cheapest : g.rows < o.rows \/ (g.rows = o.rows /\ g.cols <= o.cols)
  BY DEF DeriveGrid, all
<1> HIDE DEF cheapest
<1>6. DeriveGrid(t, w, h) \in cheapest
  BY <1>4, <1>5, FirstGrid
<1> QED
  BY <1>4, <1>6

-----------------------------------------------------------------------------
(* Neighbours.                                                               *)

Divides(n, d, q, r) == n = q * d + r /\ r >= 0 /\ r < d

LEMMA Division ==
  ASSUME NEW n \in Nat, NEW d \in Positive
  PROVE  n \div d \in Nat /\ n % d \in Nat /\ Divides(n, d, n \div d, n % d)
<1>1. d \in Nat /\ d > 0
  BY DEF Positive
<1>2. n \div d \in Nat /\ n % d \in Nat /\ n % d < d
  BY <1>1
<1>3. n = d * (n \div d) + (n % d)
  BY <1>1
<1> QED
  BY <1>1, <1>2, <1>3 DEF Divides

LEMMA DivisionUnique ==
  ASSUME NEW n \in Nat, NEW d \in Positive, NEW q \in Int, NEW r \in Int, Divides(n, d, q, r)
  PROVE  n \div d = q /\ n % d = r
<1>1. d \in Nat /\ d > 0
  BY DEF Positive
<1>2. PICK a \in Nat, b \in Nat : a = n \div d /\ b = n % d /\ Divides(n, d, a, b)
  BY Division
<1>3. q * d + r = a * d + b /\ r >= 0 /\ r < d /\ b < d
  BY <1>2 DEF Divides
<1>4. q = a
  <2>1. ASSUME q > a PROVE FALSE
    <3>1. (q - a - 1) * d >= 0
      BY <1>1, <2>1
    <3>2. (q - a - 1) * d = q * d - a * d - d
      BY <1>1
    <3> QED
      BY <1>1, <1>3, <3>1, <3>2
  <2>2. ASSUME q < a PROVE FALSE
    <3>1. (a - q - 1) * d >= 0
      BY <1>1, <2>2
    <3>2. (a - q - 1) * d = a * d - q * d - d
      BY <1>1
    <3> QED
      BY <1>1, <1>3, <3>1, <3>2
  <2> QED
    BY <2>1, <2>2
<1>5. r = b
  BY <1>1, <1>3, <1>4
<1> QED
  BY <1>2, <1>4, <1>5

\* Where a piece lies, and that every place in the grid is a piece's.
Placed(g, p) ==
  /\ RowOf(g, p) \in Nat /\ RowOf(g, p) < g.rows
  /\ ColOf(g, p) \in Nat /\ ColOf(g, p) < g.cols
  /\ p = RowOf(g, p) * g.cols + ColOf(g, p)

LEMMA PiecePlaced ==
  ASSUME NEW g \in Grids
  PROVE  /\ \A p \in PieceIds(g) : p \in Nat /\ Placed(g, p)
         /\ \A r \in Nat, c \in Nat : r < g.rows /\ c < g.cols =>
              /\ r * g.cols + c \in PieceIds(g)
              /\ RowOf(g, r * g.cols + c) = r /\ ColOf(g, r * g.cols + c) = c
<1> DEFINE R == g.rows
           C == g.cols
<1>1. R \in Nat /\ R > 0 /\ C \in Nat /\ C > 0 /\ C \in Positive
  BY DEF Grids, Positive
<1>2. PieceIds(g) = 0..(R * C - 1) /\ R * C \in Nat
  BY <1>1 DEF PieceIds
<1>3. \A p : RowOf(g, p) = p \div C /\ ColOf(g, p) = p % C
  BY DEF RowOf, ColOf
<1> HIDE DEF R, C
<1>4. ASSUME NEW p \in PieceIds(g) PROVE p \in Nat /\ Placed(g, p)
  <2>1. p \in Nat /\ p < R * C
    BY <1>1, <1>2, <1>4
  <2>2. PICK a \in Nat, b \in Nat : a = RowOf(g, p) /\ b = ColOf(g, p) /\ Divides(p, C, a, b)
    BY <1>1, <1>3, <2>1, Division
  <2>3. p = a * C + b /\ b < C
    BY <2>2 DEF Divides
  <2>4. a < R
    <3> SUFFICES ASSUME a >= R PROVE FALSE
      BY <1>1
    <3>1. (a - R) * C >= 0
      BY <1>1
    <3>2. (a - R) * C = a * C - R * C
      BY <1>1
    <3> QED
      BY <1>1, <1>2, <2>1, <2>3, <3>1, <3>2
  <2> QED
    BY <2>1, <2>2, <2>3, <2>4 DEF Placed, R, C
<1>5. ASSUME NEW r \in Nat, NEW c \in Nat, r < R, c < C
      PROVE  r * C + c \in PieceIds(g) /\ RowOf(g, r * C + c) = r /\ ColOf(g, r * C + c) = c
  <2>1. r * C + c \in Nat /\ Divides(r * C + c, C, r, c)
    BY <1>1, <1>5 DEF Divides
  <2>2. r * C + c < R * C
    <3>1. (R - r - 1) * C >= 0
      BY <1>1, <1>5
    <3>2. (R - r - 1) * C = R * C - r * C - C
      BY <1>1
    <3> QED
      BY <1>1, <1>2, <1>5, <3>1, <3>2
  <2>3. r * C + c \in PieceIds(g)
    BY <1>2, <2>1, <2>2
  <2> DEFINE n == r * C + c
  <2> HIDE DEF n
  <2>4. n \in Nat /\ Divides(n, C, r, c) /\ r \in Int /\ c \in Int
    BY <2>1 DEF n
  <2>5. n \div C = r /\ n % C = c
    BY <1>1, <2>4, DivisionUnique
  <2> QED
    BY <1>3, <2>3, <2>5 DEF n
<1> QED
  BY <1>4, <1>5 DEF R, C

Own == {"right", "bottom"}

\* The neighbour across a side has this piece across the facing side; it is a
\* later one across a piece's own sides, an earlier one across the others.
LEMMA Across ==
  ASSUME NEW g \in Grids, NEW p \in PieceIds(g), NEW s \in SideSet, ~AtBorder(g, p, s)
  PROVE  LET q == NeighborOf(g, p, s) IN
         /\ q \in PieceIds(g) /\ Facing[s] \in SideSet
         /\ ~AtBorder(g, q, Facing[s])
         /\ NeighborOf(g, q, Facing[s]) = p
         /\ s \in Own => q > p /\ Facing[s] \notin Own
         /\ s \notin Own => q < p /\ Facing[s] \in Own
<1> DEFINE R == g.rows
           C == g.cols
           r == RowOf(g, p)
           c == ColOf(g, p)
<1>1. R \in Nat /\ R > 0 /\ C \in Nat /\ C > 0
  BY DEF Grids
<1>2. /\ p \in Nat /\ r \in Nat /\ c \in Nat /\ r < R /\ c < C /\ p = r * C + c
  BY PiecePlaced DEF Placed
<1>3. ASSUME NEW a \in Nat, NEW b \in Nat, a < R, b < C, NEW q, q = a * C + b
      PROVE  q \in PieceIds(g) /\ RowOf(g, q) = a /\ ColOf(g, q) = b
  BY <1>3, PiecePlaced
<1>4. /\ Facing["top"] = "bottom" /\ Facing["bottom"] = "top"
      /\ Facing["left"] = "right" /\ Facing["right"] = "left"
  BY DEF Facing
<1>5. \A x : /\ NeighborOf(g, x, "top") = x - C /\ NeighborOf(g, x, "bottom") = x + C
             /\ NeighborOf(g, x, "left") = x - 1 /\ NeighborOf(g, x, "right") = x + 1
  BY DEF NeighborOf
<1>6. \A x : /\ AtBorder(g, x, "top") <=> RowOf(g, x) = 0
             /\ AtBorder(g, x, "bottom") <=> RowOf(g, x) = R - 1
             /\ AtBorder(g, x, "left") <=> ColOf(g, x) = 0
             /\ AtBorder(g, x, "right") <=> ColOf(g, x) = C - 1
  BY DEF AtBorder
<1> HIDE DEF R, C, r, c
<1>7. CASE s = "top"
  <2>1. r # 0
    BY <1>6, <1>7 DEF r
  <2>2. r - 1 \in Nat /\ r - 1 < R
    BY <1>1, <1>2, <2>1
  <2>3. p - C = (r - 1) * C + c
    BY <1>1, <1>2
  <2>4. p - C \in PieceIds(g) /\ RowOf(g, p - C) = r - 1
    BY <1>2, <1>3, <2>2, <2>3
  <2>5. r - 1 # R - 1 /\ p - C + C = p /\ p - C < p
    BY <1>1, <1>2
  <2> QED
    BY <1>4, <1>5, <1>6, <1>7, <2>4, <2>5 DEF SideSet, Own
<1>8. CASE s = "bottom"
  <2>1. r # R - 1
    BY <1>6, <1>8 DEF r
  <2>2. r + 1 \in Nat /\ r + 1 < R
    BY <1>1, <1>2, <2>1
  <2>3. p + C = (r + 1) * C + c
    BY <1>1, <1>2
  <2>4. p + C \in PieceIds(g) /\ RowOf(g, p + C) = r + 1
    BY <1>2, <1>3, <2>2, <2>3
  <2>5. r + 1 # 0 /\ p + C - C = p /\ p + C > p
    BY <1>1, <1>2
  <2> DEFINE q == NeighborOf(g, p, s)
  <2>6. q = p + C /\ Facing[s] = "top"
    BY <1>4, <1>5, <1>8
  <2> HIDE DEF q
  <2>7. NeighborOf(g, q, "top") = p
    <3>1. q - C = p
      BY <1>1, <1>2, <2>6
    <3> QED
      BY <1>5, <3>1, Zenon
  <2>8. q \in PieceIds(g) /\ ~AtBorder(g, q, "top") /\ q > p
    BY <1>6, <2>4, <2>5, <2>6
  <2> QED
    BY <1>8, <2>6, <2>7, <2>8 DEF SideSet, Own, q
<1>9. CASE s = "left"
  <2>1. c # 0
    BY <1>6, <1>9 DEF c
  <2>2. c - 1 \in Nat /\ c - 1 < C
    BY <1>1, <1>2, <2>1
  <2>3. p - 1 = r * C + (c - 1)
    BY <1>1, <1>2
  <2>4. p - 1 \in PieceIds(g) /\ ColOf(g, p - 1) = c - 1
    BY <1>2, <1>3, <2>2, <2>3
  <2>5. c - 1 # C - 1 /\ p - 1 + 1 = p /\ p - 1 < p
    BY <1>1, <1>2
  <2> QED
    BY <1>4, <1>5, <1>6, <1>9, <2>4, <2>5 DEF SideSet, Own
<1>10. CASE s = "right"
  <2>1. c # C - 1
    BY <1>6, <1>10 DEF c
  <2>2. c + 1 \in Nat /\ c + 1 < C
    BY <1>1, <1>2, <2>1
  <2>3. p + 1 = r * C + (c + 1)
    BY <1>1, <1>2
  <2>4. p + 1 \in PieceIds(g) /\ ColOf(g, p + 1) = c + 1
    BY <1>2, <1>3, <2>2, <2>3
  <2>5. c + 1 # 0 /\ p + 1 - 1 = p /\ p + 1 > p
    BY <1>1, <1>2
  <2> DEFINE q == NeighborOf(g, p, s)
  <2>6. q = p + 1 /\ Facing[s] = "left"
    BY <1>4, <1>5, <1>10
  <2> HIDE DEF q
  <2>7. NeighborOf(g, q, "left") = p
    <3>1. q - 1 = p
      BY <1>1, <1>2, <2>6
    <3> QED
      BY <1>5, <3>1, Zenon
  <2>8. q \in PieceIds(g) /\ ~AtBorder(g, q, "left") /\ q > p
    BY <1>6, <2>4, <2>5, <2>6
  <2> QED
    BY <1>10, <2>6, <2>7, <2>8 DEF SideSet, Own, q
<1> QED
  BY <1>7, <1>8, <1>9, <1>10 DEF SideSet

-----------------------------------------------------------------------------
(* The edges of a cut.                                                       *)

AllTabs == LegacyTabs \cup DrawnTabs

\* Every piece has its four edges: flat at the border, tab or blank inside.
IsEdge(g, p, s, e) ==
  IF AtBorder(g, p, s) THEN e = FlatEdge
  ELSE e = [kind |-> e.kind, tab |-> e.tab] /\ e.kind \in {"tab", "blank"} /\ e.tab \in AllTabs

Shaped(g, E) ==
  /\ E = [p \in PieceIds(g) |-> E[p]]
  /\ \A p \in PieceIds(g) :
       /\ E[p] = [s \in SideSet |-> E[p][s]]
       /\ \A s \in SideSet : IsEdge(g, p, s, E[p][s])

\* A piece's own edges are the neighbours', from the other side ...
Opposed(g, E) ==
  \A p \in PieceIds(g), s \in Own : ~AtBorder(g, p, s) =>
    {E[p][s].kind, E[NeighborOf(g, p, s)][Facing[s]].kind} = {"tab", "blank"}

\* ... and the same curve.
Matched(g, E, p) ==
  \A s \in Own : ~AtBorder(g, p, s) => E[p][s].tab = E[NeighborOf(g, p, s)][Facing[s]].tab

LEMMA OwnSides == Own \subseteq SideSet /\ \A s \in SideSet : Facing[s] \in SideSet /\ Facing[Facing[s]] = s
BY DEF Own, SideSet, Facing

LEMMA VariedAreDrawn == VariedTabs \subseteq DrawnTabs
BY DEF VariedTabs, DrawnTabs

\* generatePuzzle: two pieces that share an edge see it from its two sides.
LEMMA PuzzleGenerated ==
  ASSUME NEW g \in Grids, NEW sign \in [SharedEdges(g) -> {-1, 1}], NEW tab \in [SharedEdges(g) -> AllTabs]
  PROVE  LET E == GeneratePuzzle(g, sign, tab) IN
         Shaped(g, E) /\ Opposed(g, E) /\ \A p \in PieceIds(g) : Matched(g, E, p)
<1> DEFINE E == GeneratePuzzle(g, sign, tab)
<1>1. /\ E = [p \in PieceIds(g) |-> E[p]]
      /\ \A p \in PieceIds(g) : E[p] = [s \in SideSet |-> E[p][s]]
      /\ \A p \in PieceIds(g), s \in SideSet :
           E[p][s] = IF AtBorder(g, p, s) THEN FlatEdge
                     ELSE DescriptorFor(s, sign[SharedEdge(g, p, s)], tab[SharedEdge(g, p, s)])
  BY DEF GeneratePuzzle
<1> HIDE DEF E
<1>2. ASSUME NEW p \in PieceIds(g), NEW s \in Own, ~AtBorder(g, p, s)
      PROVE  /\ <<p, s>> \in SharedEdges(g)
             /\ SharedEdge(g, p, s) = <<p, s>>
             /\ SharedEdge(g, NeighborOf(g, p, s), Facing[s]) = <<p, s>>
  <2>1. <<p, s>> \in SharedEdges(g) /\ SharedEdge(g, p, s) = <<p, s>>
    BY <1>2 DEF SharedEdges, SharedEdge, Own
  <2>2. NeighborOf(g, NeighborOf(g, p, s), Facing[s]) = p /\ Facing[s] \notin Own /\ Facing[Facing[s]] = s
    BY <1>2, Across, OwnSides
  <2> QED
    BY <2>1, <2>2 DEF SharedEdge, Own
<1>3. ASSUME NEW p \in PieceIds(g), NEW s \in SideSet, ~AtBorder(g, p, s)
      PROVE  SharedEdge(g, p, s) \in SharedEdges(g)
  <2>1. CASE s \in Own
    BY <1>2, <1>3, <2>1
  <2>2. CASE s \notin Own
    <3> DEFINE q == NeighborOf(g, p, s)
    <3>1. /\ q \in PieceIds(g) /\ Facing[s] \in Own /\ ~AtBorder(g, q, Facing[s])
          /\ NeighborOf(g, q, Facing[s]) = p /\ Facing[Facing[s]] = s
      BY <1>3, <2>2, Across, OwnSides
    <3> QED
      BY <1>2, <3>1
  <2> QED
    BY <2>1, <2>2
<1>4. ASSUME NEW s, NEW n, NEW t
      PROVE  /\ DescriptorFor(s, n, t) = [kind |-> DescriptorFor(s, n, t).kind, tab |-> DescriptorFor(s, n, t).tab]
             /\ DescriptorFor(s, n, t).kind \in {"tab", "blank"} /\ DescriptorFor(s, n, t).tab = t
             /\ DescriptorFor(s, n, t).kind = "tab" <=> ((n > 0) = (s \in Own))
  BY DEF DescriptorFor, Own
<1>5. Shaped(g, E)
  <2>1. ASSUME NEW p \in PieceIds(g), NEW s \in SideSet PROVE IsEdge(g, p, s, E[p][s])
    BY <1>1, <1>3, <1>4 DEF IsEdge
  <2> QED
    BY <1>1, <2>1 DEF Shaped
<1>6. ASSUME NEW p \in PieceIds(g), NEW s \in Own, ~AtBorder(g, p, s)
      PROVE  /\ {E[p][s].kind, E[NeighborOf(g, p, s)][Facing[s]].kind} = {"tab", "blank"}
             /\ E[p][s].tab = E[NeighborOf(g, p, s)][Facing[s]].tab
  <2> DEFINE q == NeighborOf(g, p, s)
             n == sign[<<p, s>>]
             t == tab[<<p, s>>]
  <2>e. SharedEdge(g, p, s) = <<p, s>> /\ SharedEdge(g, q, Facing[s]) = <<p, s>>
    BY <1>2, <1>6
  <2>1. E[p][s] = DescriptorFor(s, n, t)
    <3>1. s \in SideSet
      BY OwnSides
    <3>2. E[p][s] = DescriptorFor(s, sign[SharedEdge(g, p, s)], tab[SharedEdge(g, p, s)])
      BY <1>1, <1>6, <3>1
    <3> QED
      BY <2>e, <3>2
  <2>2. q \in PieceIds(g) /\ Facing[s] \in SideSet /\ ~AtBorder(g, q, Facing[s]) /\ Facing[s] \notin Own
    BY <1>6, Across, OwnSides
  <2>3. E[q][Facing[s]] = DescriptorFor(Facing[s], n, t)
    <3>1. E[q][Facing[s]] = DescriptorFor(Facing[s], sign[SharedEdge(g, q, Facing[s])], tab[SharedEdge(g, q, Facing[s])])
      BY <1>1, <2>2
    <3> QED
      BY <2>e, <3>1
  <2> HIDE DEF q, n, t
  <2>4. DescriptorFor(s, n, t).kind = "tab" <=> DescriptorFor(Facing[s], n, t).kind # "tab"
    BY <1>4, <2>2
  <2>5. /\ DescriptorFor(s, n, t).kind \in {"tab", "blank"} /\ DescriptorFor(Facing[s], n, t).kind \in {"tab", "blank"}
        /\ DescriptorFor(s, n, t).tab = t /\ DescriptorFor(Facing[s], n, t).tab = t
    BY <1>4
  <2> QED
    BY <2>1, <2>3, <2>4, <2>5 DEF q
<1> QED
  BY <1>5, <1>6 DEF Opposed, Matched, E

-----------------------------------------------------------------------------
(* Edges drawn again.                                                        *)

\* Some edges inside get another curve.
Retabbed(g, E, F) ==
  /\ F = [p \in PieceIds(g) |-> F[p]]
  /\ \A p \in PieceIds(g) :
       /\ F[p] = [s \in SideSet |-> F[p][s]]
       /\ \A s \in SideSet :
            \/ F[p][s] = E[p][s]
            \/ ~AtBorder(g, p, s) /\ \E t \in AllTabs : F[p][s] = [kind |-> E[p][s].kind, tab |-> t]

LEMMA RetabbedKeeps ==
  ASSUME NEW g \in Grids, NEW E, NEW F, Shaped(g, E), Retabbed(g, E, F)
  PROVE  /\ Shaped(g, F) /\ (Opposed(g, E) => Opposed(g, F))
         /\ \A p \in PieceIds(g), s \in SideSet : F[p][s].kind = E[p][s].kind
<1>1. ASSUME NEW p \in PieceIds(g), NEW s \in SideSet
      PROVE  IsEdge(g, p, s, F[p][s]) /\ F[p][s].kind = E[p][s].kind
  <2>1. IsEdge(g, p, s, E[p][s])
    BY DEF Shaped
  <2>2. CASE F[p][s] = E[p][s]
    BY <2>1, <2>2
  <2>3. CASE ~AtBorder(g, p, s) /\ \E t \in AllTabs : F[p][s] = [kind |-> E[p][s].kind, tab |-> t]
    BY <2>1, <2>3 DEF IsEdge
  <2> QED
    BY <2>2, <2>3 DEF Retabbed
<1>2. Shaped(g, F)
  BY <1>1 DEF Shaped, Retabbed
<1>3. ASSUME Opposed(g, E) PROVE Opposed(g, F)
  <2> SUFFICES ASSUME NEW p \in PieceIds(g), NEW s \in Own, ~AtBorder(g, p, s)
               PROVE  {F[p][s].kind, F[NeighborOf(g, p, s)][Facing[s]].kind} = {"tab", "blank"}
    BY DEF Opposed
  <2>1. {E[p][s].kind, E[NeighborOf(g, p, s)][Facing[s]].kind} = {"tab", "blank"}
    BY <1>3 DEF Opposed
  <2>2. s \in SideSet /\ Facing[s] \in SideSet /\ NeighborOf(g, p, s) \in PieceIds(g)
    BY Across, OwnSides
  <2> QED
    BY <1>1, <2>1, <2>2
<1> QED
  BY <1>1, <1>2, <1>3

\* The edges a piece may still choose are those of its own that are not flat.
LEMMA MutableAre ==
  ASSUME NEW g \in Grids, NEW E, Shaped(g, E), NEW p \in PieceIds(g)
  PROVE  MutableSides(E[p]) = {s \in Own : ~AtBorder(g, p, s)}
<1>1. ASSUME NEW s \in Own PROVE E[p][s].kind # "flat" <=> ~AtBorder(g, p, s)
  <2>1. IsEdge(g, p, s, E[p][s])
    BY OwnSides DEF Shaped
  <2> QED
    BY <2>1 DEF IsEdge, FlatEdge
<1> QED
  BY <1>1 DEF MutableSides, Own

\* Drawing them again changes their curves only; a drawing is replaced by the next.
DrawnOver(piece, tabs, d) ==
  /\ d = [s \in SideSet |-> d[s]]
  /\ \A s \in MutableSides(piece) : d[s] = [kind |-> piece[s].kind, tab |-> tabs[s]]
  /\ \A s \in SideSet \ MutableSides(piece) : d[s] = piece[s]
  /\ MutableSides(d) = MutableSides(piece)
  /\ \A others \in [MutableSides(piece) -> AllTabs] : Redrawn(d, others) = Redrawn(piece, others)

LEMMA RedrawnSides ==
  ASSUME NEW g \in Grids, NEW E, Shaped(g, E), NEW p \in PieceIds(g),
         NEW tabs \in [MutableSides(E[p]) -> AllTabs]
  PROVE  DrawnOver(E[p], tabs, Redrawn(E[p], tabs))
<1> DEFINE M == MutableSides(E[p])
<1>1. /\ M \subseteq SideSet /\ M \subseteq Own
      /\ \A s \in M : E[p][s] = [kind |-> E[p][s].kind, tab |-> E[p][s].tab] /\ E[p][s].kind # "flat"
  <2>1. M = {s \in Own : ~AtBorder(g, p, s)}
    BY MutableAre
  <2>2. \A s \in SideSet : IsEdge(g, p, s, E[p][s])
    BY DEF Shaped
  <2> QED
    BY <2>1, <2>2, OwnSides DEF IsEdge
<1>2. ASSUME NEW piece, NEW o \in [M -> AllTabs],
             \A s \in M : piece[s] = [kind |-> piece[s].kind, tab |-> piece[s].tab]
      PROVE  /\ Redrawn(piece, o) = [s \in SideSet |-> Redrawn(piece, o)[s]]
             /\ \A s \in M : Redrawn(piece, o)[s] = [kind |-> piece[s].kind, tab |-> o[s]]
             /\ \A s \in SideSet \ M : Redrawn(piece, o)[s] = piece[s]
  <2>1. ASSUME NEW e, NEW t, e = [kind |-> e.kind, tab |-> e.tab]
        PROVE  [e EXCEPT !.tab = t] = [kind |-> e.kind, tab |-> t]
    <3>1. PICK k, u : e = [kind |-> k, tab |-> u]
      BY <2>1
    <3> QED
      BY <3>1
  <2>2. DOMAIN o = M
    OBVIOUS
  <2> HIDE DEF M
  <2>3. /\ Redrawn(piece, o) = [s \in SideSet |-> Redrawn(piece, o)[s]]
        /\ \A s \in SideSet : Redrawn(piece, o)[s] = IF s \in M THEN [piece[s] EXCEPT !.tab = o[s]] ELSE piece[s]
    BY <2>2 DEF Redrawn
  <2> QED
    BY <1>1, <1>2, <2>1, <2>3
<1> DEFINE d == Redrawn(E[p], tabs)
<1>3. /\ d = [s \in SideSet |-> d[s]]
      /\ \A s \in M : d[s] = [kind |-> E[p][s].kind, tab |-> tabs[s]]
      /\ \A s \in SideSet \ M : d[s] = E[p][s]
  BY <1>1, <1>2
<1> HIDE DEF d
<1>4. MutableSides(d) = M
  <2>1. ASSUME NEW s \in Own PROVE s \in SideSet /\ d[s].kind = E[p][s].kind
    <3>1. s \in SideSet
      BY OwnSides
    <3>2. d[s] = E[p][s] \/ d[s] = [kind |-> E[p][s].kind, tab |-> tabs[s]]
      BY <1>3, <3>1
    <3> QED
      BY <3>1, <3>2
  <2> QED
    BY <2>1 DEF MutableSides, Own
<1>5. ASSUME NEW o \in [M -> AllTabs] PROVE Redrawn(d, o) = Redrawn(E[p], o)
  <2> HIDE DEF M
  <2>0. ASSUME NEW s \in M PROVE d[s] = [kind |-> d[s].kind, tab |-> d[s].tab] /\ d[s].kind = E[p][s].kind
    <3>1. d[s] = [kind |-> E[p][s].kind, tab |-> tabs[s]]
      BY <1>3
    <3> QED
      BY <3>1
  <2>1. \A s \in M : d[s] = [kind |-> d[s].kind, tab |-> d[s].tab]
    BY <2>0
  <2>2. /\ Redrawn(d, o) = [s \in SideSet |-> Redrawn(d, o)[s]]
        /\ \A s \in M : Redrawn(d, o)[s] = [kind |-> d[s].kind, tab |-> o[s]]
        /\ \A s \in SideSet \ M : Redrawn(d, o)[s] = d[s]
    BY <1>2, <2>1
  <2>3. /\ Redrawn(E[p], o) = [s \in SideSet |-> Redrawn(E[p], o)[s]]
        /\ \A s \in M : Redrawn(E[p], o)[s] = [kind |-> E[p][s].kind, tab |-> o[s]]
        /\ \A s \in SideSet \ M : Redrawn(E[p], o)[s] = E[p][s]
    BY <1>1, <1>2
  <2>4. ASSUME NEW s \in SideSet PROVE Redrawn(d, o)[s] = Redrawn(E[p], o)[s]
    <3>1. CASE s \in M
      <4>1. Redrawn(d, o)[s] = [kind |-> d[s].kind, tab |-> o[s]]
        BY <2>2, <3>1
      <4>2. Redrawn(E[p], o)[s] = [kind |-> E[p][s].kind, tab |-> o[s]]
        BY <2>3, <3>1
      <4>3. d[s].kind = E[p][s].kind
        BY <2>0, <3>1
      <4> QED
        BY <4>1, <4>2, <4>3
    <3>2. CASE s \notin M
      BY <1>3, <2>2, <2>3, <3>2
    <3> QED
      BY <3>1, <3>2
  <2> QED
    BY <2>2, <2>3, <2>4
<1> QED
  BY <1>3, <1>4, <1>5 DEF d, DrawnOver

\* An attempt at a piece: only its own edges get other curves.
AttemptedAt(g, E, p, F) ==
  /\ Retabbed(g, E, F)
  /\ \A q \in PieceIds(g) : q # p => F[q] = E[q] /\ (Matched(g, E, q) => Matched(g, F, q))

LEMMA AttemptEdges ==
  ASSUME NEW g \in Grids, NEW E, Shaped(g, E), NEW p \in PieceIds(g),
         NEW tabs \in [MutableSides(E[p]) -> AllTabs], NEW F, F = [E EXCEPT ![p] = Redrawn(E[p], tabs)]
  PROVE  AttemptedAt(g, E, p, F)
<1> DEFINE d == Redrawn(E[p], tabs)
           M == MutableSides(E[p])
<1>1. /\ d = [s \in SideSet |-> d[s]]
      /\ \A s \in M : d[s] = [kind |-> E[p][s].kind, tab |-> tabs[s]]
      /\ \A s \in SideSet \ M : d[s] = E[p][s]
  <2>1. DrawnOver(E[p], tabs, Redrawn(E[p], tabs))
    BY RedrawnSides
  <2> QED
    BY <2>1 DEF DrawnOver
<1>2. F = [q \in PieceIds(g) |-> F[q]] /\ F[p] = d /\ \A q \in PieceIds(g) : q # p => F[q] = E[q]
  <2>1. E = [q \in PieceIds(g) |-> E[q]]
    BY DEF Shaped
  <2> HIDE DEF d
  <2>2. F = [E EXCEPT ![p] = d]
    BY DEF d
  <2> QED
    BY <2>1, <2>2
<1> HIDE DEF d
<1>3. M = {s \in Own : ~AtBorder(g, p, s)}
  BY MutableAre
<1>4. Retabbed(g, E, F)
  <2>1. ASSUME NEW q \in PieceIds(g), NEW s \in SideSet
        PROVE  \/ F[q][s] = E[q][s]
               \/ ~AtBorder(g, q, s) /\ \E t \in AllTabs : F[q][s] = [kind |-> E[q][s].kind, tab |-> t]
    <3>1. CASE q # p \/ s \notin M
      BY <1>1, <1>2, <3>1
    <3>2. CASE q = p /\ s \in M
      <4>1. tabs[s] \in AllTabs /\ d[s] = [kind |-> E[p][s].kind, tab |-> tabs[s]]
        BY <1>1, <3>2
      <4> QED
        BY <1>2, <1>3, <3>2, <4>1
    <3> QED
      BY <3>1, <3>2
  <2>2. \A q \in PieceIds(g) : F[q] = [s \in SideSet |-> F[q][s]]
    BY <1>1, <1>2 DEF Shaped
  <2> QED
    BY <1>2, <2>1, <2>2 DEF Retabbed
<1>5. ASSUME NEW q \in PieceIds(g), q # p, Matched(g, E, q) PROVE Matched(g, F, q)
  <2> SUFFICES ASSUME NEW s \in Own, ~AtBorder(g, q, s)
               PROVE  F[q][s].tab = F[NeighborOf(g, q, s)][Facing[s]].tab
    BY DEF Matched
  <2>1. /\ NeighborOf(g, q, s) \in PieceIds(g) /\ Facing[s] \in SideSet /\ Facing[s] \notin Own
        /\ E[q][s].tab = E[NeighborOf(g, q, s)][Facing[s]].tab
    BY <1>5, Across, OwnSides DEF Matched
  <2>2. F[NeighborOf(g, q, s)][Facing[s]] = E[NeighborOf(g, q, s)][Facing[s]]
    BY <1>1, <1>2, <1>3, <2>1
  <2> QED
    BY <1>2, <1>5, <2>1, <2>2
<1> QED
  BY <1>2, <1>4, <1>5 DEF AttemptedAt

\* The choice for a piece: its own edges get the chosen curves, and so do the
\* neighbours' copies of them.
CommittedAt(g, E, p, chosen, F) ==
  /\ Retabbed(g, E, F)
  /\ F[p] = Redrawn(E[p], chosen)
  /\ \A q \in PieceIds(g) : q < p => F[q] = E[q]
  /\ \A q \in PieceIds(g) : q = p \/ Matched(g, E, q) => Matched(g, F, q)

LEMMA CommittedEdges ==
  ASSUME NEW g \in Grids, NEW E, Shaped(g, E), NEW p \in PieceIds(g),
         NEW chosen \in [MutableSides(E[p]) -> AllTabs], NEW F, F = Committed(g, E, p, chosen)
  PROVE  CommittedAt(g, E, p, chosen, F)
<1> DEFINE M == MutableSides(E[p])
           N == NeighborsOnly(g, E, p, chosen)
           theirs(q) == {s \in M : NeighborOf(g, p, s) = q}
           their(q) == {Facing[s] : s \in theirs(q)}
           d == Redrawn(E[p], chosen)
<1>1. M = {s \in Own : ~AtBorder(g, p, s)} /\ M \subseteq SideSet
  BY MutableAre, OwnSides
<1>2. /\ d = [s \in SideSet |-> d[s]]
      /\ \A s \in M : d[s] = [kind |-> E[p][s].kind, tab |-> chosen[s]]
      /\ \A s \in SideSet \ M : d[s] = E[p][s]
  <2>1. DrawnOver(E[p], chosen, Redrawn(E[p], chosen))
    BY RedrawnSides
  <2> QED
    BY <2>1 DEF DrawnOver
<1>3. /\ E = [q \in PieceIds(g) |-> E[q]]
      /\ \A q \in PieceIds(g) : E[q] = [s \in SideSet |-> E[q][s]]
      /\ \A q \in PieceIds(g), s \in SideSet : IsEdge(g, q, s, E[q][s])
  BY DEF Shaped
<1>4. DOMAIN chosen = M /\ DOMAIN E = PieceIds(g)
  BY <1>3
<1>5. \A s \in M : /\ NeighborOf(g, p, s) \in PieceIds(g) /\ NeighborOf(g, p, s) > p
                   /\ NeighborOf(g, NeighborOf(g, p, s), Facing[s]) = p
                   /\ Facing[s] \in SideSet /\ Facing[s] \notin Own /\ Facing[Facing[s]] = s
                   /\ ~AtBorder(g, NeighborOf(g, p, s), Facing[s])
                   /\ chosen[s] \in AllTabs
  BY <1>1, Across, OwnSides
<1>6. N = [q \in PieceIds(g) |-> Redrawn(E[q], [t \in their(q) |-> chosen[Facing[t]]])]
  BY <1>4 DEF NeighborsOnly
<1> HIDE DEF M, N, d
<1>7. ASSUME NEW q \in PieceIds(g)
      PROVE  /\ N[q] = [s \in SideSet |-> N[q][s]]
             /\ \A t \in SideSet \ their(q) : N[q][t] = E[q][t]
             /\ \A t \in SideSet \cap their(q) : N[q][t] = [kind |-> E[q][t].kind, tab |-> chosen[Facing[t]]]
  <2> DEFINE o == [t \in their(q) |-> chosen[Facing[t]]]
  <2>1. N[q] = Redrawn(E[q], o)
    BY <1>6
  <2>2. DOMAIN o = their(q) /\ \A t \in their(q) : o[t] = chosen[Facing[t]]
    OBVIOUS
  <2> HIDE DEF o, their
  <2>3. N[q] = [s \in SideSet |-> IF s \in their(q) THEN [E[q][s] EXCEPT !.tab = o[s]] ELSE E[q][s]]
    BY <2>1, <2>2 DEF Redrawn
  <2>4. ASSUME NEW t \in SideSet, t \in their(q)
        PROVE  N[q][t] = [kind |-> E[q][t].kind, tab |-> chosen[Facing[t]]]
    <3>1. PICK s \in M : t = Facing[s] /\ NeighborOf(g, p, s) = q
      BY <2>4 DEF their
    <3>2. E[q][t] = [kind |-> E[q][t].kind, tab |-> E[q][t].tab]
      BY <1>3, <1>5, <3>1 DEF IsEdge
    <3>3. PICK k, u : E[q][t] = [kind |-> k, tab |-> u]
      BY <3>2
    <3>4. N[q][t] = [E[q][t] EXCEPT !.tab = chosen[Facing[t]]]
      BY <2>2, <2>3, <2>4
    <3> QED
      BY <3>3, <3>4
  <2> QED
    BY <2>3, <2>4
<1>8. N[p] = E[p]
  <2>1. their(p) = {}
    BY <1>5 DEF PieceIds
  <2> HIDE DEF their
  <2>2. \A t \in SideSet : N[p][t] = E[p][t]
    BY <1>7, <2>1
  <2> QED
    BY <1>3, <1>7, <2>2
<1>9. /\ F = [q \in PieceIds(g) |-> F[q]] /\ F[p] = d
      /\ \A q \in PieceIds(g) : q # p => F[q] = N[q]
  <2>1. F = [N EXCEPT ![p] = Redrawn(N[p], chosen)]
    BY DEF Committed, N
  <2>2. F = [N EXCEPT ![p] = d]
    BY <1>8, <2>1 DEF d
  <2>3. N = [q \in PieceIds(g) |-> N[q]]
    <3> HIDE DEF their
    <3> QED
      BY <1>6
  <2> HIDE DEF their
  <2> QED
    BY <2>2, <2>3
<1>e. ASSUME NEW q \in PieceIds(g), q # p
      PROVE  /\ F[q] = [s \in SideSet |-> F[q][s]]
             /\ \A t \in SideSet \ their(q) : F[q][t] = E[q][t]
             /\ \A t \in SideSet \cap their(q) : F[q][t] = [kind |-> E[q][t].kind, tab |-> chosen[Facing[t]]]
  <2> HIDE DEF their
  <2>1. F[q] = N[q]
    BY <1>9, <1>e
  <2>2. /\ N[q] = [s \in SideSet |-> N[q][s]]
        /\ \A t \in SideSet \ their(q) : N[q][t] = E[q][t]
        /\ \A t \in SideSet \cap their(q) : N[q][t] = [kind |-> E[q][t].kind, tab |-> chosen[Facing[t]]]
    BY <1>7
  <2> QED
    BY <2>1, <2>2
<1>10. ASSUME NEW q \in PieceIds(g), q < p PROVE F[q] = E[q]
  <2>1. their(q) = {} /\ q # p
    BY <1>5, <1>10 DEF PieceIds
  <2> HIDE DEF their
  <2>2. \A t \in SideSet : F[q][t] = E[q][t]
    BY <1>e, <2>1
  <2> QED
    <3>1. F[q] = [s \in SideSet |-> F[q][s]]
      BY <1>e, <2>1
    <3>2. E[q] = [s \in SideSet |-> E[q][s]]
      BY <1>3
    <3> HIDE DEF their
    <3>3. [s \in SideSet |-> F[q][s]] = [s \in SideSet |-> E[q][s]]
      BY <2>2
    <3> QED
      BY <3>1, <3>2, <3>3, Zenon
<1>11. Retabbed(g, E, F)
  <2>1. ASSUME NEW q \in PieceIds(g), NEW s \in SideSet
        PROVE  \/ F[q][s] = E[q][s]
               \/ ~AtBorder(g, q, s) /\ \E t \in AllTabs : F[q][s] = [kind |-> E[q][s].kind, tab |-> t]
    <3>1. CASE q = p
      <4>1. CASE s \in M
        <5>1. F[q][s] = [kind |-> E[q][s].kind, tab |-> chosen[s]] /\ chosen[s] \in AllTabs /\ ~AtBorder(g, q, s)
          BY <1>1, <1>2, <1>5, <1>9, <3>1, <4>1
        <5> QED
          BY <5>1
      <4>2. CASE s \notin M
        BY <1>2, <1>9, <3>1, <4>2
      <4> QED
        BY <4>1, <4>2
    <3>2. CASE q # p /\ s \in their(q)
      <4>1. PICK r \in M : s = Facing[r] /\ NeighborOf(g, p, r) = q
        BY <3>2
      <4>2. chosen[Facing[s]] \in AllTabs /\ ~AtBorder(g, q, s)
        BY <1>5, <4>1
      <4>3. F[q][s] = [kind |-> E[q][s].kind, tab |-> chosen[Facing[s]]]
        <5> HIDE DEF their
        <5> QED
          BY <1>e, <3>2
      <4> QED
        BY <4>2, <4>3
    <3>3. CASE q # p /\ s \notin their(q)
      <4> HIDE DEF their
      <4> QED
        BY <1>e, <3>3
    <3> QED
      BY <3>1, <3>2, <3>3
  <2>2. ASSUME NEW q \in PieceIds(g) PROVE F[q] = [s \in SideSet |-> F[q][s]]
    BY <1>2, <1>9, <1>e
  <2> QED
    BY <1>9, <2>1, <2>2 DEF Retabbed
<1>12. Matched(g, F, p)
  <2> SUFFICES ASSUME NEW s \in Own, ~AtBorder(g, p, s)
               PROVE  F[p][s].tab = F[NeighborOf(g, p, s)][Facing[s]].tab
    BY DEF Matched
  <2>1. s \in M
    BY <1>1
  <2> DEFINE q == NeighborOf(g, p, s)
             t == Facing[s]
  <2>2. q \in PieceIds(g) /\ q # p /\ t \in SideSet /\ Facing[t] = s /\ t \in their(q)
    BY <1>5, <2>1 DEF PieceIds
  <2> HIDE DEF q, t, their
  <2>3. F[q][t] = [kind |-> E[q][t].kind, tab |-> chosen[s]]
    BY <1>e, <2>2
  <2>4. F[p][s] = [kind |-> E[p][s].kind, tab |-> chosen[s]]
    BY <1>2, <1>9, <2>1
  <2> QED
    BY <2>3, <2>4 DEF q, t
<1>13. ASSUME NEW q \in PieceIds(g), q # p, Matched(g, E, q) PROVE Matched(g, F, q)
  <2> SUFFICES ASSUME NEW s \in Own, ~AtBorder(g, q, s)
               PROVE  F[q][s].tab = F[NeighborOf(g, q, s)][Facing[s]].tab
    BY DEF Matched
  <2> DEFINE x == NeighborOf(g, q, s)
             t == Facing[s]
  <2>1. /\ x \in PieceIds(g) /\ t \in SideSet /\ t \notin Own /\ s \in SideSet
        /\ NeighborOf(g, x, t) = q /\ E[q][s].tab = E[x][t].tab
    BY <1>13, Across, OwnSides DEF Matched
  <2>2. F[q][s] = E[q][s]
    <3>1. s \notin their(q)
      BY <1>5
    <3> HIDE DEF their
    <3> QED
      BY <1>e, <1>13, <2>1, <3>1
  <2> HIDE DEF x, t
  <2>3. F[x][t] = E[x][t]
    <3>1. CASE x = p
      BY <1>1, <1>2, <1>9, <2>1, <3>1
    <3>2. CASE x # p
      <4>1. t \notin their(x)
        <5> SUFFICES ASSUME NEW r \in M, t = Facing[r], NeighborOf(g, p, r) = x PROVE FALSE
          OBVIOUS
        <5>1. NeighborOf(g, x, t) = p
          BY <1>5
        <5> QED
          BY <1>13, <2>1, <5>1
      <4> HIDE DEF their
      <4> QED
        BY <1>e, <2>1, <3>2, <4>1
    <3> QED
      BY <3>1, <3>2
  <2> QED
    BY <2>1, <2>2, <2>3 DEF x, t
<1> QED
  BY <1>9, <1>10, <1>11, <1>12, <1>13 DEF d, CommittedAt

-----------------------------------------------------------------------------
(* Silhouettes.                                                              *)

LEMMA DistanceType ==
  ASSUME NEW a, NEW b
  PROVE  SilhouetteDistance(a, b) \in Nat /\ SilhouetteDistance(a, b) = SilhouetteDistance(b, a)
<1> DEFINE S == {i \in 1..4 : a[i] # b[i]}
<1>1. S \in SUBSET Nat /\ \A i \in S : i <= 4
  OBVIOUS
<1> HIDE DEF S
<1>2. IsFiniteSet(S)
  BY <1>1, FS_BoundedSetOfNaturals
<1>3. {i \in 1..4 : a[i] # b[i]} = {i \in 1..4 : b[i] # a[i]}
  OBVIOUS
<1> QED
  BY <1>2, <1>3, FS_CardinalityType DEF SilhouetteDistance, S

\* The distance to the peers is the least.
LEMMA NearestPeer ==
  ASSUME NEW shape, NEW others
  PROVE  /\ DistanceToPeers(shape, others) \in Nat
         /\ \A o \in others : Kinds(o) = Kinds(shape) =>
              DistanceToPeers(shape, others) <= SilhouetteDistance(o, shape)
<1> DEFINE S == {Unmatched} \cup {SilhouetteDistance(shape, o) : o \in {o \in others : Kinds(o) = Kinds(shape)}}
<1>1. S \in SUBSET Nat /\ S # {}
  BY DistanceType DEF Unmatched
<1>2. \A o \in others : Kinds(o) = Kinds(shape) => SilhouetteDistance(shape, o) \in S
  OBVIOUS
<1>3. DistanceToPeers(shape, others) = Min(S)
  BY DEF DistanceToPeers
<1> HIDE DEF S
<1>4. Min(S) \in S /\ \A n \in S : Min(S) <= n
  BY <1>1, NatMin DEF Min
<1>5. \A o : SilhouetteDistance(shape, o) = SilhouetteDistance(o, shape)
  BY DistanceType
<1> QED
  BY <1>1, <1>2, <1>3, <1>4, <1>5

-----------------------------------------------------------------------------
(* The invariant.                                                            *)

\* What the stages keep of the picture and the grid.
StageInv ==
  /\ stage = "made" =>
       LET f == picture.file IN
       /\ f \in Files /\ f.fault = "none" /\ picture.recorded = Original(f)
       /\ room.target \in Targets
       /\ Grid = DeriveGrid(room.target, f.width, f.height)
       /\ EnoughPixels(Grid, f.width, f.height)
  /\ stage \in {"cutting", "cut", "laid", "open"} => Grid \in Grids
  /\ stage # "cutting" => NoCut

\* The edges: a piece and its neighbours hold the same curves, except those of
\* the piece that is being drawn.
EdgesInv ==
  /\ Shaped(Grid, edges) /\ Opposed(Grid, edges)
  /\ \A p \in PieceIds(Grid) : (p = pen.piece /\ pen.tries > 0) \/ Matched(Grid, edges, p)

\* The pen: what it has in mind is as far from the finished pieces as it says.
PenInv ==
  /\ pen.piece \in Nat /\ pen.tries \in Nat /\ pen.best \in Int
  /\ pen.tries = 0 => pen.best = -1
  /\ pen.tries > 0 =>
       /\ pen.piece \in PieceIds(Grid)
       /\ pen.chosen \in [MutableSides(edges[pen.piece]) -> AllTabs]
       /\ pen.best = DistanceToPeers(Silhouette(Redrawn(edges[pen.piece], pen.chosen)), seen)

\* The finished pieces are remembered, in every turn, as they lie on the table.
SeenInv ==
  /\ seen = {} => pen.piece = 0 \/ pen.piece \notin PieceIds(Grid)
  /\ seen # {} => \A p \in Done : AllTurns(Silhouette(edges[p])) \subseteq seen

IInv ==
  /\ StageInv
  /\ stage = "cutting" => EdgesInv /\ PenInv /\ SeenInv /\ NoTwins

LEMMA SizesArePositive ==
  ASSUME NEW f \in Files, NEW t \in Targets
  PROVE  f.width \in Positive /\ f.height \in Positive /\ t \in Positive
BY FilesAssumption, TargetsAssumption DEF Positive

LEMMA InitInv == Init => IInv
BY DEF Init, IInv, StageInv

LEMMA UploadInv ==
  ASSUME IInv, NEW f \in Files, NEW t \in Targets, Upload(f, t)
  PROVE  IInv'
<1>1. NoCut'
  BY DEF Upload, IInv, StageInv, NoCut, cutting
<1>2. PICK g \in ProcessUploadedImage(f, t) : stage' = "made" /\ room' = [target |-> t, grid |-> g]
  BY DEF Upload, Made
<1>3. /\ f.fault = "none" /\ g = DeriveGrid(t, f.width, f.height)
      /\ EnoughPixels(g, f.width, f.height)
  BY <1>2 DEF ProcessUploadedImage, ValidatePieceGrid, Original
<1>4. picture'.file = f /\ picture'.recorded = Original(f)
  BY DEF Upload, Recorded
<1> QED
  BY <1>1, <1>2, <1>3, <1>4 DEF IInv, StageInv, Grid

LEMMA FromGalleryInv ==
  ASSUME IInv, NEW t \in Targets, FromGallery(t)
  PROVE  IInv'
<1>1. NoCut' /\ stage = "made" /\ picture' = picture
  BY DEF FromGallery, IInv, StageInv, NoCut, cutting
<1>2. PICK g \in ValidatePieceGrid(t, picture.recorded) : stage' = "made" /\ room' = [target |-> t, grid |-> g]
  BY DEF FromGallery, Made
<1>3. picture.file \in Files /\ picture.file.fault = "none" /\ picture.recorded = Original(picture.file)
  BY <1>1 DEF IInv, StageInv
<1>4. /\ g = DeriveGrid(t, picture.file.width, picture.file.height)
      /\ EnoughPixels(g, picture.file.width, picture.file.height)
  BY <1>2, <1>3 DEF ValidatePieceGrid, Original
<1> QED
  BY <1>1, <1>2, <1>3, <1>4 DEF IInv, StageInv, Grid

LEMMA OpenRoomInv ==
  ASSUME IInv, NEW varied \in BOOLEAN, OpenRoom(varied)
  PROVE  IInv'
<1> DEFINE g == Grid
<1>1. stage = "made" /\ NoCut /\ Grid' = g
  BY DEF OpenRoom, IInv, StageInv, Grid
<1>2. g \in Grids
  BY <1>1, SizesArePositive, DeriveGridType DEF IInv, StageInv
<1>3. CASE Large
  <2>1. stage' = "cut" /\ NoCut'
    BY <1>1, <1>3 DEF OpenRoom, NoCut
  <2> QED
    BY <1>1, <1>2, <2>1 DEF IInv, StageInv
<1>4. CASE ~Large
  <2>1. /\ stage' = "cutting" /\ seen' = {} /\ tired' = {}
        /\ pen' = [Unmarked EXCEPT !.piece = IF varied THEN 0 ELSE Grid.rows * Grid.cols]
    BY <1>1, <1>4 DEF OpenRoom, NoCut
  <2>2. PICK sign \in [SharedEdges(g) -> {-1, 1}], tab \in [SharedEdges(g) -> FirstTabs(varied, g)] :
          edges' = GeneratePuzzle(g, sign, tab)
    BY <1>4 DEF OpenRoom
  <2>3. FirstTabs(varied, g) \subseteq AllTabs
    <3>1. (CHOOSE t \in LegacyTabs : TRUE) \in LegacyTabs
      <4>1. [style |-> "legacy", pos |-> 600, size |-> 1000, tilt |-> 400, asymmetry |-> 500] \in LegacyTabs
        BY DEF LegacyTabs
      <4> QED
        BY <4>1
    <3> QED
      BY <3>1 DEF FirstTabs, AllTabs
  <2>4. tab \in [SharedEdges(g) -> AllTabs]
    BY <2>3
  <2>5. Shaped(g, edges') /\ Opposed(g, edges') /\ \A p \in PieceIds(g) : Matched(g, edges', p)
    BY <1>2, <2>2, <2>4, PuzzleGenerated
  <2>6. EdgesInv'
    BY <1>1, <2>5 DEF EdgesInv
  <2>7. pen'.piece = (IF varied THEN 0 ELSE g.rows * g.cols) /\ pen'.tries = 0 /\ pen'.best = -1
    BY <2>1 DEF Unmarked
  <2>8. g.rows * g.cols \in Nat /\ g.rows * g.cols \notin PieceIds(g)
    <3>1. g.rows \in Nat /\ g.cols \in Nat
      BY <1>2 DEF Grids
    <3>2. g.rows * g.cols \in Nat
      BY <3>1
    <3> QED
      BY <3>2 DEF PieceIds
  <2>9. PenInv'
    BY <2>7, <2>8 DEF PenInv
  <2>10. SeenInv' /\ NoTwins'
    BY <1>1, <2>1, <2>7, <2>8 DEF SeenInv, NoTwins
  <2>11. StageInv'
    BY <1>1, <1>2, <2>1 DEF StageInv
  <2> QED
    BY <2>6, <2>9, <2>10, <2>11 DEF IInv
<1> QED
  BY <1>3, <1>4

\* The finished pieces stay as they are while a later one is drawn.
LEMMA DoneStays ==
  ASSUME stage = "cutting", EdgesInv, PenInv, SeenInv, NoTwins,
         NEW F, DOMAIN F = PieceIds(Grid), \A q \in PieceIds(Grid) : q < pen.piece => F[q] = edges[q]
  PROVE  /\ Done = {q \in PieceIds(Grid) : q < pen.piece}
         /\ \A q \in Done : F[q] = edges[q]
<1>1. DOMAIN edges = PieceIds(Grid)
  BY DEF EdgesInv, Shaped
<1> QED
  BY <1>1 DEF Done

LEMMA PaletteIsDrawn == \A g : Palette(g) \subseteq AllTabs
BY VariedAreDrawn, TabsAssumption DEF Palette, AllTabs

LEMMA AttemptInv ==
  ASSUME IInv, Attempt
  PROVE  IInv'
<1> DEFINE g == Grid
           p == pen.piece
           M == MutableSides(edges[p])
<1>1. /\ stage = "cutting" /\ stage' = "cutting" /\ p \in PieceIds(g) /\ room' = room
      /\ seen' = seen /\ tired' = tired /\ ~Settled /\ Grid' = g
  BY DEF Attempt, Grid
<1>2. /\ g \in Grids /\ StageInv /\ EdgesInv /\ PenInv /\ SeenInv /\ NoTwins
  BY <1>1 DEF IInv, StageInv
<1>3. PICK tabs \in [M -> Palette(g)] :
        LET drawn == Redrawn(edges[p], tabs)
            distance == DistanceToPeers(Silhouette(drawn), seen)
            better == distance > pen.best
        IN  /\ edges' = [edges EXCEPT ![p] = drawn]
            /\ pen' = [pen EXCEPT !.tries = @ + 1,
                                  !.best = IF better THEN distance ELSE @,
                                  !.chosen = IF better THEN tabs ELSE @]
  BY DEF Attempt, Mutable
<1>4. tabs \in [M -> AllTabs] /\ Shaped(g, edges)
  BY <1>2, PaletteIsDrawn DEF EdgesInv
<1> DEFINE drawn == Redrawn(edges[p], tabs)
           distance == DistanceToPeers(Silhouette(drawn), seen)
<1>5. /\ Retabbed(g, edges, edges')
      /\ \A q \in PieceIds(g) : q # p => edges'[q] = edges[q] /\ (Matched(g, edges, q) => Matched(g, edges', q))
  <2>1. edges' = [edges EXCEPT ![p] = Redrawn(edges[p], tabs)]
    BY <1>3
  <2>2. g \in Grids /\ p \in PieceIds(g) /\ Shaped(g, edges) /\ tabs \in [M -> AllTabs]
    BY <1>1, <1>2, <1>4
  <2>3. AttemptedAt(g, edges, p, edges')
    <3> HIDE DEF g, p
    <3> QED
      BY <2>1, <2>2, AttemptEdges
  <2> QED
    BY <2>3 DEF AttemptedAt
<1>6. edges'[p] = drawn
  BY <1>1, <1>3, <1>4 DEF Shaped
<1>7. /\ MutableSides(drawn) = M
      /\ \A o \in [M -> AllTabs] : Redrawn(drawn, o) = Redrawn(edges[p], o)
  <2>1. g \in Grids /\ p \in PieceIds(g) /\ Shaped(g, edges) /\ tabs \in [M -> AllTabs]
    BY <1>1, <1>2, <1>4
  <2>2. DrawnOver(edges[p], tabs, Redrawn(edges[p], tabs))
    <3> HIDE DEF g, p
    <3> QED
      BY <2>1, RedrawnSides
  <2> QED
    BY <2>2 DEF DrawnOver
<1>8. Shaped(g, edges') /\ Opposed(g, edges')
  BY <1>2, <1>4, <1>5, RetabbedKeeps DEF EdgesInv
<1>9. /\ pen'.piece = p /\ pen'.tries = pen.tries + 1
      /\ pen'.best = (IF distance > pen.best THEN distance ELSE pen.best)
      /\ pen'.chosen = (IF distance > pen.best THEN tabs ELSE pen.chosen)
  BY <1>3
<1> HIDE DEF distance, drawn, M
<1>10. EdgesInv'
  <2>1. pen'.tries > 0
    BY <1>2, <1>9 DEF PenInv
  <2> QED
    BY <1>1, <1>2, <1>5, <1>8, <1>9, <2>1 DEF EdgesInv
<1>11. PenInv'
  <2>1. distance \in Nat
    BY NearestPeer DEF distance
  <2>2. pen'.piece \in Nat /\ pen'.tries \in Nat /\ pen'.tries > 0 /\ pen'.best \in Int
    BY <1>2, <1>9, <2>1 DEF PenInv
  <2>3. CASE distance > pen.best
    <3>1. Redrawn(edges'[p], tabs) = drawn
      BY <1>4, <1>6, <1>7 DEF drawn
    <3>2. pen'.chosen = tabs /\ pen'.best = distance
      BY <1>9, <2>3
    <3>3. pen'.chosen \in [MutableSides(edges'[pen'.piece]) -> AllTabs]
      BY <1>4, <1>6, <1>7, <1>9, <3>2
    <3>4. pen'.best = DistanceToPeers(Silhouette(Redrawn(edges'[pen'.piece], pen'.chosen)), seen')
      BY <1>1, <1>9, <3>1, <3>2 DEF distance
    <3> QED
      BY <1>1, <1>9, <2>2, <3>3, <3>4 DEF PenInv
  <2>4. CASE ~ (distance > pen.best)
    <3>1. pen.tries > 0
      BY <1>2, <2>1, <2>4 DEF PenInv
    <3>2. /\ pen.chosen \in [M -> AllTabs]
          /\ pen.best = DistanceToPeers(Silhouette(Redrawn(edges[p], pen.chosen)), seen)
      BY <1>2, <3>1 DEF PenInv, M
    <3>3. pen'.chosen = pen.chosen /\ pen'.best = pen.best
      BY <1>9, <2>4
    <3>4. pen'.chosen \in [MutableSides(edges'[pen'.piece]) -> AllTabs]
      BY <1>6, <1>7, <1>9, <3>2, <3>3
    <3>5. Redrawn(edges'[p], pen.chosen) = Redrawn(edges[p], pen.chosen)
      BY <1>6, <1>7, <3>2
    <3>6. pen'.best = DistanceToPeers(Silhouette(Redrawn(edges'[pen'.piece], pen'.chosen)), seen')
      BY <1>1, <1>9, <3>2, <3>3, <3>5
    <3> QED
      BY <1>1, <1>9, <2>2, <3>4, <3>6 DEF PenInv
  <2> QED
    BY <2>3, <2>4
<1>12. Done' = Done /\ \A q \in Done : edges'[q] = edges[q]
  <2>1. DOMAIN edges' = PieceIds(g) /\ DOMAIN edges = PieceIds(g)
    BY <1>4, <1>8 DEF Shaped
  <2>2. \A q \in Done : q \in PieceIds(g) /\ q # p
    BY <2>1 DEF Done, PieceIds
  <2> QED
    BY <1>5, <1>9, <2>1, <2>2 DEF Done
<1>13. SeenInv'
  BY <1>1, <1>2, <1>9, <1>12 DEF SeenInv
<1>14. NoTwins'
  BY <1>1, <1>2, <1>12 DEF NoTwins
<1>15. StageInv'
  BY <1>1, <1>2 DEF StageInv
<1> QED
  BY <1>10, <1>11, <1>13, <1>14, <1>15 DEF IInv

\* The finished pieces after a choice: one more.
LEMMA CommitInv ==
  ASSUME IInv, Commit
  PROVE  IInv'
<1> DEFINE g == Grid
           p == pen.piece
<1>1. /\ stage = "cutting" /\ stage' = "cutting" /\ p \in PieceIds(g) /\ room' = room /\ Grid' = g
      /\ Settled \/ pen.tries = MAX_ATTEMPTS
      /\ edges' = Committed(g, edges, p, pen.chosen)
      /\ seen' = seen \cup AllTurns(Silhouette(edges'[p]))
      /\ tired' = IF pen.best < MIN_DISTANCE THEN tired \cup {p} ELSE tired
      /\ pen' = [Unmarked EXCEPT !.piece = p + 1]
  BY DEF Commit, Grid
<1>2. g \in Grids /\ StageInv /\ EdgesInv /\ PenInv /\ SeenInv /\ NoTwins
  BY <1>1 DEF IInv, StageInv
<1>3. pen.tries > 0
  BY <1>1, <1>2, AttemptsAssumption, DistanceAssumption DEF Settled, PenInv
<1>4. /\ pen.chosen \in [MutableSides(edges[p]) -> AllTabs]
      /\ pen.best = DistanceToPeers(Silhouette(Redrawn(edges[p], pen.chosen)), seen)
  BY <1>2, <1>3 DEF PenInv
<1>5. Shaped(g, edges) /\ Opposed(g, edges) /\ DOMAIN edges = PieceIds(g)
  BY <1>2 DEF EdgesInv, Shaped
<1>6. CommittedAt(g, edges, p, pen.chosen, edges')
  <2> HIDE DEF g, p
  <2> QED
    BY <1>1, <1>2, <1>4, <1>5, CommittedEdges
<1>7. /\ Retabbed(g, edges, edges')
      /\ edges'[p] = Redrawn(edges[p], pen.chosen)
      /\ \A q \in PieceIds(g) : q < p => edges'[q] = edges[q]
      /\ \A q \in PieceIds(g) : q = p \/ Matched(g, edges, q) => Matched(g, edges', q)
  BY <1>6 DEF CommittedAt
<1>8. Shaped(g, edges') /\ Opposed(g, edges') /\ DOMAIN edges' = PieceIds(g)
  <2>1. Shaped(g, edges') /\ Opposed(g, edges')
    BY <1>2, <1>5, <1>7, RetabbedKeeps
  <2> QED
    BY <2>1 DEF Shaped
<1>9. pen'.piece = p + 1 /\ pen'.tries = 0 /\ pen'.best = -1 /\ p \in Nat
  BY <1>1, <1>2 DEF Unmarked, PenInv
<1>10. Done' = Done \cup {p} /\ (\A q \in Done : edges'[q] = edges[q] /\ q < p) /\ Done \subseteq Nat
  <2>1. PieceIds(g) \subseteq Nat
    BY <1>2, PiecePlaced
  <2>2. Done = {q \in PieceIds(g) : q < p} /\ Done' = {q \in PieceIds(g) : q < p + 1}
    BY <1>5, <1>8, <1>9 DEF Done
  <2> HIDE DEF g, p
  <2> QED
    BY <1>1, <1>7, <1>9, <2>1, <2>2
<1>11. EdgesInv'
  BY <1>1, <1>2, <1>7, <1>8 DEF EdgesInv
<1>12. PenInv'
  BY <1>9 DEF PenInv
<1>13. seen = {} => Done = {}
  BY <1>1, <1>2, <1>9, <1>10 DEF SeenInv
<1>14. /\ AllTurns(Silhouette(edges'[p])) \subseteq seen' /\ seen \subseteq seen'
       /\ seen' # {}
  <2>1. Turned(Silhouette(edges'[p]), 0) \in AllTurns(Silhouette(edges'[p]))
    BY DEF AllTurns
  <2> QED
    BY <1>1, <2>1
<1>15. ASSUME NEW q \in Done PROVE AllTurns(Silhouette(edges[q])) \subseteq seen
  BY <1>2, <1>13, <1>15 DEF SeenInv
<1>16. SeenInv'
  BY <1>10, <1>14, <1>15 DEF SeenInv
<1>17. NoTwins'
  <2> SUFFICES ASSUME NEW a \in Done', NEW b \in Done', a < b, b \notin tired', NEW turn \in 0..3,
                      Kinds(Turned(Silhouette(edges'[a]), turn)) = Kinds(Silhouette(edges'[b]))
               PROVE  SilhouetteDistance(Turned(Silhouette(edges'[a]), turn), Silhouette(edges'[b])) >= MIN_DISTANCE
    BY DEF NoTwins
  <2>1. a \in Done /\ edges'[a] = edges[a]
    <3>1. a \in Done \/ a = p
      BY <1>10
    <3>2. b \in Nat /\ (b = p \/ b < p)
      BY <1>9, <1>10
    <3>3. a # p
      BY <1>9, <3>2
    <3> QED
      BY <1>10, <3>1, <3>3
  <2>2. CASE b \in Done
    <3>1. b \notin tired /\ seen # {} /\ edges'[b] = edges[b]
      BY <1>1, <1>10, <1>13, <2>2
    <3> QED
      BY <1>2, <2>1, <2>2, <3>1 DEF NoTwins
  <2>3. CASE b \notin Done
    <3>1. b = p
      BY <1>10, <2>3
    <3>2. pen.best >= MIN_DISTANCE /\ pen.best \in Int
      BY <1>1, <1>2, <3>1, DistanceAssumption DEF PenInv
    <3> DEFINE mine == Silhouette(edges'[p])
               theirs == Turned(Silhouette(edges'[a]), turn)
    <3>3. theirs \in seen
      BY <1>15, <2>1 DEF AllTurns
    <3>4. pen.best = DistanceToPeers(mine, seen) /\ Kinds(theirs) = Kinds(mine)
      BY <1>4, <1>7, <3>1
    <3> HIDE DEF mine, theirs
    <3>5. DistanceToPeers(mine, seen) <= SilhouetteDistance(theirs, mine)
      BY <3>3, <3>4, NearestPeer
    <3>6. SilhouetteDistance(theirs, mine) \in Nat
      BY DistanceType
    <3> QED
      BY <3>1, <3>2, <3>4, <3>5, <3>6, DistanceAssumption DEF mine, theirs
  <2> QED
    BY <2>2, <2>3
<1>18. StageInv'
  BY <1>1, <1>2 DEF StageInv
<1> QED
  BY <1>11, <1>12, <1>16, <1>17, <1>18 DEF IInv

\* Outside the cut nothing is kept of it.
LEMMA RestInv ==
  ASSUME IInv, stage # "cutting", UNCHANGED cutting, stage' \in {"home", "laid", "open"},
         stage' # "home" => stage \in {"cut", "laid", "open"} /\ room' = room
  PROVE  IInv'
<1>1. NoCut'
  BY DEF IInv, StageInv, NoCut, cutting
<1> QED
  BY <1>1 DEF IInv, StageInv, Grid

LEMMA FinishedInv ==
  ASSUME IInv, Finished
  PROVE  IInv'
<1>1. NoCut' /\ Grid' = Grid /\ stage = "cutting" /\ stage' = "cut"
  BY DEF Finished, NoCut, Grid
<1> QED
  BY <1>1 DEF IInv, StageInv

LEMMA StepInv == IInv /\ [Next]_tableVars => IInv'
<1> SUFFICES ASSUME IInv, [Next]_tableVars PROVE IInv'
  OBVIOUS
<1>1. ASSUME NEW f \in Files, NEW t \in Targets, Upload(f, t) PROVE IInv'
  BY <1>1, UploadInv
<1>2. ASSUME NEW t \in Targets, FromGallery(t) PROVE IInv'
  BY <1>2, FromGalleryInv
<1>3. ASSUME NEW varied \in BOOLEAN, OpenRoom(varied) PROVE IInv'
  BY <1>3, OpenRoomInv
<1>4. CASE Attempt
  BY <1>4, AttemptInv
<1>5. CASE Commit
  BY <1>5, CommitInv
<1>6. CASE Finished
  BY <1>6, FinishedInv
<1>7. CASE Scatter
  BY <1>7, RestInv DEF Scatter
<1>8. ASSUME NEW size \in Viewports, OpenBoard(size) PROVE IInv'
  BY <1>8, RestInv DEF OpenBoard
<1>9. CASE Gesture
  BY <1>9, RestInv DEF Gesture
<1>10. CASE Leave
  BY <1>10, RestInv DEF Leave
<1>11. CASE UNCHANGED tableVars
  <2>1. /\ stage' = stage /\ picture' = picture /\ room' = room /\ edges' = edges
        /\ seen' = seen /\ pen' = pen /\ tired' = tired
    BY <1>11 DEF tableVars, cutting
  <2>2. Grid' = Grid /\ Done' = Done
    BY <2>1 DEF Grid, Done
  <2>3. StageInv' /\ (NoTwins' <=> NoTwins)
    BY <2>1, <2>2 DEF IInv, StageInv, NoCut, NoTwins
  <2>4. EdgesInv => EdgesInv'
    BY <2>1, <2>2 DEF EdgesInv
  <2>5. PenInv => PenInv'
    BY <2>1, <2>2 DEF PenInv
  <2>6. SeenInv => SeenInv'
    BY <2>1, <2>2 DEF SeenInv
  <2> QED
    BY <2>1, <2>3, <2>4, <2>5, <2>6 DEF IInv
<1> QED
  BY <1>1, <1>2, <1>3, <1>4, <1>5, <1>6, <1>7, <1>8, <1>9, <1>10, <1>11
     DEF Next, Pan, Wheel, UpdatePinch, OnResize

\* The invariant, in every state of every table.
THEOREM Invariance == Spec => []IInv
BY InitInv, StepInv, PTL DEF Spec

-----------------------------------------------------------------------------
(* What the invariant says of the pieces, and of the grid.                   *)

LEMMA DoneInside ==
  ASSUME IInv, NEW p \in Done
  PROVE  /\ stage = "cutting" /\ Grid \in Grids /\ EdgesInv
         /\ p \in PieceIds(Grid) /\ p \in Nat /\ p < pen.piece /\ pen.piece \in Nat
<1>1. stage = "cutting"
  <2>1. edges # << >>
    BY DEF Done
  <2> QED
    BY <2>1 DEF IInv, StageInv, NoCut
<1>2. Grid \in Grids /\ EdgesInv /\ PenInv
  BY <1>1 DEF IInv, StageInv
<1>3. p \in PieceIds(Grid) /\ p < pen.piece
  BY <1>2 DEF EdgesInv, Shaped, Done
<1> QED
  BY <1>1, <1>2, <1>3, PiecePlaced DEF PenInv

LEMMA InvInterlocking == IInv => Interlocking
<1> SUFFICES ASSUME IInv, NEW p \in Done, NEW s \in SideSet
             PROVE  IF AtBorder(Grid, p, s) THEN edges[p][s] = FlatEdge
                    ELSE LET mine == edges[p][s]
                             theirs == edges[NeighborOf(Grid, p, s)][Facing[s]]
                         IN  mine.tab = theirs.tab /\ {mine.kind, theirs.kind} = {"tab", "blank"}
  BY DEF Interlocking
<1> DEFINE g == Grid
           q == NeighborOf(g, p, s)
           t == Facing[s]
<1>1. g \in Grids /\ p \in PieceIds(g) /\ p \in Nat /\ p < pen.piece /\ pen.piece \in Nat
  BY DoneInside
<1>2. /\ Shaped(g, edges) /\ Opposed(g, edges)
      /\ \A r \in PieceIds(g) : r # pen.piece => Matched(g, edges, r)
  BY DoneInside DEF EdgesInv
<1>3. CASE AtBorder(g, p, s)
  BY <1>1, <1>2, <1>3 DEF Shaped, IsEdge
<1>4. CASE ~AtBorder(g, p, s)
  <2>1. /\ q \in PieceIds(g) /\ t \in SideSet /\ ~AtBorder(g, q, t) /\ NeighborOf(g, q, t) = p
        /\ s \notin Own => q < p /\ t \in Own
    <3> HIDE DEF g
    <3> QED
      BY <1>1, <1>4, Across
  <2>2. Facing[t] = s /\ q \in Nat
    BY <1>1, <2>1, OwnSides, PiecePlaced
  <2> HIDE DEF g, q, t
  <2>3. CASE s \in Own
    <3>1. Matched(g, edges, p)
      BY <1>1, <1>2
    <3>2. edges[p][s].tab = edges[q][t].tab /\ {edges[p][s].kind, edges[q][t].kind} = {"tab", "blank"}
      BY <1>1, <1>2, <1>4, <2>3, <3>1 DEF Matched, Opposed, q, t
    <3> QED
      BY <1>4, <3>2 DEF g, q, t
  <2>4. CASE s \notin Own
    <3>1. Matched(g, edges, q) /\ t \in Own
      BY <1>1, <1>2, <2>1, <2>2, <2>4
    <3>2. edges[q][t].tab = edges[p][s].tab
      BY <2>1, <2>2, <3>1 DEF Matched
    <3>3. {edges[q][t].kind, edges[p][s].kind} = {"tab", "blank"}
      BY <1>2, <2>1, <2>2, <3>1 DEF Opposed
    <3>4. {edges[p][s].kind, edges[q][t].kind} = {"tab", "blank"}
      BY <3>3
    <3> QED
      BY <1>4, <3>2, <3>4 DEF g, q, t
  <2> QED
    BY <2>3, <2>4
<1> QED
  BY <1>3, <1>4

LEMMA InvTabsHold == IInv => TabsHold
<1> SUFFICES ASSUME IInv, NEW p \in Done, NEW s \in SideSet, edges[p][s].kind # "flat"
             PROVE  TabHolds(edges[p][s].tab)
  BY DEF TabsHold, TabHolds
<1>1. IsEdge(Grid, p, s, edges[p][s])
  BY DoneInside DEF EdgesInv, Shaped
<1>2. edges[p][s].tab \in AllTabs
  BY <1>1 DEF IsEdge, FlatEdge
<1> QED
  BY <1>2, LegacyHolds, DrawnHolds DEF AllTabs

LEMMA InvNoTwins == IInv => NoTwins
<1>1. ASSUME NEW p \in Done, IInv PROVE stage = "cutting"
  BY <1>1, DoneInside
<1> QED
  BY <1>1 DEF IInv, NoTwins

\* In a room of any size, whatever tabs are drawn and however often a piece is
\* drawn again: the finished pieces lie against their neighbours with the same
\* curve and opposite kinds, every tab holds and stays in its corridor, and no
\* two are alike in any turn unless the attempts ran out.
THEOREM PiecesFitCorrect == Spec => []PiecesFit
<1>1. IInv => PiecesFit
  BY InvInterlocking, InvNoTwins, InvTabsHold DEF PiecesFit
<1> QED
  BY <1>1, Invariance, PTL

\* Whatever file is uploaded, however it is scaled for storage, and whichever
\* count is asked of the gallery's copy later: the verdict and the grid are the
\* original's.
THEOREM JudgedCorrect == Spec => []JudgedByOriginal
<1>1. IInv => JudgedByOriginal
  BY DEF IInv, StageInv, JudgedByOriginal, Grid
<1> QED
  BY <1>1, Invariance, PTL

-----------------------------------------------------------------------------
(* The cloth and the cells.                                                  *)

\* A number has a root, rounded down, of either grain.
LEMMA StepExists ==
  ASSUME NEW n \in Nat, NEW d \in Positive
  PROVE  \E t \in Nat : (d * t) * (d * t) <= n /\ (d * t + d) * (d * t + d) > n
<1> DEFINE B == {t \in Nat : (d * t + d) * (d * t + d) > n}
<1>0. d \in Nat /\ d > 0
  BY DEF Positive
<1>1. n \in B
  <2>1. d * n \in Nat /\ d * n >= n
    <3>1. (d - 1) * n >= 0
      BY <1>0
    <3>2. (d - 1) * n = d * n - n /\ d * n \in Nat
      BY <1>0
    <3> QED
      BY <3>1, <3>2
  <2> DEFINE m == d * n + d
  <2>2. m \in Nat /\ m >= n + 1
    BY <1>0, <2>1
  <2> HIDE DEF m
  <2>3. m * m >= m
    <3>1. (m - 1) * m >= 0
      BY <2>2
    <3>2. (m - 1) * m = m * m - m
      BY <2>2
    <3> QED
      BY <2>2, <3>1, <3>2
  <2>4. m * m \in Nat
    BY <2>2
  <2> QED
    BY <2>2, <2>3, <2>4 DEF m
<1>2. B \in SUBSET Nat /\ B # {}
  BY <1>1
<1> HIDE DEF B
<1>3. PICK t \in B : \A o \in B : t <= o
  BY <1>2, NatMin
<1>4. t \in Nat /\ (d * t + d) * (d * t + d) > n
  BY <1>2, <1>3 DEF B
<1>5. (d * t) * (d * t) <= n
  <2>1. CASE t = 0
    <3>1. d * t = 0
      BY <1>0, <2>1
    <3> QED
      BY <3>1
  <2>2. CASE t # 0
    <3>1. t - 1 \in Nat /\ t - 1 \notin B
      <4>1. t - 1 \in Nat /\ ~ (t <= t - 1)
        BY <1>4, <2>2
      <4> QED
        BY <1>3, <4>1
    <3>2. ~ ((d * (t - 1) + d) * (d * (t - 1) + d) > n)
      BY <3>1 DEF B
    <3>3. d * (t - 1) + d = d * t /\ d * t \in Nat
      BY <1>0, <1>4
    <3>4. (d * t) * (d * t) \in Nat
      BY <3>3
    <3> QED
      BY <3>2, <3>3, <3>4
  <2> QED
    BY <2>1, <2>2
<1> QED
  BY <1>4, <1>5

\* The model's root is the root, rounded down.
LEMMA RootIsRoot ==
  ASSUME NEW n \in Nat
  PROVE  Root(n) \in Nat /\ Root(n) * Root(n) <= n /\ (Root(n) + 1) * (Root(n) + 1) > n
<1> DEFINE Grain(d, t) == (d * t) * (d * t) <= n /\ (d * t + d) * (d * t + d) > n
           Nearest(r) == r * r <= n /\ (r + 1) * (r + 1) > n
<1>0. \A d \in Positive : \E t \in Nat : Grain(d, t)
  BY StepExists
<1> HIDE DEF Grain
<1>1a. PICK t \in Nat : Grain(256, t)
  <2>1. 256 \in Positive
    BY DEF Positive
  <2> QED
    BY <1>0, <2>1
<1>1. (256 * t) * (256 * t) <= n /\ (256 * t + 256) * (256 * t + 256) > n
  BY <1>1a DEF Grain
<1>2. t \in 0..(n \div 65536)
  <2>1. (256 * t) * (256 * t) = 65536 * (t * t) /\ t * t \in Nat
    BY <1>1
  <2>2. t <= t * t
    <3>1. CASE t = 0
      BY <2>1, <3>1
    <3>2. CASE t # 0
      <4>1. (t - 1) * t >= 0
        BY <3>2
      <4>2. (t - 1) * t = t * t - t
        OBVIOUS
      <4> QED
        BY <2>1, <4>1, <4>2
    <3> QED
      BY <3>1, <3>2
  <2>3. 65536 * t <= n
    BY <1>1, <2>1, <2>2
  <2> QED
    BY <2>3
<1>3. /\ Coarse(n) \in 0..(n \div 65536)
      /\ (256 * Coarse(n)) * (256 * Coarse(n)) <= n
      /\ (256 * Coarse(n) + 256) * (256 * Coarse(n) + 256) > n
  <2> DEFINE range == 0..(n \div 65536)
             Q(k) == Grain(256, k)
  <2>1. Coarse(n) = CHOOSE k \in range : Q(k)
    BY DEF Coarse, Grain
  <2>3. t \in range /\ Q(t)
    BY <1>1a, <1>2
  <2> HIDE DEF range, Q
  <2>4. Coarse(n) \in range /\ Q(Coarse(n))
    BY <2>1, <2>3, Zenon
  <2>2. Coarse(n) \in 0..(n \div 65536) /\ Grain(256, Coarse(n))
    BY <2>4 DEF range, Q
  <2> QED
    BY <2>2 DEF Grain
<1> DEFINE c == 256 * Coarse(n)
<1>4. c \in Nat /\ c * c <= n /\ (c + 256) * (c + 256) > n
  BY <1>3
<1>5. Root(n) = CHOOSE r \in c..(c + 255) : Nearest(r)
  BY DEF Root
<1> HIDE DEF c
<1>6. PICK r \in Nat : r * r <= n /\ (r + 1) * (r + 1) > n
  <2>0. 1 \in Positive
    BY DEF Positive
  <2>1. PICK r \in Nat : Grain(1, r)
    BY <1>0, <2>0
  <2>2. 1 * r = r
    OBVIOUS
  <2> QED
    BY <2>1, <2>2 DEF Grain
<1>7. c <= r
  <2> SUFFICES ASSUME r + 1 <= c PROVE FALSE
    BY <1>4, <1>6
  <2>1. (c - (r + 1)) * (c + (r + 1)) >= 0
    BY <1>4
  <2>2. (c - (r + 1)) * (c + (r + 1)) = c * c - (r + 1) * (r + 1)
    BY <1>4
  <2>3. c * c \in Nat /\ (r + 1) * (r + 1) \in Nat
    BY <1>4
  <2> QED
    BY <1>4, <1>6, <2>1, <2>2, <2>3
<1>8. r <= c + 255
  <2> SUFFICES ASSUME r >= c + 256 PROVE FALSE
    BY <1>4, <1>6
  <2>1. (r - (c + 256)) * (r + (c + 256)) >= 0
    BY <1>4
  <2>2. (r - (c + 256)) * (r + (c + 256)) = r * r - (c + 256) * (c + 256)
    BY <1>4
  <2>3. r * r \in Nat /\ (c + 256) * (c + 256) \in Nat
    BY <1>4
  <2> QED
    BY <1>4, <1>6, <2>1, <2>2, <2>3
<1>9. r \in c..(c + 255)
  BY <1>4, <1>7, <1>8
<1>10. Nearest(r)
  BY <1>6
<1> HIDE DEF Nearest
<1>11. Root(n) \in c..(c + 255) /\ Nearest(Root(n))
  BY <1>5, <1>9, <1>10, Zenon
<1> QED
  BY <1>4, <1>11 DEF Nearest

\* The cloth reaches at least a footprint, a pitch and a footprint beyond the
\* frame, and the mat beyond the play area.
Reach == FOOTPRINT + SCATTER_PITCH + FOOTPRINT

Spread(b) == b.minX \in Int /\ b.minY \in Int /\ b.maxX \in Int /\ b.maxY \in Int

Within(a, b) ==
  b.minX <= a.minX /\ b.minY <= a.minY /\ a.maxX <= b.maxX /\ a.maxY <= b.maxY

LEMMA BoundsHold ==
  ASSUME NEW g \in Grids
  PROVE  /\ Spread(ScatterBounds(g)) /\ Spread(PlayArea(g)) /\ Spread(MatBounds(g))
         /\ Within(ScatterBounds(g), PlayArea(g)) /\ Within(PlayArea(g), MatBounds(g))
         /\ ScatterBounds(g).minX <= -Reach /\ ScatterBounds(g).maxX >= 100 * g.cols + Reach
         /\ ScatterBounds(g).minY <= -Reach /\ ScatterBounds(g).maxY >= 100 * g.rows + Reach
<1>0. g.rows \in Nat /\ g.rows > 0 /\ g.cols \in Nat /\ g.cols > 0
  BY DEF Grids
<1>1. Band(g) \in Int
  <2> DEFINE half == (g.rows + g.cols) * CELL_SIZE
             need == g.rows * g.cols * 145 * ((SCATTER_PITCH * SCATTER_PITCH) \div 100)
  <2>1. half \in Nat
    BY <1>0 DEF CELL_SIZE
  <2>2. need \in Nat
    <3>1. g.rows * g.cols \in Nat
      BY <1>0
    <3>2. (SCATTER_PITCH * SCATTER_PITCH) \div 100 = 256
      BY DEF SCATTER_PITCH
    <3> QED
      BY <3>1, <3>2
  <2>3. Band(g) = (Root(half * half + 4 * need) - half) \div 4
    BY DEF Band
  <2> HIDE DEF half, need
  <2>4. half * half \in Nat
    BY <2>1
  <2> DEFINE n == half * half + 4 * need
  <2>a. n \in Nat
    BY <2>2, <2>4
  <2> HIDE DEF n
  <2>b. Root(n) \in Nat
    BY <2>a, RootIsRoot
  <2>5. Root(half * half + 4 * need) \in Nat
    BY <2>b DEF n
  <2> QED
    BY <2>1, <2>3, <2>5
<1> DEFINE r == SortingInset(g) + FOOTPRINT
           S == ScatterBounds(g)
           P == PlayArea(g)
           M == MatBounds(g)
<1>2. r \in Int /\ r >= Reach /\ Reach = 366
  BY <1>1 DEF SortingInset, Larger, Reach, FOOTPRINT, SCATTER_PITCH, PIECE_HALF, OVERHANG, MAX_JITTER
<1>3. S = [minX |-> -r, minY |-> -r, maxX |-> g.cols * 100 + r, maxY |-> g.rows * 100 + r]
  <2>1. 0 - r = -r
    BY <1>2
  <2> QED
    BY <2>1 DEF ScatterBounds, Widened, FrameOf, CELL_SIZE
<1> HIDE DEF r, S
<1>4. /\ S.minX \in Int /\ S.minY \in Int /\ S.maxX \in Int /\ S.maxY \in Int
      /\ S.minX <= -366 /\ S.minY <= -366 /\ S.maxX >= 100 * g.cols + 366 /\ S.maxY >= 100 * g.rows + 366
  BY <1>0, <1>2, <1>3
<1> DEFINE w == WidthOf(S)
           h == HeightOf(S)
           dx == (Larger(w, (h * 8) \div 5) - w) \div 2
           dy == (Larger(h, (w * 5) \div 8) - h) \div 2
<1>5. w \in Nat /\ h \in Nat
  BY <1>0, <1>4 DEF WidthOf, HeightOf
<1>6. P = [minX |-> S.minX - dx, minY |-> S.minY - dy, maxX |-> S.maxX + dx, maxY |-> S.maxY + dy]
  BY DEF PlayArea, Widened, S
<1> HIDE DEF w, h
<1>7. dx \in Nat /\ dy \in Nat
  BY <1>5 DEF Larger
<1> HIDE DEF dx, dy, P
<1>8. /\ P.minX \in Int /\ P.minY \in Int /\ P.maxX \in Int /\ P.maxY \in Int
      /\ P.minX <= S.minX /\ P.minY <= S.minY /\ P.maxX >= S.maxX /\ P.maxY >= S.maxY
  BY <1>4, <1>6, <1>7
<1> DEFINE hem == (2 * Smaller(WidthOf(P), HeightOf(P))) \div 96
<1>9. M = [minX |-> P.minX - hem, minY |-> P.minY - hem, maxX |-> P.maxX + hem, maxY |-> P.maxY + hem]
  BY DEF MatBounds, Widened, P
<1>10. hem \in Nat
  <2>1. WidthOf(P) \in Nat /\ HeightOf(P) \in Nat
    BY <1>0, <1>4, <1>8 DEF WidthOf, HeightOf
  <2> QED
    BY <2>1 DEF Smaller
<1> HIDE DEF hem, M
<1>11. /\ M.minX \in Int /\ M.minY \in Int /\ M.maxX \in Int /\ M.maxY \in Int
       /\ M.minX <= P.minX /\ M.minY <= P.minY /\ M.maxX >= P.maxX /\ M.maxY >= P.maxY
  BY <1>8, <1>9, <1>10
<1> QED
  BY <1>2, <1>4, <1>8, <1>11 DEF Spread, Within, S, P, M

\* The points of a lattice lie between its ends, and its pitch, in whole units, from each
\* other.
LEMMA LatticePoints ==
  ASSUME NEW lo \in Int, NEW hi \in Int, NEW pitch \in Positive, NEW unit \in Nat, 10 * unit <= pitch
  PROVE  /\ \A x \in Lattice(lo, hi, pitch) : x \in Int /\ lo <= x /\ x <= hi
         /\ \A x, y \in Lattice(lo, hi, pitch) : x # y => Apart(x, y, unit)
<1> DEFINE m == (10 * (hi - lo)) \div pitch
<1>0. pitch \in Nat /\ pitch > 0
  BY DEF Positive
<1>1. m \in Int /\ m * pitch <= 10 * (hi - lo)
  <2>1. ASSUME NEW n \in Int
        PROVE  n \div pitch \in Int /\ n % pitch \in Nat /\ n = pitch * (n \div pitch) + (n % pitch)
    BY <1>0
  <2>2. 10 * (hi - lo) \in Int
    OBVIOUS
  <2> DEFINE n == 10 * (hi - lo)
             rest == n % pitch
  <2>3. m \in Int /\ rest \in Nat /\ n = pitch * m + rest
    BY <2>1, <2>2
  <2> HIDE DEF m, rest
  <2>4. pitch * m = m * pitch /\ m * pitch \in Int
    BY <1>0, <2>3
  <2> QED
    BY <2>3, <2>4
<1>2. Lattice(lo, hi, pitch) = {lo + (k * pitch) \div 10 : k \in 0..m}
  BY DEF Lattice
<1> HIDE DEF m
<1>3. ASSUME NEW x \in Lattice(lo, hi, pitch) PROVE x \in Int /\ lo <= x /\ x <= hi
  <2>1. PICK k \in 0..m : x = lo + (k * pitch) \div 10
    BY <1>2
  <2>2. k \in Nat /\ k <= m
    BY <1>1
  <2>3. k * pitch \in Nat
    BY <1>0, <2>2
  <2>4. k * pitch <= m * pitch
    <3>1. (m - k) * pitch >= 0
      BY <1>0, <1>1, <2>2
    <3>2. (m - k) * pitch = m * pitch - k * pitch /\ m * pitch \in Int
      BY <1>0, <1>1, <2>2
    <3> QED
      BY <2>3, <3>1, <3>2
  <2>5. m * pitch \in Int
    BY <1>0, <1>1
  <2> DEFINE far == k * pitch
  <2>6. far \in Nat /\ far <= 10 * (hi - lo)
    BY <1>1, <2>3, <2>4, <2>5
  <2> HIDE DEF far
  <2>7. far \div 10 \in Nat /\ far \div 10 <= hi - lo
    BY <2>6
  <2> QED
    BY <2>1, <2>7 DEF far
<1>4. ASSUME NEW i \in Int, NEW j \in Int, i < j
      PROVE  /\ (lo + (j * pitch) \div 10) - (lo + (i * pitch) \div 10) >= unit
             /\ (i * pitch) \div 10 \in Int /\ (j * pitch) \div 10 \in Int
  <2>1. (j - i - 1) * pitch >= 0
    BY <1>0, <1>4
  <2>2. (j - i - 1) * pitch = j * pitch - i * pitch - pitch /\ j * pitch \in Int /\ i * pitch \in Int
    BY <1>0
  <2> DEFINE near == i * pitch
             far == j * pitch
  <2>3. near \in Int /\ far \in Int /\ far - near >= 10 * unit
    BY <1>0, <2>1, <2>2
  <2> HIDE DEF near, far
  <2>4. near \div 10 \in Int /\ far \div 10 \in Int /\ far \div 10 - near \div 10 >= unit
    BY <2>3
  <2> QED
    BY <2>4 DEF near, far
<1>5. ASSUME NEW x \in Lattice(lo, hi, pitch), NEW y \in Lattice(lo, hi, pitch), x # y
      PROVE  Apart(x, y, unit)
  <2>1. PICK i \in 0..m : x = lo + (i * pitch) \div 10
    BY <1>2
  <2>2. PICK j \in 0..m : y = lo + (j * pitch) \div 10
    BY <1>2
  <2>3. i \in Int /\ j \in Int /\ i # j
    BY <1>5, <2>1, <2>2
  <2>4. CASE i < j
    BY <1>4, <2>1, <2>2, <2>3, <2>4 DEF Apart
  <2>5. CASE j < i
    BY <1>4, <2>1, <2>2, <2>3, <2>5 DEF Apart
  <2> QED
    BY <2>3, <2>4, <2>5
<1> QED
  BY <1>3, <1>5

\* One of the tries is taken.
LEMMA TryTaken ==
  ASSUME NEW g \in Grids
  PROVE  /\ ChosenTry(g) \in 1..12
         /\ Tries[ChosenTry(g)].jitter \in {0, 5, 10, 15} /\ Tries[ChosenTry(g)].pitch \in {1156, 1360, 1600}
<1> DEFINE enough(i) == Cardinality(CentersOf(g, Tries[i])) >= g.rows * g.cols
           fit(i) == (enough(i) \/ i = 12) /\ \A j \in 1..(i - 1) : ~enough(j)
           A == {i \in 1..12 : enough(i) \/ i = 12}
<1>1. Len(Tries) = 12
  BY DEF Tries
<1>2. ChosenTry(g) = CHOOSE i \in 1..12 : fit(i)
  BY <1>1 DEF ChosenTry
<1> HIDE DEF enough
<1>3. 12 \in A /\ A \in SUBSET Nat
  OBVIOUS
<1>4. \E i \in A : \A j \in A : i <= j
  <2> HIDE DEF A
  <2> QED
    BY <1>3, NatMin
<1>5. PICK i \in A : \A j \in A : i <= j
  BY <1>4
<1>6. i \in 1..12 /\ fit(i)
  <2>1. i \in 1..12 /\ (enough(i) \/ i = 12)
    OBVIOUS
  <2>2. ASSUME NEW j \in 1..(i - 1) PROVE ~enough(j)
    <3>1. j \in 1..12 /\ ~ (i <= j)
      BY <2>1
    <3>2. j \notin A
      BY <1>5, <3>1
    <3> QED
      BY <3>1, <3>2
  <2> QED
    BY <2>1, <2>2
<1> DEFINE all == 1..12
<1>7. ChosenTry(g) \in all
  <2> HIDE DEF fit, all
  <2>1. ChosenTry(g) = CHOOSE k \in all : fit(k)
    BY <1>2 DEF all
  <2>2. i \in all /\ fit(i)
    BY <1>6 DEF all
  <2> QED
    BY <2>1, <2>2, Zenon
<1>8. \A k \in 1..12 : Tries[k].jitter \in {0, 5, 10, 15} /\ Tries[k].pitch \in {1156, 1360, 1600}
  <2> SUFFICES ASSUME NEW k \in 1..12
               PROVE  Tries[k].jitter \in {0, 5, 10, 15} /\ Tries[k].pitch \in {1156, 1360, 1600}
    OBVIOUS
  <2>1. (k - 1) \div 3 \in {0, 1, 2, 3} /\ (k - 1) % 3 \in {0, 1, 2}
    OBVIOUS
  <2>2. Pitches[1] = 1600 /\ Pitches[2] = 1360 /\ Pitches[3] = 1156
    BY DEF Pitches, SCATTER_PITCH
  <2>3. /\ Tries[k].jitter = MAX_JITTER - 5 * ((k - 1) \div 3)
        /\ Tries[k].pitch = Pitches[1 + ((k - 1) % 3)]
    BY DEF Tries
  <2>4. Tries[k].jitter \in {0, 5, 10, 15}
    BY <2>1, <2>3 DEF MAX_JITTER
  <2>5. Tries[k].pitch \in {1156, 1360, 1600}
    <3> DEFINE turn == (k - 1) % 3
    <3>1. turn \in {0, 1, 2} /\ Tries[k].pitch = Pitches[1 + turn]
      BY <2>1, <2>3
    <3> HIDE DEF turn
    <3> QED
      BY <2>2, <3>1
  <2> QED
    BY <2>4, <2>5
<1> QED
  BY <1>7, <1>8

Roomy(g, cells, jitter) ==
  LET area == PlayArea(g)
      frame == FrameOf(g)
      reach == PIECE_HALF + OVERHANG + jitter
      pitch == CELL_SIZE + 2 * jitter
  IN  /\ \A c, o \in cells : c # o => Apart(c.x, o.x, pitch) \/ Apart(c.y, o.y, pitch)
      /\ \A c \in cells :
           /\ c.x - reach >= area.minX /\ c.x + reach <= area.maxX
           /\ c.y - reach >= area.minY /\ c.y + reach <= area.maxY
           /\ \/ c.x + reach <= frame.minX \/ c.x - reach >= frame.maxX
              \/ c.y + reach <= frame.minY \/ c.y - reach >= frame.maxY

LEMMA ScatterRoomy ==
  ASSUME NEW g \in Grids
  PROVE  LET l == InitialScatter(g) IN
         /\ l.cells \subseteq [x : Int, y : Int] /\ l.jitter \in Nat
         /\ Roomy(g, l.cells, l.jitter)
<1> DEFINE t == Tries[ChosenTry(g)]
           cells == InitialScatter(g).cells
           jitter == InitialScatter(g).jitter
           b == PlayArea(g)
           footprint == 88 + t.jitter
           xs == Lattice(b.minX + footprint, b.maxX - footprint, t.pitch)
           ys == Lattice(b.minY + footprint, b.maxY - footprint, t.pitch)
<1>1. t.jitter \in {0, 5, 10, 15} /\ t.pitch \in {1156, 1360, 1600}
  BY TryTaken
<1>2. cells \subseteq CentersOf(g, t) /\ jitter = Smaller(t.jitter, (t.pitch - 1000) \div 20)
  BY DEF InitialScatter, Eligible, CELL_SIZE
<1>3. CentersOf(g, t) = {c \in [x : xs, y : ys] : ~InsideFrame(c, g, footprint)}
  BY DEF CentersOf, ValidCellCenters, PIECE_HALF, OVERHANG
<1> HIDE DEF t, cells, jitter
<1>4. /\ jitter \in Nat /\ jitter <= t.jitter /\ t.jitter \in Nat
      /\ 10 * (100 + 2 * jitter) <= t.pitch /\ t.pitch \in Positive
  BY <1>1, <1>2 DEF Smaller, Positive
<1>5. b.minX \in Int /\ b.maxX \in Int /\ b.minY \in Int /\ b.maxY \in Int
  BY BoundsHold DEF Spread
<1> HIDE DEF b
<1>6. footprint \in Nat /\ b.minX + footprint \in Int /\ b.maxX - footprint \in Int
      /\ b.minY + footprint \in Int /\ b.maxY - footprint \in Int
  BY <1>4, <1>5
<1> HIDE DEF footprint
<1>7. /\ \A x \in xs : x \in Int /\ b.minX + footprint <= x /\ x <= b.maxX - footprint
      /\ \A y \in ys : y \in Int /\ b.minY + footprint <= y /\ y <= b.maxY - footprint
      /\ \A x, o \in xs : x # o => Apart(x, o, 100 + 2 * jitter)
      /\ \A y, o \in ys : y # o => Apart(y, o, 100 + 2 * jitter)
  <2>1. 100 + 2 * jitter \in Nat
    BY <1>4
  <2>2. ASSUME NEW lo \in Int, NEW hi \in Int
        PROVE  /\ \A x \in Lattice(lo, hi, t.pitch) : x \in Int /\ lo <= x /\ x <= hi
               /\ \A x, o \in Lattice(lo, hi, t.pitch) : x # o => Apart(x, o, 100 + 2 * jitter)
    BY <1>4, <2>1, LatticePoints
  <2> QED
    BY <1>6, <2>2
<1> HIDE DEF xs, ys
<1>8. \A c \in cells : c \in [x : xs, y : ys] /\ ~InsideFrame(c, g, footprint)
  BY <1>2, <1>3
<1>9. ASSUME NEW c \in cells
      PROVE  /\ c.x \in xs /\ c.y \in ys /\ c = [x |-> c.x, y |-> c.y] /\ c.x \in Int /\ c.y \in Int
             /\ b.minX + footprint <= c.x /\ c.x <= b.maxX - footprint
             /\ b.minY + footprint <= c.y /\ c.y <= b.maxY - footprint
             /\ ~InsideFrame(c, g, footprint)
  BY <1>7, <1>8
<1>10. ASSUME NEW c \in cells, NEW o \in cells, c # o
       PROVE  Apart(c.x, o.x, 100 + 2 * jitter) \/ Apart(c.y, o.y, 100 + 2 * jitter)
  <2>1. c.x # o.x \/ c.y # o.y
    BY <1>9, <1>10
  <2> QED
    BY <1>7, <1>9, <2>1
<1>11. g.rows \in Nat /\ g.cols \in Nat
  BY DEF Grids
<1>12. ASSUME NEW c \in cells
       PROVE  LET reach == 88 + jitter IN
              /\ c.x - reach >= b.minX /\ c.x + reach <= b.maxX
              /\ c.y - reach >= b.minY /\ c.y + reach <= b.maxY
              /\ \/ c.x + reach <= 0 \/ c.x - reach >= g.cols * 100
                 \/ c.y + reach <= 0 \/ c.y - reach >= g.rows * 100
  <2> DEFINE reach == 88 + jitter
  <2>1. reach \in Nat /\ reach <= footprint
    BY <1>4 DEF footprint
  <2> HIDE DEF reach
  <2>2. /\ c.x \in Int /\ c.y \in Int
        /\ b.minX + footprint <= c.x /\ c.x <= b.maxX - footprint
        /\ b.minY + footprint <= c.y /\ c.y <= b.maxY - footprint
    BY <1>9
  <2>3. \/ c.x < -footprint \/ c.x > g.cols * 100 + footprint
        \/ c.y < -footprint \/ c.y > g.rows * 100 + footprint
    BY <1>6, <1>9, <1>11, <2>2 DEF InsideFrame, CELL_SIZE
  <2>4. /\ c.x - reach >= b.minX /\ c.x + reach <= b.maxX
        /\ c.y - reach >= b.minY /\ c.y + reach <= b.maxY
    BY <1>5, <1>6, <2>1, <2>2
  <2>5. \/ c.x + reach <= 0 \/ c.x - reach >= g.cols * 100
        \/ c.y + reach <= 0 \/ c.y - reach >= g.rows * 100
    BY <1>6, <1>11, <2>1, <2>2, <2>3
  <2> QED
    BY <2>4, <2>5 DEF reach
<1>13. Roomy(g, cells, jitter)
  BY <1>10, <1>12 DEF Roomy, FrameOf, PIECE_HALF, OVERHANG, CELL_SIZE, b
<1>14. cells \subseteq [x : Int, y : Int]
  BY <1>9
<1> QED
  BY <1>4, <1>13, <1>14 DEF cells, jitter

-----------------------------------------------------------------------------
(* The camera.                                                               *)

Cameras == [x : Int, y : Int, scale : Nat \ {0}]
Sheet(mat) == Spread(mat) /\ mat.minX < mat.maxX /\ mat.minY < mat.maxY

LEMMA OnScreenType ==
  ASSUME NEW n \in Int, NEW s \in Int
  PROVE  OnScreen(n, s) \in Int /\ n * s \in Int
<1>1. n * s \in Int
  OBVIOUS
<1> QED
  BY <1>1 DEF OnScreen, Scale

\* A longer length is not shorter on the screen; two in a row are as long there
\* as together, but for a pixel.
LEMMA OnScreenOrder ==
  ASSUME NEW n \in Int, NEW m \in Int, NEW s \in Nat, n <= m
  PROVE  /\ OnScreen(n, s) <= OnScreen(m, s)
         /\ OnScreen(m, s) <= OnScreen(n, s) + OnScreen(m - n, s) + 1
<1>1. n * s \in Int /\ m * s \in Int /\ (m - n) * s \in Int
  OBVIOUS
<1>2. (m - n) * s >= 0 /\ (m - n) * s = m * s - n * s
  OBVIOUS
<1>3. \A a, b \in Int : b >= 0 =>
        /\ a \div 10000 <= (a + b) \div 10000
        /\ (a + b) \div 10000 <= a \div 10000 + b \div 10000 + 1
  OBVIOUS
<1> DEFINE a == n * s
           b == (m - n) * s
<1>4. m * s = a + b /\ a \in Int /\ b \in Int /\ b >= 0
  BY <1>1, <1>2
<1> HIDE DEF a, b
<1>5. a \div 10000 <= (a + b) \div 10000 /\ (a + b) \div 10000 <= a \div 10000 + b \div 10000 + 1
  BY <1>3, <1>4
<1> QED
  BY <1>4, <1>5 DEF OnScreen, Scale, a, b

\* An edge is left where it is, or moved to the nearest end of its range.
LowEnd(size, v) == Smaller(0, v - size) - PAN_OVERSCROLL_PX
HighEnd(size, v) == Larger(0, v - size) + PAN_OVERSCROLL_PX

EdgeHeld(e, size, v) ==
  LET c == ClampEdge(e, size, v) IN
  /\ c \in Int /\ LowEnd(size, v) <= c /\ c <= HighEnd(size, v)
  /\ e <= LowEnd(size, v) => c = LowEnd(size, v)
  /\ e >= HighEnd(size, v) => c = HighEnd(size, v)
  /\ LowEnd(size, v) <= e /\ e <= HighEnd(size, v) => c = e

LEMMA ClampEdgeHolds == \A e, size, v \in Int : EdgeHeld(e, size, v)
BY DEF EdgeHeld, LowEnd, HighEnd, ClampEdge, Larger, Smaller, PAN_OVERSCROLL_PX

LEMMA Clamped ==
  ASSUME NEW cam \in Cameras, NEW mat, Spread(mat), NEW v \in [width : Nat, height : Nat]
  PROVE  LET left == OnScreen(mat.minX, cam.scale)
             top == OnScreen(mat.minY, cam.scale)
         IN  /\ ClampCamera(cam, mat, v) =
                   [x |-> ClampEdge(cam.x + left, OnScreen(WidthOf(mat), cam.scale), v.width) - left,
                    y |-> ClampEdge(cam.y + top, OnScreen(HeightOf(mat), cam.scale), v.height) - top,
                    scale |-> cam.scale]
             /\ ClampCamera(cam, mat, v) \in Cameras
<1> DEFINE left == OnScreen(mat.minX, cam.scale)
           top == OnScreen(mat.minY, cam.scale)
           width == OnScreen(WidthOf(mat), cam.scale)
           height == OnScreen(HeightOf(mat), cam.scale)
           x == ClampEdge(cam.x + left, width, v.width) - left
           y == ClampEdge(cam.y + top, height, v.height) - top
<1>1. cam.x \in Int /\ cam.y \in Int /\ cam.scale \in Nat \ {0} /\ cam = [x |-> cam.x, y |-> cam.y, scale |-> cam.scale]
  BY DEF Cameras
<1>2. left \in Int /\ top \in Int /\ width \in Int /\ height \in Int
  <2>1. mat.minX \in Int /\ mat.minY \in Int /\ WidthOf(mat) \in Int /\ HeightOf(mat) \in Int /\ cam.scale \in Int
    BY <1>1 DEF Spread, WidthOf, HeightOf
  <2> QED
    BY <2>1, OnScreenType
<1>3. ClampCamera(cam, mat, v) = [cam EXCEPT !.x = x, !.y = y]
  BY DEF ClampCamera
<1> HIDE DEF left, top, width, height
<1>4. cam.x + left \in Int /\ cam.y + top \in Int
  BY <1>1, <1>2
<1>5. EdgeHeld(cam.x + left, width, v.width) /\ EdgeHeld(cam.y + top, height, v.height)
  BY <1>2, <1>4, ClampEdgeHolds
<1>6. x \in Int /\ y \in Int
  BY <1>2, <1>5 DEF EdgeHeld
<1> HIDE DEF x, y
<1>7. ClampCamera(cam, mat, v) = [x |-> x, y |-> y, scale |-> cam.scale]
  BY <1>1, <1>3
<1>8. ClampCamera(cam, mat, v) \in Cameras
  BY <1>1, <1>6, <1>7 DEF Cameras
<1> QED
  BY <1>7, <1>8 DEF x, y, left, top, width, height

LEMMA ClampScaleType ==
  ASSUME NEW mat, Sheet(mat), NEW v \in [width : Nat, height : Nat], NEW scale \in Int
  PROVE  ClampScale(scale, mat, v) \in Nat \ {0} /\ Fit(mat, v) \in Nat \ {0}
<1>1. WidthOf(mat) \in Nat \ {0} /\ HeightOf(mat) \in Nat \ {0}
  BY DEF Sheet, Spread, WidthOf, HeightOf
<1>2. FitBox(v).width \in Nat /\ FitBox(v).height \in Nat
  BY DEF FitBox, Larger, BOARD_FIT_TRAY_INSET_PX
<1>3. ASSUME NEW n \in Nat, NEW d \in Nat \ {0} PROVE (n * 10000) \div d \in Int
  BY <1>3
<1>4. Fit(mat, v) \in Nat \ {0}
  <2> DEFINE a == (FitBox(v).width * 10000) \div WidthOf(mat)
             b == (FitBox(v).height * 10000) \div HeightOf(mat)
  <2>1. a \in Int /\ b \in Int
    BY <1>1, <1>2, <1>3
  <2>2. Fit(mat, v) = IF (Smaller(a, b) * 92) \div 100 > 0 THEN (Smaller(a, b) * 92) \div 100 ELSE 100
    BY DEF Fit, Scale
  <2> HIDE DEF a, b
  <2>3. (Smaller(a, b) * 92) \div 100 \in Int
    BY <2>1 DEF Smaller
  <2> QED
    BY <2>2, <2>3
<1>5. MaxScale(v) \in Int
  BY DEF MaxScale, Larger, Smaller, Scale, CELL_SIZE
<1> QED
  BY <1>4, <1>5 DEF ClampScale, MinScale, Larger, Smaller

\* A zoom: the spot under the cursor, and then the clamp.
LEMMA ZoomAtType ==
  ASSUME NEW cam \in Cameras, NEW mat, Sheet(mat), NEW v \in [width : Nat, height : Nat],
         NEW factor \in Factors, NEW a \in [x : Int, y : Int]
  PROVE  \E s \in Nat \ {0} :
           /\ Anchored(cam, a, s) \in Cameras
           /\ ZoomAt(cam, factor, a, mat, v) = ClampCamera(Anchored(cam, a, s), mat, v)
           /\ ZoomAt(cam, factor, a, mat, v) \in Cameras
<1> DEFINE asked == (cam.scale * factor.by) \div factor.over
           s == ClampScale(asked, mat, v)
<1>1. cam.x \in Int /\ cam.y \in Int /\ cam.scale \in Nat \ {0}
  BY DEF Cameras
<1>2. asked \in Int
  <2>1. factor = [by |-> 3, over |-> 1] \/ factor = [by |-> 1, over |-> 3]
    BY DEF Factors
  <2> QED
    BY <1>1, <2>1
<1> HIDE DEF asked
<1>3. s \in Nat \ {0}
  BY <1>2, ClampScaleType
<1>4. ZoomAt(cam, factor, a, mat, v) = ClampCamera([Anchored(cam, a, s) EXCEPT !.scale = s], mat, v)
  BY DEF ZoomAt, UsedScale, asked
<1> HIDE DEF s
<1>5. ASSUME NEW d \in Int PROVE (d * s) \div cam.scale \in Int
  <2>1. d * s \in Int
    BY <1>3
  <2> QED
    BY <1>1, <2>1
<1>6. Anchored(cam, a, s) \in Cameras /\ Anchored(cam, a, s) = [Anchored(cam, a, s) EXCEPT !.scale = s]
  <2>1. a.x - cam.x \in Int /\ a.y - cam.y \in Int
    BY <1>1
  <2>2. ((a.x - cam.x) * s) \div cam.scale \in Int /\ ((a.y - cam.y) * s) \div cam.scale \in Int
    BY <1>5, <2>1
  <2> QED
    BY <1>3, <2>2 DEF Anchored, Cameras
<1>7. ZoomAt(cam, factor, a, mat, v) = ClampCamera(Anchored(cam, a, s), mat, v)
  BY <1>4, <1>6
<1>8. ClampCamera(Anchored(cam, a, s), mat, v) \in Cameras
  BY <1>6, Clamped DEF Sheet
<1> QED
  BY <1>3, <1>6, <1>7, <1>8

\* The grain of a zoom: the spot is found again to a world unit and a pixel.
LEMMA ZoomGrain ==
  ASSUME NEW d \in Int, NEW s \in Nat \ {0}, NEW t \in Nat \ {0}
  PROVE  OnScreen((d * Scale) \div s, t) - (d * t) \div s \in -(t \div Scale + 1)..0
<1> DEFINE q == (d * 10000) \div s
           k == (d * t) \div s
           m == (q * t) \div 10000
           j == t \div 10000
<1>0. ASSUME NEW n \in Int, NEW p \in Nat \ {0}
      PROVE  n \div p \in Int /\ p * (n \div p) <= n /\ n < p * (n \div p) + p
  <2>1. n \div p \in Int /\ n % p \in 0..(p - 1) /\ n = p * (n \div p) + (n % p)
    BY <1>0
  <2>2. p * (n \div p) \in Int
    BY <2>1
  <2> QED
    BY <2>1, <2>2
<1>1. q \in Int /\ s * q <= 10000 * d /\ 10000 * d < s * q + s
  BY <1>0
<1> HIDE DEF q
<1>2. d * t \in Int /\ q * t \in Int
  BY <1>1
<1>3. k \in Int /\ s * k <= d * t /\ d * t < s * k + s
  BY <1>0, <1>2
<1>4. m \in Int /\ 10000 * m <= q * t /\ q * t < 10000 * m + 10000
  BY <1>0, <1>2
<1>5. j \in Nat /\ t < 10000 * j + 10000
  OBVIOUS
<1> HIDE DEF k, m, j
<1>6. s * q \in Int /\ s * k \in Int
  BY <1>1, <1>3
<1>7. s * (q * t) \in Int /\ (10000 * d - s * q) * t >= 0 /\ (s * q + s - 10000 * d) * t > 0
  BY <1>1, <1>2, <1>6
<1>8. /\ (10000 * d - s * q) * t = 10000 * (d * t) - s * (q * t)
      /\ (s * q + s - 10000 * d) * t = s * (q * t) + s * t - 10000 * (d * t)
  BY <1>1
<1>9. m <= k
  <2> SUFFICES ASSUME m >= k + 1 PROVE FALSE
    BY <1>3, <1>4
  <2>1. s * (q * t - 10000 * m) >= 0 /\ s * (q * t - 10000 * m) = s * (q * t) - 10000 * (s * m) /\ s * m \in Int
    BY <1>2, <1>4
  <2>2. s * (m - k - 1) >= 0 /\ s * (m - k - 1) = s * m - s * k - s
    BY <1>3, <1>4
  <2> QED
    BY <1>2, <1>3, <1>6, <1>7, <1>8, <2>1, <2>2
<1>10. m >= k - j - 1
  <2> SUFFICES ASSUME m + 1 <= k - j - 1 PROVE FALSE
    BY <1>3, <1>4, <1>5
  <2>1. s * (10000 * m + 10000 - q * t) >= 0
    BY <1>2, <1>4
  <2>2. s * (10000 * m + 10000 - q * t) = 10000 * (s * m) + 10000 * s - s * (q * t) /\ s * m \in Int
    BY <1>2, <1>4
  <2>3. s * (k - j - 2 - m) >= 0
    BY <1>3, <1>4, <1>5
  <2>4. s * (k - j - 2 - m) = s * k - s * j - 2 * s - s * m /\ s * j \in Int
    BY <1>3, <1>4, <1>5
  <2>5. s * (10000 * j + 10000 - t) > 0
    BY <1>5
  <2>6. s * (10000 * j + 10000 - t) = 10000 * (s * j) + 10000 * s - s * t /\ s * t \in Int
    BY <1>5
  <2> QED
    BY <1>2, <1>3, <1>6, <1>7, <1>8, <2>1, <2>2, <2>3, <2>4, <2>5, <2>6
<1>11. m - k \in -(j + 1)..0
  BY <1>3, <1>4, <1>5, <1>9, <1>10
<1> QED
  BY <1>11 DEF OnScreen, Scale, m, k, j, q

\* One axis of a zoom: the spot under the cursor stays there, or the clamp has
\* moved the edge to an end of its range, where five pixels more change nothing.
AxisHolds(pos, anchor, spot, s, left, size, v) ==
  LET held == ClampEdge(pos + left, size, v) - left IN
  \/ OnScreen(spot, s) + held - anchor \in -(s \div Scale + 1)..0
  \/ ClampEdge(held + 5 + left, size, v) - left = held
  \/ ClampEdge(held - 5 + left, size, v) - left = held

LEMMA AxisKept ==
  ASSUME NEW x \in Int, NEW anchor \in Int, NEW s \in Nat \ {0}, NEW t \in Nat \ {0},
         NEW left \in Int, NEW size \in Int, NEW v \in Int
  PROVE  AxisHolds(anchor - ((anchor - x) * t) \div s, anchor, ((anchor - x) * Scale) \div s, t, left, size, v)
<1> DEFINE d == anchor - x
           k == (d * t) \div s
           seen_ == OnScreen((d * Scale) \div s, t)
           pos == anchor - k
           held == ClampEdge(pos + left, size, v) - left
           lo == LowEnd(size, v)
           hi == HighEnd(size, v)
<1>1. d \in Int
  OBVIOUS
<1> HIDE DEF d
<1>2. seen_ - k \in -(t \div Scale + 1)..0
  BY <1>1, ZoomGrain
<1>3. k \in Int /\ seen_ \in Int
  <2>1. d * t \in Int /\ d * Scale \in Int
    BY <1>1 DEF Scale
  <2>2. (d * Scale) \div s \in Int /\ (d * t) \div s \in Int
    BY <2>1
  <2> QED
    BY <2>2, OnScreenType
<1> HIDE DEF k, seen_
<1>4. pos \in Int /\ EdgeHeld(pos + left, size, v)
  BY <1>3, ClampEdgeHolds
<1> HIDE DEF pos
<1>5. lo \in Int /\ hi \in Int /\ lo <= hi
  BY DEF LowEnd, HighEnd, Larger, Smaller, PAN_OVERSCROLL_PX
<1>6. held \in Int /\ EdgeHeld(held + 5 + left, size, v) /\ EdgeHeld(held - 5 + left, size, v)
  <2>1. held \in Int
    BY <1>4 DEF EdgeHeld
  <2> HIDE DEF held
  <2> QED
    BY <2>1, ClampEdgeHolds
<1>7. CASE lo <= pos + left /\ pos + left <= hi
  <2>1. held = pos
    BY <1>4, <1>7 DEF EdgeHeld
  <2> HIDE DEF held
  <2>2. seen_ + held - anchor = seen_ - k
    BY <1>3, <2>1 DEF pos
  <2>3. seen_ + held - anchor \in -(t \div Scale + 1)..0
    BY <1>2, <2>2
  <2> QED
    BY <2>3 DEF AxisHolds, seen_, held, pos, k, d
<1>8. CASE pos + left < lo
  <2>1. held = lo - left
    BY <1>4, <1>5, <1>8 DEF EdgeHeld
  <2> HIDE DEF held, lo
  <2>2. held - 5 + left <= lo
    BY <1>5, <2>1
  <2>3. ClampEdge(held - 5 + left, size, v) - left = held
    BY <1>6, <2>1, <2>2 DEF EdgeHeld, lo
  <2> QED
    BY <2>3 DEF AxisHolds, held, pos, k, d
<1>9. CASE pos + left > hi
  <2>1. held = hi - left
    BY <1>4, <1>5, <1>9 DEF EdgeHeld
  <2> HIDE DEF held, hi
  <2>2. held + 5 + left >= hi
    BY <1>5, <2>1
  <2>3. ClampEdge(held + 5 + left, size, v) - left = held
    BY <1>6, <2>1, <2>2 DEF EdgeHeld, hi
  <2> QED
    BY <2>3 DEF AxisHolds, held, pos, k, d
<1> QED
  BY <1>4, <1>5, <1>7, <1>8, <1>9

\* A clamped camera that moves along one axis only changes along that axis.
LEMMA MovedAlong ==
  ASSUME NEW cam \in Cameras, NEW mat, Sheet(mat), NEW v \in [width : Nat, height : Nat],
         NEW d \in {-5, 5}
  PROVE  LET after == ClampCamera(cam, mat, v)
             left == OnScreen(mat.minX, cam.scale)
             top == OnScreen(mat.minY, cam.scale)
             sideways == ClampCamera(Moved(after, [x |-> d, y |-> 0]), mat, v)
             upright == ClampCamera(Moved(after, [x |-> 0, y |-> d]), mat, v)
         IN  /\ ClampEdge(after.x + d + left, OnScreen(WidthOf(mat), cam.scale), v.width) - left = after.x
                  => sideways = after
             /\ ClampEdge(after.y + d + top, OnScreen(HeightOf(mat), cam.scale), v.height) - top = after.y
                  => upright = after
<1> DEFINE after == ClampCamera(cam, mat, v)
           left == OnScreen(mat.minX, cam.scale)
           top == OnScreen(mat.minY, cam.scale)
           width == OnScreen(WidthOf(mat), cam.scale)
           height == OnScreen(HeightOf(mat), cam.scale)
<1>0. Spread(mat) /\ d \in Int
  BY DEF Sheet
<1>1. /\ after = [x |-> ClampEdge(cam.x + left, width, v.width) - left,
                  y |-> ClampEdge(cam.y + top, height, v.height) - top, scale |-> cam.scale]
      /\ after \in Cameras
  BY <1>0, Clamped
<1>2. left \in Int /\ top \in Int /\ width \in Int /\ height \in Int /\ cam.x \in Int /\ cam.y \in Int
  <2>1. mat.minX \in Int /\ mat.minY \in Int /\ WidthOf(mat) \in Int /\ HeightOf(mat) \in Int
    BY <1>0 DEF Spread, WidthOf, HeightOf
  <2>2. cam.scale \in Int /\ cam.x \in Int /\ cam.y \in Int
    BY DEF Cameras
  <2> QED
    BY <2>1, <2>2, OnScreenType
<1>3. after.scale = cam.scale /\ after.x \in Int /\ after.y \in Int
      /\ after = [x |-> after.x, y |-> after.y, scale |-> cam.scale]
  BY <1>1 DEF Cameras
<1> DEFINE side == Moved(after, [x |-> d, y |-> 0])
           up == Moved(after, [x |-> 0, y |-> d])
<1>4. /\ side = [x |-> after.x + d, y |-> after.y, scale |-> cam.scale]
      /\ up = [x |-> after.x, y |-> after.y + d, scale |-> cam.scale]
  <2> HIDE DEF after
  <2>1. after.x + 0 = after.x /\ after.y + 0 = after.y
    BY <1>3
  <2>2. ASSUME NEW p \in Int, NEW q \in Int, NEW r, NEW e \in [x : Int, y : Int]
        PROVE  Moved([x |-> p, y |-> q, scale |-> r], e) = [x |-> p + e.x, y |-> q + e.y, scale |-> r]
    <3> DEFINE c == [x |-> p, y |-> q, scale |-> r]
    <3>1. Moved(c, e) = [c EXCEPT !.x = c.x + e.x, !.y = c.y + e.y]
      BY DEF Moved
    <3>2. c.x + e.x = p + e.x /\ c.y + e.y = q + e.y
      OBVIOUS
    <3> DEFINE a == p + e.x
               b == q + e.y
    <3>3. Moved(c, e) = [c EXCEPT !.x = a, !.y = b]
      BY <3>1, <3>2
    <3> HIDE DEF a, b
    <3>4. Moved(c, e) = [x |-> a, y |-> b, scale |-> r]
      BY <3>3
    <3> QED
      BY <3>4 DEF a, b
  <2>3. \A e \in [x : Int, y : Int] : Moved(after, e) = [x |-> after.x + e.x, y |-> after.y + e.y, scale |-> cam.scale]
    <3> DEFINE p == after.x
               q == after.y
               r == cam.scale
    <3>1. after = [x |-> p, y |-> q, scale |-> r] /\ p \in Int /\ q \in Int
      BY <1>3
    <3> HIDE DEF p, q, r
    <3>2. \A e \in [x : Int, y : Int] : Moved(after, e) = [x |-> p + e.x, y |-> q + e.y, scale |-> r]
      BY <2>2, <3>1
    <3> QED
      BY <3>2 DEF p, q, r
  <2>4. [x |-> d, y |-> 0] \in [x : Int, y : Int] /\ [x |-> 0, y |-> d] \in [x : Int, y : Int]
    BY <1>0
  <2> QED
    BY <2>1, <2>3, <2>4
<1>5. ClampEdge(after.x + left, width, v.width) = after.x + left
  <2>1. cam.x + left \in Int
    BY <1>2
  <2>2. EdgeHeld(cam.x + left, width, v.width)
    BY <1>2, <2>1, ClampEdgeHolds
  <2>3. after.x + left = ClampEdge(cam.x + left, width, v.width)
    <3> DEFINE c == ClampEdge(cam.x + left, width, v.width)
    <3>1. c \in Int /\ after.x = c - left
      BY <1>1, <2>2 DEF EdgeHeld
    <3> HIDE DEF c, after, left
    <3>2. after.x + left = c
      BY <1>2, <3>1
    <3> QED
      BY <3>2 DEF c
  <2> HIDE DEF after, left, width
  <2>4. after.x + left \in Int
    BY <1>2, <1>3
  <2>5. EdgeHeld(after.x + left, width, v.width)
    BY <1>2, <2>4, ClampEdgeHolds
  <2> QED
    BY <2>2, <2>3, <2>5 DEF EdgeHeld
<1>6. ClampEdge(after.y + top, height, v.height) = after.y + top
  <2>1. cam.y + top \in Int
    BY <1>2
  <2>2. EdgeHeld(cam.y + top, height, v.height)
    BY <1>2, <2>1, ClampEdgeHolds
  <2>3. after.y + top = ClampEdge(cam.y + top, height, v.height)
    <3> DEFINE c == ClampEdge(cam.y + top, height, v.height)
    <3>1. c \in Int /\ after.y = c - top
      BY <1>1, <2>2 DEF EdgeHeld
    <3> HIDE DEF c, after, top
    <3>2. after.y + top = c
      BY <1>2, <3>1
    <3> QED
      BY <3>2 DEF c
  <2> HIDE DEF after, top, height
  <2>4. after.y + top \in Int
    BY <1>2, <1>3
  <2>5. EdgeHeld(after.y + top, height, v.height)
    BY <1>2, <2>4, ClampEdgeHolds
  <2> QED
    BY <2>2, <2>3, <2>5 DEF EdgeHeld
<1>7. side \in Cameras /\ up \in Cameras
  <2> HIDE DEF after, side, up
  <2>1. cam.scale \in Nat \ {0}
    BY DEF Cameras
  <2> QED
    BY <1>0, <1>3, <1>4, <2>1 DEF Cameras
<1>8. /\ side.scale = cam.scale /\ side.x = after.x + d /\ side.y = after.y
      /\ up.scale = cam.scale /\ up.x = after.x /\ up.y = after.y + d
  <2> HIDE DEF after, side, up
  <2> QED
    BY <1>4
<1>9. /\ ClampCamera(side, mat, v) =
            [x |-> ClampEdge(after.x + d + left, width, v.width) - left,
             y |-> ClampEdge(after.y + top, height, v.height) - top, scale |-> cam.scale]
      /\ ClampCamera(up, mat, v) =
            [x |-> ClampEdge(after.x + left, width, v.width) - left,
             y |-> ClampEdge(after.y + d + top, height, v.height) - top, scale |-> cam.scale]
  <2> HIDE DEF side, up, after
  <2> QED
    BY <1>0, <1>7, <1>8, Clamped
<1>10. (after.x + left) - left = after.x /\ (after.y + top) - top = after.y
  <2> HIDE DEF after, left, top
  <2> QED
    BY <1>2, <1>3
<1> HIDE DEF left, top, width, height, side, up, after
<1>11. ClampEdge(after.x + d + left, width, v.width) - left = after.x => ClampCamera(side, mat, v) = after
  BY <1>3, <1>6, <1>9, <1>10
<1>12. ClampEdge(after.y + d + top, height, v.height) - top = after.y => ClampCamera(up, mat, v) = after
  BY <1>3, <1>5, <1>9, <1>10
<1> QED
  BY <1>11, <1>12 DEF after, left, top, width, height, side, up

\* The view of an open board.
ViewInv ==
  /\ stage = "laid" => layout = InitialScatter(Grid)
  /\ stage = "open" =>
       /\ layout = [area |-> PlayArea(Grid), mat |-> MatBounds(Grid)]
       /\ vp \in Viewports /\ camera \in Cameras
  /\ stage # "open" => vp = None /\ camera = None

LEMMA MatIsSheet ==
  ASSUME NEW g \in Grids
  PROVE  Sheet(MatBounds(g)) /\ Sheet(ScatterBounds(g)) /\ Sheet(PlayArea(g))
<1>1. g.rows \in Nat /\ g.cols \in Nat
  BY DEF Grids
<1>2. Reach = 366
  BY DEF Reach, FOOTPRINT, SCATTER_PITCH, PIECE_HALF, OVERHANG, MAX_JITTER
<1> QED
  BY <1>1, <1>2, BoundsHold DEF Sheet, Spread, Within

LEMMA SizesOfViewports ==
  ASSUME NEW v \in Viewports
  PROVE  v \in [width : Nat, height : Nat] /\ v.width \in Nat /\ v.height \in Nat
BY ViewportsAssumption

LEMMA InvAnchor ==
  ASSUME StageInv, ViewInv
  PROVE  AnchorHolds
<1> SUFFICES ASSUME stage = "open", NEW factor \in Factors, NEW a \in Anchors(vp)
             PROVE  LET mat == Mat
                        after == ZoomAt(camera, factor, a, mat, vp)
                        stopped(d) == ClampCamera(Moved(after, d), mat, vp)
                        near == -(after.scale \div Scale + 1)..0
                        wx == ((a.x - camera.x) * Scale) \div camera.scale
                        wy == ((a.y - camera.y) * Scale) \div camera.scale
                    IN  /\ \/ XOnScreen(after, wx) - a.x \in near
                           \/ stopped([x |-> 5, y |-> 0]) = after \/ stopped([x |-> -5, y |-> 0]) = after
                        /\ \/ YOnScreen(after, wy) - a.y \in near
                           \/ stopped([x |-> 0, y |-> 5]) = after \/ stopped([x |-> 0, y |-> -5]) = after
  BY DEF AnchorHolds
<1> DEFINE mat == Mat
           after == ZoomAt(camera, factor, a, mat, vp)
           wx == ((a.x - camera.x) * Scale) \div camera.scale
           wy == ((a.y - camera.y) * Scale) \div camera.scale
<1>1. /\ Sheet(mat) /\ vp \in [width : Nat, height : Nat] /\ vp.width \in Int /\ vp.height \in Int
      /\ camera \in Cameras
  <2>1. Grid \in Grids /\ mat = MatBounds(Grid) /\ vp \in Viewports /\ camera \in Cameras
    BY DEF StageInv, ViewInv, Mat
  <2> HIDE DEF mat
  <2> QED
    BY <2>1, MatIsSheet, SizesOfViewports
<1>2. a \in [x : Int, y : Int]
  BY <1>1 DEF Anchors
<1> HIDE DEF mat
<1>3. PICK s \in Nat \ {0} :
        /\ Anchored(camera, a, s) \in Cameras
        /\ after = ClampCamera(Anchored(camera, a, s), mat, vp)
        /\ after \in Cameras
  BY <1>1, <1>2, ZoomAtType
<1> DEFINE cam == Anchored(camera, a, s)
           left == OnScreen(mat.minX, s)
           top == OnScreen(mat.minY, s)
           width == OnScreen(WidthOf(mat), s)
           height == OnScreen(HeightOf(mat), s)
<1>4. /\ cam.x = a.x - ((a.x - camera.x) * s) \div camera.scale
      /\ cam.y = a.y - ((a.y - camera.y) * s) \div camera.scale
      /\ cam.scale = s
  BY DEF Anchored
<1> HIDE DEF cam, after
<1>5. /\ after = [x |-> ClampEdge(cam.x + left, width, vp.width) - left,
                  y |-> ClampEdge(cam.y + top, height, vp.height) - top, scale |-> s]
  BY <1>1, <1>3, <1>4, Clamped DEF Sheet, cam
<1>6. /\ after.x = ClampEdge(cam.x + left, width, vp.width) - left
      /\ after.y = ClampEdge(cam.y + top, height, vp.height) - top /\ after.scale = s
  BY <1>5
<1>7. left \in Int /\ top \in Int /\ width \in Int /\ height \in Int
  <2>1. mat.minX \in Int /\ mat.minY \in Int /\ WidthOf(mat) \in Int /\ HeightOf(mat) \in Int /\ s \in Int
    BY <1>1 DEF Sheet, Spread, WidthOf, HeightOf
  <2> QED
    BY <2>1, OnScreenType
<1>8. /\ a.x \in Int /\ a.y \in Int /\ camera.x \in Int /\ camera.y \in Int /\ camera.scale \in Nat \ {0}
  BY <1>1, <1>2 DEF Cameras
<1> HIDE DEF left, top, width, height
<1>9. AxisHolds(cam.x, a.x, wx, s, left, width, vp.width) /\ AxisHolds(cam.y, a.y, wy, s, top, height, vp.height)
  <2>1. AxisHolds(a.x - ((a.x - camera.x) * s) \div camera.scale, a.x, wx, s, left, width, vp.width)
    BY <1>1, <1>7, <1>8, AxisKept
  <2>2. AxisHolds(a.y - ((a.y - camera.y) * s) \div camera.scale, a.y, wy, s, top, height, vp.height)
    BY <1>1, <1>7, <1>8, AxisKept
  <2> HIDE DEF wx, wy
  <2> QED
    BY <1>4, <2>1, <2>2
<1>17. wx \in Int /\ wy \in Int
  <2>1. ASSUME NEW d \in Int, NEW n \in Nat \ {0} PROVE (d * 10000) \div n \in Int
    BY <2>1
  <2>2. a.x - camera.x \in Int /\ a.y - camera.y \in Int
    BY <1>8
  <2> QED
    BY <1>8, <2>1, <2>2 DEF Scale
<1> HIDE DEF wx, wy
<1>18. /\ OnScreen(wx, s) \in Int /\ OnScreen(wy, s) \in Int /\ after.x \in Int /\ after.y \in Int
  <2>1. s \in Int
    OBVIOUS
  <2> QED
    BY <1>3, <1>17, <2>1, OnScreenType DEF Cameras
<1>10. \/ OnScreen(wx, s) + after.x - a.x \in -(s \div Scale + 1)..0
       \/ ClampEdge(after.x + 5 + left, width, vp.width) - left = after.x
       \/ ClampEdge(after.x - 5 + left, width, vp.width) - left = after.x
  BY <1>6, <1>9 DEF AxisHolds
<1>11. \/ OnScreen(wy, s) + after.y - a.y \in -(s \div Scale + 1)..0
       \/ ClampEdge(after.y + 5 + top, height, vp.height) - top = after.y
       \/ ClampEdge(after.y - 5 + top, height, vp.height) - top = after.y
  BY <1>6, <1>9 DEF AxisHolds
<1>12. after.x - 5 = after.x + (-5) /\ after.y - 5 = after.y + (-5)
  BY <1>3 DEF Cameras
<1>13. ASSUME NEW d \in {-5, 5}
       PROVE  /\ ClampEdge(after.x + d + left, width, vp.width) - left = after.x
                   => ClampCamera(Moved(after, [x |-> d, y |-> 0]), mat, vp) = after
              /\ ClampEdge(after.y + d + top, height, vp.height) - top = after.y
                   => ClampCamera(Moved(after, [x |-> 0, y |-> d]), mat, vp) = after
  <2>1. cam \in Cameras /\ after = ClampCamera(cam, mat, vp) /\ cam.scale = s
    BY <1>3, <1>4 DEF cam
  <2> QED
    BY <1>1, <2>1, MovedAlong DEF left, top, width, height
<1>14. -5 \in {-5, 5} /\ 5 \in {-5, 5}
  OBVIOUS
<1>15. \/ XOnScreen(after, wx) - a.x \in -(s \div Scale + 1)..0
       \/ ClampCamera(Moved(after, [x |-> 5, y |-> 0]), mat, vp) = after
       \/ ClampCamera(Moved(after, [x |-> -5, y |-> 0]), mat, vp) = after
  <2>1. ClampEdge(after.x + 5 + left, width, vp.width) - left = after.x
          => ClampCamera(Moved(after, [x |-> 5, y |-> 0]), mat, vp) = after
    BY <1>13, <1>14
  <2>2. ClampEdge(after.x + (-5) + left, width, vp.width) - left = after.x
          => ClampCamera(Moved(after, [x |-> -5, y |-> 0]), mat, vp) = after
    BY <1>13, <1>14
  <2>4. ClampEdge(after.x - 5 + left, width, vp.width) - left = after.x
          => ClampCamera(Moved(after, [x |-> -5, y |-> 0]), mat, vp) = after
    BY <1>12, <2>2
  <2>3. after.scale = s /\ XOnScreen(after, wx) = OnScreen(wx, s) + after.x
    BY <1>6 DEF XOnScreen
  <2>5. OnScreen(wx, s) + after.x - a.x = XOnScreen(after, wx) - a.x
    BY <1>8, <1>18, <2>3
  <2>6. CASE OnScreen(wx, s) + after.x - a.x \in -(s \div Scale + 1)..0
    BY <2>5, <2>6, Zenon
  <2> QED
    BY <1>10, <2>1, <2>4, <2>6, Zenon
<1>16. \/ YOnScreen(after, wy) - a.y \in -(s \div Scale + 1)..0
       \/ ClampCamera(Moved(after, [x |-> 0, y |-> 5]), mat, vp) = after
       \/ ClampCamera(Moved(after, [x |-> 0, y |-> -5]), mat, vp) = after
  <2>1. ClampEdge(after.y + 5 + top, height, vp.height) - top = after.y
          => ClampCamera(Moved(after, [x |-> 0, y |-> 5]), mat, vp) = after
    BY <1>13, <1>14
  <2>2. ClampEdge(after.y + (-5) + top, height, vp.height) - top = after.y
          => ClampCamera(Moved(after, [x |-> 0, y |-> -5]), mat, vp) = after
    BY <1>13, <1>14
  <2>4. ClampEdge(after.y - 5 + top, height, vp.height) - top = after.y
          => ClampCamera(Moved(after, [x |-> 0, y |-> -5]), mat, vp) = after
    BY <1>12, <2>2
  <2>3. after.scale = s /\ YOnScreen(after, wy) = OnScreen(wy, s) + after.y
    BY <1>6 DEF YOnScreen
  <2>5. OnScreen(wy, s) + after.y - a.y = YOnScreen(after, wy) - a.y
    BY <1>8, <1>18, <2>3
  <2>6. CASE OnScreen(wy, s) + after.y - a.y \in -(s \div Scale + 1)..0
    BY <2>5, <2>6, Zenon
  <2> QED
    BY <1>11, <2>1, <2>4, <2>6, Zenon
<1> QED
  BY <1>6, <1>15, <1>16 DEF mat, after, wx, wy

\* One axis of a pan past the end of the range.
LEMMA AxisClear ==
  ASSUME NEW lo \in Int, NEW hi \in Int, NEW c \in Int, NEW s \in Nat, NEW v \in Nat, NEW more \in Nat,
         lo <= c, c <= hi
  PROVE  LET left == OnScreen(lo, s)
             size == OnScreen(hi - lo, s)
             far == size + more + v + PAN_OVERSCROLL_PX
         IN  /\ OnScreen(c, s) + (ClampEdge(-far, size, v) - left) <= v - 280
             /\ OnScreen(c, s) + (ClampEdge(far, size, v) - left) >= 0
<1> DEFINE left == OnScreen(lo, s)
           size == OnScreen(hi - lo, s)
           far == size + more + v + PAN_OVERSCROLL_PX
           spot == OnScreen(c, s)
<1>1. left \in Int /\ size \in Int /\ spot \in Int /\ OnScreen(hi, s) \in Int
  <2>1. hi - lo \in Int /\ s \in Int
    OBVIOUS
  <2> QED
    BY <2>1, OnScreenType
<1>2. left <= spot /\ spot <= OnScreen(hi, s) /\ OnScreen(hi, s) <= left + size + 1
  BY OnScreenOrder
<1>3. size >= 0
  <2>1. OnScreen(0, s) = 0
    BY DEF OnScreen, Scale
  <2>2. OnScreen(0, s) <= OnScreen(hi - lo, s)
    <3>1. hi - lo \in Int /\ 0 <= hi - lo
      OBVIOUS
    <3> QED
      BY <3>1, OnScreenOrder
  <2> QED
    BY <2>1, <2>2
<1> HIDE DEF left, size, spot
<1>4. far \in Int /\ -far \in Int /\ -far <= LowEnd(size, v) /\ far >= HighEnd(size, v)
  BY <1>1, <1>3 DEF LowEnd, HighEnd, Larger, Smaller, PAN_OVERSCROLL_PX
<1> HIDE DEF far
<1>5. ClampEdge(-far, size, v) = LowEnd(size, v) /\ ClampEdge(far, size, v) = HighEnd(size, v)
  BY <1>1, <1>4, ClampEdgeHolds DEF EdgeHeld
<1>6. LowEnd(size, v) \in Int /\ LowEnd(size, v) <= v - size - 290 /\ HighEnd(size, v) \in Int /\ HighEnd(size, v) >= 290
  BY <1>1 DEF LowEnd, HighEnd, Larger, Smaller, PAN_OVERSCROLL_PX
<1>7. spot + (LowEnd(size, v) - left) <= v - 280 /\ spot + (HighEnd(size, v) - left) >= 0
  BY <1>1, <1>2, <1>6
<1> QED
  BY <1>5, <1>7 DEF left, size, far, spot

LEMMA InvClear ==
  ASSUME StageInv, ViewInv
  PROVE  ClearOfPanel
<1> SUFFICES ASSUME stage = "open", NEW c \in Corners(layout.area)
             PROVE  LET mat == Mat
                        west == Panned(mat, -Far(mat), 0)
                        east == Panned(mat, Far(mat), 0)
                        north == Panned(mat, 0, -Far(mat))
                        south == Panned(mat, 0, Far(mat))
                    IN  /\ XOnScreen(west, c.x) <= vp.width - PanelWidth /\ XOnScreen(east, c.x) >= 0
                        /\ YOnScreen(north, c.y) <= vp.height - TrayHeight /\ YOnScreen(south, c.y) >= 0
  BY DEF ClearOfPanel
<1> DEFINE mat == Mat
           area == layout.area
           s == camera.scale
           left == OnScreen(mat.minX, s)
           top == OnScreen(mat.minY, s)
           width == OnScreen(WidthOf(mat), s)
           height == OnScreen(HeightOf(mat), s)
           far == Far(mat)
<1>1. /\ Spread(mat) /\ Spread(area) /\ Within(area, mat)
      /\ area.minX < area.maxX /\ area.minY < area.maxY
      /\ vp \in [width : Nat, height : Nat] /\ vp.width \in Nat /\ vp.height \in Nat
      /\ camera \in Cameras
  <2>1. /\ Grid \in Grids /\ mat = MatBounds(Grid) /\ area = PlayArea(Grid)
        /\ vp \in Viewports /\ camera \in Cameras
    BY DEF StageInv, ViewInv, Mat
  <2> HIDE DEF mat, area
  <2> QED
    BY <2>1, BoundsHold, MatIsSheet, SizesOfViewports DEF Sheet
<1>2. c.x \in {area.minX, area.maxX} /\ c.y \in {area.minY, area.maxY}
  BY DEF Corners
<1> HIDE DEF mat, area
<1>3. /\ c.x \in Int /\ mat.minX \in Int /\ mat.maxX \in Int /\ mat.minX <= c.x /\ c.x <= mat.maxX
      /\ c.y \in Int /\ mat.minY \in Int /\ mat.maxY \in Int /\ mat.minY <= c.y /\ c.y <= mat.maxY
  BY <1>1, <1>2 DEF Spread, Within
<1>4. s \in Nat \ {0} /\ camera.x \in Int /\ camera.y \in Int
      /\ camera = [x |-> camera.x, y |-> camera.y, scale |-> s]
  BY <1>1 DEF Cameras
<1>5. WidthOf(mat) = mat.maxX - mat.minX /\ HeightOf(mat) = mat.maxY - mat.minY
      /\ WidthOf(mat) \in Nat /\ HeightOf(mat) \in Nat
  BY <1>3 DEF WidthOf, HeightOf
<1> HIDE DEF s
<1>6. left \in Int /\ top \in Int /\ width \in Nat /\ height \in Nat
  <2>1. s \in Int /\ OnScreen(0, s) = 0
    BY <1>4 DEF OnScreen, Scale
  <2>2. width \in Int /\ height \in Int /\ left \in Int /\ top \in Int
    <3>1. \A n \in Int : OnScreen(n, s) \in Int
      BY <2>1, OnScreenType
    <3>2. WidthOf(mat) \in Int /\ HeightOf(mat) \in Int
      BY <1>5
    <3> QED
      BY <1>3, <3>1, <3>2
  <2>3. OnScreen(0, s) <= width /\ OnScreen(0, s) <= height
    <3>1. ASSUME NEW n \in Nat PROVE OnScreen(0, s) <= OnScreen(n, s)
      <4>1. 0 \in Int /\ n \in Int /\ s \in Nat /\ 0 <= n
        BY <1>4
      <4> QED
        BY <4>1, OnScreenOrder
    <3> QED
      BY <1>5, <3>1
  <2> HIDE DEF width, height, left, top
  <2> QED
    BY <2>1, <2>2, <2>3
<1>7. far = width + height + vp.width + vp.height + PAN_OVERSCROLL_PX
  BY DEF Far, s
<1> HIDE DEF left, top, width, height, far
<1>8. far \in Int /\ -far \in Int
  BY <1>1, <1>6, <1>7 DEF PAN_OVERSCROLL_PX
<1>9. ASSUME NEW dx \in Int, NEW dy \in Int
      PROVE  /\ Panned(mat, dx, dy).x = ClampEdge(dx, width, vp.width) - left
             /\ Panned(mat, dx, dy).y = ClampEdge(dy, height, vp.height) - top
             /\ Panned(mat, dx, dy).scale = s
  <2> DEFINE cam == [camera EXCEPT !.x = dx - left, !.y = dy - top]
  <2>1. cam = [x |-> dx - left, y |-> dy - top, scale |-> s]
    <3> DEFINE p == dx - left
               q == dy - top
    <3>1. cam = [camera EXCEPT !.x = p, !.y = q]
      OBVIOUS
    <3>2. PICK cx, cy : camera = [x |-> cx, y |-> cy, scale |-> s]
      BY <1>4
    <3> HIDE DEF p, q, cam
    <3>3. cam = [x |-> p, y |-> q, scale |-> s]
      BY <3>1, <3>2
    <3> QED
      BY <3>3 DEF p, q
  <2>2. Panned(mat, dx, dy) = ClampCamera(cam, mat, vp)
    BY DEF Panned, left, top, s
  <2> HIDE DEF cam
  <2>3. cam \in Cameras /\ cam.scale = s /\ cam.x = dx - left /\ cam.y = dy - top
    BY <1>4, <1>6, <2>1 DEF Cameras
  <2>4. cam.x + left = dx /\ cam.y + top = dy
    BY <1>6, <2>3
  <2>5. ClampCamera(cam, mat, vp) =
          [x |-> ClampEdge(cam.x + left, width, vp.width) - left,
           y |-> ClampEdge(cam.y + top, height, vp.height) - top, scale |-> cam.scale]
    BY <1>1, <2>3, Clamped DEF left, top, width, height
  <2> QED
    BY <2>2, <2>3, <2>4, <2>5
<1>10. /\ OnScreen(c.x, s) + (ClampEdge(-far, width, vp.width) - left) <= vp.width - 280
       /\ OnScreen(c.x, s) + (ClampEdge(far, width, vp.width) - left) >= 0
  <2> DEFINE more == height + vp.height
  <2>1. more \in Nat /\ far = width + more + vp.width + PAN_OVERSCROLL_PX
    BY <1>1, <1>6, <1>7 DEF PAN_OVERSCROLL_PX
  <2> HIDE DEF more
  <2>2. s \in Nat /\ width = OnScreen(mat.maxX - mat.minX, s) /\ left = OnScreen(mat.minX, s)
    BY <1>4, <1>5 DEF width, left
  <2> QED
    BY <1>1, <1>3, <2>1, <2>2, AxisClear
<1>11. /\ OnScreen(c.y, s) + (ClampEdge(-far, height, vp.height) - top) <= vp.height - 280
       /\ OnScreen(c.y, s) + (ClampEdge(far, height, vp.height) - top) >= 0
  <2> DEFINE more == width + vp.width
  <2>1. more \in Nat /\ far = height + more + vp.height + PAN_OVERSCROLL_PX
    BY <1>1, <1>6, <1>7 DEF PAN_OVERSCROLL_PX
  <2> HIDE DEF more
  <2>2. s \in Nat /\ height = OnScreen(mat.maxY - mat.minY, s) /\ top = OnScreen(mat.minY, s)
    BY <1>4, <1>5 DEF height, top
  <2> QED
    BY <1>1, <1>3, <2>1, <2>2, AxisClear
<1>12. /\ XOnScreen(Panned(mat, -far, 0), c.x) <= vp.width - 280
       /\ XOnScreen(Panned(mat, far, 0), c.x) >= 0
  BY <1>8, <1>9, <1>10 DEF XOnScreen
<1>13. YOnScreen(Panned(mat, 0, -far), c.y) <= vp.height - 84
       /\ YOnScreen(Panned(mat, 0, far), c.y) >= 0
  <2> DEFINE spot == OnScreen(c.y, s) + (ClampEdge(-far, height, vp.height) - top)
  <2>1. spot \in Int
    <3>1. OnScreen(c.y, s) \in Int
      BY <1>3, <1>4, OnScreenType
    <3>2. ClampEdge(-far, height, vp.height) \in Int
      BY <1>1, <1>6, <1>8, ClampEdgeHolds DEF EdgeHeld
    <3> QED
      BY <1>6, <3>1, <3>2
  <2>2. spot <= vp.height - 280
    BY <1>11
  <2>3. YOnScreen(Panned(mat, 0, -far), c.y) = spot
    BY <1>8, <1>9 DEF YOnScreen
  <2> HIDE DEF spot
  <2>4. spot <= vp.height - 84
    BY <1>1, <2>1, <2>2
  <2>5. YOnScreen(Panned(mat, 0, far), c.y) >= 0
    BY <1>8, <1>9, <1>11 DEF YOnScreen
  <2> QED
    BY <2>3, <2>4, <2>5
<1> QED
  BY <1>12, <1>13 DEF mat, far, PanelWidth, TrayHeight

\* The cameras the steps arrive at.
LEMMA FitCameraType ==
  ASSUME NEW g \in Grids, NEW v \in Viewports
  PROVE  FitCamera(g, v) \in Cameras
<1> DEFINE b == ScatterBounds(g)
           box == FitBox(v)
           scale == ClampScale(Fit(b, v), MatBounds(g), v)
<1>1. Sheet(b) /\ Sheet(MatBounds(g)) /\ v \in [width : Nat, height : Nat]
  BY MatIsSheet, SizesOfViewports
<1>2. scale \in Nat \ {0}
  <2>1. Fit(b, v) \in Int
    BY <1>1, ClampScaleType
  <2> HIDE DEF b
  <2> QED
    BY <1>1, <2>1, ClampScaleType
<1>3. box.width \in Int /\ box.height \in Int
  BY <1>1 DEF FitBox, Larger, BOARD_FIT_TRAY_INSET_PX
<1>4. b.minX \in Int /\ b.minY \in Int /\ WidthOf(b) \in Int /\ HeightOf(b) \in Int
  BY <1>1 DEF Sheet, Spread, WidthOf, HeightOf
<1>5. FitCamera(g, v) =
        [x |-> (box.width - OnScreen(WidthOf(b), scale)) \div 2 - OnScreen(b.minX, scale),
         y |-> (box.height - OnScreen(HeightOf(b), scale)) \div 2 - OnScreen(b.minY, scale),
         scale |-> scale]
  BY DEF FitCamera
<1> HIDE DEF b, box, scale
<1>6. \A n \in Int : OnScreen(n, scale) \in Int
  BY <1>2, OnScreenType
<1>7. /\ OnScreen(WidthOf(b), scale) \in Int /\ OnScreen(HeightOf(b), scale) \in Int
      /\ OnScreen(b.minX, scale) \in Int /\ OnScreen(b.minY, scale) \in Int
  BY <1>4, <1>6
<1> QED
  BY <1>2, <1>3, <1>5, <1>7 DEF Cameras

LEMMA MovedType ==
  ASSUME NEW cam \in Cameras, NEW d \in Drifts
  PROVE  Moved(cam, d) \in Cameras
<1>1. d.x \in Int /\ d.y \in Int
  BY GesturesAssumption DEF Drifts
<1>2. cam.x \in Int /\ cam.y \in Int /\ cam.scale \in Nat \ {0}
  BY DEF Cameras
<1>3. PICK x, y, s : cam = [x |-> x, y |-> y, scale |-> s]
  BY DEF Cameras
<1> DEFINE p == cam.x + d.x
           q == cam.y + d.y
<1>4. Moved(cam, d) = [cam EXCEPT !.x = p, !.y = q]
  BY DEF Moved
<1>5. p \in Int /\ q \in Int
  BY <1>1, <1>2
<1> HIDE DEF p, q
<1>6. Moved(cam, d) = [x |-> p, y |-> q, scale |-> s] /\ cam.scale = s
  BY <1>3, <1>4
<1> QED
  BY <1>2, <1>5, <1>6 DEF Cameras

LEMMA ClampedType ==
  ASSUME NEW g \in Grids, NEW cam \in Cameras, NEW v \in Viewports
  PROVE  ClampCamera(cam, MatBounds(g), v) \in Cameras
<1> DEFINE mat == MatBounds(g)
<1>1. Spread(mat) /\ v \in [width : Nat, height : Nat]
  BY MatIsSheet, SizesOfViewports DEF Sheet
<1> HIDE DEF mat
<1>2. ClampCamera(cam, mat, v) \in Cameras
  BY <1>1, Clamped
<1> QED
  BY <1>2 DEF mat

LEMMA ZoomedType ==
  ASSUME NEW g \in Grids, NEW cam \in Cameras, NEW v \in Viewports, NEW factor \in Factors, NEW a \in Anchors(v)
  PROVE  ZoomAt(cam, factor, a, MatBounds(g), v) \in Cameras
<1> DEFINE mat == MatBounds(g)
<1>1. Sheet(mat) /\ v \in [width : Nat, height : Nat] /\ v.width \in Nat /\ v.height \in Nat
  BY MatIsSheet, SizesOfViewports
<1>2. a \in [x : Int, y : Int]
  BY <1>1 DEF Anchors
<1> HIDE DEF mat
<1>3. ZoomAt(cam, factor, a, mat, v) \in Cameras
  BY <1>1, <1>2, ZoomAtType
<1> QED
  BY <1>3 DEF mat

\* The view stays in order.
LEMMA ViewStep == StageInv /\ ViewInv /\ [Next]_tableVars => ViewInv'
<1> SUFFICES ASSUME StageInv, ViewInv, [Next]_tableVars PROVE ViewInv'
  OBVIOUS
<1>1. ASSUME stage # "open", UNCHANGED viewing, stage' \notin {"laid", "open"} PROVE ViewInv'
  BY <1>1 DEF ViewInv, viewing
<1>2. ASSUME NEW f \in Files, NEW t \in Targets, Upload(f, t) PROVE ViewInv'
  BY <1>1, <1>2 DEF Upload, Made
<1>3. ASSUME NEW t \in Targets, FromGallery(t) PROVE ViewInv'
  BY <1>1, <1>3 DEF FromGallery, Made
<1>4. ASSUME NEW varied \in BOOLEAN, OpenRoom(varied) PROVE ViewInv'
  <2>1. stage = "made" /\ UNCHANGED viewing /\ stage' \in {"cut", "cutting"}
    BY <1>4 DEF OpenRoom
  <2> QED
    BY <1>1, <2>1
<1>5. CASE Attempt
  BY <1>1, <1>5 DEF Attempt
<1>6. CASE Commit
  BY <1>1, <1>6 DEF Commit
<1>7. CASE Finished
  BY <1>1, <1>7 DEF Finished
<1>8. CASE Scatter
  BY <1>8 DEF Scatter, ViewInv, viewing, Grid
<1>9. ASSUME NEW size \in Viewports, OpenBoard(size) PROVE ViewInv'
  <2>1. /\ stage' = "open" /\ Grid' = Grid /\ vp' = size /\ camera' = FitCamera(Grid, size)
        /\ layout' = [area |-> PlayArea(Grid), mat |-> MatBounds(Grid)] /\ stage = "laid"
    BY <1>9 DEF OpenBoard, Grid
  <2>2. Grid \in Grids
    BY <2>1 DEF StageInv
  <2>3. FitCamera(Grid, size) \in Cameras
    BY <2>2, FitCameraType
  <2> QED
    BY <2>1, <2>3 DEF ViewInv
<1>10. ASSUME Gesture, camera' \in Cameras, vp' \in Viewports PROVE ViewInv'
  BY <1>10 DEF Gesture, ViewInv, Grid
<1>11. ASSUME Gesture
       PROVE  Mat = MatBounds(Grid) /\ Grid \in Grids /\ vp \in Viewports /\ camera \in Cameras
  BY <1>11 DEF Gesture, ViewInv, StageInv, Mat
<1>12. ASSUME NEW d \in Drifts, Pan(d) PROVE ViewInv'
  <2>1. Gesture /\ vp' = vp /\ camera' = ClampCamera(Moved(camera, d), Mat, vp)
    BY <1>12 DEF Pan, SetCamera
  <2>2. Moved(camera, d) \in Cameras
    BY <1>11, <2>1, MovedType
  <2>3. camera' \in Cameras
    BY <1>11, <2>1, <2>2, ClampedType
  <2> QED
    BY <1>10, <1>11, <2>1, <2>3
<1>13. ASSUME NEW factor \in Factors, NEW a \in Anchors(vp), Wheel(factor, a) PROVE ViewInv'
  <2>1. Gesture /\ vp' = vp /\ camera' = ClampCamera(ZoomAt(camera, factor, a, Mat, vp), Mat, vp)
    BY <1>13 DEF Wheel, SetCamera
  <2>2. ZoomAt(camera, factor, a, Mat, vp) \in Cameras
    BY <1>11, <2>1, ZoomedType
  <2>3. camera' \in Cameras
    BY <1>11, <2>1, <2>2, ClampedType
  <2> QED
    BY <1>10, <1>11, <2>1, <2>3
<1>14. ASSUME NEW factor \in Factors, NEW a \in Anchors(vp), NEW d \in Drifts, UpdatePinch(factor, a, d)
       PROVE  ViewInv'
  <2>1. Gesture /\ vp' = vp /\ camera' = ClampCamera(Moved(ZoomAt(camera, factor, a, Mat, vp), d), Mat, vp)
    BY <1>14 DEF UpdatePinch, SetCamera
  <2>2. ZoomAt(camera, factor, a, Mat, vp) \in Cameras
    BY <1>11, <2>1, ZoomedType
  <2>3. Moved(ZoomAt(camera, factor, a, Mat, vp), d) \in Cameras
    BY <2>2, MovedType
  <2>4. camera' \in Cameras
    BY <1>11, <2>1, <2>3, ClampedType
  <2> QED
    BY <1>10, <1>11, <2>1, <2>4
<1>15. ASSUME NEW size \in Viewports, OnResize(size) PROVE ViewInv'
  <2>1. Gesture /\ vp' = size
    BY <1>15 DEF OnResize
  <2>2. PICK read \in {vp, size} : camera' = ClampCamera(camera, Mat, read)
    BY <1>15, <2>1 DEF OnResize, SetCamera
  <2>3. read \in Viewports
    BY <1>11, <2>1
  <2>4. camera' \in Cameras
    BY <1>11, <2>1, <2>2, <2>3, ClampedType
  <2> QED
    BY <1>10, <2>1, <2>4
<1>16. CASE Leave
  BY <1>16 DEF Leave, ViewInv
<1>17. CASE UNCHANGED tableVars
  BY <1>17 DEF tableVars, viewing, ViewInv, Grid
<1> QED
  BY <1>2, <1>3, <1>4, <1>5, <1>6, <1>7, <1>8, <1>9, <1>12, <1>13, <1>14, <1>15, <1>16, <1>17 DEF Next

THEOREM ViewInvariance == Spec => []ViewInv
<1>1. Init => ViewInv
  BY DEF Init, NoView, ViewInv
<1>2. IInv => StageInv
  BY DEF IInv
<1> QED
  BY <1>1, <1>2, ViewStep, Invariance, PTL DEF Spec

\* In any room, whichever cells the shuffle deals: the pieces lie apart, on the
\* cloth, with their tabs off the frame.
THEOREM ScatterCorrect == Spec => []ScatterIsRoomy
<1>1. StageInv /\ ViewInv => ScatterIsRoomy
  <2> SUFFICES ASSUME StageInv, ViewInv, stage = "laid" PROVE ScatterIsRoomy
    BY DEF ScatterIsRoomy
  <2>1. Grid \in Grids /\ layout = InitialScatter(Grid)
    BY DEF StageInv, ViewInv
  <2>2. Roomy(Grid, layout.cells, layout.jitter)
    BY <2>1, ScatterRoomy
  <2> QED
    BY <2>2 DEF Roomy, ScatterIsRoomy
<1>2. IInv => StageInv
  BY DEF IInv
<1> QED
  BY <1>1, <1>2, ViewInvariance, Invariance, PTL

-----------------------------------------------------------------------------
(* Types.                                                                    *)

LEMMA NearestBounds ==
  ASSUME NEW shape, NEW others
  PROVE  DistanceToPeers(shape, others) \in 0..Unmatched
<1> DEFINE S == {Unmatched} \cup {SilhouetteDistance(shape, o) : o \in {o \in others : Kinds(o) = Kinds(shape)}}
<1>1. S \in SUBSET Nat /\ S # {} /\ Unmatched \in S /\ Unmatched \in Nat
  BY DistanceType DEF Unmatched
<1>2. DistanceToPeers(shape, others) = Min(S)
  BY DEF DistanceToPeers
<1> HIDE DEF S
<1>3. Min(S) \in S /\ \A n \in S : Min(S) <= n
  BY <1>1, NatMin DEF Min
<1>4. Min(S) <= Unmatched
  BY <1>1, <1>3
<1>5. Min(S) \in Nat
  BY <1>1, <1>3
<1>6. Min(S) \in 0..Unmatched
  BY <1>1, <1>4, <1>5
<1> QED
  BY <1>2, <1>6

\* A file's size, scaled down.
LEMMA DownscaledType ==
  ASSUME NEW f \in Files
  PROVE  Downscaled(f) \in Sizes /\ Original(f) \in Sizes
<1>1. f.width \in Nat /\ f.width > 0 /\ f.height \in Nat /\ f.height > 0
  BY FilesAssumption
<1> DEFINE long == Larger(f.width, f.height)
           scaled(n) == IF long <= MAX_DIMENSION_PX THEN n ELSE Larger(1, Rounded(n * MAX_DIMENSION_PX, long))
<1>2. long \in Nat /\ long > 0
  BY <1>1 DEF Larger
<1>3. ASSUME NEW n \in Nat, NEW d \in Nat, d > 0 PROVE (2 * (n * 2048) + d) \div (2 * d) \in Nat
  BY <1>3
<1>4. Downscaled(f) = [width |-> scaled(f.width), height |-> scaled(f.height)]
  BY DEF Downscaled
<1> HIDE DEF long
<1>5. \A n \in Nat : scaled(n) \in Nat
  <2> SUFFICES ASSUME NEW n \in Nat PROVE scaled(n) \in Nat
    OBVIOUS
  <2>1. Rounded(n * MAX_DIMENSION_PX, long) \in Nat
    BY <1>2, <1>3 DEF Rounded, MAX_DIMENSION_PX
  <2> QED
    BY <2>1 DEF Larger
<1> HIDE DEF scaled
<1> QED
  BY <1>1, <1>4, <1>5 DEF Sizes, Original

PenTypes ==
  /\ IsFiniteSet(seen) /\ tired \subseteq 0..pen.piece /\ pen.piece \in Nat
  /\ pen.tries \in 0..MAX_ATTEMPTS /\ pen.best \in -1..Unmatched
  /\ pen.tries = 0 => pen.chosen = << >>

TypeInv ==
  /\ stage \in {"home", "made", "cutting", "cut", "laid", "open"}
  /\ picture = None \/ (picture.file \in Files /\ picture.stored \in Sizes /\ picture.recorded \in Sizes)
  /\ room = None \/ room.grid \in Grids
  /\ stage = "cutting" => PenTypes
  /\ gestures \in 0..MaxGestures

\* The types are kept.
LEMMA TypeStep == IInv /\ TypeInv /\ [Next]_tableVars => TypeInv'
<1> SUFFICES ASSUME IInv, TypeInv, [Next]_tableVars PROVE TypeInv'
  OBVIOUS
<1>1. StageInv
  BY DEF IInv
<1>2. ASSUME NEW f \in Files, NEW t \in Targets, Upload(f, t) PROVE TypeInv'
  <2>1. PICK g \in ProcessUploadedImage(f, t) : stage' = "made" /\ room' = [target |-> t, grid |-> g]
    BY <1>2 DEF Upload, Made
  <2>2. g = DeriveGrid(t, f.width, f.height)
    BY <2>1 DEF ProcessUploadedImage, ValidatePieceGrid, Original
  <2>3. g \in Grids
    BY <2>2, SizesArePositive, DeriveGridType
  <2>4. picture'.file = f /\ picture'.stored = Downscaled(f) /\ picture'.recorded = Original(f)
    BY <1>2 DEF Upload, Recorded
  <2>5. gestures' = gestures
    BY <1>2 DEF Upload, viewing
  <2> QED
    BY <2>1, <2>3, <2>4, <2>5, DownscaledType DEF TypeInv
<1>3. ASSUME NEW t \in Targets, FromGallery(t) PROVE TypeInv'
  <2>1. PICK g \in ValidatePieceGrid(t, picture.recorded) : stage' = "made" /\ room' = [target |-> t, grid |-> g]
    BY <1>3 DEF FromGallery, Made
  <2>2. stage = "made" /\ picture' = picture /\ gestures' = gestures
    BY <1>3 DEF FromGallery, viewing
  <2>3. picture.file \in Files /\ picture.recorded = Original(picture.file)
    BY <1>1, <2>2 DEF StageInv
  <2>4. g = DeriveGrid(t, picture.file.width, picture.file.height)
    BY <2>1, <2>3 DEF ValidatePieceGrid, Original
  <2>5. g \in Grids
    BY <2>3, <2>4, SizesArePositive, DeriveGridType
  <2> QED
    BY <2>1, <2>2, <2>5 DEF TypeInv
<1>4. ASSUME NEW varied \in BOOLEAN, OpenRoom(varied) PROVE TypeInv'
  <2>1. /\ stage = "made" /\ picture' = None /\ room' = [grid |-> Grid] /\ seen' = seen /\ tired' = tired
        /\ gestures' = gestures /\ stage' \in {"cut", "cutting"}
        /\ stage' = "cutting" => pen' = [Unmarked EXCEPT !.piece = IF varied THEN 0 ELSE Grid.rows * Grid.cols]
    BY <1>4 DEF OpenRoom, viewing
  <2>2. Grid \in Grids /\ seen = {} /\ tired = {}
    <3>1. Grid \in Grids
      BY <1>1, <2>1, SizesArePositive, DeriveGridType DEF StageInv
    <3> QED
      BY <1>1, <2>1, <3>1 DEF StageInv, NoCut
  <2>3. Grid.rows * Grid.cols \in Nat
    <3>1. Grid.rows \in Nat /\ Grid.cols \in Nat
      BY <2>2 DEF Grids
    <3> QED
      BY <3>1
  <2>4. stage' = "cutting" => PenTypes'
    <3> SUFFICES ASSUME stage' = "cutting" PROVE PenTypes'
      OBVIOUS
    <3>1. pen'.piece \in Nat /\ pen'.tries = 0 /\ pen'.best = -1 /\ pen'.chosen = << >>
      BY <2>1, <2>3 DEF Unmarked
    <3>2. IsFiniteSet(seen')
      BY <2>1, <2>2, FS_EmptySet
    <3> QED
      BY <2>1, <2>2, <3>1, <3>2, AttemptsAssumption DEF PenTypes, Unmatched
  <2> QED
    BY <2>1, <2>2, <2>4 DEF TypeInv
<1>5. CASE Attempt
  <2>1. /\ stage = "cutting" /\ stage' = stage /\ picture' = picture /\ room' = room /\ seen' = seen /\ tired' = tired
        /\ gestures' = gestures /\ pen.tries < MAX_ATTEMPTS
    BY <1>5 DEF Attempt, viewing
  <2>2. PICK tabs \in [Mutable -> Palette(Grid)] :
          LET distance == DistanceToPeers(Silhouette(Redrawn(edges[pen.piece], tabs)), seen)
              better == distance > pen.best
          IN  pen' = [pen EXCEPT !.tries = @ + 1,
                                 !.best = IF better THEN distance ELSE @,
                                 !.chosen = IF better THEN tabs ELSE @]
    BY <1>5 DEF Attempt
  <2> DEFINE distance == DistanceToPeers(Silhouette(Redrawn(edges[pen.piece], tabs)), seen)
  <2>3. distance \in 0..Unmatched
    BY NearestBounds
  <2>4. /\ pen'.piece = pen.piece /\ pen'.tries = pen.tries + 1
        /\ pen'.best = IF distance > pen.best THEN distance ELSE pen.best
    BY <2>2
  <2> HIDE DEF distance
  <2>5. PenTypes'
    BY <2>1, <2>3, <2>4, AttemptsAssumption DEF TypeInv, PenTypes, Unmatched
  <2> QED
    BY <2>1, <2>5 DEF TypeInv
<1>6. CASE Commit
  <2>1. /\ stage = "cutting" /\ stage' = stage /\ picture' = picture /\ room' = room /\ gestures' = gestures
        /\ seen' = seen \cup AllTurns(Silhouette(edges'[pen.piece]))
        /\ tired' \subseteq tired \cup {pen.piece}
        /\ pen'.piece = pen.piece + 1 /\ pen'.tries = 0 /\ pen'.best = -1 /\ pen'.chosen = << >>
    BY <1>6 DEF Commit, viewing, Unmarked
  <2>2. IsFiniteSet(AllTurns(Silhouette(edges'[pen.piece])))
    <3> DEFINE a == Silhouette(edges'[pen.piece])
    <3>1. AllTurns(a) = {Turned(a, 0), Turned(a, 1)} \cup {Turned(a, 2), Turned(a, 3)}
      <4>1. 0..3 = {0, 1, 2, 3}
        OBVIOUS
      <4> HIDE DEF a
      <4> QED
        BY <4>1 DEF AllTurns
    <3> HIDE DEF a
    <3>2. IsFiniteSet({Turned(a, 0)}) /\ IsFiniteSet({Turned(a, 1)}) /\ IsFiniteSet({Turned(a, 2)}) /\ IsFiniteSet({Turned(a, 3)})
      BY FS_Singleton
    <3>3. {Turned(a, 0), Turned(a, 1)} = {Turned(a, 0)} \cup {Turned(a, 1)}
          /\ {Turned(a, 2), Turned(a, 3)} = {Turned(a, 2)} \cup {Turned(a, 3)}
      OBVIOUS
    <3>4. IsFiniteSet({Turned(a, 0)} \cup {Turned(a, 1)})
      BY <3>2, FS_Union
    <3>5. IsFiniteSet({Turned(a, 2)} \cup {Turned(a, 3)})
      BY <3>2, FS_Union
    <3>6. IsFiniteSet({Turned(a, 0), Turned(a, 1)}) /\ IsFiniteSet({Turned(a, 2), Turned(a, 3)})
      BY <3>3, <3>4, <3>5
    <3>7. IsFiniteSet({Turned(a, 0), Turned(a, 1)} \cup {Turned(a, 2), Turned(a, 3)})
      BY <3>6, FS_Union
    <3>8. IsFiniteSet(AllTurns(a))
      BY <3>1, <3>7
    <3> QED
      BY <3>8 DEF a
  <2>3. IsFiniteSet(seen')
    BY <2>1, <2>2, FS_Union DEF TypeInv, PenTypes
  <2>4. PenTypes'
    BY <2>1, <2>3, AttemptsAssumption DEF TypeInv, PenTypes, Unmatched
  <2> QED
    BY <2>1, <2>4 DEF TypeInv
<1>7. CASE Finished
  BY <1>7 DEF Finished, viewing, TypeInv
<1>8. CASE Scatter
  BY <1>8 DEF Scatter, viewing, TypeInv
<1>9. ASSUME NEW size \in Viewports, OpenBoard(size) PROVE TypeInv'
  BY <1>9 DEF OpenBoard, TypeInv
<1>10. CASE Gesture
  <2>1. gestures' \in 0..MaxGestures
    BY <1>10, GesturesAssumption DEF Gesture, TypeInv
  <2> QED
    BY <1>10, <2>1 DEF Gesture, TypeInv
<1>11. CASE Leave
  BY <1>11, GesturesAssumption DEF Leave, TypeInv
<1>12. CASE UNCHANGED tableVars
  BY <1>12 DEF tableVars, cutting, viewing, TypeInv, PenTypes
<1> QED
  BY <1>2, <1>3, <1>4, <1>5, <1>6, <1>7, <1>8, <1>9, <1>10, <1>11, <1>12
     DEF Next, Pan, Wheel, UpdatePinch, OnResize

LEMMA InvTypes ==
  ASSUME IInv, ViewInv, TypeInv
  PROVE  TypeOK
<1>1. StageInv
  BY DEF IInv
<1>2. DOMAIN edges \subseteq Nat /\ IsFiniteSet(seen)
  <2>1. CASE stage = "cutting"
    <3>1. Grid \in Grids /\ DOMAIN edges = PieceIds(Grid)
      BY <1>1, <2>1 DEF IInv, StageInv, EdgesInv, Shaped
    <3> QED
      BY <2>1, <3>1, PiecePlaced DEF TypeInv, PenTypes
  <2>2. CASE stage # "cutting"
    <3>1. edges = << >> /\ seen = {}
      BY <1>1, <2>2 DEF StageInv, NoCut
    <3> QED
      BY <3>1, FS_EmptySet
  <2> QED
    BY <2>1, <2>2
<1>3. /\ pen.piece \in Nat /\ pen.tries \in 0..MAX_ATTEMPTS /\ pen.best \in -1..Unmatched
      /\ DOMAIN pen.chosen \subseteq {"right", "bottom"} /\ tired \subseteq 0..pen.piece
  <2>1. CASE stage = "cutting"
    <3>1. PenTypes /\ PenInv
      BY <2>1 DEF TypeInv, IInv
    <3>2. DOMAIN pen.chosen \subseteq {"right", "bottom"}
      <4>1. CASE pen.tries = 0
        BY <3>1, <4>1 DEF PenTypes
      <4>2. CASE pen.tries # 0
        <5>1. pen.tries > 0
          BY <3>1, <4>2 DEF PenInv
        <5>2. DOMAIN pen.chosen = MutableSides(edges[pen.piece])
          BY <3>1, <5>1 DEF PenInv
        <5> QED
          BY <5>2 DEF MutableSides
      <4> QED
        BY <4>1, <4>2
    <3> QED
      BY <3>1, <3>2 DEF PenTypes
  <2>2. CASE stage # "cutting"
    <3>1. pen = Unmarked /\ tired = {}
      BY <1>1, <2>2 DEF StageInv, NoCut
    <3> QED
      BY <3>1, AttemptsAssumption DEF Unmarked, Unmatched
  <2> QED
    BY <2>1, <2>2
<1>4. stage = "laid" => layout.cells \subseteq [x : Int, y : Int] /\ layout.jitter \in Nat
  <2> SUFFICES ASSUME stage = "laid" PROVE layout.cells \subseteq [x : Int, y : Int] /\ layout.jitter \in Nat
    OBVIOUS
  <2>1. Grid \in Grids /\ layout = InitialScatter(Grid)
    BY <1>1 DEF StageInv, ViewInv
  <2> QED
    BY <2>1, ScatterRoomy
<1>5. (vp = None \/ vp \in Viewports) /\ (camera = None \/ camera \in [x : Int, y : Int, scale : Nat \ {0}])
  BY DEF ViewInv, Cameras
<1> QED
  BY <1>2, <1>3, <1>4, <1>5 DEF TypeOK, TypeInv

THEOREM TypeInvariance == Spec => []TypeInv
<1>1. Init => TypeInv
  BY GesturesAssumption DEF Init, NoView, TypeInv
<1> QED
  BY <1>1, TypeStep, Invariance, PTL DEF Spec

\* On a screen of any size, however the board was panned, zoomed, pinched and the
\* window resized: every spot of the play area can be panned out from under the
\* panel and the tray, and a zoom stays where it is aimed until the clamp stops it.
THEOREM CameraCorrect == Spec => []CameraServes
<1>1. IInv /\ ViewInv /\ TypeInv => CameraServes
  BY InvTypes, InvClear, InvAnchor DEF IInv, CameraServes
<1> QED
  BY <1>1, Invariance, ViewInvariance, TypeInvariance, PTL
==============================================================================
