-------------------------- MODULE RoomEngineProofs --------------------------
(***************************************************************************)
(* Theorems about the referee, for every board, every set of guests and    *)
(* every bound of the model.                                               *)
(***************************************************************************)
EXTENDS RoomEngineJigsaw, SumLemmas

-----------------------------------------------------------------------------
(* The geometry of Snap, for every board and tolerance. *)

\* A non-empty set of integers with a lower bound has a least element.
LEMMA IntMin ==
  ASSUME NEW T \in SUBSET Int, T # {}, NEW lo \in Int, \A n \in T : lo <= n
  PROVE  /\ Min(T) \in T
         /\ \A n \in T : Min(T) <= n
<1> DEFINE S == {n - lo : n \in T}
<1>0. PICK x \in T : TRUE
  OBVIOUS
<1>1. x - lo \in S /\ S \in SUBSET Nat
  BY <1>0
<1>2. PICK m \in S : \A n \in S : m <= n
  BY <1>1, NatMin
<1>3. PICK t \in T : m = t - lo
  BY <1>2
<1>4. ASSUME NEW n \in T PROVE t <= n
  <2>1. n - lo \in S /\ n \in Int /\ t \in Int
    OBVIOUS
  <2>2. t - lo <= n - lo
    BY <1>2, <1>3, <2>1
  <2> QED
    BY <2>1, <2>2
<1> QED
  BY <1>4 DEF Min

\* A non-empty set of integers with an upper bound has a greatest element.
LEMMA IntMax ==
  ASSUME NEW T \in SUBSET Int, T # {}, NEW hi \in Int, \A n \in T : n <= hi
  PROVE  /\ Max(T) \in T
         /\ \A n \in T : n <= Max(T)
<1> DEFINE S == {hi - n : n \in T}
<1>0. PICK x \in T : TRUE
  OBVIOUS
<1>1. hi - x \in S /\ S \in SUBSET Nat
  BY <1>0
<1>2. PICK m \in S : \A n \in S : m <= n
  BY <1>1, NatMin
<1>3. PICK t \in T : m = hi - t
  BY <1>2
<1>4. ASSUME NEW n \in T PROVE n <= t
  <2>1. hi - n \in S /\ n \in Int /\ t \in Int
    OBVIOUS
  <2>2. hi - t <= hi - n
    BY <1>2, <1>3, <2>1
  <2> QED
    BY <2>1, <2>2
<1> QED
  BY <1>4 DEF Max

\* A set of integers within lo .. lo + w spreads over at most w.
LEMMA IntSpan ==
  ASSUME NEW T \in SUBSET Int, T # {}, NEW lo \in Int, NEW w \in Int,
         \A n \in T : lo <= n /\ n <= lo + w
  PROVE  /\ Min(T) \in Int /\ Max(T) \in Int /\ Max(T) - Min(T) <= w
         /\ \A n \in T : Min(T) <= n /\ n <= Max(T)
<1>1. lo + w \in Int
  OBVIOUS
<1>2. Min(T) \in T /\ \A n \in T : Min(T) <= n
  BY IntMin
<1>3. Max(T) \in T /\ \A n \in T : n <= Max(T)
  BY <1>1, IntMax
<1>4. lo <= Min(T) /\ Max(T) <= lo + w /\ Min(T) \in Int /\ Max(T) \in Int
  BY <1>2, <1>3
<1> QED
  BY <1>2, <1>3, <1>4

-----------------------------------------------------------------------------

LEMMA PiecesFinite == Pieces \in SUBSET Nat /\ IsFiniteSet(Pieces) /\ 0 \in Pieces
<1>1. Rows * Cols \in Nat /\ Rows * Cols >= 1
  BY GridAssumption
<1>2. IsFiniteSet(0 .. (Rows * Cols - 1))
  BY <1>1, FS_Interval
<1> QED
  BY <1>1, <1>2 DEF Pieces

\* The anchor of a group is one of its pieces, and the lowest.
LEMMA AnchorInGroup ==
  ASSUME NEW P \in SUBSET Pieces, P # {}
  PROVE  Anchor(P) \in P /\ \A q \in P : Anchor(P) <= q
BY PiecesFinite, IntMin DEF Anchor

LEMMA PointArithmetic ==
  ASSUME NEW a \in Point, NEW b \in Point
  PROVE  /\ Plus(a, b) \in Point
         /\ Minus(a, b) \in Point
         /\ SqNorm(a) \in Nat
BY DEF Point, Plus, Minus, SqNorm

\* Where frame cells are: inside the frame.
LEMMA FrameBounds ==
  ASSUME NEW p \in Pieces
  PROVE  /\ Frame(p) \in Point
         /\ 0 <= Frame(p).x /\ Frame(p).x <= Cols * Cell - Cell
         /\ 0 <= Frame(p).y /\ Frame(p).y <= Rows * Cell - Cell
<1>1. p \in Nat /\ p <= Rows * Cols - 1 /\ Rows \in Nat \ {0} /\ Cols \in Nat \ {0} /\ Cell \in Nat
  BY PiecesFinite, GridAssumption, ScaleAssumption DEF Pieces
<1>2. Col(p) \in 0 .. (Cols - 1)
  BY <1>1 DEF Col
<1>3. Row(p) \in 0 .. (Rows - 1)
  BY <1>1 DEF Row
<1>4. \A n \in Nat \ {0} : \A m \in 0 .. (n - 1) : m * Cell \in Int /\ 0 <= m * Cell /\ m * Cell <= n * Cell - Cell
  BY <1>1
<1> QED
  BY <1>1, <1>2, <1>3, <1>4 DEF Frame, Point

LEMMA WorldOriginType ==
  ASSUME NEW P \in SUBSET Pieces, NEW p \in P, NEW pos \in Point
  PROVE  WorldOrigin(p, P, pos) \in Point
BY AnchorInGroup, FrameBounds, PointArithmetic DEF WorldOrigin

-----------------------------------------------------------------------------
(* Clamping. *)

\* One axis: a span no wider than the range ends up inside it.
LEMMA ClampShiftInside ==
  ASSUME NEW lo \in Int, NEW hi \in Int, NEW min \in Int, NEW max \in Int,
         hi - lo <= max - min
  PROVE  /\ ClampShift(lo, hi, min, max) \in Int
         /\ min <= lo + ClampShift(lo, hi, min, max)
         /\ hi + ClampShift(lo, hi, min, max) <= max
BY DEF ClampShift

\* The pieces of a group spread over no more than the frame.
LEMMA GroupSpan ==
  ASSUME NEW P \in SUBSET Pieces, P # {}, NEW pos \in Point
  PROVE  LET xs == {WorldOrigin(p, P, pos).x : p \in P}
             ys == {WorldOrigin(p, P, pos).y : p \in P}
         IN  /\ Min(xs) \in Int /\ Max(xs) \in Int /\ Max(xs) - Min(xs) <= Cols * Cell - Cell
             /\ Min(ys) \in Int /\ Max(ys) \in Int /\ Max(ys) - Min(ys) <= Rows * Cell - Cell
             /\ \A p \in P : /\ Min(xs) <= WorldOrigin(p, P, pos).x
                            /\ WorldOrigin(p, P, pos).x <= Max(xs)
                            /\ Min(ys) <= WorldOrigin(p, P, pos).y
                            /\ WorldOrigin(p, P, pos).y <= Max(ys)
<1> DEFINE xs == {WorldOrigin(p, P, pos).x : p \in P}
           ys == {WorldOrigin(p, P, pos).y : p \in P}
           W == Cols * Cell - Cell
           H == Rows * Cell - Cell
           bx == pos.x - Frame(Anchor(P)).x
           by == pos.y - Frame(Anchor(P)).y
<1>1. W \in Int /\ H \in Int
  BY GridAssumption, ScaleAssumption
<1>2. Anchor(P) \in Pieces
  BY AnchorInGroup
<1>3. bx \in Int /\ by \in Int
  BY <1>2, FrameBounds DEF Point
<1>4. \A p \in P : /\ WorldOrigin(p, P, pos).x \in Int
                   /\ bx <= WorldOrigin(p, P, pos).x /\ WorldOrigin(p, P, pos).x <= bx + W
                   /\ WorldOrigin(p, P, pos).y \in Int
                   /\ by <= WorldOrigin(p, P, pos).y /\ WorldOrigin(p, P, pos).y <= by + H
  <2> TAKE p \in P
  <2>1. /\ Frame(p) \in Point /\ Frame(Anchor(P)) \in Point
        /\ 0 <= Frame(p).x /\ Frame(p).x <= W /\ 0 <= Frame(p).y /\ Frame(p).y <= H
    BY <1>2, FrameBounds
  <2>2. /\ WorldOrigin(p, P, pos).x = pos.x + (Frame(p).x - Frame(Anchor(P)).x)
        /\ WorldOrigin(p, P, pos).y = pos.y + (Frame(p).y - Frame(Anchor(P)).y)
    BY DEF WorldOrigin, Plus, Minus
  <2> HIDE DEF W, H
  <2> QED
    BY <1>1, <2>1, <2>2 DEF Point
<1> HIDE DEF W, H, bx, by
<1>5. xs \in SUBSET Int /\ ys \in SUBSET Int /\ xs # {} /\ ys # {}
  BY <1>4
<1>6. \A x \in xs : bx <= x /\ x <= bx + W
  BY <1>4
<1>7. \A y \in ys : by <= y /\ y <= by + H
  BY <1>4
<1>8. \A p \in P : WorldOrigin(p, P, pos).x \in xs /\ WorldOrigin(p, P, pos).y \in ys
  OBVIOUS
<1> HIDE DEF xs, ys
<1>9. /\ Min(xs) \in Int /\ Max(xs) \in Int /\ Max(xs) - Min(xs) <= W
      /\ \A x \in xs : Min(xs) <= x /\ x <= Max(xs)
  BY <1>1, <1>3, <1>5, <1>6, IntSpan
<1>10. /\ Min(ys) \in Int /\ Max(ys) \in Int /\ Max(ys) - Min(ys) <= H
       /\ \A y \in ys : Min(ys) <= y /\ y <= Max(ys)
  BY <1>1, <1>3, <1>5, <1>7, IntSpan
<1> QED
  BY <1>8, <1>9, <1>10 DEF xs, ys, W, H

\* Clamping puts any group reported anywhere inside the play area.
THEOREM ClampInside ==
  ASSUME NEW P \in SUBSET Pieces, P # {}, NEW pos \in Point
  PROVE  /\ ClampGroupToBoard(pos, P) \in Point
         /\ InsideArea(P, ClampGroupToBoard(pos, P))
<1> DEFINE xs == {WorldOrigin(p, P, pos).x : p \in P}
           ys == {WorldOrigin(p, P, pos).y : p \in P}
           W == Cols * Cell
           H == Rows * Cell
           dx == ClampShift(Min(xs) - Overhang, Max(xs) + Cell + Overhang, Area.minX, Area.maxX)
           dy == ClampShift(Min(ys) - Overhang, Max(ys) + Cell + Overhang, Area.minY, Area.maxY)
<1>1. /\ W \in Int /\ H \in Int /\ Cell \in Int /\ Overhang \in Int
      /\ Area.minX \in Int /\ Area.maxX \in Int /\ Area.minY \in Int /\ Area.maxY \in Int
      /\ Area.minX <= -Overhang /\ W + Overhang <= Area.maxX
      /\ Area.minY <= -Overhang /\ H + Overhang <= Area.maxY
  BY GridAssumption, ScaleAssumption, AreaAssumption
<1>2. /\ Min(xs) \in Int /\ Max(xs) \in Int /\ Max(xs) - Min(xs) <= W - Cell
      /\ Min(ys) \in Int /\ Max(ys) \in Int /\ Max(ys) - Min(ys) <= H - Cell
      /\ \A p \in P : /\ Min(xs) <= WorldOrigin(p, P, pos).x
                     /\ WorldOrigin(p, P, pos).x <= Max(xs)
                     /\ Min(ys) <= WorldOrigin(p, P, pos).y
                     /\ WorldOrigin(p, P, pos).y <= Max(ys)
  BY GroupSpan
<1> HIDE DEF xs, ys, W, H
<1>3. /\ dx \in Int /\ dy \in Int
      /\ Area.minX <= Min(xs) - Overhang + dx /\ Max(xs) + Cell + Overhang + dx <= Area.maxX
      /\ Area.minY <= Min(ys) - Overhang + dy /\ Max(ys) + Cell + Overhang + dy <= Area.maxY
  <2> DEFINE lx == Min(xs) - Overhang
             hx == Max(xs) + Cell + Overhang
             ly == Min(ys) - Overhang
             hy == Max(ys) + Cell + Overhang
  <2>1. /\ lx \in Int /\ hx \in Int /\ hx - lx <= Area.maxX - Area.minX
        /\ ly \in Int /\ hy \in Int /\ hy - ly <= Area.maxY - Area.minY
    BY <1>1, <1>2
  <2> HIDE DEF lx, hx, ly, hy
  <2>2. /\ ClampShift(lx, hx, Area.minX, Area.maxX) \in Int
        /\ Area.minX <= lx + ClampShift(lx, hx, Area.minX, Area.maxX)
        /\ hx + ClampShift(lx, hx, Area.minX, Area.maxX) <= Area.maxX
    BY <1>1, <2>1, ClampShiftInside
  <2>3. /\ ClampShift(ly, hy, Area.minY, Area.maxY) \in Int
        /\ Area.minY <= ly + ClampShift(ly, hy, Area.minY, Area.maxY)
        /\ hy + ClampShift(ly, hy, Area.minY, Area.maxY) <= Area.maxY
    BY <1>1, <2>1, ClampShiftInside
  <2> QED
    BY <2>2, <2>3 DEF lx, hx, ly, hy
<1>4. ClampGroupToBoard(pos, P) = Plus(pos, [x |-> dx, y |-> dy])
  BY DEF ClampGroupToBoard, xs, ys
<1> HIDE DEF dx, dy
<1>5. ClampGroupToBoard(pos, P) \in Point
  BY <1>3, <1>4 DEF Point, Plus
<1>6. ASSUME NEW p \in P
      PROVE  /\ WorldOrigin(p, P, pos) \in Point
             /\ WorldOrigin(p, P, ClampGroupToBoard(pos, P)).x = WorldOrigin(p, P, pos).x + dx
             /\ WorldOrigin(p, P, ClampGroupToBoard(pos, P)).y = WorldOrigin(p, P, pos).y + dy
  <2>1. Frame(p) \in Point /\ Frame(Anchor(P)) \in Point
    BY AnchorInGroup, FrameBounds
  <2> QED
    BY <1>3, <1>4, <2>1, WorldOriginType DEF WorldOrigin, Plus, Minus, Point
<1>7. InsideArea(P, ClampGroupToBoard(pos, P))
  BY <1>1, <1>2, <1>3, <1>6 DEF InsideArea, Point
<1> QED
  BY <1>5, <1>7

-----------------------------------------------------------------------------
(* The outcome of a drop. *)

IsTable(t) ==
  /\ DOMAIN t \subseteq Pieces /\ t \in [DOMAIN t -> Group]
  /\ \A g \in DOMAIN t : t[g].pieces # {}

Candidate == [kind : {"frame", "merge"}, translation : Point, target : Pieces \cup {-1}]

LEMMA CandidatesType ==
  ASSUME NEW t, IsTable(t), NEW id \in DOMAIN t, NEW pos \in Point
  PROVE  Candidates(t, id, pos) \subseteq Candidate
<1>1. FrameCandidates(t[id].pieces, pos) \subseteq Candidate
  <2>1. FrameShift(t[id].pieces, pos) \in Point
    BY AnchorInGroup, FrameBounds, PointArithmetic DEF IsTable, Group, FrameShift
  <2> QED
    BY <2>1 DEF FrameCandidates, Candidate
<1>2. ASSUME NEW h \in DOMAIN t, NEW a \in t[id].pieces, NEW b \in t[h].pieces
      PROVE  Misfit(a, t[id].pieces, pos, b, t[h].pieces, t[h].position) \in Point
  <2>1. /\ t[id].pieces \in SUBSET Pieces /\ t[h].pieces \in SUBSET Pieces
        /\ t[h].position \in Point
    BY DEF IsTable, Group
  <2>2. /\ WorldOrigin(a, t[id].pieces, pos) \in Point
        /\ WorldOrigin(b, t[h].pieces, t[h].position) \in Point
        /\ Frame(a) \in Point /\ Frame(b) \in Point
    BY <2>1, WorldOriginType, FrameBounds
  <2> QED
    BY <2>2, PointArithmetic DEF Misfit
<1>3. MergeCandidates(t, id, pos) \subseteq Candidate
  <2> SUFFICES ASSUME NEW h \in DOMAIN t, NEW a \in t[id].pieces, NEW b \in t[h].pieces
               PROVE  [kind |-> "merge", target |-> h,
                       translation |-> Misfit(a, t[id].pieces, pos, b, t[h].pieces, t[h].position)]
                        \in Candidate
    BY DEF MergeCandidates
  <2> QED
    BY <1>2 DEF Candidate, IsTable
<1> QED
  BY <1>1, <1>3 DEF Candidates

\* There is a best candidate whenever there is one.
LEMMA BestCandidateExists ==
  ASSUME NEW C \in SUBSET Candidate, C # {}
  PROVE  BestCandidate(C) \in C
<1> DEFINE F == {c \in C : c.kind = "frame"}
           K == IF F # {} THEN F ELSE C
           N == {SqNorm(c.translation) : c \in K}
<1>1. K \in SUBSET C /\ K # {} /\ \A c, d \in K : c.kind = d.kind
  BY DEF Candidate
<1>2. \A c \in K, d \in C \ K : c.kind = "frame" /\ d.kind = "merge"
  BY DEF Candidate
<1> HIDE DEF K
<1>3. \A c \in C : SqNorm(c.translation) \in Nat /\ c.target \in Int /\ -1 <= c.target
  <2> TAKE c \in C
  <2>1. c.translation \in Point /\ c.target \in Pieces \cup {-1}
    BY DEF Candidate
  <2>2. SqNorm(c.translation) \in Nat
    BY <2>1, PointArithmetic
  <2>3. CASE c.target = -1
    BY <2>2, <2>3
  <2>4. CASE c.target \in Pieces
    <3>1. c.target \in Nat
      BY <2>4, PiecesFinite
    <3> QED
      BY <2>2, <3>1
  <2> QED
    BY <2>1, <2>3, <2>4
<1>4. PICK n \in N : \A m \in N : n <= m
  <2>1. N \in SUBSET Nat /\ N # {}
    BY <1>1, <1>3
  <2> HIDE DEF N
  <2> QED
    BY <2>1, NatMin
<1> DEFINE L == {c \in K : SqNorm(c.translation) = n}
           T == {c.target : c \in L}
<1>5. PICK k \in T : \A m \in T : k <= m
  <2>1. T \in SUBSET Int /\ T # {} /\ \A m \in T : -1 <= m
    BY <1>1, <1>3, <1>4
  <2> HIDE DEF T
  <2>2. Min(T) \in T /\ \A m \in T : Min(T) <= m
    BY <2>1, -1 \in Int, IntMin
  <2> QED
    BY <2>2
<1>6. PICK c \in L : c.target = k
  BY <1>5
<1>7. ASSUME NEW d \in C
      PROVE  Precedes(c, d)
  <2>1. CASE d \notin K
    BY <1>2, <1>6, <2>1 DEF Precedes
  <2>2. CASE d \in K
    <3>1. n <= SqNorm(d.translation) /\ SqNorm(c.translation) = n /\ c.kind = d.kind
      BY <1>1, <1>4, <1>6, <2>2
    <3>2. CASE SqNorm(d.translation) = n
      BY <1>5, <1>6, <2>2, <3>1, <3>2 DEF Precedes
    <3>3. CASE SqNorm(d.translation) # n
      BY <1>1, <1>3, <1>6, <3>1, <3>3 DEF Precedes
    <3> QED
      BY <3>2, <3>3
  <2> QED
    BY <2>1, <2>2
<1> QED
  BY <1>1, <1>6, <1>7 DEF BestCandidate

\* There is a reference group in every component.
LEMMA PickReferenceExists ==
  ASSUME NEW t, IsTable(t), NEW id, NEW C \in SUBSET DOMAIN t, C # {}
  PROVE  PickReference(t, C, id) \in C
<1> DEFINE Size(g) == Cardinality(t[g].pieces)
           S == {Size(g) : g \in C}
<1>1. \A g \in C : Size(g) \in Nat /\ Size(g) <= Cardinality(Pieces)
  BY PiecesFinite, FS_Subset, FS_CardinalityType DEF IsTable, Group
<1>2. Cardinality(Pieces) \in Nat
  BY PiecesFinite, FS_CardinalityType
<1> HIDE DEF Size
<1>3. PICK n \in S : \A m \in S : m <= n
  <2>1. S \in SUBSET Int /\ S # {} /\ \A m \in S : m <= Cardinality(Pieces)
    BY <1>1
  <2>2. PICK hi \in Int : hi = Cardinality(Pieces)
    BY <1>2
  <2>3. \A m \in S : m <= hi
    BY <2>1, <2>2
  <2> HIDE DEF S
  <2>4. Max(S) \in S /\ \A m \in S : m <= Max(S)
    BY <2>1, <2>3, IntMax
  <2> QED
    BY <2>4
<1> DEFINE A == {g \in C : Size(g) = n}
           B == IF A \ {id} # {} THEN A \ {id} ELSE A
           R == {Anchor(t[g].pieces) : g \in B}
<1>4. B \in SUBSET A /\ B # {} /\ A \in SUBSET C
  BY <1>3
<1>5. \A g \in B, h \in A \ B : g # id /\ h = id
  OBVIOUS
<1>6. \A g, h \in B : g = id <=> h = id
  OBVIOUS
<1> HIDE DEF A, B
<1>7. \A g \in B : Anchor(t[g].pieces) \in Nat
  BY <1>4, AnchorInGroup, PiecesFinite DEF IsTable, Group
<1>8. PICK r \in R : \A m \in R : r <= m
  <2>1. R \in SUBSET Nat /\ R # {}
    BY <1>4, <1>7
  <2> HIDE DEF R
  <2> QED
    BY <2>1, NatMin
<1>9. PICK g \in B : Anchor(t[g].pieces) = r
  BY <1>8
<1>10. ASSUME NEW h \in C
       PROVE  Preferred(t, id, g, h)
  <2>1. Size(g) = n /\ Size(g) \in Nat /\ Size(h) \in Nat /\ Size(h) <= n
    BY <1>1, <1>3, <1>4 DEF A
  <2>2. CASE h \notin A
    <3>1. Size(g) > Size(h)
      BY <2>1, <2>2 DEF A
    <3> QED
      BY <3>1 DEF Preferred, Size
  <2>3. CASE h \in A \ B
    BY <1>5, <2>1, <2>3 DEF Preferred, Size, A
  <2>4. CASE h \in B
    <3>1. Size(h) = n /\ Anchor(t[g].pieces) <= Anchor(t[h].pieces) /\ (g = id <=> h = id)
      BY <1>4, <1>6, <1>8, <1>9, <2>4 DEF A
    <3> QED
      BY <2>1, <3>1 DEF Preferred, Size
  <2> QED
    BY <2>2, <2>3, <2>4
<1> QED
  BY <1>4, <1>9, <1>10 DEF PickReference

-----------------------------------------------------------------------------
(* What a drop makes of a table. *)

\* The component holds the dropped group and live groups only.
LEMMA ComponentContains ==
  ASSUME NEW t, NEW id \in DOMAIN t
  PROVE  /\ id \in Component(t, id)
         /\ Component(t, id) \subseteq DOMAIN t
         /\ \A h \in DOMAIN t : Connects(t, id, h) => h \in Component(t, id)
<1>1. \A h \in DOMAIN t : Connects(t, id, h) => <<id, h>> \in Links(t)
  BY DEF Links
<1> QED
  BY <1>1 DEF Component

\* Moving a group by its misfit with another closes the gap between them.
LEMMA AlignedMisfit ==
  ASSUME NEW P \in SUBSET Pieces, NEW a \in P, NEW pos \in Point,
         NEW Q \in SUBSET Pieces, NEW b \in Q, NEW qpos \in Point
  PROVE  WithinTol(Misfit(a, P, Plus(pos, Misfit(a, P, pos, b, Q, qpos)), b, Q, qpos))
<1> DEFINE fa == Minus(Frame(a), Frame(Anchor(P)))
           wb == WorldOrigin(b, Q, qpos)
           d == Minus(Frame(a), Frame(b))
           tr == Misfit(a, P, pos, b, Q, qpos)
<1>1. fa \in Point /\ wb \in Point /\ d \in Point
  BY AnchorInGroup, FrameBounds, PointArithmetic, WorldOriginType
<1>2. tr = Minus(d, Minus(Plus(pos, fa), wb))
  BY DEF Misfit, WorldOrigin
<1>3. Misfit(a, P, Plus(pos, tr), b, Q, qpos) = Minus(d, Minus(Plus(Plus(pos, tr), fa), wb))
  BY DEF Misfit, WorldOrigin
<1> HIDE DEF fa, wb, d, tr
<1>4. /\ Misfit(a, P, Plus(pos, tr), b, Q, qpos).x = 0
      /\ Misfit(a, P, Plus(pos, tr), b, Q, qpos).y = 0
  BY <1>1, <1>2, <1>3 DEF Point, Plus, Minus
<1>5. 0 <= Tol * Tol
  BY ScaleAssumption
<1> QED
  BY <1>4, <1>5 DEF WithinTol, SqNorm, tr

\* Every piece of a group on the frame is on its own frame cell.
LEMMA FrameOrigin ==
  ASSUME NEW P \in SUBSET Pieces, NEW p \in P
  PROVE  WorldOrigin(p, P, Frame(Anchor(P))) = Frame(p)
<1> DEFINE f == Frame(p)
           g == Frame(Anchor(P))
<1>1. f \in Point /\ g \in Point
  BY AnchorInGroup, FrameBounds
<1>2. WorldOrigin(p, P, g) = Plus(g, Minus(f, g))
  BY DEF WorldOrigin
<1> HIDE DEF f, g
<1>3. Plus(g, Minus(f, g)) = [x |-> f.x, y |-> f.y]
  BY <1>1 DEF Plus, Minus, Point
<1>4. f = [x |-> f.x, y |-> f.y]
  BY <1>1 DEF Point
<1> QED
  BY <1>2, <1>3, <1>4 DEF f, g

\* A group on the frame is inside the play area.
LEMMA FrameInside ==
  ASSUME NEW P \in SUBSET Pieces, P # {}
  PROVE  InsideArea(P, Frame(Anchor(P)))
<1> SUFFICES ASSUME NEW p \in P
             PROVE  /\ Area.minX <= Frame(p).x - Overhang
                    /\ Frame(p).x + Cell + Overhang <= Area.maxX
                    /\ Area.minY <= Frame(p).y - Overhang
                    /\ Frame(p).y + Cell + Overhang <= Area.maxY
  BY FrameOrigin DEF InsideArea
<1>1. /\ Frame(p).x \in Int /\ 0 <= Frame(p).x /\ Frame(p).x <= Cols * Cell - Cell
      /\ Frame(p).y \in Int /\ 0 <= Frame(p).y /\ Frame(p).y <= Rows * Cell - Cell
  BY FrameBounds DEF Point
<1>2. /\ Cols * Cell \in Int /\ Rows * Cell \in Int /\ Cell \in Int /\ Overhang \in Int
      /\ Area.minX \in Int /\ Area.minY \in Int /\ Area.maxX \in Int /\ Area.maxY \in Int
  BY GridAssumption, ScaleAssumption, AreaAssumption
<1> QED
  BY <1>1, <1>2, AreaAssumption

\* A drop of an unlocked group at pos joins it with other live groups into the
\* union of their pieces; a locked result is on the frame, a lock spreads, and
\* only what joined or locked is credited.  A group that joins nothing and does
\* not lock lies where the clamp puts it.
THEOREM EvaluateSnapOutcome ==
  ASSUME NEW t, IsTable(t), NEW id \in DOMAIN t, ~t[id].locked, NEW pos \in Point
  PROVE  LET o == EvaluateSnap(t, id, pos)
             joined == o.mergedIds \cup {id}
         IN  /\ o.mergedIds \subseteq DOMAIN t \ {id}
             /\ o.group \in Group
             /\ o.group.pieces = UNION {t[g].pieces : g \in joined}
             /\ o.group.locked => o.group.position = Frame(Anchor(o.group.pieces))
             /\ (\E g \in joined : t[g].locked) => o.group.locked
             /\ o.connectedPieces =
                  IF o.group.locked \/ o.mergedIds # {} THEN o.group.pieces ELSE {}
             /\ ~o.group.locked /\ o.mergedIds = {} =>
                  o.group.position = ClampGroupToBoard(pos, t[id].pieces)
<1> DEFINE o == EvaluateSnap(t, id, pos)
           cands == Candidates(t, id, pos)
<1>0. t[id].pieces \in SUBSET Pieces /\ t[id].pieces # {} /\ t[id] \in Group
  BY DEF IsTable, Group
<1>1. CASE cands = {}
  <2> DEFINE at == ClampGroupToBoard(pos, t[id].pieces)
  <2>1. at \in Point
    BY <1>0, ClampInside
  <2>2. o = NoSnapOutcome(t[id], at)
    BY <1>1 DEF EvaluateSnap
  <2>3. /\ o.mergedIds = {} /\ o.connectedPieces = {}
        /\ o.group = [t[id] EXCEPT !.position = at]
    BY <2>2 DEF NoSnapOutcome
  <2> HIDE DEF o, at
  <2>4. /\ o.group \in Group /\ o.group.pieces = t[id].pieces
        /\ ~o.group.locked /\ o.group.position = at
    BY <1>0, <2>1, <2>3 DEF Group
  <2>5. o.mergedIds \cup {id} = {id}
    BY <2>3
  <2>6. UNION {t[g].pieces : g \in {id}} = t[id].pieces
    OBVIOUS
  <2> QED
    BY <2>3, <2>4, <2>5, <2>6 DEF o, at
<1>2. CASE cands # {}
  <2> DEFINE chosen == BestCandidate(cands)
             aligned == [t EXCEPT ![id].position = Plus(pos, chosen.translation)]
             component == Component(aligned, id)
             all == UNION {t[g].pieces : g \in component}
             home == Frame(Anchor(all))
             ref == aligned[PickReference(t, component, id)]
             rest == Plus(ref.position, Minus(home, Frame(Anchor(ref.pieces))))
  <2>1. chosen \in Candidate /\ chosen \in cands
    BY <1>2, CandidatesType, BestCandidateExists
  <2>2. Plus(pos, chosen.translation) \in Point
    BY <2>1, PointArithmetic DEF Candidate
  <2>3. o = SnapOutcome(t, id, pos, chosen)
    BY <1>2 DEF EvaluateSnap
  <2> HIDE DEF cands, chosen
  <2>4. /\ DOMAIN aligned = DOMAIN t
        /\ \A g \in DOMAIN t : aligned[g] \in Group /\ aligned[g].pieces = t[g].pieces
        /\ \A g \in DOMAIN t \ {id} : aligned[g].position = t[g].position
        /\ aligned[id].position = Plus(pos, chosen.translation)
    BY <1>0, <2>2 DEF IsTable, Group
  <2> HIDE DEF aligned
  <2>5. /\ id \in component /\ component \subseteq DOMAIN t
        /\ \A h \in DOMAIN t : Connects(aligned, id, h) => h \in component
    BY <2>4, ComponentContains
  <2> HIDE DEF component
  <2>6. all \in SUBSET Pieces /\ all # {}
    BY <1>0, <2>5 DEF IsTable, Group
  <2>7. PickReference(t, component, id) \in DOMAIN t
    BY <2>5, PickReferenceExists
  <2>8. ref.position \in Point /\ ref.pieces \in SUBSET Pieces /\ ref.pieces # {}
    BY <2>4, <2>7 DEF IsTable, Group
  <2>9. home \in Point /\ rest \in Point
    BY <2>6, <2>8, AnchorInGroup, FrameBounds, PointArithmetic
  <2> DEFINE locked == \/ chosen.kind = "frame"
                       \/ \E g \in component : t[g].locked
                       \/ WithinTol(Minus(rest, home))
  <2>10. o = [group |-> [pieces |-> all,
                         position |-> IF locked THEN home ELSE rest,
                         locked |-> locked],
              mergedIds |-> component \ {id},
              connectedPieces |-> IF locked \/ component # {id} THEN all ELSE {}]
    BY <2>3 DEF SnapOutcome, aligned, component
  <2> HIDE DEF o, home, rest, locked, all
  <2>11. /\ o.group.pieces = all /\ o.group.locked = locked /\ locked \in BOOLEAN
         /\ o.group.position = IF locked THEN home ELSE rest
         /\ o.mergedIds = component \ {id}
         /\ o.connectedPieces = IF locked \/ component # {id} THEN all ELSE {}
    BY <2>10 DEF locked
  <2>12. o.group \in Group
    BY <2>6, <2>9, <2>10, <2>11 DEF Group
  <2>13. o.mergedIds \cup {id} = component /\ (o.mergedIds # {} <=> component # {id})
    BY <2>5, <2>11
  <2>14. CASE chosen.kind = "frame"
    BY <2>5, <2>11, <2>12, <2>13, <2>14 DEF o, all, home, locked
  <2>15. CASE chosen.kind # "frame"
    <3>0. PICK h \in DOMAIN t \ {id} : \E a \in t[id].pieces : \E b \in t[h].pieces :
            /\ GridAdjacent(a, b)
            /\ chosen.translation = Misfit(a, t[id].pieces, pos, b, t[h].pieces, t[h].position)
      BY <2>1, <2>15 DEF cands, Candidates, FrameCandidates, MergeCandidates
    <3>1. PICK a \in t[id].pieces, b \in t[h].pieces :
            /\ GridAdjacent(a, b)
            /\ chosen.translation = Misfit(a, t[id].pieces, pos, b, t[h].pieces, t[h].position)
      BY <3>0
    <3>2. WithinTol(Misfit(a, aligned[id].pieces, aligned[id].position,
                           b, aligned[h].pieces, aligned[h].position))
      <4>1. t[h].pieces \in SUBSET Pieces /\ t[h].position \in Point
        BY DEF IsTable, Group
      <4> QED
        BY <1>0, <2>4, <3>1, <4>1, AlignedMisfit
    <3>3. Connects(aligned, id, h)
      BY <2>4, <3>1, <3>2 DEF Connects
    <3>4. o.mergedIds # {}
      BY <2>5, <2>11, <3>3
    <3> QED
      BY <2>5, <2>11, <2>12, <2>13, <3>4 DEF o, all, home, locked
  <2> QED
    BY <2>14, <2>15
<1> QED
  BY <1>1, <1>2

-----------------------------------------------------------------------------
(* A drop, from the invariant. *)

\* Under the invariant the live groups are a table in the sense of the geometry.
LEMMA LiveTable ==
  ASSUME TypeOK, GroupsPartition
  PROVE  /\ IsTable(groups)
         /\ \A id \in DOMAIN groups : id \in groups[id].pieces /\ groups[id] \in Group
  BY DEF TypeOK, GroupsPartition, IsTable

LEMMA VisibleTable ==
  ASSUME TypeOK, GroupsPartition, NEW id \in DOMAIN groups
  PROVE  /\ IsTable(Visible(id)) /\ id \in DOMAIN Visible(id)
         /\ DOMAIN Visible(id) = {i \in DOMAIN groups : i = id \/ i \notin DOMAIN holds}
         /\ \A i \in DOMAIN Visible(id) : Visible(id)[i] = groups[i]
<1>1. /\ DOMAIN Visible(id) = {i \in DOMAIN groups : i = id \/ i \notin DOMAIN holds}
      /\ \A i \in DOMAIN Visible(id) : Visible(id)[i] = groups[i]
      /\ Visible(id) = [i \in DOMAIN Visible(id) |-> groups[i]]
  BY DEF Visible, Restrict
<1> QED
  BY <1>1, LiveTable DEF IsTable

\* What a drop makes of the groups on the table.  The result replaces the dropped
\* group; the groups it absorbs were free; everything else stays as it was.
LEMMA DropResult ==
  ASSUME TypeOK, GroupsPartition, NEW g \in Guests, NEW id \in Pieces, NEW pos \in Reports,
         HolderMutation(g, id)
  PROVE  LET o == DropOutcome(id, pos)
             joined == o.mergedIds \cup {id}
         IN  /\ id \in DOMAIN groups /\ ~groups[id].locked
             /\ o.mergedIds \subseteq DOMAIN groups \ ({id} \cup DOMAIN holds)
             /\ o.group \in Group
             /\ o.group.pieces = UNION {groups[i].pieces : i \in joined}
             /\ o.group.locked => o.group.position = Frame(Anchor(o.group.pieces))
             /\ (\E i \in joined : groups[i].locked) => o.group.locked
             /\ o.connectedPieces =
                  IF o.group.locked \/ o.mergedIds # {} THEN o.group.pieces ELSE {}
             /\ ~o.group.locked /\ o.mergedIds = {} =>
                  InsideArea(groups[id].pieces, o.group.position)
<1> DEFINE o == DropOutcome(id, pos)
           joined == o.mergedIds \cup {id}
           at == ClampGroupToBoard(pos, groups[id].pieces)
           V == Visible(id)
<1>1. id \in DOMAIN groups /\ ~groups[id].locked
  BY DEF HolderMutation, Playable
<1>2. /\ IsTable(V) /\ id \in DOMAIN V
      /\ DOMAIN V = {i \in DOMAIN groups : i = id \/ i \notin DOMAIN holds}
      /\ \A i \in DOMAIN V : V[i] = groups[i]
  BY <1>1, VisibleTable
<1>3. groups[id].pieces \in SUBSET Pieces /\ groups[id].pieces # {}
  BY <1>1, LiveTable DEF Group
<1>4. at \in Point
  BY <1>3, PlaceAssumption, ClampInside
<1>5. o = EvaluateSnap(V, id, at)
  BY DEF DropOutcome
<1> HIDE DEF o, at, V
<1>6. /\ o.mergedIds \subseteq DOMAIN V \ {id}
      /\ o.group \in Group
      /\ o.group.pieces = UNION {V[i].pieces : i \in joined}
      /\ o.group.locked => o.group.position = Frame(Anchor(o.group.pieces))
      /\ (\E i \in joined : V[i].locked) => o.group.locked
      /\ o.connectedPieces =
           IF o.group.locked \/ o.mergedIds # {} THEN o.group.pieces ELSE {}
      /\ ~o.group.locked /\ o.mergedIds = {} =>
           o.group.position = ClampGroupToBoard(at, V[id].pieces)
  BY <1>1, <1>2, <1>4, <1>5, EvaluateSnapOutcome
<1>7. joined \subseteq DOMAIN V /\ \A i \in joined : V[i] = groups[i]
  BY <1>2, <1>6
<1>8. InsideArea(groups[id].pieces, ClampGroupToBoard(at, groups[id].pieces))
  BY <1>3, <1>4, ClampInside
<1>9. {V[i].pieces : i \in joined} = {groups[i].pieces : i \in joined}
  BY <1>7
<1> QED
  BY <1>1, <1>2, <1>6, <1>7, <1>8, <1>9 DEF o

-----------------------------------------------------------------------------
(* The inductive invariant. *)

LEMMA SingletonType == \A p \in Pieces : Singleton(p) \in Group
<1> TAKE p \in Pieces
<1>1. {p} \in SUBSET Pieces /\ Scatter[p] \in Point
  BY PlaceAssumption
<1> QED
  BY <1>1 DEF Singleton, Group

LEMMA InitInv == Init => IInv
<1> SUFFICES ASSUME Init PROVE IInv
  OBVIOUS
<1> USE DEF Init
<1>1. /\ DOMAIN groups = Pieces
      /\ \A p \in Pieces : groups[p] = [pieces |-> {p}, position |-> Scatter[p], locked |-> FALSE]
  BY DEF Singleton
<1>2. /\ DOMAIN holds = {} /\ DOMAIN identities = {}
      /\ holds \in [{} -> Hold] /\ identities \in [{} -> Identity]
  OBVIOUS
<1>3. TypeOK
  <2>1. \A p \in Pieces : groups[p] \in Group
    BY SingletonType
  <2>2. groups \in [Pieces -> Group]
    BY <2>1
  <2>3. 0 \in 0..MaxNow
    BY CapAssumption
  <2> QED
    BY <1>1, <1>2, <2>2, <2>3 DEF TypeOK
<1>4. GroupsPartition
  BY <1>1 DEF GroupsPartition
<1>5. LockedOnFrame /\ HoldsAreLive /\ OneIdentityPerUser
  BY <1>1, <1>2 DEF LockedOnFrame, HoldsAreLive, OneIdentityPerUser
<1>6. CreditedAreJoined
  BY <1>1 DEF CreditedAreJoined
<1>7. CompletedWhenAllLocked
  BY <1>1, PiecesFinite DEF CompletedWhenAllLocked, AllLocked
<1>8. SolvingTimeExact /\ ClockAgrees
  BY DEF SolvingTimeExact, ClockAgrees, NotActive
<1> QED
  BY <1>3, <1>4, <1>5, <1>6, <1>7, <1>8 DEF IInv

\* What speaks of the groups, the credit and the status only.
TableInv == GroupsPartition /\ LockedOnFrame /\ CreditedAreJoined /\ CompletedWhenAllLocked

LEMMA SameTable ==
  ASSUME TableInv, UNCHANGED <<groups, credited, status>>
  PROVE  TableInv'
BY DEF TableInv, GroupsPartition, LockedOnFrame, CreditedAreJoined, CompletedWhenAllLocked, AllLocked

\* The clock of a room somebody enters starts only if it was stopped.
LEMMA EnterInv ==
  ASSUME IInv, NEW g \in Guests, Enter(g),
         DOMAIN identities' \subseteq Guests, identities' \in [DOMAIN identities' -> Identity],
         DOMAIN identities \cup {g} \subseteq DOMAIN identities', OneIdentityPerUser'
  PROVE  IInv'
<1> USE DEF IInv, Enter
<1>1. TableInv'
  BY SameTable DEF TableInv
<1>2. activeSince' = IF connected = {} /\ status = "active" THEN now ELSE activeSince
  <2>1. CASE connected = {}
    BY <2>1 DEF ClockAgrees
  <2>2. CASE connected # {}
    BY <2>2 DEF ClockAgrees
  <2> QED
    BY <2>1, <2>2
<1>3. TypeOK'
  BY <1>2 DEF TypeOK
<1>4. HoldsAreLive'
  BY DEF HoldsAreLive
<1>5. SolvingTimeExact' /\ ClockAgrees'
  BY <1>2 DEF SolvingTimeExact, ClockAgrees, TypeOK, NotActive
<1> QED
  BY <1>1, <1>3, <1>4, <1>5 DEF TableInv

LEMMA JoinInv ==
  ASSUME IInv, NEW token \in Guests \cup {None}, NEW user \in Users \cup {None},
         NEW name \in Names \cup {None}, Join(token, user, name)
  PROVE  IInv'
<1>1. /\ DOMAIN identities \subseteq Guests /\ identities \in [DOMAIN identities -> Identity]
      /\ OneIdentityPerUser
  BY DEF IInv, TypeOK
<1>2. ASSUME NEW g \in Resumed(token, user), Resume(g, name)
      PROVE  IInv'
  <2>1. g \in DOMAIN identities
    BY DEF Resumed, GuestOf
  <2>2. /\ DOMAIN identities' = DOMAIN identities
        /\ identities' \in [DOMAIN identities -> Identity]
        /\ \A h \in DOMAIN identities : identities'[h].user = identities[h].user
    BY <1>1, <1>2 DEF Resume, Identity
  <2>3. OneIdentityPerUser'
    BY <1>1, <2>2 DEF OneIdentityPerUser
  <2> QED
    BY <1>1, <1>2, <2>1, <2>2, <2>3, EnterInv DEF Resume
<1>3. ASSUME Resumed(token, user) = {}, NEW g \in Guests, Mint(g, user, name)
      PROVE  IInv'
  <2>1. PICK n \in Names :
          identities' = [h \in DOMAIN identities \cup {g} |->
            IF h = g THEN [name |-> n, user |-> user, placedCount |-> 0] ELSE identities[h]]
    BY <1>3 DEF Mint
  <2>2. /\ DOMAIN identities' = DOMAIN identities \cup {g}
        /\ identities' \in [DOMAIN identities' -> Identity]
    BY <1>1, <2>1 DEF Identity
  <2>3. \A h \in DOMAIN identities : user # None => identities[h].user # user
    BY <1>3 DEF Resumed, GuestOf
  <2>4. OneIdentityPerUser'
    BY <1>1, <2>1, <2>3 DEF OneIdentityPerUser
  <2> QED
    BY <1>1, <1>3, <2>2, <2>4, EnterInv DEF Mint
<1> QED
  BY <1>2, <1>3 DEF Join

LEMMA RenameInv ==
  ASSUME IInv, NEW g \in Guests, NEW name \in Names, Rename(g, name)
  PROVE  IInv'
<1> USE DEF IInv, Rename, table, clock
<1>1. TableInv'
  BY SameTable DEF TableInv
<1>2. /\ DOMAIN identities' = DOMAIN identities
      /\ identities' \in [DOMAIN identities -> Identity]
      /\ \A h \in DOMAIN identities : identities'[h].user = identities[h].user
  BY DEF TypeOK, Identity
<1>3. TypeOK' /\ OneIdentityPerUser'
  BY <1>2 DEF TypeOK, OneIdentityPerUser
<1>4. HoldsAreLive' /\ SolvingTimeExact' /\ ClockAgrees'
  BY DEF HoldsAreLive, SolvingTimeExact, ClockAgrees
<1> QED
  BY <1>1, <1>3, <1>4 DEF TableInv

LEMMA LeaveInv ==
  ASSUME IInv, NEW g \in Guests, Leave(g)
  PROVE  IInv'
<1> USE DEF IInv, Leave
<1>1. TableInv'
  BY SameTable DEF TableInv
<1>2. /\ DOMAIN holds' = {id \in DOMAIN holds : holds[id].holder # g}
      /\ \A id \in DOMAIN holds' : holds'[id] = holds[id]
      /\ holds' = [id \in DOMAIN holds' |-> holds[id]]
  BY DEF ReleaseHolds, Restrict
<1>3. activeMs' \in 0..MaxNow /\ activeSince' \in {NotActive} \cup 0..now
  BY DEF FlushActiveTime, TypeOK, SolvingTimeExact, ClockAgrees, NotActive
<1>4. TypeOK'
  BY <1>2, <1>3 DEF TypeOK
<1>5. HoldsAreLive'
  BY <1>2 DEF HoldsAreLive
<1>6. SolvingTimeExact' /\ ClockAgrees'
  <2>1. CASE connected' = {}
    BY <2>1 DEF FlushActiveTime, TypeOK, SolvingTimeExact, ClockAgrees, NotActive
  <2>2. CASE connected' # {}
    BY <2>2 DEF SolvingTimeExact, ClockAgrees
  <2> QED
    BY <2>1, <2>2
<1>7. OneIdentityPerUser'
  BY DEF OneIdentityPerUser
<1> QED
  BY <1>1, <1>4, <1>5, <1>6, <1>7 DEF TableInv

LEMMA GrabInv ==
  ASSUME IInv, NEW g \in Guests, NEW id \in Pieces, Grab(g, id)
  PROVE  IInv'
<1> USE DEF IInv, Grab, presence, clock
<1>1. TableInv'
  BY SameTable DEF TableInv
<1>2. /\ DOMAIN holds' = DOMAIN holds \cup {id}
      /\ \A i \in DOMAIN holds \ {id} : holds'[i] = holds[i]
      /\ holds'[id] = [holder |-> g, lastActivityAt |-> now]
      /\ holds' = [i \in DOMAIN holds' |-> holds'[i]]
  BY DEF SetHold
<1>3. [holder |-> g, lastActivityAt |-> now] \in Hold
  BY DEF Hold, TypeOK
<1>4. TypeOK'
  BY <1>2, <1>3 DEF TypeOK
<1>5. HoldsAreLive'
  BY <1>2 DEF HoldsAreLive, Playable
<1>6. OneIdentityPerUser' /\ SolvingTimeExact' /\ ClockAgrees'
  BY DEF OneIdentityPerUser, SolvingTimeExact, ClockAgrees
<1> QED
  BY <1>1, <1>4, <1>5, <1>6 DEF TableInv

\* A move changes one position, of a group that is not locked.
LEMMA MoveInv ==
  ASSUME IInv, NEW g \in Guests, NEW id \in Pieces, NEW pos \in Point, Move(g, id, pos)
  PROVE  IInv'
<1> USE DEF IInv, Move, presence, clock
<1>1. id \in DOMAIN groups /\ ~groups[id].locked /\ id \in DOMAIN holds
  BY DEF HolderMutation, Playable
<1>2. /\ DOMAIN groups' = DOMAIN groups /\ groups' \in [DOMAIN groups -> Group]
      /\ \A i \in DOMAIN groups :
           groups'[i].pieces = groups[i].pieces /\ groups'[i].locked = groups[i].locked
      /\ \A i \in DOMAIN groups : i # id => groups'[i] = groups[i]
  BY <1>1 DEF TypeOK, Group
<1>3. /\ DOMAIN holds' = DOMAIN holds /\ holds' \in [DOMAIN holds -> Hold]
      /\ \A i \in DOMAIN holds : holds'[i].holder = holds[i].holder
  BY <1>1 DEF TypeOK, Hold
<1>4. TypeOK'
  BY <1>2, <1>3 DEF TypeOK
<1>5. GroupsPartition'
  <2>1. {groups'[i].pieces : i \in DOMAIN groups'} = {groups[i].pieces : i \in DOMAIN groups}
    BY <1>2
  <2> QED
    BY <1>2, <2>1 DEF GroupsPartition
<1>6. LockedOnFrame'
  BY <1>1, <1>2 DEF LockedOnFrame
<1>7. CreditedAreJoined'
  <2>1. {i \in DOMAIN groups' : groups'[i].locked \/ groups'[i].pieces # {i}}
          = {i \in DOMAIN groups : groups[i].locked \/ groups[i].pieces # {i}}
    BY <1>2
  <2> QED
    BY <1>2, <2>1 DEF CreditedAreJoined
<1>8. CompletedWhenAllLocked'
  BY <1>2 DEF CompletedWhenAllLocked, AllLocked
<1>9. HoldsAreLive'
  BY <1>2, <1>3 DEF HoldsAreLive
<1>10. OneIdentityPerUser' /\ SolvingTimeExact' /\ ClockAgrees'
  BY DEF OneIdentityPerUser, SolvingTimeExact, ClockAgrees
<1> QED
  BY <1>4, <1>5, <1>6, <1>7, <1>8, <1>9, <1>10

\* Letting go of held groups, whoever held them.
LEMMA ReleaseInv ==
  ASSUME IInv, NEW ids, ReleaseHolds(ids), UNCHANGED <<groups, credited, status, presence, clock>>
  PROVE  IInv'
<1> USE DEF IInv, presence, clock
<1>1. TableInv'
  BY SameTable DEF TableInv
<1>2. /\ DOMAIN holds' \subseteq DOMAIN holds
      /\ \A id \in DOMAIN holds' : holds'[id] = holds[id]
      /\ holds' = [id \in DOMAIN holds' |-> holds[id]]
  BY DEF ReleaseHolds, Restrict
<1>3. TypeOK' /\ HoldsAreLive'
  BY <1>2 DEF TypeOK, HoldsAreLive
<1>4. OneIdentityPerUser' /\ SolvingTimeExact' /\ ClockAgrees'
  BY DEF OneIdentityPerUser, SolvingTimeExact, ClockAgrees
<1> QED
  BY <1>1, <1>3, <1>4 DEF TableInv

\* Time passes for the solving clock and for its history alike.
LEMMA TickInv ==
  ASSUME IInv, Tick
  PROVE  IInv'
<1> USE DEF IInv, Tick, table, presence
<1>1. TableInv'
  BY SameTable DEF TableInv
<1>2. TypeOK'
  <2>1. now' \in 0..MaxNow /\ solving' \in 0..MaxNow /\ activeSince' \in {NotActive} \cup 0..now'
    BY CapAssumption DEF TypeOK, ClockAgrees, NotActive
  <2>2. Hold' = Hold /\ holds' \in [DOMAIN holds -> Hold]
    BY DEF TypeOK, Hold
  <2> QED
    BY <2>1, <2>2 DEF TypeOK
<1>3. HoldsAreLive' /\ OneIdentityPerUser'
  BY DEF HoldsAreLive, OneIdentityPerUser
<1>4. SolvingTimeExact' /\ ClockAgrees'
  BY DEF SolvingTimeExact, ClockAgrees, TypeOK, NotActive
<1> QED
  BY <1>1, <1>2, <1>3, <1>4 DEF TableInv

\* A drop replaces one group and removes what it absorbed.
LEMMA DropInv ==
  ASSUME IInv, NEW g \in Guests, NEW id \in Pieces, NEW pos \in Reports, Drop(g, id, pos)
  PROVE  IInv'
<1> DEFINE o == DropOutcome(id, pos)
           joined == o.mergedIds \cup {id}
           fresh == o.connectedPieces \ credited
<1>1. /\ id \in DOMAIN groups /\ ~groups[id].locked
      /\ o.mergedIds \subseteq DOMAIN groups \ ({id} \cup DOMAIN holds)
      /\ o.group \in Group
      /\ o.group.pieces = UNION {groups[i].pieces : i \in joined}
      /\ o.group.locked => o.group.position = Frame(Anchor(o.group.pieces))
      /\ (\E i \in joined : groups[i].locked) => o.group.locked
      /\ o.connectedPieces = IF o.group.locked \/ o.mergedIds # {} THEN o.group.pieces ELSE {}
  BY DropResult DEF IInv, Drop
<1>2. /\ groups' = AfterDrop(id, o)
      /\ ReleaseHolds({id})
      /\ credited' = credited \cup o.connectedPieces
      /\ identities' = [identities EXCEPT ![g].placedCount = @ + Cardinality(fresh)]
      /\ IF o.group.locked /\ AllLocked(groups')
           THEN status' = "completed" /\ FlushActiveTime
           ELSE UNCHANGED <<status, activeMs, activeSince>>
      /\ UNCHANGED <<connected, now, solving>>
      /\ status = "active" /\ g \in connected /\ id \in DOMAIN holds
  BY DEF Drop, Credit, Finish, HolderMutation, Playable, IInv, TypeOK
<1> HIDE DEF o
<1>3. /\ DOMAIN groups' = DOMAIN groups \ o.mergedIds
      /\ id \in DOMAIN groups' /\ groups'[id] = o.group
      /\ \A i \in DOMAIN groups' \ {id} : groups'[i] = groups[i]
      /\ groups' = [i \in DOMAIN groups' |-> groups'[i]]
  BY <1>1, <1>2 DEF AfterDrop
<1>4. /\ DOMAIN holds' = DOMAIN holds \ {id}
      /\ \A i \in DOMAIN holds' : holds'[i] = holds[i]
      /\ holds' = [i \in DOMAIN holds' |-> holds[i]]
  BY <1>2 DEF ReleaseHolds, Restrict
<1>5. TypeOK'
  <2> USE DEF IInv, TypeOK
  <2>1. groups' \in [DOMAIN groups' -> Group]
    BY <1>1, <1>3
  <2>2. o.connectedPieces \subseteq Pieces
    BY <1>1 DEF Group
  <2>3. Cardinality(fresh) \in Nat
    BY <2>2, PiecesFinite, FS_Subset, FS_CardinalityType
  <2> HIDE DEF fresh
  <2>4. identities' \in [DOMAIN identities -> Identity]
    BY <1>2, <2>3 DEF Identity
  <2>5. activeMs' \in 0..MaxNow /\ activeSince' \in {NotActive} \cup 0..now
    BY <1>2 DEF FlushActiveTime, SolvingTimeExact, ClockAgrees, NotActive
  <2>6. credited' \subseteq Pieces
    BY <1>2, <2>2
  <2> QED
    BY <1>1, <1>2, <1>3, <1>4, <2>1, <2>4, <2>5, <2>6
<1>6. GroupsPartition'
  <2> USE DEF IInv, GroupsPartition
  <2>1. \A i \in DOMAIN groups' : i \in groups'[i].pieces
    BY <1>1, <1>3
  <2>2. \A i, j \in DOMAIN groups' : i # j => groups'[i].pieces \cap groups'[j].pieces = {}
    BY <1>1, <1>3
  <2>3. UNION {groups'[i].pieces : i \in DOMAIN groups'} = Pieces
    <3>1. ASSUME NEW p \in Pieces PROVE \E i \in DOMAIN groups' : p \in groups'[i].pieces
      <4>1. PICK i \in DOMAIN groups : p \in groups[i].pieces
        OBVIOUS
      <4> QED
        BY <1>1, <1>3, <4>1
    <3>2. \A i \in DOMAIN groups' : groups'[i].pieces \subseteq Pieces
      BY <1>5 DEF TypeOK, Group
    <3> QED
      BY <3>1, <3>2
  <2> QED
    BY <2>1, <2>2, <2>3
<1>7. LockedOnFrame'
  BY <1>1, <1>3 DEF IInv, LockedOnFrame
<1>8. HoldsAreLive'
  BY <1>1, <1>2, <1>3, <1>4 DEF IInv, HoldsAreLive
<1>9. CreditedAreJoined'
  <2> DEFINE Joined(gs) == {i \in DOMAIN gs : gs[i].locked \/ gs[i].pieces # {i}}
  <2>1. credited = UNION {groups[i].pieces : i \in Joined(groups)}
    BY DEF IInv, CreditedAreJoined
  <2>2. \A i \in DOMAIN groups : i \in groups[i].pieces
    BY DEF IInv, GroupsPartition
  <2>3. credited' = credited \cup o.connectedPieces
    BY <1>2
  <2>4. CASE o.group.locked \/ o.mergedIds # {}
    <3>1. id \in Joined(groups')
      <4>1. CASE o.group.locked
        BY <1>3, <4>1
      <4>2. CASE o.mergedIds # {}
        <5>1. PICK i \in o.mergedIds : TRUE
          BY <4>2
        <5>2. i \in DOMAIN groups /\ i # id
          BY <1>1, <5>1
        <5>3. i \in o.group.pieces
          BY <1>1, <2>2, <5>1, <5>2
        <5> QED
          BY <1>3, <5>2, <5>3
      <4> QED
        BY <2>4, <4>1, <4>2
    <3>2. \A i \in DOMAIN groups' \ {id} : i \in Joined(groups') <=> i \in Joined(groups)
      BY <1>1, <1>3
    <3>3. credited' = credited \cup o.group.pieces
      BY <1>1, <2>3, <2>4
    <3>4. ASSUME NEW p PROVE p \in credited' <=> \E i \in Joined(groups') : p \in groups'[i].pieces
      <4>1. ASSUME p \in credited'
            PROVE  \E i \in Joined(groups') : p \in groups'[i].pieces
        <5>1. CASE p \in o.group.pieces
          BY <1>3, <3>1, <5>1
        <5>2. CASE p \notin o.group.pieces
          <6>1. PICK i \in Joined(groups) : p \in groups[i].pieces
            BY <2>1, <3>3, <4>1, <5>2
          <6>2. i \in DOMAIN groups' \ {id}
            BY <1>1, <1>3, <5>2, <6>1
          <6> QED
            BY <1>3, <3>2, <6>1, <6>2
        <5> QED
          BY <5>1, <5>2
      <4>2. ASSUME NEW i \in Joined(groups'), p \in groups'[i].pieces
            PROVE  p \in credited'
        BY <1>3, <2>1, <3>2, <3>3, <4>2
      <4> QED
        BY <4>1, <4>2
    <3> QED
      BY <3>4 DEF CreditedAreJoined
  <2>5. CASE ~o.group.locked /\ o.mergedIds = {}
    <3>1. o.connectedPieces = {} /\ o.group.pieces = groups[id].pieces
      BY <1>1, <2>5
    <3>2. DOMAIN groups' = DOMAIN groups
      BY <1>3, <2>5
    <3>3. \A i \in DOMAIN groups :
            groups'[i].pieces = groups[i].pieces /\ groups'[i].locked = groups[i].locked
      BY <1>1, <1>3, <2>5, <3>1, <3>2 DEF IInv, TypeOK, Group
    <3>4. Joined(groups') = Joined(groups)
      BY <3>2, <3>3
    <3> QED
      BY <2>1, <2>3, <3>1, <3>3, <3>4 DEF CreditedAreJoined
  <2> QED
    BY <2>4, <2>5
<1>10. CompletedWhenAllLocked'
  <2>1. CASE o.group.locked
    BY <1>2, <2>1 DEF CompletedWhenAllLocked
  <2>2. CASE ~o.group.locked
    BY <1>2, <1>3, <2>2 DEF CompletedWhenAllLocked, AllLocked
  <2> QED
    BY <2>1, <2>2
<1>11. SolvingTimeExact' /\ ClockAgrees'
  BY <1>2 DEF IInv, TypeOK, FlushActiveTime, SolvingTimeExact, ClockAgrees, NotActive
<1>12. OneIdentityPerUser'
  <2>1. \A h \in DOMAIN identities : identities'[h].user = identities[h].user
    BY <1>2 DEF IInv, TypeOK, Identity
  <2>2. DOMAIN identities' = DOMAIN identities
    BY <1>2
  <2> QED
    BY <2>1, <2>2 DEF IInv, OneIdentityPerUser
<1> QED
  BY <1>5, <1>6, <1>7, <1>8, <1>9, <1>10, <1>11, <1>12 DEF IInv

LEMMA StutterInv ==
  ASSUME IInv, UNCHANGED vars
  PROVE  IInv'
BY DEF vars, IInv, TypeOK, GroupsPartition, LockedOnFrame, HoldsAreLive, CreditedAreJoined,
       CompletedWhenAllLocked, AllLocked, SolvingTimeExact, OneIdentityPerUser, ClockAgrees

THEOREM Invariance == Spec => []IInv
<1>1. ASSUME IInv, [Next]_vars PROVE IInv'
  <2>1. CASE UNCHANGED vars
    BY <1>1, <2>1, StutterInv
  <2>2. ASSUME NEW token \in Guests \cup {None}, NEW user \in Users \cup {None},
               NEW name \in Names \cup {None}, Join(token, user, name)
        PROVE  IInv'
    BY <1>1, <2>2, JoinInv
  <2>3. ASSUME NEW g \in Guests, NEW name \in Names, Rename(g, name)
        PROVE  IInv'
    BY <1>1, <2>3, RenameInv
  <2>4. ASSUME NEW g \in Guests, Leave(g) PROVE IInv'
    BY <1>1, <2>4, LeaveInv
  <2>5. ASSUME NEW g \in Guests, NEW id \in Pieces, Grab(g, id) PROVE IInv'
    BY <1>1, <2>5, GrabInv
  <2>6. ASSUME NEW g \in Guests, NEW id \in Pieces, NEW pos \in Reports, Move(g, id, pos)
        PROVE  IInv'
    BY <1>1, <2>6, MoveInv, PlaceAssumption
  <2>7. ASSUME NEW g \in Guests, NEW id \in Pieces, NEW pos \in Reports, Drop(g, id, pos)
        PROVE  IInv'
    BY <1>1, <2>7, DropInv
  <2>8. CASE ExpireIdleHolds
    BY <1>1, <2>8, ReleaseInv DEF ExpireIdleHolds
  <2>9. CASE Tick
    BY <1>1, <2>9, TickInv
  <2> QED
    BY <1>1, <2>1, <2>2, <2>3, <2>4, <2>5, <2>6, <2>7, <2>8, <2>9 DEF Next
<1> QED
  BY InitInv, <1>1, PTL DEF Spec

-----------------------------------------------------------------------------
(* The invariants the runs check. *)

\* Every variable keeps its type: no step of room.ts leaves a hold, an identity or
\* a group without its fields, or time running backwards.
THEOREM TypeCorrect == Spec => []TypeOK
<1>1. IInv => TypeOK
  BY DEF IInv
<1> QED
  BY <1>1, Invariance, PTL

\* The groups partition the pieces after every drop, merge and lock.
THEOREM PartitionCorrect == Spec => []GroupsPartition
<1>1. IInv => GroupsPartition
  BY DEF IInv
<1> QED
  BY <1>1, Invariance, PTL

\* A locked group is exactly on its frame position.
THEOREM LockedCorrect == Spec => []LockedOnFrame
<1>1. IInv => LockedOnFrame
  BY DEF IInv
<1> QED
  BY <1>1, Invariance, PTL

\* Every hold is on a live, unlocked group and belongs to a connected guest.
THEOREM HoldsCorrect == Spec => []HoldsAreLive
<1>1. IInv => HoldsAreLive
  BY DEF IInv
<1> QED
  BY <1>1, Invariance, PTL

\* The credited pieces are those in merged or locked groups, no more and no fewer.
THEOREM CreditCorrect == Spec => []CreditedAreJoined
<1>1. IInv => CreditedAreJoined
  BY DEF IInv
<1> QED
  BY <1>1, Invariance, PTL

\* The room is completed when, and only when, every group is locked.
THEOREM CompletionCorrect == Spec => []CompletedWhenAllLocked
<1>1. IInv => CompletedWhenAllLocked
  BY DEF IInv
<1> QED
  BY <1>1, Invariance, PTL

\* The solving clock shows the time somebody was connected to the active room.
THEOREM SolvingTimeCorrect == Spec => []SolvingTimeExact
<1>1. IInv => SolvingTimeExact
  BY DEF IInv
<1> QED
  BY <1>1, Invariance, PTL

\* A signed-in user never has two identities in a room.
THEOREM IdentityCorrect == Spec => []OneIdentityPerUser
<1>1. IInv => OneIdentityPerUser
  BY DEF IInv
<1> QED
  BY <1>1, Invariance, PTL

\* A group that does not deviate is a piece of its own where it was scattered.
LEMMA UndeviatedAlone ==
  ASSUME IInv, NEW i \in DOMAIN groups, ~IsDeviated(groups[i])
  PROVE  groups[i] = Singleton(i)
<1>1. /\ DOMAIN groups \subseteq Pieces /\ groups \in [DOMAIN groups -> Group]
      /\ GroupsPartition
  BY DEF IInv, TypeOK
<1>2. i \in groups[i].pieces /\ IsFiniteSet(groups[i].pieces)
  BY <1>1, PiecesFinite, FS_Subset DEF Group, GroupsPartition
<1>3. Cardinality(groups[i].pieces) \in Nat
  BY <1>2, FS_CardinalityType
<1>4. /\ ~groups[i].locked /\ Cardinality(groups[i].pieces) <= 1
      /\ groups[i].position = Scatter[Min(groups[i].pieces)]
  BY <1>3 DEF IsDeviated
<1>5. groups[i].pieces = {i}
  <2>1. IsFiniteSet({i}) /\ Cardinality({i}) = 1 /\ {i} \subseteq groups[i].pieces
    BY <1>2, FS_Singleton
  <2> QED
    BY <1>2, <1>3, <1>4, <2>1, FS_Subset
<1>6. Min({i}) = i
  <2>1. i \in Int /\ {i} \in SUBSET Int /\ {i} # {}
    BY <1>1, PiecesFinite
  <2> QED
    BY <2>1, IntMin
<1>7. groups[i] = [pieces |-> {i}, position |-> Scatter[i], locked |-> FALSE]
  BY <1>1, <1>4, <1>5, <1>6 DEF Group
<1> QED
  BY <1>7 DEF Singleton

\* What serialize() leaves out is what the constructor puts back.
THEOREM RoundTripCorrect == Spec => []RoundTrip
<1>1. ASSUME IInv PROVE RoundTrip
  <2> DEFINE S == SerializedGroups
             D == {i \in DOMAIN groups : IsDeviated(groups[i])}
             replaced == UNION {S[i].pieces : i \in DOMAIN S}
  <2>1. DOMAIN S = D /\ \A i \in D : S[i] = groups[i]
    BY DEF SerializedGroups, Restrict
  <2>2. /\ DOMAIN groups \subseteq Pieces /\ groups \in [DOMAIN groups -> Group]
        /\ GroupsPartition
    BY <1>1 DEF IInv, TypeOK
  <2>3. \A i \in DOMAIN groups \ D : groups[i] = Singleton(i)
    BY <1>1, UndeviatedAlone
  <2>4. (Pieces \ replaced) \cup DOMAIN S = DOMAIN groups
    <3>1. replaced = UNION {groups[i].pieces : i \in D}
      BY <2>1
    <3>2. ASSUME NEW p \in Pieces, p \notin replaced PROVE p \in DOMAIN groups
      <4>1. PICK i \in DOMAIN groups : p \in groups[i].pieces
        BY <2>2 DEF GroupsPartition
      <4>2. i \notin D
        BY <3>1, <3>2, <4>1
      <4>3. groups[i].pieces = {i}
        BY <2>3, <4>2 DEF Singleton
      <4> QED
        BY <4>1, <4>3
    <3>3. ASSUME NEW i \in DOMAIN groups \ D PROVE i \in Pieces /\ i \notin replaced
      BY <2>2, <3>1 DEF GroupsPartition
    <3> QED
      BY <2>1, <3>2, <3>3
  <2>5. RestoredGroups(S) = [i \in DOMAIN groups |-> groups[i]]
    <3>1. RestoredGroups(S) = [i \in (Pieces \ replaced) \cup DOMAIN S |->
                                 IF i \in DOMAIN S THEN S[i] ELSE Singleton(i)]
      BY DEF RestoredGroups
    <3> QED
      BY <2>1, <2>3, <2>4, <3>1
  <2> QED
    BY <2>2, <2>5 DEF RoundTrip
<1> QED
  BY <1>1, Invariance, PTL

-----------------------------------------------------------------------------
(* What a step may never do. *)

\* The steps that leave the groups alone, and how the others change them.
LEMMA GroupsChange ==
  ASSUME [Next]_vars
  PROVE  \/ UNCHANGED groups
         \/ \E g \in Guests, id \in Pieces, pos \in Reports : Move(g, id, pos) \/ Drop(g, id, pos)
BY DEF Next, vars, Join, Resume, Mint, Enter, Rename, Leave, Grab, ExpireIdleHolds, Tick,
       table, clock, presence

\* A join changes who is known and present, and the clock.
LEMMA JoinChange ==
  ASSUME NEW token, NEW user, NEW name, Join(token, user, name)
  PROVE  UNCHANGED <<groups, holds, credited, status, activeMs>>
BY DEF Join, Resume, Mint, Enter

\* Nothing takes a held group from its holder or joins it to another.
THEOREM HeldExclusive == Spec => HeldGroupIsExclusive
<1>1. ASSUME IInv, [Next]_vars PROVE HeldStep
  <2> SUFFICES ASSUME NEW id \in DOMAIN holds
               PROVE  /\ id \in DOMAIN groups'
                      /\ id \in DOMAIN holds' =>
                           /\ holds'[id].holder = holds[id].holder
                           /\ groups'[id].pieces = groups[id].pieces
    BY DEF HeldStep
  <2>1. id \in DOMAIN groups /\ groups \in [DOMAIN groups -> Group] /\ holds \in [DOMAIN holds -> Hold]
    BY <1>1 DEF IInv, HoldsAreLive, TypeOK
  <2>2. CASE UNCHANGED holds /\ UNCHANGED groups
    BY <2>1, <2>2
  <2>3. ASSUME NEW g \in Guests, Leave(g) PROVE HeldStep
    BY <1>1, <2>3 DEF Leave, ReleaseHolds, Restrict, HeldStep, IInv, HoldsAreLive
  <2>4. ASSUME NEW g \in Guests, NEW i \in Pieces, Grab(g, i) PROVE HeldStep
    BY <1>1, <2>4 DEF Grab, SetHold, HeldStep, IInv, HoldsAreLive
  <2>5. ASSUME NEW g \in Guests, NEW i \in Pieces, NEW pos \in Reports, Move(g, i, pos)
        PROVE  HeldStep
    <3>1. /\ DOMAIN groups' = DOMAIN groups /\ DOMAIN holds' = DOMAIN holds
          /\ \A j \in DOMAIN groups : groups'[j].pieces = groups[j].pieces
          /\ \A j \in DOMAIN holds : holds'[j].holder = holds[j].holder
      BY <1>1, <2>5 DEF Move, IInv, TypeOK, Group, Hold
    <3> QED
      BY <1>1, <3>1 DEF HeldStep, IInv, HoldsAreLive
  <2>6. ASSUME NEW g \in Guests, NEW i \in Pieces, NEW pos \in Reports, Drop(g, i, pos)
        PROVE  HeldStep
    <3> DEFINE o == DropOutcome(i, pos)
    <3>1. o.mergedIds \subseteq DOMAIN groups \ ({i} \cup DOMAIN holds)
      BY <1>1, <2>6, DropResult DEF IInv, Drop
    <3>2. groups' = AfterDrop(i, o) /\ ReleaseHolds({i})
      BY <2>6 DEF Drop
    <3> HIDE DEF o
    <3> QED
      BY <1>1, <3>1, <3>2 DEF AfterDrop, ReleaseHolds, Restrict, HeldStep, IInv, HoldsAreLive
  <2>7. CASE ExpireIdleHolds
    BY <1>1, <2>7 DEF ExpireIdleHolds, ReleaseHolds, Restrict, HeldStep, IInv, HoldsAreLive
  <2>8. CASE UNCHANGED vars \/ Tick \/ \E g \in Guests, name \in Names : Rename(g, name)
    BY <2>2, <2>8 DEF vars, Rename, Tick, table
  <2>9. CASE \E token \in Guests \cup {None}, user \in Users \cup {None}, name \in Names \cup {None} :
               Join(token, user, name)
    BY <2>2, <2>9, JoinChange
  <2> QED
    BY <1>1, <2>3, <2>4, <2>5, <2>6, <2>7, <2>8, <2>9 DEF Next, HeldStep
<1> QED
  BY <1>1, Invariance, PTL DEF Spec, HeldGroupIsExclusive

\* A completed room is read-only but for who is present.
THEOREM CompletedFrozen == Spec => CompletedIsFrozen
<1>1. ASSUME IInv, [Next]_vars PROVE FrozenStep
  <2> SUFFICES ASSUME status = "completed"
               PROVE  /\ UNCHANGED <<groups, holds, credited, status, activeMs, activeSince>>
                      /\ \A g \in DOMAIN identities :
                           g \in DOMAIN identities' /\ identities'[g] = identities[g]
    BY DEF FrozenStep
  <2>1. DOMAIN holds = {} /\ holds = [id \in {} |-> holds[id]]
    BY <1>1 DEF IInv, TypeOK, HoldsAreLive, CompletedWhenAllLocked, AllLocked
  <2>2. activeSince = NotActive
    BY <1>1 DEF IInv, ClockAgrees
  <2>3. ASSUME NEW token, NEW user, NEW name, Join(token, user, name)
        PROVE  /\ UNCHANGED <<groups, holds, credited, status, activeMs, activeSince>>
               /\ \A g \in DOMAIN identities :
                    g \in DOMAIN identities' /\ identities'[g] = identities[g]
    BY <2>3 DEF Join, Resume, Mint, Enter
  <2>4. ASSUME NEW g, Leave(g) PROVE UNCHANGED <<groups, holds, credited, status, activeMs, activeSince, identities>>
    BY <2>1, <2>2, <2>4 DEF Leave, ReleaseHolds, Restrict, FlushActiveTime
  <2>5. UNCHANGED vars \/ Tick \/ (\E g \in Guests : Leave(g))
         \/ \E token, user, name : Join(token, user, name)
    BY <1>1, <2>1 DEF Next, Rename, Grab, Move, Drop, HolderMutation, Playable, ExpireIdleHolds
  <2> QED
    BY <2>3, <2>4, <2>5 DEF Tick, table, presence, vars
<1> QED
  BY <1>1, Invariance, PTL DEF Spec, CompletedIsFrozen

\* Credit, identities and scores are never lost.
THEOREM ScoresGrow == Spec => ScoresOnlyGrow
<1>1. ASSUME IInv, [Next]_vars PROVE ScoreStep
  <2>1. /\ identities \in [DOMAIN identities -> Identity]
        /\ \A g \in DOMAIN identities : identities[g].placedCount \in Nat
    BY <1>1 DEF IInv, TypeOK, Identity
  <2>2. CASE UNCHANGED <<identities, credited>>
    BY <2>1, <2>2 DEF ScoreStep
  <2>3. ASSUME NEW token, NEW user, NEW name, Join(token, user, name) PROVE ScoreStep
    <3>1. UNCHANGED credited
      BY <2>3, JoinChange
    <3>2. ASSUME NEW g \in DOMAIN identities
          PROVE  /\ g \in DOMAIN identities'
                 /\ identities'[g].placedCount = identities[g].placedCount
                 /\ identities'[g].user = identities[g].user
      <4>1. ASSUME NEW h, Resume(h, name)
            PROVE  /\ g \in DOMAIN identities'
                   /\ identities'[g].placedCount = identities[g].placedCount
                   /\ identities'[g].user = identities[g].user
        <5>1. identities' = identities \/ identities' = [identities EXCEPT ![h].name = name]
          BY <4>1 DEF Resume
        <5> QED
          BY <2>1, <5>1 DEF Identity
      <4>2. ASSUME NEW h, Mint(h, user, name)
            PROVE  g \in DOMAIN identities' /\ identities'[g] = identities[g]
        BY <4>2 DEF Mint
      <4> QED
        BY <2>3, <4>1, <4>2 DEF Join
    <3> QED
      BY <2>1, <3>1, <3>2 DEF ScoreStep
  <2>4. ASSUME NEW g \in Guests, NEW name \in Names, Rename(g, name) PROVE ScoreStep
    BY <2>1, <2>4 DEF Rename, ScoreStep, table, Identity
  <2>5. ASSUME NEW g \in Guests, NEW id \in Pieces, NEW pos \in Reports, Drop(g, id, pos)
        PROVE  ScoreStep
    <3> DEFINE o == DropOutcome(id, pos)
               fresh == o.connectedPieces \ credited
    <3>1. o.connectedPieces \subseteq Pieces
      BY <1>1, <2>5, DropResult DEF IInv, Drop, Group
    <3>2. Cardinality(fresh) \in Nat
      BY <3>1, PiecesFinite, FS_Subset, FS_CardinalityType
    <3>3. /\ credited \subseteq credited'
          /\ identities' = [identities EXCEPT ![g].placedCount = @ + Cardinality(fresh)]
      BY <2>5 DEF Drop, Credit
    <3> HIDE DEF fresh
    <3> QED
      BY <2>1, <3>2, <3>3 DEF ScoreStep, Identity
  <2> QED
    BY <1>1, <2>2, <2>3, <2>4, <2>5
       DEF Next, vars, Leave, Grab, Move, ExpireIdleHolds, Tick, table, presence
<1> QED
  BY <1>1, Invariance, PTL DEF Spec, ScoresOnlyGrow

\* The record of a room is never taken back.
THEOREM RecordFinal == Spec => RecordIsFinal
  BY CompletedFrozen, ScoresGrow DEF RecordIsFinal

\* Wherever a client says it dropped a group, the group comes to rest in the area.
THEOREM LandingCorrect == Spec => DropLandsInside
<1>1. ASSUME IInv, [Next]_vars PROVE LandingStep
  <2> SUFFICES ASSUME NEW id \in DOMAIN holds \ DOMAIN holds',
                      groups'[id].pieces = groups[id].pieces, groups'[id] # groups[id]
               PROVE  InsideArea(groups'[id].pieces, groups'[id].position)
    BY DEF LandingStep
  <2>1. id \in DOMAIN groups
    BY <1>1 DEF IInv, HoldsAreLive
  <2>2. ASSUME NEW g \in Guests, NEW i \in Pieces, NEW pos \in Reports, Move(g, i, pos)
        PROVE  FALSE
    BY <2>2 DEF Move
  <2>3. ASSUME NEW g \in Guests, NEW i \in Pieces, NEW pos \in Reports, Drop(g, i, pos)
        PROVE  InsideArea(groups'[id].pieces, groups'[id].position)
    <3> DEFINE o == DropOutcome(i, pos)
               joined == o.mergedIds \cup {i}
    <3>1. /\ i \in DOMAIN groups
          /\ o.mergedIds \subseteq DOMAIN groups \ ({i} \cup DOMAIN holds)
          /\ o.group \in Group
          /\ o.group.pieces = UNION {groups[j].pieces : j \in joined}
          /\ o.group.locked => o.group.position = Frame(Anchor(o.group.pieces))
          /\ ~o.group.locked /\ o.mergedIds = {} =>
               InsideArea(groups[i].pieces, o.group.position)
      BY <1>1, <2>3, DropResult DEF IInv, Drop
    <3>2. groups' = AfterDrop(i, o) /\ ReleaseHolds({i})
      BY <2>3 DEF Drop
    <3> HIDE DEF o
    <3>3. id = i
      BY <3>2 DEF ReleaseHolds, Restrict
    <3>4. groups'[id] = o.group
      BY <3>1, <3>2, <3>3 DEF AfterDrop
    <3>5. o.mergedIds = {}
      <4>1. ASSUME NEW j \in o.mergedIds PROVE FALSE
        <5>1. j \in groups[j].pieces /\ j \notin groups[i].pieces
          BY <1>1, <3>1 DEF IInv, GroupsPartition
        <5>2. j \in o.group.pieces
          BY <3>1, <5>1
        <5> QED
          BY <3>3, <3>4, <5>1, <5>2
      <4> QED
        BY <4>1
    <3>6. groups[i].pieces \in SUBSET Pieces /\ groups[i].pieces # {}
      BY <1>1, <3>1, LiveTable DEF IInv, Group
    <3> QED
      BY <3>1, <3>3, <3>4, <3>5, <3>6, FrameInside
  <2> QED
    BY <1>1, <2>2, <2>3, GroupsChange
<1> QED
  BY <1>1, Invariance, PTL DEF Spec, DropLandsInside

\* A locked piece lies on its own frame cell.
LockedPlaced == \A p \in LockedPieces : Place(p) = Frame(p)

LEMMA LockedPlacedAlways == Spec => []LockedPlaced
<1>1. ASSUME IInv PROVE LockedPlaced
  <2> SUFFICES ASSUME NEW i \in DOMAIN groups, groups[i].locked, NEW p \in groups[i].pieces
               PROVE  Place(p) = Frame(p)
    BY DEF LockedPlaced, LockedPieces
  <2>1. GroupOf(p) = i
    <3>1. \A j \in DOMAIN groups : p \in groups[j].pieces => j = i
      BY <1>1 DEF IInv, GroupsPartition
    <3> QED
      BY <3>1 DEF GroupOf
  <2>2. groups[i].pieces \in SUBSET Pieces /\ groups[i].position = Frame(Anchor(groups[i].pieces))
    BY <1>1 DEF IInv, LockedOnFrame, TypeOK, Group
  <2> QED
    BY <2>1, <2>2, FrameOrigin DEF Place
<1> QED
  BY <1>1, Invariance, PTL

\* Locked pieces stay put, and what is joined stays joined.
THEOREM ProgressPermanent == Spec => ProgressIsPermanent
<1>1. ASSUME IInv, LockedPlaced, LockedPlaced', [Next]_vars PROVE ProgressStep
  <2> DEFINE Kept == /\ LockedPieces \subseteq LockedPieces'
                     /\ \A id \in DOMAIN groups :
                          \E j \in DOMAIN groups' : groups[id].pieces \subseteq groups'[j].pieces
  <2>1. ASSUME UNCHANGED groups PROVE Kept
    BY <2>1 DEF LockedPieces
  <2>2. ASSUME NEW g \in Guests, NEW id \in Pieces, NEW pos \in Reports, Move(g, id, pos)
        PROVE  Kept
    <3>1. /\ DOMAIN groups' = DOMAIN groups
          /\ \A i \in DOMAIN groups :
               groups'[i].pieces = groups[i].pieces /\ groups'[i].locked = groups[i].locked
      BY <1>1, <2>2 DEF Move, IInv, TypeOK, Group
    <3> QED
      BY <3>1 DEF LockedPieces
  <2>3. ASSUME NEW g \in Guests, NEW id \in Pieces, NEW pos \in Reports, Drop(g, id, pos)
        PROVE  Kept
    <3> DEFINE o == DropOutcome(id, pos)
               joined == o.mergedIds \cup {id}
    <3>1. /\ id \in DOMAIN groups
          /\ o.mergedIds \subseteq DOMAIN groups \ ({id} \cup DOMAIN holds)
          /\ o.group.pieces = UNION {groups[i].pieces : i \in joined}
          /\ (\E i \in joined : groups[i].locked) => o.group.locked
      BY <1>1, <2>3, DropResult DEF IInv, Drop
    <3>2. groups' = AfterDrop(id, o)
      BY <2>3 DEF Drop
    <3> HIDE DEF o
    <3>3. /\ DOMAIN groups' = DOMAIN groups \ o.mergedIds
          /\ id \in DOMAIN groups' /\ groups'[id] = o.group
          /\ \A i \in DOMAIN groups \ joined : i \in DOMAIN groups' /\ groups'[i] = groups[i]
      BY <3>1, <3>2 DEF AfterDrop
    <3>4. \A i \in joined : groups[i].pieces \subseteq groups'[id].pieces
      BY <3>1, <3>3
    <3>5. \A i \in DOMAIN groups : \E j \in DOMAIN groups' :
            groups[i].pieces \subseteq groups'[j].pieces /\ (groups[i].locked => groups'[j].locked)
      BY <3>1, <3>3, <3>4
    <3> QED
      BY <3>5 DEF LockedPieces
  <2>4. Kept
    BY <1>1, <2>1, <2>2, <2>3, GroupsChange
  <2>5. \A p \in LockedPieces : p \in LockedPieces' /\ Place(p) = Frame(p) /\ Place(p)' = Frame(p)
    <3>1. \A p \in LockedPieces' : Place(p)' = Frame(p)
      BY <1>1 DEF LockedPlaced
    <3> QED
      BY <1>1, <2>4, <3>1 DEF LockedPlaced
  <2> QED
    BY <2>4, <2>5 DEF ProgressStep
<1> QED
  BY <1>1, Invariance, LockedPlacedAlways, PTL DEF Spec, ProgressIsPermanent

-----------------------------------------------------------------------------
(* The sum of the scores. *)

Scores == [g \in DOMAIN identities |-> identities[g].placedCount]

LEMMA ScoresAreSummed ==
  ASSUME IsFiniteSet(DOMAIN identities)
  PROVE  MapThenSumSet(LAMBDA g : identities[g].placedCount, DOMAIN identities) = SumOf(Scores)
<1> DEFINE D == DOMAIN identities
           F(h) == [s \in SUBSET D |->
                      IF s = {} THEN 0
                      ELSE LET x == CHOOSE x \in s : TRUE IN identities[x].placedCount + h[s \ {x}]]
           k == CHOOSE h : h = F(h)
<1>1. ASSUME NEW h PROVE Sums(Scores, D, h) <=> h = F(h)
  <2>1. \A s \in SUBSET D : s # {} => Scores[Pick(s)] = identities[Pick(s)].placedCount
    BY PickIn DEF Scores
  <2> QED
    BY <2>1 DEF Sums, Pick
<1>2. DOMAIN Scores = D
  BY DEF Scores
<1>3. Sums(Scores, D, k)
  <2>1. PICK h : Sums(Scores, D, h)
    BY SumsExist
  <2> HIDE DEF F
  <2>2. h = F(h)
    BY Zenon, <1>1, <2>1
  <2>3. k = F(k)
    BY Zenon, <2>2
  <2> QED
    BY <1>1, <2>3
<1>4. MapThenSumSet(LAMBDA g : identities[g].placedCount, DOMAIN identities) = k[D]
  BY DEF MapThenSumSet, MapThenFoldSet
<1> HIDE DEF k
<1>5. PICK h : Sums(Scores, D, h) /\ SumOf(Scores) = h[D]
  BY <1>2, SumOfSums
<1>6. k[D] = h[D]
  BY <1>3, <1>5, SumsAgree
<1> QED
  BY <1>4, <1>5, <1>6

ScoresKept == IsFiniteSet(DOMAIN identities) /\ SumOf(Scores) = Cardinality(credited)

\* A step that changes one player's score, or adds one, changes the sum by as much.
LEMMA OneScoreChanges ==
  ASSUME IInv, ScoresKept, NEW g, DOMAIN identities' = DOMAIN identities \cup {g},
         identities'[g].placedCount \in Nat,
         \A h \in DOMAIN identities \ {g} : identities'[h].placedCount = identities[h].placedCount
  PROVE  /\ IsFiniteSet(DOMAIN identities') /\ SumOf(Scores) \in Nat
         /\ g \in DOMAIN identities =>
              SumOf(Scores)' = SumOf(Scores) + (identities'[g].placedCount - identities[g].placedCount)
         /\ g \notin DOMAIN identities => SumOf(Scores)' = SumOf(Scores) + identities'[g].placedCount
<1> DEFINE w == Scores
<1>1. /\ IsFiniteSet(DOMAIN identities) /\ DOMAIN w = DOMAIN identities
      /\ \A h \in DOMAIN identities : w[h] = identities[h].placedCount /\ w[h] \in Nat
  BY DEF Scores, ScoresKept, IInv, TypeOK, Identity
<1>2. /\ DOMAIN Scores' = DOMAIN identities \cup {g}
      /\ \A h \in DOMAIN identities \cup {g} : Scores'[h] = identities'[h].placedCount
  BY DEF Scores
<1>3. IsFiniteSet(DOMAIN identities')
  BY <1>1, FS_AddElement
<1>4. SumOf(Scores)' = SumOf(Scores')
  BY DEF SumOf, MapThenSumSet, MapThenFoldSet
<1>5. ASSUME NEW v, v = Scores'
      PROVE  /\ SumOf(w) \in Nat
             /\ g \in DOMAIN w => SumOf(v) = SumOf(w) + (v[g] - w[g])
             /\ g \notin DOMAIN w => SumOf(v) = SumOf(w) + v[g]
  <2> HIDE DEF w
  <2>1. /\ DOMAIN v = DOMAIN w \cup {g} /\ v[g] \in Nat
        /\ \A y \in DOMAIN w \ {g} : v[y] = w[y]
        /\ IsFiniteSet(DOMAIN w) /\ \A y \in DOMAIN w : w[y] \in Nat
    BY <1>1, <1>2, <1>5
  <2> QED
    BY <2>1, SumChanges
<1> QED
  BY <1>1, <1>2, <1>3, <1>4, <1>5

\* Nobody's score changes.
LEMMA ScoresStand ==
  ASSUME IInv, ScoresKept, DOMAIN identities' = DOMAIN identities,
         \A h \in DOMAIN identities : identities'[h].placedCount = identities[h].placedCount,
         credited' = credited
  PROVE  ScoresKept'
<1>1. Scores' = Scores
  BY DEF Scores
<1>2. SumOf(Scores)' = SumOf(Scores)
  BY <1>1 DEF SumOf, MapThenSumSet, MapThenFoldSet
<1> QED
  BY <1>2 DEF ScoresKept

LEMMA ScoresStep ==
  ASSUME IInv, ScoresKept, [Next]_vars
  PROVE  ScoresKept'
<1>1. ASSUME NEW token, NEW user, NEW name, Join(token, user, name)
      PROVE  ScoresKept'
  <2>1. UNCHANGED credited
    BY <1>1, JoinChange
  <2>2. ASSUME NEW g, Resume(g, name) PROVE ScoresKept'
    <3>1. /\ DOMAIN identities' = DOMAIN identities
          /\ \A h \in DOMAIN identities : identities'[h].placedCount = identities[h].placedCount
      BY <2>2 DEF Resume, IInv, TypeOK, Identity
    <3> QED
      BY <2>1, <3>1, ScoresStand
  <2>3. ASSUME NEW g \in Guests, Mint(g, user, name) PROVE ScoresKept'
    <3>1. /\ DOMAIN identities' = DOMAIN identities \cup {g}
          /\ \A h \in DOMAIN identities \ {g} : identities'[h].placedCount = identities[h].placedCount
          /\ g \notin DOMAIN identities /\ identities'[g].placedCount = 0
      BY <2>3 DEF Mint
    <3>2. identities'[g].placedCount \in Nat
      BY <3>1
    <3>3. /\ IsFiniteSet(DOMAIN identities') /\ SumOf(Scores) \in Nat
          /\ SumOf(Scores)' = SumOf(Scores) + identities'[g].placedCount
      BY Zenon, <3>1, <3>2, OneScoreChanges
    <3> QED
      BY <2>1, <3>1, <3>3 DEF ScoresKept
  <2> QED
    BY <1>1, <2>2, <2>3 DEF Join
<1>2. ASSUME NEW g \in Guests, NEW name \in Names, Rename(g, name) PROVE ScoresKept'
  <2>1. /\ DOMAIN identities' = DOMAIN identities
        /\ \A h \in DOMAIN identities : identities'[h].placedCount = identities[h].placedCount
    BY <1>2 DEF Rename, IInv, TypeOK, Identity
  <2> QED
    BY <1>2, <2>1, ScoresStand DEF Rename, table
<1>3. ASSUME NEW g \in Guests, NEW id \in Pieces, NEW pos \in Reports, Drop(g, id, pos)
      PROVE  ScoresKept'
  <2> DEFINE o == DropOutcome(id, pos)
             fresh == o.connectedPieces \ credited
  <2>1. o.group \in Group /\ o.connectedPieces \in {{}, o.group.pieces}
    BY <1>3, DropResult DEF IInv, Drop
  <2>2. /\ credited' = credited \cup o.connectedPieces
        /\ identities' = [identities EXCEPT ![g].placedCount = @ + Cardinality(fresh)]
        /\ g \in connected
    BY <1>3 DEF Drop, Credit, HolderMutation, Playable
  <2> HIDE DEF o
  <2>3. fresh \in SUBSET Pieces /\ credited \in SUBSET Pieces /\ credited' = credited \cup fresh /\ credited \cap fresh = {}
    BY <2>1, <2>2 DEF Group, IInv, TypeOK
  <2> HIDE DEF fresh
  <2>4. /\ IsFiniteSet(fresh) /\ IsFiniteSet(credited)
        /\ Cardinality(fresh) \in Nat /\ Cardinality(credited) \in Nat
    BY <2>3, PiecesFinite, FS_Subset, FS_CardinalityType
  <2>5. Cardinality(credited') = Cardinality(credited) + Cardinality(fresh)
    <3>1. Cardinality(credited \cap fresh) = 0
      BY <2>3, FS_EmptySet
    <3>2. Cardinality(credited \cup fresh) = Cardinality(credited) + Cardinality(fresh) - 0
      BY <2>4, <3>1, FS_Union
    <3> QED
      BY <2>3, <2>4, <3>2
  <2>6. /\ g \in DOMAIN identities /\ DOMAIN identities' = DOMAIN identities
        /\ identities[g].placedCount \in Nat
        /\ identities'[g].placedCount = identities[g].placedCount + Cardinality(fresh)
        /\ \A h \in DOMAIN identities \ {g} : identities'[h].placedCount = identities[h].placedCount
    BY <2>2 DEF IInv, TypeOK, Identity
  <2>7. /\ IsFiniteSet(DOMAIN identities') /\ SumOf(Scores) \in Nat
        /\ SumOf(Scores)' = SumOf(Scores) + (identities'[g].placedCount - identities[g].placedCount)
    <3>1. DOMAIN identities' = DOMAIN identities \cup {g}
      BY <2>6
    <3>2. \A m, n \in Nat : m + n \in Nat
      OBVIOUS
    <3>3. identities'[g].placedCount \in Nat
      BY <2>4, <2>6, <3>2
    <3> QED
      BY Zenon, <2>6, <3>1, <3>3, OneScoreChanges
  <2>8. SumOf(Scores)' = Cardinality(credited')
    BY <2>4, <2>5, <2>6, <2>7 DEF ScoresKept
  <2> QED
    BY <2>7, <2>8 DEF ScoresKept
<1>4. ASSUME UNCHANGED <<identities, credited>> PROVE ScoresKept'
  BY <1>4, ScoresStand
<1> QED
  BY <1>1, <1>2, <1>3, <1>4 DEF Next, vars, Leave, Grab, Move, ExpireIdleHolds, Tick, presence, table

LEMMA ScoresKeptAlways == Spec => []ScoresKept
<1>1. Init => ScoresKept
  <2> SUFFICES ASSUME Init PROVE ScoresKept
    OBVIOUS
  <2>1. DOMAIN identities = {} /\ credited = {}
    BY DEF Init
  <2>2. SumOf(Scores) = 0
    BY <2>1, SumOfEmpty DEF Scores
  <2> QED
    BY <2>1, <2>2, FS_EmptySet DEF ScoresKept
<1>2. IInv /\ ScoresKept /\ [Next]_vars => ScoresKept'
  BY ScoresStep
<1> QED
  BY <1>1, <1>2, Invariance, PTL DEF Spec

\* The players' scores sum to the pieces credited.
THEOREM ScoresSumCorrect == Spec => []ScoresSum
<1>1. ScoresKept => ScoresSum
  BY ScoresAreSummed DEF ScoresKept, ScoresSum
<1> QED
  BY <1>1, ScoresKeptAlways, PTL

-----------------------------------------------------------------------------
(* The referee implements the promised service.  Under the inductive       *)
(* invariant a block has one id, so a hand on a block is the hold on its   *)
(* group.                                                                  *)

\* A block is the pieces of one live group, and its hand is that group's holder.
LEMMA BlocksHaveOneId ==
  ASSUME IInv
  PROVE  /\ \A i, j \in DOMAIN groups : groups[i].pieces \cap groups[j].pieces # {} => i = j
         /\ \A i \in DOMAIN groups : i \in groups[i].pieces
         /\ DOMAIN holds \subseteq DOMAIN groups
         /\ \A i \in DOMAIN holds : holds[i].holder \in connected /\ ~groups[i].locked
BY DEF IInv, GroupsPartition, HoldsAreLive

HandFollows ==
  /\ DOMAIN Hand = PiecesOf(DOMAIN holds)
  /\ Hand = [b \in DOMAIN Hand |-> Hand[b]]
  /\ \A i \in DOMAIN holds : Hand[groups[i].pieces] = holds[i].holder

LEMMA HandOfBlock == IInv => HandFollows
<1> SUFFICES ASSUME IInv PROVE HandFollows
  OBVIOUS
<1>1. DOMAIN Hand = PiecesOf(DOMAIN holds) /\ Hand = [b \in DOMAIN Hand |-> Hand[b]]
  BY DEF Hand
<1>2. ASSUME NEW i \in DOMAIN holds
      PROVE  Hand[groups[i].pieces] = holds[i].holder
  <2> DEFINE j == CHOOSE k \in DOMAIN holds : groups[k].pieces = groups[i].pieces
  <2>1. j \in DOMAIN holds /\ groups[j].pieces = groups[i].pieces
    OBVIOUS
  <2>2. j = i
    BY <2>1, BlocksHaveOneId
  <2>3. Hand[groups[i].pieces] = HandOf(groups[i].pieces)
    BY DEF Hand, PiecesOf
  <2> QED
    BY <2>2, <2>3 DEF HandOf
<1> QED
  BY <1>1, <1>2 DEF HandFollows

\* What is known of a block's hand is known through the id of its group.
LEMMA HandById ==
  ASSUME IInv, NEW b
  PROVE  b \in DOMAIN Hand <=> \E i \in DOMAIN holds : b = groups[i].pieces
BY HandOfBlock DEF HandFollows, PiecesOf

\* A held group is the only one with its block.
LEMMA HeldBlock ==
  ASSUME IInv, NEW i \in DOMAIN groups
  PROVE  groups[i].pieces \in DOMAIN Hand <=> i \in DOMAIN holds
<1>1. \A j \in DOMAIN holds : groups[j].pieces = groups[i].pieces => i = j
  BY BlocksHaveOneId
<1> QED
  BY <1>1, HandById

\* Holds are only let go, and the groups still held keep their pieces.
HoldsShrink ==
  /\ DOMAIN holds' \subseteq DOMAIN holds
  /\ \A i \in DOMAIN holds' :
       holds'[i].holder = holds[i].holder /\ groups'[i].pieces = groups[i].pieces

\* Then the hands lose exactly the blocks let go.
LEMMA HandsShrink ==
  ASSUME IInv, IInv', HoldsShrink, NEW bs,
         \A i \in DOMAIN holds : groups[i].pieces \in bs <=> i \notin DOMAIN holds'
  PROVE  Hand' = [b \in DOMAIN Hand \ bs |-> Hand[b]]
<1>0. HandFollows'
  BY HandOfBlock, PTL
<1>1. /\ DOMAIN Hand' = PiecesOf(DOMAIN holds)'
      /\ Hand' = [b \in DOMAIN Hand' |-> Hand'[b]]
      /\ \A i \in DOMAIN holds' : Hand'[groups'[i].pieces] = holds'[i].holder
  BY <1>0 DEF HandFollows
<1>2. PiecesOf(DOMAIN holds)' = {groups'[i].pieces : i \in DOMAIN holds'}
  BY DEF PiecesOf
<1>3. DOMAIN Hand' = DOMAIN Hand \ bs
  BY <1>1, <1>2, HandById DEF HoldsShrink
<1>4. ASSUME NEW b \in DOMAIN Hand' PROVE Hand'[b] = Hand[b]
  <2>1. PICK i \in DOMAIN holds' : b = groups'[i].pieces
    BY <1>1, <1>2
  <2>2. i \in DOMAIN holds /\ b = groups[i].pieces /\ holds'[i].holder = holds[i].holder
    BY <2>1 DEF HoldsShrink
  <2> QED
    BY <1>1, <2>1, <2>2, HandOfBlock DEF HandFollows
<1> QED
  BY <1>1, <1>3, <1>4

\* Nothing is let go.
LEMMA HandsStay ==
  ASSUME IInv, IInv', HoldsShrink, DOMAIN holds' = DOMAIN holds
  PROVE  Hand' = Hand
<1>1. Hand' = [b \in DOMAIN Hand \ {} |-> Hand[b]]
  BY HandsShrink
<1>2. DOMAIN Hand \ {} = DOMAIN Hand
  OBVIOUS
<1> QED
  BY <1>1, <1>2, HandOfBlock DEF HandFollows

\* Which groups there are, with their pieces and locks, is all blocks speak of.
LEMMA BlocksStay ==
  ASSUME DOMAIN groups' = DOMAIN groups,
         \A i \in DOMAIN groups :
           groups'[i].pieces = groups[i].pieces /\ groups'[i].locked = groups[i].locked
  PROVE  Blocks' = Blocks /\ LockedPieces' = LockedPieces
<1>1. {i \in DOMAIN groups' : groups'[i].locked} = {i \in DOMAIN groups : groups[i].locked}
  OBVIOUS
<1>2. LockedPieces' = LockedPieces
  BY <1>1 DEF LockedPieces
<1>3. Blocks' = Blocks
  BY DEF Blocks, PiecesOf
<1> QED
  BY <1>2, <1>3

LEMMA ScoreStays ==
  ASSUME \A g \in DOMAIN identities : g \in DOMAIN identities' /\ identities'[g].placedCount = identities[g].placedCount,
         \A g \in DOMAIN identities' \ DOMAIN identities : identities'[g].placedCount = 0
  PROVE  Score' = Score
BY DEF Score

\* The pieces fixed to the frame are those of locked groups, and of no other.
LEMMA FixedBlocks ==
  ASSUME IInv, NEW i \in DOMAIN groups
  PROVE  groups[i].pieces \cap LockedPieces # {} <=> groups[i].locked
<1>1. ASSUME NEW p \in groups[i].pieces, p \in LockedPieces PROVE groups[i].locked
  <2>1. PICK j \in DOMAIN groups : groups[j].locked /\ p \in groups[j].pieces
    BY <1>1 DEF LockedPieces
  <2>2. i = j
    BY <1>1, <2>1, BlocksHaveOneId
  <2> QED
    BY <2>1, <2>2
<1>2. groups[i].locked => i \in groups[i].pieces /\ i \in LockedPieces
  BY BlocksHaveOneId DEF LockedPieces
<1> QED
  BY <1>1, <1>2

-----------------------------------------------------------------------------
(* The initial state, and one lemma per step. *)

LEMMA InitRefines == Init => Promise!Init
<1> SUFFICES ASSUME Init PROVE Promise!Init
  OBVIOUS
<1>1. DOMAIN groups = Pieces /\ \A p \in Pieces : groups[p].pieces = {p} /\ ~groups[p].locked
  BY DEF Init, Singleton
<1>2. Blocks = {{p} : p \in Pieces}
  BY <1>1 DEF Blocks, PiecesOf
<1>3. LockedPieces = {}
  BY <1>1 DEF LockedPieces
<1>4. DOMAIN holds = {} /\ DOMAIN identities = {} /\ connected = {} /\ credited = {}
  BY DEF Init
<1>5. Hand = << >>
  <2>1. PiecesOf(DOMAIN holds) = {}
    BY <1>4 DEF PiecesOf
  <2> QED
    BY <2>1 DEF Hand
<1>6. Score = [g \in Guests |-> 0]
  BY <1>4 DEF Score
<1> QED
  BY <1>2, <1>3, <1>4, <1>5, <1>6 DEF Promise!Init

\* A join lets one guest in; a new guest starts without credit.
LEMMA JoinRefines ==
  ASSUME IInv, IInv', NEW token, NEW user, NEW name, Join(token, user, name)
  PROVE  \E g \in Guests : Promise!Arrive(g)
<1>1. PICK g \in Guests : connected' = connected \cup {g} /\ (Resume(g, name) \/ Mint(g, user, name))
  <2>1. \A g : (Resume(g, name) \/ Mint(g, user, name)) => connected' = connected \cup {g}
    BY DEF Resume, Mint, Enter
  <2>2. Resumed(token, user) \subseteq Guests
    BY DEF Resumed, GuestOf, IInv, TypeOK
  <2> QED
    BY <2>1, <2>2 DEF Join
<1>2. UNCHANGED <<groups, holds, credited>>
  BY JoinChange
<1>3. Blocks' = Blocks /\ LockedPieces' = LockedPieces /\ Hand' = Hand
  BY <1>2, BlocksStay, HandsStay DEF HoldsShrink
<1>4. Score' = Score
  <2>1. CASE Resume(g, name)
    <3>1. /\ DOMAIN identities' = DOMAIN identities
          /\ \A h \in DOMAIN identities : identities'[h].placedCount = identities[h].placedCount
      BY <2>1 DEF Resume, IInv, TypeOK, Identity
    <3> QED
      BY <3>1, ScoreStays
  <2>2. CASE Mint(g, user, name)
    <3>1. /\ DOMAIN identities' = DOMAIN identities \cup {g}
          /\ \A h \in DOMAIN identities : identities'[h].placedCount = identities[h].placedCount
          /\ g \notin DOMAIN identities /\ identities'[g].placedCount = 0
      BY <2>2 DEF Mint
    <3> QED
      BY <3>1, ScoreStays
  <2> QED
    BY <1>1, <2>1, <2>2
<1> QED
  BY <1>1, <1>2, <1>3, <1>4 DEF Promise!Arrive

LEMMA LeaveRefines ==
  ASSUME IInv, IInv', NEW g \in Guests, Leave(g)
  PROVE  Promise!Depart(g)
<1> DEFINE gone == {i \in DOMAIN holds : holds[i].holder = g}
           bs == {b \in DOMAIN Hand : Hand[b] = g}
<1>1. /\ g \in connected /\ connected' = connected \ {g}
      /\ holds' = Restrict(holds, DOMAIN holds \ gone)
      /\ UNCHANGED <<groups, identities, credited>>
  BY DEF Leave, ReleaseHolds
<1>2. /\ DOMAIN holds' = DOMAIN holds \ gone
      /\ \A i \in DOMAIN holds' : holds'[i] = holds[i]
  BY <1>1 DEF Restrict
<1>3. HoldsShrink
  BY <1>1, <1>2 DEF HoldsShrink
<1>4. \A i \in DOMAIN holds : groups[i].pieces \in bs <=> i \notin DOMAIN holds'
  <2> TAKE i \in DOMAIN holds
  <2>1. groups[i].pieces \in DOMAIN Hand /\ Hand[groups[i].pieces] = holds[i].holder
    BY HandById, HandOfBlock DEF HandFollows
  <2> QED
    BY <1>2, <2>1
<1> HIDE DEF bs
<1>5. Hand' = [b \in DOMAIN Hand \ bs |-> Hand[b]]
  BY <1>3, <1>4, HandsShrink
<1>6. Blocks' = Blocks /\ LockedPieces' = LockedPieces /\ Score' = Score
  BY <1>1, BlocksStay DEF Score
<1> QED
  BY <1>1, <1>5, <1>6 DEF bs, Promise!Depart, Promise!LetGo

\* A repeated grab by the holder only refreshes the hold; the first one takes a
\* free block, in a room that is not solved.
LEMMA GrabRefines ==
  ASSUME IInv, IInv', NEW g \in Guests, NEW id \in Pieces, Grab(g, id)
  PROVE  UNCHANGED Promise!vars \/ \E b \in Blocks : Promise!Take(g, b)
<1> DEFINE b == groups[id].pieces
<1>1. /\ id \in DOMAIN groups /\ ~groups[id].locked /\ g \in connected
      /\ id \in DOMAIN holds => holds[id].holder = g
      /\ UNCHANGED <<groups, identities, connected, credited>>
  BY DEF Grab, Playable, presence
<1>2. /\ DOMAIN holds' = DOMAIN holds \cup {id}
      /\ holds'[id].holder = g
      /\ \A i \in DOMAIN holds \ {id} : holds'[i] = holds[i]
  BY DEF Grab, SetHold
<1>3. Blocks' = Blocks /\ LockedPieces' = LockedPieces /\ Score' = Score
  BY <1>1, BlocksStay DEF Score
<1>4. CASE id \in DOMAIN holds
  <2>1. HoldsShrink /\ DOMAIN holds' = DOMAIN holds
    BY <1>1, <1>2, <1>4 DEF HoldsShrink
  <2> QED
    BY <1>1, <1>3, <2>1, HandsStay DEF Promise!vars
<1>5. CASE id \notin DOMAIN holds
  <2>1. b \in Blocks /\ b \cap LockedPieces = {} /\ b \notin DOMAIN Hand
    BY <1>1, <1>5, FixedBlocks, HeldBlock DEF Blocks, PiecesOf
  <2>2. LockedPieces # Pieces
    <3>1. id \in b
      BY <1>1, BlocksHaveOneId
    <3> QED
      BY <2>1, <3>1
  <2>3. HandFollows /\ HandFollows'
    BY HandOfBlock, PTL
  <2>4. PiecesOf(DOMAIN holds)' = {groups[i].pieces : i \in DOMAIN holds'}
    BY <1>1 DEF PiecesOf
  <2>5. DOMAIN Hand' = DOMAIN Hand \cup {b}
    <3>1. DOMAIN Hand' = {groups[i].pieces : i \in DOMAIN holds \cup {id}}
      BY <1>2, <2>3, <2>4 DEF HandFollows
    <3>2. DOMAIN Hand = {groups[i].pieces : i \in DOMAIN holds}
      BY <2>3 DEF HandFollows, PiecesOf
    <3> QED
      BY <3>1, <3>2
  <2>6. Hand'[b] = g
    BY <1>1, <1>2, <2>3 DEF HandFollows
  <2>7. ASSUME NEW c \in DOMAIN Hand PROVE Hand'[c] = Hand[c] /\ c # b
    <3>1. PICK i \in DOMAIN holds : c = groups[i].pieces
      BY HandById
    <3>2. i # id /\ i \in DOMAIN holds' /\ holds'[i] = holds[i]
      BY <1>2, <1>5, <3>1
    <3> QED
      BY <1>1, <2>1, <2>3, <3>1, <3>2 DEF HandFollows
  <2>8. Hand' = [c \in DOMAIN Hand \cup {b} |-> IF c = b THEN g ELSE Hand[c]]
    BY <2>3, <2>5, <2>6, <2>7 DEF HandFollows
  <2>9. Promise!Take(g, b)
    BY <1>1, <1>3, <2>1, <2>2, <2>8 DEF Promise!Take, Promise!Solved
  <2> QED
    BY <2>1, <2>9
<1> QED
  BY <1>4, <1>5

\* A move changes where a block lies, which the promise does not speak of.
LEMMA MoveRefines ==
  ASSUME IInv, IInv', NEW g \in Guests, NEW id \in Pieces, NEW pos \in Reports, Move(g, id, pos)
  PROVE  UNCHANGED Promise!vars
<1>1. /\ DOMAIN groups' = DOMAIN groups
      /\ \A i \in DOMAIN groups :
           groups'[i].pieces = groups[i].pieces /\ groups'[i].locked = groups[i].locked
  BY DEF Move, IInv, TypeOK, Group
<1>2. /\ DOMAIN holds' = DOMAIN holds
      /\ \A i \in DOMAIN holds : holds'[i].holder = holds[i].holder
  BY DEF Move, IInv, TypeOK, Hold
<1>3. HoldsShrink
  BY <1>1, <1>2, BlocksHaveOneId DEF HoldsShrink
<1>4. UNCHANGED <<identities, connected, credited>>
  BY DEF Move, presence
<1>5. Score' = Score
  BY <1>4 DEF Score
<1> QED
  BY <1>1, <1>2, <1>3, <1>4, <1>5, BlocksStay, HandsStay DEF Promise!vars

\* The sweep takes back neglected blocks.
LEMMA ExpireIdleHoldsRefines ==
  ASSUME IInv, IInv', ExpireIdleHolds
  PROVE  \E bs \in SUBSET DOMAIN Hand : Promise!TakeBack(bs)
<1> DEFINE idle == {i \in DOMAIN holds : Idle(i)}
           bs == {groups[i].pieces : i \in idle}
<1>1. /\ holds' = Restrict(holds, DOMAIN holds \ idle)
      /\ UNCHANGED <<groups, identities, connected, credited>>
  BY DEF ExpireIdleHolds, ReleaseHolds, presence
<1>2. idle \subseteq DOMAIN holds
  OBVIOUS
<1> HIDE DEF idle
<1>3. /\ DOMAIN holds' = DOMAIN holds \ idle
      /\ \A i \in DOMAIN holds' : holds'[i] = holds[i]
  BY <1>1 DEF Restrict
<1>4. HoldsShrink
  BY <1>1, <1>3 DEF HoldsShrink
<1>5. \A i \in DOMAIN holds : groups[i].pieces \in bs <=> i \notin DOMAIN holds'
  BY <1>2, <1>3, BlocksHaveOneId
<1>6. bs \in SUBSET DOMAIN Hand
  BY <1>2, HandById
<1> HIDE DEF bs
<1>7. Hand' = [b \in DOMAIN Hand \ bs |-> Hand[b]]
  BY <1>4, <1>5, HandsShrink
<1>8. Blocks' = Blocks /\ LockedPieces' = LockedPieces /\ Score' = Score
  BY <1>1, BlocksStay DEF Score
<1> QED
  BY <1>1, <1>6, <1>7, <1>8 DEF Promise!TakeBack, Promise!LetGo

\* A drop puts the holder's block down next to the free blocks it absorbs.  The
\* result stays fixed exactly when the drop locked it, and what it credits is what
\* the block has become, unless the drop did nothing.
LEMMA DropRefines ==
  ASSUME IInv, IInv', NEW g \in Guests, NEW id \in Pieces, NEW pos \in Reports, Drop(g, id, pos)
  PROVE  \E b \in DOMAIN Hand, near \in SUBSET Blocks, lock \in BOOLEAN :
           Promise!PutDown(g, b, near, lock)
<1> DEFINE o == DropOutcome(id, pos)
           b == groups[id].pieces
           near == {groups[i].pieces : i \in o.mergedIds}
           joined == b \cup UNION near
           lock == o.group.locked
           earned == o.connectedPieces \ credited
<1>1. /\ id \in DOMAIN groups /\ ~groups[id].locked
      /\ o.mergedIds \subseteq DOMAIN groups \ ({id} \cup DOMAIN holds)
      /\ o.group \in Group
      /\ o.group.pieces = UNION {groups[i].pieces : i \in o.mergedIds \cup {id}}
      /\ (\E i \in o.mergedIds \cup {id} : groups[i].locked) => o.group.locked
      /\ o.connectedPieces = IF o.group.locked \/ o.mergedIds # {} THEN o.group.pieces ELSE {}
  BY DropResult DEF IInv, Drop
<1>2. /\ groups' = AfterDrop(id, o)
      /\ holds' = Restrict(holds, DOMAIN holds \ {id})
      /\ credited' = credited \cup o.connectedPieces
      /\ identities' = [identities EXCEPT ![g].placedCount = @ + Cardinality(earned)]
      /\ connected' = connected
      /\ g \in connected /\ id \in DOMAIN holds /\ holds[id].holder = g
  BY DEF Drop, Credit, ReleaseHolds, HolderMutation, Playable
<1>3. lock \in BOOLEAN
  BY <1>1 DEF Group
<1> HIDE DEF o
<1>4. /\ DOMAIN groups' = DOMAIN groups \ o.mergedIds
      /\ id \in DOMAIN groups' /\ groups'[id] = o.group
      /\ \A i \in DOMAIN groups' \ {id} : groups'[i] = groups[i]
  BY <1>1, <1>2 DEF AfterDrop
<1>5. o.group.pieces = joined
  BY <1>1
<1>6. b \in DOMAIN Hand /\ Hand[b] = g
  BY <1>1, <1>2, HeldBlock, HandOfBlock DEF HandFollows
<1>7. near \subseteq Blocks \ DOMAIN Hand
  BY <1>1, HeldBlock DEF Blocks, PiecesOf
<1>8. near # {} <=> o.mergedIds # {}
  OBVIOUS
<1>9. joined \cap LockedPieces # {} => lock
  <2> SUFFICES ASSUME NEW p \in joined, p \in LockedPieces PROVE lock
    OBVIOUS
  <2>1. PICK i \in o.mergedIds \cup {id} : p \in groups[i].pieces
    OBVIOUS
  <2>2. i \in DOMAIN groups
    BY <1>1
  <2>3. groups[i].locked
    BY <2>1, <2>2, FixedBlocks
  <2> QED
    BY <1>1, <2>3
<1>10. earned = IF lock \/ joined \cap LockedPieces # {} \/ near # {} THEN joined \ credited ELSE {}
  <2>1. o.connectedPieces = IF lock \/ near # {} THEN joined ELSE {}
    BY <1>1, <1>5, <1>8
  <2> HIDE DEF near, joined
  <2> QED
    BY <1>9, <2>1
<1>11. Blocks' = (Blocks \ ({b} \cup near)) \cup {joined}
  <2>1. Blocks' = {groups'[i].pieces : i \in DOMAIN groups'}
    BY DEF Blocks, PiecesOf
  <2>2. \A i \in DOMAIN groups : groups[i].pieces \in {b} \cup near <=> i \in o.mergedIds \cup {id}
    <3>1. \A i, j \in DOMAIN groups : groups[i].pieces = groups[j].pieces => i = j
      BY BlocksHaveOneId
    <3> QED
      BY <1>1, <3>1
  <2> HIDE DEF near, joined
  <2>3. \A c : c \in Blocks' <=> c = joined \/ \E i \in DOMAIN groups \ (o.mergedIds \cup {id}) : c = groups[i].pieces
    BY <1>4, <1>5, <2>1
  <2>4. \A c : c \in Blocks \ ({b} \cup near) <=> \E i \in DOMAIN groups \ (o.mergedIds \cup {id}) : c = groups[i].pieces
    BY <2>2 DEF Blocks, PiecesOf
  <2> QED
    BY <2>3, <2>4
<1>12. LockedPieces' = IF lock \/ joined \cap LockedPieces # {} THEN LockedPieces \cup joined ELSE LockedPieces
  <2>1. \A p : p \in LockedPieces' <=> \E i \in DOMAIN groups' : groups'[i].locked /\ p \in groups'[i].pieces
    BY DEF LockedPieces
  <2>2. \A p : p \in LockedPieces <=> \E i \in DOMAIN groups : groups[i].locked /\ p \in groups[i].pieces
    BY DEF LockedPieces
  <2>3. \A i \in o.mergedIds \cup {id} : groups[i].pieces \subseteq joined
    OBVIOUS
  <2> HIDE DEF near, joined
  <2>4. CASE lock
    <3>1. \A p : p \in LockedPieces' <=> p \in LockedPieces \/ p \in joined
      BY <1>1, <1>4, <1>5, <2>1, <2>2, <2>3, <2>4
    <3> QED
      BY <2>4, <3>1
  <2>5. CASE ~lock
    <3>1. \A p : p \in LockedPieces' <=> p \in LockedPieces
      BY <1>1, <1>4, <2>1, <2>2, <2>5
    <3> QED
      BY <1>9, <2>5, <3>1
  <2> QED
    BY <2>4, <2>5
<1>13. Hand' = [c \in DOMAIN Hand \ {b} |-> Hand[c]]
  <2>1. /\ DOMAIN holds' = DOMAIN holds \ {id}
        /\ \A i \in DOMAIN holds' : holds'[i] = holds[i]
    BY <1>2 DEF Restrict
  <2>2. HoldsShrink
    BY <1>1, <1>4, <2>1, BlocksHaveOneId DEF HoldsShrink
  <2>3. \A i \in DOMAIN holds : groups[i].pieces \in {b} <=> i \notin DOMAIN holds'
    BY <1>1, <2>1, BlocksHaveOneId
  <2> QED
    BY <2>2, <2>3, HandsShrink
<1>14. Score' = [Score EXCEPT ![g] = @ + Cardinality(earned)]
  <2> HIDE DEF earned
  <2>1. g \in DOMAIN identities /\ identities \in [DOMAIN identities -> Identity]
    BY <1>2 DEF IInv, TypeOK
  <2>2. /\ DOMAIN identities' = DOMAIN identities
        /\ identities'[g].placedCount = identities[g].placedCount + Cardinality(earned)
        /\ \A h \in DOMAIN identities \ {g} : identities'[h] = identities[h]
    BY <1>2, <2>1 DEF Identity
  <2> QED
    BY <2>1, <2>2 DEF Score
<1>15. credited' = credited \cup earned
  BY <1>2
<1> HIDE DEF b, near, joined, lock, earned
<1>16. Promise!PutDown(g, b, near, lock)
  <2> DEFINE union == b \cup UNION near
             stays == lock \/ union \cap LockedPieces # {}
             credit == IF stays \/ near # {} THEN union \ credited ELSE {}
  <2>1. union = joined
    BY DEF joined
  <2> HIDE DEF union
  <2>2. credit = earned /\ credited' = credited \cup credit
    BY <1>10, <1>15, <2>1
  <2>3. Score' = [Score EXCEPT ![g] = @ + Cardinality(credit)]
    BY <1>14, <2>2
  <2>4. Blocks' = (Blocks \ ({b} \cup near)) \cup {union}
    BY <1>11, <2>1
  <2>5. LockedPieces' = IF stays THEN LockedPieces \cup union ELSE LockedPieces
    BY <1>12, <2>1
  <2>6. Promise!Cardinality(credit) = Cardinality(credit)
    BY DEF Promise!Cardinality, Cardinality
  <2>7. connected' = connected
    BY <1>2
  <2> HIDE DEF stays, credit
  <2> QED
    BY <1>6, <1>7, <1>13, <2>2, <2>3, <2>4, <2>5, <2>6, <2>7
    DEF Promise!PutDown, Promise!LetGo, union, stays, credit
<1> QED
  BY <1>3, <1>6, <1>7, <1>16

-----------------------------------------------------------------------------

\* Every step of the referee is a step of the promised service or changes nothing
\* it speaks of.
LEMMA StepRefines ==
  ASSUME IInv, IInv', [Next]_vars
  PROVE  [Promise!Next]_(Promise!vars)
<1>1. ASSUME NEW token, NEW user, NEW name, Join(token, user, name) PROVE Promise!Next
  BY <1>1, JoinRefines DEF Promise!Next
<1>2. ASSUME NEW g \in Guests, Leave(g) PROVE Promise!Next
  BY <1>2, LeaveRefines DEF Promise!Next
<1>3. ASSUME NEW g \in Guests, NEW id \in Pieces, Grab(g, id)
      PROVE  Promise!Next \/ UNCHANGED Promise!vars
  BY <1>3, GrabRefines DEF Promise!Next
<1>4. ASSUME NEW g \in Guests, NEW id \in Pieces, NEW pos \in Reports, Move(g, id, pos)
      PROVE  UNCHANGED Promise!vars
  BY <1>4, MoveRefines
<1>5. ASSUME NEW g \in Guests, NEW id \in Pieces, NEW pos \in Reports, Drop(g, id, pos)
      PROVE  Promise!Next
  BY <1>5, DropRefines DEF Promise!Next
<1>6. CASE ExpireIdleHolds
  BY <1>6, ExpireIdleHoldsRefines DEF Promise!Next
<1>7. ASSUME UNCHANGED <<groups, holds, connected, credited>>, UNCHANGED Score
      PROVE  UNCHANGED Promise!vars
  <2>1. HoldsShrink /\ DOMAIN holds' = DOMAIN holds
    BY <1>7 DEF HoldsShrink
  <2> QED
    BY <1>7, <2>1, BlocksStay, HandsStay DEF Promise!vars
<1>8. ASSUME NEW g \in Guests, NEW name \in Names, Rename(g, name) PROVE UNCHANGED Promise!vars
  <2>1. /\ DOMAIN identities' = DOMAIN identities
        /\ \A h \in DOMAIN identities : identities'[h].placedCount = identities[h].placedCount
    BY <1>8 DEF Rename, IInv, TypeOK, Identity
  <2>2. Score' = Score
    BY <2>1, ScoreStays
  <2> QED
    BY <1>7, <1>8, <2>2 DEF Rename, table
<1>9. CASE Tick \/ UNCHANGED vars
  <2>1. UNCHANGED <<groups, holds, connected, credited, identities>>
    BY <1>9 DEF Tick, table, presence, vars
  <2> QED
    BY <1>7, <2>1 DEF Score
<1> QED
  BY <1>1, <1>2, <1>3, <1>4, <1>5, <1>6, <1>8, <1>9 DEF Next

\* The referee implements the service a room promises: exclusive hands, blocks
\* that only join, fixed pieces that stay fixed, one credit per piece.
THEOREM RefinementCorrect == Spec => ImplementsJigsaw
<1>1. Init => Promise!Init
  BY InitRefines
<1>2. IInv /\ IInv' /\ [Next]_vars => [Promise!Next]_(Promise!vars)
  BY StepRefines
<1> QED
  BY <1>1, <1>2, Invariance, PTL DEF Spec, ImplementsJigsaw, Promise!Spec
=============================================================================
