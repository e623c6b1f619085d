------------------------------ MODULE SumLemmas ------------------------------
(***************************************************************************)
(* Sums over finite sets, as MapThenSumSet computes them: taking one       *)
(* element after the other, in whatever order CHOOSE has it.  Induction is *)
(* by descent: a set of naturals without a least element is empty.         *)
(***************************************************************************)
EXTENDS Integers, FiniteSetsExt, FiniteSetTheorems, WellFoundedInduction, TLAPS

\* A non-empty set of naturals has a least element.
LEMMA NatMin ==
  ASSUME NEW T \in SUBSET Nat, T # {}
  PROVE  \E m \in T : \A n \in T : m <= n
<1>1. IsWellFoundedOn({ss \in Nat \X Nat : ss[1] < ss[2]}, Nat)
  BY NatLessThanWellFounded, Zenon DEF OpToRel
<1> DEFINE R == {ss \in Nat \X Nat : ss[1] < ss[2]}
<1>2. PICK m \in T : \A n \in T : ~ (<<n, m>> \in R)
  <2> HIDE DEF R
  <2> SUFFICES IsWellFoundedOn(R, Nat) BY WFMin, Zenon
  <2> QED BY <1>1 DEF R
<1>3. ASSUME NEW n \in T PROVE m <= n
  <2>1. n \in Nat /\ m \in Nat
    OBVIOUS
  <2>2. <<n, m>> \in R <=> n < m
    BY <2>1
  <2> HIDE DEF R
  <2>3. ~ (n < m)
    BY <1>2, <2>2
  <2> QED
    BY <2>1, <2>3
<1> QED
  BY <1>3

LEMMA Descent ==
  ASSUME NEW B \in SUBSET Nat, \A n \in B : \E m \in B : m < n
  PROVE  B = {}
<1> SUFFICES ASSUME B # {} PROVE FALSE
  OBVIOUS
<1>1. PICK m \in B : \A n \in B : m <= n
  BY NatMin
<1>2. PICK n \in B : n < m
  OBVIOUS
<1>3. m \in Nat /\ n \in Nat /\ m <= n
  BY <1>1
<1> QED
  BY <1>2, <1>3

-----------------------------------------------------------------------------

\* The element taken first.
Pick(s) == CHOOSE x \in s : TRUE

LEMMA PickIn == ASSUME NEW s, s # {} PROVE Pick(s) \in s
BY DEF Pick

\* h sums w over the subsets of S.
Sums(w, S, h) ==
  h = [s \in SUBSET S |-> IF s = {} THEN 0 ELSE LET x == Pick(s) IN w[x] + h[s \ {x}]]

\* What that says of one subset.
SumsOneByOne(w, S, h) ==
  /\ h[{}] = 0
  /\ \A s \in SUBSET S : s # {} => Pick(s) \in s /\ h[s] = w[Pick(s)] + h[s \ {Pick(s)}]

LEMMA SumsAt ==
  ASSUME NEW w, NEW S, NEW h, Sums(w, S, h)
  PROVE  SumsOneByOne(w, S, h)
<1>1. /\ DOMAIN h = SUBSET S
      /\ \A s \in SUBSET S : h[s] = IF s = {} THEN 0 ELSE w[Pick(s)] + h[s \ {Pick(s)}]
  BY Zenon DEF Sums
<1>2. {} \in SUBSET S
  OBVIOUS
<1> QED
  BY <1>1, <1>2, PickIn DEF SumsOneByOne

\* A finite set has such a function.
SumsUpTo(w, S, n, h) ==
  /\ DOMAIN h = SUBSET S
  /\ \A s \in SUBSET S : Cardinality(s) <= n =>
       h[s] = IF s = {} THEN 0 ELSE w[Pick(s)] + h[s \ {Pick(s)}]

LEMMA SumsExist ==
  ASSUME NEW w, NEW S, IsFiniteSet(S)
  PROVE  \E h : Sums(w, S, h)
<1> DEFINE B == {n \in Nat : ~ \E h : SumsUpTo(w, S, n, h)}
<1>1. \A s \in SUBSET S : IsFiniteSet(s) /\ Cardinality(s) \in Nat /\ Cardinality(s) <= Cardinality(S)
  BY FS_Subset, FS_CardinalityType
<1>2. \A s \in SUBSET S : s # {} => /\ Pick(s) \in s /\ s \ {Pick(s)} \in SUBSET S
                                    /\ Cardinality(s \ {Pick(s)}) = Cardinality(s) - 1
  BY <1>1, PickIn, FS_RemoveElement
<1>3. \A s \in SUBSET S : Cardinality(s) = 0 <=> s = {}
  BY <1>1, FS_EmptySet
<1>4. ASSUME NEW n \in B PROVE \E m \in B : m < n
  <2>1. CASE n = 0
    <3> DEFINE h == [s \in SUBSET S |-> 0]
    <3>1. SumsUpTo(w, S, 0, h)
      BY <1>1, <1>3 DEF SumsUpTo
    <3> QED
      BY <2>1, <3>1
  <2>2. CASE n # 0
    <3>1. n - 1 \in Nat /\ n - 1 < n
      BY <2>2
    <3> SUFFICES ASSUME n - 1 \notin B PROVE FALSE
      BY <3>1
    <3>2. PICK h : SumsUpTo(w, S, n - 1, h)
      BY <3>1
    <3> DEFINE g == [s \in SUBSET S |-> IF Cardinality(s) = n THEN w[Pick(s)] + h[s \ {Pick(s)}] ELSE h[s]]
    <3>3. ASSUME NEW s \in SUBSET S, Cardinality(s) <= n
          PROVE  g[s] = IF s = {} THEN 0 ELSE w[Pick(s)] + g[s \ {Pick(s)}]
      <4>1. CASE Cardinality(s) = n
        <5>1. s # {}
          BY <1>3, <2>2, <4>1
        <5>2. g[s \ {Pick(s)}] = h[s \ {Pick(s)}]
          BY <1>2, <4>1, <5>1
        <5> QED
          BY <4>1, <5>1, <5>2
      <4>2. CASE Cardinality(s) # n
        <5>1. Cardinality(s) <= n - 1 /\ g[s] = h[s]
          BY <1>1, <3>3, <4>2
        <5>2. h[s] = IF s = {} THEN 0 ELSE w[Pick(s)] + h[s \ {Pick(s)}]
          BY <3>2, <5>1 DEF SumsUpTo
        <5>3. s # {} => g[s \ {Pick(s)}] = h[s \ {Pick(s)}]
          <6> SUFFICES ASSUME s # {} PROVE g[s \ {Pick(s)}] = h[s \ {Pick(s)}]
            OBVIOUS
          <6>1. s \ {Pick(s)} \in SUBSET S /\ Cardinality(s \ {Pick(s)}) # n
            BY <1>1, <1>2, <5>1
          <6> QED
            BY <6>1
        <5> QED
          BY <5>1, <5>2, <5>3
      <4> QED
        BY <4>1, <4>2
    <3>4. SumsUpTo(w, S, n, g)
      BY <3>3 DEF SumsUpTo
    <3> QED
      BY <3>4
  <2> QED
    BY <2>1, <2>2
<1>5. B = {}
  <2>1. B \in SUBSET Nat
    OBVIOUS
  <2> HIDE DEF B
  <2> QED
    BY <1>4, <2>1, Descent
<1>6. PICK h : SumsUpTo(w, S, Cardinality(S), h)
  BY <1>1, <1>5
<1> DEFINE k == [s \in SUBSET S |-> h[s]]
<1>7. \A s \in SUBSET S : h[s] = IF s = {} THEN 0 ELSE w[Pick(s)] + h[s \ {Pick(s)}]
  BY <1>1, <1>6 DEF SumsUpTo
<1>8. k = [s \in SUBSET S |-> IF s = {} THEN 0 ELSE LET x == Pick(s) IN w[x] + k[s \ {x}]]
  BY <1>2, <1>7
<1> QED
  BY <1>8 DEF Sums

-----------------------------------------------------------------------------
(* What sums depend on. *)

\* Sums of functions that agree on a set agree on it, whatever larger sets they
\* were taken over.
LEMMA SumsAgree ==
  ASSUME NEW w, NEW S, NEW h, Sums(w, S, h), NEW v, NEW R, NEW g, Sums(v, R, g),
         NEW T \in SUBSET (S \cap R), IsFiniteSet(T), \A x \in T : w[x] = v[x]
  PROVE  h[T] = g[T]
<1> DEFINE Bad(s) == s \in SUBSET T /\ h[s] # g[s]
           B == {n \in Nat : \E s : Bad(s) /\ Cardinality(s) = n}
<1>0. SumsOneByOne(w, S, h)
  BY SumsAt
<1>g. SumsOneByOne(v, R, g)
  BY SumsAt
<1>1. \A s \in SUBSET T : IsFiniteSet(s) /\ Cardinality(s) \in Nat /\ s \in SUBSET S /\ s \in SUBSET R
  BY FS_Subset, FS_CardinalityType
<1>2. ASSUME NEW n \in B PROVE \E m \in B : m < n
  <2>1. PICK s : Bad(s) /\ Cardinality(s) = n
    OBVIOUS
  <2>2. s # {}
    BY <1>0, <1>g, <2>1 DEF SumsOneByOne
  <2> DEFINE r == s \ {Pick(s)}
  <2>3. /\ Pick(s) \in s
        /\ h[s] = w[Pick(s)] + h[r] /\ g[s] = v[Pick(s)] + g[r]
    BY <1>0, <1>g, <1>1, <2>1, <2>2 DEF SumsOneByOne
  <2>4. h[r] # g[r]
    BY <2>1, <2>3
  <2>5. Cardinality(r) = n - 1 /\ n - 1 \in Nat
    <3>1. Cardinality(r) = n - 1
      BY <1>1, <2>1, <2>3, FS_RemoveElement
    <3> QED
      BY <1>1, <2>1, <3>1
  <2>6. Bad(r)
    BY <2>1, <2>4
  <2> QED
    BY <2>5, <2>6
<1>3. B = {}
  <2>1. B \in SUBSET Nat
    OBVIOUS
  <2> HIDE DEF B
  <2> QED
    BY <1>2, <2>1, Descent
<1> QED
  BY <1>1, <1>3

LEMMA SumsType ==
  ASSUME NEW w, NEW S, NEW h, Sums(w, S, h), IsFiniteSet(S), \A x \in S : w[x] \in Nat
  PROVE  \A T \in SUBSET S : h[T] \in Nat
<1> DEFINE Bad(s) == s \in SUBSET S /\ h[s] \notin Nat
           B == {n \in Nat : \E s : Bad(s) /\ Cardinality(s) = n}
<1>0. SumsOneByOne(w, S, h)
  BY SumsAt
<1>1. \A s \in SUBSET S : IsFiniteSet(s) /\ Cardinality(s) \in Nat
  BY FS_Subset, FS_CardinalityType
<1>2. ASSUME NEW n \in B PROVE \E m \in B : m < n
  <2>1. PICK s : Bad(s) /\ Cardinality(s) = n
    OBVIOUS
  <2>2. s # {}
    <3>1. h[{}] = 0
      BY <1>0 DEF SumsOneByOne
    <3> QED
      BY <2>1, <3>1
  <2> DEFINE r == s \ {Pick(s)}
  <2>3. Pick(s) \in s /\ h[s] = w[Pick(s)] + h[r]
    BY <1>0, <2>1, <2>2 DEF SumsOneByOne
  <2>4. w[Pick(s)] \in Nat
    BY <2>1, <2>3
  <2>5. h[r] \notin Nat
    BY <2>1, <2>3, <2>4
  <2>6. Cardinality(r) = n - 1 /\ n - 1 \in Nat
    <3>1. Cardinality(r) = n - 1
      BY <1>1, <2>1, <2>3, FS_RemoveElement
    <3> QED
      BY <1>1, <2>1, <3>1
  <2>7. Bad(r)
    BY <2>1, <2>5
  <2> QED
    BY <2>6, <2>7
<1>3. B = {}
  <2>1. B \in SUBSET Nat
    OBVIOUS
  <2> HIDE DEF B
  <2> QED
    BY <1>2, <2>1, Descent
<1> QED
  BY <1>1, <1>3

\* The order does not matter: any element may be taken first.
SumsInAnyOrder(w, S, h) == \A T \in SUBSET S : \A x \in T : h[T] = w[x] + h[T \ {x}]

LEMMA SumsTake ==
  ASSUME NEW w, NEW S, NEW h, Sums(w, S, h), IsFiniteSet(S), \A x \in S : w[x] \in Nat
  PROVE  SumsInAnyOrder(w, S, h)
<1> SUFFICES \A T \in SUBSET S : \A x \in T : h[T] = w[x] + h[T \ {x}]
  BY DEF SumsInAnyOrder
<1> DEFINE Bad(s) == s \in SUBSET S /\ \E x \in s : h[s] # w[x] + h[s \ {x}]
           B == {n \in Nat : \E s : Bad(s) /\ Cardinality(s) = n}
<1>0. SumsOneByOne(w, S, h)
  BY SumsAt
<1>1. \A s \in SUBSET S : IsFiniteSet(s) /\ Cardinality(s) \in Nat
  BY FS_Subset, FS_CardinalityType
<1>2. ASSUME NEW n \in B PROVE \E m \in B : m < n
  <2>1. PICK s : Bad(s) /\ Cardinality(s) = n
    OBVIOUS
  <2>2. PICK x \in s : h[s] # w[x] + h[s \ {x}]
    BY <2>1
  <2> DEFINE c == Pick(s)
             r == s \ {c}
             q == s \ {x}
             rest == s \ {c, x}
  <2>3. s \in SUBSET S /\ s # {} /\ c \in s /\ h[s] = w[c] + h[r]
    BY <1>0, <2>1, <2>2 DEF SumsOneByOne
  <2>4. c # x
    BY <2>2, <2>3
  <2> HIDE DEF c
  <2>5. /\ x \in r /\ c \in q /\ r \ {x} = rest /\ q \ {c} = rest
        /\ r \in SUBSET S /\ q \in SUBSET S /\ rest \in SUBSET S
    BY <2>2, <2>3, <2>4
  <2>6. /\ Cardinality(r) = n - 1 /\ Cardinality(q) = n - 1 /\ n - 1 \in Nat
    <3>1. Cardinality(r) = n - 1 /\ Cardinality(q) = n - 1
      BY <1>1, <2>1, <2>2, <2>3, FS_RemoveElement
    <3> QED
      BY <1>1, <2>5, <3>1
  <2> SUFFICES ASSUME n - 1 \notin B PROVE FALSE
    BY <2>6
  <2>7. ~Bad(r) /\ ~Bad(q)
    BY <2>6
  <2> HIDE DEF r, q, rest, B
  <2>8. h[r] = w[x] + h[rest]
    BY <2>5, <2>7
  <2>9. h[q] = w[c] + h[rest]
    BY <2>5, <2>7
  <2>10. w[x] \in Nat /\ w[c] \in Nat /\ h[rest] \in Nat
    BY <2>2, <2>3, <2>5, SumsType
  <2>11. h[s] = w[x] + h[q]
    BY <2>3, <2>8, <2>9, <2>10
  <2> QED
    BY <2>2, <2>11 DEF q
<1>3. B = {}
  <2>1. B \in SUBSET Nat
    OBVIOUS
  <2> HIDE DEF B
  <2> QED
    BY <1>2, <2>1, Descent
<1> QED
  BY <1>1, <1>3

\* A sum splits into those of a part and of the rest.
LEMMA SumsSplit ==
  ASSUME NEW w, NEW S, NEW h, Sums(w, S, h), IsFiniteSet(S), \A x \in S : w[x] \in Nat,
         NEW P \in SUBSET S
  PROVE  h[S] = h[P] + h[S \ P]
<1> DEFINE Bad(s) == s \in SUBSET S /\ h[S] # h[s] + h[S \ s]
           B == {n \in Nat : \E s : Bad(s) /\ Cardinality(s) = n}
<1>0. SumsOneByOne(w, S, h) /\ SumsInAnyOrder(w, S, h)
  BY SumsAt, SumsTake
<1>1. \A s \in SUBSET S : IsFiniteSet(s) /\ Cardinality(s) \in Nat
  BY FS_Subset, FS_CardinalityType
<1>2. \A s \in SUBSET S : h[s] \in Nat
  BY SumsType
<1>3. ASSUME NEW n \in B PROVE \E m \in B : m < n
  <2>1. PICK s : Bad(s) /\ Cardinality(s) = n
    OBVIOUS
  <2>2. s # {}
    <3> SUFFICES ASSUME s = {} PROVE FALSE
      OBVIOUS
    <3>1. h[s] = 0 /\ h[S] \in Nat
      BY <1>0, <1>2 DEF SumsOneByOne
    <3>2. S \ s = S
      OBVIOUS
    <3>3. h[S] # h[s] + h[S \ s]
      BY <2>1
    <3> QED
      BY <3>1, <3>2, <3>3
  <2>3. PICK x \in s : TRUE
    BY <2>2
  <2> DEFINE r == s \ {x}
             rest == S \ s
             more == S \ r
  <2>4. /\ x \in more /\ more \ {x} = rest
        /\ s \in SUBSET S /\ r \in SUBSET S /\ rest \in SUBSET S /\ more \in SUBSET S
    BY <2>1, <2>3
  <2> HIDE DEF rest, more
  <2>5. h[s] = w[x] + h[r] /\ h[more] = w[x] + h[rest]
    BY <1>0, <2>3, <2>4 DEF SumsInAnyOrder
  <2>6. /\ w[x] \in Nat /\ h[S] \in Nat /\ h[s] \in Nat /\ h[r] \in Nat
        /\ h[rest] \in Nat /\ h[more] \in Nat
    BY <1>2, <2>3, <2>4
  <2>7. h[s] + h[rest] = h[r] + h[more]
    BY <2>5, <2>6
  <2>8. Bad(r)
    BY <2>1, <2>4, <2>7 DEF rest, more
  <2>9. Cardinality(r) = n - 1 /\ n - 1 \in Nat
    <3>1. Cardinality(r) = n - 1
      BY <1>1, <2>1, <2>3, <2>4, FS_RemoveElement
    <3> QED
      BY <1>1, <2>4, <3>1
  <2> HIDE DEF r, Bad
  <2>10. n - 1 \in B
    BY <2>8, <2>9
  <2> QED
    BY <2>9, <2>10
<1>4. B = {}
  <2>1. B \in SUBSET Nat
    OBVIOUS
  <2> HIDE DEF B
  <2> QED
    BY <1>3, <2>1, Descent
<1>5. ~Bad(P)
  BY <1>1, <1>4
<1> QED
  BY <1>5

\* Nothing sums up to nothing.
LEMMA SumsZero ==
  ASSUME NEW w, NEW S, NEW h, Sums(w, S, h), NEW T \in SUBSET S, IsFiniteSet(T), \A x \in T : w[x] = 0
  PROVE  h[T] = 0
<1> DEFINE z == [x \in T |-> 0]
           g == [s \in SUBSET T |-> 0]
<1>1. Sums(z, T, g)
  <2>1. \A s \in SUBSET T : s # {} => z[Pick(s)] = 0 /\ g[s \ {Pick(s)}] = 0
    BY PickIn
  <2>2. \A s \in SUBSET T : (IF s = {} THEN 0 ELSE LET x == Pick(s) IN z[x] + g[s \ {x}]) = 0
    BY <2>1
  <2>3. g = [s \in SUBSET T |-> IF s = {} THEN 0 ELSE LET x == Pick(s) IN z[x] + g[s \ {x}]]
    BY <2>2
  <2> QED
    BY <2>3 DEF Sums
<1>2. \A x \in T : w[x] = z[x]
  OBVIOUS
<1>3. T \in SUBSET (S \cap T) /\ g[T] = 0
  OBVIOUS
<1> HIDE DEF z, g
<1> QED
  BY <1>1, <1>2, <1>3, SumsAgree

-----------------------------------------------------------------------------
(* MapThenSumSet of a function over its domain. *)

SumOf(w) == MapThenSumSet(LAMBDA x : w[x], DOMAIN w)

LEMMA SumOfSums ==
  ASSUME NEW w, IsFiniteSet(DOMAIN w)
  PROVE  \E h : Sums(w, DOMAIN w, h) /\ SumOf(w) = h[DOMAIN w]
<1> DEFINE h == CHOOSE h : Sums(w, DOMAIN w, h)
<1>1. Sums(w, DOMAIN w, h)
  BY SumsExist
<1>2. SumOf(w) = h[DOMAIN w]
  BY DEF SumOf, MapThenSumSet, MapThenFoldSet, Sums, Pick
<1> QED
  BY <1>1, <1>2

\* Changing a function at one place, or adding the place, changes its sum by the
\* difference there.
LEMMA SumChanges ==
  ASSUME NEW w, IsFiniteSet(DOMAIN w), \A y \in DOMAIN w : w[y] \in Nat,
         NEW v, NEW x, DOMAIN v = DOMAIN w \cup {x}, v[x] \in Nat,
         \A y \in DOMAIN w \ {x} : v[y] = w[y]
  PROVE  /\ SumOf(w) \in Nat /\ SumOf(v) \in Nat
         /\ x \in DOMAIN w => SumOf(v) = SumOf(w) + (v[x] - w[x])
         /\ x \notin DOMAIN w => SumOf(v) = SumOf(w) + v[x]
<1> DEFINE S == DOMAIN w
           R == DOMAIN v
           T == S \ {x}
<1>1. IsFiniteSet(R) /\ IsFiniteSet(T) /\ T = R \ {x} /\ x \in R
  BY FS_AddElement, FS_RemoveElement
<1>2. \A y \in R : v[y] \in Nat
  OBVIOUS
<1>3. PICK h : Sums(w, S, h) /\ SumOf(w) = h[S]
  BY SumOfSums
<1>4. PICK g : Sums(v, R, g) /\ SumOf(v) = g[R]
  BY <1>1, SumOfSums
<1> HIDE DEF R
<1>5. h[T] = g[T]
  <2>1. T \in SUBSET (S \cap R) /\ \A y \in T : w[y] = v[y]
    BY <1>1
  <2> HIDE DEF S, T
  <2> QED
    BY <1>1, <1>3, <1>4, <2>1, SumsAgree
<1>6. g[R] = v[x] + g[T] /\ g[T] \in Nat
  <2> HIDE DEF T
  <2>1. \A U \in SUBSET R : g[U] \in Nat
    BY <1>1, <1>2, <1>4, SumsType
  <2>2. \A U \in SUBSET R : \A y \in U : g[U] = v[y] + g[U \ {y}]
    <3>1. SumsInAnyOrder(v, R, g)
      BY <1>1, <1>2, <1>4, SumsTake
    <3> QED
      BY <3>1 DEF SumsInAnyOrder
  <2> QED
    BY <1>1, <2>1, <2>2
<1>7. x \in S => h[S] = w[x] + h[T]
  <2>1. \A U \in SUBSET S : \A y \in U : h[U] = w[y] + h[U \ {y}]
    <3>1. SumsInAnyOrder(w, S, h)
      BY <1>3, SumsTake
    <3> QED
      BY <3>1 DEF SumsInAnyOrder
  <2> QED
    BY <2>1
<1>8. x \notin S => T = S
  OBVIOUS
<1> HIDE DEF T
<1>9. x \in S => w[x] \in Nat
  OBVIOUS
<1> HIDE DEF S
<1> QED
  BY <1>3, <1>4, <1>5, <1>6, <1>7, <1>8, <1>9 DEF S

\* The sum of no numbers.
LEMMA SumOfEmpty == ASSUME NEW w, DOMAIN w = {} PROVE SumOf(w) = 0
<1>1. IsFiniteSet(DOMAIN w)
  BY FS_EmptySet
<1>2. PICK h : Sums(w, DOMAIN w, h) /\ SumOf(w) = h[DOMAIN w]
  BY <1>1, SumOfSums
<1> QED
  BY <1>2, SumsAt DEF SumsOneByOne
\* Giving one of them what some members of a set have together, and the others nothing,
\* changes no sum.
LEMMA SumMerges ==
  ASSUME NEW w, NEW v, NEW O, NEW c \in O, NEW q,
         IsFiniteSet(DOMAIN w), DOMAIN v = DOMAIN w, O \subseteq DOMAIN w, DOMAIN q \subseteq O,
         \A x \in DOMAIN w : w[x] \in Nat /\ v[x] \in Nat,
         \A x \in DOMAIN w \ O : v[x] = w[x],
         \A x \in O \ {c} : v[x] = 0,
         \A x \in DOMAIN q : q[x] = w[x],
         \A x \in O \ DOMAIN q : w[x] = 0,
         v[c] = SumOf(q)
  PROVE  SumOf(v) = SumOf(w)
<1> DEFINE S == DOMAIN w
           P == DOMAIN q
           Rest == S \ O
           Gone == O \ P
           Others == O \ {c}
<1>1. /\ IsFiniteSet(O) /\ IsFiniteSet(P) /\ IsFiniteSet(Rest)
      /\ IsFiniteSet(Gone) /\ IsFiniteSet(Others)
  BY FS_Subset
<1>2. PICK h : Sums(w, S, h) /\ SumOf(w) = h[S]
  BY SumOfSums
<1>3. PICK g : Sums(v, S, g) /\ SumOf(v) = g[S]
  BY SumOfSums
<1>4. PICK k : Sums(q, P, k) /\ SumOf(q) = k[P]
  BY <1>1, SumOfSums
<1>5. /\ O \in SUBSET S /\ P \in SUBSET S /\ Rest \in SUBSET S /\ Gone \in SUBSET S
      /\ Others \in SUBSET S /\ S \ P = Rest \cup Gone
  OBVIOUS
<1>6. k[P] = h[P]
  <2>1. P \in SUBSET (P \cap S)
    OBVIOUS
  <2> HIDE DEF S, P
  <2> QED
    BY <1>1, <1>2, <1>4, <2>1, SumsAgree DEF P
<1>7. h[Rest] = g[Rest]
  <2>1. Rest \in SUBSET (S \cap S) /\ \A x \in Rest : w[x] = v[x]
    OBVIOUS
  <2> HIDE DEF S, Rest
  <2> QED
    BY <1>1, <1>2, <1>3, <2>1, SumsAgree
<1>8. /\ \A T \in SUBSET S : h[T] \in Nat
      /\ \A T \in SUBSET S : g[T] \in Nat
  BY <1>2, <1>3, SumsType
<1>9. h[S] = h[P] + h[Rest]
  <2> DEFINE NotP == S \ P
  <2>1. h[S] = h[P] + h[NotP]
    BY <1>2, SumsSplit
  <2>2. h[NotP] = h[Rest]
    \* The sum over what P leaves of S: the rest of O counts for nothing.
    <3> DEFINE u == [x \in NotP |-> w[x]]
    <3>1. IsFiniteSet(NotP) /\ NotP \in SUBSET S
      BY FS_Subset
    <3>2. PICK f : Sums(u, NotP, f)
      BY <3>1, SumsExist
    <3>3. NotP \in SUBSET (NotP \cap S) /\ Rest \in SUBSET (NotP \cap S) /\ NotP \ Rest = Gone
          /\ Gone \in SUBSET NotP
      OBVIOUS
    <3>4. \A x \in NotP : u[x] = w[x] /\ u[x] \in Nat
      OBVIOUS
    <3>5. \A x \in Gone : u[x] = 0
      OBVIOUS
    <3> HIDE DEF S, P, Rest, Gone, NotP, u
    <3>6. f[NotP] = h[NotP]
      BY <1>2, <3>1, <3>2, <3>3, <3>4, SumsAgree
    <3>7. f[Rest] = h[Rest]
      BY <1>1, <1>2, <3>2, <3>3, <3>4, SumsAgree
    <3>8. f[NotP] = f[Rest] + f[NotP \ Rest]
      BY <3>1, <3>2, <3>3, <3>4, SumsSplit
    <3>9. f[Gone] = 0
      BY <1>1, <3>2, <3>3, <3>5, SumsZero
    <3>10. f[NotP] = f[Rest] + 0
      BY <3>3, <3>8, <3>9
    <3>11. h[Rest] \in Nat
      BY <1>5, <1>8
    <3> QED
      BY <3>6, <3>7, <3>10, <3>11
  <2> QED
    BY <2>1, <2>2
<1>10. g[S] = v[c] + g[Rest]
  <2>1. g[S] = g[O] + g[Rest]
    BY <1>3, SumsSplit
  <2>2. g[O] = v[c] + g[Others]
    <3>1. SumsInAnyOrder(v, S, g)
      BY <1>3, SumsTake
    <3> QED
      BY <1>5, <3>1 DEF SumsInAnyOrder
  <2>3. g[Others] = 0
    <3>1. \A x \in Others : v[x] = 0
      OBVIOUS
    <3> HIDE DEF S, Others
    <3> QED
      BY <1>1, <1>3, <1>5, <3>1, SumsZero
  <2>4. v[c] \in Nat
    OBVIOUS
  <2> QED
    BY <1>5, <1>8, <2>1, <2>2, <2>3, <2>4
<1> QED
  BY <1>2, <1>3, <1>4, <1>6, <1>7, <1>9, <1>10
=============================================================================
