--------------------------- MODULE BoardViewProofs ---------------------------
(***************************************************************************)
(* Theorems about the board on the screen, for any groups, fingers,        *)
(* mounts and faults: what the page shows is one scene, as the store has   *)
(* it, and fingers, gesture and drag agree.                                *)
(***************************************************************************)
EXTENDS BoardViewProps, SumLemmas, SequenceTheorems

Node == [locked : BOOLEAN, same : BOOLEAN]
NodeMap == UNION {[D -> Node] : D \in SUBSET Groups}

\* A scene that may be shown: every container has its node, none is there twice,
\* and placed groups lie beneath loose ones.
Apart(l) == \A i, j \in 1..Len(l) : l[i] = l[j] => i = j
Known(n, l) == \A i \in 1..Len(l) : l[i] \in DOMAIN n
Beneath(n, l) == \A i, j \in 1..Len(l) : i <= j /\ n[l[j]].locked => n[l[i]].locked
Sound(n, l) == n \in NodeMap /\ l \in Seq(Groups) /\ Apart(l) /\ Known(n, l) /\ Beneath(n, l)

\* Every node's container is on the layer.
On(l, id) == \E i \in 1..Len(l) : l[i] = id
Full(n, l) == \A id \in DOMAIN n : On(l, id)

Scene(n, l) == [nodes |-> n, layer |-> l]

-----------------------------------------------------------------------------
(* The layer. *)

LEMMA RemoveOne ==
  ASSUME NEW l \in Seq(Groups), NEW p \in 1..Len(l)
  PROVE  /\ RemoveAt(l, p) \in Seq(Groups) /\ Len(RemoveAt(l, p)) = Len(l) - 1
         /\ \A i \in 1..(Len(l) - 1) : RemoveAt(l, p)[i] = IF i < p THEN l[i] ELSE l[i + 1]
<1>1. Len(l) \in Nat
  BY LenProperties
<1> DEFINE a == SubSeq(l, 1, p - 1)
           b == SubSeq(l, p + 1, Len(l))
<1>2. /\ a \in Seq(Groups) /\ Len(a) = p - 1
      /\ \A i \in 1..(p - 1) : a[i] = l[i]
  BY <1>1, SubSeqProperties
<1>3. /\ b \in Seq(Groups) /\ Len(b) = Len(l) - p
      /\ \A i \in 1..(Len(l) - p) : b[i] = l[p + i]
  BY <1>1, SubSeqProperties
<1> HIDE DEF a, b
<1>4. /\ a \o b \in Seq(Groups) /\ Len(a \o b) = Len(l) - 1
      /\ \A i \in 1..(Len(l) - 1) : (a \o b)[i] = IF i < p THEN l[i] ELSE l[i + 1]
  <2>1. /\ a \o b \in Seq(Groups) /\ Len(a \o b) = Len(a) + Len(b)
        /\ \A i \in 1..(Len(a) + Len(b)) : (a \o b)[i] = IF i <= Len(a) THEN a[i] ELSE b[i - Len(a)]
    BY <1>2, <1>3, ConcatProperties
  <2>2. ASSUME NEW i \in 1..(Len(l) - 1) PROVE (a \o b)[i] = IF i < p THEN l[i] ELSE l[i + 1]
    <3>1. CASE i < p
      BY <1>1, <1>2, <1>3, <2>1, <3>1
    <3>2. CASE ~(i < p)
      <4>1. (a \o b)[i] = b[i - (p - 1)]
        BY <1>1, <1>2, <1>3, <2>1, <3>2
      <4>2. i - (p - 1) \in 1..(Len(l) - p) /\ p + (i - (p - 1)) = i + 1
        BY <1>1, <3>2
      <4> QED
        BY <1>3, <3>2, <4>1, <4>2
    <3> QED
      BY <3>1, <3>2
  <2> QED
    BY <1>1, <1>2, <1>3, <2>1, <2>2
<1> QED
  BY <1>4 DEF RemoveAt, a, b

\* m is l without id.
Without(m, l, id) ==
  /\ ~On(m, id) /\ \A j \in Groups : j # id => (On(m, j) <=> On(l, j))

LEMMA Taken ==
  ASSUME NEW n, NEW l, Sound(n, l), NEW id
  PROVE  \E m : /\ Detached(Scene(n, l), id) = Scene(n, m)
                /\ Sound(n, m) /\ Without(m, l, id)
<1>1. l \in Seq(Groups) /\ Apart(l) /\ Known(n, l) /\ Beneath(n, l) /\ n \in NodeMap
  BY DEF Sound
<1>2. Len(l) \in Nat /\ DOMAIN l = 1..Len(l) /\ \A i \in 1..Len(l) : l[i] \in Groups
  BY <1>1, LenProperties, ElementOfSeq
<1>3. CASE id \notin Range(l)
  <2>1. Detached(Scene(n, l), id) = Scene(n, l)
    BY <1>3 DEF Detached, Scene
  <2>2. Without(l, l, id)
    BY <1>2, <1>3 DEF Without, On, Range
  <2> QED
    BY <2>1, <2>2
<1>4. CASE id \in Range(l)
  <2> DEFINE p == CHOOSE i \in DOMAIN l : l[i] = id
             m == RemoveAt(l, p)
  <2>1. p \in 1..Len(l) /\ l[p] = id
    BY <1>2, <1>4 DEF Range
  <2>2. Detached(Scene(n, l), id) = Scene(n, m)
    BY <1>4 DEF Detached, Scene
  <2> HIDE DEF p
  <2>3. /\ m \in Seq(Groups) /\ Len(m) = Len(l) - 1
        /\ \A i \in 1..(Len(l) - 1) : m[i] = IF i < p THEN l[i] ELSE l[i + 1]
    BY <1>1, <2>1, RemoveOne
  <2> HIDE DEF m
  <2> DEFINE up(i) == IF i < p THEN i ELSE i + 1
  <2>4. \A i \in 1..Len(m) : up(i) \in 1..Len(l) /\ m[i] = l[up(i)] /\ up(i) # p
    BY <1>2, <2>1, <2>3
  <2>5. \A i, j \in 1..Len(m) : (up(i) = up(j) => i = j) /\ (i <= j => up(i) <= up(j))
    BY <1>2, <2>1, <2>3
  <2>6. \A k \in 1..Len(l) : k # p => \E i \in 1..Len(m) : up(i) = k
    <3> SUFFICES ASSUME NEW k \in 1..Len(l), k # p PROVE \E i \in 1..Len(m) : up(i) = k
      OBVIOUS
    <3>1. CASE k < p
      <4>1. k \in 1..Len(m) /\ up(k) = k
        BY <1>2, <2>1, <2>3, <3>1
      <4> QED
        BY <4>1
    <3>2. CASE ~(k < p)
      <4>1. k - 1 \in 1..Len(m) /\ up(k - 1) = k
        BY <1>2, <2>1, <2>3, <3>2
      <4> QED
        BY <4>1
    <3> QED
      BY <3>1, <3>2
  <2> HIDE DEF up
  <2>7. Apart(m)
    BY <1>1, <2>4, <2>5 DEF Apart
  <2>8. Known(n, m)
    BY <1>1, <2>4 DEF Known
  <2>9. Beneath(n, m)
    BY <1>1, <2>4, <2>5 DEF Beneath
  <2>10. ~On(m, id)
    BY <1>1, <2>1, <2>4 DEF On, Apart
  <2>11. \A j \in Groups : j # id => (On(m, j) <=> On(l, j))
    <3> SUFFICES ASSUME NEW j \in Groups, j # id PROVE On(m, j) <=> On(l, j)
      OBVIOUS
    <3>1. On(m, j) => On(l, j)
      BY <2>4 DEF On
    <3>2. On(l, j) => On(m, j)
      BY <2>1, <2>4, <2>6 DEF On
    <3> QED
      BY <3>1, <3>2
  <2> QED
    BY <1>1, <2>2, <2>3, <2>7, <2>8, <2>9, <2>10, <2>11 DEF Sound, Without
<1> QED
  BY <1>3, <1>4

\* A group's container on top: only if it is loose, or everything is placed.
LEMMA OnTop ==
  ASSUME NEW n, NEW l, Sound(n, l), NEW id \in DOMAIN n, ~On(l, id), ~n[id].locked
  PROVE  /\ Sound(n, Append(l, id))
         /\ \A j : On(Append(l, id), j) <=> (j = id \/ On(l, j))
<1>1. l \in Seq(Groups) /\ Apart(l) /\ Known(n, l) /\ Beneath(n, l) /\ n \in NodeMap /\ id \in Groups
  BY DEF Sound, NodeMap
<1>2. Len(l) \in Nat /\ \A i \in 1..Len(l) : l[i] \in Groups
  BY <1>1, LenProperties, ElementOfSeq
<1> DEFINE m == Append(l, id)
<1>3. /\ m \in Seq(Groups) /\ Len(m) = Len(l) + 1 /\ m[Len(l) + 1] = id
      /\ \A i \in 1..Len(l) : m[i] = l[i]
  BY <1>1, AppendProperties
<1> HIDE DEF m
<1>4. \A i \in 1..Len(m) : i = Len(l) + 1 \/ i \in 1..Len(l)
  BY <1>2, <1>3
<1>5. \A i \in 1..Len(l) : l[i] # id
  BY DEF On
<1>6. Apart(m)
  BY <1>1, <1>3, <1>4, <1>5 DEF Apart
<1>7. Known(n, m)
  BY <1>1, <1>3, <1>4 DEF Known
<1>8. Beneath(n, m)
  <2> SUFFICES ASSUME NEW i \in 1..Len(m), NEW j \in 1..Len(m), i <= j, n[m[j]].locked
               PROVE  n[m[i]].locked
    BY DEF Beneath
  <2>1. j \in 1..Len(l)
    BY <1>3, <1>4
  <2>2. i \in 1..Len(l)
    BY <1>2, <2>1
  <2> QED
    BY <1>1, <1>3, <2>1, <2>2 DEF Beneath
<1>9. \A j : On(m, j) <=> (j = id \/ On(l, j))
  <2>1. Len(l) + 1 \in 1..Len(m) /\ \A i \in 1..Len(l) : i \in 1..Len(m)
    BY <1>2, <1>3
  <2> QED
    BY <1>3, <1>4, <2>1 DEF On
<1> QED
  BY <1>1, <1>3, <1>6, <1>7, <1>8, <1>9 DEF Sound, m

LEMMA AtBottom ==
  ASSUME NEW n, NEW l, Sound(n, l), NEW id \in DOMAIN n, ~On(l, id), n[id].locked
  PROVE  /\ Sound(n, <<id>> \o l)
         /\ \A j : On(<<id>> \o l, j) <=> (j = id \/ On(l, j))
<1>1. l \in Seq(Groups) /\ Apart(l) /\ Known(n, l) /\ Beneath(n, l) /\ n \in NodeMap /\ id \in Groups
  BY DEF Sound, NodeMap
<1>2. Len(l) \in Nat /\ \A i \in 1..Len(l) : l[i] \in Groups
  BY <1>1, LenProperties, ElementOfSeq
<1> DEFINE o == <<id>>
           m == o \o l
<1>3. o \in Seq(Groups) /\ Len(o) = 1 /\ o[1] = id
  BY <1>1
<1> HIDE DEF o
<1>4. /\ m \in Seq(Groups) /\ Len(m) = Len(l) + 1 /\ m[1] = id
      /\ \A i \in 2..Len(m) : m[i] = l[i - 1]
  <2>1. /\ m \in Seq(Groups) /\ Len(m) = Len(o) + Len(l)
        /\ \A i \in 1..(Len(o) + Len(l)) : m[i] = IF i <= Len(o) THEN o[i] ELSE l[i - Len(o)]
    <3>1. o \in Seq(Groups)
      BY <1>3
    <3> QED
      BY <1>1, <3>1, ConcatProperties
  <2> QED
    BY <1>2, <1>3, <2>1
<1> HIDE DEF m
<1>5. \A i \in 1..Len(m) : i = 1 \/ (i \in 2..Len(m) /\ i - 1 \in 1..Len(l))
  BY <1>2, <1>4
<1>6. \A i \in 1..Len(l) : l[i] # id
  BY DEF On
<1>7. Apart(m)
  <2> SUFFICES ASSUME NEW i \in 1..Len(m), NEW j \in 1..Len(m), m[i] = m[j] PROVE i = j
    BY DEF Apart
  <2>1. CASE i = 1 \/ j = 1
    BY <1>4, <1>5, <1>6, <2>1
  <2>2. CASE i # 1 /\ j # 1
    <3>1. i - 1 = j - 1
      BY <1>1, <1>4, <1>5, <2>2 DEF Apart
    <3> QED
      BY <3>1
  <2> QED
    BY <2>1, <2>2
<1>8. Known(n, m)
  BY <1>1, <1>4, <1>5 DEF Known
<1>9. Beneath(n, m)
  <2> SUFFICES ASSUME NEW i \in 1..Len(m), NEW j \in 1..Len(m), i <= j, n[m[j]].locked
               PROVE  n[m[i]].locked
    BY DEF Beneath
  <2>1. CASE i = 1
    BY <1>4, <2>1
  <2>2. CASE i # 1
    <3>1. /\ i - 1 \in 1..Len(l) /\ j - 1 \in 1..Len(l) /\ i - 1 <= j - 1
          /\ m[i] = l[i - 1] /\ m[j] = l[j - 1]
      BY <1>2, <1>4, <1>5, <2>2
    <3> QED
      BY <1>1, <3>1 DEF Beneath
  <2> QED
    BY <2>1, <2>2
<1>10. \A j : On(m, j) <=> (j = id \/ On(l, j))
  <2>1. 1 \in 1..Len(m)
    BY <1>2, <1>4
  <2>2. \A i \in 1..Len(l) : i + 1 \in 1..Len(m) /\ m[i + 1] = l[i]
    BY <1>2, <1>4
  <2> SUFFICES ASSUME NEW j PROVE On(m, j) <=> (j = id \/ On(l, j))
    OBVIOUS
  <2>3. On(m, j) => j = id \/ On(l, j)
    <3> SUFFICES ASSUME NEW i \in 1..Len(m), m[i] = j PROVE j = id \/ On(l, j)
      BY DEF On
    <3> QED
      BY <1>4, <1>5 DEF On
  <2>4. On(l, j) => On(m, j)
    BY <2>2 DEF On
  <2>5. On(m, id)
    BY <1>4, <2>1 DEF On
  <2> QED
    BY <2>3, <2>4, <2>5
<1> QED
  BY <1>1, <1>4, <1>7, <1>8, <1>9, <1>10 DEF Sound, m, o

-----------------------------------------------------------------------------
(* Turns of the reconciliation. *)

IsStore(st) == DOMAIN st \subseteq Groups /\ \A id \in DOMAIN st : st[id].locked \in BOOLEAN
Drawn(st, id) == [locked |-> st[id].locked, same |-> TRUE]

\* n2 is n after turns for the ids of S.
Shown(st, S, n, n2) ==
  /\ DOMAIN n2 = (DOMAIN n \ S) \cup (S \cap DOMAIN st)
  /\ \A j \in DOMAIN n2 : n2[j] = IF j \in S THEN Drawn(st, j) ELSE n[j]

LEMMA IsNodeMap ==
  ASSUME NEW D \in SUBSET Groups, NEW n, n = [id \in D |-> n[id]], \A id \in D : n[id] \in Node
  PROVE  n \in NodeMap
<1>1. n \in [D -> Node]
  OBVIOUS
<1> QED
  BY <1>1 DEF NodeMap

LEMMA NodeMapParts ==
  ASSUME NEW n \in NodeMap
  PROVE  /\ DOMAIN n \in SUBSET Groups /\ n = [id \in DOMAIN n |-> n[id]]
         /\ \A id \in DOMAIN n : n[id] \in Node
<1>1. PICK D \in SUBSET Groups : n \in [D -> Node]
  BY DEF NodeMap
<1> QED
  BY <1>1

\* Other nodes under the same containers.
LEMMA SameLocks ==
  ASSUME NEW n, NEW l, Sound(n, l), NEW n2 \in NodeMap,
         \A i \in 1..Len(l) : l[i] \in DOMAIN n2 /\ n2[l[i]].locked = n[l[i]].locked
  PROVE  Sound(n2, l)
<1>1. Known(n2, l)
  BY DEF Known
<1>2. Beneath(n2, l)
  BY DEF Sound, Beneath
<1> QED
  BY <1>1, <1>2 DEF Sound

DownAs(r, id, n, l, n2, m) ==
  /\ r = Scene(n2, m) /\ Sound(n2, m) /\ (Full(n, l) => Full(n2, m))
  /\ DOMAIN n2 = DOMAIN n \ {id} /\ \A j \in DOMAIN n2 : n2[j] = n[j]

LEMMA TakenDown ==
  ASSUME NEW n, NEW l, Sound(n, l), NEW id \in DOMAIN n
  PROVE  \E n2, m : DownAs(Destroyed(Scene(n, l), id), id, n, l, n2, m)
<1>1. PICK m : Detached(Scene(n, l), id) = Scene(n, m) /\ Sound(n, m) /\ Without(m, l, id)
  BY Taken
<1> DEFINE n2 == Restrict(n, DOMAIN n \ {id})
<1>2. Destroyed(Scene(n, l), id) = Scene(n2, m)
  BY <1>1 DEF Destroyed, Scene
<1>3. /\ n2 = [j \in DOMAIN n \ {id} |-> n[j]]
      /\ DOMAIN n2 = DOMAIN n \ {id} /\ \A j \in DOMAIN n2 : n2[j] = n[j]
  BY DEF Restrict
<1> HIDE DEF n2
<1>4. n2 \in NodeMap
  <2>1. /\ DOMAIN n \in SUBSET Groups
        /\ \A j \in DOMAIN n : n[j] \in Node
    BY <1>1, NodeMapParts DEF Sound
  <2>2. n2 = [j \in DOMAIN n2 |-> n2[j]]
    BY <1>3
  <2> QED
    BY <1>3, <2>1, <2>2, IsNodeMap
<1>5. \A i \in 1..Len(m) : m[i] \in DOMAIN n2
  BY <1>1, <1>3 DEF Sound, Known, Without, On
<1>6. Sound(n2, m)
  BY <1>1, <1>3, <1>4, <1>5, SameLocks
<1>7. Full(n, l) => Full(n2, m)
  <2>1. DOMAIN n \in SUBSET Groups
    BY NodeMapParts DEF Sound
  <2> QED
    BY <1>1, <1>3, <2>1 DEF Full, Without
<1> QED
  BY <1>2, <1>3, <1>6, <1>7 DEF DownAs

BuiltAs(r, st, id, n, l, n2, m) ==
  /\ r = Scene(n2, m) /\ Sound(n2, m) /\ (Full(n, l) => Full(n2, m))
  /\ DOMAIN n2 = DOMAIN n \cup {id}
  /\ \A j \in DOMAIN n2 : n2[j] = IF j = id THEN Drawn(st, id) ELSE n[j]

LEMMA Built ==
  ASSUME NEW n, NEW l, Sound(n, l), NEW st, IsStore(st), NEW id \in DOMAIN st \ DOMAIN n
  PROVE  \E n2, m : BuiltAs(BuildNode(Scene(n, l), st, id), st, id, n, l, n2, m)
<1> DEFINE n2 == [j \in DOMAIN n \cup {id} |-> IF j = id THEN Drawn(st, id) ELSE n[j]]
           m == Placed(Scene(n, l), id, st[id].locked)
<1>1. BuildNode(Scene(n, l), st, id) = Scene(n2, m)
  BY DEF BuildNode, Scene, Drawn
<1>2. /\ n2 = [j \in DOMAIN n \cup {id} |-> IF j = id THEN Drawn(st, id) ELSE n[j]]
      /\ DOMAIN n2 = DOMAIN n \cup {id}
      /\ \A j \in DOMAIN n2 : n2[j] = IF j = id THEN Drawn(st, id) ELSE n[j]
  OBVIOUS
<1> HIDE DEF n2
<1>3. /\ DOMAIN n \in SUBSET Groups /\ \A j \in DOMAIN n : n[j] \in Node
      /\ id \in Groups /\ st[id].locked \in BOOLEAN
  BY NodeMapParts DEF Sound, IsStore
<1>4. n2 \in NodeMap
  <2>1. n2 = [j \in DOMAIN n2 |-> n2[j]]
    BY <1>2
  <2>2. \A j \in DOMAIN n2 : n2[j] \in Node
    BY <1>2, <1>3 DEF Drawn, Node
  <2> QED
    BY <1>2, <1>3, <2>1, <2>2, IsNodeMap
<1>5. ~On(l, id)
  BY DEF Sound, Known, On
<1>6. Sound(n2, l)
  <2>1. \A i \in 1..Len(l) : l[i] \in DOMAIN n2 /\ n2[l[i]].locked = n[l[i]].locked
    BY <1>2 DEF Sound, Known
  <2> QED
    BY <1>4, <2>1, SameLocks
<1>7. id \in DOMAIN n2 /\ n2[id].locked = st[id].locked
  BY <1>2 DEF Drawn
<1>8. Sound(n2, m) /\ \A j : On(m, j) <=> (j = id \/ On(l, j))
  <2>1. CASE st[id].locked
    <3>1. m = <<id>> \o l
      BY <2>1 DEF Placed, Scene
    <3>2. /\ Sound(n2, <<id>> \o l)
          /\ \A j : On(<<id>> \o l, j) <=> (j = id \/ On(l, j))
      BY <1>5, <1>6, <1>7, <2>1, AtBottom
    <3> QED
      BY <3>1, <3>2
  <2>2. CASE ~st[id].locked
    <3>1. m = Append(l, id)
      BY <2>2 DEF Placed, Scene
    <3> QED
      BY <1>5, <1>6, <1>7, <2>2, <3>1, OnTop
  <2> QED
    BY <2>1, <2>2
<1>9. Full(n, l) => Full(n2, m)
  BY <1>2, <1>8 DEF Full
<1> QED
  BY <1>1, <1>2, <1>8, <1>9 DEF BuiltAs

\* What a turn leaves.
Turned(st, S, n, l, n2, m) ==
  Sound(n2, m) /\ (Full(n, l) => Full(n2, m)) /\ Shown(st, S, n, n2)

LEMMA TurnTaken ==
  ASSUME NEW n, NEW l, Sound(n, l), NEW st, IsStore(st), NEW id \in Groups
  PROVE  \E n2, m : Turn(Scene(n, l), st, id) = Scene(n2, m) /\ Turned(st, {id}, n, l, n2, m)
<1> DEFINE sc == Scene(n, l)
           cleared == IF id \in DOMAIN sc.nodes THEN Destroyed(sc, id) ELSE sc
<1>1. \E n1, l1 : /\ cleared = Scene(n1, l1) /\ Sound(n1, l1) /\ (Full(n, l) => Full(n1, l1))
                  /\ DOMAIN n1 = DOMAIN n \ {id} /\ \A j \in DOMAIN n1 : n1[j] = n[j]
  <2>1. CASE id \in DOMAIN n
    <3>1. cleared = Destroyed(sc, id)
      BY <2>1 DEF Scene
    <3>2. PICK n1, l1 : DownAs(Destroyed(sc, id), id, n, l, n1, l1)
      BY <2>1, TakenDown
    <3> HIDE DEF cleared, sc
    <3> QED
      BY <3>1, <3>2 DEF DownAs
  <2>2. CASE id \notin DOMAIN n
    <3>1. cleared = Scene(n, l) /\ DOMAIN n = DOMAIN n \ {id}
      BY <2>2 DEF Scene
    <3> HIDE DEF cleared
    <3> QED
      BY <3>1
  <2> QED
    BY <2>1, <2>2
<1>2. Turn(sc, st, id) = IF id \in DOMAIN st THEN BuildNode(cleared, st, id) ELSE cleared
  BY DEF Turn
<1> HIDE DEF cleared
<1>3. PICK n1, l1 : /\ cleared = Scene(n1, l1) /\ Sound(n1, l1) /\ (Full(n, l) => Full(n1, l1))
                    /\ DOMAIN n1 = DOMAIN n \ {id} /\ \A j \in DOMAIN n1 : n1[j] = n[j]
  BY <1>1
<1>4. CASE id \in DOMAIN st
  <2>1. PICK n2, m : BuiltAs(BuildNode(Scene(n1, l1), st, id), st, id, n1, l1, n2, m)
    <3>1. id \in DOMAIN st \ DOMAIN n1
      BY <1>3, <1>4
    <3>2. Sound(n1, l1)
      BY <1>3
    <3> QED
      BY <3>1, <3>2, Built, Zenon
  <2>2. Shown(st, {id}, n, n2)
    BY <1>3, <1>4, <2>1 DEF Shown, BuiltAs
  <2> QED
    BY <1>2, <1>3, <1>4, <2>1, <2>2 DEF Turned, BuiltAs
<1>5. CASE id \notin DOMAIN st
  <2>1. Shown(st, {id}, n, n1)
    BY <1>3, <1>5 DEF Shown
  <2> QED
    BY <1>2, <1>3, <1>5, <2>1 DEF Turned
<1> QED
  BY <1>4, <1>5

\* f takes the turns of ids, one after the other.
Run(f, sc, st, ids) ==
  f = [k \in 0..Len(ids) |-> IF k = 0 THEN sc ELSE Turn(f[k - 1], st, ids[k])]

RunUpTo(f, sc, st, ids, n) ==
  /\ DOMAIN f = 0..Len(ids)
  /\ \A k \in 0..Len(ids) : k <= n => f[k] = IF k = 0 THEN sc ELSE Turn(f[k - 1], st, ids[k])

LEMMA RunExists ==
  ASSUME NEW sc, NEW st, NEW ids, Len(ids) \in Nat
  PROVE  \E f : Run(f, sc, st, ids)
<1> DEFINE B == {n \in Nat : ~ \E f : RunUpTo(f, sc, st, ids, n)}
<1>1. ASSUME NEW n \in B PROVE \E m \in B : m < n
  <2>1. CASE n = 0
    <3> DEFINE f == [k \in 0..Len(ids) |-> sc]
    <3>1. RunUpTo(f, sc, st, ids, 0)
      BY DEF RunUpTo
    <3> QED
      BY <2>1, <3>1
  <2>2. CASE n # 0
    <3>1. n - 1 \in Nat /\ n - 1 < n
      BY <2>2
    <3> SUFFICES ASSUME n - 1 \notin B PROVE FALSE
      BY <3>1
    <3>2. PICK f : RunUpTo(f, sc, st, ids, n - 1)
      BY <3>1
    <3> DEFINE g == [k \in 0..Len(ids) |-> IF k = n THEN Turn(f[k - 1], st, ids[k]) ELSE f[k]]
    <3>3. ASSUME NEW k \in 0..Len(ids), k <= n
          PROVE  g[k] = IF k = 0 THEN sc ELSE Turn(g[k - 1], st, ids[k])
      <4>1. k # 0 => g[k - 1] = f[k - 1]
        <5> SUFFICES ASSUME k # 0 PROVE g[k - 1] = f[k - 1]
          OBVIOUS
        <5>1. k - 1 \in 0..Len(ids) /\ k - 1 # n
          BY <3>3
        <5> QED
          BY <5>1
      <4>2. CASE k = n
        BY <2>2, <4>1, <4>2
      <4>3. CASE k # n
        <5>1. k <= n - 1 /\ g[k] = f[k]
          BY <3>3, <4>3
        <5>2. f[k] = IF k = 0 THEN sc ELSE Turn(f[k - 1], st, ids[k])
          BY <3>2, <5>1 DEF RunUpTo
        <5> HIDE DEF g
        <5> QED
          BY <4>1, <5>1, <5>2
      <4> QED
        BY <4>2, <4>3
    <3>4. DOMAIN g = 0..Len(ids)
      OBVIOUS
    <3> HIDE DEF g
    <3>5. RunUpTo(g, sc, st, ids, n)
      BY <3>3, <3>4 DEF RunUpTo
    <3> QED
      BY <3>5
  <2> QED
    BY <2>1, <2>2
<1>2. B = {}
  <2>1. B \in SUBSET Nat
    OBVIOUS
  <2> HIDE DEF B
  <2> QED
    BY <1>1, <2>1, Descent
<1>3. PICK f : RunUpTo(f, sc, st, ids, Len(ids))
  BY <1>2
<1> DEFINE g == [k \in 0..Len(ids) |-> f[k]]
<1>4. \A k \in 0..Len(ids) : f[k] = IF k = 0 THEN sc ELSE Turn(f[k - 1], st, ids[k])
  BY <1>3 DEF RunUpTo
<1>5. g = [k \in 0..Len(ids) |-> IF k = 0 THEN sc ELSE Turn(g[k - 1], st, ids[k])]
  <2>1. \A k \in 0..Len(ids) : k # 0 => g[k - 1] = f[k - 1]
    OBVIOUS
  <2> QED
    BY <1>4, <2>1
<1> QED
  BY <1>5 DEF Run

LEMMA AfterIsRun ==
  ASSUME NEW sc, NEW st, NEW ids, Len(ids) \in Nat
  PROVE  \E f : /\ f[0] = sc /\ After(sc, st, ids) = f[Len(ids)]
                /\ \A k \in 1..Len(ids) : f[k] = Turn(f[k - 1], st, ids[k])
<1> DEFINE f == CHOOSE f : Run(f, sc, st, ids)
<1>1. Run(f, sc, st, ids)
  BY RunExists
<1>2. After(sc, st, ids) = f[Len(ids)]
  BY DEF After, Run
<1> HIDE DEF f
<1>3. \A k \in 0..Len(ids) : f[k] = IF k = 0 THEN sc ELSE Turn(f[k - 1], st, ids[k])
  BY <1>1, Zenon DEF Run
<1>4. 0 \in 0..Len(ids) /\ \A k \in 1..Len(ids) : k \in 0..Len(ids) /\ k # 0
  OBVIOUS
<1> QED
  BY <1>2, <1>3, <1>4

LEMMA ShownOnce ==
  ASSUME NEW st, NEW S, NEW n, NEW n1, NEW n2, NEW id,
         Shown(st, S, n, n1), Shown(st, {id}, n1, n2)
  PROVE  Shown(st, S \cup {id}, n, n2)
<1>1. DOMAIN n2 = (DOMAIN n \ (S \cup {id})) \cup ((S \cup {id}) \cap DOMAIN st)
  BY DEF Shown
<1>2. ASSUME NEW j \in DOMAIN n2
      PROVE  n2[j] = IF j \in S \cup {id} THEN Drawn(st, j) ELSE n[j]
  <2>1. CASE j = id
    BY <2>1 DEF Shown
  <2>2. CASE j # id
    <3>1. j \in DOMAIN n1 /\ n2[j] = n1[j]
      BY <2>2 DEF Shown
    <3> QED
      BY <2>2, <3>1 DEF Shown
  <2> QED
    BY <2>1, <2>2
<1> QED
  BY <1>1, <1>2 DEF Shown

Names(q) == {q[i] : i \in 1..Len(q)}

\* The turns of a whole sequence.
LEMMA AfterTaken ==
  ASSUME NEW n, NEW l, Sound(n, l), NEW st, IsStore(st), NEW ids \in Seq(Groups)
  PROVE  \E n2, m : After(Scene(n, l), st, ids) = Scene(n2, m) /\ Turned(st, Names(ids), n, l, n2, m)
<1>1. Len(ids) \in Nat /\ \A i \in 1..Len(ids) : ids[i] \in Groups
  BY LenProperties, ElementOfSeq
<1>2. PICK f : /\ f[0] = Scene(n, l) /\ After(Scene(n, l), st, ids) = f[Len(ids)]
               /\ \A k \in 1..Len(ids) : f[k] = Turn(f[k - 1], st, ids[k])
  BY <1>1, AfterIsRun
<1> DEFINE S(k) == {ids[i] : i \in 1..k}
           Good(k) == \E n2, m : f[k] = Scene(n2, m) /\ Turned(st, S(k), n, l, n2, m)
           B == {k \in Nat : k <= Len(ids) /\ ~Good(k)}
<1>3. ASSUME NEW k \in B PROVE \E j \in B : j < k
  <2>1. CASE k = 0
    <3>1. S(0) = {}
      OBVIOUS
    <3>2. Shown(st, {}, n, n)
      BY DEF Shown
    <3>3. Good(0)
      BY <1>2, <3>1, <3>2 DEF Turned
    <3> QED
      BY <2>1, <3>3
  <2>2. CASE k # 0
    <3>1. /\ k - 1 \in Nat /\ k - 1 < k /\ k - 1 <= Len(ids)
          /\ k \in 1..Len(ids)
      BY <1>1, <2>2
    <3> SUFFICES ASSUME Good(k - 1) PROVE FALSE
      BY <3>1
    <3>2. PICK n1, l1 : f[k - 1] = Scene(n1, l1) /\ Turned(st, S(k - 1), n, l, n1, l1)
      OBVIOUS
    <3>3. PICK n2, m : Turn(Scene(n1, l1), st, ids[k]) = Scene(n2, m) /\ Turned(st, {ids[k]}, n1, l1, n2, m)
      <4> HIDE DEF S
      <4> QED
        BY <1>1, <3>1, <3>2, TurnTaken DEF Turned
    <3>4. S(k) = S(k - 1) \cup {ids[k]}
      <4>1. \A i \in 1..k : i = k \/ i \in 1..(k - 1)
        BY <3>1
      <4>2. k \in 1..k /\ \A i \in 1..(k - 1) : i \in 1..k
        BY <3>1
      <4> QED
        BY <4>1, <4>2
    <3> HIDE DEF S
    <3>a. Shown(st, S(k - 1), n, n1) /\ Shown(st, {ids[k]}, n1, n2)
      BY <3>2, <3>3 DEF Turned
    <3>b. Shown(st, S(k - 1) \cup {ids[k]}, n, n2)
      BY <3>a, ShownOnce, Zenon
    <3>5. Shown(st, S(k), n, n2)
      BY <3>4, <3>b
    <3>6. Turned(st, S(k), n, l, n2, m)
      BY <3>2, <3>3, <3>5 DEF Turned
    <3>7. Good(k)
      BY <1>2, <3>1, <3>2, <3>3, <3>6
    <3> QED
      BY <3>7
  <2> QED
    BY <2>1, <2>2
<1>4. B = {}
  <2>1. B \in SUBSET Nat
    OBVIOUS
  <2> HIDE DEF B
  <2> QED
    BY <1>3, <2>1, Descent
<1>5. Good(Len(ids))
  <2> HIDE DEF Good
  <2> QED
    BY <1>1, <1>4
<1>6. S(Len(ids)) = Names(ids)
  BY Zenon DEF Names
<1> HIDE DEF S
<1> QED
  BY <1>2, <1>5, <1>6

-----------------------------------------------------------------------------
(* The inductive invariant. *)

StoreGroup == [locked : BOOLEAN, heldBy : {None, Me, Other}]
Store == UNION {[D -> StoreGroup] : D \in SUBSET Groups}
Stages == {"none", "loading", "starting", "live", "failed", "gone"}

KindsInv ==
  /\ groups \in Store
  /\ drag \in [group : Groups \cup {None}, dropped : BOOLEAN]
  /\ online \in BOOLEAN /\ dim \in BOOLEAN /\ broken \in BOOLEAN /\ gpu \in {"ok", "lost"}
  /\ pointers \in 0..MaxFingers /\ dragging \in Groups \cup {None}
  /\ panning \in BOOLEAN /\ pinch \in BOOLEAN
  /\ stage \in [Mounts -> Stages] /\ mount \in 0..MaxMounts

\* What is drawn as placed is placed: so what can be picked up is drawn on the loose
\* pile, and may be brought to the front.
LocksInv(n, gs) == \A id \in DOMAIN n \cap DOMAIN gs : n[id].locked => gs[id].locked

\* Without a rebuild scheduled, exactly the store's groups are drawn, each as it is.
DrawnInv(n, l, gs) ==
  DOMAIN n = DOMAIN gs /\ Full(n, l) /\ \A id \in DOMAIN n : n[id].same

SceneInv ==
  /\ Sound(nodes, layer) /\ LocksInv(nodes, groups)
  /\ DOMAIN groups = {} => DOMAIN nodes = {}
  /\ Live /\ ~broken => DrawnInv(nodes, layer, groups)
  /\ gpu = "ok" /\ ~broken => ~dim

\* Nothing is drawn and nothing touched on a page without a scene.
AsleepInv ==
  ~Live => /\ DOMAIN nodes = {} /\ layer = << >> /\ ~broken /\ gpu = "ok" /\ ~dim
           /\ pointers = 0 /\ dragging = None /\ ~panning /\ ~pinch

\* Mounts come one after the other, and each is cleaned up before the next.
MountsInv ==
  /\ \A m \in Mounts : stage[m] # "none" => m <= mount
  /\ \A m \in Mounts : m < mount => m \in disposed
  /\ \A m \in Mounts : stage[m] = "live" => m \notin disposed
  /\ drag # NotDragging => mount # 0 /\ stage[mount] \in {"live", "gone"}

IInv == KindsInv /\ SceneInv /\ AsleepInv /\ MountsInv /\ OneGesture /\ LedIsInHand

-----------------------------------------------------------------------------
(* A whole reconciliation. *)

LEMMA SeqsOf ==
  ASSUME NEW S \in SUBSET Groups, NEW q \in SetToSeqs(S)
  PROVE  q \in Seq(Groups) /\ {q[i] : i \in 1..Len(q)} = S
<1>1. IsFiniteSet(S) /\ Cardinality(S) \in Nat
  BY BoardViewAssumption, FS_Subset, FS_CardinalityType
<1> DEFINE D == 1..Cardinality(S)
<1>2. q \in [D -> S] /\ \A i, j \in D : i # j => q[i] # q[j]
  BY DEF SetToSeqs
<1>3. q \in Injection(D, S)
  BY <1>2 DEF Injection, IsInjective
<1>4. Cardinality(D) = Cardinality(S)
  BY <1>1, FS_Interval
<1>5. q \in Surjection(D, S)
  BY <1>1, <1>3, <1>4, FS_Injection
<1>6. q \in Seq(S) /\ Len(q) = Cardinality(S)
  BY <1>1, <1>2, IsASeq, LenProperties
<1>7. q \in Seq(Groups)
  BY <1>6, SeqMonotonic
<1> QED
  BY <1>2, <1>5, <1>6, <1>7 DEF Surjection

LEMMA JoinedSeqs ==
  ASSUME NEW a \in Seq(Groups), NEW b \in Seq(Groups)
  PROVE  /\ a \o b \in Seq(Groups)
         /\ {(a \o b)[i] : i \in 1..Len(a \o b)} = {a[i] : i \in 1..Len(a)} \cup {b[i] : i \in 1..Len(b)}
<1>1. Len(a) \in Nat /\ Len(b) \in Nat
  BY LenProperties
<1> DEFINE c == a \o b
<1>2. /\ c \in Seq(Groups) /\ Len(c) = Len(a) + Len(b)
      /\ \A i \in 1..(Len(a) + Len(b)) : c[i] = IF i <= Len(a) THEN a[i] ELSE b[i - Len(a)]
  BY ConcatProperties
<1> HIDE DEF c
<1>3. ASSUME NEW i \in 1..Len(c)
      PROVE  \/ i \in 1..Len(a) /\ c[i] = a[i]
             \/ i - Len(a) \in 1..Len(b) /\ c[i] = b[i - Len(a)]
  BY <1>1, <1>2
<1>4. \A i \in 1..Len(a) : i \in 1..Len(c) /\ c[i] = a[i]
  BY <1>1, <1>2
<1>5. \A i \in 1..Len(b) : i + Len(a) \in 1..Len(c) /\ c[i + Len(a)] = b[i]
  BY <1>1, <1>2
<1>6. {c[i] : i \in 1..Len(c)} = {a[i] : i \in 1..Len(a)} \cup {b[i] : i \in 1..Len(b)}
  <2>1. {c[i] : i \in 1..Len(c)} \subseteq {a[i] : i \in 1..Len(a)} \cup {b[i] : i \in 1..Len(b)}
    BY <1>3
  <2>2. {a[i] : i \in 1..Len(a)} \subseteq {c[i] : i \in 1..Len(c)}
    BY <1>4
  <2>3. {b[i] : i \in 1..Len(b)} \subseteq {c[i] : i \in 1..Len(c)}
    BY <1>5
  <2> QED
    BY <2>1, <2>2, <2>3
<1> QED
  BY <1>2, <1>6 DEF c

\* Which groups a reconciliation looks at.
Stale(n, st) == {id \in DOMAIN st : ~(id \in DOMAIN n /\ n[id].same)} \cup (DOMAIN n \ DOMAIN st)

LEMMA TurnsOf ==
  ASSUME NEW n, NEW l, Sound(n, l), NEW st, IsStore(st), NEW ids \in Turns(Scene(n, l), st)
  PROVE  ids \in Seq(Groups) /\ {ids[i] : i \in 1..Len(ids)} = Stale(n, st)
<1> DEFINE A == {id \in DOMAIN st : ~(id \in DOMAIN n /\ n[id].same)}
           B == DOMAIN n \ DOMAIN st
<1>1. A \in SUBSET Groups /\ B \in SUBSET Groups
  BY NodeMapParts DEF IsStore, Sound
<1>2. PICK a \in SetToSeqs(A), b \in SetToSeqs(B) : ids = a \o b
  <2>1. Turns(Scene(n, l), st) = {a \o b : a \in SetToSeqs(A), b \in SetToSeqs(B)}
    BY DEF Turns, Scene, Kept
  <2> HIDE DEF A, B
  <2>2. ids \in {a \o b : a \in SetToSeqs(A), b \in SetToSeqs(B)}
    BY <2>1
  <2> QED
    BY <2>2
<1> HIDE DEF A, B
<1>3. a \in Seq(Groups) /\ {a[i] : i \in 1..Len(a)} = A
  BY <1>1, SeqsOf
<1>4. b \in Seq(Groups) /\ {b[i] : i \in 1..Len(b)} = B
  BY <1>1, SeqsOf
<1>5. ids \in Seq(Groups) /\ {ids[i] : i \in 1..Len(ids)} = A \cup B
  <2>1. /\ a \o b \in Seq(Groups)
        /\ {(a \o b)[i] : i \in 1..Len(a \o b)} = {a[i] : i \in 1..Len(a)} \cup {b[i] : i \in 1..Len(b)}
    BY <1>3, <1>4, JoinedSeqs, Zenon
  <2> QED
    BY <1>2, <1>3, <1>4, <2>1, Zenon
<1> QED
  BY <1>5 DEF Stale, A, B

\* A scene reached from nodes n while the store was st.
Reached(n, st, n2, m) ==
  /\ Sound(n2, m)
  /\ LocksInv(n, st) => LocksInv(n2, st)
  /\ DOMAIN n \cup DOMAIN st = {} => DOMAIN n2 = {}

LEMMA ShownReached ==
  ASSUME NEW st, IsStore(st), NEW S, NEW n, NEW n2, NEW m, Sound(n2, m), Shown(st, S, n, n2)
  PROVE  Reached(n, st, n2, m)
<1>1. LocksInv(n, st) => LocksInv(n2, st)
  <2> SUFFICES ASSUME LocksInv(n, st), NEW id \in DOMAIN n2 \cap DOMAIN st, n2[id].locked
               PROVE  st[id].locked
    BY DEF LocksInv
  <2>1. CASE id \in S
    <3>1. n2[id] = Drawn(st, id)
      BY <2>1 DEF Shown
    <3>2. Drawn(st, id).locked = st[id].locked
      BY Zenon DEF Drawn
    <3> QED
      BY <3>1, <3>2
  <2>2. CASE id \notin S
    BY <2>2 DEF Shown, LocksInv
  <2> QED
    BY <2>1, <2>2
<1> QED
  BY <1>1 DEF Reached, Shown

LEMMA ReconciledTaken ==
  ASSUME NEW n, NEW l, Sound(n, l), NEW st, IsStore(st), NEW sc \in Reconciled(Scene(n, l), st)
  PROVE  \E n2, m : sc = Scene(n2, m) /\ Reached(n, st, n2, m) /\ (Full(n, l) => DrawnInv(n2, m, st))
<1>1. PICK ids \in Turns(Scene(n, l), st) : sc = After(Scene(n, l), st, ids)
  BY DEF Reconciled
<1>2. ids \in Seq(Groups) /\ {ids[i] : i \in 1..Len(ids)} = Stale(n, st)
  BY TurnsOf
<1>3. PICK n2, m : /\ After(Scene(n, l), st, ids) = Scene(n2, m)
                   /\ Turned(st, Names(ids), n, l, n2, m)
  BY <1>2, AfterTaken
<1>4. Turned(st, Stale(n, st), n, l, n2, m)
  BY <1>2, <1>3 DEF Names
<1>5. Reached(n, st, n2, m)
  BY <1>4, ShownReached DEF Turned
<1>6. DOMAIN n2 = DOMAIN st /\ \A id \in DOMAIN n2 : n2[id].same
  <2>1. Shown(st, Stale(n, st), n, n2)
    BY <1>4 DEF Turned
  <2>2. DOMAIN n2 = DOMAIN st
    BY <2>1 DEF Shown, Stale
  <2>3. ASSUME NEW id \in DOMAIN n2 PROVE n2[id].same
    <3>1. CASE id \in Stale(n, st)
      <4>1. n2[id] = Drawn(st, id)
        BY <2>1, <3>1 DEF Shown
      <4> QED
        BY <4>1 DEF Drawn
    <3>2. CASE id \notin Stale(n, st)
      <4>1. n2[id] = n[id] /\ n[id].same
        BY <2>1, <2>2, <3>2 DEF Shown, Stale
      <4> QED
        BY <4>1
    <3> QED
      BY <3>1, <3>2
  <2> QED
    BY <2>2, <2>3
<1> QED
  BY <1>1, <1>3, <1>4, <1>5, <1>6 DEF DrawnInv, Turned

LEMMA ThrownTaken ==
  ASSUME NEW n, NEW l, Sound(n, l), NEW st, NEW id, NEW sc \in ThrownBy(Scene(n, l), st, id)
  PROVE  \E n2, m : /\ sc = Scene(n2, m) /\ Sound(n2, m)
                    /\ DOMAIN n2 \subseteq DOMAIN n /\ \A j \in DOMAIN n2 : n2[j] = n[j]
<1>1. \/ sc = Scene(n, l)
      \/ sc = Detached(Scene(n, l), id)
      \/ id \in DOMAIN n /\ sc = Destroyed(Scene(n, l), id)
  BY DEF ThrownBy, Scene
<1>2. CASE sc = Scene(n, l)
  BY <1>2
<1>3. CASE sc = Detached(Scene(n, l), id)
  <2>1. PICK m : Detached(Scene(n, l), id) = Scene(n, m) /\ Sound(n, m) /\ Without(m, l, id)
    BY Taken
  <2> QED
    BY <1>3, <2>1
<1>4. CASE id \in DOMAIN n /\ sc = Destroyed(Scene(n, l), id)
  <2>1. PICK n2, m : DownAs(Destroyed(Scene(n, l), id), id, n, l, n2, m)
    BY <1>4, TakenDown
  <2>2. DOMAIN n2 \subseteq DOMAIN n
    BY <2>1 DEF DownAs
  <2> QED
    BY <1>4, <2>1, <2>2 DEF DownAs
<1> QED
  BY <1>1, <1>2, <1>3, <1>4

LEMMA InterruptedTaken ==
  ASSUME NEW n, NEW l, Sound(n, l), NEW st, IsStore(st), NEW sc \in Interrupted(Scene(n, l), st)
  PROVE  \E n2, m : sc = Scene(n2, m) /\ Reached(n, st, n2, m)
<1>0. PICK ids \in Turns(Scene(n, l), st) : \E k \in DOMAIN ids :
        sc \in ThrownBy(After(Scene(n, l), st, SubSeq(ids, 1, k - 1)), st, ids[k])
  BY DEF Interrupted
<1>1. PICK k \in DOMAIN ids :
        sc \in ThrownBy(After(Scene(n, l), st, SubSeq(ids, 1, k - 1)), st, ids[k])
  BY <1>0
<1>2. ids \in Seq(Groups)
  BY TurnsOf
<1> DEFINE q == SubSeq(ids, 1, k - 1)
<1>3. q \in Seq(Groups)
  <2>1. k \in 1..Len(ids) /\ Len(ids) \in Nat
    BY <1>2, LenProperties
  <2>2. \A i \in 1..(k - 1) : ids[i] \in Groups
    BY <1>2, <2>1, ElementOfSeq
  <2> QED
    BY <1>2, <2>1, <2>2, SubSeqProperties
<1> HIDE DEF q
<1>4. PICK n1, l1 : /\ After(Scene(n, l), st, q) = Scene(n1, l1)
                    /\ Turned(st, Names(q), n, l, n1, l1)
  BY <1>3, AfterTaken
<1>5. Reached(n, st, n1, l1) /\ Sound(n1, l1)
  BY <1>4, ShownReached DEF Turned
<1>6. PICK n2, m : /\ sc = Scene(n2, m) /\ Sound(n2, m)
                   /\ DOMAIN n2 \subseteq DOMAIN n1 /\ \A j \in DOMAIN n2 : n2[j] = n1[j]
  BY <1>1, <1>4, <1>5, ThrownTaken DEF q
<1>7. Reached(n, st, n2, m)
  BY <1>5, <1>6 DEF Reached, LocksInv
<1> QED
  BY <1>6, <1>7

\* A loose group is brought to the front of a sound scene.
LEMMA Fronted ==
  ASSUME NEW n, NEW l, Sound(n, l), NEW top, top \in DOMAIN n => ~n[top].locked
  PROVE  \E m : /\ BringToFront(Scene(n, l), top) = Scene(n, m) /\ Sound(n, m)
                /\ Full(n, l) => Full(n, m)
<1>1. CASE top \notin DOMAIN n
  BY <1>1 DEF BringToFront, Scene
<1>2. CASE top \in DOMAIN n
  <2>1. PICK k : Detached(Scene(n, l), top) = Scene(n, k) /\ Sound(n, k) /\ Without(k, l, top)
    BY Taken
  <2> DEFINE m == Append(k, top)
  <2>2. BringToFront(Scene(n, l), top) = Scene(n, m)
    <3>1. Detached(Scene(n, l), top).layer = k
      BY <2>1 DEF Scene
    <3>2. BringToFront(Scene(n, l), top) =
            [Scene(n, l) EXCEPT !.layer = Append(Detached(Scene(n, l), top).layer, top)]
      BY <1>2 DEF BringToFront, Scene
    <3>3. [Scene(n, l) EXCEPT !.layer = m] = Scene(n, m)
      BY DEF Scene
    <3> QED
      BY <3>1, <3>2, <3>3
  <2>3. Sound(n, m) /\ \A j : On(m, j) <=> (j = top \/ On(k, j))
    BY <1>2, <2>1, OnTop DEF Without
  <2> HIDE DEF m
  <2>4. Full(n, l) => Full(n, m)
    <3>1. DOMAIN n \in SUBSET Groups
      BY NodeMapParts DEF Sound
    <3> QED
      BY <2>1, <2>3, <3>1 DEF Full, Without
  <2> QED
    BY <2>2, <2>3, <2>4
<1> QED
  BY <1>1, <1>2

LEMMA AgedScene ==
  ASSUME Sound(nodes, layer), NEW ids
  PROVE  \E n : /\ Aged(ids) = Scene(n, layer) /\ Sound(n, layer)
                /\ DOMAIN n = DOMAIN nodes
                /\ \A id \in DOMAIN n : n[id].locked = nodes[id].locked
<1> DEFINE n == [id \in DOMAIN nodes |->
                   IF id \in ids THEN [nodes[id] EXCEPT !.same = FALSE] ELSE nodes[id]]
<1>1. Aged(ids) = Scene(n, layer)
  BY DEF Aged, Scene
<1>2. DOMAIN nodes \in SUBSET Groups /\ \A id \in DOMAIN nodes : nodes[id] \in Node
  BY NodeMapParts DEF Sound
<1>3. \A id \in DOMAIN nodes : n[id] \in Node /\ n[id].locked = nodes[id].locked
  BY <1>2 DEF Node
<1>4. DOMAIN n = DOMAIN nodes /\ n = [id \in DOMAIN nodes |-> n[id]]
  OBVIOUS
<1> HIDE DEF n
<1>5. n \in NodeMap
  BY <1>2, <1>3, <1>4, IsNodeMap
<1>6. Sound(n, layer)
  <2>1. \A i \in 1..Len(layer) : layer[i] \in DOMAIN n /\ n[layer[i]].locked = nodes[layer[i]].locked
    BY <1>3, <1>4 DEF Sound, Known
  <2> QED
    BY <1>5, <2>1, SameLocks
<1> QED
  BY <1>1, <1>3, <1>4, <1>6

-----------------------------------------------------------------------------
(* The store. *)

LEMMA StoreParts ==
  ASSUME NEW gs \in Store
  PROVE  /\ IsStore(gs) /\ gs = [id \in DOMAIN gs |-> gs[id]]
         /\ \A id \in DOMAIN gs : gs[id] \in StoreGroup
<1>1. PICK D \in SUBSET Groups : gs \in [D -> StoreGroup]
  BY DEF Store
<1> QED
  BY <1>1 DEF IsStore, StoreGroup

LEMMA IsAStore ==
  ASSUME NEW D \in SUBSET Groups, NEW gs \in [D -> StoreGroup]
  PROVE  gs \in Store
BY DEF Store

\* A change of the store from which the scene follows.
StoreStep(gs, gs2) ==
  /\ gs2 \in Store
  /\ DOMAIN gs # {} => DOMAIN gs2 # {} /\ DOMAIN gs2 \subseteq DOMAIN gs
  /\ \A id \in DOMAIN gs \cap DOMAIN gs2 : gs[id].locked => gs2[id].locked

\* One group gets another holder.
LEMMA HolderStep ==
  ASSUME NEW gs \in Store, NEW id \in DOMAIN gs, NEW g \in {None, Me, Other}
  PROVE  /\ StoreStep(gs, [gs EXCEPT ![id].heldBy = g])
         /\ DOMAIN [gs EXCEPT ![id].heldBy = g] = DOMAIN gs
         /\ [gs EXCEPT ![id].heldBy = g][id].locked = gs[id].locked
<1> DEFINE gs2 == [gs EXCEPT ![id].heldBy = g]
<1>1. /\ DOMAIN gs \in SUBSET Groups /\ gs = [i \in DOMAIN gs |-> gs[i]]
      /\ \A i \in DOMAIN gs : gs[i] \in StoreGroup
  BY StoreParts DEF IsStore
<1>2. /\ gs2 = [i \in DOMAIN gs |-> IF i = id THEN [gs[id] EXCEPT !.heldBy = g] ELSE gs[i]]
      /\ DOMAIN gs2 = DOMAIN gs
  BY <1>1
<1> HIDE DEF gs2
<1>3. \A i \in DOMAIN gs : gs2[i] \in StoreGroup /\ gs2[i].locked = gs[i].locked
  BY <1>1, <1>2 DEF StoreGroup
<1>4. gs2 \in [DOMAIN gs -> StoreGroup]
  BY <1>2, <1>3
<1>5. gs2 \in Store
  BY <1>1, <1>4, IsAStore
<1>6. StoreStep(gs, gs2)
  BY <1>2, <1>3, <1>5 DEF StoreStep
<1> QED
  BY <1>2, <1>3, <1>6 DEF gs2

LEMMA StoreStays ==
  ASSUME NEW gs \in Store
  PROVE  StoreStep(gs, gs)
BY DEF StoreStep

LEMMA Released ==
  ASSUME NEW gs \in Store, NEW D \in SUBSET DOMAIN gs, NEW id, NEW gs2,
         gs2 = IF id \in D THEN [gs EXCEPT ![id].heldBy = None] ELSE gs
  PROVE  StoreStep(gs, gs2) /\ DOMAIN gs2 = DOMAIN gs
<1>1. CASE id \in D
  BY <1>1, HolderStep
<1>2. CASE id \notin D
  BY <1>2, StoreStays
<1> QED
  BY <1>1, <1>2

\* What the scene needs of the store: what is drawn as placed is placed.
LEMMA ScenePrepared ==
  ASSUME NEW gs \in Store, NEW gs2, NEW n \in NodeMap,
         LocksInv(n, gs), DOMAIN gs = {} => DOMAIN n = {}, StoreStep(gs, gs2)
  PROVE  LocksInv(n, gs2) /\ (DOMAIN gs2 = {} => DOMAIN n = {})
<1>1. CASE DOMAIN gs = {}
  <2>1. DOMAIN n = {}
    BY <1>1
  <2> QED
    BY <2>1 DEF LocksInv
<1>2. CASE DOMAIN gs # {}
  <2>1. DOMAIN gs2 # {} /\ DOMAIN gs2 \subseteq DOMAIN gs
    BY <1>2 DEF StoreStep
  <2>2. ASSUME NEW id \in DOMAIN n \cap DOMAIN gs2, n[id].locked PROVE gs2[id].locked
    <3>1. gs[id].locked
      BY <2>1, <2>2 DEF LocksInv
    <3> QED
      BY <2>1, <3>1 DEF StoreStep
  <2> QED
    BY <2>1, <2>2 DEF LocksInv
<1> QED
  BY <1>1, <1>2

\* The part of the invariant that is about the scene and the store.
ShownInv ==
  /\ Sound(nodes, layer) /\ LocksInv(nodes, groups)
  /\ DOMAIN groups = {} => DOMAIN nodes = {}
  /\ Live /\ ~broken => DrawnInv(nodes, layer, groups)

\* After a reconciliation, or one that threw, the scene follows the store again.
LEMMA Synced ==
  ASSUME ShownInv, groups \in Store, broken \in BOOLEAN, StoreStep(groups, groups'),
         NEW ids, NEW top, top = None \/ (top \in DOMAIN groups' /\ ~groups'[top].locked),
         SyncGroups(ids, top), UNCHANGED <<mount, stage>>
  PROVE  /\ ShownInv' /\ broken' \in BOOLEAN /\ (~broken' => ~broken)
         /\ ~Live => UNCHANGED scene
<1>0. groups' \in Store /\ IsStore(groups') /\ Live' = Live
  BY StoreParts DEF StoreStep, Live
<1>1. LocksInv(nodes, groups') /\ (DOMAIN groups' = {} => DOMAIN nodes = {})
  <2>1. nodes \in NodeMap
    BY DEF ShownInv, Sound
  <2> QED
    BY <2>1, ScenePrepared DEF ShownInv
<1>2. CASE ~Live /\ UNCHANGED <<scene, faults>>
  BY <1>0, <1>1, <1>2 DEF ShownInv, scene
<1>3. PICK n : /\ Aged(ids) = Scene(n, layer) /\ Sound(n, layer) /\ DOMAIN n = DOMAIN nodes
               /\ \A id \in DOMAIN n : n[id].locked = nodes[id].locked
  BY AgedScene DEF ShownInv
<1>4. LocksInv(n, groups') /\ (DOMAIN groups' = {} => DOMAIN n = {})
  BY <1>1, <1>3 DEF LocksInv
<1>5. Live /\ ~broken => Full(n, layer)
  BY <1>3 DEF ShownInv, DrawnInv, Full
\* A scene that was reached, with top in front.
<1>6. ASSUME NEW n2, NEW m, Reached(n, groups', n2, m),
             nodes' = BringToFront(Scene(n2, m), top).nodes,
             layer' = BringToFront(Scene(n2, m), top).layer
      PROVE  /\ nodes' = n2 /\ Sound(nodes', layer') /\ LocksInv(nodes', groups')
             /\ DOMAIN groups' = {} => DOMAIN nodes' = {}
             /\ Full(n2, m) => Full(nodes', layer')
  <2>1. Sound(n2, m) /\ LocksInv(n2, groups') /\ (DOMAIN groups' = {} => DOMAIN n2 = {})
    BY <1>4, <1>6 DEF Reached
  <2>2. top \in DOMAIN n2 => ~n2[top].locked
    <3>1. DOMAIN n2 \subseteq Groups
      BY <2>1, NodeMapParts DEF Sound
    <3> QED
      BY <2>1, <3>1, BoardViewAssumption DEF LocksInv
  <2>3. PICK k : /\ BringToFront(Scene(n2, m), top) = Scene(n2, k) /\ Sound(n2, k)
                 /\ Full(n2, m) => Full(n2, k)
    BY <2>1, <2>2, Fronted
  <2>4. nodes' = n2 /\ layer' = k
    BY <1>6, <2>3 DEF Scene
  <2> QED
    BY <2>1, <2>3, <2>4
<1>7. CASE /\ Live
           /\ \E sc \in Reconciled(Aged(ids), groups') :
                LET shown == BringToFront(sc, top) IN nodes' = shown.nodes /\ layer' = shown.layer
           /\ UNCHANGED <<broken, faults>>
  <2>1. PICK sc \in Reconciled(Scene(n, layer), groups') :
          /\ nodes' = BringToFront(sc, top).nodes
          /\ layer' = BringToFront(sc, top).layer
    BY <1>3, <1>7
  <2>2. PICK n2, m : /\ sc = Scene(n2, m) /\ Reached(n, groups', n2, m)
                     /\ Full(n, layer) => DrawnInv(n2, m, groups')
    BY <1>0, <1>3, ReconciledTaken
  <2>3. /\ nodes' = n2 /\ Sound(nodes', layer') /\ LocksInv(nodes', groups')
        /\ DOMAIN groups' = {} => DOMAIN nodes' = {}
        /\ Full(n2, m) => Full(nodes', layer')
    BY <1>6, <2>1, <2>2
  <2>4. Live' /\ ~broken' => DrawnInv(nodes', layer', groups')
    BY <1>0, <1>5, <1>7, <2>2, <2>3 DEF DrawnInv
  <2> QED
    BY <1>7, <2>3, <2>4 DEF ShownInv
<1>8. CASE /\ Live /\ Throw
           /\ \E sc \in Interrupted(Aged(ids), groups') :
                LET shown == BringToFront(sc, top) IN nodes' = shown.nodes /\ layer' = shown.layer
           /\ broken' = Scheduled
  <2>1. PICK sc \in Interrupted(Scene(n, layer), groups') :
          /\ nodes' = BringToFront(sc, top).nodes
          /\ layer' = BringToFront(sc, top).layer
    BY <1>3, <1>8
  <2>2. PICK n2, m : sc = Scene(n2, m) /\ Reached(n, groups', n2, m)
    BY <1>0, <1>3, InterruptedTaken
  <2>3. /\ nodes' = n2 /\ Sound(nodes', layer') /\ LocksInv(nodes', groups')
        /\ DOMAIN groups' = {} => DOMAIN nodes' = {}
    BY <1>6, <2>1, <2>2
  <2> QED
    BY <1>8, <2>3 DEF ShownInv, Scheduled
<1> QED
  BY <1>2, <1>7, <1>8 DEF SyncGroups

-----------------------------------------------------------------------------
(* The steps. *)

\* What Synced says of a step.
Followed ==
  /\ ShownInv' /\ broken' \in BOOLEAN /\ (~broken' => ~broken)
  /\ ~Live => UNCHANGED scene

LEMMA SyncedFollows ==
  ASSUME IInv, StoreStep(groups, groups'),
         NEW ids, NEW top, top = None \/ (top \in DOMAIN groups' /\ ~groups'[top].locked),
         SyncGroups(ids, top), UNCHANGED <<mount, stage>>
  PROVE  Followed
<1>1. ShownInv /\ groups \in Store /\ broken \in BOOLEAN
  BY DEF IInv, SceneInv, KindsInv, ShownInv
<1> QED
  BY <1>1, Synced DEF Followed

LEMMA RestFollows ==
  ASSUME IInv, UNCHANGED <<groups, scene, mount, stage>>
  PROVE  Followed
BY DEF IInv, SceneInv, KindsInv, Followed, ShownInv, scene, Live

\* A step that leaves mounts and GPU alone.
LEMMA StepKeeps ==
  ASSUME IInv, Followed, UNCHANGED <<life, context>>,
         groups' \in Store, drag' \in [group : Groups \cup {None}, dropped : BOOLEAN],
         online' \in BOOLEAN, pointers' \in 0..MaxFingers, dragging' \in Groups \cup {None},
         panning' \in BOOLEAN, pinch' \in BOOLEAN,
         Live \/ UNCHANGED gestures,
         drag' # NotDragging => drag # NotDragging \/ Live,
         OneGesture', LedIsInHand'
  PROVE  IInv'
<1>1. Live' = Live /\ UNCHANGED <<mount, stage, disposed, gpu, dim>>
  BY DEF life, context, Live
<1>2. KindsInv'
  BY <1>1 DEF IInv, KindsInv, Followed
<1>3. SceneInv'
  BY <1>1 DEF IInv, SceneInv, Followed, ShownInv
<1>4. AsleepInv'
  BY <1>1 DEF IInv, AsleepInv, Followed, scene, gestures
<1>5. MountsInv'
  BY <1>1 DEF IInv, MountsInv, Live
<1> QED
  BY <1>2, <1>3, <1>4, <1>5 DEF IInv

\* A message of the server's, or the loss of the socket.
LEMMA MessageKeeps ==
  ASSUME IInv, StoreStep(groups, groups'), NEW ids, SyncGroups(ids, None), Calm,
         \/ drag' = NotDragging
         \/ drag' = drag /\ DOMAIN groups' \subseteq DOMAIN groups,
         online' \in BOOLEAN
  PROVE  IInv'
<1>1. UNCHANGED <<life, context, gestures>> /\ UNCHANGED <<mount, stage, disposed>>
  BY DEF Calm, life
<1>2. Followed
  BY <1>1, SyncedFollows
<1>3. UNCHANGED <<pointers, dragging, panning, pinch>> /\ Live' = Live
  BY <1>1 DEF gestures, Live
<1>4. groups' \in Store /\ DOMAIN groups' \subseteq Groups
  BY StoreParts DEF StoreStep, IsStore
<1>5. OneGesture'
  BY <1>3 DEF IInv, OneGesture
<1>6. drag' \in [group : Groups \cup {None}, dropped : BOOLEAN]
  <2>1. NotDragging \in [group : Groups \cup {None}, dropped : BOOLEAN]
    BY DEF NotDragging
  <2> QED
    BY <2>1 DEF IInv, KindsInv
<1>7. LedIsInHand'
  <2>1. CASE drag' = NotDragging
    BY <1>4, <2>1, BoardViewAssumption DEF NotDragging, LedIsInHand
  <2>2. CASE drag' = drag /\ DOMAIN groups' \subseteq DOMAIN groups
    BY <1>3, <2>2 DEF IInv, LedIsInHand
  <2> QED
    BY <2>1, <2>2
<1> QED
  BY <1>1, <1>2, <1>3, <1>4, <1>5, <1>6, <1>7, StepKeeps DEF IInv, KindsInv

LEMMA SnapshotKeeps == ASSUME IInv, Snapshot PROVE IInv'
<1>0. groups \in Store /\ IsStore(groups)
  BY StoreParts DEF IInv, KindsInv
<1>1. StoreStep(groups, groups')
  <2> DEFINE shapes == {[locked |-> TRUE, heldBy |-> None]} \cup {[locked |-> FALSE, heldBy |-> None]}
             sets == IF groups = << >> THEN {Groups} ELSE (SUBSET DOMAIN groups) \ {{}}
  <2>1. /\ groups' \in UNION {[d -> shapes] : d \in sets}
        /\ \A id \in DOMAIN groups' \cap DOMAIN groups : groups[id].locked => groups'[id].locked
    BY DEF Snapshot, Boards
  <2>2. PICK d \in sets : groups' \in [d -> shapes]
    BY <2>1
  <2>3. d \in SUBSET Groups
    BY <1>0 DEF IsStore
  <2>4. shapes \subseteq StoreGroup
    BY DEF StoreGroup
  <2>5. groups' \in Store
    BY <2>2, <2>3, <2>4, IsAStore
  <2>6. DOMAIN groups # {} => DOMAIN groups' # {} /\ DOMAIN groups' \subseteq DOMAIN groups
    <3> SUFFICES ASSUME DOMAIN groups # {}
                 PROVE  DOMAIN groups' # {} /\ DOMAIN groups' \subseteq DOMAIN groups
      OBVIOUS
    <3>1. groups # << >>
      OBVIOUS
    <3>2. d \subseteq DOMAIN groups /\ d # {}
      <4>1. sets = (SUBSET DOMAIN groups) \ {{}}
        BY <3>1, Zenon
      <4>2. d \in sets
        BY <2>2
      <4> HIDE DEF sets
      <4>3. d \in SUBSET DOMAIN groups /\ d \notin {{}}
        BY <4>1, <4>2, Zenon
      <4> QED
        BY <4>3
    <3> QED
      BY <2>2, <3>2
  <2> QED
    BY <2>1, <2>5, <2>6 DEF StoreStep
<1> QED
  BY <1>1, MessageKeeps DEF Snapshot

LEMMA GroupHeldKeeps ==
  ASSUME IInv, NEW id, NEW g \in {None, Me, Other}, GroupHeld(id, g)
  PROVE  IInv'
<1>1. StoreStep(groups, groups') /\ DOMAIN groups' = DOMAIN groups
  BY HolderStep DEF GroupHeld, Loose, IInv, KindsInv
<1> QED
  BY <1>1, MessageKeeps DEF GroupHeld, IInv, KindsInv

LEMMA GroupReleasedKeeps ==
  ASSUME IInv, NEW id, GroupReleased(id)
  PROVE  IInv'
<1>1. StoreStep(groups, groups') /\ DOMAIN groups' = DOMAIN groups
  BY HolderStep DEF GroupReleased, Loose, IInv, KindsInv
<1> QED
  BY <1>1, MessageKeeps DEF GroupReleased, IInv, KindsInv

LEMMA GrabRefusedKeeps == ASSUME IInv, GrabRefused PROVE IInv'
<1>1. StoreStep(groups, groups')
  BY Released DEF GrabRefused, Loose, IInv, KindsInv
<1> QED
  BY <1>1, MessageKeeps DEF GrabRefused, IInv, KindsInv

LEMMA SnapResultKeeps ==
  ASSUME IInv, NEW dropped, NEW met, NEW id, NEW locked \in BOOLEAN,
         SnapResult(dropped, met, id, locked)
  PROVE  IInv'
<1>1. /\ groups \in Store /\ DOMAIN groups \in SUBSET Groups
      /\ \A i \in DOMAIN groups : groups[i] \in StoreGroup
  BY StoreParts DEF IInv, KindsInv, IsStore
<1>2. met \subseteq DOMAIN groups /\ id \in met
  BY DEF SnapResult
<1> DEFINE D == (DOMAIN groups \ met) \cup {id}
<1>3. groups' = [i \in D |-> IF i = id THEN [locked |-> locked, heldBy |-> None] ELSE groups[i]]
  BY DEF SnapResult
<1>4. D \subseteq DOMAIN groups /\ D # {}
  BY <1>2
<1>5. groups' \in [D -> StoreGroup]
  BY <1>1, <1>3 DEF StoreGroup
<1>6. groups' \in Store
  BY <1>1, <1>4, <1>5, IsAStore
<1>7. \A i \in DOMAIN groups \cap DOMAIN groups' : groups[i].locked => groups'[i].locked
  <2> SUFFICES ASSUME NEW i \in DOMAIN groups \cap DOMAIN groups', groups[i].locked
               PROVE  groups'[i].locked
    OBVIOUS
  <2>1. CASE i = id
    <3>1. locked
      BY <1>2, <2>1 DEF SnapResult
    <3> QED
      BY <1>3, <2>1, <3>1
  <2>2. CASE i # id
    BY <1>3, <2>2
  <2> QED
    BY <2>1, <2>2
<1>8. StoreStep(groups, groups') /\ DOMAIN groups' \subseteq DOMAIN groups
  BY <1>3, <1>4, <1>6, <1>7 DEF StoreStep
<1>9. drag' = NotDragging \/ drag' = drag
  BY DEF SnapResult
<1> QED
  BY <1>8, <1>9, MessageKeeps DEF SnapResult, IInv, KindsInv

LEMMA DisconnectKeeps == ASSUME IInv, Disconnect PROVE IInv'
<1>1. StoreStep(groups, groups')
  BY StoreStays DEF Disconnect, IInv, KindsInv
<1> QED
  BY <1>1, MessageKeeps DEF Disconnect

LEMMA NotifiedKeeps == ASSUME IInv, Notified PROVE IInv'
<1>1. StoreStep(groups, groups')
  BY StoreStays DEF Notified, IInv, KindsInv, store
<1> QED
  BY <1>1, MessageKeeps DEF Notified, store, IInv, KindsInv

-----------------------------------------------------------------------------
(* The pointers. *)

\* What an end of the drag does to the client.
DragEnded ==
  /\ Followed /\ groups' \in Store /\ DOMAIN groups' = DOMAIN groups /\ online' = online
  /\ drag' \in [group : Groups \cup {None}, dropped : BOOLEAN]
  /\ drag' = NotDragging \/ drag'.dropped

LEMMA EndDragEnds ==
  ASSUME IInv, EndDrag, UNCHANGED <<mount, stage>>
  PROVE  DragEnded
<1>1. /\ groups \in Store /\ drag \in [group : Groups \cup {None}, dropped : BOOLEAN]
      /\ NotDragging \in [group : Groups \cup {None}, dropped : BOOLEAN]
  BY DEF IInv, KindsInv, NotDragging
<1>2. CASE drag = NotDragging /\ UNCHANGED <<store, scene, faults>>
  <2>1. UNCHANGED <<groups, drag, online, scene>>
    BY <1>2 DEF store
  <2> QED
    BY <1>1, <1>2, <2>1, RestFollows DEF DragEnded
<1>3. CASE /\ drag # NotDragging /\ online
           /\ drag' = [drag EXCEPT !.dropped = TRUE]
           /\ UNCHANGED <<groups, online>>
           /\ SyncGroups({}, None)
  <2>1. StoreStep(groups, groups')
    BY <1>1, <1>3, StoreStays
  <2>2. Followed
    BY <1>3, <2>1, SyncedFollows
  <2> QED
    BY <1>1, <1>3, <2>2 DEF DragEnded
<1>4. CASE /\ drag # NotDragging /\ ~online
           /\ drag' = NotDragging
           /\ groups' = IF drag.group \in Loose THEN [groups EXCEPT ![drag.group].heldBy = None] ELSE groups
           /\ UNCHANGED online
           /\ SyncGroups({}, None)
  <2>1. StoreStep(groups, groups') /\ DOMAIN groups' = DOMAIN groups
    BY <1>1, <1>4, Released DEF Loose
  <2>2. Followed
    BY <1>4, <2>1, SyncedFollows
  <2> QED
    BY <1>1, <1>4, <2>1, <2>2 DEF DragEnded, StoreStep
<1> QED
  BY <1>2, <1>3, <1>4 DEF EndDrag

\* Where a drag has ended, nothing is led any more that is not dropped.
LEMMA EndedIsDropped ==
  ASSUME groups' \in Store, drag' = NotDragging \/ drag'.dropped
  PROVE  LedIsInHand'
<1>1. DOMAIN groups' \subseteq Groups
  BY StoreParts DEF IsStore
<1>2. CASE drag' = NotDragging
  BY <1>1, <1>2, BoardViewAssumption DEF LedIsInHand, NotDragging
<1>3. CASE drag'.dropped
  BY <1>3 DEF LedIsInHand
<1> QED
  BY <1>2, <1>3

LEMMA PointerUpKeeps == ASSUME IInv, PointerUp PROVE IInv'
<1>1. /\ Live /\ UNCHANGED <<life, context>> /\ UNCHANGED <<mount, stage>>
      /\ pointers' = pointers - 1 /\ pointers > 0
      /\ dragging' = None /\ panning' = FALSE /\ pinch' = PinchLasts
  BY DEF PointerUp, life
<1>2. /\ groups \in Store /\ drag \in [group : Groups \cup {None}, dropped : BOOLEAN]
      /\ online \in BOOLEAN /\ pointers \in 0..MaxFingers /\ MaxFingers \in Nat
  BY BoardViewAssumption DEF IInv, KindsInv
<1>3. pointers' \in 0..MaxFingers /\ OneGesture' /\ pinch' \in BOOLEAN
  <2>1. pinch \in BOOLEAN /\ (pinch <=> pointers >= 2)
    BY DEF IInv, OneGesture, KindsInv
  <2>2. pointers' \in 0..MaxFingers /\ (pointers' >= 2 => pointers >= 2)
    BY <1>1, <1>2
  <2>3. pinch' \in BOOLEAN /\ (pinch' <=> pointers' >= 2)
    BY <1>1, <2>1, <2>2 DEF PinchLasts
  <2> QED
    BY <1>1, <2>2, <2>3 DEF OneGesture
<1>4. CASE EndDrag
  <2>1. DragEnded
    BY <1>1, <1>4, EndDragEnds
  <2>2. LedIsInHand'
    BY <2>1, EndedIsDropped DEF DragEnded
  <2> QED
    BY <1>1, <1>2, <1>3, <2>1, <2>2, StepKeeps DEF DragEnded
<1>5. CASE dragging = None /\ UNCHANGED <<store, scene, faults>>
  <2>1. UNCHANGED <<groups, drag, online, scene>>
    BY <1>5 DEF store
  <2>2. Followed
    BY <1>1, <2>1, RestFollows
  <2>3. LedIsInHand'
    BY <1>1, <1>5, <2>1 DEF IInv, LedIsInHand, Live
  <2> QED
    BY <1>1, <1>2, <1>3, <2>1, <2>2, <2>3, StepKeeps
<1> QED
  BY <1>4, <1>5 DEF PointerUp

\* A finger more: what it does to the gesture.
Fingers == pointers' = pointers + 1 /\ pointers < MaxFingers

LEMMA PressKeeps ==
  ASSUME IInv, Live, UNCHANGED <<life, context>>, Fingers, pointers = 0, NEW hit, Press(hit)
  PROVE  IInv'
<1>1. /\ UNCHANGED <<mount, stage>> /\ Live' = Live
      /\ pointers' \in 0..MaxFingers /\ pointers' = 1 /\ MaxFingers \in Nat
  BY BoardViewAssumption DEF life, Fingers, Live
<1>2. /\ groups \in Store /\ drag \in [group : Groups \cup {None}, dropped : BOOLEAN]
      /\ online \in BOOLEAN /\ DOMAIN groups \subseteq Groups
      /\ panning \in BOOLEAN /\ pinch \in BOOLEAN /\ dragging \in Groups \cup {None}
  BY StoreParts DEF IInv, KindsInv, IsStore
<1>3. ~pinch /\ dragging = None /\ ~panning
  BY DEF IInv, OneGesture
<1>4. CASE /\ hit # None /\ MayGrab(hit)
           /\ groups' = [groups EXCEPT ![hit].heldBy = Me]
           /\ drag' = [group |-> hit, dropped |-> FALSE]
           /\ dragging' = hit
           /\ SyncGroups({}, hit)
           /\ UNCHANGED <<online, panning, pinch>>
  <2>1. hit \in DOMAIN groups /\ ~groups[hit].locked /\ hit \in Groups
    BY <1>2, <1>4 DEF MayGrab, Loose
  <2>2. /\ StoreStep(groups, groups') /\ DOMAIN groups' = DOMAIN groups
        /\ groups'[hit].locked = groups[hit].locked
    BY <1>2, <1>4, <2>1, HolderStep
  <2>3. Followed
    BY <1>1, <1>4, <2>1, <2>2, SyncedFollows
  <2>4. OneGesture'
    BY <1>1, <1>3, <1>4 DEF OneGesture
  <2>5. LedIsInHand'
    BY <1>4 DEF LedIsInHand
  <2> QED
    BY <1>1, <1>2, <1>4, <2>1, <2>2, <2>3, <2>4, <2>5, StepKeeps DEF StoreStep
<1>5. CASE UNCHANGED <<store, scene, faults, dragging, panning, pinch>>
  <2>1. UNCHANGED <<groups, drag, online, scene, dragging, panning, pinch>>
    BY <1>5 DEF store
  <2>2. Followed
    BY <1>1, <2>1, RestFollows
  <2>3. OneGesture'
    BY <1>1, <1>3, <2>1 DEF OneGesture
  <2>4. LedIsInHand'
    BY <1>1, <2>1 DEF IInv, LedIsInHand
  <2> QED
    BY <1>1, <1>2, <2>1, <2>2, <2>3, <2>4, StepKeeps
<1>6. CASE panning' = TRUE /\ UNCHANGED <<store, scene, faults, dragging, pinch>>
  <2>1. UNCHANGED <<groups, drag, online, scene, dragging, pinch>>
    BY <1>6 DEF store
  <2>2. Followed
    BY <1>1, <2>1, RestFollows
  <2>3. OneGesture'
    BY <1>1, <1>3, <1>6, <2>1 DEF OneGesture
  <2>4. LedIsInHand'
    BY <1>1, <2>1 DEF IInv, LedIsInHand
  <2> QED
    BY <1>1, <1>2, <1>6, <2>1, <2>2, <2>3, <2>4, StepKeeps
<1> QED
  BY <1>4, <1>5, <1>6 DEF Press

LEMMA PointerDownKeeps ==
  ASSUME IInv, NEW under, PointerDown(under)
  PROVE  IInv'
<1>1. /\ Live /\ Fingers /\ UNCHANGED <<life, context>> /\ UNCHANGED <<mount, stage>>
      /\ Live' = Live
  BY DEF PointerDown, Fingers, life, Live
<1>2. /\ groups \in Store /\ drag \in [group : Groups \cup {None}, dropped : BOOLEAN]
      /\ online \in BOOLEAN /\ pointers \in 0..MaxFingers /\ MaxFingers \in Nat
      /\ panning \in BOOLEAN /\ pinch \in BOOLEAN /\ dragging \in Groups \cup {None}
  BY BoardViewAssumption DEF IInv, KindsInv
<1>3. pointers' = pointers + 1 /\ pointers' \in 0..MaxFingers
  BY <1>1, <1>2 DEF Fingers
<1>4. CASE pointers = 0 /\ Press(HitTest(under))
  BY <1>1, <1>4, PressKeeps
<1>5. CASE pointers = 1 /\ CancelDrag /\ panning' = FALSE /\ pinch' = TRUE
  <2>1. OneGesture' /\ dragging' = None
    BY <1>3, <1>5 DEF OneGesture, CancelDrag
  <2>2. CASE EndDrag
    <3>1. DragEnded
      BY <1>1, <2>2, EndDragEnds
    <3>2. LedIsInHand'
      BY <3>1, EndedIsDropped DEF DragEnded
    <3> QED
      BY <1>1, <1>2, <1>3, <1>5, <2>1, <3>1, <3>2, StepKeeps DEF DragEnded
  <2>3. CASE ~(dragging # None /\ dragging \in DOMAIN groups) /\ UNCHANGED <<store, scene, faults>>
    <3>1. UNCHANGED <<groups, drag, online, scene>>
      BY <2>3 DEF store
    <3>2. Followed
      BY <1>1, <3>1, RestFollows
    <3>3. LedIsInHand'
      <4>1. DOMAIN groups \subseteq Groups
        BY <1>2, StoreParts DEF IsStore
      <4> QED
        BY <1>1, <2>3, <3>1, <4>1, BoardViewAssumption DEF IInv, LedIsInHand
    <3> QED
      BY <1>1, <1>2, <1>3, <1>5, <2>1, <3>1, <3>2, <3>3, StepKeeps
  <2> QED
    BY <1>5, <2>2, <2>3 DEF CancelDrag
<1>6. CASE pointers > 1 /\ UNCHANGED <<store, scene, faults, dragging, panning, pinch>>
  <2>1. UNCHANGED <<groups, drag, online, scene, dragging, panning, pinch>>
    BY <1>6 DEF store
  <2>2. Followed
    BY <1>1, <2>1, RestFollows
  <2>3. OneGesture'
    <3>1. (pointers >= 2) /\ (pointers' >= 2) /\ pointers # 1
      BY <1>2, <1>3, <1>6
    <3> QED
      BY <2>1, <3>1 DEF IInv, OneGesture
  <2>4. LedIsInHand'
    BY <1>1, <2>1 DEF IInv, LedIsInHand
  <2> QED
    BY <1>1, <1>2, <1>3, <2>1, <2>2, <2>3, <2>4, StepKeeps
<1> QED
  BY <1>4, <1>5, <1>6 DEF PointerDown

-----------------------------------------------------------------------------
(* The frames, the GPU and the component's life. *)

LEMMA EmptyScene == Sound(<< >>, << >>) /\ Full(<< >>, << >>) /\ DOMAIN << >> = {}
<1>1. DOMAIN << >> = {} /\ Len(<< >>) = 0 /\ << >> \in Seq(Groups)
  OBVIOUS
<1>2. << >> \in NodeMap
  <2>1. << >> \in [{} -> Node]
    BY <1>1
  <2> QED
    BY <2>1 DEF NodeMap
<1> QED
  BY <1>1, <1>2 DEF Sound, Full, Apart, Known, Beneath

LEMMA TickKeeps == ASSUME IInv, Tick PROVE IInv'
<1>1. /\ Live /\ Live' = Live
      /\ UNCHANGED <<groups, drag, online, mount, stage, disposed, gpu, pointers, dragging, panning, pinch>>
  BY DEF Tick, store, life, gestures, Live
<1>2. /\ groups \in Store /\ IsStore(groups) /\ DOMAIN groups \in SUBSET Groups /\ gpu \in {"ok", "lost"}
      /\ dim \in BOOLEAN
  BY StoreParts DEF IInv, KindsInv, IsStore
<1>3. PICK ids \in SetToSeqs(DOMAIN groups), n \in 0..Cardinality(Groups) :
        /\ n <= Len(ids)
        /\ nodes' = Rebuilt(SubSeq(ids, 1, n)).nodes
        /\ layer' = Rebuilt(SubSeq(ids, 1, n)).layer
        /\ IF n = Len(ids) THEN broken' = FALSE /\ dim' = (gpu = "lost") /\ UNCHANGED faults
                           ELSE /\ broken' = Retry /\ UNCHANGED dim
                                /\ IF gpu = "lost" THEN UNCHANGED faults ELSE Throw
  BY DEF Tick
<1>4. ids \in Seq(Groups) /\ {ids[i] : i \in 1..Len(ids)} = DOMAIN groups
  BY <1>2, SeqsOf
<1>5. Len(ids) \in Nat /\ n \in Nat /\ \A i \in 1..Len(ids) : ids[i] \in Groups
  <2>1. Len(ids) \in Nat /\ \A i \in 1..Len(ids) : ids[i] \in Groups
    BY <1>4, LenProperties, ElementOfSeq
  <2>2. n \in Nat
    BY BoardViewAssumption, FS_CardinalityType
  <2> QED
    BY <2>1, <2>2
<1> DEFINE q == SubSeq(ids, 1, n)
<1>6. q \in Seq(Groups) /\ Len(q) = n /\ \A i \in 1..n : q[i] = ids[i]
  BY <1>3, <1>4, <1>5, SubSeqProperties
<1> DEFINE S == Names(q)
<1>7. PICK n2, m : /\ After(Scene(<< >>, << >>), groups, q) = Scene(n2, m)
                   /\ Turned(groups, S, << >>, << >>, n2, m)
  BY <1>2, <1>6, AfterTaken, EmptyScene
<1>8. nodes' = n2 /\ layer' = m
  BY <1>3, <1>7 DEF Rebuilt, Scene
<1>9. /\ Sound(n2, m) /\ Full(n2, m) /\ Shown(groups, S, << >>, n2)
  BY <1>7, EmptyScene DEF Turned
<1>10. S \subseteq DOMAIN groups /\ (n = Len(ids) => S = DOMAIN groups)
  <2>1. n <= Len(ids)
    BY <1>3
  <2>2. S = {ids[i] : i \in 1..n}
    BY <1>6 DEF Names
  <2>3. \A i \in 1..n : i \in 1..Len(ids)
    BY <1>5, <2>1
  <2>4. S \subseteq {ids[i] : i \in 1..Len(ids)}
    BY <2>2, <2>3
  <2> QED
    BY <1>4, <2>2, <2>4
<1> HIDE DEF S
<1>11. DOMAIN n2 = S /\ \A id \in DOMAIN n2 : n2[id] = Drawn(groups, id)
  BY <1>9, <1>10, EmptyScene DEF Shown
<1>12. LocksInv(n2, groups)
  <2> SUFFICES ASSUME NEW id \in DOMAIN n2 \cap DOMAIN groups, n2[id].locked
               PROVE  groups[id].locked
    BY DEF LocksInv
  <2>1. Drawn(groups, id).locked = groups[id].locked
    BY Zenon DEF Drawn
  <2> QED
    BY <1>11, <2>1
<1>13. DOMAIN groups = {} => DOMAIN n2 = {}
  BY <1>10, <1>11
<1>14. CASE n = Len(ids)
  <2>1. broken' = FALSE /\ dim' = (gpu = "lost")
    BY <1>3, <1>14
  <2>2. DrawnInv(n2, m, groups)
    BY <1>9, <1>10, <1>11, <1>14 DEF DrawnInv, Drawn
  <2>3. SceneInv'
    BY <1>1, <1>2, <1>8, <1>9, <1>12, <1>13, <2>1, <2>2 DEF SceneInv
  <2>4. dim' \in BOOLEAN
    BY <2>1
  <2> QED
    BY <1>1, <2>1, <2>3, <2>4 DEF IInv, KindsInv, AsleepInv, MountsInv, OneGesture, LedIsInHand
<1>15. CASE n # Len(ids)
  <2>1. broken' = TRUE /\ dim' = dim
    BY <1>3, <1>15 DEF Retry
  <2>2. SceneInv'
    BY <1>1, <1>8, <1>9, <1>12, <1>13, <2>1 DEF SceneInv
  <2> QED
    BY <1>1, <2>1, <2>2 DEF IInv, KindsInv, AsleepInv, MountsInv, OneGesture, LedIsInHand
<1> QED
  BY <1>14, <1>15

LEMMA ContextKeeps == ASSUME IInv, ContextLost \/ ContextRestored PROVE IInv'
<1>1. /\ Live /\ Live' = Live
      /\ UNCHANGED <<groups, drag, online, mount, stage, disposed, nodes, layer>>
      /\ UNCHANGED <<pointers, dragging, panning, pinch>>
  BY DEF ContextLost, ContextRestored, store, life, scene, gestures, Live
<1>2. \/ gpu' = "lost" /\ dim' = TRUE /\ broken' = broken
      \/ gpu' = "ok" /\ dim' = dim /\ broken' = TRUE
  BY DEF ContextLost, ContextRestored, scene
<1>3. KindsInv'
  BY <1>1, <1>2 DEF IInv, KindsInv
<1>4. SceneInv'
  BY <1>1, <1>2 DEF IInv, SceneInv
<1>5. AsleepInv' /\ MountsInv'
  BY <1>1 DEF IInv, AsleepInv, MountsInv
<1>6. OneGesture' /\ LedIsInHand'
  BY <1>1 DEF IInv, OneGesture, LedIsInHand
<1> QED
  BY <1>3, <1>4, <1>5, <1>6 DEF IInv

\* Before the scene is there, and after it: only the mounts change.
LEMMA OutsideParts ==
  ASSUME Outside
  PROVE  UNCHANGED <<groups, drag, online, nodes, layer, broken, gpu, dim, pointers, dragging, panning, pinch>>
BY DEF Outside, store, scene, context, gestures

LEMMA MountKeeps == ASSUME IInv, Mount PROVE IInv'
<1>1. UNCHANGED <<groups, drag, online, nodes, layer, broken, gpu, dim, pointers, dragging, panning, pinch>>
  BY OutsideParts DEF Mount
<1>2. /\ mount \in 0..MaxMounts /\ mount + 1 \in Mounts /\ mount' = mount + 1 /\ MaxMounts \in Nat
      /\ stage \in [Mounts -> Stages]
      /\ stage' = [stage EXCEPT ![mount + 1] = "loading"] /\ disposed' = disposed
      /\ mount # 0 => mount \in disposed /\ stage[mount] = "loading"
  BY BoardViewAssumption DEF Mount, IInv, KindsInv
<1>3. /\ stage' \in [Mounts -> Stages] /\ stage'[mount'] = "loading" /\ mount' \in 0..MaxMounts
      /\ \A m \in Mounts : m # mount' => stage'[m] = stage[m]
  BY <1>2 DEF Stages, Mounts
<1>4. ~Live /\ ~Live'
  BY <1>2, <1>3 DEF Live
<1>5. drag = NotDragging
  BY <1>2 DEF IInv, MountsInv
<1>6. \A m \in Mounts : m \in 1..MaxMounts
  BY DEF Mounts
<1>7. MountsInv'
  <2>1. \A m \in Mounts : stage'[m] # "none" => m <= mount'
    BY <1>2, <1>3, <1>6 DEF IInv, MountsInv
  <2>2. ASSUME NEW m \in Mounts, m < mount' PROVE m \in disposed
    <3>1. m = mount \/ m < mount
      BY <1>2, <1>6, <2>2
    <3> QED
      BY <1>2, <1>6, <3>1 DEF IInv, MountsInv
  <2>3. \A m \in Mounts : stage'[m] = "live" => m \notin disposed
    BY <1>3 DEF IInv, MountsInv
  <2> QED
    BY <1>1, <1>2, <1>5, <2>1, <2>2, <2>3 DEF MountsInv
<1> QED
  BY <1>1, <1>3, <1>4, <1>7 DEF IInv, KindsInv, SceneInv, AsleepInv, OneGesture, LedIsInHand

LEMMA PictureArrivesKeeps ==
  ASSUME IInv, NEW m \in Mounts, PictureArrives(m)
  PROVE  IInv'
<1>1. UNCHANGED <<groups, drag, online, nodes, layer, broken, gpu, dim, pointers, dragging, panning, pinch>>
  BY OutsideParts DEF PictureArrives
<1>2. /\ UNCHANGED <<mount, disposed>> /\ stage[m] = "loading" /\ stage \in [Mounts -> Stages]
      /\ \E s \in {"gone", "starting", "failed"} : stage' = [stage EXCEPT ![m] = s]
  BY DEF PictureArrives, IInv, KindsInv
<1>3. /\ stage' \in [Mounts -> Stages] /\ \A k \in Mounts : k # m => stage'[k] = stage[k]
      /\ stage'[m] \in {"gone", "starting", "failed"}
  BY <1>2 DEF Stages
<1>4. mount \in 0..MaxMounts /\ MaxMounts \in Nat /\ (mount # 0 => mount \in Mounts)
  BY BoardViewAssumption DEF IInv, KindsInv, Mounts
<1>5. Live' = Live
  BY <1>2, <1>3, <1>4 DEF Live
<1>6. m = mount => drag = NotDragging
  BY <1>2 DEF IInv, MountsInv
<1>7. MountsInv'
  BY <1>1, <1>2, <1>3, <1>4, <1>6 DEF IInv, MountsInv
<1> QED
  BY <1>1, <1>2, <1>3, <1>5, <1>7 DEF IInv, KindsInv, SceneInv, AsleepInv, OneGesture, LedIsInHand

LEMMA PixiStartsKeeps ==
  ASSUME IInv, NEW m \in Mounts, PixiStarts(m)
  PROVE  IInv'
<1>1. /\ UNCHANGED <<groups, drag, online, mount, disposed, gpu, dim, pointers, dragging, panning, pinch>>
      /\ stage[m] = "starting" /\ stage \in [Mounts -> Stages]
  BY DEF PixiStarts, store, context, gestures, IInv, KindsInv
<1>2. mount \in 0..MaxMounts /\ MaxMounts \in Nat /\ (mount # 0 => mount \in Mounts) /\ m \in 1..MaxMounts
  BY BoardViewAssumption DEF IInv, KindsInv, Mounts
<1>3. m <= mount /\ (m < mount => m \in disposed)
  BY <1>1 DEF IInv, MountsInv
<1>4. m = mount => drag = NotDragging
  BY <1>1 DEF IInv, MountsInv
<1>5. CASE GivenUp(m) /\ stage' = [stage EXCEPT ![m] = "gone"] /\ UNCHANGED <<scene, faults>>
  <2>1. /\ stage' \in [Mounts -> Stages] /\ stage'[m] = "gone"
        /\ \A k \in Mounts : k # m => stage'[k] = stage[k]
    BY <1>1, <1>5 DEF Stages
  <2>2. UNCHANGED <<nodes, layer, broken>> /\ Live' = Live
    BY <1>1, <1>2, <1>5, <2>1 DEF scene, Live
  <2>3. MountsInv'
    BY <1>1, <1>2, <1>4, <2>1 DEF IInv, MountsInv
  <2> QED
    BY <1>1, <2>1, <2>2, <2>3 DEF IInv, KindsInv, SceneInv, AsleepInv, OneGesture, LedIsInHand
<1>6. CASE /\ ~GivenUp(m) /\ stage' = [stage EXCEPT ![m] = "live"]
           /\ \/ /\ \E sc \in Reconciled(Aged({}), groups) : nodes' = sc.nodes /\ layer' = sc.layer
                 /\ UNCHANGED <<broken, faults>>
              \/ /\ Throw
                 /\ \E sc \in Interrupted(Aged({}), groups) : nodes' = sc.nodes /\ layer' = sc.layer
                 /\ broken' = Scheduled
  <2>1. m = mount /\ m \notin disposed /\ drag = NotDragging
    BY <1>2, <1>3, <1>4, <1>6 DEF GivenUp
  <2>2. /\ stage' \in [Mounts -> Stages] /\ stage'[m] = "live"
        /\ \A k \in Mounts : k # m => stage'[k] = stage[k]
    BY <1>1, <1>6 DEF Stages
  <2>3. ~Live /\ Live'
    BY <1>1, <1>2, <2>1, <2>2 DEF Live
  <2>4. /\ Sound(nodes, layer) /\ DOMAIN nodes = {} /\ ~dim /\ pointers = 0 /\ dragging = None
        /\ IsStore(groups) /\ DOMAIN groups \subseteq Groups /\ broken \in BOOLEAN /\ ~broken
    BY <2>3, StoreParts DEF IInv, AsleepInv, SceneInv, KindsInv, IsStore
  <2>5. PICK n : /\ Aged({}) = Scene(n, layer) /\ Sound(n, layer) /\ DOMAIN n = DOMAIN nodes
                 /\ \A id \in DOMAIN n : n[id].locked = nodes[id].locked
    BY <2>4, AgedScene
  <2>6. Full(n, layer) /\ LocksInv(n, groups)
    BY <2>4, <2>5 DEF Full, LocksInv
  <2>7. \E n2, k : /\ nodes' = n2 /\ layer' = k /\ Reached(n, groups, n2, k) /\ broken' \in BOOLEAN
                   /\ ~broken' => DrawnInv(n2, k, groups)
    <3>1. CASE \E sc \in Reconciled(Aged({}), groups) : /\ nodes' = sc.nodes /\ layer' = sc.layer
                                                       /\ broken' = broken
      <4>1. PICK sc \in Reconciled(Scene(n, layer), groups) :
              nodes' = sc.nodes /\ layer' = sc.layer /\ broken' = broken
        BY <2>5, <3>1
      <4>2. PICK n2, k : /\ sc = Scene(n2, k) /\ Reached(n, groups, n2, k)
                         /\ (Full(n, layer) => DrawnInv(n2, k, groups))
        BY <2>4, <2>5, ReconciledTaken
      <4> QED
        BY <2>4, <2>6, <4>1, <4>2 DEF Scene
    <3>2. CASE \E sc \in Interrupted(Aged({}), groups) : /\ nodes' = sc.nodes /\ layer' = sc.layer
                                                        /\ broken' = Scheduled
      <4>1. PICK sc \in Interrupted(Scene(n, layer), groups) :
              nodes' = sc.nodes /\ layer' = sc.layer /\ broken' = TRUE
        BY <2>5, <3>2 DEF Scheduled
      <4>2. PICK n2, k : sc = Scene(n2, k) /\ Reached(n, groups, n2, k)
        BY <2>4, <2>5, InterruptedTaken
      <4> QED
        BY <4>1, <4>2 DEF Scene
    <3> QED
      BY <1>6, <3>1, <3>2
  <2>8. SceneInv'
    BY <1>1, <2>4, <2>5, <2>6, <2>7 DEF SceneInv, Reached
  <2>9. MountsInv'
    BY <1>1, <1>2, <2>1, <2>2 DEF IInv, MountsInv
  <2>10. LedIsInHand'
    BY <1>1, <2>1, <2>4, BoardViewAssumption DEF LedIsInHand, NotDragging
  <2>11. KindsInv' /\ AsleepInv' /\ OneGesture'
    BY <1>1, <2>2, <2>3, <2>7 DEF IInv, KindsInv, AsleepInv, OneGesture
  <2> QED
    BY <2>8, <2>9, <2>10, <2>11 DEF IInv
<1> QED
  BY <1>5, <1>6 DEF PixiStarts

LEMMA UnmountKeeps == ASSUME IInv, Unmount PROVE IInv'
<1>1. /\ UNCHANGED <<groups, drag, online, mount>> /\ mount # 0 /\ mount \notin disposed
      /\ disposed' = disposed \cup {mount}
      /\ stage' = IF Live THEN [stage EXCEPT ![mount] = "gone"] ELSE stage
      /\ nodes' = << >> /\ layer' = << >> /\ broken' = FALSE /\ gpu' = "ok" /\ dim' = FALSE
      /\ pointers' = 0 /\ dragging' = None /\ panning' = FALSE /\ pinch' = FALSE
  BY DEF Unmount, store
<1>2. mount \in Mounts /\ stage \in [Mounts -> Stages] /\ MaxFingers \in Nat
  BY <1>1, BoardViewAssumption DEF IInv, KindsInv, Mounts
<1>3. /\ stage' \in [Mounts -> Stages] /\ \A k \in Mounts : k # mount => stage'[k] = stage[k]
      /\ stage'[mount] # "live"
      /\ stage'[mount] = stage[mount] \/ (stage[mount] = "live" /\ stage'[mount] = "gone")
  <2>1. CASE Live
    BY <1>1, <1>2, <2>1 DEF Stages, Live
  <2>2. CASE ~Live
    BY <1>1, <1>2, <2>2 DEF Stages, Live
  <2> QED
    BY <2>1, <2>2
<1>4. ~Live'
  BY <1>1, <1>3 DEF Live
<1>5. MountsInv'
  BY <1>1, <1>2, <1>3 DEF IInv, MountsInv
<1>6. SceneInv'
  <2>1. Sound(nodes', layer') /\ DOMAIN nodes' = {}
    BY <1>1, EmptyScene
  <2> QED
    BY <1>1, <1>4, <2>1 DEF SceneInv, LocksInv
<1>7. AsleepInv'
  BY <1>1, EmptyScene DEF AsleepInv
<1>8. KindsInv'
  <2>1. pointers' \in 0..MaxFingers
    BY <1>1, <1>2
  <2> QED
    BY <1>1, <1>3, <2>1 DEF IInv, KindsInv
<1>9. OneGesture' /\ LedIsInHand'
  BY <1>1, <1>4 DEF OneGesture, LedIsInHand
<1> QED
  BY <1>5, <1>6, <1>7, <1>8, <1>9 DEF IInv

-----------------------------------------------------------------------------

LEMMA InitIInv == Init => IInv
<1> SUFFICES ASSUME Init PROVE IInv
  OBVIOUS
<1>1. /\ groups = << >> /\ drag = NotDragging /\ online = FALSE
      /\ mount = 0 /\ stage = [m \in Mounts |-> "none"] /\ disposed = {}
      /\ nodes = << >> /\ layer = << >> /\ broken = FALSE /\ gpu = "ok" /\ dim = FALSE
      /\ pointers = 0 /\ dragging = None /\ panning = FALSE /\ pinch = FALSE
  BY DEF Init
<1>2. groups \in Store
  <2>1. groups \in [{} -> StoreGroup]
    BY <1>1
  <2> QED
    BY <2>1, IsAStore
<1>3. MaxFingers \in Nat /\ MaxMounts \in Nat /\ ~Live
  BY <1>1, BoardViewAssumption DEF Live
<1>4. KindsInv
  <2>1. drag \in [group : Groups \cup {None}, dropped : BOOLEAN]
    BY <1>1 DEF NotDragging
  <2>2. stage \in [Mounts -> Stages] /\ mount \in 0..MaxMounts /\ pointers \in 0..MaxFingers
    BY <1>1, <1>3 DEF Stages
  <2> QED
    BY <1>1, <1>2, <2>1, <2>2 DEF KindsInv
<1>5. SceneInv
  BY <1>1, <1>3, EmptyScene DEF SceneInv, LocksInv
<1>6. AsleepInv
  BY <1>1, EmptyScene DEF AsleepInv
<1>7. MountsInv
  BY <1>1, <1>3 DEF MountsInv, Mounts
<1>8. OneGesture /\ LedIsInHand
  BY <1>1, <1>3 DEF OneGesture, LedIsInHand
<1> QED
  BY <1>4, <1>5, <1>6, <1>7, <1>8 DEF IInv

LEMMA NextIInv == IInv /\ [Next]_viewVars => IInv'
<1> SUFFICES ASSUME IInv, [Next]_viewVars PROVE IInv'
  OBVIOUS
<1>1. CASE FromServer
  BY <1>1, SnapshotKeeps, GrabRefusedKeeps, DisconnectKeeps, NotifiedKeeps, GroupReleasedKeeps,
     GroupHeldKeeps, SnapResultKeeps DEF FromServer
<1>2. CASE FromPointers
  BY <1>2, PointerUpKeeps, PointerDownKeeps DEF FromPointers
<1>3. CASE Tick \/ ContextLost \/ ContextRestored
  BY <1>3, TickKeeps, ContextKeeps
<1>4. CASE Mount \/ Unmount
  BY <1>4, MountKeeps, UnmountKeeps
<1>5. CASE \E m \in Mounts : PictureArrives(m) \/ PixiStarts(m)
  BY <1>5, PictureArrivesKeeps, PixiStartsKeeps
<1>6. CASE UNCHANGED viewVars
  <2>1. /\ UNCHANGED <<groups, drag, online, mount, stage, disposed, nodes, layer, broken, gpu, dim>>
        /\ UNCHANGED <<pointers, dragging, panning, pinch>>
    BY <1>6 DEF viewVars, store, life, scene, context, gestures
  <2>2. Live' = Live
    BY <2>1 DEF Live
  <2> QED
    BY <2>1, <2>2 DEF IInv, KindsInv, SceneInv, AsleepInv, MountsInv, OneGesture, LedIsInHand
<1> QED
  BY <1>1, <1>2, <1>3, <1>4, <1>5, <1>6 DEF Next

\* At every moment the scene is the store's, or what it lacks is known and a rebuild is
\* due; the mounts own what they made; and fingers, gesture and drag belong together.
THEOREM Inductive == Spec => []IInv
<1>1. Init => IInv
  BY InitIInv
<1>2. IInv /\ [Next]_viewVars => IInv'
  BY NextIInv
<1> QED
  BY <1>1, <1>2, PTL DEF Spec

\* What is on the page is one scene, of the mount that was not cleaned up, placed
\* pieces beneath loose ones; and unless a rebuild is due or the GPU gone it is the
\* store's, however messages were interrupted (BoardRenderer, BoardCanvas).
THEOREM SceneIsSoundCorrect == Spec => []SceneIsSound
<1>1. IInv => SceneIsSound
  <2> SUFFICES ASSUME IInv PROVE SceneIsSound
    OBVIOUS
  <2>1. /\ layer \in Seq(Groups) /\ Apart(layer) /\ Known(nodes, layer) /\ Beneath(nodes, layer)
        /\ DOMAIN nodes \subseteq Groups
    BY NodeMapParts DEF IInv, SceneInv, Sound
  <2>2. DOMAIN layer = 1..Len(layer) /\ Len(layer) \in Nat
    BY <2>1, LenProperties
  <2>3. /\ DOMAIN groups \subseteq Groups
        /\ \A id \in DOMAIN groups : groups[id].locked \in BOOLEAN /\ groups[id].heldBy \in {None, Me, Other}
    BY StoreParts DEF IInv, KindsInv, IsStore, StoreGroup
  <2>4. Range(layer) \subseteq DOMAIN nodes /\ IsInjective(layer)
    BY <2>1, <2>2 DEF Range, IsInjective, Known, Apart
  <2>5. TypeOK
    BY <2>1, <2>3, <2>4 DEF IInv, KindsInv, TypeOK, Stages
  <2>6. SceneFollowsStore
    <3> SUFFICES ASSUME Live, gpu = "ok", ~broken PROVE Faithful
      BY DEF SceneFollowsStore
    <3>1. DrawnInv(nodes, layer, groups) /\ ~dim
      BY DEF IInv, SceneInv
    <3>2. Range(layer) = DOMAIN nodes
      BY <2>2, <2>4, <3>1 DEF DrawnInv, Full, On, Range
    <3> QED
      BY <3>1, <3>2 DEF DrawnInv, Faithful
  <2>7. LockedBeneath
    <3> SUFFICES ASSUME NEW j \in DOMAIN layer, nodes[layer[j]].locked, NEW i \in 1..j
                 PROVE  nodes[layer[i]].locked
      BY DEF LockedBeneath
    <3>1. j \in 1..Len(layer) /\ i \in 1..Len(layer) /\ i <= j
      BY <2>2
    <3> QED
      BY <2>1, <3>1 DEF Beneath
  <2>8. NoOrphanScene
    <3>1. mount \in 0..MaxMounts /\ MaxMounts \in Nat /\ \A m \in Mounts : m \in 1..MaxMounts
      BY BoardViewAssumption DEF IInv, KindsInv, Mounts
    <3> SUFFICES ASSUME NEW m \in Mounts, stage[m] = "live" PROVE m = mount /\ m \notin disposed
      BY DEF NoOrphanScene
    <3>2. m \notin disposed /\ m <= mount /\ ~(m < mount)
      BY DEF IInv, MountsInv
    <3> QED
      BY <3>1, <3>2
  <2> QED
    BY <2>5, <2>6, <2>7, <2>8 DEF SceneIsSound
<1> QED
  BY <1>1, Inductive, PTL

\* Fingers, gesture and the drag the client leads agree, whatever the server, the
\* browser and the component's unmounting take away in between (InputController,
\* SyncClient.drag).
THEOREM GesturesAreSoundCorrect == Spec => []GesturesAreSound
<1>1. IInv => GesturesAreSound
  BY DEF IInv, GesturesAreSound
<1> QED
  BY <1>1, Inductive, PTL
=============================================================================
