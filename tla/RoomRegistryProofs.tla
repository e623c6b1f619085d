-------------------------- MODULE RoomRegistryProofs --------------------------
(***************************************************************************)
(* Theorems about the registry, for any number of sockets, guests, pieces  *)
(* and writes in flight: what it keeps in memory, what the store holds,    *)
(* and what the sockets are told.  Each names the incidents it excludes.   *)
(***************************************************************************)
EXTENDS RoomRegistryProps, FiniteSetTheorems, TLAPS

-----------------------------------------------------------------------------
(* Tables. *)

Holders == UNION {[ps -> Guests] : ps \in SUBSET Pieces}

LEMMA HolderFacts ==
  ASSUME NEW h \in Holders
  PROVE  /\ DOMAIN h \subseteq Pieces /\ h \in [DOMAIN h -> Guests]
         /\ \A ps : Restrict(h, DOMAIN h \ ps) \in Holders
<1>1. PICK ps \in SUBSET Pieces : h \in [ps -> Guests]
  BY DEF Holders
<1>2. DOMAIN h = ps
  BY <1>1
<1>3. ASSUME NEW qs PROVE Restrict(h, DOMAIN h \ qs) \in Holders
  <2>1. Restrict(h, DOMAIN h \ qs) \in [DOMAIN h \ qs -> Guests]
    BY <1>1, <1>2 DEF Restrict
  <2>2. DOMAIN h \ qs \in SUBSET Pieces
    BY <1>2
  <2> QED
    BY <2>1, <2>2 DEF Holders
<1> QED
  BY <1>1, <1>2, <1>3

LEMMA TableFacts ==
  ASSUME NEW t \in Tables
  PROVE  /\ t.at \in Layout /\ t.hold \in Holders /\ t.players \in SUBSET Guests
         /\ t = [at |-> t.at, hold |-> t.hold, players |-> t.players]
BY DEF Tables, Holders

LEMMA FreshTableType ==
  ASSUME NEW at \in Layout
  PROVE  FreshTable(at) \in Tables /\ LoadedRoom(at) \in [table : Tables, timer : BOOLEAN]
<1>1. << >> \in [{} -> Guests]
  OBVIOUS
<1>2. << >> \in Holders
  BY <1>1 DEF Holders
<1>3. FreshTable(at) \in Tables
  BY <1>2 DEF FreshTable, Tables, Holders
<1> QED
  BY <1>3 DEF LoadedRoom

LEMMA AllAtType == ASSUME NEW spot \in Spots PROVE AllAt(spot) \in Layout
BY DEF AllAt, Layout

LEMMA NoTableType == NoTable \in Tables /\ LoadedRoom(AllAt("Start")) \in [table : Tables, timer : BOOLEAN]
BY AllAtType, FreshTableType DEF NoTable, Spots

LEMMA HeldFacts ==
  ASSUME NEW t \in Tables, NEW p \in Pieces, NEW g \in Guests
  PROVE  /\ Held(t, p, g) \in Tables
         /\ Held(t, p, g).at = t.at /\ Held(t, p, g).players = t.players
         /\ Held(t, p, g).hold = [q \in DOMAIN t.hold \cup {p} |-> IF q = p THEN g ELSE t.hold[q]]
<1> DEFINE h == [q \in DOMAIN t.hold \cup {p} |-> IF q = p THEN g ELSE t.hold[q]]
<1>1. t.hold \in [DOMAIN t.hold -> Guests] /\ DOMAIN t.hold \subseteq Pieces
  BY TableFacts, HolderFacts
<1>2. h \in [DOMAIN t.hold \cup {p} -> Guests]
  BY <1>1
<1>3. DOMAIN t.hold \cup {p} \in SUBSET Pieces
  BY <1>1
<1>4. h \in Holders
  BY <1>2, <1>3 DEF Holders
<1>5. Held(t, p, g) = [at |-> t.at, hold |-> h, players |-> t.players]
  BY TableFacts DEF Held
<1> HIDE DEF h
<1>6. Held(t, p, g) \in Tables
  BY <1>4, <1>5, TableFacts DEF Tables, Holders
<1> QED
  BY <1>5, <1>6 DEF h

LEMMA ReleasedFacts ==
  ASSUME NEW t \in Tables, NEW ps
  PROVE  /\ Released(t, ps) \in Tables
         /\ Released(t, ps).at = t.at /\ Released(t, ps).players = t.players
         /\ Released(t, ps).hold = Restrict(t.hold, DOMAIN t.hold \ ps)
<1>1. Released(t, ps) = [at |-> t.at, hold |-> Restrict(t.hold, DOMAIN t.hold \ ps), players |-> t.players]
  BY TableFacts DEF Released
<1>2. Restrict(t.hold, DOMAIN t.hold \ ps) \in Holders
  BY TableFacts, HolderFacts
<1>3. Released(t, ps) \in Tables
  BY <1>1, <1>2, TableFacts DEF Tables, Holders
<1> QED
  BY <1>1, <1>3

LEMMA MovedFacts ==
  ASSUME NEW t \in Tables, NEW p \in Pieces, NEW spot \in Spots
  PROVE  /\ Moved(t, p, spot) \in Tables
         /\ Moved(t, p, spot).at = [t.at EXCEPT ![p] = spot]
         /\ Moved(t, p, spot).hold = t.hold /\ Moved(t, p, spot).players = t.players
<1>1. Moved(t, p, spot) = [at |-> [t.at EXCEPT ![p] = spot], hold |-> t.hold, players |-> t.players]
  BY TableFacts DEF Moved
<1>2. [t.at EXCEPT ![p] = spot] \in Layout
  BY TableFacts DEF Layout
<1>3. Moved(t, p, spot) \in Tables
  BY <1>1, <1>2, TableFacts DEF Tables, Holders
<1> QED
  BY <1>1, <1>3

LEMMA SnappedFacts ==
  ASSUME NEW t \in Tables, NEW p \in Pieces, NEW spot \in Spots
  PROVE  /\ Snapped(t, p, spot) \in Tables
         /\ Snapped(t, p, spot).at = [t.at EXCEPT ![p] = spot]
         /\ Snapped(t, p, spot).hold = Restrict(t.hold, DOMAIN t.hold \ {p})
         /\ Snapped(t, p, spot).players = t.players
<1> DEFINE m == Moved(t, p, spot)
<1>1. m \in Tables /\ m.at = [t.at EXCEPT ![p] = spot] /\ m.hold = t.hold /\ m.players = t.players
  BY MovedFacts
<1>2. Snapped(t, p, spot) = Released(m, {p})
  BY DEF Snapped
<1> HIDE DEF m
<1> QED
  BY SMTT(40), <1>1, <1>2, ReleasedFacts

LEMMA EnteredFacts ==
  ASSUME NEW t \in Tables, NEW g \in Guests
  PROVE  /\ Entered(t, g) \in Tables
         /\ Entered(t, g).at = t.at /\ Entered(t, g).hold = t.hold
         /\ Entered(t, g).players = t.players \cup {g}
<1>1. Entered(t, g) = [at |-> t.at, hold |-> t.hold, players |-> t.players \cup {g}]
  BY TableFacts DEF Entered
<1>2. Entered(t, g) \in Tables
  BY <1>1, TableFacts DEF Tables, Holders
<1> QED
  BY <1>1, <1>2

LEMMA DepartedFacts ==
  ASSUME NEW t \in Tables, NEW g
  PROVE  /\ Departed(t, g) \in Tables
         /\ Departed(t, g).at = t.at /\ Departed(t, g).players = t.players \ {g}
         /\ Departed(t, g).hold = Restrict(t.hold, DOMAIN t.hold \ HeldBy(t, g))
<1> DEFINE r == Released(t, HeldBy(t, g))
<1>1. r \in Tables /\ r.at = t.at /\ r.players = t.players
      /\ r.hold = Restrict(t.hold, DOMAIN t.hold \ HeldBy(t, g))
  BY ReleasedFacts
<1>2. r = [at |-> r.at, hold |-> r.hold, players |-> r.players]
  BY <1>1, TableFacts
<1>3. Departed(t, g) = [at |-> r.at, hold |-> r.hold, players |-> r.players \ {g}]
  BY <1>2 DEF Departed
<1> HIDE DEF r
<1>4. Departed(t, g) \in Tables
  BY <1>1, <1>3, TableFacts DEF Tables, Holders
<1> QED
  BY <1>1, <1>3, <1>4

-----------------------------------------------------------------------------
(* Incarnations and guests. *)

LEMMA OwnerType == \A c \in Conns : Owner[c] \in Guests
BY OwnerAssumption DEF Guests, Range

LEMMA Counted == Cardinality(Conns) \in Nat /\ Incarnations \subseteq Nat \ {0} /\ NoRoom \notin Incarnations
BY OwnerAssumption, FS_CardinalityType DEF Incarnations, NoRoom

\* There are more incarnations than sockets: one is free whenever no room is live.
LEMMA FreshFacts ==
  ASSUME TypeOK, live = NoRoom
  PROVE  Fresh \in Incarnations /\ \A c \in Conns : ref[c] # Fresh
<1>1. SUFFICES ASSUME \A i \in Incarnations : \E c \in Conns : ref[c] = i PROVE FALSE
  BY Counted DEF Fresh
<1> DEFINE f == [i \in Incarnations |-> CHOOSE c \in Conns : ref[c] = i]
<1>2. \A i \in Incarnations : f[i] \in Conns /\ ref[f[i]] = i
  BY <1>1
<1>3. f \in [Incarnations -> Conns]
  BY <1>2
<1> HIDE DEF f
<1>4. IsFiniteSet(Incarnations) /\ Cardinality(Incarnations) = Cardinality(Conns) + 1
  BY Counted, FS_Interval DEF Incarnations
<1>5. Cardinality(Conns) < Cardinality(Incarnations)
  BY <1>4, Counted
<1>6. \E i, j \in Incarnations : i # j /\ f[i] = f[j]
  BY <1>3, <1>4, <1>5, OwnerAssumption, FS_PigeonHole
<1> QED
  BY <1>2, <1>6

-----------------------------------------------------------------------------
(* Type correctness. *)

LEMMA InitType == Init => TypeOK
<1> SUFFICES ASSUME Init PROVE TypeOK
  OBVIOUS
<1>1. NoTable \in Tables /\ LoadedRoom(AllAt("Start")) \in [table : Tables, timer : BOOLEAN]
      /\ AllAt("Start") \in Layout
  BY NoTableType, AllAtType DEF Spots
<1>2. /\ phase \in [Conns -> Phases] /\ open \in [Conns -> BOOLEAN] /\ ref \in [Conns -> Incarnations \cup {NoRoom}]
      /\ overtaken \subseteq Conns
  BY DEF Init, Phases
<1>3. seen \in [Conns -> Tables] /\ rooms \in [Incarnations -> [table : Tables, timer : BOOLEAN]]
  BY <1>1 DEF Init
<1>4. << >> \in Seq(Writes) /\ {} \subseteq Pieces
  OBVIOUS
<1>5. live \in Incarnations \cup {NoRoom} /\ reading \in BOOLEAN /\ closing \in BOOLEAN
      /\ saves \in Seq(Writes) /\ stored \in Layout /\ confirmed \subseteq Pieces /\ announced \in BOOLEAN
  BY <1>1, <1>4 DEF Init
<1> QED
  BY <1>2, <1>3, <1>5 DEF TypeOK

\* Every action notes whose join it overtakes.
LEMMA NotedStep ==
  ASSUME [Next]_vars
  PROVE  NoteOvertaken \/ UNCHANGED vars
<1>1. CASE \E c \in Conns : Open(c) \/ JoinRequest(c) \/ Close(c) \/ Rename(c)
  BY <1>1 DEF Open, JoinRequest, Close, Rename
<1>2. CASE \E c \in Conns : Refuse(c) \/ Enter(c) \/ RecordFails(c) \/ Register(c)
  BY <1>2 DEF Refuse, Enter, RecordFails, Register
<1>3. CASE \E c \in Conns, p \in Pieces : Grab(c, p) \/ Move(c, p)
  BY <1>3 DEF Grab, Move
<1>4. CASE \E c \in Conns, p \in Pieces, spot \in {"Moved", "Home"} : Drop(c, p, spot)
  BY <1>4 DEF Drop
<1>5. CASE LoadDone \/ LoadFails \/ Sweep \/ Checkpoint
  BY <1>5 DEF LoadDone, LoadFails, Sweep, Checkpoint
<1>6. CASE SaveDone \/ SaveFails
  BY <1>6 DEF SaveDone, SaveFails, SaveSettles
<1>7. CASE Shutdown \/ Exit \/ Crash
  BY <1>7 DEF Shutdown, Exit, Crash, Vanish
<1> QED
  BY <1>1, <1>2, <1>3, <1>4, <1>5, <1>6, <1>7 DEF Next

\* The table of the live room, or of any incarnation, and its successors.
LEMMA RoomType ==
  ASSUME TypeOK, NEW i \in Incarnations
  PROVE  /\ rooms[i] \in [table : Tables, timer : BOOLEAN]
         /\ rooms[i].table \in Tables /\ rooms[i].timer \in BOOLEAN
         /\ rooms[i] = [table |-> rooms[i].table, timer |-> rooms[i].timer]
         /\ \A t \in Tables :
              /\ [rooms EXCEPT ![i].table = t] \in [Incarnations -> [table : Tables, timer : BOOLEAN]]
              /\ [rooms EXCEPT ![i].table = t][i] = [table |-> t, timer |-> rooms[i].timer]
              /\ \A b \in BOOLEAN :
                   [rooms EXCEPT ![i] = [table |-> t, timer |-> b]]
                     \in [Incarnations -> [table : Tables, timer : BOOLEAN]]
         /\ \A b \in BOOLEAN :
              /\ [rooms EXCEPT ![i].timer = b] \in [Incarnations -> [table : Tables, timer : BOOLEAN]]
              /\ [rooms EXCEPT ![i].timer = b][i] = [table |-> rooms[i].table, timer |-> b]
BY DEF TypeOK

LEMMA SaveType ==
  ASSUME TypeOK, NEW i \in Incarnations, NEW at \in Layout,
         NEW kind \in {"checkpoint", "evict", "completion", "shutdown"}
  PROVE  Save(kind, i, at) \in Seq(Writes)
BY DEF TypeOK, Writes, Save

LEMMA PersistType ==
  ASSUME TypeOK, live \in Incarnations, NEW t \in Tables, Persist(t)
  PROVE  /\ rooms' \in [Incarnations -> [table : Tables, timer : BOOLEAN]]
         /\ rooms'[live].table = t
         /\ saves' \in Seq(Writes)
<1>1. Solved(t.at) \in BOOLEAN
  BY DEF Solved
<1>2. rooms' = [rooms EXCEPT ![live] = [table |-> t, timer |-> ~Solved(t.at)]]
  BY DEF Persist
<1>3. Save("completion", live, t.at) \in Seq(Writes)
  BY TableFacts, SaveType
<1> QED
  BY <1>1, <1>2, <1>3, RoomType DEF Persist, TypeOK

LEMMA LeaveType ==
  ASSUME TypeOK, NEW c \in Conns, live # NoRoom, Leave(c)
  PROVE  /\ rooms' \in [Incarnations -> [table : Tables, timer : BOOLEAN]]
         /\ live' \in Incarnations \cup {NoRoom} /\ saves' \in Seq(Writes)
         /\ seen' \in [Conns -> Tables]
<1> DEFINE t == rooms[live].table
           left == IF LastOfGuest(c) /\ Owner[c] \in t.players THEN Departed(t, Owner[c]) ELSE t
<1>1. live \in Incarnations /\ t \in Tables /\ rooms[live].timer \in BOOLEAN
  BY RoomType DEF TypeOK
<1>2. left \in Tables /\ left.at \in Layout
  BY <1>1, DepartedFacts, TableFacts
<1>3. \A d \in Conns : seen[d] \in Tables /\ Departed(seen[d], Owner[c]) \in Tables
  BY DepartedFacts DEF TypeOK
<1>4. seen' \in [Conns -> Tables]
  BY <1>3, NoTableType DEF Leave
<1>5. saves' = (IF Evicts(c) THEN Save("evict", live, left.at) ELSE saves)
  BY DEF Leave
<1>6. \/ rooms' = [rooms EXCEPT ![live] = LoadedRoom(AllAt("Start"))]
      \/ rooms' = [rooms EXCEPT ![live] = [table |-> left, timer |-> rooms[live].timer /\ ~Evicts(c)]]
  BY DEF Leave
<1>7. live' \in Incarnations \cup {NoRoom}
  BY <1>1 DEF Leave
<1> HIDE DEF t, left
<1>8. rooms' \in [Incarnations -> [table : Tables, timer : BOOLEAN]]
  <2> DEFINE b == rooms[live].timer /\ ~Evicts(c)
  <2>1. b \in BOOLEAN
    OBVIOUS
  <2> HIDE DEF b
  <2>2. [rooms EXCEPT ![live] = [table |-> left, timer |-> b]] \in [Incarnations -> [table : Tables, timer : BOOLEAN]]
    BY <1>1, <1>2, <2>1, RoomType
  <2>3. [rooms EXCEPT ![live] = LoadedRoom(AllAt("Start"))] \in [Incarnations -> [table : Tables, timer : BOOLEAN]]
    BY <1>1, NoTableType DEF TypeOK
  <2> QED
    BY <1>6, <2>2, <2>3 DEF b
<1> QED
  BY <1>1, <1>2, <1>4, <1>5, <1>7, <1>8, SaveType DEF TypeOK

LEMMA NextType ==
  ASSUME TypeOK, Handover, [Next]_vars
  PROVE  TypeOK'
<1> USE DEF Phases, Suspended, Underway
<1>0. overtaken' \subseteq Conns
  BY NotedStep DEF TypeOK, vars, NoteOvertaken
<1> SUFFICES ASSUME overtaken' \subseteq Conns PROVE TypeOK'
  BY <1>0
<1>1. ASSUME NEW c \in Conns, Open(c) PROVE TypeOK'
  BY <1>1 DEF TypeOK, Open, memory, history
<1>2. ASSUME NEW c \in Conns, JoinRequest(c) PROVE TypeOK'
  BY <1>2 DEF TypeOK, JoinRequest, history
<1>3. ASSUME NEW c \in Conns, Close(c) PROVE TypeOK'
  <2>1. CASE phase[c] = "joined" /\ live # NoRoom
    BY <1>3, <2>1, LeaveType DEF TypeOK, Close, history
  <2>2. CASE ~(phase[c] = "joined" /\ live # NoRoom)
    <3>1. phase' \in [Conns -> Phases] /\ ref' \in [Conns -> Incarnations \cup {NoRoom}] /\ open' \in [Conns -> BOOLEAN]
      BY <1>3 DEF TypeOK, Close
    <3>2. seen' \in [Conns -> Tables]
      BY <1>3, <2>2, NoTableType DEF TypeOK, Close
    <3> QED
      BY <1>3, <2>2, <3>1, <3>2 DEF TypeOK, Close, history
  <2> QED
    BY <2>1, <2>2
<1>4. ASSUME NEW c \in Conns, Rename(c) PROVE TypeOK'
  BY <1>4, RoomType DEF TypeOK, Rename, MayAct, sockets, history
<1>5. ASSUME NEW c \in Conns, Refuse(c) PROVE TypeOK'
  BY <1>5 DEF TypeOK, Refuse, memory, history
<1>6. ASSUME NEW c \in Conns, Enter(c), ref[c] # NoRoom PROVE TypeOK'
  <2> DEFINE t == Entered(rooms[ref[c]].table, Owner[c])
  <2>1. ref[c] \in Incarnations
    BY <1>6 DEF TypeOK
  <2>2. t \in Tables
    BY <2>1, RoomType, EnteredFacts, OwnerType
  <2>3. rooms' = [rooms EXCEPT ![ref[c]].table = t]
    BY <1>6 DEF Enter
  <2> HIDE DEF t
  <2>4. rooms' \in [Incarnations -> [table : Tables, timer : BOOLEAN]]
    BY <2>1, <2>2, <2>3, RoomType
  <2>5. rooms'[ref[c]].table \in Tables
    BY <2>1, <2>4
  <2> QED
    BY <1>6, <2>4, <2>5 DEF TypeOK, Enter, history
<1>7. ASSUME NEW c \in Conns, RecordFails(c) PROVE TypeOK'
  BY <1>7 DEF TypeOK, RecordFails, memory, history
<1>8. ASSUME NEW c \in Conns, Register(c) PROVE TypeOK'
  <2>1. \A d \in Conns : seen[d] \in Tables /\ Entered(seen[d], Owner[c]) \in Tables
    BY EnteredFacts, OwnerType DEF TypeOK
  <2>2. seen' \in [Conns -> Tables]
    BY <1>8, <2>1 DEF Register, Tell, TypeOK
  <2> QED
    BY <1>8, <2>2 DEF TypeOK, Register, memory, history
<1>9. ASSUME NEW c \in Conns, NEW p \in Pieces, Grab(c, p) PROVE TypeOK'
  <2>1. live \in Incarnations
    BY <1>9 DEF Grab, MayAct, TypeOK
  <2>2. Held(rooms[live].table, p, Owner[c]) \in Tables
    BY <2>1, RoomType, HeldFacts, OwnerType
  <2>3. rooms' \in [Incarnations -> [table : Tables, timer : BOOLEAN]]
    BY <1>9, <2>1, <2>2, RoomType DEF Grab
  <2>4. \A d \in Conns : seen[d] \in Tables /\ Held(seen[d], p, Owner[c]) \in Tables
    BY HeldFacts, OwnerType DEF TypeOK
  <2>5. seen' \in [Conns -> Tables]
    BY <1>9, <2>4 DEF Grab, Tell
  <2> QED
    BY <1>9, <2>3, <2>5 DEF TypeOK, Grab, history
<1>10. ASSUME NEW c \in Conns, NEW p \in Pieces, Move(c, p) PROVE TypeOK'
  <2>1. live \in Incarnations
    BY <1>10 DEF Move, MayAct, TypeOK
  <2>2. Moved(rooms[live].table, p, "Moved") \in Tables
    BY <2>1, RoomType, MovedFacts DEF Spots
  <2>3. rooms' = [rooms EXCEPT ![live] = [table |-> Moved(rooms[live].table, p, "Moved"), timer |-> TRUE]]
    BY <1>10 DEF Move
  <2>4. rooms' \in [Incarnations -> [table : Tables, timer : BOOLEAN]]
    BY <2>1, <2>2, <2>3, RoomType
  <2>5. \A d \in Conns : seen[d] \in Tables /\ Moved(seen[d], p, "Moved") \in Tables
    BY MovedFacts DEF TypeOK, Spots
  <2>6. seen' \in [Conns -> Tables]
    BY <1>10, <2>5 DEF Move, Tell
  <2> QED
    BY <1>10, <2>4, <2>6 DEF TypeOK, Move, history
<1>11. ASSUME NEW c \in Conns, NEW p \in Pieces, NEW spot \in {"Moved", "Home"}, Drop(c, p, spot)
       PROVE  TypeOK'
  <2>1. live \in Incarnations /\ spot \in Spots
    BY <1>11 DEF Drop, MayAct, TypeOK, Spots
  <2>2. Snapped(rooms[live].table, p, spot) \in Tables
    BY <2>1, RoomType, SnappedFacts
  <2>3. rooms' \in [Incarnations -> [table : Tables, timer : BOOLEAN]] /\ saves' \in Seq(Writes)
    BY <1>11, <2>1, <2>2, PersistType DEF Drop
  <2>4. \A d \in Conns : seen[d] \in Tables /\ Snapped(seen[d], p, spot) \in Tables
    BY <2>1, SnappedFacts DEF TypeOK
  <2>5. seen' \in [Conns -> Tables]
    BY <1>11, <2>4 DEF Drop, Tell
  <2>6. confirmed' \subseteq Pieces /\ announced' \in BOOLEAN
    BY <1>11 DEF Drop, Persist, TypeOK
  <2> QED
    BY <1>11, <2>3, <2>5, <2>6 DEF TypeOK, Drop
<1>12. CASE LoadDone /\ live = NoRoom
  <2>1. Fresh \in Incarnations
    BY <1>12, FreshFacts
  <2>2. LoadedRoom(stored) \in [table : Tables, timer : BOOLEAN]
    BY FreshTableType DEF TypeOK
  <2> QED
    BY <1>12, <2>1, <2>2 DEF TypeOK, LoadDone, history
<1>13. CASE LoadFails
  BY <1>13 DEF TypeOK, LoadFails, history
<1>14. CASE Sweep
  <2>1. PICK ps :
          /\ rooms' = [rooms EXCEPT ![live].table = Released(rooms[live].table, ps)]
          /\ seen' = [d \in Conns |-> IF d \in Connections(live) THEN Released(seen[d], ps) ELSE seen[d]]
    BY <1>14 DEF Sweep, Tell
  <2>2. live \in Incarnations
    BY <1>14 DEF Sweep, TypeOK
  <2>3. rooms' \in [Incarnations -> [table : Tables, timer : BOOLEAN]]
    BY <2>1, <2>2, RoomType, ReleasedFacts
  <2>4. \A d \in Conns : seen[d] \in Tables /\ Released(seen[d], ps) \in Tables
    BY ReleasedFacts DEF TypeOK
  <2>5. seen' \in [Conns -> Tables]
    BY <2>1, <2>4
  <2> QED
    BY <1>14, <2>3, <2>5 DEF TypeOK, Sweep, history
<1>15. CASE Checkpoint
  <2>1. live \in Incarnations
    BY <1>15 DEF Checkpoint, TypeOK
  <2>2. rooms[live].table.at \in Layout
    BY <2>1, RoomType, TableFacts
  <2>3. rooms' \in [Incarnations -> [table : Tables, timer : BOOLEAN]] /\ saves' \in Seq(Writes)
    BY <1>15, <2>1, <2>2, RoomType, SaveType DEF Checkpoint
  <2> QED
    BY <1>15, <2>3 DEF TypeOK, Checkpoint, sockets, history
<1>16. CASE SaveDone \/ SaveFails
  <2>1. saves # << >> /\ saves' = Tail(saves) /\ stored' \in {Head(saves).at, stored}
    BY <1>16 DEF SaveDone, SaveFails, SaveSettles
  <2>2. saves' \in Seq(Writes) /\ Head(saves) \in Writes
    BY <2>1 DEF TypeOK
  <2>3. stored' \in Layout
    BY <2>1, <2>2 DEF TypeOK, Writes
  <2> QED
    BY <1>16, <2>2, <2>3 DEF TypeOK, SaveDone, SaveFails, SaveSettles
<1>17. CASE Shutdown
  <2>1. CASE live # NoRoom
    <3>1. live \in Incarnations /\ rooms[live].table.at \in Layout
      BY <2>1, RoomType, TableFacts DEF TypeOK
    <3> QED
      BY <1>17, <2>1, <3>1, RoomType, SaveType DEF Shutdown, FlushLiveRoom, TypeOK, sockets, history
  <2>2. CASE live = NoRoom
    BY <1>17, <2>2 DEF Shutdown, FlushLiveRoom, TypeOK, sockets, history
  <2> QED
    BY <2>1, <2>2
<1>18. CASE Exit \/ Crash
  <2>1. NoTable \in Tables /\ LoadedRoom(AllAt("Start")) \in [table : Tables, timer : BOOLEAN]
    BY NoTableType
  <2>2. phase' \in [Conns -> Phases] /\ open' \in [Conns -> BOOLEAN] /\ ref' \in [Conns -> Incarnations \cup {NoRoom}]
    BY <1>18 DEF Exit, Crash, Vanish
  <2>3. seen' \in [Conns -> Tables] /\ rooms' \in [Incarnations -> [table : Tables, timer : BOOLEAN]]
    BY <1>18, <2>1 DEF Exit, Crash, Vanish
  <2>4. << >> \in Seq(Writes)
    OBVIOUS
  <2> QED
    BY <1>18, <2>2, <2>3, <2>4 DEF Exit, Crash, Vanish, TypeOK, history
<1>19. CASE UNCHANGED vars
  BY <1>19 DEF vars, TypeOK
<1> QED
  BY <1>1, <1>2, <1>3, <1>4, <1>5, <1>6, <1>7, <1>8, <1>9, <1>10, <1>11, <1>12, <1>13, <1>14,
     <1>15, <1>16, <1>17, <1>18, <1>19 DEF Next, Handover, Enter, LoadDone

-----------------------------------------------------------------------------
(* Handover: the last write of a room, and its next reading. *)

LEMMA Appended ==
  ASSUME TypeOK, NEW i \in Incarnations, NEW at \in Layout,
         NEW kind \in {"checkpoint", "evict", "completion", "shutdown"},
         saves' = Save(kind, i, at)
  PROVE  /\ Len(saves') = Len(saves) + 1 /\ Len(saves) \in Nat
         /\ \A k \in 1..Len(saves) : saves'[k] = saves[k]
         /\ saves'[Len(saves')].kind = kind /\ saves'[Len(saves')].at = at
         /\ \A k \in 1..Len(saves') : k \in 1..Len(saves) \/ k = Len(saves')
<1> DEFINE w == [kind |-> kind, room |-> i, at |-> at]
<1>1. w \in Writes /\ w.kind = kind /\ w.at = at /\ saves \in Seq(Writes)
  BY DEF TypeOK, Writes
<1>2. saves' = Append(saves, w)
  BY DEF Save
<1> HIDE DEF w
<1> QED
  BY <1>1, <1>2

LEMMA TakenOff ==
  ASSUME TypeOK, saves # << >>, saves' = Tail(saves)
  PROVE  /\ Len(saves') = Len(saves) - 1 /\ Len(saves) \in Nat \ {0}
         /\ Head(saves) = saves[1] /\ Head(saves) \in Writes /\ 1 \in 1..Len(saves)
         /\ \A k \in 1..Len(saves') : k + 1 \in 1..Len(saves) /\ saves'[k] = saves[k + 1]
         /\ Len(saves) = 1 => saves' = << >>
         /\ saves' # << >> => saves'[Len(saves')] = saves[Len(saves)] /\ Len(saves') \in 1..Len(saves')
<1>1. saves \in Seq(Writes)
  BY DEF TypeOK
<1>2. /\ Len(saves') = Len(saves) - 1 /\ Len(saves) \in Nat \ {0}
      /\ Head(saves) = saves[1] /\ Head(saves) \in Writes /\ 1 \in 1..Len(saves)
      /\ \A k \in 1..Len(saves') : k + 1 \in 1..Len(saves) /\ saves'[k] = saves[k + 1]
  BY <1>1
<1>3. saves' \in Seq(Writes)
  BY <1>1
<1>4. Len(saves') = 0 => saves' = << >>
  BY <1>3
<1>5. saves' # << >> => Len(saves') \in 1..Len(saves')
  BY <1>3
<1> QED
  BY <1>2, <1>4, <1>5

Seated == {"naming", "recording", "retrying", "joined"}

\* What a step that leaves the room, the writes and the load alone must see to.
LEMMA HandoverKept ==
  ASSUME Handover, UNCHANGED <<saves, live, closing, reading>>,
         \A c \in Conns : phase'[c] = "loading" <=> phase[c] = "loading",
         \A c \in Conns : phase'[c] \in Seated =>
           (phase[c] \in Seated /\ ref'[c] = ref[c]) \/ ref'[c] # NoRoom
  PROVE  Handover'
BY DEF Handover, Seated

\* The live room writes; if it then leaves memory, that was its last write.
LEMMA HandoverWrites ==
  ASSUME TypeOK, Handover, live # NoRoom, UNCHANGED reading,
         NEW kind \in {"checkpoint", "evict", "completion", "shutdown"}, NEW at \in Layout,
         saves' = Save(kind, live, at),
         IF kind \in {"evict", "shutdown"} THEN live' = NoRoom ELSE live' = live,
         IF kind = "shutdown" THEN closing' ELSE closing' = closing,
         \A c \in Conns : phase'[c] = "loading" <=> phase[c] = "loading",
         \A c \in Conns : phase'[c] \in Seated => phase[c] \in Seated /\ ref'[c] = ref[c]
  PROVE  Handover'
<1>1. live \in Incarnations
  BY DEF TypeOK
<1>2. /\ Len(saves') = Len(saves) + 1 /\ Len(saves) \in Nat
      /\ \A k \in 1..Len(saves) : saves'[k] = saves[k]
      /\ saves'[Len(saves')].kind = kind
      /\ \A k \in 1..Len(saves') : k \in 1..Len(saves) \/ k = Len(saves')
  BY <1>1, Appended
<1>3. \A k \in 1..Len(saves) : saves[k].kind \notin {"evict", "shutdown"}
  BY DEF Handover
<1>4. ~reading
  BY DEF Handover
<1>6. \A k \in 1..Len(saves') :
        /\ saves'[k].kind \in {"evict", "shutdown"} => k = Len(saves') /\ live' = NoRoom
        /\ saves'[k].kind = "shutdown" => closing'
  BY <1>2, <1>3
<1>7. live' = NoRoom => saves'[Len(saves')].kind \in {"evict", "shutdown"}
  BY <1>2
<1> QED
  BY <1>4, <1>6, <1>7 DEF Handover, Seated

LEMMA HandoverStep ==
  ASSUME TypeOK, TypeOK', Handover, [Next]_vars
  PROVE  Handover'
<1> USE DEF Seated
<1>1. ASSUME NEW c \in Conns, Open(c) \/ Refuse(c) \/ Enter(c) \/ RecordFails(c) \/ Register(c) \/ Rename(c)
      PROVE  Handover'
  <2>1. UNCHANGED <<saves, live, closing, reading>>
    BY <1>1 DEF Open, Refuse, Enter, RecordFails, Register, Rename, memory
  <2>2. \A d \in Conns : d # c => phase'[d] = phase[d] /\ ref'[d] = ref[d]
    BY <1>1 DEF Open, Refuse, Enter, RecordFails, Register, Rename, memory, sockets, TypeOK
  <2>3. (phase'[c] = "loading" <=> phase[c] = "loading")
        /\ (phase'[c] \in Seated => phase[c] \in Seated /\ ref'[c] = ref[c])
    BY <1>1 DEF Open, Refuse, Enter, RecordFails, Register, Rename, memory, sockets, TypeOK
  <2> QED
    BY <2>1, <2>2, <2>3, HandoverKept
<1>2. ASSUME NEW c \in Conns, JoinRequest(c) PROVE Handover'
  <2>1. \A d \in Conns : d # c => phase'[d] = phase[d] /\ ref'[d] = ref[d]
    BY <1>2 DEF JoinRequest, TypeOK
  <2>2. CASE closing \/ Evicting \/ live # NoRoom
    <3>1. UNCHANGED <<saves, live, closing, reading>>
      BY <1>2, <2>2 DEF JoinRequest, TypeOK
    <3>2. (phase'[c] = "loading" <=> phase[c] = "loading") /\ (phase'[c] \in Seated => ref'[c] # NoRoom)
      BY <1>2, <2>2 DEF JoinRequest, TypeOK
    <3> QED
      BY <2>1, <3>1, <3>2, HandoverKept
  <2>3. CASE ~closing /\ ~Evicting /\ live = NoRoom
    <3>1. saves = << >>
      <4>1. SUFFICES ASSUME saves # << >> PROVE FALSE
        OBVIOUS
      <4>2. Len(saves) \in 1..Len(saves) /\ Len(saves) \in DOMAIN saves
        BY <4>1 DEF TypeOK
      <4> QED
        BY <2>3, <4>1, <4>2 DEF Handover, Evicting
    <3>2. phase'[c] = "loading" /\ reading' /\ UNCHANGED <<saves, live, closing>>
      BY <1>2, <2>3 DEF JoinRequest, TypeOK
    <3> QED
      BY <2>1, <2>3, <3>1, <3>2 DEF Handover
  <2> QED
    BY <2>2, <2>3
<1>3. ASSUME NEW c \in Conns, Close(c) PROVE Handover'
  <2>1. \A d \in Conns : d # c => phase'[d] = phase[d] /\ ref'[d] = ref[d]
    BY <1>3 DEF Close, TypeOK
  <2>2. (phase'[c] = "loading" <=> phase[c] = "loading")
        /\ (phase'[c] \in Seated => phase[c] \in Seated /\ ref'[c] = ref[c])
    BY <1>3 DEF Close, TypeOK
  <2>3. UNCHANGED <<closing, reading>>
    BY <1>3 DEF Close
  <2>4. CASE phase[c] = "joined" /\ live # NoRoom /\ Evicts(c)
    <3>1. PICK at \in Layout : saves' = Save("evict", live, at)
      <4> DEFINE t == rooms[live].table
                 left == IF LastOfGuest(c) /\ Owner[c] \in t.players THEN Departed(t, Owner[c]) ELSE t
      <4>1. live \in Incarnations /\ t \in Tables
        BY <2>4, RoomType DEF TypeOK
      <4>2. left.at \in Layout
        BY <4>1, DepartedFacts, TableFacts
      <4>3. saves' = Save("evict", live, left.at)
        BY <1>3, <2>4 DEF Close, Leave
      <4> QED
        BY <4>2, <4>3
    <3>2. live' = NoRoom
      BY <1>3, <2>4 DEF Close, Leave
    <3> QED
      BY <2>1, <2>2, <2>3, <2>4, <3>1, <3>2, HandoverWrites
  <2>5. CASE ~(phase[c] = "joined" /\ live # NoRoom /\ Evicts(c))
    <3>1. UNCHANGED <<live, saves>>
      BY <1>3, <2>5 DEF Close, Leave
    <3> QED
      BY <2>1, <2>2, <2>3, <3>1, HandoverKept
  <2> QED
    BY <2>4, <2>5
<1>4. ASSUME NEW c \in Conns, NEW p \in Pieces, Grab(c, p) \/ Move(c, p) PROVE Handover'
  BY <1>4, HandoverKept DEF Grab, Move
<1>5. ASSUME NEW c \in Conns, NEW p \in Pieces, NEW spot \in {"Moved", "Home"}, Drop(c, p, spot)
      PROVE  Handover'
  <2>1. live # NoRoom /\ UNCHANGED <<phase, ref, live, reading, closing>>
    BY <1>5 DEF Drop, MayAct
  <2>2. PICK at \in Layout : saves' \in {saves, Save("completion", live, at)}
    <3>1. Snapped(rooms[live].table, p, spot) \in Tables
      BY <2>1, RoomType, SnappedFacts DEF TypeOK, Spots
    <3> QED
      BY <1>5, <3>1, TableFacts DEF Drop, Persist
  <2>3. CASE saves' = saves
    BY <2>1, <2>3, HandoverKept
  <2>4. CASE saves' = Save("completion", live, at)
    BY <2>1, <2>4, HandoverWrites
  <2> QED
    BY <2>2, <2>3, <2>4
<1>6. CASE LoadDone
  <2>1. live = NoRoom /\ saves = << >>
    BY <1>6 DEF LoadDone, Handover
  <2>2. Fresh \in Incarnations /\ Fresh # NoRoom
    BY <2>1, FreshFacts, Counted
  <2>3. saves' = << >> /\ ~reading' /\ live' = Fresh
    BY <1>6, <2>1 DEF LoadDone
  <2>4. \A c \in Conns : phase'[c] # "loading"
    BY <1>6 DEF LoadDone
  <2>5. \A c \in Conns : phase'[c] \in Seated => ref'[c] # NoRoom
    BY <1>6, <2>2 DEF LoadDone, Handover
  <2> QED
    BY <2>2, <2>3, <2>4, <2>5 DEF Handover
<1>7. CASE LoadFails
  <2>1. \A c \in Conns : phase'[c] # "loading" /\ (phase'[c] \in Seated => phase'[c] = phase[c])
    BY <1>7 DEF LoadFails
  <2> QED
    BY <1>7, <2>1 DEF LoadFails, Handover
<1>8. CASE Sweep
  BY <1>8, HandoverKept DEF Sweep
<1>9. CASE Checkpoint
  <2>1. rooms[live].table.at \in Layout
    BY <1>9, RoomType, TableFacts DEF Checkpoint, TypeOK
  <2> QED
    BY <1>9, <2>1, HandoverWrites DEF Checkpoint, sockets
<1>10. CASE SaveDone \/ SaveFails
  <2>1. /\ saves # << >> /\ saves' = Tail(saves) /\ UNCHANGED <<live, ref, closing>>
        /\ phase' = [c \in Conns |-> IF Flushes(Head(saves)) /\ phase[c] = "gated" THEN "loading" ELSE phase[c]]
        /\ reading' = (reading \/ (Flushes(Head(saves)) /\ \E c \in Conns : phase[c] = "gated"))
    BY <1>10 DEF SaveDone, SaveFails, SaveSettles
  <2>2. /\ Len(saves') = Len(saves) - 1 /\ Len(saves) \in Nat \ {0}
        /\ \A k \in 1..Len(saves') : k + 1 \in 1..Len(saves) /\ saves'[k] = saves[k + 1]
    BY <2>1, TakenOff
  <2>3. ~reading
    BY <2>1 DEF Handover
  <2>4. reading' => live' = NoRoom /\ saves' = << >>
    <3>1. SUFFICES ASSUME Flushes(Head(saves)) PROVE live' = NoRoom /\ saves' = << >>
      BY <2>1, <2>3
    <3>2. Head(saves) = saves[1] /\ 1 \in 1..Len(saves)
      BY <2>1, TakenOff
    <3>3. Len(saves) = 1 /\ live = NoRoom
      BY <3>1, <3>2 DEF Handover, Flushes
    <3> QED
      BY <2>1, <3>3, TakenOff
  <2>5. reading' <=> \E c \in Conns : phase'[c] = "loading"
    BY <2>1, <2>3 DEF Handover, TypeOK
  <2>6. \A k \in 1..Len(saves') :
          /\ saves'[k].kind \in {"evict", "shutdown"} => k = Len(saves') /\ live' = NoRoom
          /\ saves'[k].kind = "shutdown" => closing'
    <3> SUFFICES ASSUME NEW k \in 1..Len(saves')
                 PROVE  /\ saves'[k].kind \in {"evict", "shutdown"} => k = Len(saves') /\ live' = NoRoom
                        /\ saves'[k].kind = "shutdown" => closing'
      OBVIOUS
    <3>1. k + 1 \in 1..Len(saves) /\ saves'[k] = saves[k + 1]
      BY <2>2
    <3>2. /\ saves[k + 1].kind \in {"evict", "shutdown"} => k + 1 = Len(saves) /\ live = NoRoom
          /\ saves[k + 1].kind = "shutdown" => closing
      BY <3>1 DEF Handover
    <3>3. k + 1 = Len(saves) => k = Len(saves')
      BY <2>2
    <3>4. saves'[k].kind = saves[k + 1].kind /\ live' = live /\ closing' = closing
      BY <2>1, <3>1
    <3> QED
      BY <3>2, <3>3, <3>4
  <2>7. live' = NoRoom /\ saves' # << >> => saves'[Len(saves')].kind \in {"evict", "shutdown"}
    <3>1. SUFFICES ASSUME live' = NoRoom, saves' # << >>
                   PROVE  saves'[Len(saves')].kind \in {"evict", "shutdown"}
      OBVIOUS
    <3>2. saves'[Len(saves')] = saves[Len(saves)]
      BY <2>1, <3>1, TakenOff
    <3> QED
      BY <2>1, <3>1, <3>2 DEF Handover
  <2>8. \A c \in Conns : phase'[c] \in Seated => ref'[c] # NoRoom
    BY <2>1 DEF Handover, TypeOK
  <2> QED
    BY <2>4, <2>5, <2>6, <2>7, <2>8 DEF Handover
<1>11. CASE Shutdown
  <2>1. CASE live # NoRoom
    <3>1. rooms[live].table.at \in Layout
      BY <2>1, RoomType, TableFacts DEF TypeOK
    <3> QED
      BY <1>11, <2>1, <3>1, HandoverWrites DEF Shutdown, FlushLiveRoom, sockets
  <2>2. CASE live = NoRoom
    BY <1>11, <2>2 DEF Shutdown, FlushLiveRoom, Handover, sockets
  <2> QED
    BY <2>1, <2>2
<1>12. CASE Exit \/ Crash
  BY <1>12 DEF Exit, Crash, Vanish, Handover
<1>13. CASE UNCHANGED vars
  BY <1>13, HandoverKept DEF vars
<1> QED
  BY <1>1, <1>2, <1>3, <1>4, <1>5, <1>6, <1>7, <1>8, <1>9, <1>10, <1>11, <1>12, <1>13 DEF Next

-----------------------------------------------------------------------------
(* What is done in the live room. *)

\* Steps that change the live room's table, or write it, and leave it live.
InRoom ==
  \/ \E c \in Conns : Rename(c)
  \/ \E c \in Conns, p \in Pieces : Grab(c, p) \/ Move(c, p)
  \/ \E c \in Conns, p \in Pieces, spot \in {"Moved", "Home"} : Drop(c, p, spot)
  \/ Sweep \/ Checkpoint

\* A piece that is not home is put somewhere.
LEMMA PutFacts ==
  ASSUME NEW at \in Layout, NEW p \in Pieces, at[p] # "Home", NEW spot \in Spots
  PROVE  /\ AtHome(at) \subseteq AtHome([at EXCEPT ![p] = spot])
         /\ spot = "Home" => p \in AtHome([at EXCEPT ![p] = spot])
         /\ ~Solved(at)
BY DEF Layout, AtHome, Solved, AllAt

LEMMA InRoomFacts ==
  ASSUME TypeOK, InRoom
  PROVE  /\ live \in Incarnations /\ UNCHANGED <<phase, open, ref, live, reading, closing, stored, announced>>
         /\ \A i \in Incarnations : i # live => rooms'[i] = rooms[i]
         /\ rooms'[live].table.players = rooms[live].table.players
         /\ AtHome(rooms[live].table.at) \subseteq AtHome(rooms'[live].table.at)
         /\ Solved(rooms[live].table.at) => rooms'[live].table.at = rooms[live].table.at
         /\ confirmed' \subseteq confirmed \cup AtHome(rooms'[live].table.at)
         /\ \/ saves' = saves
            \/ saves' = Save("checkpoint", live, rooms'[live].table.at)
            \/ Solved(rooms'[live].table.at) /\ saves' = Save("completion", live, rooms'[live].table.at)
<1>1. live \in Incarnations /\ UNCHANGED <<phase, open, ref, live, reading, closing, stored, announced>>
  BY DEF InRoom, Rename, Grab, Move, Drop, Persist, Sweep, Checkpoint, MayAct, sockets, history, TypeOK
<1> DEFINE t == rooms[live].table
<1>2. t \in Tables /\ t.at \in Layout
  BY <1>1, RoomType, TableFacts
<1>3. ASSUME NEW c \in Conns, NEW p \in Pieces, NEW spot \in Spots, NEW u \in Tables,
             t.at[p] # "Home", u.at = [t.at EXCEPT ![p] = spot]
      PROVE  /\ AtHome(t.at) \subseteq AtHome(u.at) /\ ~Solved(t.at)
             /\ spot = "Home" => p \in AtHome(u.at)
  BY <1>2, <1>3, PutFacts
<1>4. ASSUME NEW c \in Conns, Rename(c)
      PROVE  rooms'[live].table = t /\ UNCHANGED <<saves, confirmed>> /\ \A i \in Incarnations : i # live => rooms'[i] = rooms[i]
  BY <1>1, <1>4, RoomType DEF Rename, history, TypeOK
<1>5. ASSUME NEW c \in Conns, NEW p \in Pieces, Grab(c, p)
      PROVE  /\ rooms'[live].table.at = t.at /\ rooms'[live].table.players = t.players
             /\ UNCHANGED <<saves, confirmed>> /\ \A i \in Incarnations : i # live => rooms'[i] = rooms[i]
  <2> DEFINE u == Held(t, p, Owner[c])
  <2>1. u \in Tables /\ u.at = t.at /\ u.players = t.players
    BY ZenonT(60), <1>2, HeldFacts, OwnerType
  <2>2. rooms' = [rooms EXCEPT ![live].table = u] /\ UNCHANGED <<saves, confirmed>>
    BY <1>5 DEF Grab, history
  <2> HIDE DEF u
  <2> QED
    BY <1>1, <2>1, <2>2, RoomType DEF TypeOK
<1>6. ASSUME NEW c \in Conns, NEW p \in Pieces, Move(c, p)
      PROVE  /\ AtHome(t.at) \subseteq AtHome(rooms'[live].table.at) /\ ~Solved(t.at)
             /\ rooms'[live].table.players = t.players
             /\ UNCHANGED <<saves, confirmed>> /\ \A i \in Incarnations : i # live => rooms'[i] = rooms[i]
  <2> DEFINE u == Moved(t, p, "Moved")
  <2>1. u \in Tables /\ u.at = [t.at EXCEPT ![p] = "Moved"] /\ u.players = t.players
    BY <1>2, MovedFacts DEF Spots
  <2>2. t.at[p] # "Home"
    BY <1>6 DEF Move, Holds, Playable
  <2>3. rooms' = [rooms EXCEPT ![live] = [table |-> u, timer |-> TRUE]] /\ UNCHANGED <<saves, confirmed>>
    BY <1>6 DEF Move, history
  <2> HIDE DEF u
  <2>4. rooms'[live].table = u /\ \A i \in Incarnations : i # live => rooms'[i] = rooms[i]
    BY <1>1, <2>3 DEF TypeOK
  <2> QED
    BY <1>3, <2>1, <2>2, <2>3, <2>4 DEF Spots
<1>7. ASSUME NEW c \in Conns, NEW p \in Pieces, NEW spot \in {"Moved", "Home"}, Drop(c, p, spot)
      PROVE  /\ AtHome(t.at) \subseteq AtHome(rooms'[live].table.at) /\ ~Solved(t.at)
             /\ rooms'[live].table.players = t.players
             /\ confirmed' \subseteq confirmed \cup AtHome(rooms'[live].table.at)
             /\ \A i \in Incarnations : i # live => rooms'[i] = rooms[i]
             /\ \/ saves' = saves
                \/ Solved(rooms'[live].table.at) /\ saves' = Save("completion", live, rooms'[live].table.at)
  <2> DEFINE u == Snapped(t, p, spot)
  <2>1. u \in Tables /\ u.at = [t.at EXCEPT ![p] = spot] /\ u.players = t.players /\ spot \in Spots
    <3>1. spot \in Spots
      BY DEF Spots
    <3>2. t \in Tables
      BY <1>2
    <3> HIDE DEF t
    <3>3. u \in Tables /\ u.players = t.players
      BY <3>1, <3>2, SnappedFacts
    <3>4. u.at = [t.at EXCEPT ![p] = spot]
      BY ZenonT(60), <3>1, <3>2, SnappedFacts
    <3> QED
      BY <3>1, <3>3, <3>4
  <2>2. t.at[p] # "Home"
    BY <1>7 DEF Drop, Holds, Playable
  <2>3. /\ rooms' = [rooms EXCEPT ![live] = [table |-> u, timer |-> ~Solved(u.at)]]
        /\ saves' = IF Solved(u.at) THEN Save("completion", live, u.at) ELSE saves
        /\ confirmed' \subseteq IF spot = "Home" THEN confirmed \cup {p} ELSE confirmed
    BY <1>7 DEF Drop, Persist
  <2> HIDE DEF u
  <2>4. rooms'[live].table = u /\ \A i \in Incarnations : i # live => rooms'[i] = rooms[i]
    BY <1>1, <2>3 DEF TypeOK
  <2>5. AtHome(t.at) \subseteq AtHome(u.at) /\ ~Solved(t.at) /\ (spot = "Home" => p \in AtHome(u.at))
    BY <1>3, <2>1, <2>2
  <2> QED
    BY <2>1, <2>3, <2>4, <2>5
<1>8. ASSUME Sweep
      PROVE  /\ rooms'[live].table.at = t.at /\ rooms'[live].table.players = t.players
             /\ UNCHANGED <<saves, confirmed>> /\ \A i \in Incarnations : i # live => rooms'[i] = rooms[i]
  <2>1. PICK ps : rooms' = [rooms EXCEPT ![live].table = Released(t, ps)]
    BY <1>8 DEF Sweep
  <2> DEFINE u == Released(t, ps)
  <2>2. u \in Tables /\ u.at = t.at /\ u.players = t.players
    BY <1>2, ReleasedFacts
  <2>3. rooms' = [rooms EXCEPT ![live].table = u] /\ UNCHANGED <<saves, confirmed>>
    BY <1>8, <2>1 DEF Sweep, history
  <2> HIDE DEF u
  <2> QED
    BY <1>1, <2>2, <2>3, RoomType DEF TypeOK
<1>9. ASSUME Checkpoint
      PROVE  /\ rooms'[live].table = t /\ \A i \in Incarnations : i # live => rooms'[i] = rooms[i]
             /\ confirmed' = confirmed /\ saves' = Save("checkpoint", live, t.at)
  BY <1>1, <1>9, RoomType DEF Checkpoint, history, TypeOK
<1>10. CASE \E c \in Conns : Rename(c)
  BY <1>1, <1>4, <1>10
<1>11. CASE \E c \in Conns, p \in Pieces : Grab(c, p) \/ Move(c, p)
  BY <1>1, <1>5, <1>6, <1>11
<1>12. CASE \E c \in Conns, p \in Pieces, spot \in {"Moved", "Home"} : Drop(c, p, spot)
  BY <1>1, <1>7, <1>12
<1>13. CASE Sweep \/ Checkpoint
  BY <1>1, <1>8, <1>9, <1>13
<1> QED
  BY <1>10, <1>11, <1>12, <1>13 DEF InRoom

\* The table a guest enters.
LEMMA EnterFacts ==
  ASSUME TypeOK, Handover, NEW c \in Conns, Enter(c)
  PROVE  /\ ref[c] \in Incarnations /\ rooms'[ref[c]].table = Entered(rooms[ref[c]].table, Owner[c])
         /\ rooms'[ref[c]].table.at = rooms[ref[c]].table.at
         /\ rooms'[ref[c]].table.hold = rooms[ref[c]].table.hold
         /\ rooms'[ref[c]].table.players = rooms[ref[c]].table.players \cup {Owner[c]}
         /\ \A i \in Incarnations : i # ref[c] => rooms'[i] = rooms[i]
<1>1. ref[c] \in Incarnations
  BY DEF Enter, Handover, TypeOK
<1> DEFINE t == rooms[ref[c]].table
           u == Entered(t, Owner[c])
<1>2. t \in Tables
  BY <1>1, RoomType
<1>3. u \in Tables /\ u.at = t.at /\ u.hold = t.hold /\ u.players = t.players \cup {Owner[c]}
  BY <1>2, EnteredFacts, OwnerType
<1>4. rooms' = [rooms EXCEPT ![ref[c]].table = u]
  BY DEF Enter
<1> HIDE DEF u
<1>5. rooms'[ref[c]].table = u /\ \A i \in Incarnations : i # ref[c] => rooms'[i] = rooms[i]
  BY <1>1, <1>3, <1>4, RoomType DEF TypeOK
<1> QED
  BY <1>1, <1>3, <1>5 DEF u

\* The table a socket leaves.
LEMMA LeaveFacts ==
  ASSUME TypeOK, NEW c \in Conns, live # NoRoom, Leave(c)
  PROVE  /\ live \in Incarnations
         /\ \A i \in Incarnations : i # live => rooms'[i] = rooms[i]
         /\ Evicts(c) => live' = NoRoom /\ saves' = Save("evict", live, rooms[live].table.at)
         /\ ~Evicts(c) =>
              /\ UNCHANGED <<live, saves>>
              /\ IF LastOfGuest(c) /\ Owner[c] \in rooms[live].table.players
                   THEN /\ rooms'[live].table.players = rooms[live].table.players \ {Owner[c]}
                        /\ rooms'[live].table.at = rooms[live].table.at
                        /\ rooms'[live].table = Departed(rooms[live].table, Owner[c])
                   ELSE rooms'[live].table = rooms[live].table
<1>1. live \in Incarnations
  BY DEF TypeOK
<1> DEFINE t == rooms[live].table
           departs == LastOfGuest(c) /\ Owner[c] \in t.players
           left == IF departs THEN Departed(t, Owner[c]) ELSE t
<1>2. t \in Tables /\ Departed(t, Owner[c]) \in Tables /\ Departed(t, Owner[c]).at = t.at
      /\ Departed(t, Owner[c]).players = t.players \ {Owner[c]}
  <2>1. t \in Tables
    BY <1>1, RoomType
  <2> HIDE DEF t
  <2> QED
    BY <2>1, DepartedFacts
<1>3. left.at = t.at
  BY <1>2
<1>4. \A i \in Incarnations : i # live => rooms'[i] = rooms[i]
  BY DEF Leave, TypeOK
<1>5. /\ Evicts(c) => live' = NoRoom /\ saves' = Save("evict", live, left.at)
      /\ ~Evicts(c) => /\ UNCHANGED <<live, saves>>
                       /\ rooms' = [rooms EXCEPT ![live] = [table |-> left, timer |-> rooms[live].timer /\ ~Evicts(c)]]
  BY DEF Leave
<1>6. ~Evicts(c) => rooms'[live].table = left
  BY <1>1, <1>5 DEF TypeOK
<1> QED
  BY <1>1, <1>2, <1>3, <1>4, <1>5, <1>6

-----------------------------------------------------------------------------
(* What the process keeps in memory. *)

Here(i) == {c \in Conns : phase[c] \in Seated /\ ref[c] = i}

LEMMA HereIs == \A i : Connections(i) \cup Joining(i) = Here(i)
BY DEF Connections, Joining, Here, Seated

\* Nobody leaves the room, and only somebody in it becomes its guest.
LEMMA InhabitedKept ==
  ASSUME LiveIsInhabited, live' = live, closing' = closing,
         \A c \in Here(live) : phase'[c] \in Seated /\ ref'[c] = ref[c],
         live # NoRoom => rooms'[live].table.players \subseteq rooms[live].table.players \cup {Owner[c] : c \in Here(live)}
  PROVE  LiveIsInhabited'
<1> SUFFICES ASSUME live # NoRoom, ~closing
             PROVE  Here(live)' # {} /\ rooms'[live].table.players \subseteq {Owner[c] : c \in Here(live)'}
  BY HereIs DEF LiveIsInhabited, Connections, Joining, Here, Seated
<1>1. Here(live) # {} /\ rooms[live].table.players \subseteq {Owner[c] : c \in Here(live)}
  BY HereIs DEF LiveIsInhabited
<1>2. Here(live) \subseteq Here(live)'
  BY DEF Here
<1> QED
  BY <1>1, <1>2

LEMMA InhabitedStep ==
  ASSUME TypeOK, TypeOK', Handover, LiveIsInhabited, [Next]_vars
  PROVE  LiveIsInhabited'
<1> USE DEF Seated
<1>1. ASSUME NEW c \in Conns, Open(c) \/ JoinRequest(c) \/ RecordFails(c) \/ Register(c) PROVE LiveIsInhabited'
  <2>1. UNCHANGED <<rooms, live, closing>>
    BY <1>1 DEF Open, JoinRequest, RecordFails, Register, memory
  <2>2. \A d \in Here(live) : phase'[d] \in Seated /\ ref'[d] = ref[d]
    BY <1>1 DEF Open, JoinRequest, RecordFails, Register, TypeOK, Here
  <2> QED
    BY <2>1, <2>2, InhabitedKept
<1>2. ASSUME NEW c \in Conns, Refuse(c) PROVE LiveIsInhabited'
  <2> SUFFICES ASSUME live # NoRoom, ~closing
               PROVE  Here(live)' # {} /\ rooms[live].table.players \subseteq {Owner[d] : d \in Here(live)'}
    BY <1>2, HereIs DEF LiveIsInhabited, Refuse, memory, Connections, Joining, Here
  <2>1. Here(live) # {} /\ rooms[live].table.players \subseteq {Owner[d] : d \in Here(live)}
    BY HereIs DEF LiveIsInhabited
  <2>2. Here(live) \ {c} \subseteq Here(live)'
    BY <1>2 DEF Refuse, memory, Here, TypeOK
  <2>3. CASE ref[c] # live
    BY <2>1, <2>2, <2>3 DEF Here
  <2>4. CASE ref[c] = live
    <3>1. Owner[c] \notin rooms[live].table.players /\ Cardinality(rooms[live].table.players) >= Cap
      BY <1>2, <2>4 DEF Refuse, RoomFull
    <3>2. rooms[live].table.players # {}
      BY <3>1, FS_EmptySet, BoundAssumption
    <3> QED
      BY <2>1, <2>2, <3>1, <3>2
  <2> QED
    BY <2>3, <2>4
<1>3. ASSUME NEW c \in Conns, Enter(c) PROVE LiveIsInhabited'
  <2>1. UNCHANGED <<live, closing>> /\ \A d \in Here(live) : phase'[d] \in Seated /\ ref'[d] = ref[d]
    BY <1>3 DEF Enter, TypeOK, Here
  <2>2. ref[c] = live => c \in Here(live)
    BY <1>3 DEF Enter, Here
  <2>3. live # NoRoom => rooms'[live].table.players \subseteq rooms[live].table.players \cup {Owner[d] : d \in Here(live)}
    BY <1>3, <2>2, EnterFacts DEF TypeOK
  <2> QED
    BY <2>1, <2>3, InhabitedKept
<1>4. CASE InRoom
  BY <1>4, InRoomFacts, InhabitedKept DEF Here
<1>5. ASSUME NEW c \in Conns, Close(c) PROVE LiveIsInhabited'
  <2>1. closing' = closing
    BY <1>5 DEF Close
  <2>2. CASE phase[c] = "joined" /\ live # NoRoom
    <3>1. Leave(c)
      BY <1>5, <2>2 DEF Close
    <3>2. SUFFICES ASSUME live' # NoRoom, ~closing
                   PROVE  Here(live)' # {} /\ rooms'[live].table.players \subseteq {Owner[d] : d \in Here(live)'}
      <4>1. live' # NoRoom => live' = live
        BY <2>2, <3>1, LeaveFacts
      <4> QED
        BY <2>1, <3>2, <4>1, HereIs DEF LiveIsInhabited, Connections, Joining, Here
    <3>3. ~Evicts(c) /\ live' = live
      BY <2>2, <3>1, <3>2, LeaveFacts
    <3>4. PICK d \in Conns : phase[d] = "joined" /\ ref[d] = live /\ d # c
      BY <3>2, <3>3 DEF Evicts, Others, Connections
    <3>5. Here(live) \ {c} \subseteq Here(live)'
      BY <1>5, <3>3 DEF Close, TypeOK, Here
    <3>6. Here(live)' # {}
      BY <3>4, <3>5 DEF Here
    <3>7. rooms[live].table.players \subseteq {Owner[e] : e \in Here(live)}
      BY <2>2, <3>2, HereIs DEF LiveIsInhabited
    <3>8. ASSUME NEW g \in rooms'[live].table.players PROVE g \in {Owner[e] : e \in Here(live)'}
      <4>1. g \in rooms[live].table.players
        BY <2>2, <3>1, <3>3, <3>8, LeaveFacts
      <4>2. CASE g # Owner[c]
        BY <3>5, <3>7, <4>1, <4>2
      <4>3. CASE g = Owner[c]
        <5>1. ~LastOfGuest(c)
          BY <2>2, <3>1, <3>3, <3>8, <4>1, <4>3, LeaveFacts
        <5>2. PICK e \in Others(c) : Owner[e] = Owner[c]
          BY <5>1 DEF LastOfGuest
        <5>3. e \in Here(live) \ {c}
          BY <5>2 DEF Others, Connections, Here
        <5> QED
          BY <3>5, <4>3, <5>2, <5>3
      <4> QED
        BY <4>2, <4>3
    <3> QED
      BY <3>6, <3>8
  <2>3. CASE ~(phase[c] = "joined" /\ live # NoRoom)
    <3>1. UNCHANGED <<rooms, live>>
      BY <1>5, <2>3 DEF Close
    <3>2. \A d \in Here(live) : live # NoRoom => phase'[d] \in Seated /\ ref'[d] = ref[d]
      BY <1>5, <2>3 DEF Close, TypeOK, Here
    <3> QED
      BY <2>1, <3>1, <3>2, InhabitedKept DEF LiveIsInhabited
  <2> QED
    BY <2>2, <2>3
<1>6. CASE LoadDone
  <2>1. PICK c \in Conns : phase[c] = "loading"
    BY <1>6 DEF LoadDone, Handover
  <2>2. live' = Fresh /\ Fresh \in Incarnations
    BY <1>6, FreshFacts DEF LoadDone, Handover
  <2>3. c \in Here(live)'
    BY <1>6, <2>1, <2>2 DEF LoadDone, Here
  <2>4. rooms'[Fresh].table.players = {}
    BY <1>6, <2>2 DEF LoadDone, TypeOK, LoadedRoom, FreshTable
  <2> QED
    BY <2>2, <2>3, <2>4, HereIs DEF LiveIsInhabited, Connections, Joining, Here
<1>7. CASE LoadFails
  BY <1>7, InhabitedKept DEF LoadFails, Here
<1>8. CASE SaveDone \/ SaveFails
  BY <1>8, InhabitedKept DEF SaveDone, SaveFails, SaveSettles, Here
<1>9. CASE Shutdown
  BY <1>9 DEF Shutdown, LiveIsInhabited
<1>10. CASE Exit \/ Crash
  BY <1>10 DEF Exit, Crash, Vanish, LiveIsInhabited
<1>11. CASE UNCHANGED vars
  BY <1>11, InhabitedKept DEF vars, Here
<1> QED
  BY <1>1, <1>2, <1>3, <1>4, <1>5, <1>6, <1>7, <1>8, <1>9, <1>10, <1>11 DEF Next, InRoom

LEMMA InitHandover == Init => Handover
<1> SUFFICES ASSUME Init PROVE Handover
  OBVIOUS
<1>1. Len(<< >>) = 0
  OBVIOUS
<1> QED
  BY <1>1 DEF Init, Handover

\* Whatever the store does, and whoever crashes: what the registry keeps in memory is
\* well formed, a load starts from the last write, and no room is kept for nobody.
THEOREM MemoryIsSoundCorrect == Spec => []MemoryIsSound
<1>1. Init => MemoryIsSound
  BY InitType, InitHandover DEF Init, MemoryIsSound, LiveIsInhabited
<1>2. MemoryIsSound /\ [Next]_vars => MemoryIsSound'
  BY NextType, HandoverStep, InhabitedStep DEF MemoryIsSound
<1> QED
  BY <1>1, <1>2, PTL DEF Spec

-----------------------------------------------------------------------------
(* What the store holds. *)

\* Steps that neither write, nor touch a table, nor change which room is live.
Aside ==
  \/ \E c \in Conns : Open(c) \/ JoinRequest(c) \/ Refuse(c) \/ RecordFails(c) \/ Register(c)
  \/ LoadFails

LEMMA AsideFacts == Aside => UNCHANGED <<rooms, live, saves, stored, closing, history>>
BY DEF Aside, Open, JoinRequest, Refuse, RecordFails, Register, LoadFails, memory, history

\* All writes in flight, and the live room, are complete.
AllSolved ==
  /\ \A k \in 1..Len(saves) : Solved(saves[k].at)
  /\ live # NoRoom => Solved(rooms[live].table.at)

Completing == announced \/ \E k \in 1..Len(saves) : saves[k].kind = "completion"

\* The table of the live room is written, complete if the room has been completed.
LEMMA CompletionWrites ==
  ASSUME TypeOK, CompletionIsLast, live \in Incarnations, UNCHANGED <<announced, stored>>,
         NEW kind \in {"checkpoint", "evict", "completion", "shutdown"}, NEW at \in Layout,
         saves' = Save(kind, live, at),
         Solved(rooms[live].table.at) => Solved(at),
         kind = "completion" => Solved(at),
         live' # NoRoom /\ Solved(at) => Solved(rooms'[live'].table.at)
  PROVE  CompletionIsLast'
<1>1. /\ Len(saves') = Len(saves) + 1 /\ Len(saves) \in Nat
      /\ \A k \in 1..Len(saves) : saves'[k] = saves[k]
      /\ saves'[Len(saves')].kind = kind /\ saves'[Len(saves')].at = at
      /\ \A k \in 1..Len(saves') : k \in 1..Len(saves) \/ k = Len(saves')
  BY Appended
<1>2. Completing => Solved(at)
  BY Counted DEF Completing, CompletionIsLast
<1>3. announced' => \A k \in 1..Len(saves') : Solved(saves'[k].at)
  BY <1>1, <1>2 DEF CompletionIsLast, Completing
<1>4. ASSUME NEW k \in 1..Len(saves'), saves'[k].kind = "completion", NEW j \in k..Len(saves')
      PROVE  Solved(saves'[j].at) /\ Solved(at)
  <2>1. Solved(at)
    BY <1>1, <1>2, <1>4 DEF Completing
  <2>2. CASE j = Len(saves')
    BY <1>1, <2>1, <2>2
  <2>3. CASE j # Len(saves')
    <3>1. k \in 1..Len(saves) /\ j \in k..Len(saves) /\ saves[k].kind = "completion" /\ saves'[j] = saves[j]
      BY <1>1, <1>4, <2>3
    <3> QED
      BY <2>1, <3>1 DEF CompletionIsLast
  <2> QED
    BY <2>2, <2>3
<1>5. announced' => Solved(stored')
  BY DEF CompletionIsLast
<1>6. announced' => Solved(at)
  BY <1>2 DEF Completing
<1>7. \A k \in 1..Len(saves') : k \in k..Len(saves')
  BY <1>1
<1> QED
  BY <1>3, <1>4, <1>5, <1>6, <1>7 DEF CompletionIsLast

LEMMA CompletionStep ==
  ASSUME "save" \notin Incidents, TypeOK, TypeOK', Handover, CompletionIsLast, [Next]_vars
  PROVE  CompletionIsLast'
<1>1. CASE Aside
  BY <1>1, AsideFacts DEF CompletionIsLast, history
<1>2. CASE InRoom
  <2> DEFINE u == rooms'[live].table
  <2>1. live \in Incarnations /\ u.at \in Layout /\ UNCHANGED <<live, stored, announced>>
        /\ (Solved(rooms[live].table.at) => u.at = rooms[live].table.at)
    <3>1. live \in Incarnations /\ UNCHANGED <<live, stored, announced>>
          /\ (Solved(rooms[live].table.at) => u.at = rooms[live].table.at)
      BY <1>2, InRoomFacts
    <3>2. u \in Tables
      BY <3>1 DEF TypeOK
    <3> QED
      BY <3>1, <3>2, TableFacts
  <2>2. \/ saves' = saves \/ saves' = Save("checkpoint", live, u.at)
        \/ Solved(u.at) /\ saves' = Save("completion", live, u.at)
    BY <1>2, InRoomFacts
  <2>3. CASE saves' = saves
    BY <2>1, <2>3 DEF CompletionIsLast
  <2>4. CASE saves' = Save("checkpoint", live, u.at)
    BY <2>1, <2>4, CompletionWrites
  <2>5. CASE Solved(u.at) /\ saves' = Save("completion", live, u.at)
    BY <2>1, <2>5, CompletionWrites
  <2> QED
    BY <2>2, <2>3, <2>4, <2>5
<1>3. ASSUME NEW c \in Conns, Enter(c) PROVE CompletionIsLast'
  <2>1. live # NoRoom => rooms'[live].table.at = rooms[live].table.at
    BY <1>3, EnterFacts DEF TypeOK
  <2> QED
    BY <1>3, <2>1 DEF Enter, history, CompletionIsLast
<1>4. ASSUME NEW c \in Conns, Close(c) PROVE CompletionIsLast'
  <2>1. CASE phase[c] = "joined" /\ live # NoRoom
    <3>1. Leave(c) /\ UNCHANGED <<stored, announced>>
      BY <1>4, <2>1 DEF Close, history
    <3>2. live \in Incarnations /\ rooms[live].table.at \in Layout
      BY <2>1, RoomType, TableFacts DEF TypeOK
    <3>3. CASE Evicts(c)
      <4>1. live' = NoRoom /\ saves' = Save("evict", live, rooms[live].table.at)
        BY <2>1, <3>1, <3>3, LeaveFacts
      <4> QED
        BY <3>1, <3>2, <4>1, CompletionWrites
    <3>4. CASE ~Evicts(c)
      <4>1. UNCHANGED <<live, saves>> /\ rooms'[live].table.at = rooms[live].table.at
        BY <2>1, <3>1, <3>4, LeaveFacts
      <4> QED
        BY <3>1, <4>1 DEF CompletionIsLast
    <3> QED
      BY <3>3, <3>4
  <2>2. CASE ~(phase[c] = "joined" /\ live # NoRoom)
    BY <1>4, <2>2 DEF Close, history, CompletionIsLast
  <2> QED
    BY <2>1, <2>2
<1>5. CASE LoadDone
  <2>1. saves = << >> /\ Fresh \in Incarnations
    BY <1>5, FreshFacts DEF LoadDone, Handover
  <2>2. live' = Fresh /\ rooms'[Fresh].table.at = stored /\ UNCHANGED <<saves, stored, announced>>
    BY <1>5, <2>1 DEF LoadDone, TypeOK, LoadedRoom, FreshTable, history
  <2>3. Len(saves) = 0
    BY <2>1
  <2> QED
    BY <2>2, <2>3 DEF CompletionIsLast
<1>6. CASE SaveDone \/ SaveFails
  <2>1. /\ saves # << >> /\ saves' = Tail(saves) /\ stored' = Head(saves).at /\ UNCHANGED <<rooms, live>>
        /\ announced' => announced \/ Head(saves).kind = "completion"
    BY <1>6 DEF SaveDone, SaveFails, SaveSettles
  <2>2. /\ Len(saves') = Len(saves) - 1 /\ Len(saves) \in Nat \ {0}
        /\ Head(saves) = saves[1] /\ 1 \in 1..Len(saves)
        /\ \A k \in 1..Len(saves') : k + 1 \in 1..Len(saves) /\ saves'[k] = saves[k + 1]
    BY <2>1, TakenOff
  <2>3. announced' => /\ \A k \in 1..Len(saves) : Solved(saves[k].at)
                      /\ live # NoRoom => Solved(rooms[live].table.at)
    BY <2>1, <2>2 DEF CompletionIsLast
  <2>4. announced' => Solved(stored') /\ \A k \in 1..Len(saves') : Solved(saves'[k].at)
    BY <2>1, <2>2, <2>3
  <2>5. ASSUME NEW k \in 1..Len(saves'), saves'[k].kind = "completion"
        PROVE  /\ \A j \in k..Len(saves') : Solved(saves'[j].at)
               /\ live # NoRoom => Solved(rooms[live].table.at)
    <3>1. k + 1 \in 1..Len(saves) /\ saves[k + 1].kind = "completion"
      BY <2>2, <2>5
    <3>2. \A j \in (k + 1)..Len(saves) : Solved(saves[j].at)
      BY <3>1 DEF CompletionIsLast
    <3>3. \A j \in k..Len(saves') : j + 1 \in (k + 1)..Len(saves) /\ saves'[j] = saves[j + 1]
      BY <2>2
    <3> QED
      BY <3>1, <3>2, <3>3 DEF CompletionIsLast
  <2> QED
    BY <2>1, <2>3, <2>4, <2>5 DEF CompletionIsLast
<1>7. CASE Shutdown
  <2>1. CASE live # NoRoom
    <3>1. live \in Incarnations /\ rooms[live].table.at \in Layout
      BY <2>1, RoomType, TableFacts DEF TypeOK
    <3>2. live' = NoRoom /\ saves' = Save("shutdown", live, rooms[live].table.at) /\ UNCHANGED <<stored, announced>>
      BY <1>7, <2>1 DEF Shutdown, FlushLiveRoom, history
    <3> QED
      BY <3>1, <3>2, CompletionWrites
  <2>2. CASE live = NoRoom
    BY <1>7, <2>2 DEF Shutdown, FlushLiveRoom, history, CompletionIsLast
  <2> QED
    BY <2>1, <2>2
<1>8. CASE Exit \/ Crash
  <2>1. saves' = << >> /\ live' = NoRoom /\ UNCHANGED <<stored, announced>>
    BY <1>8 DEF Exit, Crash, Vanish, history
  <2>2. Len(saves') = 0
    BY <2>1
  <2> QED
    BY <2>1, <2>2 DEF CompletionIsLast
<1>9. CASE UNCHANGED vars
  BY <1>9 DEF vars, CompletionIsLast
<1> QED
  BY <1>1, <1>2, <1>3, <1>4, <1>5, <1>6, <1>7, <1>8, <1>9 DEF Next, Aside, InRoom

\* Effect.afterPersist: unless a save fails, a completion that was announced is in
\* the store for good, through crashes, shutdowns, evictions and late writes.
THEOREM AnnouncedIsStoredCorrect ==
  ASSUME "save" \notin Incidents
  PROVE  Spec => []AnnouncedIsStored
<1> DEFINE Inv == TypeOK /\ Handover /\ CompletionIsLast
<1>1. Init => Inv
  <2>1. Len(<< >>) = 0
    OBVIOUS
  <2> QED
    BY <2>1, InitType, InitHandover DEF Init, CompletionIsLast
<1>2. Inv /\ [Next]_vars => Inv'
  BY NextType, HandoverStep, CompletionStep
<1>3. Inv => AnnouncedIsStored
  BY DEF CompletionIsLast, AnnouncedIsStored
<1> QED
  BY <1>1, <1>2, <1>3, PTL DEF Spec

\* What a synchronous store spares a shutdown: no room is read while it lasts.
StoppedCold ==
  closing => /\ "stop" \in Incidents /\ live = NoRoom /\ ~reading
             /\ \A k \in 1..Len(saves) : saves[k].kind # "evict"

LEMMA StoppedStep ==
  ASSUME "stop" \in Incidents => ~AsyncStore, TypeOK, TypeOK', Handover, StoppedCold, [Next]_vars
  PROVE  StoppedCold'
<1>1. CASE Aside
  <2>1. closing => ~reading'
    BY <1>1 DEF Aside, Open, JoinRequest, Refuse, RecordFails, Register, LoadFails, memory, StoppedCold
  <2> QED
    BY <1>1, <2>1, AsideFacts DEF StoppedCold
<1>2. CASE InRoom
  BY <1>2, InRoomFacts, Counted DEF StoppedCold
<1>3. ASSUME NEW c \in Conns, Enter(c) PROVE StoppedCold'
  BY <1>3 DEF Enter, StoppedCold
<1>4. ASSUME NEW c \in Conns, Close(c) PROVE StoppedCold'
  <2>1. UNCHANGED <<closing, reading>>
    BY <1>4 DEF Close
  <2>2. closing => UNCHANGED <<live, saves>>
    BY <1>4 DEF Close, StoppedCold
  <2> QED
    BY <2>1, <2>2 DEF StoppedCold
<1>5. CASE LoadDone
  BY <1>5 DEF LoadDone, StoppedCold
<1>6. CASE SaveDone \/ SaveFails
  <2>1. /\ saves # << >> /\ saves' = Tail(saves) /\ UNCHANGED <<live, closing>>
        /\ reading' = (reading \/ (Flushes(Head(saves)) /\ \E c \in Conns : phase[c] = "gated"))
    BY <1>6 DEF SaveDone, SaveFails, SaveSettles
  <2>2. /\ Head(saves) = saves[1] /\ 1 \in 1..Len(saves)
        /\ \A k \in 1..Len(saves') : k + 1 \in 1..Len(saves) /\ saves'[k] = saves[k + 1]
    BY <2>1, TakenOff
  <2> QED
    BY <2>1, <2>2 DEF StoppedCold, Flushes
<1>7. CASE Shutdown
  <2>1. "stop" \in Incidents /\ saves = << >> /\ ~reading
    BY <1>7 DEF Shutdown, EventLoopFree, BoundAssumption
  <2>2. CASE live # NoRoom
    <3>1. live \in Incarnations /\ rooms[live].table.at \in Layout
      BY <2>2, RoomType, TableFacts DEF TypeOK
    <3>2. saves' = Save("shutdown", live, rooms[live].table.at) /\ live' = NoRoom /\ ~reading'
      BY <1>7, <2>1, <2>2 DEF Shutdown, FlushLiveRoom
    <3>3. Len(saves) = 0
      BY <2>1
    <3>4. \A k \in 1..Len(saves') : saves'[k].kind = "shutdown"
      BY <3>1, <3>2, <3>3, Appended
    <3> QED
      BY <2>1, <3>2, <3>4 DEF StoppedCold
  <2>3. CASE live = NoRoom
    <3>1. Len(<< >>) = 0
      OBVIOUS
    <3> QED
      BY <1>7, <2>1, <2>3, <3>1 DEF Shutdown, FlushLiveRoom, StoppedCold
  <2> QED
    BY <2>2, <2>3
<1>8. CASE Exit \/ Crash
  BY <1>8 DEF Exit, Crash, Vanish, StoppedCold
<1>9. CASE UNCHANGED vars
  BY <1>9 DEF vars, StoppedCold
<1> QED
  BY <1>1, <1>2, <1>3, <1>4, <1>5, <1>6, <1>7, <1>8, <1>9 DEF Next, Aside, InRoom

LEMMA ConfirmedStep ==
  ASSUME {"crash", "save"} \cap Incidents = {}, "stop" \in Incidents => ~AsyncStore,
         TypeOK, TypeOK', Handover, StoppedCold, ConfirmedIsKept, [Next]_vars
  PROVE  ConfirmedIsKept'
<1>1. CASE Aside
  BY <1>1, AsideFacts DEF ConfirmedIsKept, Kept, history
<1>2. CASE InRoom
  BY <1>2, InRoomFacts, Counted DEF ConfirmedIsKept, Kept
<1>3. ASSUME NEW c \in Conns, Enter(c) PROVE ConfirmedIsKept'
  <2>1. live # NoRoom => rooms'[live].table.at = rooms[live].table.at
    BY <1>3, EnterFacts DEF TypeOK
  <2> QED
    BY <1>3, <2>1 DEF Enter, history, ConfirmedIsKept, Kept
<1>4. ASSUME NEW c \in Conns, Close(c) PROVE ConfirmedIsKept'
  <2>1. CASE phase[c] = "joined" /\ live # NoRoom
    <3>1. Leave(c) /\ UNCHANGED confirmed
      BY <1>4, <2>1 DEF Close, history
    <3>2. live \in Incarnations /\ rooms[live].table.at \in Layout
      BY <2>1, RoomType, TableFacts DEF TypeOK
    <3>3. CASE Evicts(c)
      <4>1. live' = NoRoom /\ saves' = Save("evict", live, rooms[live].table.at)
        BY <2>1, <3>1, <3>3, LeaveFacts
      <4>2. saves'[Len(saves')].at = rooms[live].table.at /\ Len(saves') # 0
        BY <3>2, <4>1, Appended
      <4>3. saves' # << >>
        BY <4>2
      <4> QED
        BY <2>1, <3>1, <4>1, <4>2, <4>3 DEF ConfirmedIsKept, Kept
    <3>4. CASE ~Evicts(c)
      <4>1. UNCHANGED <<live, saves>> /\ rooms'[live].table.at = rooms[live].table.at
        BY <2>1, <3>1, <3>4, LeaveFacts
      <4> QED
        BY <2>1, <3>1, <4>1 DEF ConfirmedIsKept, Kept
    <3> QED
      BY <3>3, <3>4
  <2>2. CASE ~(phase[c] = "joined" /\ live # NoRoom)
    BY <1>4, <2>2 DEF Close, history, ConfirmedIsKept, Kept
  <2> QED
    BY <2>1, <2>2
<1>5. CASE LoadDone
  <2>1. live = NoRoom /\ saves = << >> /\ Fresh \in Incarnations
    BY <1>5, FreshFacts DEF LoadDone, Handover
  <2>2. live' = Fresh /\ rooms'[Fresh].table.at = stored /\ UNCHANGED confirmed
    BY <1>5, <2>1 DEF LoadDone, TypeOK, LoadedRoom, FreshTable, history
  <2> QED
    BY <2>1, <2>2, Counted DEF ConfirmedIsKept, Kept
<1>6. CASE SaveDone \/ SaveFails
  <2>1. saves # << >> /\ saves' = Tail(saves) /\ stored' = Head(saves).at /\ UNCHANGED <<rooms, live, confirmed>>
    BY <1>6 DEF SaveDone, SaveFails, SaveSettles
  <2>2. /\ Head(saves) = saves[1] /\ Len(saves) \in Nat \ {0} /\ Len(saves') = Len(saves) - 1
        /\ saves' # << >> => saves'[Len(saves')] = saves[Len(saves)]
    BY <2>1, TakenOff
  <2>3. saves' = << >> => Len(saves') = 0
    OBVIOUS
  <2>4. saves' = << >> => stored' = saves[Len(saves)].at
    BY <2>1, <2>2, <2>3
  <2> QED
    BY <2>1, <2>2, <2>4 DEF ConfirmedIsKept, Kept
<1>7. CASE Shutdown
  <2>1. CASE live # NoRoom
    <3>1. live \in Incarnations /\ rooms[live].table.at \in Layout
      BY <2>1, RoomType, TableFacts DEF TypeOK
    <3>2. live' = NoRoom /\ saves' = Save("shutdown", live, rooms[live].table.at) /\ UNCHANGED confirmed
      BY <1>7, <2>1 DEF Shutdown, FlushLiveRoom, history
    <3>3. saves'[Len(saves')].at = rooms[live].table.at /\ Len(saves') # 0
      BY <3>1, <3>2, Appended
    <3>4. saves' # << >>
      BY <3>3
    <3> QED
      BY <2>1, <3>2, <3>3, <3>4 DEF ConfirmedIsKept, Kept
  <2>2. CASE live = NoRoom
    BY <1>7, <2>2 DEF Shutdown, FlushLiveRoom, history, ConfirmedIsKept, Kept
  <2> QED
    BY <2>1, <2>2
<1>8. CASE Exit
  <2>1. live = NoRoom /\ saves = << >>
    BY <1>8, BoundAssumption DEF Exit, EventLoopFree, StoppedCold
  <2> QED
    BY <1>8, <2>1 DEF Exit, Vanish, history, ConfirmedIsKept, Kept
<1>9. CASE UNCHANGED vars
  BY <1>9 DEF vars, ConfirmedIsKept, Kept
<1> QED
  BY <1>1, <1>2, <1>3, <1>4, <1>5, <1>6, <1>7, <1>8, <1>9 DEF Next, Aside, InRoom, Crash

\* NFR-5: as long as no save fails and the process is not killed, what a socket was
\* shown joined or locked survives evictions, reloads, late writes and, with the
\* synchronous store, graceful shutdowns.
THEOREM StoreIsSoundCorrect ==
  ASSUME {"crash", "save"} \cap Incidents = {}, "stop" \in Incidents => ~AsyncStore
  PROVE  Spec => []StoreIsSound
<1> DEFINE Inv == TypeOK /\ Handover /\ CompletionIsLast /\ StoppedCold /\ ConfirmedIsKept
<1>1. Init => Inv
  <2>1. Len(<< >>) = 0
    OBVIOUS
  <2> QED
    BY <2>1, InitType, InitHandover DEF Init, CompletionIsLast, StoppedCold, ConfirmedIsKept
<1>2. Inv /\ [Next]_vars => Inv'
  BY NextType, HandoverStep, CompletionStep, StoppedStep, ConfirmedStep
<1>3. Inv => StoreIsSound
  BY DEF StoreIsSound, CompletionIsLast, AnnouncedIsStored
<1> QED
  BY <1>1, <1>2, <1>3, PTL DEF Spec

-----------------------------------------------------------------------------
(* What the sockets are told. *)

SameBoard(t, u) == t.at = u.at /\ t.hold = u.hold

\* Whatever is told of a table keeps equal tables equal.
LEMMA SameStays ==
  ASSUME NEW t \in Tables, NEW u \in Tables, SameBoard(t, u)
  PROVE  /\ \A p \in Pieces, g \in Guests : SameBoard(Held(t, p, g), Held(u, p, g))
         /\ \A p \in Pieces, spot \in Spots :
              SameBoard(Moved(t, p, spot), Moved(u, p, spot)) /\ SameBoard(Snapped(t, p, spot), Snapped(u, p, spot))
         /\ \A ps : SameBoard(Released(t, ps), Released(u, ps))
         /\ \A g : SameBoard(Departed(t, g), Departed(u, g))
         /\ \A g \in Guests : SameBoard(Entered(t, g), Entered(u, g))
<1> USE DEF SameBoard
<1>1. ASSUME NEW p \in Pieces, NEW g \in Guests PROVE SameBoard(Held(t, p, g), Held(u, p, g))
  <2>1. Held(t, p, g).at = t.at
       /\ Held(t, p, g).hold = [q \in DOMAIN t.hold \cup {p} |-> IF q = p THEN g ELSE t.hold[q]]
    BY HeldFacts
  <2>2. Held(u, p, g).at = u.at
       /\ Held(u, p, g).hold = [q \in DOMAIN u.hold \cup {p} |-> IF q = p THEN g ELSE u.hold[q]]
    BY HeldFacts
  <2> QED
    BY <2>1, <2>2
<1>2. ASSUME NEW p \in Pieces, NEW spot \in Spots PROVE SameBoard(Moved(t, p, spot), Moved(u, p, spot))
  <2>1. Moved(t, p, spot).at = [t.at EXCEPT ![p] = spot] /\ Moved(t, p, spot).hold = t.hold
    BY MovedFacts
  <2>2. Moved(u, p, spot).at = [u.at EXCEPT ![p] = spot] /\ Moved(u, p, spot).hold = u.hold
    BY MovedFacts
  <2> QED
    BY <2>1, <2>2
<1>3. ASSUME NEW p \in Pieces, NEW spot \in Spots PROVE SameBoard(Snapped(t, p, spot), Snapped(u, p, spot))
  <2>1. Snapped(t, p, spot).at = [t.at EXCEPT ![p] = spot]
    BY ZenonT(60), SnappedFacts
  <2>2. Snapped(t, p, spot).hold = Restrict(t.hold, DOMAIN t.hold \ {p})
    BY SnappedFacts
  <2>3. Snapped(u, p, spot).at = [u.at EXCEPT ![p] = spot]
    BY ZenonT(60), SnappedFacts
  <2>4. Snapped(u, p, spot).hold = Restrict(u.hold, DOMAIN u.hold \ {p})
    BY SnappedFacts
  <2> QED
    BY <2>1, <2>2, <2>3, <2>4
<1>4. ASSUME NEW ps PROVE SameBoard(Released(t, ps), Released(u, ps))
  <2>1. Released(t, ps).at = t.at /\ Released(t, ps).hold = Restrict(t.hold, DOMAIN t.hold \ ps)
    BY ReleasedFacts
  <2>2. Released(u, ps).at = u.at /\ Released(u, ps).hold = Restrict(u.hold, DOMAIN u.hold \ ps)
    BY ReleasedFacts
  <2> QED
    BY <2>1, <2>2
<1>5. ASSUME NEW g PROVE SameBoard(Departed(t, g), Departed(u, g))
  <2>1. Departed(t, g).at = t.at /\ Departed(t, g).hold = Restrict(t.hold, DOMAIN t.hold \ HeldBy(t, g))
    BY DepartedFacts
  <2>2. Departed(u, g).at = u.at /\ Departed(u, g).hold = Restrict(u.hold, DOMAIN u.hold \ HeldBy(u, g))
    BY DepartedFacts
  <2>3. HeldBy(t, g) = HeldBy(u, g)
    BY DEF HeldBy
  <2> QED
    BY <2>1, <2>2, <2>3
<1>6. ASSUME NEW g \in Guests PROVE SameBoard(Entered(t, g), Entered(u, g))
  BY EnteredFacts
<1> QED
  BY <1>1, <1>2, <1>3, <1>4, <1>5, <1>6

LEMMA TypedSeen ==
  ASSUME TypeOK, NEW c \in Conns
  PROVE  /\ seen[c] \in Tables /\ Owner[c] \in Guests
         /\ \A i \in Incarnations : rooms[i].table \in Tables
BY RoomType, OwnerType DEF TypeOK

\* What happens in the room is told to whoever is registered there.
LEMMA InRoomTold ==
  ASSUME TypeOK, InRoom, NEW d \in Connections(live), SameBoard(seen[d], rooms[live].table)
  PROVE  SameBoard(seen'[d], rooms'[live].table) /\ seen'[d].players = seen[d].players
<1> DEFINE t == rooms[live].table
           s == seen[d]
<1>1. live \in Incarnations /\ d \in Conns
  BY InRoomFacts DEF Connections
<1>2. t \in Tables /\ s \in Tables
  BY <1>1, TypedSeen
<1>3. ASSUME NEW u \in Tables, NEW v \in Tables, rooms'[live].table = u, seen'[d] = v,
             SameBoard(v, u), v.players = s.players
      PROVE  SameBoard(seen'[d], rooms'[live].table) /\ seen'[d].players = seen[d].players
  BY <1>3
<1>4. CASE (\E c \in Conns : Rename(c)) \/ Checkpoint
  <2>1. rooms'[live].table = t /\ seen' = seen
    BY <1>1, <1>4, RoomType DEF Rename, Checkpoint, sockets, TypeOK
  <2> QED
    BY <2>1
<1>5. ASSUME NEW c \in Conns, NEW p \in Pieces, Grab(c, p)
      PROVE  SameBoard(seen'[d], rooms'[live].table) /\ seen'[d].players = seen[d].players
  <2> DEFINE u == Held(t, p, Owner[c])
             v == Held(s, p, Owner[c])
  <2>1. Owner[c] \in Guests
    BY OwnerType
  <2>2. u \in Tables /\ v \in Tables /\ v.players = s.players
    BY <1>2, <2>1, HeldFacts
  <2>3. SameBoard(v, u)
    BY <1>2, <2>1, SameStays
  <2>4. rooms' = [rooms EXCEPT ![live].table = u]
    BY <1>5 DEF Grab
  <2>5. seen'[d] = v
    BY <1>1, <1>5 DEF Grab, Tell
  <2> HIDE DEF u, v
  <2>6. rooms'[live].table = u
    BY <1>1, <2>2, <2>4, RoomType
  <2> QED
    BY <1>3, <2>2, <2>3, <2>5, <2>6
<1>6. ASSUME NEW c \in Conns, NEW p \in Pieces, Move(c, p)
      PROVE  SameBoard(seen'[d], rooms'[live].table) /\ seen'[d].players = seen[d].players
  <2> DEFINE u == Moved(t, p, "Moved")
             v == Moved(s, p, "Moved")
  <2>1. u \in Tables /\ v \in Tables /\ v.players = s.players
    BY <1>2, MovedFacts DEF Spots
  <2>2. SameBoard(v, u)
    BY <1>2, SameStays DEF Spots
  <2>3. rooms' = [rooms EXCEPT ![live] = [table |-> u, timer |-> TRUE]]
    BY <1>6 DEF Move
  <2>4. seen'[d] = v
    BY <1>1, <1>6 DEF Move, Tell
  <2> HIDE DEF u, v
  <2>5. rooms'[live].table = u
    BY <1>1, <2>3 DEF TypeOK
  <2> QED
    BY <1>3, <2>1, <2>2, <2>4, <2>5
<1>7. ASSUME NEW c \in Conns, NEW p \in Pieces, NEW spot \in {"Moved", "Home"}, Drop(c, p, spot)
      PROVE  SameBoard(seen'[d], rooms'[live].table) /\ seen'[d].players = seen[d].players
  <2> DEFINE u == Snapped(t, p, spot)
             v == Snapped(s, p, spot)
  <2>1. spot \in Spots
    BY DEF Spots
  <2>2. u \in Tables
    BY <1>2, <2>1, SnappedFacts
  <2>3. v \in Tables /\ v.players = s.players
    BY ZenonT(60), <1>2, <2>1, SnappedFacts
  <2>4. SameBoard(v, u)
    BY <1>2, <2>1, SameStays
  <2>5. rooms' = [rooms EXCEPT ![live] = [table |-> u, timer |-> ~Solved(u.at)]]
    BY <1>7 DEF Drop, Persist
  <2>6. seen'[d] = v
    BY <1>1, <1>7 DEF Drop, Tell
  <2> HIDE DEF u, v
  <2>7. rooms'[live].table = u
    BY <1>1, <2>5 DEF TypeOK
  <2> QED
    BY <1>3, <2>2, <2>3, <2>4, <2>6, <2>7
<1>8. ASSUME Sweep PROVE SameBoard(seen'[d], rooms'[live].table) /\ seen'[d].players = seen[d].players
  <2>1. PICK ps :
          /\ rooms' = [rooms EXCEPT ![live].table = Released(rooms[live].table, ps)]
          /\ seen' = [e \in Conns |-> IF e \in Connections(live) THEN Released(seen[e], ps) ELSE seen[e]]
    BY <1>8 DEF Sweep, Tell
  <2> DEFINE u == Released(t, ps)
             v == Released(s, ps)
  <2>2. u \in Tables /\ v \in Tables /\ v.players = s.players
    BY <1>2, ReleasedFacts
  <2>3. SameBoard(v, u)
    BY <1>2, SameStays
  <2>4. rooms' = [rooms EXCEPT ![live].table = u] /\ seen'[d] = v
    BY <1>1, <2>1
  <2> HIDE DEF u, v
  <2>5. rooms'[live].table = u
    BY <1>1, <2>2, <2>4, RoomType
  <2> QED
    BY <1>3, <2>2, <2>3, <2>4, <2>5
<1> QED
  BY <1>4, <1>5, <1>6, <1>7, <1>8 DEF InRoom

\* A departure is told to the others who are registered.
LEMMA LeaveTold ==
  ASSUME TypeOK, NEW c \in Conns, live # NoRoom, Leave(c), ~Evicts(c), NEW d \in Others(c),
         SameBoard(seen[d], rooms[live].table)
  PROVE  /\ SameBoard(seen'[d], rooms'[live].table)
         /\ seen'[d].players =
              IF LastOfGuest(c) /\ Owner[c] \in rooms[live].table.players
                THEN seen[d].players \ {Owner[c]} ELSE seen[d].players
<1>1. live \in Incarnations /\ d \in Conns /\ d # c
  BY DEF TypeOK, Others, Connections
<1>2. seen[d] \in Tables /\ rooms[live].table \in Tables
  BY <1>1, TypedSeen
<1>3. SameBoard(Departed(seen[d], Owner[c]), Departed(rooms[live].table, Owner[c]))
      /\ Departed(seen[d], Owner[c]).players = seen[d].players \ {Owner[c]}
  BY <1>2, SameStays, DepartedFacts
<1>4. seen'[d] = IF LastOfGuest(c) /\ Owner[c] \in rooms[live].table.players
                   THEN Departed(seen[d], Owner[c]) ELSE seen[d]
  BY <1>1 DEF Leave
<1> QED
  BY <1>3, <1>4, LeaveFacts

-----------------------------------------------------------------------------
(* Joins that nothing overtakes. *)

InRoomPhases == InEngine \cup {"naming", "joined"}

\* How a socket gets on from its request to its registration.
LEMMA JoinAdvances ==
  ASSUME TypeOK, Handover, Next, NEW d \in Conns, phase'[d] \in InRoomPhases
  PROVE  \/ phase'[d] = phase[d] /\ ref'[d] = ref[d]
         \/ phase[d] = "opened" /\ phase'[d] = "naming" /\ ref'[d] = live /\ live' = live
         \/ phase[d] = "loading" /\ phase'[d] = "naming" /\ ref'[d] = live'
         \/ Enter(d) /\ ref'[d] = ref[d]
         \/ phase[d] \in InEngine /\ phase'[d] \in InEngine \cup {"joined"} /\ ref'[d] = ref[d]
<1> USE DEF InRoomPhases, InEngine
<1>1. ASSUME NEW c \in Conns, Open(c) PROVE phase'[d] = phase[d] /\ ref'[d] = ref[d]
  BY <1>1 DEF Open, TypeOK
<1>2. ASSUME NEW c \in Conns, JoinRequest(c)
      PROVE  \/ phase'[d] = phase[d] /\ ref'[d] = ref[d]
             \/ phase[d] = "opened" /\ phase'[d] = "naming" /\ ref'[d] = live /\ live' = live
  BY <1>2 DEF JoinRequest, TypeOK
<1>3. ASSUME NEW c \in Conns, Close(c) PROVE phase'[d] = phase[d] /\ ref'[d] = ref[d]
  BY <1>3 DEF Close, TypeOK
<1>4. ASSUME NEW c \in Conns, Refuse(c) PROVE phase'[d] = phase[d] /\ ref'[d] = ref[d]
  BY <1>4 DEF Refuse, TypeOK
<1>5. ASSUME NEW c \in Conns, Enter(c) PROVE (phase'[d] = phase[d] \/ Enter(d)) /\ ref'[d] = ref[d]
  <2>1. ref' = ref /\ (d # c => phase'[d] = phase[d])
    BY <1>5 DEF Enter, TypeOK
  <2> QED
    BY <1>5, <2>1
<1>6. ASSUME NEW c \in Conns, RecordFails(c) \/ Register(c)
      PROVE  \/ phase'[d] = phase[d] /\ ref'[d] = ref[d]
             \/ phase[d] \in InEngine /\ phase'[d] \in InEngine \cup {"joined"} /\ ref'[d] = ref[d]
  BY <1>6 DEF RecordFails, Register, TypeOK
<1>7. CASE InRoom
  BY <1>7, InRoomFacts
<1>8. CASE LoadDone
  BY <1>8 DEF LoadDone
<1>9. CASE LoadFails \/ Shutdown \/ SaveDone \/ SaveFails
  BY <1>9 DEF LoadFails, Shutdown, SaveDone, SaveFails, SaveSettles, sockets
<1>10. CASE Exit \/ Crash
  BY <1>10 DEF Exit, Crash, Vanish
<1> QED
  BY <1>1, <1>2, <1>3, <1>4, <1>5, <1>6, <1>7, <1>8, <1>9, <1>10 DEF Next, InRoom

\* A socket that has its snapshot and is not registered is told nothing.
LEMMA SnapshotStays ==
  ASSUME TypeOK, Next, NEW d \in Conns, phase[d] \in InEngine, phase'[d] \in InRoomPhases
  PROVE  seen'[d] = seen[d] /\ phase'[d] # "naming"
<1> USE DEF InEngine, InRoomPhases
<1>1. \A i : d \notin Connections(i)
  BY DEF Connections
<1>2. CASE \E c \in Conns : Open(c) \/ JoinRequest(c) \/ Refuse(c) \/ RecordFails(c) \/ Rename(c)
  BY <1>2 DEF Open, JoinRequest, Refuse, RecordFails, Rename, sockets, TypeOK
<1>3. ASSUME NEW c \in Conns, Enter(c) PROVE seen'[d] = seen[d] /\ phase'[d] # "naming"
  BY <1>3 DEF Enter, TypeOK
<1>4. ASSUME NEW c \in Conns, Register(c) PROVE seen'[d] = seen[d] /\ phase'[d] # "naming"
  BY <1>1, <1>4 DEF Register, Tell, TypeOK
<1>5. ASSUME NEW c \in Conns, Close(c) PROVE seen'[d] = seen[d] /\ phase'[d] # "naming"
  <2>1. phase'[d] # "naming"
    BY <1>5 DEF Close, TypeOK
  <2>2. CASE phase[c] = "joined" /\ live # NoRoom
    <3>1. d # c /\ d \notin Others(c)
      BY <1>1, <2>2 DEF Others
    <3> QED
      BY <1>5, <2>1, <2>2, <3>1 DEF Close, Leave
  <2>3. CASE ~(phase[c] = "joined" /\ live # NoRoom)
    BY <1>5, <2>1, <2>3 DEF Close, TypeOK
  <2> QED
    BY <2>2, <2>3
<1>6. ASSUME NEW c \in Conns, NEW p \in Pieces, Grab(c, p) PROVE seen'[d] = seen[d] /\ phase'[d] # "naming"
  BY <1>1, <1>6 DEF Grab, Tell
<1>7. ASSUME NEW c \in Conns, NEW p \in Pieces, Move(c, p) PROVE seen'[d] = seen[d] /\ phase'[d] # "naming"
  BY <1>1, <1>7 DEF Move, MayAct, Tell
<1>8. ASSUME NEW c \in Conns, NEW p \in Pieces, NEW spot \in {"Moved", "Home"}, Drop(c, p, spot)
      PROVE  seen'[d] = seen[d] /\ phase'[d] # "naming"
  BY <1>1, <1>8 DEF Drop, Tell
<1>9. CASE Sweep
  BY <1>1, <1>9 DEF Sweep, Tell
<1>10. CASE LoadDone \/ LoadFails \/ Checkpoint \/ SaveDone \/ SaveFails \/ Shutdown
  BY <1>10 DEF LoadDone, LoadFails, Checkpoint, SaveDone, SaveFails, SaveSettles, Shutdown, sockets
<1>11. CASE Exit \/ Crash
  BY <1>11 DEF Exit, Crash, Vanish
<1> QED
  BY <1>2, <1>3, <1>4, <1>5, <1>6, <1>7, <1>8, <1>9, <1>10, <1>11 DEF Next

\* A registered socket in the live room that was told of its table.
Served(c) ==
  /\ SameBoard(seen[c], rooms[live].table)
  /\ Owner[c] \in rooms[live].table.players

\* It keeps its room and its table, and is told what changes there.
LEMMA ServedStays ==
  ASSUME TypeOK, TypeOK', Handover, Next, ~closing, ~closing',
         NEW d \in Conns, phase[d] = "joined", phase'[d] = "joined", ref[d] = live, Served(d)
  PROVE  ref'[d] = live' /\ Served(d)'
<1>1. live \in Incarnations /\ live # NoRoom /\ d \in Connections(live) /\ SameBoard(seen[d], rooms[live].table)
  BY Counted DEF Handover, TypeOK, Connections, Served
<1>2. CASE InRoom
  BY <1>1, <1>2, InRoomTold, InRoomFacts DEF Served
<1>3. CASE LoadFails \/ \E c \in Conns : Open(c) \/ JoinRequest(c) \/ Refuse(c) \/ RecordFails(c)
  BY <1>1, <1>3 DEF LoadFails, Open, JoinRequest, Refuse, RecordFails, memory, Served, TypeOK
<1>4. ASSUME NEW c \in Conns, Enter(c) PROVE ref'[d] = live' /\ Served(d)'
  <2>1. d # c /\ seen'[d] = seen[d] /\ UNCHANGED <<ref, live>>
    BY <1>4 DEF Enter, TypeOK
  <2>2. /\ rooms'[live].table.at = rooms[live].table.at /\ rooms'[live].table.hold = rooms[live].table.hold
        /\ rooms[live].table.players \subseteq rooms'[live].table.players
    BY <1>1, <1>4, EnterFacts
  <2> QED
    BY <2>1, <2>2 DEF SameBoard, Served
<1>5. ASSUME NEW c \in Conns, Register(c) PROVE ref'[d] = live' /\ Served(d)'
  <2>1. seen[d] \in Tables /\ Owner[c] \in Guests
    BY TypedSeen
  <2>2. seen'[d] \in {seen[d], Entered(seen[d], Owner[c])} /\ UNCHANGED <<rooms, ref, live>>
    BY <1>5 DEF Register, Tell, memory
  <2>3. Entered(seen[d], Owner[c]).at = seen[d].at /\ Entered(seen[d], Owner[c]).hold = seen[d].hold
    BY <2>1, EnteredFacts
  <2> QED
    BY <2>2, <2>3 DEF SameBoard, Served
<1>6. ASSUME NEW c \in Conns, Close(c) PROVE ref'[d] = live' /\ Served(d)'
  <2>1. d # c /\ ref'[d] = ref[d]
    BY <1>6 DEF Close, TypeOK
  <2>2. CASE phase[c] = "joined" /\ live # NoRoom
    <3>1. d \in Others(c) /\ Leave(c)
      BY <1>1, <1>6, <2>1, <2>2 DEF Others, Close
    <3>2. ~Evicts(c)
      BY <3>1 DEF Evicts
    <3>3. live' = live
      BY <2>2, <3>1, <3>2, LeaveFacts
    <3>4. SameBoard(seen'[d], rooms'[live].table)
      BY <1>1, <2>2, <3>1, <3>2, LeaveTold
    <3>5. Owner[d] \in rooms'[live].table.players
      <4>1. LastOfGuest(c) => Owner[d] # Owner[c]
        BY <3>1 DEF LastOfGuest
      <4> QED
        BY <2>2, <3>1, <3>2, <4>1, LeaveFacts DEF Served
    <3> QED
      BY <2>1, <3>3, <3>4, <3>5 DEF Served
  <2>3. CASE ~(phase[c] = "joined" /\ live # NoRoom)
    <3>1. UNCHANGED <<rooms, live>> /\ seen'[d] = seen[d]
      BY <1>1, <1>6, <2>1, <2>3 DEF Close, TypeOK
    <3> QED
      BY <2>1, <3>1 DEF Served
  <2> QED
    BY <2>2, <2>3
<1>7. CASE LoadDone
  BY <1>1, <1>7, Counted DEF LoadDone, Handover
<1>8. CASE SaveDone \/ SaveFails
  BY <1>1, <1>8 DEF SaveDone, SaveFails, SaveSettles, Served
<1>9. CASE Shutdown \/ Exit \/ Crash
  BY <1>9 DEF Shutdown, Exit, Crash, Vanish
<1> QED
  BY <1>2, <1>3, <1>4, <1>5, <1>6, <1>7, <1>8, <1>9 DEF Next, InRoom

\* A handler whose join nothing has overtaken has an open socket, its room is live, and
\* its snapshot is good.
Undisturbed ==
  /\ \A c \in Conns : phase[c] = "opened" => open[c]
  /\ \A c \in Conns \ overtaken : phase[c] \in Underway \cup {"joined"} => open[c]
  /\ ~closing =>
       \A c \in Conns \ overtaken :
         /\ phase[c] \in InRoomPhases => ref[c] = live
         /\ phase[c] \in InEngine \cup {"joined"} => Served(c)

\* Only a close, a refusal and the end of the process close a socket.
LEMMA OpenStays ==
  ASSUME TypeOK, Next, NEW d \in Conns
  PROVE  /\ phase'[d] = "opened" => open'[d] \/ (phase[d] = "opened" /\ open'[d] = open[d])
         /\ phase'[d] \in Underway \cup {"joined"} =>
              /\ phase[d] \in Underway \cup {"joined", "opened"}
              /\ open'[d] = open[d] \/ (phase[d] \in Underway /\ open[d] /\ ~open'[d])
<1> USE DEF Underway, Suspended
<1>1. ASSUME NEW c \in Conns, Open(c) \/ JoinRequest(c) \/ Refuse(c)
      PROVE  /\ phase'[d] = "opened" => open'[d] \/ (phase[d] = "opened" /\ open'[d] = open[d])
             /\ phase'[d] \in Underway \cup {"joined"} =>
                  phase[d] \in Underway \cup {"joined", "opened"} /\ open'[d] = open[d]
  BY <1>1 DEF Open, JoinRequest, Refuse, TypeOK
<1>2. ASSUME NEW c \in Conns, Close(c)
      PROVE  /\ phase'[d] = "opened" => phase[d] = "opened" /\ open'[d] = open[d]
             /\ phase'[d] \in Underway \cup {"joined"} =>
                  /\ phase[d] \in Underway \cup {"joined", "opened"}
                  /\ open'[d] = open[d] \/ (phase[d] \in Underway /\ open[d] /\ ~open'[d])
  BY <1>2 DEF Close, TypeOK
<1>3. CASE \E c \in Conns : Enter(c) \/ RecordFails(c) \/ Register(c)
  BY <1>3 DEF Enter, RecordFails, Register, TypeOK
<1>4. CASE InRoom
  BY <1>4, InRoomFacts
<1>5. CASE LoadDone \/ LoadFails \/ SaveDone \/ SaveFails \/ Shutdown
  BY <1>5 DEF LoadDone, LoadFails, SaveDone, SaveFails, SaveSettles, Shutdown, sockets
<1>6. CASE Exit \/ Crash
  BY <1>6 DEF Exit, Crash, Vanish
<1> QED
  BY <1>1, <1>2, <1>3, <1>4, <1>5, <1>6 DEF Next, InRoom

\* Nothing but the end of the process takes its closing back.
LEMMA ClosingStays ==
  ASSUME TypeOK, Next, closing, ~closing'
  PROVE  Exit \/ Crash
<1>1. CASE \E c \in Conns : Open(c) \/ JoinRequest(c) \/ Close(c) \/ Refuse(c) \/ Enter(c) \/ RecordFails(c) \/ Register(c)
  BY <1>1 DEF Open, JoinRequest, Close, Refuse, Enter, RecordFails, Register, memory
<1>2. CASE InRoom
  BY <1>2, InRoomFacts
<1>3. CASE LoadDone \/ LoadFails \/ SaveDone \/ SaveFails \/ Shutdown
  BY <1>3 DEF LoadDone, LoadFails, SaveDone, SaveFails, SaveSettles, Shutdown
<1> QED
  BY <1>1, <1>2, <1>3 DEF Next, InRoom

LEMMA UndisturbedStep ==
  ASSUME TypeOK, TypeOK', Handover, Undisturbed, [Next]_vars
  PROVE  Undisturbed'
<1>1. CASE UNCHANGED vars
  BY <1>1 DEF vars, Undisturbed, Served
<1>2. CASE Next /\ ~UNCHANGED vars
  <2>1. NoteOvertaken
    BY <1>2, NotedStep
  <2>2. \A d \in Conns \ overtaken' :
          phase'[d] \in Underway \cup {"joined"} => d \notin overtaken /\ ~Overtakes(d)
    BY <2>1 DEF NoteOvertaken
  <2>3. \A d \in Conns : phase'[d] = "opened" => open'[d]
    BY <1>2, OpenStays DEF Undisturbed
  <2>4. ASSUME NEW d \in Conns \ overtaken', phase'[d] \in Underway \cup {"joined"} PROVE open'[d]
    BY <1>2, <2>2, <2>4, OpenStays DEF Undisturbed, Overtakes
  <2>5. ASSUME ~closing', NEW d \in Conns \ overtaken', phase'[d] \in InRoomPhases
        PROVE  ref'[d] = live' /\ (phase'[d] # "naming" => Served(d)')
    <3>1. d \notin overtaken /\ ~Overtakes(d)
      BY <2>2, <2>5 DEF InRoomPhases, InEngine, Underway, Suspended
    <3>2. ~closing
      <4>1. CASE Exit \/ Crash
        BY <2>5, <4>1 DEF Exit, Crash, Vanish, InRoomPhases, InEngine
      <4> QED
        BY <1>2, <2>5, <4>1, ClosingStays
    <3>3. CASE phase[d] \in InEngine
      <4>1. phase'[d] \in InEngine \cup {"joined"} /\ seen'[d] = seen[d]
        BY <1>2, <2>5, <3>3, SnapshotStays DEF InRoomPhases
      <4>2. ref[d] = live /\ Served(d)
        BY <3>1, <3>2, <3>3 DEF Undisturbed, InRoomPhases
      <4>3. ref'[d] = ref[d]
        BY <1>2, <2>5, <3>3, JoinAdvances DEF InEngine, Enter
      <4>4. /\ live' = ref[d]
            /\ rooms'[ref[d]].table.at = rooms[ref[d]].table.at
            /\ rooms'[ref[d]].table.hold = rooms[ref[d]].table.hold
            /\ Owner[d] \in rooms[ref[d]].table.players => Owner[d] \in rooms'[ref[d]].table.players
        BY <3>1, <3>3 DEF Overtakes
      <4> QED
        BY <4>1, <4>2, <4>3, <4>4 DEF Served, SameBoard
    <3>4. CASE phase[d] = "naming"
      <4>1. ref[d] = live /\ live' = live
        BY <3>1, <3>2, <3>4 DEF Undisturbed, InRoomPhases, Overtakes
      <4>2. CASE Enter(d)
        <5>1. seen'[d] = rooms'[live].table /\ ref'[d] = ref[d]
          BY <4>1, <4>2 DEF Enter, TypeOK
        <5>2. Owner[d] \in rooms'[live].table.players
          BY <4>1, <4>2, EnterFacts
        <5> QED
          BY <4>1, <5>1, <5>2 DEF Served, SameBoard
      <4>3. CASE ~Enter(d)
        BY <1>2, <2>5, <3>4, <4>1, <4>3, JoinAdvances DEF InEngine
      <4> QED
        BY <4>2, <4>3
    <3>5. CASE phase[d] = "joined"
      <4>1. ref[d] = live /\ Served(d)
        BY <3>1, <3>2, <3>5 DEF Undisturbed, InRoomPhases
      <4>2. phase'[d] = "joined"
        BY <1>2, <2>5, <3>5, JoinAdvances DEF InEngine, Enter
      <4> QED
        BY <1>2, <2>5, <3>2, <3>5, <4>1, <4>2, ServedStays
    <3>6. CASE phase[d] \notin InRoomPhases
      <4>1. phase[d] # "naming" /\ phase[d] \notin InEngine /\ phase'[d] # phase[d]
        BY <2>5, <3>6 DEF InRoomPhases
      <4> QED
        BY <1>2, <2>5, <4>1, JoinAdvances DEF Enter
    <3> QED
      BY <3>3, <3>4, <3>5, <3>6 DEF InRoomPhases
  <2> QED
    BY <2>3, <2>4, <2>5 DEF Undisturbed, InRoomPhases, InEngine
<1> QED
  BY <1>1, <1>2

\* SPEC 7.2, 7.4: for any store, any incidents and any number of sockets and guests, a
\* join that nothing overtakes while it waits is served to the end, and nobody else is a
\* ghost but a guest whose socket closed while it was joining.
THEOREM UndisturbedAreServedCorrect == Spec => []UndisturbedAreServed
<1>1. Init => Undisturbed
  BY DEF Init, Undisturbed, Underway, Suspended, InRoomPhases, InEngine
<1>2. MemoryIsSound /\ Undisturbed /\ [Next]_vars => Undisturbed'
  BY NextType, UndisturbedStep DEF MemoryIsSound
<1>3. MemoryIsSound /\ Undisturbed => UndisturbedAreServed
  <2> SUFFICES ASSUME MemoryIsSound, Undisturbed, ~closing PROVE UndisturbedAreServed
    BY DEF UndisturbedAreServed
  <2>1. ASSUME NEW c \in Conns \ overtaken, phase[c] = "joined"
        PROVE  /\ open[c] /\ ref[c] = live
               /\ Agree(seen[c], rooms[live].table, Guests)
               /\ Owner[c] \in rooms[live].table.players
    <3>1. open[c] /\ ref[c] = live /\ Served(c)
      BY <2>1 DEF Undisturbed, InRoomPhases
    <3>2. live \in Incarnations
      BY <2>1, <3>1 DEF MemoryIsSound, Handover, TypeOK
    <3>3. seen[c] \in Tables /\ rooms[live].table \in Tables
      BY <3>2, TypedSeen DEF MemoryIsSound
    <3>4. seen[c].players \ Guests = {} /\ rooms[live].table.players \ Guests = {}
      BY <3>3, TableFacts
    <3> QED
      BY <3>1, <3>4 DEF Served, SameBoard, Agree
  <2>2. ASSUME live # NoRoom, NEW g \in rooms[live].table.players
        PROVE  \E c \in Conns : Owner[c] = g /\ (open[c] \/ c \in overtaken)
    <3>1. PICK c \in Connections(live) \cup Joining(live) : Owner[c] = g
      BY <2>2 DEF MemoryIsSound, LiveIsInhabited
    <3>2. c \in Conns /\ phase[c] \in Underway \cup {"joined"}
      BY <3>1 DEF Connections, Joining, Underway, Suspended
    <3> QED
      BY <3>1, <3>2 DEF Undisturbed
  <2> QED
    BY <2>1, <2>2 DEF UndisturbedAreServed
<1> QED
  BY <1>1, <1>2, <1>3, MemoryIsSoundCorrect, PTL DEF Spec

-----------------------------------------------------------------------------
(* With a store whose promises settle before the next event. *)

NoRetry == \A c \in Conns : phase[c] # "retrying"

\* Every registered socket is in the live room, unless the process is stopping.
JoinedAreHere == ~closing => \A c \in Conns : phase[c] = "joined" => ref[c] = live

Synchronous == NoRetry /\ OneAtATime /\ JoinedAreHere /\ ToldAll

\* An event finds no handler suspended.
LEMMA FreeFacts ==
  ASSUME ~AsyncStore, EventLoopFree
  PROVE  saves = << >> /\ ~reading /\ \A c \in Conns : phase[c] \notin Suspended
BY DEF EventLoopFree

\* The guests of the live room as its sockets tell them.
OwnersOf(cs) == {Owner[c] : c \in cs}

\* A step that leaves the live room, its sockets and what they were told alone.
LEMMA SynchronousKept ==
  ASSUME TypeOK, TypeOK', Synchronous, UNCHANGED <<rooms, live, closing>>,
         closing => ~reading',
         NEW c \in Conns, UNCHANGED <<saves, seen>>,
         \A d \in Conns : d # c => phase'[d] = phase[d] /\ ref'[d] = ref[d] /\ open'[d] = open[d],
         phase[c] # "joined" \/ live = NoRoom, phase[c] # "recording", phase'[c] \notin {"recording", "joined", "retrying"},
         phase'[c] \in Suspended =>
           /\ \A d \in Conns : d # c => phase[d] \notin Suspended
           /\ saves = << >> /\ ~closing /\ phase'[c] # "gated",
         phase'[c] \in Suspended \cup {"opened"} => open'[c],
         phase'[c] = "naming" => ref'[c] = live
  PROVE  Synchronous'
<1>1. NoRetry'
  BY DEF Synchronous, NoRetry
<1>2. \A d, e \in Conns : phase'[d] \in Suspended /\ phase'[e] \in Suspended => d = e
  BY DEF Synchronous, OneAtATime
<1>3. \A d \in Conns : phase'[d] \in Suspended => saves' = << >> /\ ~closing' /\ phase'[d] # "gated"
  BY DEF Synchronous, OneAtATime
<1>4. \A d \in Conns : phase'[d] \in Suspended \cup {"opened", "joined"} => open'[d]
  BY DEF Synchronous, OneAtATime
<1>5. \A d \in Conns : phase'[d] \in {"naming", "recording"} => ref'[d] = live'
  BY DEF Synchronous, OneAtATime
<1>6. closing' => live' = NoRoom /\ ~reading'
  BY DEF Synchronous, OneAtATime
<1>7. live # NoRoom => Connections(live)' = Connections(live)
  BY DEF Connections
<1>8. Entering' = Entering
  BY DEF Entering
<1>9. live' # NoRoom => rooms'[live'].table.players = {Owner[d] : d \in (Connections(live) \cup Entering)'}
  <2> SUFFICES ASSUME live # NoRoom
               PROVE  rooms[live].table.players = {Owner[d] : d \in Connections(live)' \cup Entering'}
    OBVIOUS
  <2> QED
    BY <1>7, <1>8 DEF Synchronous, OneAtATime
<1>10. OneAtATime'
  BY <1>2, <1>3, <1>4, <1>5, <1>6, <1>9 DEF OneAtATime
<1>11. JoinedAreHere'
  BY DEF Synchronous, JoinedAreHere
<1>12. ToldAll'
  <2> SUFFICES ASSUME live # NoRoom
               PROVE  /\ \A d \in Connections(live)' :
                           /\ Agree(seen[d], rooms[live].table, Guests)
                           /\ seen[d].players = {Owner[e] : e \in Connections(live)'}
                      /\ \A d \in Conns : phase'[d] = "recording" => seen[d] = rooms[live].table
    BY DEF ToldAll
  <2>1. \A d \in Conns : phase'[d] = "recording" => phase[d] = "recording"
    OBVIOUS
  <2> QED
    BY <1>7, <2>1 DEF Synchronous, ToldAll
<1> QED
  BY <1>1, <1>10, <1>11, <1>12 DEF Synchronous

\* A step after which no handler is suspended.
LEMMA SynchronousAtRest ==
  ASSUME \A c \in Conns : phase'[c] \notin Suspended \cup {"retrying"},
         \A c \in Conns : phase'[c] \in {"opened", "joined"} => open'[c],
         closing' => live' = NoRoom /\ ~reading',
         JoinedAreHere',
         live' # NoRoom =>
           /\ rooms'[live'].table.players = OwnersOf(Connections(live)')
           /\ \A c \in Connections(live)' :
                SameBoard(seen'[c], rooms'[live'].table) /\ seen'[c].players = OwnersOf(Connections(live)'),
         TypeOK'
  PROVE  Synchronous'
<1>1. Entering' = {}
  BY DEF Entering, Suspended
<1>2. OneAtATime'
  BY <1>1 DEF OneAtATime, OwnersOf, Suspended
<1>3. ToldAll'
  <2> SUFFICES ASSUME live' # NoRoom, NEW c \in Connections(live)'
               PROVE  /\ Agree(seen'[c], rooms'[live'].table, Guests)
                      /\ seen'[c].players = {Owner[d] : d \in Connections(live)'}
    BY DEF ToldAll, Suspended
  <2>1. SameBoard(seen'[c], rooms'[live'].table) /\ seen'[c].players = {Owner[d] : d \in Connections(live)'}
    BY DEF OwnersOf
  <2>2. seen'[c] \in Tables /\ rooms'[live'].table \in Tables
    BY DEF TypeOK, Connections
  <2>3. seen'[c].players \ Guests = {} /\ rooms'[live'].table.players \ Guests = {}
    BY <2>2, TableFacts
  <2> QED
    BY <2>1, <2>3 DEF Agree, SameBoard
<1> QED
  BY <1>2, <1>3 DEF Synchronous, NoRetry

LEMMA SynchronousStep ==
  ASSUME ~AsyncStore, "record" \notin Incidents,
         TypeOK, TypeOK', Handover, Synchronous, [Next]_vars
  PROVE  Synchronous'
<1> USE DEF Suspended
<1>1. ASSUME NEW c \in Conns, Open(c) PROVE Synchronous'
  <2>1. UNCHANGED <<rooms, live, closing, reading, saves, seen>> /\ phase[c] = "closed" /\ phase'[c] = "opened" /\ open'[c]
    BY <1>1 DEF Open, memory, TypeOK
  <2>2. \A d \in Conns : d # c => phase'[d] = phase[d] /\ ref'[d] = ref[d] /\ open'[d] = open[d]
    BY <1>1 DEF Open, TypeOK
  <2> QED
    BY <2>1, <2>2, SynchronousKept DEF Synchronous, OneAtATime
<1>2. ASSUME NEW c \in Conns, JoinRequest(c) PROVE Synchronous'
  <2>1. saves = << >> /\ ~reading /\ (\A d \in Conns : phase[d] \notin Suspended) /\ phase[c] = "opened"
    BY <1>2, FreeFacts DEF JoinRequest
  <2>2. ~Evicting
    BY <2>1 DEF Evicting
  <2>3. /\ UNCHANGED <<rooms, live, closing, saves, seen>>
        /\ closing => ~reading'
        /\ \A d \in Conns : d # c => phase'[d] = phase[d] /\ ref'[d] = ref[d] /\ open'[d] = open[d]
    BY <1>2, <2>1 DEF JoinRequest, TypeOK
  <2>4. /\ phase'[c] \in {"closed", "naming", "loading"}
        /\ phase'[c] # "closed" => ~closing /\ open'[c] /\ ref'[c] = live
    BY <1>2, <2>1, <2>2 DEF JoinRequest, TypeOK, Synchronous, OneAtATime
  <2> QED
    BY <2>1, <2>3, <2>4, SynchronousKept
<1>3. ASSUME NEW c \in Conns, Refuse(c) PROVE Synchronous'
  <2>1. UNCHANGED <<rooms, live, closing, reading, saves, seen>> /\ phase[c] = "naming" /\ phase'[c] = "closed"
    BY <1>3 DEF Refuse, memory, TypeOK
  <2>2. \A d \in Conns : d # c => phase'[d] = phase[d] /\ ref'[d] = ref[d] /\ open'[d] = open[d]
    BY <1>3 DEF Refuse, TypeOK
  <2> QED
    BY <2>1, <2>2, SynchronousKept DEF Synchronous, OneAtATime
<1>4. ASSUME NEW c \in Conns, Enter(c) PROVE Synchronous'
  <2>1. /\ phase[c] = "naming" /\ ref[c] = live /\ live # NoRoom /\ live \in Incarnations
        /\ open[c] /\ saves = << >> /\ ~closing
        /\ \A d \in Conns : d # c => phase[d] \notin Suspended
    BY <1>4 DEF Enter, Synchronous, OneAtATime, Handover, TypeOK
  <2>2. /\ UNCHANGED <<open, ref, live, reading, closing, saves>>
        /\ phase'[c] = "recording" /\ seen'[c] = rooms'[live].table
        /\ \A d \in Conns : d # c => phase'[d] = phase[d] /\ seen'[d] = seen[d]
    BY <1>4, <2>1 DEF Enter, TypeOK
  <2>3. /\ rooms'[live].table.at = rooms[live].table.at /\ rooms'[live].table.hold = rooms[live].table.hold
        /\ rooms'[live].table.players = rooms[live].table.players \cup {Owner[c]}
    BY <1>4, <2>1, EnterFacts
  <2>4. Connections(live)' = Connections(live) /\ Entering = {} /\ Entering' = {c}
    BY <2>1, <2>2 DEF Connections, Entering
  <2>5. rooms'[live].table.players = {Owner[d] : d \in Connections(live)' \cup Entering'}
    <3>1. rooms[live].table.players = {Owner[d] : d \in Connections(live) \cup Entering}
      BY <2>1 DEF Synchronous, OneAtATime
    <3> QED
      BY <2>3, <2>4, <3>1
  <2>6. OneAtATime'
    BY <2>1, <2>2, <2>5 DEF Synchronous, OneAtATime
  <2>7. ASSUME NEW d \in Connections(live)
        PROVE  Agree(seen'[d], rooms'[live].table, Guests) /\ seen'[d].players = {Owner[e] : e \in Connections(live)}
    <3>1. d \in Conns /\ seen'[d] = seen[d]
      BY <2>1, <2>2 DEF Connections
    <3>2. Agree(seen[d], rooms[live].table, Guests) /\ seen[d].players = {Owner[e] : e \in Connections(live)}
      BY <2>1 DEF Synchronous, ToldAll
    <3>3. Owner[c] \in Guests
      BY OwnerType
    <3> QED
      BY <2>3, <3>1, <3>2, <3>3 DEF Agree
  <2>8. ToldAll'
    BY <2>1, <2>2, <2>4, <2>7 DEF ToldAll
  <2>9. NoRetry' /\ JoinedAreHere'
    BY <2>1, <2>2 DEF Synchronous, NoRetry, JoinedAreHere
  <2> QED
    BY <2>6, <2>8, <2>9 DEF Synchronous
<1>5. ASSUME NEW c \in Conns, Register(c) PROVE Synchronous'
  <2>1. /\ phase[c] = "recording" /\ ref[c] = live /\ live # NoRoom /\ live \in Incarnations
        /\ open[c] /\ saves = << >> /\ ~closing
        /\ \A d \in Conns : d # c => phase[d] \notin Suspended
    BY <1>5 DEF Register, Synchronous, NoRetry, OneAtATime, Handover, TypeOK
  <2>2. /\ UNCHANGED <<open, ref, rooms, live, reading, closing, saves>>
        /\ phase'[c] = "joined" /\ \A d \in Conns : d # c => phase'[d] = phase[d]
    BY <1>5 DEF Register, memory, TypeOK
  <2>3. Connections(live)' = Connections(live) \cup {c} /\ Entering = {c} /\ c \notin Connections(live)
    BY <2>1, <2>2 DEF Connections, Entering
  <2>4. rooms[live].table.players = OwnersOf(Connections(live)')
    <3>1. rooms[live].table.players = {Owner[d] : d \in Connections(live) \cup Entering}
      BY <2>1 DEF Synchronous, OneAtATime
    <3> QED
      BY <2>3, <3>1 DEF OwnersOf
  <2>5. ASSUME NEW d \in Connections(live)'
        PROVE  SameBoard(seen'[d], rooms[live].table) /\ seen'[d].players = OwnersOf(Connections(live)')
    <3>1. d \in Conns /\ Owner[c] \in Guests /\ seen[d] \in Tables
      BY OwnerType DEF Connections, TypeOK
    <3>2. CASE d = c
      <4>1. seen'[c] = seen[c]
        BY <1>5, <2>1, <2>3 DEF Register, Tell
      <4>2. seen[c] = rooms[live].table
        BY <2>1 DEF Synchronous, ToldAll
      <4> QED
        BY <2>4, <3>2, <4>1, <4>2 DEF SameBoard
    <3>3. CASE d # c
      <4>1. d \in Connections(live)
        BY <2>3, <3>3
      <4>2. SameBoard(seen[d], rooms[live].table) /\ seen[d].players = OwnersOf(Connections(live))
        BY <2>1, <4>1 DEF Synchronous, ToldAll, Agree, SameBoard, OwnersOf
      <4>3. OwnersOf(Connections(live)') = OwnersOf(Connections(live)) \cup {Owner[c]}
        BY <2>3 DEF OwnersOf
      <4>4. CASE AlreadyPresent(c)
        <5>1. Owner[c] \in OwnersOf(Connections(live))
          BY <2>1, <4>4 DEF AlreadyPresent, OwnersOf
        <5>2. seen'[d] = seen[d]
          BY <1>5, <4>4 DEF Register
        <5> QED
          BY <4>2, <4>3, <5>1, <5>2
      <4>5. CASE ~AlreadyPresent(c)
        <5>1. seen'[d] = Entered(seen[d], Owner[c])
          BY <1>5, <2>1, <3>1, <4>1, <4>5 DEF Register, Tell
        <5>2. /\ Entered(seen[d], Owner[c]).at = seen[d].at /\ Entered(seen[d], Owner[c]).hold = seen[d].hold
              /\ Entered(seen[d], Owner[c]).players = seen[d].players \cup {Owner[c]}
          BY <3>1, EnteredFacts
        <5> QED
          BY <4>2, <4>3, <5>1, <5>2 DEF SameBoard
      <4> QED
        BY <4>4, <4>5
    <3> QED
      BY <3>2, <3>3
  <2>6. \A d \in Conns : phase'[d] \notin Suspended \cup {"retrying"}
    BY <2>1, <2>2 DEF Synchronous, NoRetry
  <2>7. (\A d \in Conns : phase'[d] \in {"opened", "joined"} => open'[d]) /\ JoinedAreHere'
    BY <2>1, <2>2 DEF Synchronous, OneAtATime, JoinedAreHere
  <2> QED
    BY <2>1, <2>2, <2>4, <2>5, <2>6, <2>7, SynchronousAtRest
<1>6. CASE InRoom
  <2>1. EventLoopFree
    BY <1>6 DEF InRoom, Rename, Grab, Move, Drop, MayAct, Sweep, Checkpoint
  <2>2. \A c \in Conns : phase[c] \notin Suspended
    BY <2>1, FreeFacts
  <2>3. /\ UNCHANGED <<phase, open, ref, live, reading, closing>> /\ live \in Incarnations /\ live # NoRoom
        /\ rooms'[live].table.players = rooms[live].table.players
    BY <1>6, InRoomFacts, Counted
  <2>4. Connections(live)' = Connections(live) /\ Entering = {}
    BY <2>2, <2>3 DEF Connections, Entering
  <2>5. rooms[live].table.players = OwnersOf(Connections(live))
    BY <2>3, <2>4 DEF Synchronous, OneAtATime, OwnersOf
  <2>6. ASSUME NEW d \in Connections(live)
        PROVE  SameBoard(seen'[d], rooms'[live].table) /\ seen'[d].players = OwnersOf(Connections(live))
    <3>1. SameBoard(seen[d], rooms[live].table) /\ seen[d].players = OwnersOf(Connections(live))
      BY <2>3 DEF Synchronous, ToldAll, Agree, SameBoard, OwnersOf
    <3> QED
      BY <1>6, <3>1, InRoomTold
  <2>7. /\ \A c \in Conns : phase'[c] \notin Suspended \cup {"retrying"}
        /\ \A c \in Conns : phase'[c] \in {"opened", "joined"} => open'[c]
        /\ closing' => live' = NoRoom /\ ~reading'
        /\ JoinedAreHere'
    BY <2>2, <2>3 DEF Synchronous, NoRetry, OneAtATime, JoinedAreHere
  <2> QED
    BY <2>3, <2>4, <2>5, <2>6, <2>7, SynchronousAtRest
<1>7. ASSUME NEW c \in Conns, Close(c) PROVE Synchronous'
  <2>1. saves = << >> /\ ~reading /\ \A d \in Conns : phase[d] \notin Suspended
    BY <1>7, FreeFacts DEF Close
  <2>2. /\ UNCHANGED <<reading, closing>>
        /\ \A d \in Conns : d # c => phase'[d] = phase[d] /\ ref'[d] = ref[d] /\ open'[d] = open[d]
    BY <1>7 DEF Close, TypeOK
  <2>3. phase[c] # "retrying"
    BY DEF Synchronous, NoRetry
  <2>4. phase'[c] = "closed"
    BY <1>7, <2>1, <2>3 DEF Close, TypeOK, Phases, Underway
  <2>5. CASE phase[c] = "joined" /\ live # NoRoom
    <3>1. Leave(c) /\ live \in Incarnations /\ ~closing /\ ref[c] = live
      BY <1>7, <2>5 DEF Close, TypeOK, Synchronous, OneAtATime, JoinedAreHere
    <3>2. \A d \in Conns : phase'[d] \notin Suspended \cup {"retrying"}
      BY <2>1, <2>2, <2>4 DEF Synchronous, NoRetry
    <3>3. \A d \in Conns : phase'[d] \in {"opened", "joined"} => open'[d]
      BY <2>2, <2>4 DEF Synchronous, OneAtATime
    <3>4. CASE Evicts(c)
      <4>1. live' = NoRoom
        BY <2>5, <3>1, <3>4, LeaveFacts
      <4>2. \A d \in Conns : phase'[d] # "joined"
        BY <2>2, <2>4, <3>1, <3>4 DEF Evicts, Others, Connections, Synchronous, JoinedAreHere
      <4> QED
        BY <2>1, <2>2, <3>2, <3>3, <4>1, <4>2, SynchronousAtRest DEF JoinedAreHere
    <3>5. CASE ~Evicts(c)
      <4>1. live' = live
        BY <2>5, <3>1, <3>5, LeaveFacts
      <4>2. Connections(live)' = Others(c)
        BY <2>2, <2>4, <4>1 DEF Connections, Others
      <4>3. Entering = {} /\ rooms[live].table.players = OwnersOf(Connections(live))
        BY <2>1, <2>5 DEF Entering, Synchronous, OneAtATime, OwnersOf
      <4>4. c \in Connections(live) /\ Connections(live) = Others(c) \cup {c}
        BY <2>5, <3>1 DEF Connections, Others
      <4>5. Owner[c] \in rooms[live].table.players
        BY <4>3, <4>4 DEF OwnersOf
      <4>6. OwnersOf(Others(c)) = IF LastOfGuest(c) THEN OwnersOf(Connections(live)) \ {Owner[c]} ELSE OwnersOf(Connections(live))
        BY <4>4 DEF LastOfGuest, OwnersOf
      <4>7. rooms'[live].table.players = OwnersOf(Others(c))
        BY <2>5, <3>1, <3>5, <4>3, <4>5, <4>6, LeaveFacts
      <4>8. ASSUME NEW d \in Others(c)
            PROVE  SameBoard(seen'[d], rooms'[live].table) /\ seen'[d].players = OwnersOf(Others(c))
        <5>1. SameBoard(seen[d], rooms[live].table) /\ seen[d].players = OwnersOf(Connections(live))
          BY <2>5, <4>4 DEF Synchronous, ToldAll, Agree, SameBoard, OwnersOf
        <5> QED
          BY <2>5, <3>1, <3>5, <4>5, <4>6, <5>1, LeaveTold
      <4>9. JoinedAreHere'
        BY <2>2, <2>4, <4>1 DEF Synchronous, JoinedAreHere
      <4> QED
        BY <2>2, <3>1, <3>2, <3>3, <4>1, <4>2, <4>7, <4>8, <4>9, SynchronousAtRest
    <3> QED
      BY <3>4, <3>5
  <2>6. CASE ~(phase[c] = "joined" /\ live # NoRoom)
    <3>1. UNCHANGED <<rooms, live, saves>>
      BY <1>7, <2>6 DEF Close
    <3>2. CASE live = NoRoom
      <4>1. \A d \in Conns : phase'[d] \notin Suspended \cup {"retrying"}
        BY <2>1, <2>2, <2>4 DEF Synchronous, NoRetry
      <4>2. \A d \in Conns : phase'[d] \in {"opened", "joined"} => open'[d]
        BY <2>2, <2>4 DEF Synchronous, OneAtATime
      <4>3. JoinedAreHere'
        BY <2>2, <2>4, <3>1 DEF Synchronous, JoinedAreHere
      <4> QED
        BY <2>1, <2>2, <3>1, <3>2, <4>1, <4>2, <4>3, SynchronousAtRest
    <3>3. CASE live # NoRoom
      <4>1. seen' = seen
        BY <1>7, <2>6, <3>3 DEF Close
      <4> QED
        BY <2>1, <2>2, <2>4, <2>6, <3>1, <3>3, <4>1, SynchronousKept
    <3> QED
      BY <3>2, <3>3
  <2> QED
    BY <2>5, <2>6
<1>8. CASE LoadDone
  <2>1. PICK c \in Conns : phase[c] = "loading"
    BY <1>8 DEF LoadDone, Handover
  <2>2. live = NoRoom /\ saves = << >> /\ ~closing /\ \A d \in Conns : d # c => phase[d] \notin Suspended
    BY <1>8, <2>1 DEF LoadDone, Handover, Synchronous, OneAtATime
  <2>3. \A d \in Conns : phase[d] # "joined"
    BY <2>2 DEF Handover, Synchronous, JoinedAreHere
  <2>4. /\ live' = Fresh /\ Fresh \in Incarnations /\ UNCHANGED <<open, seen, closing, saves>> /\ ~reading'
        /\ phase'[c] = "naming" /\ ref'[c] = Fresh /\ rooms'[Fresh].table.players = {}
        /\ \A d \in Conns : d # c => phase'[d] = phase[d] /\ ref'[d] = ref[d]
    <3>1. Fresh \in Incarnations
      BY <2>2, FreshFacts
    <3> QED
      BY <1>8, <2>1, <2>2, <3>1 DEF LoadDone, TypeOK, LoadedRoom, FreshTable
  <2>5. Connections(live)' = {} /\ Entering' = {}
    BY <2>2, <2>3, <2>4 DEF Connections, Entering
  <2>6. OneAtATime'
    <3>1. open[c] /\ \A d \in Conns : phase[d] \in Suspended \cup {"opened", "joined"} => open[d]
      BY <2>1 DEF Synchronous, OneAtATime
    <3> QED
      BY <2>2, <2>4, <2>5, <3>1 DEF OneAtATime
  <2>7. ToldAll'
    BY <2>2, <2>4, <2>5 DEF ToldAll
  <2>8. NoRetry' /\ JoinedAreHere'
    BY <2>3, <2>4 DEF Synchronous, NoRetry, JoinedAreHere
  <2> QED
    BY <2>6, <2>7, <2>8 DEF Synchronous
<1>9. CASE LoadFails
  <2>1. PICK c \in Conns : phase[c] = "loading"
    BY <1>9 DEF LoadFails, Handover
  <2>2. \A d \in Conns : d # c => phase[d] \notin Suspended
    BY <2>1 DEF Synchronous, OneAtATime
  <2>3. /\ UNCHANGED <<open, ref, seen, rooms, live, closing, saves>> /\ ~reading' /\ phase'[c] \in {"failed", "closed"}
        /\ \A d \in Conns : d # c => phase'[d] = phase[d]
    BY <1>9, <2>1, <2>2 DEF LoadFails
  <2> QED
    BY <2>1, <2>2, <2>3, SynchronousKept
<1>10. CASE SaveDone \/ SaveFails
  <2>1. /\ saves # << >> /\ UNCHANGED <<open, ref, seen, rooms, live, closing>>
        /\ phase' = [c \in Conns |-> IF Flushes(Head(saves)) /\ phase[c] = "gated" THEN "loading" ELSE phase[c]]
        /\ reading' = (reading \/ (Flushes(Head(saves)) /\ \E c \in Conns : phase[c] = "gated"))
    BY <1>10 DEF SaveDone, SaveFails, SaveSettles
  <2>2. \A c \in Conns : phase[c] \notin Suspended
    BY <2>1 DEF Synchronous, OneAtATime
  <2>3. (\A c \in Conns : phase'[c] = phase[c]) /\ (reading' <=> reading)
    BY <2>1, <2>2
  <2>4. Connections(live)' = Connections(live) /\ Entering = {}
    BY <2>1, <2>2, <2>3 DEF Connections, Entering
  <2>5. live # NoRoom =>
          /\ rooms[live].table.players = OwnersOf(Connections(live))
          /\ \A c \in Connections(live) :
               SameBoard(seen[c], rooms[live].table) /\ seen[c].players = OwnersOf(Connections(live))
    BY <2>4 DEF Synchronous, OneAtATime, ToldAll, Agree, SameBoard, OwnersOf
  <2>6. /\ \A c \in Conns : phase'[c] \notin Suspended \cup {"retrying"}
        /\ \A c \in Conns : phase'[c] \in {"opened", "joined"} => open'[c]
        /\ closing' => live' = NoRoom /\ ~reading'
        /\ JoinedAreHere'
    BY <2>1, <2>2, <2>3 DEF Synchronous, NoRetry, OneAtATime, JoinedAreHere
  <2> QED
    BY <2>1, <2>4, <2>5, <2>6, SynchronousAtRest
<1>11. CASE Shutdown
  <2>1. ~reading /\ \A c \in Conns : phase[c] \notin Suspended
    BY <1>11, FreeFacts DEF Shutdown
  <2>2. UNCHANGED <<phase, open, ref, reading>> /\ closing' /\ live' = NoRoom
    BY <1>11 DEF Shutdown, sockets
  <2> QED
    BY <2>1, <2>2, SynchronousAtRest DEF Synchronous, NoRetry, OneAtATime, JoinedAreHere
<1>12. CASE Exit \/ Crash
  <2>1. (\A c \in Conns : phase'[c] = "closed") /\ live' = NoRoom /\ ~closing'
    BY <1>12 DEF Exit, Crash, Vanish
  <2> QED
    BY <2>1, SynchronousAtRest DEF JoinedAreHere
<1>13. CASE UNCHANGED vars
  BY <1>13 DEF vars, Synchronous, NoRetry, OneAtATime, JoinedAreHere, ToldAll, Connections, Entering
<1> QED
  BY <1>1, <1>2, <1>3, <1>4, <1>5, <1>6, <1>7, <1>8, <1>9, <1>10, <1>11, <1>12, <1>13
     DEF Next, InRoom, RecordFails

\* Whatever holds once Synchronous does, holds of the registry with a synchronous store.
SyncInv == TypeOK /\ Handover /\ Synchronous

LEMMA SyncInvCorrect ==
  ASSUME ~AsyncStore, "record" \notin Incidents
  PROVE  Spec => []SyncInv
<1>1. Init => SyncInv
  <2>1. Init => Synchronous
    BY DEF Init, Synchronous, NoRetry, OneAtATime, JoinedAreHere, ToldAll, Suspended
  <2> QED
    BY <2>1, InitType, InitHandover DEF SyncInv
<1>2. SyncInv /\ [Next]_vars => SyncInv'
  BY NextType, HandoverStep, SynchronousStep DEF SyncInv
<1> QED
  BY <1>1, <1>2, PTL DEF Spec

\* NFR-6, SPEC 7.2: with the synchronous store, and as long as no membership write is
\* retried, a socket in play has been told the table and the roster of its room, however
\* joins, second tabs, evictions, shutdowns and crashes follow each other.
THEOREM ViewsAgreeCorrect ==
  ASSUME ~AsyncStore, "record" \notin Incidents
  PROVE  Spec => []ViewsAgree
<1>1. SyncInv => ViewsAgree
  <2> SUFFICES ASSUME SyncInv, live # NoRoom, NEW c \in Connections(live)
               PROVE  Agree(seen[c], rooms[live].table, Unannounced(live))
    BY DEF ViewsAgree, SyncInv, Synchronous
  <2>1. /\ seen[c].at = rooms[live].table.at /\ seen[c].hold = rooms[live].table.hold
        /\ seen[c].players = {Owner[d] : d \in Connections(live)}
    BY DEF SyncInv, Synchronous, ToldAll, Agree
  <2>2. rooms[live].table.players = {Owner[d] : d \in Connections(live) \cup Entering}
    BY DEF SyncInv, Synchronous, OneAtATime
  <2>3. Entering \subseteq Joining(live)
    BY DEF SyncInv, Synchronous, OneAtATime, Entering, Joining
  <2> QED
    BY <2>1, <2>2, <2>3 DEF Agree, Unannounced
<1> QED
  BY <1>1, SyncInvCorrect, PTL

\* SPEC 7.4: under the same two hypotheses the guests of a room are those somebody is
\* connected as: no channel loss leaves a ghost, and no second tab takes its guest along.
THEOREM PresenceIsRealCorrect ==
  ASSUME ~AsyncStore, "record" \notin Incidents
  PROVE  Spec => []PresenceIsReal
<1>1. SyncInv => PresenceIsReal
  <2> SUFFICES ASSUME SyncInv PROVE NoGhosts /\ TabsKeepGuest
    BY DEF PresenceIsReal, SyncInv, Synchronous
  <2>1. live # NoRoom => rooms[live].table.players = {Owner[d] : d \in Connections(live) \cup Entering}
    BY DEF SyncInv, Synchronous, OneAtATime
  <2>2. \A c \in Connections(live) \cup Entering : c \in Conns /\ open[c]
    BY DEF SyncInv, Synchronous, OneAtATime, Connections, Entering, Suspended
  <2>3. NoGhosts
    BY <2>1, <2>2 DEF NoGhosts
  <2>4. TabsKeepGuest
    BY <2>1 DEF TabsKeepGuest, InPlay, Connections
  <2> QED
    BY <2>3, <2>4
<1> QED
  BY <1>1, SyncInvCorrect, PTL

\* NFR-5, ConfirmedIsKept by itself: what a socket was shown joined or locked is what
\* the next to open the room will find.
THEOREM ConfirmedIsKeptCorrect ==
  ASSUME {"crash", "save"} \cap Incidents = {}, "stop" \in Incidents => ~AsyncStore
  PROVE  Spec => []ConfirmedIsKept
<1>1. StoreIsSound => ConfirmedIsKept
  BY DEF StoreIsSound
<1> QED
  BY <1>1, StoreIsSoundCorrect, PTL
=============================================================================
