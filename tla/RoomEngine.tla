----------------------------- MODULE RoomEngine -----------------------------
(***************************************************************************)
(* One room's authoritative state, the referee                             *)
(* (apps/server/src/engine/room.ts).  The engine is synchronous: every     *)
(* method runs to completion, so each is one action.  A call the engine    *)
(* rejects changes nothing and is not an action.                           *)
(*                                                                         *)
(* A resume token is identified with the guest it was minted for: both are *)
(* random and minted together.  Cursor colours and message layout are left *)
(* out.  Time is an integer clock; MaxNow bounds it.                       *)
(***************************************************************************)
EXTENDS Snap

CONSTANTS
  Guests,       \* guest ids that may be minted; bounds the identities of a room
  Users,        \* persistent user ids
  Names,        \* display names
  None,         \* an absent token, user id or name
  RoomCap,      \* ROOM_CAP
  HoldTimeout,  \* HOLD_TIMEOUT_MS
  Scatter,      \* initialScatter: piece -> seeded position
  Reports,      \* the positions a client may report in a move or a drop
  MaxNow        \* bound on the clock

ASSUME NoneAssumption == None \notin Guests \cup Users \cup Names
ASSUME CapAssumption == RoomCap \in Nat \ {0} /\ HoldTimeout \in Nat \ {0} /\ MaxNow \in Nat
ASSUME PlaceAssumption == Scatter \in [Pieces -> Point] /\ Reports \subseteq Point

VARIABLES
  groups,       \* live group id -> [pieces, position, locked]
  holds,        \* held group id -> [holder, lastActivityAt]
  identities,   \* minted guest -> [name, user, placedCount]
  connected,    \* guests connected now
  credited,     \* pieces already credited
  status,       \* settings.status
  activeMs,     \* solving time accumulated in finished stretches
  activeSince,  \* start of the running stretch, or NotActive
  now,          \* the injected clock
  solving       \* history: time spent active with someone connected

table == <<groups, holds, credited, status>>
presence == <<identities, connected>>
clock == <<activeMs, activeSince, now, solving>>
vars == <<groups, holds, identities, connected, credited, status,
          activeMs, activeSince, now, solving>>

NotActive == -1
Hold == [holder : Guests, lastActivityAt : 0..MaxNow]
Identity == [name : Names, user : Users \cup {None}, placedCount : Nat]

TypeOK ==
  /\ DOMAIN groups \subseteq Pieces /\ groups \in [DOMAIN groups -> Group]
  /\ DOMAIN holds \subseteq Pieces /\ holds \in [DOMAIN holds -> Hold]
  /\ DOMAIN identities \subseteq Guests /\ identities \in [DOMAIN identities -> Identity]
  /\ connected \subseteq DOMAIN identities
  /\ credited \subseteq Pieces
  /\ status \in {"active", "completed"}
  /\ activeMs \in 0..MaxNow /\ solving \in 0..MaxNow /\ now \in 0..MaxNow
  /\ activeSince \in {NotActive} \cup 0..now

-----------------------------------------------------------------------------
(* The seeded baseline, and the record of what deviates from it. *)

Singleton(p) == [pieces |-> {p}, position |-> Scatter[p], locked |-> FALSE]

\* Mutated form: forgets that a lone piece may have moved.
IsJoined(group) == Cardinality(group.pieces) > 1 \/ group.locked

IsDeviated(group) ==
  \/ Cardinality(group.pieces) > 1
  \/ group.locked
  \/ group.position # Scatter[Min(group.pieces)]

\* serialize(): what the room store keeps of the groups.
SerializedGroups == Restrict(groups, {id \in DOMAIN groups : IsDeviated(groups[id])})

\* The constructor: persisted groups replace the singletons of their pieces.
RestoredGroups(saved) ==
  LET replaced == UNION {saved[id].pieces : id \in DOMAIN saved}
  IN  [id \in (Pieces \ replaced) \cup DOMAIN saved |->
         IF id \in DOMAIN saved THEN saved[id] ELSE Singleton(id)]

Init ==
  /\ groups = [p \in Pieces |-> Singleton(p)]
  /\ holds = << >> /\ identities = << >>
  /\ connected = {} /\ credited = {} /\ status = "active"
  /\ activeMs = 0 /\ activeSince = NotActive /\ now = 0 /\ solving = 0

-----------------------------------------------------------------------------
(* Join, rename, leave. *)

GuestOf(user) == {g \in DOMAIN identities : user # None /\ identities[g].user = user}

\* The token is tried first, then the user id.
Resumed(token, user) == IF token \in DOMAIN identities THEN {token} ELSE GuestOf(user)

\* Mutated form: every join restarts the solving clock.
EnterAfresh(g) ==
  /\ connected' = connected \cup {g}
  /\ activeSince' = IF status = "active" THEN now ELSE activeSince
  /\ UNCHANGED <<groups, holds, credited, status, activeMs, now, solving>>

Enter(g) ==
  /\ connected' = connected \cup {g}
  /\ activeSince' = IF connected' = {g} /\ status = "active" /\ activeSince = NotActive
                      THEN now ELSE activeSince
  /\ UNCHANGED <<groups, holds, credited, status, activeMs, now, solving>>

HasSlot(g) == g \in connected \/ Cardinality(connected) < RoomCap

Resume(g, name) ==
  /\ HasSlot(g)
  /\ identities' = IF name # None /\ status # "completed"
                     THEN [identities EXCEPT ![g].name = name] ELSE identities
  /\ Enter(g)

NamesTaken == {identities[g].name : g \in DOMAIN identities}

Mint(g, user, name) ==
  /\ g \notin DOMAIN identities /\ HasSlot(g)
  /\ \E n \in IF name # None THEN {name} ELSE Names \ NamesTaken :
       identities' = [h \in DOMAIN identities \cup {g} |->
         IF h = g THEN [name |-> n, user |-> user, placedCount |-> 0] ELSE identities[h]]
  /\ Enter(g)

Join(token, user, name) ==
  \/ \E g \in Resumed(token, user) : Resume(g, name)
  \/ Resumed(token, user) = {} /\ \E g \in Guests : Mint(g, user, name)

\* Mutated form: a completed room still accepts names.
RenameAnytime(g, name) ==
  /\ g \in DOMAIN identities
  /\ identities' = [identities EXCEPT ![g].name = name]
  /\ UNCHANGED <<table, connected, clock>>

Rename(g, name) ==
  /\ status # "completed" /\ g \in DOMAIN identities
  /\ identities' = [identities EXCEPT ![g].name = name]
  /\ UNCHANGED <<table, connected, clock>>

\* Mutated form: holds survive their release.
KeepHolds(ids) == UNCHANGED holds

ReleaseHolds(ids) == holds' = Restrict(holds, DOMAIN holds \ ids)

FlushActiveTime ==
  /\ activeMs' = IF activeSince = NotActive THEN activeMs ELSE activeMs + (now - activeSince)
  /\ activeSince' = NotActive

Leave(g) ==
  /\ g \in connected
  /\ connected' = connected \ {g}
  /\ ReleaseHolds({id \in DOMAIN holds : holds[id].holder = g})
  /\ IF connected' = {} THEN FlushActiveTime ELSE UNCHANGED <<activeMs, activeSince>>
  /\ UNCHANGED <<groups, identities, credited, status, now, solving>>

-----------------------------------------------------------------------------
(* Grab, move, drop, and the idle sweep. *)

SetHold(id, g) ==
  holds' = [i \in DOMAIN holds \cup {id} |->
              IF i = id THEN [holder |-> g, lastActivityAt |-> now] ELSE holds[i]]

Playable(g, id) ==
  /\ status # "completed" /\ g \in connected
  /\ id \in DOMAIN groups /\ ~groups[id].locked

Grab(g, id) ==
  /\ Playable(g, id)
  /\ id \in DOMAIN holds => holds[id].holder = g
  /\ SetHold(id, g)
  /\ UNCHANGED <<groups, credited, status, presence, clock>>

\* Mutated form: any guest may move or drop a held group.
AnyoneMutates(g, id) == Playable(g, id) /\ id \in DOMAIN holds

HolderMutation(g, id) == Playable(g, id) /\ id \in DOMAIN holds /\ holds[id].holder = g

Move(g, id, pos) ==
  /\ HolderMutation(g, id)
  /\ groups' = [groups EXCEPT ![id].position = pos]
  /\ holds' = [holds EXCEPT ![id].lastActivityAt = now]
  /\ UNCHANGED <<credited, status, presence, clock>>

\* Mutated form: a drop sees every group, held or not.
AllVisible(id) == groups

\* Groups in another hand are not on the table.
Visible(id) == Restrict(groups, {i \in DOMAIN groups : i = id \/ i \notin DOMAIN holds})

DropOutcome(id, pos) ==
  EvaluateSnap(Visible(id), id, ClampGroupToBoard(pos, groups[id].pieces))

\* Mutated form: the pieces of absorbed groups are dropped with them.
AfterDropAlone(id, outcome) ==
  [i \in DOMAIN groups \ outcome.mergedIds |->
     IF i = id THEN [outcome.group EXCEPT !.pieces = groups[id].pieces] ELSE groups[i]]

AfterDrop(id, outcome) ==
  [i \in DOMAIN groups \ outcome.mergedIds |->
     IF i = id THEN outcome.group ELSE groups[i]]

\* Mutated form: pieces credited before count again.
CreditAgain(g, pieces) ==
  /\ credited' = credited \cup pieces
  /\ identities' = [identities EXCEPT ![g].placedCount = @ + Cardinality(pieces)]

\* Credit for a piece goes, once and for ever, to whoever first connects it.
Credit(g, pieces) ==
  /\ credited' = credited \cup pieces
  /\ identities' = [identities EXCEPT ![g].placedCount = @ + Cardinality(pieces \ credited)]

AllLocked(gs) == \A id \in DOMAIN gs : gs[id].locked

Finish(outcome) ==
  IF outcome.group.locked /\ AllLocked(groups')
    THEN status' = "completed" /\ FlushActiveTime
    ELSE UNCHANGED <<status, activeMs, activeSince>>

Drop(g, id, pos) ==
  /\ HolderMutation(g, id)
  /\ LET outcome == DropOutcome(id, pos)
     IN  /\ groups' = AfterDrop(id, outcome)
         /\ ReleaseHolds({id})
         /\ Credit(g, outcome.connectedPieces)
         /\ Finish(outcome)
  /\ UNCHANGED <<connected, now, solving>>

Idle(id) == now - holds[id].lastActivityAt >= HoldTimeout

ExpireIdleHolds ==
  /\ \E id \in DOMAIN holds : Idle(id)
  /\ ReleaseHolds({id \in DOMAIN holds : Idle(id)})
  /\ UNCHANGED <<groups, credited, status, presence, clock>>

Tick ==
  /\ now < MaxNow
  /\ now' = now + 1
  /\ solving' = IF connected # {} /\ status = "active" THEN solving + 1 ELSE solving
  /\ UNCHANGED <<table, presence, activeMs, activeSince>>

Next ==
  \/ \E token \in Guests \cup {None}, user \in Users \cup {None}, name \in Names \cup {None} :
       Join(token, user, name)
  \/ \E g \in Guests, name \in Names : Rename(g, name)
  \/ \E g \in Guests : Leave(g)
  \/ \E g \in Guests, id \in Pieces : Grab(g, id)
  \/ \E g \in Guests, id \in Pieces, pos \in Reports : Move(g, id, pos)
  \/ \E g \in Guests, id \in Pieces, pos \in Reports : Drop(g, id, pos)
  \/ ExpireIdleHolds
  \/ Tick

Spec == Init /\ [][Next]_vars
=============================================================================
