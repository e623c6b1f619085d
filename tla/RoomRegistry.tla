---------------------------- MODULE RoomRegistry ----------------------------
(***************************************************************************)
(* The live room around the asynchronous room store                        *)
(* (apps/server/src/net/registry.ts, with the socket lifecycle of ws.ts).  *)
(* JavaScript runs a handler up to its next await; each stretch between    *)
(* awaits is one action, and handlers of different sockets interleave at   *)
(* the awaits.  One room is modelled: rooms share nothing.                 *)
(*                                                                         *)
(* The engine is reduced to a table: where each piece lies, who holds it   *)
(* and who is in the room; Home stands for joined or locked for good.      *)
(* Every socket is authenticated, so a guest is its user.  The store       *)
(* settles its writes in the order they were issued.                       *)
(***************************************************************************)
EXTENDS Integers, Sequences, FiniteSets, Functions

CONSTANTS
  Conns,       \* sockets; one is opened again only when its handlers are done
  Owner,       \* socket -> the guest who opened it
  Pieces,      \* pieces, each a group of its own
  Cap,         \* ROOM_CAP
  AsyncStore,  \* FALSE: every store promise settles before the next event,
               \* as those of the synchronous SqliteRoomStore do
  Incidents,   \* what may happen: "crash", "stop", "save", "load", "record"
  MaxSaves     \* bound: a checkpoint fires only with fewer saves in flight

ASSUME OwnerAssumption == DOMAIN Owner = Conns /\ IsFiniteSet(Conns) /\ Conns # {}
ASSUME BoundAssumption == Cap \in Nat \ {0} /\ MaxSaves \in Nat \ {0} /\ AsyncStore \in BOOLEAN
ASSUME IncidentAssumption == Incidents \subseteq {"crash", "stop", "save", "load", "record"}

VARIABLES
  phase,     \* socket -> how far its handler is
  open,      \* socket -> is it still open?
  ref,       \* socket -> the live room its handler refers to, or NoRoom
  seen,      \* socket -> the table it has been told of
  rooms,     \* incarnation -> the LiveRoom: its table and whether its checkpoint is due
  live,      \* the incarnation in the rooms map, or NoRoom
  reading,   \* is a load in flight?
  saves,     \* writes in flight, oldest first
  stored,    \* where the store has the pieces
  closing,   \* has shutdown begun?
  confirmed, \* history: pieces some socket was shown joined or locked
  announced, \* history: has completion been broadcast?
  overtaken  \* history: sockets whose join was overtaken by what happened meanwhile

history == <<confirmed, announced>>
sockets == <<phase, open, ref, seen>>
memory == <<rooms, live, reading, closing>>
vars == <<phase, open, ref, seen, rooms, live, reading, saves, stored, closing,
          confirmed, announced, overtaken>>

Guests == Range(Owner)
NoRoom == 0
Incarnations == 1 .. (Cardinality(Conns) + 1)
Spots == {"Start", "Moved", "Home"}
Layout == [Pieces -> Spots]
AllAt(spot) == [p \in Pieces |-> spot]
Solved(at) == at = AllAt("Home")
AtHome(at) == {p \in Pieces : at[p] = "Home"}

\* A handler of c is suspended on a store promise.
Suspended == {"gated", "loading", "naming", "recording"}
Underway == Suspended \cup {"retrying"}
InEngine == {"recording", "retrying"}
Phases == Underway \cup {"closed", "opened", "joined", "failed"}

Tables ==
  [at : Layout, hold : UNION {[ps -> Guests] : ps \in SUBSET Pieces}, players : SUBSET Guests]
Writes ==
  [kind : {"checkpoint", "evict", "completion", "shutdown"}, room : Incarnations, at : Layout]

TypeOK ==
  /\ phase \in [Conns -> Phases] /\ open \in [Conns -> BOOLEAN]
  /\ ref \in [Conns -> Incarnations \cup {NoRoom}]
  /\ seen \in [Conns -> Tables]
  /\ rooms \in [Incarnations -> [table : Tables, timer : BOOLEAN]]
  /\ live \in Incarnations \cup {NoRoom} /\ reading \in BOOLEAN /\ closing \in BOOLEAN
  /\ saves \in Seq(Writes) /\ stored \in Layout
  /\ confirmed \subseteq Pieces /\ announced \in BOOLEAN /\ overtaken \subseteq Conns

-----------------------------------------------------------------------------
(* Tables, and what the room's messages say about them. *)

FreshTable(at) == [at |-> at, hold |-> << >>, players |-> {}]
NoTable == FreshTable(AllAt("Start"))
LoadedRoom(at) == [table |-> FreshTable(at), timer |-> FALSE]

Held(t, p, g) ==
  [t EXCEPT !.hold = [q \in DOMAIN @ \cup {p} |-> IF q = p THEN g ELSE @[q]]]
Released(t, ps) == [t EXCEPT !.hold = Restrict(@, DOMAIN @ \ ps)]
Moved(t, p, spot) == [t EXCEPT !.at[p] = spot]
Snapped(t, p, spot) == Released(Moved(t, p, spot), {p})
Entered(t, g) == [t EXCEPT !.players = @ \cup {g}]
HeldBy(t, g) == {p \in DOMAIN t.hold : t.hold[p] = g}
Departed(t, g) == [Released(t, HeldBy(t, g)) EXCEPT !.players = @ \ {g}]

\* room.connections: a socket is registered until it leaves.
Connections(i) == {c \in Conns : phase[c] = "joined" /\ ref[c] = i}

\* broadcast(): every socket of cs is told Message.
Tell(cs, Message(_)) == seen' = [d \in Conns |-> IF d \in cs THEN Message(seen[d]) ELSE seen[d]]

Save(kind, i, at) == Append(saves, [kind |-> kind, room |-> i, at |-> at])

\* Mutated form: nobody waits for an eviction.
NotGated == FALSE

\* getOrLoad waits for an eviction whose flush is in flight.
Evicting == \E k \in DOMAIN saves : saves[k].kind = "evict"

\* An event is handled once the promises of a synchronous store have settled.
EventLoopFree ==
  \/ AsyncStore
  \/ saves = << >> /\ ~reading /\ \A c \in Conns : phase[c] \notin Suspended

\* What join() does not look at again after an await: its socket closes, its room
\* leaves the map, or its snapshot is outdated because the pieces or holds change or
\* the guest is taken out of the table.
Overtakes(c) ==
  \/ phase[c] \in Underway /\ open[c] /\ ~open'[c]
  \/ phase[c] \in InEngine \cup {"naming"} /\ live' # ref[c]
  \/ phase[c] \in InEngine /\
       LET before == rooms[ref[c]].table
           after == rooms'[ref[c]].table
       IN  \/ after.at # before.at \/ after.hold # before.hold
           \/ Owner[c] \in before.players \ after.players

\* Part of every action; no guard reads it.
NoteOvertaken ==
  overtaken' = {c \in Conns : phase'[c] \in Underway \cup {"joined"} /\
                               (c \in overtaken \/ Overtakes(c))}

Init ==
  /\ phase = [c \in Conns |-> "closed"] /\ open = [c \in Conns |-> FALSE]
  /\ ref = [c \in Conns |-> NoRoom] /\ seen = [c \in Conns |-> NoTable]
  /\ rooms = [i \in Incarnations |-> LoadedRoom(AllAt("Start"))]
  /\ live = NoRoom /\ reading = FALSE /\ saves = << >> /\ closing = FALSE
  /\ stored = AllAt("Start")
  /\ confirmed = {} /\ announced = FALSE /\ overtaken = {}

-----------------------------------------------------------------------------
(* Opening a socket and joining. *)

Open(c) ==
  /\ EventLoopFree /\ ~closing
  /\ phase[c] = "closed"
  /\ phase' = [phase EXCEPT ![c] = "opened"]
  /\ open' = [open EXCEPT ![c] = TRUE]
  /\ UNCHANGED <<ref, seen, memory, saves, stored, history>>
  /\ NoteOvertaken

\* join(), up to the first await of getOrLoad.
JoinRequest(c) ==
  /\ EventLoopFree
  /\ phase[c] = "opened"
  /\ IF closing
       THEN /\ phase' = [phase EXCEPT ![c] = "closed"]
            /\ open' = [open EXCEPT ![c] = FALSE]
            /\ UNCHANGED <<ref, reading>>
       ELSE /\ phase' = [phase EXCEPT ![c] =
                 IF Evicting THEN "gated" ELSE IF live # NoRoom THEN "naming" ELSE "loading"]
            /\ ref' = [ref EXCEPT ![c] = IF Evicting THEN NoRoom ELSE live]
            /\ reading' = (reading \/ phase'[c] = "loading")
            /\ UNCHANGED open
  /\ UNCHANGED <<seen, rooms, live, closing, saves, stored, history>>
  /\ NoteOvertaken

Fresh == CHOOSE i \in Incarnations : i # live /\ \A c \in Conns : ref[c] # i

\* Everyone who asked for the room while it was loading shares the result.
LoadDone ==
  /\ reading /\ reading' = FALSE
  /\ live' = Fresh
  /\ rooms' = [rooms EXCEPT ![Fresh] = LoadedRoom(stored)]
  /\ ref' = [c \in Conns |-> IF phase[c] = "loading" THEN Fresh ELSE ref[c]]
  /\ phase' = [c \in Conns |-> IF phase[c] = "loading" THEN "naming" ELSE phase[c]]
  /\ UNCHANGED <<open, seen, closing, saves, stored, history>>
  /\ NoteOvertaken

\* A rejected load is logged; the socket stays open without an answer.
LoadFails ==
  /\ "load" \in Incidents
  /\ reading /\ reading' = FALSE
  /\ phase' = [c \in Conns |->
       IF phase[c] # "loading" THEN phase[c] ELSE IF open[c] THEN "failed" ELSE "closed"]
  /\ UNCHANGED <<open, ref, seen, rooms, live, closing, saves, stored, history>>
  /\ NoteOvertaken

RoomFull(t, g) == g \notin t.players /\ Cardinality(t.players) >= Cap

Refuse(c) ==
  /\ phase[c] = "naming" /\ RoomFull(rooms[ref[c]].table, Owner[c])
  /\ phase' = [phase EXCEPT ![c] = "closed"]
  /\ open' = [open EXCEPT ![c] = FALSE]
  /\ ref' = [ref EXCEPT ![c] = NoRoom]
  /\ UNCHANGED <<seen, memory, saves, stored, history>>
  /\ NoteOvertaken

\* engine.join(), whose snapshot is sent when the membership is recorded.
Enter(c) ==
  /\ phase[c] = "naming" /\ ~RoomFull(rooms[ref[c]].table, Owner[c])
  /\ rooms' = [rooms EXCEPT ![ref[c]].table = Entered(@, Owner[c])]
  /\ seen' = [seen EXCEPT ![c] = rooms'[ref[c]].table]
  /\ phase' = [phase EXCEPT ![c] = "recording"]
  /\ UNCHANGED <<open, ref, live, reading, closing, saves, stored, history>>
  /\ NoteOvertaken

\* The first write fails: recordMembershipWithRetry waits before the next.
RecordFails(c) ==
  /\ "record" \in Incidents
  /\ phase[c] = "recording"
  /\ phase' = [phase EXCEPT ![c] = "retrying"]
  /\ UNCHANGED <<open, ref, seen, memory, saves, stored, history>>
  /\ NoteOvertaken

\* Mutated form: asks after the socket is registered.
PresentOnceSet(c) == \E d \in Connections(ref[c]) \cup {c} : Owner[d] = Owner[c]

AlreadyPresent(c) == \E d \in Connections(ref[c]) : Owner[d] = Owner[c]

\* The membership is recorded or given up: the socket is registered and told.
Register(c) ==
  /\ phase[c] \in {"recording", "retrying"}
  /\ phase[c] = "retrying" => EventLoopFree
  /\ phase' = [phase EXCEPT ![c] = "joined"]
  /\ IF AlreadyPresent(c) THEN UNCHANGED seen
       ELSE Tell(Connections(ref[c]), LAMBDA t : Entered(t, Owner[c]))
  /\ UNCHANGED <<open, ref, memory, saves, stored, history>>
  /\ NoteOvertaken

-----------------------------------------------------------------------------
(* The intents of a joined socket act on whatever incarnation is live. *)

\* Frames that were queued behind the join are handled even if the socket has closed.
MayAct(c) == EventLoopFree /\ phase[c] = "joined" /\ live # NoRoom

Playable(t, g, p) == ~Solved(t.at) /\ g \in t.players /\ t.at[p] # "Home"

Grab(c, p) ==
  /\ MayAct(c)
  /\ LET t == rooms[live].table IN Playable(t, Owner[c], p) /\ (p \in DOMAIN t.hold => t.hold[p] = Owner[c])
  /\ rooms' = [rooms EXCEPT ![live].table = Held(@, p, Owner[c])]
  /\ Tell(Connections(live), LAMBDA t : Held(t, p, Owner[c]))
  /\ UNCHANGED <<phase, open, ref, live, reading, closing, saves, stored, history>>
  /\ NoteOvertaken

Holds(c, p) ==
  LET t == rooms[live].table
  IN  Playable(t, Owner[c], p) /\ p \in HeldBy(t, Owner[c])

\* The mover leads its own board; the others are told.
Move(c, p) ==
  /\ MayAct(c) /\ Holds(c, p)
  /\ rooms' = [rooms EXCEPT ![live] = [table |-> Moved(@.table, p, "Moved"), timer |-> TRUE]]
  /\ Tell(Connections(live) \cup {c}, LAMBDA t : Moved(t, p, "Moved"))
  /\ UNCHANGED <<phase, open, ref, live, reading, closing, saves, stored, history>>
  /\ NoteOvertaken

\* Mutated form: completion is saved by nobody but an eviction.
PersistOnEviction(t) ==
  /\ rooms' = [rooms EXCEPT ![live] = [table |-> t, timer |-> ~Solved(t.at)]]
  /\ UNCHANGED <<saves, announced>>

\* A drop that completes the room is saved at once, any other with the checkpoint.
Persist(t) ==
  /\ rooms' = [rooms EXCEPT ![live] = [table |-> t, timer |-> ~Solved(t.at)]]
  /\ saves' = IF Solved(t.at) THEN Save("completion", live, t.at) ELSE saves
  /\ UNCHANGED announced

Drop(c, p, spot) ==
  /\ MayAct(c) /\ Holds(c, p)
  /\ Persist(Snapped(rooms[live].table, p, spot))
  /\ Tell(Connections(live), LAMBDA t : Snapped(t, p, spot))
  /\ confirmed' = IF spot = "Home" /\ Connections(live) # {} THEN confirmed \cup {p} ELSE confirmed
  /\ UNCHANGED <<phase, open, ref, live, reading, closing, stored>>
  /\ NoteOvertaken

\* Names are not modelled, but a new one makes the room dirty.
Rename(c) ==
  /\ MayAct(c) /\ ~Solved(rooms[live].table.at)
  /\ rooms' = [rooms EXCEPT ![live].timer = TRUE]
  /\ UNCHANGED <<sockets, live, reading, closing, saves, stored, history>>
  /\ NoteOvertaken

\* Mutated form: nobody is told of the released holds.
SweepSilently ==
  /\ EventLoopFree /\ live # NoRoom
  /\ \E ps \in SUBSET DOMAIN rooms[live].table.hold \ {{}} :
       rooms' = [rooms EXCEPT ![live].table = Released(@, ps)]
  /\ UNCHANGED <<sockets, live, reading, closing, saves, stored, history>>
  /\ NoteOvertaken

\* expireIdleHolds: the holds that are idle, whichever they are, are released.
Sweep ==
  /\ EventLoopFree /\ live # NoRoom
  /\ \E ps \in SUBSET DOMAIN rooms[live].table.hold \ {{}} :
       /\ rooms' = [rooms EXCEPT ![live].table = Released(@, ps)]
       /\ Tell(Connections(live), LAMBDA t : Released(t, ps))
  /\ UNCHANGED <<phase, open, ref, live, reading, closing, saves, stored, history>>
  /\ NoteOvertaken

-----------------------------------------------------------------------------
(* Leaving and evicting. *)

Others(c) == Connections(live) \ {c}

\* Mutated form: every socket takes its guest along.
AnySocket(c) == TRUE

LastOfGuest(c) == \A d \in Others(c) : Owner[d] # Owner[c]

\* Mutated forms: the room goes with any guest, or not while it is dirty.
EvictsOnDeparture(c) == LastOfGuest(c) /\ ~closing
EvictsWhenClean(c) == Others(c) = {} /\ ~closing /\ ~rooms[live].timer

Evicts(c) == Others(c) = {} /\ ~closing

\* leave(): the guest departs with its last socket, the room with its last guest.
Leave(c) ==
  LET t == rooms[live].table
      departs == LastOfGuest(c) /\ Owner[c] \in t.players
      left == IF departs THEN Departed(t, Owner[c]) ELSE t
      evicts == Evicts(c)
      awaited == \E d \in Conns \ {c} : ref[d] = live
  IN  /\ rooms' = [rooms EXCEPT ![live] =
           IF evicts /\ ~awaited THEN LoadedRoom(AllAt("Start"))
           ELSE [table |-> left, timer |-> @.timer /\ ~evicts]]
      /\ live' = IF evicts THEN NoRoom ELSE live
      /\ saves' = IF evicts THEN Save("evict", live, left.at) ELSE saves
      /\ seen' = [d \in Conns |->
           IF d = c THEN NoTable
           ELSE IF d \in Others(c) /\ departs THEN Departed(seen[d], Owner[c]) ELSE seen[d]]

\* The socket closes.  A handler still joining knows nothing of it and goes on.
Close(c) ==
  /\ EventLoopFree
  /\ open[c] /\ open' = [open EXCEPT ![c] = FALSE]
  /\ IF phase[c] \in {"opened", "failed", "joined"}
       THEN /\ phase' = [phase EXCEPT ![c] = "closed"]
            /\ ref' = [ref EXCEPT ![c] = NoRoom]
       ELSE UNCHANGED <<phase, ref>>
  /\ IF phase[c] = "joined" /\ live # NoRoom
       THEN Leave(c)
       ELSE /\ seen' = IF phase[c] = "joined" THEN [seen EXCEPT ![c] = NoTable] ELSE seen
            /\ UNCHANGED <<rooms, live, saves>>
  /\ UNCHANGED <<reading, closing, stored, history>>
  /\ NoteOvertaken

-----------------------------------------------------------------------------
(* Saving. *)

Checkpoint ==
  /\ EventLoopFree /\ Len(saves) < MaxSaves
  /\ live # NoRoom /\ rooms[live].timer
  /\ rooms' = [rooms EXCEPT ![live].timer = FALSE]
  /\ saves' = Save("checkpoint", live, rooms[live].table.at)
  /\ UNCHANGED <<sockets, live, reading, closing, stored, history>>
  /\ NoteOvertaken

\* Mutated form: the entry of a flushed eviction is never removed.
FlushesNever(save) == FALSE

Flushes(save) == save.kind = "evict"

\* The oldest write settles; a failure is logged and otherwise treated alike.
\* After an eviction's flush the waiting joins load the room; after the save of
\* a completion it is broadcast.
SaveSettles(ok) ==
  /\ saves # << >>
  /\ LET save == Head(saves)
         flushed == Flushes(save)
     IN  /\ stored' = IF ok THEN save.at ELSE stored
         /\ phase' = [c \in Conns |-> IF flushed /\ phase[c] = "gated" THEN "loading" ELSE phase[c]]
         /\ reading' = (reading \/ (flushed /\ \E c \in Conns : phase[c] = "gated"))
         /\ announced' = (announced \/ (save.kind = "completion" /\ Connections(save.room) # {}))
  /\ saves' = Tail(saves)
  /\ UNCHANGED <<open, ref, seen, rooms, live, closing, confirmed>>
  /\ NoteOvertaken

SaveDone == SaveSettles(TRUE)
SaveFails == "save" \in Incidents /\ SaveSettles(FALSE)

-----------------------------------------------------------------------------
(* Shutting down and crashing. *)

\* Mutated form: the rooms are cleared before they are listed.
FlushNothing == UNCHANGED saves

FlushLiveRoom ==
  saves' = IF live # NoRoom THEN Save("shutdown", live, rooms[live].table.at) ELSE saves

Shutdown ==
  /\ "stop" \in Incidents
  /\ EventLoopFree /\ ~closing /\ closing' = TRUE
  /\ live' = NoRoom
  /\ FlushLiveRoom
  /\ rooms' = IF live # NoRoom THEN [rooms EXCEPT ![live].timer = FALSE] ELSE rooms
  /\ UNCHANGED <<sockets, reading, stored, history>>
  /\ NoteOvertaken

\* The process ends: memory, sockets and unsettled writes are gone.
Vanish ==
  /\ phase' = [c \in Conns |-> "closed"] /\ open' = [c \in Conns |-> FALSE]
  /\ ref' = [c \in Conns |-> NoRoom] /\ seen' = [c \in Conns |-> NoTable]
  /\ rooms' = [i \in Incarnations |-> LoadedRoom(AllAt("Start"))]
  /\ live' = NoRoom /\ reading' = FALSE /\ saves' = << >> /\ closing' = FALSE
  /\ UNCHANGED <<stored, history>>
  /\ NoteOvertaken

\* close(): once the live rooms are saved, the sockets are dropped and the
\* process exits, to be started again.
Exit ==
  /\ EventLoopFree /\ closing
  /\ \A k \in DOMAIN saves : saves[k].kind # "shutdown"
  /\ Vanish

Crash == "crash" \in Incidents /\ Vanish

Next ==
  \/ \E c \in Conns : Open(c) \/ JoinRequest(c) \/ Close(c) \/ Rename(c)
  \/ \E c \in Conns : Refuse(c) \/ Enter(c) \/ RecordFails(c) \/ Register(c)
  \/ \E c \in Conns, p \in Pieces : Grab(c, p) \/ Move(c, p)
  \/ \E c \in Conns, p \in Pieces, spot \in {"Moved", "Home"} : Drop(c, p, spot)
  \/ LoadDone \/ LoadFails \/ Sweep \/ Checkpoint \/ SaveDone \/ SaveFails
  \/ Shutdown \/ Exit \/ Crash

Spec == Init /\ [][Next]_vars

\* Store promises settle, the retry's delay and the checkpoint's timer elapse.
Fairness ==
  /\ WF_vars(LoadDone \/ LoadFails) /\ WF_vars(SaveDone \/ SaveFails) /\ WF_vars(Checkpoint)
  /\ \A c \in Conns : WF_vars(Enter(c) \/ Refuse(c)) /\ WF_vars(Register(c) \/ RecordFails(c))

FairSpec == Spec /\ Fairness
=============================================================================
