------------------------------- MODULE SyncRoom -------------------------------
(***************************************************************************)
(* Browsers playing in one room: SyncClient and InputController            *)
(* (apps/web/src/sync/sync-client.ts, apps/web/src/board/input.ts) talk to *)
(* the referee (RoomEngine) through the fan-out of                         *)
(* apps/server/src/net/registry.ts over ordered sockets that may break.    *)
(*                                                                         *)
(* Client c is the guest c: its socket is authenticated as the same user   *)
(* each time, so every join resumes that guest.  A client has one current  *)
(* socket; the one before it may still be registered at the server, which  *)
(* has not noticed that its peer is gone.  The store is not modelled       *)
(* (RoomRegistry has it): a join, its presence message, its joined message *)
(* and its snapshot are one step.  Holds have no clock: any may be found   *)
(* idle.                                                                   *)
(***************************************************************************)
EXTENDS RoomEngine, SequencesExt

CONSTANTS
  Passing,     \* the positions the pointer passes in a drag (Reports: where it lets go)
  MaxEvents    \* bound on what the players do, sockets lost and idle holds

ASSUME SyncAssumption ==
  /\ Guests # {} /\ Names # {} /\ None \notin Pieces
  /\ Passing \subseteq Point /\ MaxEvents \in Nat

INSTANCE Board

VARIABLES
  board,    \* client -> its BoardStore
  drag,     \* client -> SyncClient.drag
  grip,     \* client -> has the pointer hold of a group (InputController.dragging)?
  link,     \* client -> "down", "joining" (socket open, no snapshot yet), "connected"
  cur,      \* client -> its current socket
  srv,      \* socket -> what the server has of it: "none", "open", "joined"
  up, down, \* socket -> frames in flight to the server, to the client
  events,   \* events left
  lapsed    \* history: who had which group taken from an idle hand, since its last
            \* connection

Sockets == Guests \X {1, 2}
clients == <<board, drag, grip>>
wires == <<link, cur, srv, up, down>>
syncVars == <<vars, clients, wires, events, lapsed>>

Sock(c) == <<c, cur[c]>>
Owner(s) == s[1]
Listening(s) == s = Sock(Owner(s)) /\ link[Owner(s)] # "down"
Joined == {s \in Sockets : srv[s] = "joined"}
Solo(c) == {t \in Joined : Owner(t) = c}

-----------------------------------------------------------------------------
(* Messages out of the server.  A frame for a socket whose client is gone is *)
(* never seen by anyone.                                                     *)

HolderOf(id) == IF id \in DOMAIN holds THEN holds[id].holder ELSE None

HeldMsg(id, g) == [type |-> "held", id |-> id, by |-> g]
GrabResult(id, outcome) == [type |-> "grab_result", id |-> id, outcome |-> outcome]
ReleasedMsg(id) == [type |-> "released", id |-> id, position |-> groups[id].position]
Presence(event, g, name) == [type |-> "presence", event |-> event, guest |-> g, name |-> name]
ErrorMsg == [type |-> "error"]

\* The frames ms go to the sockets ss.
Deliverable(ss, ms) ==
  [s \in Sockets |-> IF s \in ss /\ Listening(s) THEN down[s] \o ms ELSE down[s]]

\* snapshot(): the groups that deviate from the seeded layout or are held.
SnapshotMsg ==
  [type |-> "snapshot",
   groups |-> [id \in {i \in DOMAIN groups : IsDeviated(groups[i]) \/ i \in DOMAIN holds} |->
                 [pieces |-> groups[id].pieces, position |-> groups[id].position,
                  locked |-> groups[id].locked, heldBy |-> HolderOf(id)]],
   players |-> [g \in connected |-> identities[g].name],
   scores |-> [g \in DOMAIN identities |-> identities[g].placedCount],
   placed |-> Cardinality(credited), status |-> status]

\* Every guest has joined and is up to date, under some name; nobody has touched
\* a piece.
SyncInit ==
  /\ identities = [g \in Guests |-> [name |-> CHOOSE n \in Names : TRUE,
                                    user |-> None, placedCount |-> 0]]
  /\ connected = Guests
  /\ groups = [p \in Pieces |-> Singleton(p)]
  /\ holds = << >> /\ credited = {} /\ status = "active"
  /\ activeMs = 0 /\ activeSince = 0 /\ now = 0 /\ solving = 0
  /\ board = [c \in Guests |-> ApplySnapshot(EmptyBoard, SnapshotMsg)]
  /\ drag = [c \in Guests |-> NoDrag]
  /\ grip = [c \in Guests |-> FALSE]
  /\ link = [c \in Guests |-> "connected"]
  /\ cur = [c \in Guests |-> 1]
  /\ srv = [s \in Sockets |-> IF s[2] = 1 THEN "joined" ELSE "none"]
  /\ up = [s \in Sockets |-> << >>]
  /\ down = [s \in Sockets |-> << >>]
  /\ events = MaxEvents /\ lapsed = {}

-----------------------------------------------------------------------------
(* What the players do. *)

Spend == events > 0 /\ events' = events - 1 /\ UNCHANGED lapsed
Free == UNCHANGED <<events, lapsed>>

\* send(): without a socket the message is dropped.
Send(c, msg) ==
  up' = IF link[c] # "down" /\ srv[Sock(c)] # "none"
          THEN [up EXCEPT ![Sock(c)] = Append(@, msg)] ELSE up

SetBoard(c, b) == board' = [board EXCEPT ![c] = b]

\* A press on a piece: onPointerDown and beginDrag.
BeginDrag(c, id) ==
  /\ Spend
  /\ ~grip[c] /\ board[c].status = "active"
  /\ MayGrab(board[c], id, c)
  /\ SetBoard(c, OptimisticGrab(board[c], id, c))
  /\ drag' = [drag EXCEPT ![c] = DragOf(id, board[c].groups[id].position)]
  /\ grip' = [grip EXCEPT ![c] = TRUE]
  /\ Send(c, [type |-> "grab", id |-> id])
  /\ UNCHANGED <<vars, link, cur, srv, down>>

\* The pointer moves: dragTo.  The throttle decides whether the move is sent.
DragTo(c, pos) ==
  /\ Spend
  /\ grip[c] /\ drag[c] # NoDrag
  /\ SetBoard(c, OptimisticMove(board[c], drag[c].group, pos))
  /\ \/ link[c] = "connected" /\ Send(c, [type |-> "move", id |-> drag[c].group, position |-> pos])
     \/ UNCHANGED up
  /\ UNCHANGED <<vars, drag, grip, link, cur, srv, down>>

\* The pointer lets go: endDrag.
EndDrag(c, pos) ==
  LET id == drag[c].group
      moved == OptimisticMove(board[c], id, pos)
  IN
  /\ grip[c] /\ grip' = [grip EXCEPT ![c] = FALSE]
  /\ \/ drag[c] = NoDrag /\ UNCHANGED <<board, drag, up>>
     \/ /\ drag[c] # NoDrag /\ link[c] = "connected"
        /\ SetBoard(c, moved) /\ UNCHANGED drag
        /\ Send(c, [type |-> "drop", id |-> id, position |-> pos])
     \/ /\ drag[c] # NoDrag /\ link[c] # "connected"
        /\ SetBoard(c, ReleaseHold(moved, id))
        /\ drag' = [drag EXCEPT ![c] = NoDrag] /\ UNCHANGED up
  /\ UNCHANGED <<vars, link, cur, srv, down>> /\ Free

\* A name that changes something.
ChangeName(c, name) ==
  /\ Spend
  /\ c \in DOMAIN board[c].players => name # board[c].players[c]
  /\ SetBoard(c, SetLocalName(board[c], c, name))
  /\ IF link[c] = "connected" THEN Send(c, [type |-> "rename", name |-> name]) ELSE UNCHANGED up
  /\ UNCHANGED <<vars, drag, grip, link, cur, srv, down>>

-----------------------------------------------------------------------------
(* The server takes the next frame of a socket. *)

Took(s) ==
  /\ srv[s] # "none" /\ up[s] # << >>
  /\ up' = [up EXCEPT ![s] = Tail(@)]
  /\ UNCHANGED <<clients, link, cur>> /\ Free

Frame1(s, type) == Took(s) /\ Head(up[s]).type = type
Played(s, type) == Frame1(s, type) /\ srv[s] = "joined" /\ UNCHANGED srv

\* The token, or the user id, resumes the guest.
HandleJoin(s) ==
  LET g == Owner(s) IN
  /\ Frame1(s, "join")
  /\ Resume(g, None)
  /\ srv' = [srv EXCEPT ![s] = "joined"]
  /\ LET told == IF Solo(g) = {} THEN Joined ELSE {}
         sent == Deliverable(told, <<Presence("joined", g, identities'[g].name)>>)
     IN  down' = IF Listening(s) THEN [sent EXCEPT ![s] = <<SnapshotMsg'>>] ELSE sent

HandleGrab(s) ==
  LET g == Owner(s)
      id == Head(up[s]).id
  IN
  /\ Played(s, "grab")
  /\ \/ /\ Grab(g, id)
        /\ down' = [t \in Sockets |->
                      IF t = s /\ Listening(s)
                        THEN down[s] \o <<HeldMsg(id, g), GrabResult(id, "granted")>>
                        ELSE Deliverable(Joined, <<HeldMsg(id, g)>>)[t]]
     \/ /\ Playable(g, id) /\ id \in DOMAIN holds /\ holds[id].holder # g
        /\ down' = Deliverable({s}, <<GrabResult(id, "held_by")>>)
        /\ UNCHANGED vars
     \/ /\ ~Playable(g, id)
        /\ down' = Deliverable({s}, <<ErrorMsg>>)
        /\ UNCHANGED vars

\* A refused move is not answered.
HandleMove(s) ==
  LET g == Owner(s)
      msg == Head(up[s])
  IN
  /\ Played(s, "move")
  /\ \/ /\ Move(g, msg.id, msg.position)
        /\ down' = Deliverable(Joined \ {s}, <<[type |-> "group_moved", id |-> msg.id,
                                                 position |-> msg.position]>>)
     \/ ~HolderMutation(g, msg.id) /\ UNCHANGED <<vars, down>>

\* The result of a drop goes to everyone; completion follows it.
DropMsgs(g, id, outcome) ==
  LET result == [type |-> "snap_result", id |-> id, merged |-> outcome.mergedIds,
                 group |-> outcome.group, placed |-> Cardinality(credited'),
                 credit |-> [guest |-> g, n |-> Cardinality(credited' \ credited)]]
      done == [type |-> "completion", placed |-> Cardinality(credited'),
               scores |-> [h \in DOMAIN identities |-> identities'[h].placedCount]]
  IN  IF status' # status THEN <<result, done>> ELSE <<result>>

HandleDrop(s) ==
  LET g == Owner(s)
      msg == Head(up[s])
  IN
  /\ Played(s, "drop")
  /\ \/ /\ Drop(g, msg.id, msg.position)
        /\ down' = Deliverable(Joined, DropMsgs(g, msg.id, DropOutcome(msg.id, msg.position)))
     \/ /\ ~HolderMutation(g, msg.id)
        /\ down' = Deliverable({s}, <<ErrorMsg>>)
        /\ UNCHANGED vars

HandleRename(s) ==
  LET g == Owner(s)
      name == Head(up[s]).name
  IN
  /\ Played(s, "rename")
  /\ \/ /\ Rename(g, name)
        /\ down' = Deliverable(Joined \ {s}, <<Presence("renamed", g, name)>>)
     \/ /\ status = "completed"
        /\ down' = Deliverable({s}, <<ErrorMsg>>)
        /\ UNCHANGED vars

\* The idle sweep announces what it releases.  The clock is left out: any hold may
\* be found idle.
Sweep(id) ==
  /\ events > 0 /\ events' = events - 1
  /\ id \in DOMAIN holds /\ ReleaseHolds({id})
  /\ lapsed' = lapsed \cup {<<HolderOf(id), id>>}
  /\ down' = Deliverable(Joined, <<ReleasedMsg(id)>>)
  /\ UNCHANGED <<groups, credited, status, presence, clock>>
  /\ UNCHANGED <<clients, link, cur, srv, up>>

-----------------------------------------------------------------------------
(* Sockets come and go. *)

\* leave(): only the last socket of a guest takes the guest out of the room.
LeaveBy(s) ==
  LET g == Owner(s)
      freed == SetToSeq({id \in DOMAIN holds : holds[id].holder = g})
  IN
  \/ /\ Solo(g) = {s} /\ Leave(g)
     /\ down' = Deliverable(Joined \ {s}, [k \in DOMAIN freed |-> ReleasedMsg(freed[k])]
                                            \o <<Presence("left", g, None)>>)
  \/ Solo(g) # {s} /\ UNCHANGED <<vars, down>>

CloseAtServer(s) ==
  /\ srv' = [srv EXCEPT ![s] = "none"]
  /\ up' = [up EXCEPT ![s] = << >>]
  /\ LeaveBy(s)
  /\ UNCHANGED <<clients, link, cur>>

\* The server learns that the peer is gone, after the frames that still arrived.
Reap(s) ==
  /\ srv[s] # "none" /\ ~Listening(s) /\ up[s] = << >>
  /\ CloseAtServer(s) /\ Free

\* The server gives up a socket whose client lives: a missed pong, an expired session.
ServerDrops(s) ==
  /\ Spend
  /\ srv[s] # "none" /\ Listening(s)
  /\ CloseAtServer(s)

\* The client's end closes (handleClose): frames in flight are lost, on the way
\* up all after some point.
Lose(c) ==
  /\ link[c] # "down" /\ link' = [link EXCEPT ![c] = "down"]
  /\ IF srv[Sock(c)] = "none" THEN Free ELSE Spend
  /\ down' = [down EXCEPT ![Sock(c)] = << >>]
  /\ \E n \in 0..Len(up[Sock(c)]) : up' = [up EXCEPT ![Sock(c)] = SubSeq(@, 1, n)]
  /\ UNCHANGED <<vars, clients, cur, srv>>

\* openSocket and handleOpen: a new socket, whose first frame is the join.
Connect(c) ==
  LET fresh == <<c, 3 - cur[c]>> IN
  /\ link[c] = "down" /\ srv[fresh] = "none"
  /\ link' = [link EXCEPT ![c] = "joining"]
  /\ cur' = [cur EXCEPT ![c] = 3 - @]
  /\ srv' = [srv EXCEPT ![fresh] = "open"]
  /\ up' = [up EXCEPT ![fresh] = <<[type |-> "join"]>>]
  /\ lapsed' = {l \in lapsed : l[1] # c}
  /\ UNCHANGED <<vars, clients, down, events>>

\* handleMessage: the client takes the next frame.
Receive(c) ==
  LET s == Sock(c)
      msg == Head(down[s])
      plan == Reconcile(msg, board[c], drag[c], c)
  IN
  /\ link[c] # "down" /\ down[s] # << >>
  /\ down' = [down EXCEPT ![s] = Tail(@)]
  /\ SetBoard(c, plan.board)
  /\ drag' = [drag EXCEPT ![c] = plan.drag]
  /\ link' = IF msg.type = "snapshot" THEN [link EXCEPT ![c] = "connected"] ELSE link
  /\ UNCHANGED <<vars, grip, cur, srv, up>> /\ Free

Serve(s) ==
  \/ HandleJoin(s) \/ HandleGrab(s) \/ HandleMove(s) \/ HandleDrop(s) \/ HandleRename(s)

SyncNext ==
  \/ \E c \in Guests, id \in Pieces : BeginDrag(c, id)
  \/ \E c \in Guests, pos \in Passing : DragTo(c, pos)
  \/ \E c \in Guests, pos \in Reports : EndDrag(c, pos)
  \/ \E c \in Guests, name \in Names : ChangeName(c, name)
  \/ \E c \in Guests : Lose(c) \/ Connect(c) \/ Receive(c)
  \/ \E s \in Sockets : Serve(s) \/ Reap(s) \/ ServerDrops(s)
  \/ \E id \in Pieces : Sweep(id)

SyncSpec == SyncInit /\ [][SyncNext]_syncVars
=============================================================================
