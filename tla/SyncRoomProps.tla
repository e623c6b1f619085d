----------------------------- MODULE SyncRoomProps -----------------------------
(***************************************************************************)
(* What SyncRoom must satisfy.  What is said of a client that has taken    *)
(* every frame on its way to it (UpToDate) is, since taking a frame changes*)
(* nothing else, also said of every board together with the frames in      *)
(* flight to it.                                                           *)
(***************************************************************************)
EXTENDS SyncRoom

UpToDate(c) ==
  Listening(Sock(c)) /\ srv[Sock(c)] = "joined" /\ down[Sock(c)] = << >>

\* Moreover the referee has answered all it was asked.
Quiet(c) == UpToDate(c) /\ up[Sock(c)] = << >>

\* The kinds of values a browser and its sockets hold.
ClientsTypeOK ==
  /\ \A c \in Guests : \A id \in DOMAIN board[c].groups :
       /\ id \in board[c].groups[id].pieces
       /\ board[c].groups[id].heldBy \in Guests \cup {None}
       /\ board[c].groups[id].locked \in BOOLEAN
  /\ \A c \in Guests : drag[c].group \in Pieces \cup {None} /\ drag[c].granted \in BOOLEAN
  /\ grip \in [Guests -> BOOLEAN]
  /\ link \in [Guests -> {"down", "joining", "connected"}]
  /\ cur \in [Guests -> {1, 2}]
  /\ srv \in [Sockets -> {"none", "open", "joined"}]
  /\ events \in 0..MaxEvents /\ lapsed \in SUBSET (Guests \X Pieces)

\* NFR-6: whatever messages a board has taken, and whatever it guessed, its groups
\* are well formed and partition the pieces.
BoardPartitions ==
  /\ ClientsTypeOK
  /\ \A c \in Guests : board[c] # EmptyBoard =>
       /\ UNION {board[c].groups[id].pieces : id \in DOMAIN board[c].groups} = Pieces
       /\ \A i, j \in DOMAIN board[c].groups :
            i # j => board[c].groups[i].pieces \cap board[c].groups[j].pieces = {}

\* SPEC 7.2: snapshot plus subsequent events give every client the referee's groups,
\* locks, scores, progress and status, also across a reconnection in mid-game.
InStep ==
  \A c \in Guests : UpToDate(c) =>
    /\ DOMAIN board[c].groups = DOMAIN groups
    /\ \A id \in DOMAIN groups : /\ board[c].groups[id].pieces = groups[id].pieces
                                 /\ board[c].groups[id].locked = groups[id].locked
    /\ \A g \in DOMAIN identities : ScoreOn(board[c], g) = identities[g].placedCount
    /\ board[c].placed = Cardinality(credited)
    /\ board[c].status = status

\* FR-18: it also gives it who is present, and the names of the others, also when
\* an old socket of a guest is closed after the guest has joined again.
SameRoster ==
  \A c \in Guests : UpToDate(c) =>
    /\ DOMAIN board[c].players = connected
    /\ \A g \in connected \ {c} : board[c].players[g] = identities[g].name

\* NFR-6: "All players converge to the identical board state": groups, locks,
\* scores, progress, status and roster.
Converges == InStep /\ SameRoster

\* A hold of the client's own that the server took from its idle hand: what the
\* client shows of that group afterwards is unreliable (see ShowsTheTruth).
Lapsed(c, id) == <<c, id>> \in lapsed

\* NFR-6: once the referee has answered a client, a group in nobody's hand is shown
\* free, and where the referee has it, whatever the client grabbed, dragged, dropped
\* or was refused before; unless it was taken from the client's own idle hand.
RestsInPlace ==
  \A c \in Guests : Quiet(c) =>
    \A id \in DOMAIN groups \ DOMAIN holds : ~Lapsed(c, id) =>
      /\ board[c].groups[id].heldBy = None
      /\ board[c].groups[id].position = groups[id].position

\* FR-19: nor does its board attribute a group to another player who does not hold
\* it, but for the group it is dragging.
NoPhantomHolder ==
  \A c \in Guests : Quiet(c) =>
    \A id \in DOMAIN groups \ {drag[c].group} : ~Lapsed(c, id) =>
      board[c].groups[id].heldBy \in {None, c, HolderOf(id)}

\* FR-12: a client that was granted its drag, and was told of no end of it, holds the
\* group at the referee, unless it was taken from its idle hand.
GrantedIsHeld ==
  \A c \in Guests :
    UpToDate(c) /\ drag[c].granted /\ ~Lapsed(c, drag[c].group) =>
      HolderOf(drag[c].group) = c

\* FR-19, FR-12: who a board says holds a group holds it, and so does the client
\* that believes it was granted its drag.
HoldsAgree == NoPhantomHolder /\ GrantedIsHeld

\* NFR-6, which the code does not keep: a client that is up to date and presses
\* nothing shows every free group free and where it lies.
ShowsTheTruth ==
  \A c \in Guests : Quiet(c) /\ ~grip[c] =>
    \A id \in DOMAIN groups \ DOMAIN holds :
      /\ board[c].groups[id].heldBy = None
      /\ board[c].groups[id].position = groups[id].position
=============================================================================
