-------------------------- MODULE RoomRegistryProps --------------------------
(***************************************************************************)
(* What the registry owes to the sockets and to the store.                 *)
(***************************************************************************)
EXTENDS RoomRegistry

\* Sockets whose handler is between loading the room and being registered.
Joining(i) == {c \in Conns : ref[c] = i /\ phase[c] \in {"naming", "recording", "retrying"}}

InPlay(c) == phase[c] = "joined" /\ open[c]

\* Where the pieces are for whoever opens the room next: in the live room, else
\* in the newest write, else in the store.
Kept ==
  IF live # NoRoom THEN rooms[live].table.at
  ELSE IF saves # << >> THEN saves[Len(saves)].at ELSE stored

\* A guest whose handler is still joining is in the room, but not yet announced.
Unannounced(i) == {Owner[c] : c \in Joining(i)}

Agree(t, u, unannounced) ==
  /\ t.at = u.at /\ t.hold = u.hold
  /\ t.players \ unannounced = u.players \ unannounced

\* What each socket was told, to the letter: everything but the guest whose socket
\* is being registered, and the latter everything.
ToldAll ==
  live # NoRoom =>
    /\ \A c \in Connections(live) :
         /\ Agree(seen[c], rooms[live].table, Guests)
         /\ seen[c].players = {Owner[d] : d \in Connections(live)}
    /\ \A c \in Conns : phase[c] = "recording" => seen[c] = rooms[live].table

\* NFR-6, SPEC 7.2: "Snapshot + subsequent events must yield exactly the state
\* every other player sees": a socket in play has been told the room's table, its
\* holds, and its guests.
ViewsAgree ==
  /\ ToldAll
  /\ live # NoRoom =>
       \A c \in Connections(live) : open[c] =>
         Agree(seen[c], rooms[live].table, Unannounced(live))

\* SPEC 7.4: "Server detects a client's channel loss -> removes the player from
\* presence": a guest in the room has an open socket or a handler still joining.
NoGhosts ==
  live # NoRoom =>
    \A g \in rooms[live].table.players :
      \E c \in Conns : Owner[c] = g /\ (open[c] \/ c \in Joining(live))

\* Registry, on leave: "Only the player's last connection triggers engine.leave,
\* so a second tab doesn't strand the shared identity".
TabsKeepGuest ==
  \A c \in Conns :
    InPlay(c) /\ ref[c] = live /\ live # NoRoom => Owner[c] \in rooms[live].table.players

Entering == {c \in Conns : phase[c] = "recording"}

\* With a synchronous store one handler runs to its end before the next begins, no
\* room is live after a shutdown, and a room's guests are those of its sockets.
OneAtATime ==
  /\ \A c, d \in Conns : phase[c] \in Suspended /\ phase[d] \in Suspended => c = d
  /\ \A c \in Conns : phase[c] \in Suspended => saves = << >> /\ ~closing /\ phase[c] # "gated"
  /\ \A c \in Conns : phase[c] \in Suspended \cup {"opened", "joined"} => open[c]
  /\ \A c \in Conns : phase[c] \in {"naming", "recording"} => ref[c] = live
  /\ closing => live = NoRoom /\ ~reading
  /\ live # NoRoom => rooms[live].table.players = {Owner[c] : c \in Connections(live) \cup Entering}

\* The guests of a room are those somebody is connected as: channel losses and
\* second tabs leave neither a ghost in the room nor a player outside it.
PresenceIsReal == OneAtATime /\ NoGhosts /\ TabsKeepGuest

\* SPEC 7.2, 7.4 and, on evict, "so a concurrent join can't grab a room that's being
\* torn down", with joins that wait, whatever the store does: a socket that was
\* registered, and whose join nothing overtook, is open, in the room that is live and at
\* its table, and knows its pieces and holds from its snapshot on; and a guest whom no
\* open socket stands for is one whose socket closed while it was joining.
UndisturbedAreServed ==
  ~closing =>
    /\ \A c \in Conns \ overtaken : phase[c] = "joined" =>
         /\ open[c] /\ ref[c] = live
         /\ Agree(seen[c], rooms[live].table, Guests)
         /\ Owner[c] \in rooms[live].table.players
    /\ live # NoRoom =>
         \A g \in rooms[live].table.players :
           \E c \in Conns : Owner[c] = g /\ (open[c] \/ c \in overtaken)

\* The last write of a room that left memory is its eviction or the shutdown, no
\* room is live until it has settled, and only then is the room read again.
Handover ==
  /\ reading <=> \E c \in Conns : phase[c] = "loading"
  /\ reading => live = NoRoom /\ saves = << >>
  /\ live = NoRoom /\ saves # << >> => saves[Len(saves)].kind \in {"evict", "shutdown"}
  /\ \A k \in 1..Len(saves) :
       /\ saves[k].kind \in {"evict", "shutdown"} => k = Len(saves) /\ live = NoRoom
       /\ saves[k].kind = "shutdown" => closing
  /\ \A c \in Conns : phase[c] \in {"naming", "recording", "retrying", "joined"} => ref[c] # NoRoom

\* A room stays in memory only for a registered socket or one about to be, and
\* each of its guests has such a socket: nothing but a shutdown would ever evict it.
LiveIsInhabited ==
  live # NoRoom /\ ~closing =>
    LET here == Connections(live) \cup Joining(live)
    IN  here # {} /\ rooms[live].table.players \subseteq {Owner[c] : c \in here}

\* What the process keeps in memory is well formed, and kept for somebody.
MemoryIsSound == TypeOK /\ Handover /\ LiveIsInhabited

\* NFR-5: "merges, locks, and scores already confirmed to players survive": what a
\* socket was shown joined or locked is kept through evictions and reloads.
ConfirmedIsKept == confirmed \subseteq AtHome(Kept)

\* Effect.afterPersist: "Broadcast only after an immediate persist completes":
\* an announced completion is in the store, and no later write undoes it.
AnnouncedIsStored == announced => Solved(stored)

\* All that was written after a completion, and the room that was completed, is
\* complete as well.
CompletionIsLast ==
  /\ announced => Solved(stored)
  /\ announced => \A k \in 1..Len(saves) : Solved(saves[k].at)
  /\ \A k \in 1..Len(saves) : saves[k].kind = "completion" =>
       \A j \in k..Len(saves) : Solved(saves[j].at)
  /\ live # NoRoom /\ (announced \/ \E k \in 1..Len(saves) : saves[k].kind = "completion") =>
       Solved(rooms[live].table.at)

\* NFR-5: evictions, reloads and late writes lose nothing players were told.
StoreIsSound == ConfirmedIsKept /\ AnnouncedIsStored /\ CompletionIsLast

\* A socket that asks to join is answered, or the load it waits for is rejected:
\* the promises that gate loads and evictions never leave it waiting.
JoinIsSettled ==
  \A c \in Conns : phase[c] \in Suspended \cup {"retrying"} ~> phase[c] \in {"joined", "closed", "failed"}

\* In the end the store holds all that was confirmed, whoever left and whenever the
\* room was evicted, and no later write takes it back.
ConfirmedIsStored == <>[](confirmed \subseteq AtHome(stored))
=============================================================================
