------------------------------ MODULE Connection ------------------------------
(***************************************************************************)
(* The life of one browser's connection: the client's timers, reconnects   *)
(* and watchdog (apps/web/src/sync/sync-client.ts) against the server's    *)
(* sockets and keepalive sweep (apps/server/src/net/ws.ts).                *)
(*                                                                         *)
(* Time advances in ticks; a due timer fires before the next tick, and a   *)
(* sound network delivers what it carries within one.  A network that dies *)
(* says nothing to either end.  Frames are named; what the room says in    *)
(* them is the business of SyncRoom.  A browser delivers no message on a   *)
(* socket that is closing.                                                 *)
(***************************************************************************)
EXTENDS Integers, Sequences, FiniteSets, FiniteSetsExt

CONSTANTS
  Sockets,            \* sockets that either end may still know
  NoSocket,
  HeartbeatInterval,  \* HEARTBEAT_INTERVAL_MS, in ticks, as all that follow
  LivenessTimeout,    \* LIVENESS_TIMEOUT_MS
  BackoffBase,        \* BACKOFF_BASE_MS
  BackoffFactor,
  BackoffCap,         \* BACKOFF_CAP_MS
  SweepInterval,      \* DEFAULT_HEARTBEAT_INTERVAL_MS of ws.ts
  MaxAttempt,         \* bound: the attempt from which the delay no longer grows
  MaxAge,             \* bound: the age at which silence and deadFor stop counting
  MaxFaults,          \* bound on networks lost, sockets refused, sessions expired
  MaxMounts           \* bound: how often the room view mounts the same client

ASSUME TimeAssumption ==
  /\ {HeartbeatInterval, LivenessTimeout, BackoffBase, BackoffCap, SweepInterval} \subseteq Nat \ {0}
  /\ HeartbeatInterval < LivenessTimeout
  /\ MaxAge \in Nat /\ MaxAge > 2 * SweepInterval /\ MaxAge > LivenessTimeout + HeartbeatInterval
\* Delays are natural numbers, the last one of interest the longest.
ASSUME BackoffAssumption ==
  /\ MaxAttempt \in Nat
  /\ \A n \in 0..MaxAttempt : BackoffBase * BackoffFactor ^ n \in Nat
  /\ BackoffBase * BackoffFactor ^ MaxAttempt >= BackoffCap
ASSUME BoundAssumption == MaxFaults \in Nat /\ MaxMounts \in Nat
ASSUME SocketAssumption == Sockets \subseteq Nat /\ NoSocket \notin Sockets

VARIABLES
  \* the client
  status,    \* BoardState.connection
  closed,    \* closedByUser
  attempt,   \* reconnectAttempt
  sock,      \* the socket it uses, or NoSocket
  retry,     \* ticks until the reconnect timer fires, or Off
  heartbeat, \* ticks until the heartbeat timer fires, or Off
  silence,   \* ticks since a frame arrived
  ticking,   \* is the cursor timer armed?
  \* the sockets, at the client's end, on the way, and at the server's end
  end,       \* "none", "connecting", "open", "closing"
  net,       \* "sound" or "dead"
  deadFor,   \* ticks since the network died
  toServer, toClient,
  peer,      \* "none", "open", "closing"
  session,   \* has the socket joined the room?
  alive,     \* has it answered the last ping?
  sweep,     \* ticks until the keepalive sweep
  faults, mounts

client == <<status, closed, attempt, sock, retry, heartbeat, silence, ticking>>
wire == <<net, deadFor, toServer, toClient>>
server == <<peer, session, alive, sweep>>
vars == <<client, end, wire, server, faults, mounts>>

Off == -1
Live == {"connecting", "open"}
Timer(n) == {Off} \cup 0..n
Frames == {"join", "ping", "cursor", "news", "pong", "snapshot", "room_full", "error",
           "close", "wsping", "wspong"}

TypeOK ==
  /\ status \in {"idle", "connecting", "connected", "reconnecting", "closed", "room_full"}
  /\ closed \in BOOLEAN /\ ticking \in BOOLEAN
  /\ attempt \in 0..MaxAttempt /\ sock \in Sockets \cup {NoSocket}
  /\ retry \in Timer(BackoffCap) /\ heartbeat \in Timer(HeartbeatInterval)
  /\ silence \in 0..MaxAge /\ sweep \in 0..SweepInterval
  /\ end \in [Sockets -> Live \cup {"none", "closing"}]
  /\ net \in [Sockets -> {"sound", "dead"}] /\ deadFor \in [Sockets -> 0..MaxAge]
  /\ toServer \in [Sockets -> Seq(Frames)] /\ toClient \in [Sockets -> Seq(Frames)]
  /\ peer \in [Sockets -> {"none", "open", "closing"}]
  /\ session \in [Sockets -> BOOLEAN] /\ alive \in [Sockets -> BOOLEAN]
  /\ faults \in 0..MaxFaults /\ mounts \in 0..MaxMounts

Init ==
  /\ status = "idle" /\ closed = FALSE /\ attempt = 0 /\ sock = NoSocket
  /\ retry = Off /\ heartbeat = Off /\ silence = 0 /\ ticking = FALSE
  /\ end = [s \in Sockets |-> "none"]
  /\ net = [s \in Sockets |-> "sound"] /\ deadFor = [s \in Sockets |-> 0]
  /\ toServer = [s \in Sockets |-> << >>] /\ toClient = [s \in Sockets |-> << >>]
  /\ peer = [s \in Sockets |-> "none"]
  /\ session = [s \in Sockets |-> FALSE] /\ alive = [s \in Sockets |-> FALSE]
  /\ sweep = SweepInterval /\ faults = MaxFaults /\ mounts = MaxMounts

Put(queue, s, frames) ==
  IF net[s] = "sound" THEN [queue EXCEPT ![s] = @ \o frames] ELSE queue

-----------------------------------------------------------------------------
(* Opening and losing a socket. *)

\* Mutated form: no retry is scheduled.
NeverBackoff(n) == Off

\* backoffDelay, which the room view configures without jitter.
Backoff(n) == Min({BackoffBase * BackoffFactor ^ n, BackoffCap})

Fresh(s) == end[s] = "none" /\ peer[s] = "none"

OpenSocket(s) ==
  /\ Fresh(s) /\ \A t \in Sockets : Fresh(t) => s <= t
  /\ sock' = s /\ retry' = Off
  /\ status' = IF attempt > 0 THEN "reconnecting" ELSE "connecting"
  /\ end' = [end EXCEPT ![s] = "connecting"]
  /\ net' = [net EXCEPT ![s] = "sound"] /\ deadFor' = [deadFor EXCEPT ![s] = 0]
  /\ toServer' = [toServer EXCEPT ![s] = << >>] /\ toClient' = [toClient EXCEPT ![s] = << >>]
  /\ UNCHANGED <<attempt, heartbeat, silence, ticking, server>>

\* connect()
Connect(s) ==
  /\ mounts > 0 /\ mounts' = mounts - 1
  /\ status \in {"idle", "closed"}
  /\ closed' = FALSE
  /\ OpenSocket(s)
  /\ UNCHANGED faults

RetryFires(s) ==
  /\ retry = 0
  /\ OpenSocket(s)
  /\ UNCHANGED <<closed, faults, mounts>>

\* handleClose: whichever socket it was.
HandleClose ==
  /\ ticking' = FALSE /\ heartbeat' = Off
  /\ sock' = NoSocket
  /\ IF closed
       THEN /\ status' = IF status = "room_full" THEN status ELSE "closed"
            /\ UNCHANGED <<retry, attempt>>
       ELSE /\ status' = "reconnecting"
            /\ retry' = Backoff(attempt)
            /\ attempt' = IF attempt < MaxAttempt THEN attempt + 1 ELSE attempt
  /\ UNCHANGED <<closed, silence>>

\* Mutated form: a new socket counts as one that missed its ping.
OpensUnseen(s) ==
  /\ end[s] = "connecting" /\ net[s] = "sound"
  /\ end' = [end EXCEPT ![s] = "open"]
  /\ peer' = [peer EXCEPT ![s] = "open"]
  /\ toServer' = Put(toServer, s, IF s = sock THEN <<"join">> ELSE << >>)
  /\ UNCHANGED <<client, net, deadFor, toClient, session, alive, sweep, faults, mounts>>

\* The server accepts the upgrade: onopen sends the join.
Opens(s) ==
  /\ end[s] = "connecting" /\ net[s] = "sound"
  /\ end' = [end EXCEPT ![s] = "open"]
  /\ peer' = [peer EXCEPT ![s] = "open"] /\ alive' = [alive EXCEPT ![s] = TRUE]
  /\ toServer' = Put(toServer, s, IF s = sock THEN <<"join">> ELSE << >>)
  /\ UNCHANGED <<client, net, deadFor, toClient, session, sweep, faults, mounts>>

\* The upgrade is refused (no session, server down).
Refused(s) ==
  /\ faults > 0 /\ faults' = faults - 1
  /\ end[s] = "connecting"
  /\ end' = [end EXCEPT ![s] = "none"]
  /\ HandleClose
  /\ UNCHANGED <<wire, server, mounts>>

Onclose(s) ==
  /\ end' = [end EXCEPT ![s] = "none"]
  /\ HandleClose
  /\ UNCHANGED <<wire, server, faults, mounts>>

\* onclose: the browser gives up a connection it cannot make or cannot close.
GivesUp(s) ==
  /\ \/ end[s] = "connecting" /\ net[s] = "dead"
     \/ end[s] = "closing" /\ (net[s] = "dead" \/ peer[s] = "none")
  /\ Onclose(s)

\* onclose: the operating system notices that an open connection is dead.
Lost(s) ==
  /\ end[s] = "open" /\ net[s] = "dead"
  /\ Onclose(s)

\* socket.close(): with a handshake, unless the connection was never made.
Hangup(s) ==
  /\ end' = [end EXCEPT ![s] = IF @ = "none" THEN "none" ELSE "closing"]
  /\ toServer' = IF end[s] = "open" THEN Put(toServer, s, <<"close">>) ELSE toServer

\* close(): the player leaves the room.
Close ==
  /\ status \notin {"idle", "closed"}
  /\ closed' = TRUE /\ heartbeat' = Off /\ retry' = Off /\ ticking' = FALSE
  /\ IF sock # NoSocket THEN Hangup(sock) ELSE UNCHANGED <<end, toServer>>
  /\ sock' = NoSocket /\ status' = "closed"
  /\ UNCHANGED <<attempt, silence, net, deadFor, toClient, server, faults, mounts>>

-----------------------------------------------------------------------------
(* The client's timers and messages. *)

DeadAir == silence >= LivenessTimeout

\* Mutated form: the watchdog reconnects at once, not when the close is done.
HeartbeatReconnects ==
  /\ heartbeat = 0
  /\ IF DeadAir
       THEN Hangup(sock) /\ heartbeat' = Off /\ retry' = Backoff(attempt)
       ELSE /\ toServer' = Put(toServer, sock, <<"ping">>)
            /\ heartbeat' = HeartbeatInterval /\ UNCHANGED <<end, retry>>
  /\ UNCHANGED <<status, closed, attempt, sock, silence, ticking,
                 net, deadFor, toClient, server, faults, mounts>>

\* heartbeatTick: hang up on a silent server, or ping and re-arm.
HeartbeatFires ==
  /\ heartbeat = 0
  /\ CASE sock = NoSocket -> heartbeat' = Off /\ UNCHANGED <<end, toServer>>
       [] sock # NoSocket /\ DeadAir -> Hangup(sock) /\ heartbeat' = Off
       [] OTHER ->
            /\ toServer' = Put(toServer, sock, <<"ping">>)
            /\ heartbeat' = HeartbeatInterval /\ UNCHANGED end
  /\ UNCHANGED <<status, closed, attempt, sock, retry, silence, ticking,
                 net, deadFor, toClient, server, faults, mounts>>

\* cursorTick, which re-arms itself and relays a cursor that moved.
CursorTick ==
  /\ ticking /\ sock # NoSocket /\ status = "connected" /\ end[sock] = "open"
  /\ net[sock] = "sound" /\ toServer[sock] = << >>
  /\ toServer' = Put(toServer, sock, <<"cursor">>)
  /\ UNCHANGED <<client, end, net, deadFor, toClient, server, faults, mounts>>

\* Mutated form: only the snapshot counts as a sign of life.
HearSnapshotOnly(frame) ==
  silence' = IF frame = "snapshot" THEN 0 ELSE silence

Hear(frame) == silence' = 0

OnSnapshot ==
  /\ status' = "connected" /\ attempt' = 0
  /\ heartbeat' = HeartbeatInterval /\ ticking' = TRUE
  /\ UNCHANGED <<closed, sock, retry>>

OnRoomFull(s) ==
  /\ status' = "room_full" /\ closed' = TRUE
  /\ Hangup(s)
  /\ UNCHANGED <<attempt, sock, retry, heartbeat, ticking>>

\* The next frame reaches the client.  The browser itself answers the server's
\* pings and its close.
ClientTakes(s) ==
  LET frame == Head(toClient[s]) IN
  /\ net[s] = "sound" /\ toClient[s] # << >> /\ end[s] \in {"open", "closing"}
  /\ toClient' = [toClient EXCEPT ![s] = Tail(@)]
  /\ CASE frame = "close" ->
            /\ end' = [end EXCEPT ![s] = "none"]
            /\ toServer' = IF end[s] = "open" THEN Put(toServer, s, <<"close">>) ELSE toServer
            /\ HandleClose
       [] frame = "wsping" ->
            /\ toServer' = Put(toServer, s, <<"wspong">>)
            /\ UNCHANGED <<client, end>>
       [] frame = "snapshot" /\ end[s] = "open" ->
            Hear(frame) /\ OnSnapshot /\ UNCHANGED <<end, toServer>>
       [] frame = "room_full" /\ end[s] = "open" -> Hear(frame) /\ OnRoomFull(s)
       [] frame \in {"pong", "news", "error"} /\ end[s] = "open" ->
            /\ Hear(frame)
            /\ UNCHANGED <<status, closed, attempt, sock, retry, heartbeat, ticking,
                           end, toServer>>
       [] OTHER -> UNCHANGED <<client, end, toServer>>
  /\ UNCHANGED <<net, deadFor, server, faults, mounts>>

-----------------------------------------------------------------------------
(* The server's end. *)

Vanish(s) ==
  /\ peer' = [peer EXCEPT ![s] = "none"] /\ session' = [session EXCEPT ![s] = FALSE]
  /\ alive' = [alive EXCEPT ![s] = FALSE]

\* The server turns a join away and closes.
TurnAway(s, frame) ==
  /\ peer' = [peer EXCEPT ![s] = "closing"]
  /\ toClient' = Put(toClient, s, <<frame, "close">>)
  /\ UNCHANGED <<session, alive>>

\* A join finds a seat, a full room, no room, or a store that fails: that error
\* is logged and the join is never answered.
Join(s) ==
  \/ /\ session' = [session EXCEPT ![s] = TRUE]
     /\ toClient' = Put(toClient, s, <<"snapshot">>) /\ UNCHANGED <<peer, alive, faults>>
  \/ TurnAway(s, "room_full") /\ UNCHANGED faults
  \/ faults > 0 /\ faults' = faults - 1 /\ TurnAway(s, "error")
  \/ faults > 0 /\ faults' = faults - 1 /\ UNCHANGED <<peer, session, alive, toClient>>

\* The next frame reaches the server.
ServerTakes(s) ==
  LET frame == Head(toServer[s]) IN
  /\ net[s] = "sound" /\ toServer[s] # << >> /\ peer[s] # "none"
  /\ toServer' = [toServer EXCEPT ![s] = Tail(@)]
  /\ CASE frame = "close" ->
            /\ Vanish(s)
            /\ toClient' = IF peer[s] = "open" THEN Put(toClient, s, <<"close">>) ELSE toClient
            /\ UNCHANGED faults
       [] frame = "wspong" ->
            alive' = [alive EXCEPT ![s] = TRUE] /\ UNCHANGED <<peer, session, toClient, faults>>
       [] frame = "ping" /\ peer[s] = "open" ->
            toClient' = Put(toClient, s, <<"pong">>) /\ UNCHANGED <<peer, session, alive, faults>>
       [] frame = "join" /\ peer[s] = "open" -> Join(s)
       [] OTHER -> UNCHANGED <<peer, session, alive, toClient, faults>>
  /\ UNCHANGED <<client, end, net, deadFor, sweep, mounts>>

\* Somebody else plays (at most one such frame a tick is of interest).
News(s) ==
  /\ silence > 0
  /\ session[s] /\ peer[s] = "open" /\ net[s] = "sound" /\ toClient[s] = << >>
  /\ toClient' = Put(toClient, s, <<"news">>)
  /\ UNCHANGED <<client, end, net, deadFor, toServer, server, faults, mounts>>

\* The session of the socket expires: the server closes it.
Expires(s) ==
  /\ faults > 0 /\ faults' = faults - 1
  /\ peer[s] = "open"
  /\ peer' = [peer EXCEPT ![s] = "closing"]
  /\ toClient' = Put(toClient, s, <<"close">>)
  /\ UNCHANGED <<client, end, net, deadFor, toServer, session, alive, sweep, mounts>>

\* Mutated form: the sweep pings but terminates nobody.
Missed == {}

\* Sockets that have not answered since the previous sweep.
Unresponsive == {s \in Sockets : peer[s] # "none" /\ ~alive[s]}

\* The keepalive sweep: terminate the unresponsive, ping the rest.
SweepFires ==
  /\ sweep = 0 /\ sweep' = SweepInterval
  /\ peer' = [s \in Sockets |-> IF s \in Unresponsive THEN "none" ELSE peer[s]]
  /\ session' = [s \in Sockets |-> s \notin Unresponsive /\ session[s]]
  /\ alive' = [s \in Sockets |-> FALSE]
  /\ net' = [s \in Sockets |-> IF s \in Unresponsive THEN "dead" ELSE net[s]]
  /\ toClient' = [s \in Sockets |->
       IF peer[s] # "none" /\ s \notin Unresponsive /\ net[s] = "sound"
         THEN Append(toClient[s], "wsping")
       ELSE IF s \in Unresponsive THEN << >> ELSE toClient[s]]
  /\ toServer' = [s \in Sockets |-> IF s \in Unresponsive THEN << >> ELSE toServer[s]]
  /\ UNCHANGED <<client, end, deadFor, faults, mounts>>

\* The server's system gives a dead connection up by itself.
ServerLoses(s) ==
  /\ peer[s] # "none" /\ net[s] = "dead"
  /\ Vanish(s)
  /\ UNCHANGED <<client, end, wire, sweep, faults, mounts>>

-----------------------------------------------------------------------------

NetworkDies(s) ==
  /\ faults > 0 /\ faults' = faults - 1
  /\ net[s] = "sound" /\ (end[s] # "none" \/ peer[s] # "none")
  /\ net' = [net EXCEPT ![s] = "dead"]
  /\ toServer' = [toServer EXCEPT ![s] = << >>] /\ toClient' = [toClient EXCEPT ![s] = << >>]
  /\ UNCHANGED <<client, end, deadFor, server, mounts>>

Delivered(s) ==
  \/ net[s] = "dead"
  \/ /\ toClient[s] = << >> \/ end[s] = "none"
     /\ toServer[s] = << >> \/ peer[s] = "none"

Less(timer) == IF timer = Off THEN Off ELSE timer - 1

Tick ==
  /\ retry # 0 /\ heartbeat # 0 /\ sweep # 0 /\ \A s \in Sockets : Delivered(s)
  /\ retry' = Less(retry) /\ heartbeat' = Less(heartbeat) /\ sweep' = Less(sweep)
  /\ silence' = IF heartbeat = Off THEN 0 ELSE Min({silence + 1, MaxAge})
  /\ deadFor' = [s \in Sockets |->
                   IF net[s] = "dead" /\ ~Fresh(s) THEN Min({deadFor[s] + 1, MaxAge}) ELSE 0]
  /\ UNCHANGED <<status, closed, attempt, sock, ticking, end, net, toServer, toClient,
                 peer, session, alive, faults, mounts>>

Next ==
  \/ \E s \in Sockets :
       \/ Connect(s) \/ RetryFires(s) \/ Opens(s) \/ Refused(s) \/ GivesUp(s) \/ Lost(s)
       \/ ClientTakes(s) \/ ServerTakes(s) \/ News(s) \/ Expires(s) \/ ServerLoses(s)
       \/ NetworkDies(s)
  \/ Close \/ HeartbeatFires \/ CursorTick \/ SweepFires \/ Tick

Spec == Init /\ [][Next]_vars
=============================================================================
