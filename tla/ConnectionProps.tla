---------------------------- MODULE ConnectionProps ----------------------------
(***************************************************************************)
(* What a connection promises: one socket at a time, timers that die with  *)
(* it, a watchdog that is neither deaf nor jumpy, and a server that        *)
(* notices who is gone.                                                    *)
(***************************************************************************)
EXTENDS Connection

LiveSockets == {s \in Sockets : end[s] \in Live}

\* The client never has two live sockets, nor one it has forgotten, nor a
\* reconnect pending beside one (openSocket, handleClose, close, heartbeatTick).
SingleSocket ==
  /\ LiveSockets \subseteq {sock}
  /\ retry # Off => LiveSockets = {}

\* A client that was closed is silent: no timer of its own will send or
\* reconnect (close() runs before the browser's onclose).
ClosedIsSilent ==
  status = "closed" => retry = Off /\ heartbeat = Off /\ ~ticking

\* What the timers and sockets amount to between two steps: a client that was
\* closed lets go of everything, any other knows each socket that is left; who
\* waits to reconnect has no socket, and a heartbeat is for an open one.
Bookkeeping ==
  /\ closed => LiveSockets = {} /\ retry = Off
  /\ ~closed => \A s \in Sockets : end[s] # "none" => s = sock
  /\ retry # Off => sock = NoSocket /\ heartbeat = Off
  /\ status = "idle" => ~closed /\ sock = NoSocket /\ retry = Off /\ heartbeat = Off /\ ~ticking
  /\ status # "idle" => mounts = 0
  /\ status = "closed" => closed /\ heartbeat = Off /\ ~ticking
  /\ \A s \in Sockets : end[s] = "connecting" => heartbeat = Off

\* However faults, timers and unmounts interleave, a client has one connection or
\* one way of getting it back, and none once it was closed.
OneConnection == TypeOK /\ Bookkeeping /\ SingleSocket /\ ClosedIsSilent

\* The watchdog never hangs up on a server that answers: two lost answers are
\* within LIVENESS_TIMEOUT_MS, and nothing is lost on a sound network.
NoFalseAlarm ==
  heartbeat # Off /\ sock # NoSocket /\ end[sock] = "open" /\ net[sock] = "sound" =>
    silence < LivenessTimeout

\* A connected client whose network died stops trusting it within the liveness
\* window and one heartbeat (heartbeatTick).
DetectedByClient ==
  \A s \in Sockets : status = "connected" /\ s = sock /\ end[s] = "open" =>
    deadFor[s] <= LivenessTimeout + HeartbeatInterval

\* The server forgets a socket whose network died within two sweeps (the
\* keepalive of attachWebSocketServer).
ReapedInTwoCycles ==
  \A s \in Sockets : peer[s] # "none" => deadFor[s] <= 2 * SweepInterval

Carries(queue, frames) == \E k \in 1..Len(queue) : queue[k] \in frames

\* A client with an open connection hears the server's close, if it is alive at all.
ByeIsSaid ==
  \A s \in Sockets :
    end[s] = "open" /\ net[s] = "sound" /\ peer[s] # "open" => Carries(toClient[s], {"close"})

\* Between two heartbeats the silence grows with the time since the last one; a
\* sound connection that was silent for longer brings an answer before the next tick.
Watchful ==
  heartbeat # Off /\ sock # NoSocket /\ end[sock] = "open" =>
    /\ silence + heartbeat < LivenessTimeout + HeartbeatInterval
    /\ deadFor[sock] <= silence
    /\ net[sock] = "sound" =>
         /\ silence <= HeartbeatInterval
         /\ \/ silence + heartbeat <= HeartbeatInterval
            \/ Carries(toServer[sock], {"ping"}) \/ Carries(toClient[sock], {"pong", "close"})

\* Who is connected is watched, and was not so before the socket was open.
ConnectedIsWatched ==
  status = "connected" /\ sock # NoSocket =>
    end[sock] # "connecting" /\ (end[sock] = "open" => heartbeat # Off)

\* A peer that answered the last sweep may miss one more.
SweepsCount ==
  \A s \in Sockets :
    /\ net[s] = "sound" => deadFor[s] = 0
    /\ end[s] = "connecting" => peer[s] = "none"
    /\ peer[s] # "none" => deadFor[s] + sweep <= (IF alive[s] THEN 1 ELSE 2) * SweepInterval

\* Until a living client has answered the last ping, ping or answer are on their way,
\* and no tick has passed.
PongIsComing ==
  \A s \in Sockets :
    peer[s] # "none" /\ ~alive[s] /\ net[s] = "sound" /\ end[s] # "none" =>
      /\ sweep = SweepInterval
      /\ Carries(toClient[s], {"wsping"}) \/ Carries(toServer[s], {"wspong"})

\* Each end gives a dead connection up within its window, and the client no other.
DeadIsNoticed ==
  /\ ByeIsSaid /\ Watchful /\ ConnectedIsWatched /\ SweepsCount /\ PongIsComing
  /\ NoFalseAlarm /\ DetectedByClient /\ ReapedInTwoCycles

\* The sweep terminates no socket whose client still answers.
NeverReapsTheLiving ==
  [][SweepFires => \A s \in Unresponsive : net[s] = "dead" \/ end[s] = "none"]_vars

-----------------------------------------------------------------------------
(* Liveness.  Timers fire and frames are delivered, so time may not stand    *)
(* still; the browser reports the end of a connection it has given up.       *)

Fairness ==
  /\ SF_vars(Tick) /\ WF_vars(HeartbeatFires) /\ WF_vars(SweepFires)
  /\ \A s \in Sockets :
       /\ WF_vars(Opens(s)) /\ WF_vars(ClientTakes(s)) /\ WF_vars(ServerTakes(s))
       /\ WF_vars(GivesUp(s))
  /\ WF_vars(\E s \in Sockets : RetryFires(s))

FairSpec == Spec /\ Fairness

Settled == status \in {"connected", "room_full", "closed"}

\* The client waits on a socket that will not bring a snapshot any more, and no
\* watchdog is armed yet.
Stalled ==
  /\ sock # NoSocket /\ heartbeat = Off
  /\ end[sock] = "open" /\ (net[sock] = "dead" \/ peer[sock] = "open")

\* A client that opens or reopens its connection gets into the room or is told
\* that it is full, unless it stalls before the snapshot (see StalledIsLeft).
EventuallySettled ==
  status \in {"connecting", "reconnecting"} ~> Settled \/ Stalled

\* Silence past the liveness window means the socket is dead: tear it down and
\* reconnect (sync-client.ts, on LIVENESS_TIMEOUT_MS).  The code does not keep it
\* before the first snapshot (README, section 5).
StalledIsLeft ==
  status \in {"connecting", "reconnecting"} ~> Settled

\* A guest whose socket is gone leaves the room: its holds do not outlive it.
GuestEventuallyGone ==
  \A s \in Sockets : (session[s] /\ end[s] = "none") ~> ~session[s]
=============================================================================
