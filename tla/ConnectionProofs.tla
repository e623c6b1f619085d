--------------------------- MODULE ConnectionProofs ---------------------------
(***************************************************************************)
(* Theorems about a connection, for any number of sockets and faults and   *)
(* any timing with the assumptions of Connection: its safety invariants    *)
(* and the sweep.  A client that is mounted once is what production has;   *)
(* two mounts at once break SingleSocket (README, section 5).              *)
(***************************************************************************)
EXTENDS ConnectionProps, TLAPS

-----------------------------------------------------------------------------
(* Queues of frames. *)

LEMMA CarriesConcat ==
  ASSUME NEW S, NEW q \in Seq(S), NEW r \in Seq(S), NEW fs
  PROVE  Carries(q \o r, fs) <=> Carries(q, fs) \/ Carries(r, fs)
<1>1. Carries(q \o r, fs) => Carries(q, fs) \/ Carries(r, fs)
  BY DEF Carries
<1>2. Carries(q, fs) => Carries(q \o r, fs)
  BY DEF Carries
<1>3. Carries(r, fs) => Carries(q \o r, fs)
  <2> SUFFICES ASSUME NEW k \in 1..Len(r), r[k] \in fs
               PROVE  Carries(q \o r, fs)
    BY DEF Carries
  <2>1. (q \o r)[Len(q) + k] = r[k] /\ Len(q) + k \in 1..Len(q \o r)
    OBVIOUS
  <2> QED
    BY <2>1 DEF Carries
<1> QED
  BY <1>1, <1>2, <1>3

LEMMA CarriesTail ==
  ASSUME NEW S, NEW q \in Seq(S), q # << >>, NEW fs
  PROVE  /\ Tail(q) \in Seq(S) /\ Head(q) \in S
         /\ Carries(q, fs) <=> Head(q) \in fs \/ Carries(Tail(q), fs)
<1>1. Len(q) \in Nat \ {0} /\ Len(Tail(q)) = Len(q) - 1 /\ Head(q) = q[1]
  OBVIOUS
<1>2. Carries(q, fs) => Head(q) \in fs \/ Carries(Tail(q), fs)
  <2> SUFFICES ASSUME NEW k \in 1..Len(q), q[k] \in fs, k # 1
               PROVE  Carries(Tail(q), fs)
    BY <1>1 DEF Carries
  <2>1. k - 1 \in 1..Len(Tail(q)) /\ Tail(q)[k - 1] = q[k]
    BY <1>1
  <2> QED
    BY <2>1 DEF Carries
<1>3. Carries(Tail(q), fs) => Carries(q, fs)
  <2> SUFFICES ASSUME NEW k \in 1..Len(Tail(q)), Tail(q)[k] \in fs
               PROVE  Carries(q, fs)
    BY DEF Carries
  <2>1. k + 1 \in 1..Len(q) /\ Tail(q)[k] = q[k + 1]
    BY <1>1
  <2> QED
    BY <2>1 DEF Carries
<1>4. Head(q) \in fs => Carries(q, fs)
  BY <1>1 DEF Carries
<1> QED
  BY <1>2, <1>3, <1>4

LEMMA CarriesEmpty == ASSUME NEW fs PROVE ~Carries(<< >>, fs)
BY DEF Carries

LEMMA CarriesOne == ASSUME NEW f, NEW fs PROVE Carries(<<f>>, fs) <=> f \in fs
BY DEF Carries

LEMMA CarriesTwo == ASSUME NEW e, NEW f, NEW fs PROVE Carries(<<e, f>>, fs) <=> e \in fs \/ f \in fs
BY DEF Carries

-----------------------------------------------------------------------------
(* Types. *)

LEMMA Durations ==
  /\ HeartbeatInterval \in Nat \ {0} /\ LivenessTimeout \in Nat /\ BackoffCap \in Nat
  /\ SweepInterval \in Nat \ {0} /\ MaxAge \in Nat
  /\ HeartbeatInterval < LivenessTimeout
  /\ MaxAge > 2 * SweepInterval /\ MaxAge > LivenessTimeout + HeartbeatInterval
BY TimeAssumption

\* The queues the actions write.
LEMMA SomeFrames ==
  /\ << >> \in Seq(Frames)
  /\ \A f \in Frames : <<f>> \in Seq(Frames)
  /\ \A e, f \in Frames : <<e, f>> \in Seq(Frames)
OBVIOUS

LEMMA MinOfTwo ==
  ASSUME NEW a \in Int, NEW b \in Int
  PROVE  Min({a, b}) = IF a <= b THEN a ELSE b
BY DEF Min

LEMMA BackoffType ==
  ASSUME TypeOK
  PROVE  Backoff(attempt) \in 0..BackoffCap
<1>1. attempt \in 0..MaxAttempt
  BY DEF TypeOK
<1>2. BackoffBase * BackoffFactor ^ attempt \in Nat /\ BackoffCap \in Nat
  BY <1>1, BackoffAssumption, TimeAssumption
<1> QED
  BY <1>2, MinOfTwo DEF Backoff

LEMMA PutType ==
  ASSUME NEW q \in [Sockets -> Seq(Frames)], NEW s \in Sockets, NEW fs \in Seq(Frames)
  PROVE  /\ Put(q, s, fs) \in [Sockets -> Seq(Frames)]
         /\ \A t \in Sockets : Put(q, s, fs)[t] =
               IF t = s /\ net[s] = "sound" THEN q[t] \o fs ELSE q[t]
<1>1. q[s] \o fs \in Seq(Frames)
  OBVIOUS
<1> QED
  BY <1>1 DEF Put

LEMMA HandleCloseType ==
  ASSUME TypeOK, HandleClose
  PROVE  /\ status' \in {"idle", "connecting", "connected", "reconnecting", "closed", "room_full"}
         /\ closed' \in BOOLEAN /\ ticking' \in BOOLEAN
         /\ attempt' \in 0..MaxAttempt /\ sock' \in Sockets \cup {NoSocket}
         /\ retry' \in Timer(BackoffCap) /\ heartbeat' \in Timer(HeartbeatInterval)
         /\ silence' \in 0..MaxAge
<1>1. Backoff(attempt) \in Timer(BackoffCap)
  BY BackoffType DEF Timer
<1>2. attempt < MaxAttempt => attempt + 1 \in 0..MaxAttempt
  BY BackoffAssumption DEF TypeOK
<1>3. Off \in Timer(HeartbeatInterval)
  BY DEF Timer
<1> QED
  BY <1>1, <1>2, <1>3 DEF TypeOK, HandleClose

LEMMA InitType == Init => TypeOK
<1> SUFFICES ASSUME Init PROVE TypeOK
  OBVIOUS
<1>1. 0 \in 0..MaxAge /\ 0 \in 0..MaxAttempt /\ SweepInterval \in 0..SweepInterval
  BY Durations, BackoffAssumption
<1>2. MaxFaults \in 0..MaxFaults /\ MaxMounts \in 0..MaxMounts
  BY BoundAssumption
<1>3. << >> \in Seq(Frames)
  BY SomeFrames
<1>4. Off \in Timer(BackoffCap) /\ Off \in Timer(HeartbeatInterval)
  BY DEF Timer
<1> QED
  BY <1>1, <1>2, <1>3, <1>4 DEF Init, TypeOK

\* What the actions of one socket do to the types.
LEMMA OpenSocketType ==
  ASSUME TypeOK, NEW s \in Sockets, OpenSocket(s), closed' \in BOOLEAN,
         faults' \in 0..MaxFaults, mounts' \in 0..MaxMounts
  PROVE  TypeOK'
<1>1. 0 \in 0..MaxAge /\ Off \in Timer(BackoffCap) /\ << >> \in Seq(Frames)
  BY Durations, SomeFrames DEF Timer
<1> QED
  BY <1>1 DEF TypeOK, OpenSocket, Live, server

LEMMA OncloseType ==
  ASSUME TypeOK, NEW s \in Sockets, HandleClose, end' = [end EXCEPT ![s] = "none"],
         UNCHANGED <<wire, server, mounts>>, faults' \in 0..MaxFaults
  PROVE  TypeOK'
BY HandleCloseType DEF TypeOK, wire, server

LEMMA HangupType ==
  ASSUME TypeOK, NEW s \in Sockets, Hangup(s)
  PROVE  /\ end' \in [Sockets -> Live \cup {"none", "closing"}]
         /\ toServer' \in [Sockets -> Seq(Frames)]
<1>1. <<"close">> \in Seq(Frames)
  BY DEF Frames
<1>2. Put(toServer, s, <<"close">>) \in [Sockets -> Seq(Frames)]
  BY <1>1, PutType DEF TypeOK
<1> QED
  BY <1>2 DEF TypeOK, Hangup

LEMMA ClientType ==
  ASSUME TypeOK, NEW s \in Sockets, ClientTakes(s)
  PROVE  TypeOK'
<1>1. toClient[s] \in Seq(Frames) /\ toClient[s] # << >>
  BY DEF TypeOK, ClientTakes
<1>2. toClient' \in [Sockets -> Seq(Frames)]
  BY <1>1, CarriesTail DEF TypeOK, ClientTakes
<1>3. /\ Put(toServer, s, <<"close">>) \in [Sockets -> Seq(Frames)]
      /\ Put(toServer, s, <<"wspong">>) \in [Sockets -> Seq(Frames)]
  <2>1. <<"close">> \in Seq(Frames) /\ <<"wspong">> \in Seq(Frames)
    BY DEF Frames
  <2> QED
    BY <2>1, PutType DEF TypeOK
<1>4. UNCHANGED <<net, deadFor, server, faults, mounts>>
  BY DEF ClientTakes
<1> DEFINE Outcome(P) == P /\ UNCHANGED <<net, deadFor, server, faults, mounts>>
<1>5. CASE /\ end' = [end EXCEPT ![s] = "none"]
           /\ toServer' = IF end[s] = "open" THEN Put(toServer, s, <<"close">>) ELSE toServer
           /\ HandleClose
  BY <1>2, <1>3, <1>4, <1>5, HandleCloseType DEF TypeOK, server
<1>6. CASE toServer' = Put(toServer, s, <<"wspong">>) /\ UNCHANGED <<client, end>>
  BY <1>2, <1>3, <1>4, <1>6 DEF TypeOK, client, server
<1>7. CASE silence' = 0 /\ OnSnapshot /\ UNCHANGED <<end, toServer>>
  BY SMTT(40), <1>2, <1>4, <1>7, Durations, BackoffAssumption DEF TypeOK, OnSnapshot, server, Timer
<1>8. CASE silence' = 0 /\ OnRoomFull(s)
  <2>1. /\ end' \in [Sockets -> Live \cup {"none", "closing"}]
        /\ toServer' \in [Sockets -> Seq(Frames)]
    BY <1>8, HangupType DEF OnRoomFull
  <2> QED
    BY SMTT(40), <1>2, <1>4, <1>8, <2>1, Durations DEF TypeOK, OnRoomFull, server
<1>9. CASE /\ silence' = 0
           /\ UNCHANGED <<status, closed, attempt, sock, retry, heartbeat, ticking, end, toServer>>
  BY SMTT(40), <1>2, <1>4, <1>9, Durations DEF TypeOK, server
<1>10. CASE UNCHANGED <<client, end, toServer>>
  BY <1>2, <1>4, <1>10 DEF TypeOK, client, server
<1> QED
  BY <1>5, <1>6, <1>7, <1>8, <1>9, <1>10 DEF ClientTakes, Hear

LEMMA ServerType ==
  ASSUME TypeOK, NEW s \in Sockets, ServerTakes(s)
  PROVE  TypeOK'
<1>1. toServer[s] \in Seq(Frames) /\ toServer[s] # << >>
  BY DEF TypeOK, ServerTakes
<1>2. toServer' \in [Sockets -> Seq(Frames)]
  BY <1>1, CarriesTail DEF TypeOK, ServerTakes
<1>3. ASSUME NEW fs \in {<<"close">>, <<"pong">>, <<"snapshot">>, <<"room_full", "close">>, <<"error", "close">>}
      PROVE  Put(toClient, s, fs) \in [Sockets -> Seq(Frames)]
  <2>1. fs \in Seq(Frames)
    BY <1>3, SomeFrames DEF Frames
  <2> QED
    BY <2>1, PutType DEF TypeOK
<1>4. UNCHANGED <<client, end, net, deadFor, sweep, mounts>>
  BY DEF ServerTakes
<1>5. /\ toClient' \in [Sockets -> Seq(Frames)]
      /\ peer' \in [Sockets -> {"none", "open", "closing"}]
      /\ session' \in [Sockets -> BOOLEAN] /\ alive' \in [Sockets -> BOOLEAN]
      /\ faults' \in 0..MaxFaults
  <2>1. CASE /\ Vanish(s)
             /\ toClient' = IF peer[s] = "open" THEN Put(toClient, s, <<"close">>) ELSE toClient
             /\ UNCHANGED faults
    BY <1>3, <2>1 DEF TypeOK, Vanish
  <2>2. CASE alive' = [alive EXCEPT ![s] = TRUE] /\ UNCHANGED <<peer, session, toClient, faults>>
    BY <2>2 DEF TypeOK
  <2>3. CASE toClient' = Put(toClient, s, <<"pong">>) /\ UNCHANGED <<peer, session, alive, faults>>
    BY <1>3, <2>3 DEF TypeOK
  <2>4. CASE Join(s)
    <3>1. faults > 0 => faults - 1 \in 0..MaxFaults
      BY BoundAssumption DEF TypeOK
    <3> QED
      BY <1>3, <2>4, <3>1 DEF TypeOK, Join, TurnAway
  <2>5. CASE UNCHANGED <<peer, session, alive, toClient, faults>>
    BY <2>5 DEF TypeOK
  <2> QED
    BY <2>1, <2>2, <2>3, <2>4, <2>5 DEF ServerTakes
<1> QED
  BY <1>2, <1>4, <1>5 DEF TypeOK, client

LEMMA NextType == TypeOK /\ [Next]_vars => TypeOK'
<1> SUFFICES ASSUME TypeOK, [Next]_vars PROVE TypeOK'
  OBVIOUS
<1>1. ASSUME NEW s \in Sockets, Connect(s) PROVE TypeOK'
  <2>1. mounts' \in 0..MaxMounts
    BY <1>1, BoundAssumption DEF TypeOK, Connect
  <2> QED
    BY <1>1, <2>1, OpenSocketType DEF TypeOK, Connect
<1>2. ASSUME NEW s \in Sockets, RetryFires(s) PROVE TypeOK'
  BY <1>2, OpenSocketType DEF TypeOK, RetryFires
<1>3. ASSUME NEW s \in Sockets, Opens(s) PROVE TypeOK'
  <2>1. ASSUME NEW fs \in {<<"join">>, << >>}
        PROVE  Put(toServer, s, fs) \in [Sockets -> Seq(Frames)]
    <3>1. fs \in Seq(Frames)
      BY <2>1, SomeFrames DEF Frames
    <3> QED
      BY <3>1, PutType DEF TypeOK
  <2> QED
    BY <1>3, <2>1 DEF TypeOK, Opens, Live, client
<1>4. ASSUME NEW s \in Sockets, Refused(s) PROVE TypeOK'
  <2>1. faults' \in 0..MaxFaults
    BY <1>4, BoundAssumption DEF TypeOK, Refused
  <2> QED
    BY <1>4, <2>1, OncloseType DEF TypeOK, Refused
<1>5. ASSUME NEW s \in Sockets, GivesUp(s) \/ Lost(s) PROVE TypeOK'
  BY ZenonT(60), <1>5, OncloseType DEF TypeOK, GivesUp, Lost, Onclose
<1>6. ASSUME NEW s \in Sockets, ClientTakes(s) PROVE TypeOK'
  BY <1>6, ClientType
<1>7. ASSUME NEW s \in Sockets, ServerTakes(s) PROVE TypeOK'
  BY <1>7, ServerType
<1>8. ASSUME NEW s \in Sockets, News(s) PROVE TypeOK'
  <2>1. <<"news">> \in Seq(Frames)
    BY DEF Frames
  <2>2. Put(toClient, s, <<"news">>) \in [Sockets -> Seq(Frames)]
    BY <2>1, PutType DEF TypeOK
  <2> QED
    BY <1>8, <2>2 DEF TypeOK, News, client, server
<1>9. ASSUME NEW s \in Sockets, Expires(s) PROVE TypeOK'
  <2>1. <<"close">> \in Seq(Frames)
    BY DEF Frames
  <2>2. Put(toClient, s, <<"close">>) \in [Sockets -> Seq(Frames)]
    BY <2>1, PutType DEF TypeOK
  <2> QED
    BY <1>9, <2>2, BoundAssumption DEF TypeOK, Expires, client
<1>10. ASSUME NEW s \in Sockets, ServerLoses(s) PROVE TypeOK'
  BY <1>10 DEF TypeOK, ServerLoses, Vanish, client, wire
<1>11. ASSUME NEW s \in Sockets, NetworkDies(s) PROVE TypeOK'
  BY <1>11, BoundAssumption DEF TypeOK, NetworkDies, client, server
<1>12. ASSUME Close PROVE TypeOK'
  <2>1. /\ end' \in [Sockets -> Live \cup {"none", "closing"}]
        /\ toServer' \in [Sockets -> Seq(Frames)]
    BY <1>12, HangupType DEF TypeOK, Close
  <2> QED
    BY <1>12, <2>1 DEF TypeOK, Close, server, Timer
<1>13. ASSUME HeartbeatFires PROVE TypeOK'
  <2>1. <<"ping">> \in Seq(Frames)
    BY DEF Frames
  <2>2. sock # NoSocket => Put(toServer, sock, <<"ping">>) \in [Sockets -> Seq(Frames)]
    BY <2>1, PutType DEF TypeOK
  <2>3. sock # NoSocket /\ Hangup(sock) =>
          /\ end' \in [Sockets -> Live \cup {"none", "closing"}]
          /\ toServer' \in [Sockets -> Seq(Frames)]
    BY HangupType DEF TypeOK
  <2>4. HeartbeatInterval \in Timer(HeartbeatInterval) /\ Off \in Timer(HeartbeatInterval)
    BY Durations DEF Timer
  <2>5. /\ end' \in [Sockets -> Live \cup {"none", "closing"}]
        /\ toServer' \in [Sockets -> Seq(Frames)]
        /\ heartbeat' \in Timer(HeartbeatInterval)
    BY <1>13, <2>2, <2>3, <2>4 DEF TypeOK, HeartbeatFires
  <2> QED
    BY <1>13, <2>5 DEF TypeOK, HeartbeatFires, server
<1>14. ASSUME CursorTick PROVE TypeOK'
  <2>1. <<"cursor">> \in Seq(Frames)
    BY DEF Frames
  <2>2. Put(toServer, sock, <<"cursor">>) \in [Sockets -> Seq(Frames)]
    BY <1>14, <2>1, PutType DEF TypeOK, CursorTick
  <2> QED
    BY <1>14, <2>2 DEF TypeOK, CursorTick, client, server
<1>15. ASSUME SweepFires PROVE TypeOK'
  <2>1. ASSUME NEW s \in Sockets PROVE Append(toClient[s], "wsping") \in Seq(Frames)
    BY DEF TypeOK, Frames
  <2>2. toClient' \in [Sockets -> Seq(Frames)]
    BY <1>15, <2>1 DEF TypeOK, SweepFires
  <2> QED
    BY <1>15, <2>2, Durations DEF TypeOK, SweepFires, client
<1>16. ASSUME Tick PROVE TypeOK'
  <2>1. ASSUME NEW n \in 0..MaxAge PROVE Min({n + 1, MaxAge}) \in 0..MaxAge
    BY MinOfTwo, Durations
  <2>3. silence' \in 0..MaxAge
    <3>1. silence' = 0 \/ silence' = Min({silence + 1, MaxAge})
      BY <1>16 DEF Tick
    <3>2. 0 \in 0..MaxAge /\ silence \in 0..MaxAge
      BY Durations DEF TypeOK
    <3> QED
      BY <2>1, <3>1, <3>2
  <2>4. deadFor' \in [Sockets -> 0..MaxAge]
    <3> DEFINE older(s) == IF net[s] = "dead" /\ ~Fresh(s) THEN Min({deadFor[s] + 1, MaxAge}) ELSE 0
    <3>1. deadFor' = [s \in Sockets |-> older(s)]
      BY <1>16 DEF Tick
    <3>2. \A s \in Sockets : older(s) \in 0..MaxAge
      <4>1. 0 \in 0..MaxAge /\ \A s \in Sockets : deadFor[s] \in 0..MaxAge
        BY Durations DEF TypeOK
      <4> QED
        BY <2>1, <4>1
    <3> QED
      BY <3>1, <3>2
  <2>2. /\ retry' \in Timer(BackoffCap) /\ heartbeat' \in Timer(HeartbeatInterval)
        /\ sweep' \in 0..SweepInterval
    BY <1>16, Durations DEF TypeOK, Tick, Less, Off, Timer
  <2> QED
    BY <1>16, <2>2, <2>3, <2>4 DEF TypeOK, Tick
<1>17. CASE UNCHANGED vars
  BY <1>17 DEF TypeOK, vars, client, wire, server
<1> QED
  BY <1>1, <1>2, <1>3, <1>4, <1>5, <1>6, <1>7, <1>8, <1>9, <1>10, <1>11, <1>12, <1>13,
     <1>14, <1>15, <1>16, <1>17 DEF Next

-----------------------------------------------------------------------------
(* One socket, one way back. *)

\* What is left to close is the socket of the client, or that of a closed client.
LEMMA HandleCloseKeeps ==
  ASSUME TypeOK, Bookkeeping, NEW s \in Sockets, end[s] # "none",
         end' = [end EXCEPT ![s] = "none"], HandleClose, mounts' = mounts
  PROVE  Bookkeeping'
<1>1. status # "idle" /\ mounts = 0
  BY SocketAssumption DEF Bookkeeping
<1>2. status' # "idle"
  BY <1>1 DEF HandleClose
<1>3. \A t \in Sockets : end'[t] \in Live => t # s /\ end[t] \in Live
  BY DEF TypeOK, Live
<1>4. CASE closed
  BY <1>1, <1>2, <1>3, <1>4 DEF Bookkeeping, HandleClose, LiveSockets, Live
<1>5. CASE ~closed
  <2>1. \A t \in Sockets : end'[t] = "none"
    BY <1>5 DEF TypeOK, Bookkeeping
  <2> QED
    BY <1>1, <1>2, <1>5, <2>1 DEF Bookkeeping, HandleClose
<1> QED
  BY <1>4, <1>5

LEMMA HangupEnds ==
  ASSUME TypeOK, NEW s \in Sockets, Hangup(s)
  PROVE  /\ end'[s] \in {"none", "closing"} /\ (end'[s] = "none" <=> end[s] = "none")
         /\ \A t \in Sockets \ {s} : end'[t] = end[t]
BY DEF TypeOK, Hangup

\* A new socket, when there is none.
LEMMA OpenSocketKeeps ==
  ASSUME TypeOK, NEW s \in Sockets, OpenSocket(s), ~closed', heartbeat = Off, mounts' = 0,
         \A t \in Sockets : end[t] = "none"
  PROVE  Bookkeeping'
BY DEF TypeOK, Bookkeeping, OpenSocket

LEMMA BookkeepingStep ==
  ASSUME MaxMounts <= 1, TypeOK, TypeOK', Bookkeeping, [Next]_vars
  PROVE  Bookkeeping'
<1>1. ASSUME NEW s \in Sockets, Connect(s) PROVE Bookkeeping'
  <2>1. status = "idle" /\ mounts' = 0
    BY <1>1, BoundAssumption DEF Bookkeeping, Connect, TypeOK
  <2>2. \A t \in Sockets : end[t] = "none"
    BY <2>1, SocketAssumption DEF Bookkeeping
  <2> QED
    BY <1>1, <2>1, <2>2, OpenSocketKeeps DEF Connect, Bookkeeping
<1>2. ASSUME NEW s \in Sockets, RetryFires(s) PROVE Bookkeeping'
  <2>1. ~closed /\ heartbeat = Off /\ sock = NoSocket /\ status # "idle"
    BY <1>2 DEF Bookkeeping, RetryFires, Off
  <2>2. \A t \in Sockets : end[t] = "none"
    BY <2>1, SocketAssumption DEF Bookkeeping
  <2>3. mounts' = 0
    BY <1>2, <2>1 DEF Bookkeeping, RetryFires
  <2> QED
    BY <1>2, <2>1, <2>2, <2>3, OpenSocketKeeps DEF RetryFires
<1>3. ASSUME NEW s \in Sockets, Opens(s) PROVE Bookkeeping'
  BY <1>3 DEF Bookkeeping, Opens, client, TypeOK, LiveSockets, Live
<1>4. ASSUME NEW s \in Sockets, Refused(s) \/ GivesUp(s) \/ Lost(s) PROVE Bookkeeping'
  BY <1>4, HandleCloseKeeps DEF Refused, GivesUp, Lost, Onclose
<1>5. ASSUME NEW s \in Sockets, ClientTakes(s) PROVE Bookkeeping'
  <2>1. end[s] \in {"open", "closing"} /\ mounts' = mounts
    BY <1>5 DEF ClientTakes
  <2>2. mounts = 0 /\ status # "idle"
    BY <2>1, SocketAssumption DEF Bookkeeping
  <2>3. CASE end' = [end EXCEPT ![s] = "none"] /\ HandleClose
    BY <2>1, <2>3, HandleCloseKeeps
  <2>4. CASE UNCHANGED <<client, end>>
    BY <2>1, <2>4 DEF Bookkeeping, client, LiveSockets, Live
  <2>5. CASE end[s] = "open" /\ OnSnapshot /\ UNCHANGED end
    <3>1. ~closed /\ s = sock /\ retry = Off
      BY <2>5, SocketAssumption DEF Bookkeeping, LiveSockets, Live
    <3>2. \A t \in Sockets : end[t] # "none" => end[t] = "open"
      BY <2>5, <3>1 DEF Bookkeeping
    <3> QED
      BY <2>1, <2>2, <2>5, <3>1, <3>2 DEF Bookkeeping, OnSnapshot, Live
  <2>6. CASE end[s] = "open" /\ OnRoomFull(s)
    <3>1. ~closed /\ s = sock /\ retry = Off
      BY <2>6, SocketAssumption DEF Bookkeeping, LiveSockets, Live
    <3>2. \A t \in Sockets : end'[t] \in {"none", "closing"}
      BY <2>6, <3>1, HangupEnds DEF Bookkeeping, OnRoomFull
    <3> QED
      BY <2>1, <2>2, <2>6, <3>1, <3>2 DEF Bookkeeping, OnRoomFull, LiveSockets, Live
  <2>7. CASE UNCHANGED <<status, closed, attempt, sock, retry, heartbeat, ticking, end>>
    BY <2>1, <2>7 DEF Bookkeeping, LiveSockets, Live
  <2> QED
    BY <1>5, <2>3, <2>4, <2>5, <2>6, <2>7 DEF ClientTakes
<1>6. ASSUME UNCHANGED <<client, end, mounts>> PROVE Bookkeeping'
  BY <1>6 DEF Bookkeeping, client, LiveSockets, Live
<1>7. ASSUME NEW s \in Sockets,
             ServerTakes(s) \/ News(s) \/ Expires(s) \/ ServerLoses(s) \/ NetworkDies(s)
      PROVE  Bookkeeping'
  BY <1>6, <1>7 DEF ServerTakes, News, Expires, ServerLoses, NetworkDies
<1>8. CASE Close
  <2>1. \A t \in Sockets : end'[t] \notin Live
    <3>1. CASE sock = NoSocket
      BY <1>8, <3>1, SocketAssumption DEF Bookkeeping, Close, LiveSockets, Live
    <3>2. CASE sock # NoSocket
      <4>1. sock \in Sockets /\ Hangup(sock)
        BY <1>8, <3>2 DEF TypeOK, Close
      <4>2. end'[sock] \in {"none", "closing"} /\ \A t \in Sockets \ {sock} : end'[t] = end[t]
        BY <4>1, HangupEnds
      <4> QED
        BY <4>1, <4>2 DEF Bookkeeping, LiveSockets, Live
    <3> QED
      BY <3>1, <3>2
  <2> QED
    BY <1>8, <2>1 DEF Bookkeeping, Close, LiveSockets, Live
<1>9. CASE HeartbeatFires
  <2>1. heartbeat # Off /\ retry = Off /\ status \notin {"idle", "closed"}
    BY <1>9 DEF HeartbeatFires, Bookkeeping, Off
  <2>2. \A t \in Sockets : end'[t] = end[t] \/ (end'[t] = "closing" /\ end[t] # "none")
    <3>1. UNCHANGED end \/ (sock \in Sockets /\ Hangup(sock))
      BY <1>9 DEF HeartbeatFires, TypeOK
    <3> QED
      BY <3>1, HangupEnds
  <2> QED
    BY <1>9, <2>1, <2>2 DEF HeartbeatFires, Bookkeeping, LiveSockets, Live
<1>10. CASE CursorTick \/ SweepFires
  BY <1>6, <1>10 DEF CursorTick, SweepFires
<1>11. CASE Tick
  <2>1. (retry' = Off <=> retry = Off) /\ (heartbeat' = Off <=> heartbeat = Off)
    BY <1>11, Durations DEF Tick, Less, Off, Timer, TypeOK
  <2> QED
    BY <1>11, <2>1 DEF Tick, Bookkeeping, LiveSockets, Live
<1>12. CASE UNCHANGED vars
  BY <1>6, <1>12 DEF vars
<1> QED
  BY <1>1, <1>2, <1>3, <1>4, <1>5, <1>7, <1>8, <1>9, <1>10, <1>11, <1>12 DEF Next

\* A client that is mounted once has one connection, or one way of getting it back,
\* and none once it was closed, whatever is lost, refused, silent or late.
THEOREM OneConnectionCorrect == ASSUME MaxMounts <= 1 PROVE Spec => []OneConnection
<1>1. Init => TypeOK /\ Bookkeeping
  BY InitType, BoundAssumption DEF Init, Bookkeeping, LiveSockets, Live
<1>2. TypeOK /\ Bookkeeping /\ [Next]_vars => TypeOK' /\ Bookkeeping'
  BY NextType, BookkeepingStep
<1>3. TypeOK /\ Bookkeeping => OneConnection
  <2> SUFFICES ASSUME TypeOK, Bookkeeping PROVE OneConnection
    OBVIOUS
  <2>1. LiveSockets \subseteq {sock}
    BY DEF Bookkeeping, LiveSockets, Live
  <2>2. retry # Off => LiveSockets = {}
    BY SocketAssumption DEF Bookkeeping, LiveSockets, Live
  <2>3. ClosedIsSilent
    BY DEF Bookkeeping, ClosedIsSilent
  <2> QED
    BY <2>1, <2>2, <2>3 DEF OneConnection, SingleSocket
<1> QED
  BY <1>1, <1>2, <1>3, PTL DEF Spec

-----------------------------------------------------------------------------
(* What is in flight. *)

LEMMA CarriesPut ==
  ASSUME NEW q \in [Sockets -> Seq(Frames)], NEW s \in Sockets, NEW fs \in Seq(Frames),
         NEW t \in Sockets, NEW F
  PROVE  Carries(Put(q, s, fs)[t], F) <=>
           Carries(q[t], F) \/ (t = s /\ net[s] = "sound" /\ Carries(fs, F))
<1>1. Put(q, s, fs)[t] = IF t = s /\ net[s] = "sound" THEN q[t] \o fs ELSE q[t]
  BY PutType
<1>2. q[t] \in Seq(Frames)
  OBVIOUS
<1> QED
  BY <1>1, <1>2, CarriesConcat

\* What a client's step does to the queues.
LEMMA ClientFrames ==
  ASSUME TypeOK, NEW s \in Sockets, ClientTakes(s)
  PROVE  /\ Head(toClient[s]) \in Frames
         /\ \A F : Carries(toClient[s], F) <=> Head(toClient[s]) \in F \/ Carries(toClient'[s], F)
         /\ \A t \in Sockets \ {s} : toClient'[t] = toClient[t] /\ toServer'[t] = toServer[t] /\ end'[t] = end[t]
         /\ \A F : Carries(toServer[s], F) => Carries(toServer'[s], F)
         /\ Head(toClient[s]) = "wsping" => Carries(toServer'[s], {"wspong"})
<1>1. toClient[s] \in Seq(Frames) /\ toClient[s] # << >> /\ toClient'[s] = Tail(toClient[s])
  BY DEF TypeOK, ClientTakes
<1>2. /\ Head(toClient[s]) \in Frames
      /\ \A F : Carries(toClient[s], F) <=> Head(toClient[s]) \in F \/ Carries(toClient'[s], F)
  BY <1>1, CarriesTail
<1>3. ASSUME NEW fs \in {<<"close">>, <<"wspong">>}
      PROVE  /\ \A t \in Sockets \ {s} : Put(toServer, s, fs)[t] = toServer[t]
             /\ \A F : Carries(toServer[s], F) => Carries(Put(toServer, s, fs)[s], F)
  <2>1. fs \in Seq(Frames)
    BY SomeFrames DEF Frames
  <2>2. toServer \in [Sockets -> Seq(Frames)]
    BY DEF TypeOK
  <2>3. \A t \in Sockets \ {s} : Put(toServer, s, fs)[t] = toServer[t]
    BY <2>1, <2>2, PutType
  <2>4. ASSUME NEW F, Carries(toServer[s], F) PROVE Carries(Put(toServer, s, fs)[s], F)
    BY <2>1, <2>2, <2>4, CarriesPut
  <2> QED
    BY <2>3, <2>4
<1>4. Carries(Put(toServer, s, <<"wspong">>)[s], {"wspong"})
  <2>1. <<"wspong">> \in Seq(Frames) /\ Carries(<<"wspong">>, {"wspong"}) /\ net[s] = "sound"
    BY SomeFrames, CarriesOne DEF Frames, ClientTakes
  <2> QED
    BY ZenonT(60), <2>1, CarriesPut DEF TypeOK
<1>5. \A t \in Sockets \ {s} : toClient'[t] = toClient[t]
  BY DEF TypeOK, ClientTakes
<1>6. Hangup(s) => /\ \A t \in Sockets \ {s} : toServer'[t] = toServer[t] /\ end'[t] = end[t]
                   /\ \A F : Carries(toServer[s], F) => Carries(toServer'[s], F)
  BY <1>3, HangupEnds DEF Hangup
<1>7. /\ \A t \in Sockets \ {s} : toServer'[t] = toServer[t] /\ end'[t] = end[t]
      /\ \A F : Carries(toServer[s], F) => Carries(toServer'[s], F)
  <2>1. CASE /\ end' = [end EXCEPT ![s] = "none"]
             /\ toServer' = IF end[s] = "open" THEN Put(toServer, s, <<"close">>) ELSE toServer
    BY <1>3, <2>1 DEF TypeOK
  <2>2. CASE toServer' = Put(toServer, s, <<"wspong">>) /\ UNCHANGED end
    BY <1>3, <2>2
  <2>3. CASE UNCHANGED <<end, toServer>>
    BY <2>3
  <2>4. CASE Hangup(s)
    BY <1>6, <2>4
  <2> QED
    BY <2>1, <2>2, <2>3, <2>4 DEF ClientTakes, OnRoomFull, client
<1>8. Head(toClient[s]) = "wsping" => toServer' = Put(toServer, s, <<"wspong">>)
  BY DEF ClientTakes
<1> QED
  BY <1>2, <1>4, <1>5, <1>7, <1>8

\* What a server's step does to the queues.
LEMMA ServerFrames ==
  ASSUME TypeOK, NEW s \in Sockets, ServerTakes(s)
  PROVE  /\ Head(toServer[s]) \in Frames
         /\ \A F : Carries(toServer[s], F) <=> Head(toServer[s]) \in F \/ Carries(toServer'[s], F)
         /\ \A t \in Sockets \ {s} : /\ toClient'[t] = toClient[t] /\ toServer'[t] = toServer[t]
                                     /\ peer'[t] = peer[t] /\ alive'[t] = alive[t]
         /\ \A F : Carries(toClient[s], F) => Carries(toClient'[s], F)
         /\ peer[s] = "open" /\ peer'[s] # "open" => Carries(toClient'[s], {"close"})
         /\ peer[s] = "open" /\ Head(toServer[s]) = "ping" => Carries(toClient'[s], {"pong"})
         /\ peer'[s] # "none" =>
              /\ alive[s] => alive'[s]
              /\ Head(toServer[s]) = "wspong" => alive'[s]
<1>1. toServer[s] \in Seq(Frames) /\ toServer[s] # << >> /\ toServer'[s] = Tail(toServer[s])
  BY DEF TypeOK, ServerTakes
<1>2. /\ Head(toServer[s]) \in Frames
      /\ \A F : Carries(toServer[s], F) <=> Head(toServer[s]) \in F \/ Carries(toServer'[s], F)
  BY <1>1, CarriesTail
<1>3. \A t \in Sockets \ {s} : toServer'[t] = toServer[t]
  BY DEF TypeOK, ServerTakes
<1>4. ASSUME NEW fs \in Seq(Frames)
      PROVE  /\ \A t \in Sockets \ {s} : Put(toClient, s, fs)[t] = toClient[t]
             /\ \A F : Carries(toClient[s], F) => Carries(Put(toClient, s, fs)[s], F)
             /\ \A F : Carries(fs, F) => Carries(Put(toClient, s, fs)[s], F)
  <2>1. toClient \in [Sockets -> Seq(Frames)] /\ net[s] = "sound"
    BY DEF TypeOK, ServerTakes
  <2>2. \A t \in Sockets \ {s} : Put(toClient, s, fs)[t] = toClient[t]
    BY SMTT(40), <1>4, <2>1, PutType
  <2>3. ASSUME NEW F
        PROVE  Carries(Put(toClient, s, fs)[s], F) <=> Carries(toClient[s], F) \/ Carries(fs, F)
    BY <1>4, <2>1, CarriesPut
  <2> QED
    BY <2>2, <2>3
<1>5. ASSUME NEW f \in Frames
      PROVE  <<f>> \in Seq(Frames) /\ Carries(<<f>>, {f}) /\ <<f, "close">> \in Seq(Frames)
             /\ Carries(<<f, "close">>, {"close"})
  BY SomeFrames, CarriesOne, CarriesTwo DEF Frames
<1>6. CASE /\ Vanish(s)
           /\ toClient' = IF peer[s] = "open" THEN Put(toClient, s, <<"close">>) ELSE toClient
           /\ Head(toServer[s]) = "close"
  <2>1. "close" \in Frames
    BY DEF Frames
  <2>2. <<"close">> \in Seq(Frames) /\ Carries(<<"close">>, {"close"})
    BY <2>1, <1>5
  <2>3. /\ peer'[s] = "none"
        /\ \A t \in Sockets \ {s} : peer'[t] = peer[t] /\ alive'[t] = alive[t]
    BY <1>6 DEF Vanish, TypeOK
  <2> QED
    BY <1>2, <1>3, <1>4, <1>6, <2>2, <2>3
<1>7. CASE alive' = [alive EXCEPT ![s] = TRUE] /\ UNCHANGED <<peer, toClient>> /\ Head(toServer[s]) = "wspong"
  BY <1>2, <1>3, <1>7 DEF TypeOK
<1>8. CASE toClient' = Put(toClient, s, <<"pong">>) /\ UNCHANGED <<peer, alive>> /\ Head(toServer[s]) = "ping"
  <2>1. <<"pong">> \in Seq(Frames) /\ Carries(<<"pong">>, {"pong"})
    BY <1>5 DEF Frames
  <2> QED
    BY <1>2, <1>3, <1>4, <1>8, <2>1
<1>9. CASE Join(s) /\ Head(toServer[s]) = "join" /\ peer[s] = "open"
  <2>1. CASE toClient' = Put(toClient, s, <<"snapshot">>) /\ UNCHANGED <<peer, alive>>
    <3>1. <<"snapshot">> \in Seq(Frames)
      BY <1>5 DEF Frames
    <3> QED
      BY <1>2, <1>3, <1>4, <1>9, <2>1, <3>1
  <2>2. ASSUME NEW f \in {"room_full", "error"}, TurnAway(s, f)
        PROVE  /\ \A t \in Sockets \ {s} : toClient'[t] = toClient[t] /\ peer'[t] = peer[t] /\ alive'[t] = alive[t]
               /\ \A F : Carries(toClient[s], F) => Carries(toClient'[s], F)
               /\ Carries(toClient'[s], {"close"})
               /\ alive' = alive
    <3>1. <<f, "close">> \in Seq(Frames) /\ Carries(<<f, "close">>, {"close"})
      BY <1>5, <2>2 DEF Frames
    <3> QED
      BY <1>4, <2>2, <3>1 DEF TurnAway, TypeOK
  <2>3. CASE UNCHANGED <<peer, alive, toClient>>
    BY <1>2, <1>3, <1>9, <2>3
  <2> QED
    BY <1>2, <1>3, <1>9, <2>1, <2>2, <2>3 DEF Join
<1>10. CASE /\ UNCHANGED <<peer, alive, toClient>>
            /\ Head(toServer[s]) # "wspong"
            /\ Head(toServer[s]) = "ping" => peer[s] # "open"
  BY <1>2, <1>3, <1>10
<1> QED
  BY <1>6, <1>7, <1>8, <1>9, <1>10 DEF ServerTakes

LEMMA CarriesMore ==
  ASSUME NEW q, NEW F, NEW G, F \subseteq G, Carries(q, F)
  PROVE  Carries(q, G)
BY DEF Carries

\* The sweep pings who answered the last one, and says nothing else.
LEMMA SweepFrames ==
  ASSUME TypeOK, SweepFires, NEW t \in Sockets, net'[t] = "sound"
  PROVE  /\ net[t] = "sound" /\ toServer'[t] = toServer[t]
         /\ \A F : Carries(toClient[t], F) => Carries(toClient'[t], F)
         /\ peer'[t] # "none" => peer[t] # "none" /\ Carries(toClient'[t], {"wsping"})
         /\ peer'[t] = peer[t]
<1>1. t \notin Unresponsive /\ net[t] = "sound" /\ toServer'[t] = toServer[t] /\ peer'[t] = peer[t]
  BY DEF SweepFires, TypeOK
<1>2. toClient'[t] = IF peer[t] # "none" THEN Append(toClient[t], "wsping") ELSE toClient[t]
  BY <1>1 DEF SweepFires
<1>3. toClient[t] \in Seq(Frames) /\ "wsping" \in Frames
  BY DEF TypeOK, Frames
<1>4. Append(toClient[t], "wsping") = toClient[t] \o <<"wsping">> /\ <<"wsping">> \in Seq(Frames)
  BY <1>3
<1>5. ASSUME NEW F
      PROVE  Carries(Append(toClient[t], "wsping"), F) <=> Carries(toClient[t], F) \/ "wsping" \in F
  <2>1. Carries(toClient[t] \o <<"wsping">>, F) <=> Carries(toClient[t], F) \/ Carries(<<"wsping">>, F)
    BY <1>3, <1>4, CarriesConcat
  <2> QED
    BY <1>4, <2>1, CarriesOne
<1> QED
  BY <1>1, <1>2, <1>5

\* Frames that are added to a queue leave what it carries.
LEMMA AddedFrames ==
  ASSUME TypeOK, NEW s \in Sockets, NEW f \in Frames, NEW t \in Sockets, NEW F
  PROVE  /\ Carries(Put(toServer, s, <<f>>)[t], F) <=>
              Carries(toServer[t], F) \/ (t = s /\ net[s] = "sound" /\ f \in F)
         /\ Carries(Put(toClient, s, <<f>>)[t], F) <=>
              Carries(toClient[t], F) \/ (t = s /\ net[s] = "sound" /\ f \in F)
<1>1. <<f>> \in Seq(Frames) /\ (Carries(<<f>>, F) <=> f \in F)
  BY SomeFrames, CarriesOne
<1>2. toServer \in [Sockets -> Seq(Frames)]
  BY DEF TypeOK
<1>5. toClient \in [Sockets -> Seq(Frames)]
  BY DEF TypeOK
<1>3. Carries(Put(toServer, s, <<f>>)[t], F) <=>
        Carries(toServer[t], F) \/ (t = s /\ net[s] = "sound" /\ Carries(<<f>>, F))
  BY ZenonT(60), <1>1, <1>2, CarriesPut
<1>4. Carries(Put(toClient, s, <<f>>)[t], F) <=>
        Carries(toClient[t], F) \/ (t = s /\ net[s] = "sound" /\ Carries(<<f>>, F))
  BY ZenonT(60), <1>1, <1>5, CarriesPut
<1> QED
  BY <1>1, <1>3, <1>4

LEMMA ByeStep ==
  ASSUME TypeOK, TypeOK', ByeIsSaid, [Next]_vars
  PROVE  ByeIsSaid'
<1> SUFFICES ASSUME NEW t \in Sockets, end'[t] = "open", net'[t] = "sound", peer'[t] # "open"
             PROVE  Carries(toClient'[t], {"close"})
  BY DEF ByeIsSaid
<1>1. ASSUME end[t] = "open", net[t] = "sound", peer[t] # "open",
             Carries(toClient[t], {"close"}) => Carries(toClient'[t], {"close"})
      PROVE  Carries(toClient'[t], {"close"})
  BY <1>1 DEF ByeIsSaid
<1>2. ASSUME NEW s \in Sockets, OpenSocket(s) PROVE Carries(toClient'[t], {"close"})
  <2>1. t # s
    BY <1>2 DEF OpenSocket, TypeOK
  <2> QED
    BY <1>1, <1>2, <2>1 DEF OpenSocket, TypeOK, server
<1>3. ASSUME NEW s \in Sockets, Opens(s) PROVE Carries(toClient'[t], {"close"})
  BY <1>1, <1>3 DEF Opens, TypeOK
<1>4. ASSUME NEW s \in Sockets, end' = [end EXCEPT ![s] = "none"], UNCHANGED <<wire, server>>
      PROVE  Carries(toClient'[t], {"close"})
  BY <1>1, <1>4 DEF TypeOK, wire, server
<1>5. ASSUME NEW s \in Sockets, ClientTakes(s) PROVE Carries(toClient'[t], {"close"})
  <2>1. UNCHANGED <<net, peer>>
    BY <1>5 DEF ClientTakes, server
  <2>2. CASE t # s
    BY <1>1, <1>5, <2>1, <2>2, ClientFrames
  <2>3. CASE t = s
    <3>1. end[s] = "open" /\ Head(toClient[s]) # "close"
      BY <1>5, <2>3, HangupEnds DEF ClientTakes, OnRoomFull, TypeOK
    <3>2. Carries(toClient[s], {"close"}) => Carries(toClient'[s], {"close"})
      BY <1>5, <3>1, ClientFrames
    <3> QED
      BY <1>1, <2>1, <2>3, <3>1, <3>2
  <2> QED
    BY <2>2, <2>3
<1>6. ASSUME NEW s \in Sockets, ServerTakes(s) PROVE Carries(toClient'[t], {"close"})
  <2>1. UNCHANGED <<net, end>>
    BY <1>6 DEF ServerTakes
  <2>2. CASE t # s
    BY <1>1, <1>6, <2>1, <2>2, ServerFrames
  <2>3. CASE t = s /\ peer[s] = "open"
    BY <1>6, <2>3, ServerFrames
  <2>4. CASE t = s /\ peer[s] # "open"
    BY <1>1, <1>6, <2>1, <2>4, ServerFrames
  <2> QED
    BY <2>2, <2>3, <2>4
<1>7. ASSUME NEW s \in Sockets, News(s) PROVE Carries(toClient'[t], {"close"})
  <2>1. Carries(toClient[t], {"close"}) => Carries(toClient'[t], {"close"})
    BY <1>7, AddedFrames DEF News, Frames
  <2> QED
    BY <1>1, <1>7, <2>1 DEF News, server
<1>8. ASSUME NEW s \in Sockets, Expires(s) PROVE Carries(toClient'[t], {"close"})
  <2>1. Carries(toClient'[t], {"close"}) <=> Carries(toClient[t], {"close"}) \/ (t = s /\ net[s] = "sound")
    <3>1. "close" \in Frames /\ toClient' = Put(toClient, s, <<"close">>)
      BY <1>8 DEF Expires, Frames
    <3> QED
      BY <3>1, AddedFrames
  <2> QED
    BY <1>1, <1>8, <2>1 DEF Expires, TypeOK
<1>9. ASSUME NEW s \in Sockets, ServerLoses(s) \/ NetworkDies(s) PROVE Carries(toClient'[t], {"close"})
  BY <1>1, <1>9 DEF ServerLoses, NetworkDies, Vanish, wire, server, TypeOK
<1>10. ASSUME \A u \in Sockets : end'[u] = end[u] \/ end'[u] # "open", UNCHANGED <<net, peer, toClient>>
       PROVE  Carries(toClient'[t], {"close"})
  BY <1>1, <1>10
<1>11. CASE Close \/ HeartbeatFires
  <2>1. UNCHANGED end \/ (sock \in Sockets /\ Hangup(sock))
    BY <1>11 DEF Close, HeartbeatFires, TypeOK
  <2>2. \A u \in Sockets : end'[u] = end[u] \/ end'[u] # "open"
    BY <2>1, HangupEnds
  <2> QED
    BY <1>10, <1>11, <2>2 DEF Close, HeartbeatFires, server
<1>12. CASE CursorTick \/ Tick \/ UNCHANGED vars
  BY <1>10, <1>12 DEF CursorTick, Tick, vars, wire, server
<1>13. CASE SweepFires
  BY <1>1, <1>13, SweepFrames DEF SweepFires
<1> QED
  BY <1>2, <1>3, <1>4, <1>5, <1>6, <1>7, <1>8, <1>9, <1>11, <1>12, <1>13
     DEF Next, Connect, RetryFires, Refused, GivesUp, Lost, Onclose

-----------------------------------------------------------------------------
(* The server's sweep. *)

\* What SweepsCount says of one socket.
SweepsCountAt(t) ==
  /\ net[t] = "sound" => deadFor[t] = 0
  /\ end[t] = "connecting" => peer[t] = "none"
  /\ peer[t] # "none" => deadFor[t] + sweep <= (IF alive[t] THEN 1 ELSE 2) * SweepInterval

LEMMA SweepsStep ==
  ASSUME TypeOK, TypeOK', SweepsCount, [Next]_vars
  PROVE  SweepsCount'
<1> SUFFICES ASSUME NEW t \in Sockets PROVE SweepsCountAt(t)'
  BY DEF SweepsCount, SweepsCountAt
<1>1. /\ deadFor[t] \in 0..MaxAge /\ deadFor'[t] \in 0..MaxAge /\ sweep \in 0..SweepInterval
      /\ alive[t] \in BOOLEAN /\ SweepInterval \in Nat /\ SweepsCountAt(t)
  BY Durations DEF TypeOK, SweepsCount, SweepsCountAt
\* A step that leaves the clocks alone, ends no network and puts no peer there.
<1>2. ASSUME UNCHANGED <<net, deadFor, sweep>>,
             end'[t] = "connecting" => end[t] = "connecting",
             peer'[t] # "none" => peer[t] # "none" /\ (alive'[t] = alive[t] \/ deadFor[t] = 0)
      PROVE  SweepsCountAt(t)'
  <2>1. alive'[t] \in BOOLEAN
    BY DEF TypeOK
  <2>2. peer'[t] # "none" => deadFor[t] + sweep <= (IF alive[t] THEN 1 ELSE 2) * SweepInterval
    BY <1>1, <1>2 DEF SweepsCountAt
  <2>3. CASE alive'[t] = alive[t]
    BY <1>1, <1>2, <2>2, <2>3 DEF SweepsCountAt
  <2>4. CASE deadFor[t] = 0
    BY <1>1, <1>2, <2>1, <2>2, <2>4 DEF SweepsCountAt
  <2> QED
    BY <1>1, <1>2, <2>3, <2>4 DEF SweepsCountAt
<1>3. ASSUME NEW s \in Sockets, OpenSocket(s) PROVE SweepsCountAt(t)'
  <2>1. CASE t = s
    BY <1>3, <2>1 DEF OpenSocket, Fresh, SweepsCountAt, TypeOK, server
  <2>2. CASE t # s
    BY <1>1, <1>3, <2>2 DEF OpenSocket, SweepsCountAt, TypeOK, server
  <2> QED
    BY <2>1, <2>2
<1>4. ASSUME NEW s \in Sockets, Opens(s) PROVE SweepsCountAt(t)'
  <2>1. CASE t = s
    BY <1>1, <1>4, <2>1 DEF Opens, SweepsCountAt, TypeOK
  <2>2. CASE t # s
    BY <1>1, <1>4, <2>2 DEF Opens, SweepsCountAt, TypeOK
  <2> QED
    BY <2>1, <2>2
<1>5. ASSUME NEW s \in Sockets, end' = [end EXCEPT ![s] = "none"], UNCHANGED <<wire, server>>
      PROVE  SweepsCountAt(t)'
  BY <1>2, <1>5 DEF TypeOK, wire, server
<1>6. ASSUME NEW s \in Sockets, ClientTakes(s) PROVE SweepsCountAt(t)'
  <2>1. UNCHANGED <<net, deadFor, sweep, peer, alive>>
    BY <1>6 DEF ClientTakes, server
  <2>2. end'[t] = "connecting" => end[t] = "connecting"
    <3>1. t # s => end'[t] = end[t]
      BY <1>6, ClientFrames
    <3>2. Hangup(s) => end'[s] \in {"none", "closing"}
      BY HangupEnds
    <3>3. end[s] # "connecting"
      BY <1>6 DEF ClientTakes
    <3>4. end'[s] \in {end[s], "none", "closing"}
      BY <1>6, <3>2 DEF ClientTakes, TypeOK, OnRoomFull
    <3> QED
      BY <3>1, <3>3, <3>4
  <2> QED
    BY <1>2, <2>1, <2>2
<1>7. ASSUME NEW s \in Sockets, ServerTakes(s) PROVE SweepsCountAt(t)'
  <2>1. UNCHANGED <<net, deadFor, sweep, end>>
    BY <1>7 DEF ServerTakes
  <2>2. peer'[t] # "none" => peer[t] # "none" /\ (alive'[t] = alive[t] \/ deadFor[t] = 0)
    <3>1. CASE t # s
      BY <1>7, <3>1, ServerFrames
    <3>2. CASE t = s
      BY <1>1, <1>7, <3>2 DEF ServerTakes, SweepsCountAt
    <3> QED
      BY <3>1, <3>2
  <2> QED
    BY <1>2, <2>1, <2>2
<1>8. ASSUME NEW s \in Sockets, News(s) \/ Expires(s) PROVE SweepsCountAt(t)'
  BY <1>2, <1>8 DEF News, Expires, server, TypeOK
<1>9. ASSUME NEW s \in Sockets, ServerLoses(s) PROVE SweepsCountAt(t)'
  BY <1>2, <1>9 DEF ServerLoses, Vanish, wire, TypeOK
<1>10. ASSUME NEW s \in Sockets, NetworkDies(s) PROVE SweepsCountAt(t)'
  BY <1>1, <1>10 DEF NetworkDies, SweepsCountAt, TypeOK, server
<1>11. CASE Close \/ HeartbeatFires
  <2>1. UNCHANGED end \/ (sock \in Sockets /\ Hangup(sock))
    BY <1>11 DEF Close, HeartbeatFires, TypeOK
  <2>2. end'[t] = "connecting" => end[t] = "connecting"
    BY <2>1, HangupEnds
  <2> QED
    BY <1>2, <1>11, <2>2 DEF Close, HeartbeatFires, server
<1>12. CASE CursorTick \/ UNCHANGED vars
  BY <1>2, <1>12 DEF CursorTick, vars, wire, server
<1>13. CASE SweepFires
  <2>1. /\ sweep = 0 /\ sweep' = SweepInterval /\ alive'[t] = FALSE /\ UNCHANGED <<deadFor, end>>
        /\ peer'[t] # "none" => peer[t] # "none" /\ alive[t] /\ net'[t] = net[t]
        /\ peer'[t] = "none" \/ peer'[t] = peer[t]
        /\ net'[t] = "sound" => net[t] = "sound"
    BY <1>13 DEF SweepFires, Unresponsive, TypeOK
  <2> QED
    BY <1>1, <2>1 DEF SweepsCountAt
<1>14. CASE Tick
  <2>1. /\ sweep \in 1..SweepInterval /\ sweep' = sweep - 1 /\ UNCHANGED <<net, end, peer, alive>>
        /\ deadFor'[t] = IF net[t] = "dead" /\ ~Fresh(t) THEN Min({deadFor[t] + 1, MaxAge}) ELSE 0
    BY <1>1, <1>14 DEF Tick, Less, Off
  <2>2. deadFor'[t] <= deadFor[t] + 1
    BY <1>1, <2>1, MinOfTwo, Durations
  <2> QED
    BY <1>1, <2>1, <2>2 DEF SweepsCountAt
<1> QED
  BY <1>3, <1>4, <1>5, <1>6, <1>7, <1>8, <1>9, <1>10, <1>11, <1>12, <1>13, <1>14
     DEF Next, Connect, RetryFires, Refused, GivesUp, Lost, Onclose

LEMMA PongStep ==
  ASSUME TypeOK, TypeOK', SweepsCount, PongIsComing, [Next]_vars
  PROVE  PongIsComing'
<1> DEFINE Coming(t) == Carries(toClient[t], {"wsping"}) \/ Carries(toServer[t], {"wspong"})
<1> SUFFICES ASSUME NEW t \in Sockets, peer'[t] # "none", ~alive'[t], net'[t] = "sound", end'[t] # "none"
             PROVE  sweep' = SweepInterval /\ Coming(t)'
  BY DEF PongIsComing
<1>1. ASSUME peer[t] # "none", ~alive[t], net[t] = "sound", end[t] # "none",
             sweep' = sweep, Coming(t) => Coming(t)'
      PROVE  sweep' = SweepInterval /\ Coming(t)'
  BY <1>1 DEF PongIsComing
<1> HIDE DEF Coming
<1>2. ASSUME UNCHANGED <<toClient, toServer>> PROVE Coming(t) => Coming(t)'
  BY <1>2 DEF Coming
<1>3. ASSUME NEW s \in Sockets, OpenSocket(s) PROVE sweep' = SweepInterval /\ Coming(t)'
  <2>1. t # s
    BY <1>3 DEF OpenSocket, Fresh, server
  <2>2. toServer'[t] = toServer[t] /\ toClient'[t] = toClient[t]
    BY <1>3, <2>1 DEF OpenSocket, TypeOK
  <2> QED
    BY <1>1, <1>3, <2>1, <2>2 DEF OpenSocket, TypeOK, server, Coming
<1>4. ASSUME NEW s \in Sockets, Opens(s) PROVE sweep' = SweepInterval /\ Coming(t)'
  <2>1. t # s
    BY <1>4 DEF Opens, TypeOK
  <2>2. toServer'[t] = toServer[t] /\ toClient'[t] = toClient[t]
    BY <1>4, <2>1 DEF Opens, TypeOK, Put
  <2> QED
    BY <1>1, <1>4, <2>1, <2>2 DEF Opens, TypeOK, Coming
<1>5. ASSUME NEW s \in Sockets, end' = [end EXCEPT ![s] = "none"], UNCHANGED <<wire, server>>
      PROVE  sweep' = SweepInterval /\ Coming(t)'
  BY <1>1, <1>2, <1>5 DEF TypeOK, wire, server
<1>6. ASSUME NEW s \in Sockets, ClientTakes(s) PROVE sweep' = SweepInterval /\ Coming(t)'
  <2>1. UNCHANGED <<net, sweep, peer, alive>> /\ end[t] # "none"
    <3>1. t # s => end[t] # "none"
      BY <1>6, ClientFrames
    <3> QED
      BY <1>6, <3>1 DEF ClientTakes, server
  <2>2. Coming(t) => Coming(t)'
    <3>1. CASE t # s
      BY <1>6, <3>1, ClientFrames DEF Coming
    <3>2. CASE t = s
      BY <1>6, <3>2, ClientFrames DEF Coming
    <3> QED
      BY <3>1, <3>2
  <2> QED
    BY <1>1, <2>1, <2>2
<1>7. ASSUME NEW s \in Sockets, ServerTakes(s) PROVE sweep' = SweepInterval /\ Coming(t)'
  <2>1. UNCHANGED <<net, sweep, end>>
    BY <1>7 DEF ServerTakes
  <2>2. CASE t # s
    <3>1. Coming(t) => Coming(t)'
      BY <1>7, <2>2, ServerFrames DEF Coming
    <3> QED
      BY <1>1, <1>7, <2>1, <2>2, <3>1, ServerFrames
  <2>3. CASE t = s
    <3>1. peer[t] # "none" /\ ~alive[t] /\ Head(toServer[s]) # "wspong"
      BY <1>7, <2>3, ServerFrames DEF ServerTakes
    <3>2. Coming(t) => Coming(t)'
      BY <1>7, <2>3, <3>1, ServerFrames DEF Coming
    <3> QED
      BY <1>1, <2>1, <3>1, <3>2
  <2> QED
    BY <2>2, <2>3
<1>8. ASSUME NEW s \in Sockets, News(s) \/ Expires(s) PROVE sweep' = SweepInterval /\ Coming(t)'
  <2>1. Coming(t) => Coming(t)'
    BY SMTT(40), <1>8, AddedFrames DEF News, Expires, Frames, Coming
  <2> QED
    BY <1>1, <1>8, <2>1 DEF News, Expires, server, TypeOK
<1>9. ASSUME NEW s \in Sockets, ServerLoses(s) PROVE sweep' = SweepInterval /\ Coming(t)'
  BY <1>1, <1>2, <1>9 DEF ServerLoses, Vanish, wire, TypeOK
<1>10. ASSUME NEW s \in Sockets, NetworkDies(s) PROVE sweep' = SweepInterval /\ Coming(t)'
  BY <1>1, <1>10 DEF NetworkDies, TypeOK, server, Coming
<1>11. CASE Close \/ HeartbeatFires
  <2>1. /\ UNCHANGED <<toClient, net, sweep, peer, alive>>
        /\ \/ UNCHANGED <<end, toServer>>
           \/ sock \in Sockets /\ Hangup(sock)
           \/ sock \in Sockets /\ toServer' = Put(toServer, sock, <<"ping">>) /\ UNCHANGED end
    BY <1>11 DEF Close, HeartbeatFires, TypeOK, server
  <2>2. Coming(t) => Coming(t)'
    BY <2>1, AddedFrames DEF Hangup, Frames, Coming
  <2>3. end[t] # "none"
    BY <2>1, HangupEnds
  <2> QED
    BY <1>1, <2>1, <2>2, <2>3
<1>12. CASE CursorTick
  <2>1. sock \in Sockets /\ toServer' = Put(toServer, sock, <<"cursor">>) /\ UNCHANGED toClient
    BY <1>12 DEF CursorTick, TypeOK
  <2>2. Coming(t) => Coming(t)'
    BY <2>1, AddedFrames DEF Frames, Coming
  <2> QED
    BY <1>1, <1>12, <2>2 DEF CursorTick, server
<1>13. CASE SweepFires
  BY <1>13, SweepFrames DEF SweepFires, Coming
<1>14. CASE Tick
  <2>1. UNCHANGED <<net, end, peer, alive, toClient, toServer>> /\ Delivered(t)
    BY <1>14 DEF Tick
  <2>2. toClient[t] = << >> /\ toServer[t] = << >>
    BY <2>1 DEF Delivered
  <2>3. ~Coming(t)
    BY <2>2, CarriesEmpty DEF Coming
  <2> QED
    BY <2>1, <2>3 DEF PongIsComing, Coming
<1>15. CASE UNCHANGED vars
  BY <1>1, <1>2, <1>15 DEF vars, wire, server
<1> QED
  BY <1>3, <1>4, <1>5, <1>6, <1>7, <1>8, <1>9, <1>10, <1>11, <1>12, <1>13, <1>14, <1>15
     DEF Next, Connect, RetryFires, Refused, GivesUp, Lost, Onclose

-----------------------------------------------------------------------------
(* The client's watchdog. *)

LEMMA ConnectedStep ==
  ASSUME TypeOK, Bookkeeping, ConnectedIsWatched, [Next]_vars
  PROVE  ConnectedIsWatched'
<1> DEFINE Watched == end'[sock'] # "connecting" /\ (end'[sock'] = "open" => heartbeat' # Off)
<1> SUFFICES ASSUME status' = "connected", sock' # NoSocket
             PROVE  Watched
  BY DEF ConnectedIsWatched
<1>1. ASSUME UNCHANGED <<status, sock, heartbeat>>, end'[sock] = end[sock] \/ end'[sock] \notin Live
      PROVE  Watched
  BY <1>1 DEF ConnectedIsWatched, Live
<1>2. ASSUME NEW s \in Sockets, OpenSocket(s) PROVE Watched
  BY <1>2 DEF OpenSocket
<1>3. ASSUME NEW s \in Sockets, Opens(s) PROVE Watched
  <2>1. s # sock
    BY <1>3 DEF Opens, client, ConnectedIsWatched
  <2> QED
    BY <1>1, <1>3, <2>1 DEF Opens, client, TypeOK
<1>4. ASSUME HandleClose PROVE Watched
  BY <1>4 DEF HandleClose
<1>5. ASSUME NEW s \in Sockets, ClientTakes(s) PROVE Watched
  <2>1. CASE HandleClose
    BY <1>4, <2>1
  <2>2. CASE UNCHANGED <<client, end>>
    BY <1>1, <2>2 DEF client
  <2>3. CASE end[s] = "open" /\ OnSnapshot /\ UNCHANGED end
    <3>1. s = sock /\ sock' = sock
      BY <2>3 DEF Bookkeeping, LiveSockets, Live, OnSnapshot
    <3> QED
      BY <2>3, <3>1, Durations DEF OnSnapshot, Off
  <2>4. CASE OnRoomFull(s)
    BY <2>4 DEF OnRoomFull
  <2>5. CASE UNCHANGED <<status, closed, attempt, sock, retry, heartbeat, ticking, end>>
    BY <1>1, <2>5
  <2> QED
    BY <1>5, <2>1, <2>2, <2>3, <2>4, <2>5 DEF ClientTakes
<1>6. ASSUME UNCHANGED <<client, end>> PROVE Watched
  BY <1>1, <1>6 DEF client
<1>7. ASSUME NEW s \in Sockets,
             ServerTakes(s) \/ News(s) \/ Expires(s) \/ ServerLoses(s) \/ NetworkDies(s)
      PROVE  Watched
  BY <1>6, <1>7 DEF ServerTakes, News, Expires, ServerLoses, NetworkDies
<1>8. CASE Close
  BY <1>8 DEF Close
<1>9. CASE HeartbeatFires
  <2>1. sock \in Sockets /\ UNCHANGED <<status, sock>>
    BY <1>9 DEF HeartbeatFires, TypeOK
  <2>2. (heartbeat' # Off /\ UNCHANGED end) \/ Hangup(sock)
    BY <1>9, <2>1, Durations DEF HeartbeatFires, TypeOK, Off
  <2>3. Hangup(sock) => end'[sock] \notin Live
    BY <2>1, HangupEnds DEF Live
  <2> QED
    BY <2>1, <2>2, <2>3 DEF ConnectedIsWatched, Live
<1>10. CASE CursorTick \/ SweepFires \/ UNCHANGED vars
  BY <1>6, <1>10 DEF CursorTick, SweepFires, vars
<1>11. CASE Tick
  <2>1. heartbeat # Off => heartbeat' # Off
    BY <1>11, Durations DEF Tick, Less, Off, Timer, TypeOK
  <2> QED
    BY <1>11, <2>1 DEF Tick, ConnectedIsWatched
<1> QED
  BY <1>2, <1>3, <1>4, <1>5, <1>7, <1>8, <1>9, <1>10, <1>11
     DEF Next, Connect, RetryFires, Refused, GivesUp, Lost, Onclose

\* What Watchful says of a socket, once its timer runs.
WatchedAt(s) ==
  /\ silence + heartbeat < LivenessTimeout + HeartbeatInterval
  /\ deadFor[s] <= silence
  /\ net[s] = "sound" =>
       /\ silence <= HeartbeatInterval
       /\ \/ silence + heartbeat <= HeartbeatInterval
          \/ Carries(toServer[s], {"ping"}) \/ Carries(toClient[s], {"pong", "close"})

LEMMA WatchStep ==
  ASSUME TypeOK, TypeOK', Bookkeeping, ByeIsSaid, SweepsCount, Watchful, [Next]_vars
  PROVE  Watchful'
<1> DEFINE Answered(s) == Carries(toServer[s], {"ping"}) \/ Carries(toClient[s], {"pong", "close"})
<1> SUFFICES ASSUME NEW z \in Sockets, z = sock', heartbeat' # Off, end'[z] = "open"
             PROVE  WatchedAt(z)'
  BY DEF Watchful, WatchedAt, TypeOK
<1>1. z # NoSocket /\ deadFor'[z] \in 0..MaxAge /\ deadFor[z] \in 0..MaxAge /\ silence \in 0..MaxAge
  BY SocketAssumption DEF TypeOK
\* The clocks stand still and nothing that answers is lost.
<1>2. ASSUME sock = z, UNCHANGED <<heartbeat, silence, deadFor>>, end[z] = "open",
             net'[z] = "sound" => net[z] = "sound" /\ (Answered(z) => Answered(z)')
      PROVE  WatchedAt(z)'
  BY <1>1, <1>2 DEF Watchful, WatchedAt
<1>3. ASSUME NEW s \in Sockets, OpenSocket(s) PROVE WatchedAt(z)'
  BY <1>3 DEF OpenSocket, TypeOK
<1>4. ASSUME NEW s \in Sockets, Opens(s) PROVE WatchedAt(z)'
  <2>1. s # z
    BY <1>4 DEF Opens, client, Bookkeeping
  <2>2. toServer'[z] = toServer[z] /\ toClient'[z] = toClient[z]
    BY <1>4, <2>1, <1>1 DEF Opens, TypeOK, Put, client
  <2> QED
    BY <1>2, <1>4, <2>1, <2>2 DEF Opens, TypeOK, client
<1>5. ASSUME HandleClose PROVE WatchedAt(z)'
  BY <1>5 DEF HandleClose
<1>6. ASSUME NEW s \in Sockets, ClientTakes(s) PROVE WatchedAt(z)'
  <2>1. net[s] = "sound" /\ UNCHANGED <<net, deadFor>> /\ deadFor[s] = 0
    BY <1>6 DEF ClientTakes, SweepsCount
  <2>2. CASE silence' = 0 /\ z = s /\ heartbeat' \in 0..HeartbeatInterval
    <3>1. HeartbeatInterval \in Nat /\ LivenessTimeout \in Nat /\ HeartbeatInterval < LivenessTimeout
      BY Durations
    <3>2. \A a, h : a = 0 /\ h \in 0..HeartbeatInterval =>
            /\ a <= HeartbeatInterval /\ a + h <= HeartbeatInterval
            /\ a + h < LivenessTimeout + HeartbeatInterval
      BY <3>1
    <3>3. /\ silence' <= HeartbeatInterval /\ silence' + heartbeat' <= HeartbeatInterval
          /\ silence' + heartbeat' < LivenessTimeout + HeartbeatInterval
      BY Zenon, <2>2, <3>2
    <3>4. deadFor'[z] <= silence'
      BY <2>1, <2>2
    <3> QED
      BY <3>3, <3>4 DEF WatchedAt
  <2>3. end[s] = "open" => s = sock
    BY DEF Bookkeeping, LiveSockets, Live
  <2>4. heartbeat' = heartbeat => heartbeat' \in 0..HeartbeatInterval
    BY DEF TypeOK, Timer
  <2>5. CASE HandleClose
    BY <1>5, <2>5
  <2>6. CASE end[s] = "open" /\ silence' = 0 /\ OnSnapshot
    BY <2>2, <2>3, <2>6, Durations DEF OnSnapshot
  <2>7. CASE end[s] = "open" /\ OnRoomFull(s)
    BY <2>3, <2>7, HangupEnds DEF OnRoomFull
  <2>8. CASE end[s] = "open" /\ silence' = 0 /\ UNCHANGED <<sock, heartbeat>>
    BY <2>2, <2>3, <2>4, <2>8
  <2>9. CASE /\ Head(toClient[s]) \notin {"close", "snapshot", "room_full", "pong", "news", "error"} \/ end[s] # "open"
             /\ UNCHANGED <<client, end>>
    <3>1. Answered(z) => Answered(z)'
      <4>1. CASE z # s
        BY <1>1, <1>6, <2>9, <4>1, ClientFrames DEF client
      <4>2. CASE z = s
        BY <1>1, <1>6, <2>9, <4>2, ClientFrames DEF client
      <4> QED
        BY <4>1, <4>2
    <3> QED
      BY <1>2, <2>1, <2>9, <3>1 DEF client
  <2>10. CASE Head(toClient[s]) = "close"
    BY <1>6, <2>5, <2>10 DEF ClientTakes
  <2> QED
    BY <1>6, <2>6, <2>7, <2>8, <2>9, <2>10 DEF ClientTakes, Hear
<1>7. ASSUME NEW s \in Sockets, ServerTakes(s) PROVE WatchedAt(z)'
  <2>1. UNCHANGED <<client, end, net, deadFor>>
    BY <1>7 DEF ServerTakes
  <2>2. net[z] = "sound" /\ Answered(z) => Answered(z)'
    <3>1. CASE z # s
      BY <1>1, <1>7, <2>1, <3>1, ServerFrames DEF client
    <3>2. CASE z = s /\ Head(toServer[s]) = "ping"
      <4>1. CASE peer[s] = "open"
        <5>1. Carries(toClient'[s], {"pong"})
          BY <1>7, <3>2, <4>1, ServerFrames
        <5> QED
          BY <2>1, <3>2, <5>1, CarriesMore DEF client
      <4>2. CASE peer[s] # "open" /\ net[s] = "sound"
        <5>1. Carries(toClient[s], {"close"})
          BY <2>1, <3>2, <4>2 DEF ByeIsSaid, client
        <5>2. Carries(toClient'[s], {"close"})
          BY <1>7, <5>1, ServerFrames
        <5> QED
          BY <2>1, <3>2, <5>2, CarriesMore DEF client
      <4> QED
        BY <3>2, <4>1, <4>2
    <3>3. CASE z = s /\ Head(toServer[s]) # "ping"
      BY <1>7, <2>1, <3>3, ServerFrames DEF client
    <3> QED
      BY <3>1, <3>2, <3>3
  <2> QED
    BY <1>2, <2>1, <2>2 DEF client
<1>8. ASSUME NEW s \in Sockets, News(s) \/ Expires(s) PROVE WatchedAt(z)'
  <2>1. Answered(z) => Answered(z)'
    <3>1. \E f \in Frames : toClient' = Put(toClient, s, <<f>>)
      BY <1>8 DEF News, Expires, Frames
    <3>2. sock' = sock /\ toServer' = toServer
      BY <1>8 DEF News, Expires, client
    <3> QED
      BY <1>1, <3>1, <3>2, AddedFrames
  <2> QED
    BY <1>2, <1>8, <2>1 DEF News, Expires, client
<1>9. ASSUME NEW s \in Sockets, ServerLoses(s) PROVE WatchedAt(z)'
  BY <1>2, <1>9 DEF ServerLoses, client, wire
<1>10. ASSUME NEW s \in Sockets, NetworkDies(s) PROVE WatchedAt(z)'
  <2>1. net'[z] = "sound" =>
          net[z] = "sound" /\ toServer'[z] = toServer[z] /\ toClient'[z] = toClient[z]
    BY <1>1, <1>10 DEF NetworkDies, TypeOK, client
  <2> QED
    BY <1>2, <1>10, <2>1 DEF NetworkDies, client
<1>11. CASE Close
  BY <1>11 DEF Close
<1>12. CASE HeartbeatFires
  <2>1. sock' = sock /\ sock \in Sockets /\ ~Hangup(z)
    BY <1>1, <1>12, HangupEnds DEF HeartbeatFires
  <2>2. /\ heartbeat = 0 /\ ~DeadAir /\ heartbeat' = HeartbeatInterval
        /\ toServer' = Put(toServer, sock, <<"ping">>) /\ UNCHANGED <<end, net, deadFor, toClient, silence>>
    BY <1>12, <2>1 DEF HeartbeatFires
  <2>3. net[z] = "sound" => Carries(toServer'[z], {"ping"})
    BY <2>1, <2>2, AddedFrames DEF Frames
  <2>4. silence < LivenessTimeout /\ deadFor[z] <= silence
        /\ (net[z] = "sound" => silence <= HeartbeatInterval)
    BY <1>1, <2>1, <2>2, Durations DEF DeadAir, Watchful, Off
  <2> QED
    BY <1>1, <2>1, <2>2, <2>3, <2>4, Durations DEF WatchedAt
<1>13. CASE CursorTick
  <2>1. sock \in Sockets /\ toServer' = Put(toServer, sock, <<"cursor">>) /\ UNCHANGED <<toClient, client>>
    BY <1>13 DEF CursorTick, TypeOK
  <2>2. Answered(z) => Answered(z)'
    BY <2>1, AddedFrames DEF Frames, client
  <2> QED
    BY <1>2, <1>13, <2>2 DEF CursorTick, client
<1>14. CASE SweepFires
  <2>1. net'[z] = "sound" => net[z] = "sound" /\ (Answered(z) => Answered(z)')
    BY <1>1, <1>14, SweepFrames DEF SweepFires, client
  <2> QED
    BY <1>2, <1>14, <2>1 DEF SweepFires, client
<1>15. CASE Tick
  <2>1. /\ sock' = sock /\ UNCHANGED <<end, net, peer, toServer, toClient>> /\ Delivered(z)
        /\ heartbeat \in 1..HeartbeatInterval /\ heartbeat' = heartbeat - 1
        /\ silence' = Min({silence + 1, MaxAge})
        /\ deadFor'[z] = IF net[z] = "dead" /\ ~Fresh(z) THEN Min({deadFor[z] + 1, MaxAge}) ELSE 0
    BY <1>1, <1>15 DEF Tick, Less, TypeOK, Timer, Off
  <2>2. WatchedAt(z)
    BY <1>1, <2>1, Durations DEF Watchful, WatchedAt, Off
  <2>3. silence' = (IF silence + 1 <= MaxAge THEN silence + 1 ELSE MaxAge) /\ deadFor'[z] <= silence'
    BY <1>1, <2>1, <2>2, MinOfTwo, Durations DEF WatchedAt
  <2>4. net[z] = "sound" => ~Answered(z)
    <3>1. SUFFICES ASSUME net[z] = "sound" PROVE ~Answered(z)
      OBVIOUS
    <3>2. toClient[z] = << >>
      BY <2>1, <3>1 DEF Delivered
    <3>3. \A F : ~Carries(toClient[z], F)
      BY <3>2, CarriesEmpty
    <3>4. peer[z] = "open"
      BY <1>1, <2>1, <3>1, <3>3 DEF ByeIsSaid
    <3>5. toServer[z] = << >>
      BY <2>1, <3>1, <3>4 DEF Delivered
    <3> QED
      BY <3>3, <3>5, CarriesEmpty
  <2> QED
    BY <1>1, <2>1, <2>2, <2>3, <2>4, Durations DEF WatchedAt
<1>16. CASE UNCHANGED vars
  BY <1>2, <1>16 DEF vars, client, wire
<1> QED
  BY <1>3, <1>4, <1>5, <1>6, <1>7, <1>8, <1>9, <1>10, <1>11, <1>12, <1>13, <1>14, <1>15, <1>16
     DEF Next, Connect, RetryFires, Refused, GivesUp, Lost, Onclose

-----------------------------------------------------------------------------
(* What follows of each end. *)

\* Each end notices a connection that died, in time, and the client no other: the
\* watchdog (heartbeatTick) and the server's sweep, however frames, faults and
\* timers interleave.
THEOREM DeadIsNoticedCorrect == ASSUME MaxMounts <= 1 PROVE Spec => []DeadIsNoticed
<1> DEFINE Inv == /\ TypeOK /\ Bookkeeping /\ ByeIsSaid /\ Watchful /\ ConnectedIsWatched
                  /\ SweepsCount /\ PongIsComing
<1>1. Init => Inv
  <2> SUFFICES ASSUME Init PROVE Inv
    OBVIOUS
  <2>1. TypeOK /\ Bookkeeping
    BY InitType, BoundAssumption DEF Init, Bookkeeping, LiveSockets, Live
  <2>2. SweepsCount
    BY DEF Init, SweepsCount
  <2> QED
    BY <2>1, <2>2 DEF Init, ByeIsSaid, Watchful, ConnectedIsWatched, PongIsComing
<1>2. Inv /\ [Next]_vars => Inv'
  BY NextType, BookkeepingStep, ByeStep, WatchStep, ConnectedStep, SweepsStep, PongStep
<1>3. Inv => DeadIsNoticed
  <2> SUFFICES ASSUME Inv PROVE DeadIsNoticed
    OBVIOUS
  <2>1. NoFalseAlarm
    BY Durations DEF NoFalseAlarm, Watchful, TypeOK
  <2>2. DetectedByClient
    <3> SUFFICES ASSUME NEW s \in Sockets, status = "connected", s = sock, end[s] = "open"
                 PROVE  deadFor[s] <= LivenessTimeout + HeartbeatInterval
      BY DEF DetectedByClient
    <3>1. sock # NoSocket /\ heartbeat # Off
      BY SocketAssumption DEF ConnectedIsWatched
    <3>2. silence + heartbeat < LivenessTimeout + HeartbeatInterval /\ deadFor[s] <= silence
      BY <3>1 DEF Watchful
    <3>3. heartbeat \in Nat /\ silence \in Nat /\ deadFor[s] \in Nat
      BY <3>1, Durations DEF TypeOK, Timer
    <3> QED
      BY <3>2, <3>3, Durations
  <2>3. ReapedInTwoCycles
    <3> SUFFICES ASSUME NEW s \in Sockets, peer[s] # "none"
                 PROVE  deadFor[s] <= 2 * SweepInterval
      BY DEF ReapedInTwoCycles
    <3>1. deadFor[s] + sweep <= (IF alive[s] THEN 1 ELSE 2) * SweepInterval
      BY DEF SweepsCount
    <3>2. deadFor[s] \in Nat /\ sweep \in Nat
      BY Durations DEF TypeOK
    <3> QED
      BY <3>1, <3>2, Durations
  <2> QED
    BY <2>1, <2>2, <2>3 DEF DeadIsNoticed
<1> QED
  BY <1>1, <1>2, <1>3, PTL DEF Spec

\* The keepalive sweep of ws.ts terminates no socket whose client still answers,
\* however often the client is mounted: at a sweep every answer has come in.
THEOREM NeverReapsCorrect == Spec => NeverReapsTheLiving
<1> DEFINE Inv == TypeOK /\ SweepsCount /\ PongIsComing
<1>1. Init => Inv
  BY InitType DEF Init, SweepsCount, PongIsComing
<1>2. Inv /\ [Next]_vars => Inv'
  BY NextType, SweepsStep, PongStep
<1>3. Inv => (SweepFires => \A s \in Unresponsive : net[s] = "dead" \/ end[s] = "none")
  <2> SUFFICES ASSUME Inv, SweepFires, NEW s \in Unresponsive, end[s] # "none", net[s] = "sound"
               PROVE  FALSE
    BY DEF TypeOK, Unresponsive
  <2>1. sweep = SweepInterval
    BY DEF PongIsComing, Unresponsive
  <2> QED
    BY <2>1, Durations DEF SweepFires
<1> QED
  BY <1>1, <1>2, <1>3, PTL DEF Spec, NeverReapsTheLiving
=============================================================================
