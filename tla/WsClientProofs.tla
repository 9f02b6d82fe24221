--------------------------- MODULE WsClientProofs ---------------------------
(***************************************************************************)
(* Proofs about the reconnecting socket, for every set of socket objects   *)
(* and every Limit: WsInv is an invariant, and with it the properties of   *)
(* WsClient.  What the client promises while its sockets do not overlap is *)
(* inductive only together with who refers to what: OneAtATime, Referred   *)
(* and Guarded.                                                            *)
(***************************************************************************)
EXTENDS WsClient, TLAPS

USE LimitAssumption, NullAssumption
    DEF Events, SocketState, Closing, States, fields, timers, world, Alive

-----------------------------------------------------------------------------
(* What the private methods do.                                            *)

(* An event is counted.                                                     *)
LEMMA Counted ==
    ASSUME TypeOK, NEW e \in Events, Happens(e)
    PROVE  used' \in [Events -> Nat]
BY DEF TypeOK, Happens

(* scheduleReconnect(): a timer is pending, and a lost one stays pending.   *)
LEMMA Scheduled ==
    ASSUME TypeOK, Reconnects
    PROVE  /\ retry' \in BOOLEAN /\ lostRetries' \in Nat /\ state' \in States
           /\ wantOpen => state' = "connecting"
           /\ ~wantOpen => state' = state
<1>1. CASE wantOpen
  <2>1. retry' = TRUE /\ lostRetries' = (IF retry THEN lostRetries + 1 ELSE lostRetries)
        /\ state' = "connecting"
    BY <1>1 DEF Reconnects, Schedule
  <2>2. lostRetries + 1 \in Nat /\ lostRetries \in Nat
    BY DEF TypeOK
  <2> QED BY <1>1, <2>1, <2>2
<1>2. CASE ~wantOpen
  BY <1>2 DEF TypeOK, Reconnects
<1> QED BY <1>1, <1>2

(* open(): one more socket object, unless the constructor throws; without   *)
(* an overlap there was none, and no refresh goes on beside it.             *)
LEMMA Opened ==
    ASSUME TypeOK, NEW r \in BOOLEAN, NEW l \in Nat, OpenSocket(r, l)
    PROVE  /\ retry' \in BOOLEAN /\ lostRetries' \in Nat /\ used' \in [Events -> Nat]
           /\ authed' = FALSE /\ state' = "connecting" /\ overlap' \in BOOLEAN
           /\ heartbeat' \in BOOLEAN /\ ws' \in Sockets \cup {Null}
           /\ sock' \in [Sockets -> SocketState]
           /\ ~overlap' => ~overlap /\ Alive = {} /\ ~(refreshing' > 0)
           /\ \/ sock' = sock /\ ws' = ws
              \/ \E s \in Sockets : /\ sock' = [sock EXCEPT ![s] = "connecting"]
                                    /\ ws' = s
<1>1. /\ authed' = FALSE /\ state' = "connecting" /\ overlap' \in BOOLEAN
      /\ ~overlap' => ~overlap /\ Alive = {} /\ ~(refreshing' > 0)
  BY DEF OpenSocket, TypeOK
<1>2. CASE /\ Happens("refuse")
           /\ Schedule(r, l) /\ heartbeat' = FALSE
           /\ UNCHANGED <<sock, ws>>
  <2>1. retry' = TRUE /\ lostRetries' = (IF r THEN l + 1 ELSE l) /\ l + 1 \in Nat
    BY <1>2 DEF Schedule
  <2>2. lostRetries' \in Nat
    BY <2>1
  <2>3. used' \in [Events -> Nat]
    BY <1>2, Counted
  <2> QED BY <1>1, <1>2, <2>1, <2>2, <2>3 DEF TypeOK
<1>3. CASE \E s \in Sockets \ Alive :
             /\ sock' = [sock EXCEPT ![s] = "connecting"] /\ ws' = s
             /\ retry' = r /\ lostRetries' = l
             /\ UNCHANGED <<heartbeat, used>>
  <2>1. PICK s \in Sockets : /\ sock' = [sock EXCEPT ![s] = "connecting"] /\ ws' = s
                             /\ retry' = r /\ lostRetries' = l
                             /\ UNCHANGED <<heartbeat, used>>
    BY <1>3
  <2>2. sock' \in [Sockets -> SocketState]
    BY <2>1 DEF TypeOK
  <2> QED BY <1>1, <2>1, <2>2 DEF TypeOK
<1> QED BY <1>2, <1>3 DEF OpenSocket

(* What an open() without overlap leaves of the invariant's last parts: the *)
(* new socket object is the only one, if it exists at all.                  *)
LEMMA OpenedSound ==
    ASSUME TypeOK, Referred, NEW r \in BOOLEAN, NEW l \in Nat, OpenSocket(r, l),
           refreshing' \in Nat
    PROVE  /\ OneAtATime' /\ Referred'
           /\ ~overlap' => \A s \in Sockets : sock'[s] \in {"free", "connecting"}
<1>a. /\ ~overlap' => ~(refreshing' > 0) /\ Alive = {}
      /\ \/ sock' = sock /\ ws' = ws
         \/ \E s \in Sockets : sock' = [sock EXCEPT ![s] = "connecting"] /\ ws' = s
  BY Opened
<1>1. ~overlap' => refreshing' = 0 /\ \A u \in Sockets : sock[u] = "free"
  BY <1>a
<1>2. CASE sock' = sock /\ ws' = ws
  BY <1>1, <1>2 DEF OneAtATime, Referred
<1>3. CASE \E s \in Sockets : sock' = [sock EXCEPT ![s] = "connecting"] /\ ws' = s
  <2>1. PICK s \in Sockets : sock' = [sock EXCEPT ![s] = "connecting"] /\ ws' = s
    BY <1>3
  <2>2. sock'[s] = "connecting" /\ \A u \in Sockets : u # s => sock'[u] = sock[u]
    BY <2>1 DEF TypeOK
  <2>3. OneAtATime'
    BY <1>1, <2>2 DEF OneAtATime
  <2>4. Referred'
    BY <1>1, <2>1, <2>2 DEF Referred
  <2> QED BY <1>1, <2>2, <2>3, <2>4
<1> QED BY <1>a, <1>2, <1>3

(* this.ws.close(): the socket that was referred to is closing.             *)
LEMMA Closed ==
    ASSUME TypeOK, CloseSocket
    PROVE  /\ ws' = Null /\ sock' \in [Sockets -> SocketState]
           /\ \A s \in Sockets : \/ sock'[s] = sock[s] /\ (ws = s => sock[s] \in Closing)
                                 \/ ws = s /\ sock'[s] = "closing" /\ sock[s] \notin Closing
BY DEF TypeOK, CloseSocket

(* A socket moves on, and the others stay.                                  *)
LEMMA Moves ==
    ASSUME TypeOK, NEW s \in Sockets, NEW st \in SocketState, sock' = [sock EXCEPT ![s] = st]
    PROVE  /\ sock' \in [Sockets -> SocketState] /\ sock'[s] = st
           /\ \A u \in Sockets : u # s => sock'[u] = sock[u]
BY DEF TypeOK

-----------------------------------------------------------------------------
(* Every action keeps WsInv.                                               *)

(* start(): without an overlap the new socket is the first.                 *)
LEMMA StartKeeps == ASSUME WsInv, Start PROVE WsInv'
<1>1. /\ OpenSocket(retry, lostRetries) /\ retry \in BOOLEAN /\ lostRetries \in Nat
      /\ TypeOK /\ Referred
      /\ refreshing' \in Nat
  BY DEF WsInv, TypeOK, Start
<1>2. TypeOK'
  BY <1>1, Opened DEF TypeOK, Start
<1>3. OpenDelivers'
  BY <1>1, Opened DEF OpenDelivers
<1>4. OneAtATime' /\ Referred'
  BY <1>1, OpenedSound
<1>5. Guarded'
  BY <1>1 DEF Guarded, Start, TypeOK
<1> QED BY <1>2, <1>3, <1>4, <1>5 DEF WsInv

(* close(): the live socket is the one that is closed.                      *)
LEMMA StopKeeps == ASSUME WsInv, Stop PROVE WsInv'
<1>1. /\ ws' = Null /\ sock' \in [Sockets -> SocketState]
      /\ \A s \in Sockets : \/ sock'[s] = sock[s] /\ (ws = s => sock[s] \in Closing)
                            \/ ws = s /\ sock'[s] = "closing" /\ sock[s] \notin Closing
  BY Closed DEF WsInv, Stop
<1>2. used' \in [Events -> Nat]
  BY Counted DEF WsInv, Stop
<1>3. /\ wantOpen' = FALSE /\ state' = "closed" /\ retry' = FALSE /\ authTimer' = FALSE
      /\ heartbeat' = FALSE
      /\ UNCHANGED <<authed, didRefresh, lostRetries, lostAuths, refreshing, world, overlap, lost>>
  BY DEF Stop
<1>4. TypeOK'
  BY <1>1, <1>2, <1>3 DEF WsInv, TypeOK
<1>5. OpenDelivers'
  BY <1>3 DEF OpenDelivers
<1>6. ~overlap' => \A s \in Alive' : s \in Alive /\ sock'[s] \in Closing
  BY <1>1, <1>3 DEF WsInv, Referred
<1>7. OneAtATime'
  <2>1. Alive' \subseteq Alive
    BY <1>1 DEF WsInv, Referred
  <2> QED BY <1>3, <2>1 DEF WsInv, TypeOK, OneAtATime
<1>8. Referred'
  BY <1>1, <1>6 DEF Referred
<1>9. Guarded'
  BY <1>1, <1>3 DEF WsInv, Guarded
<1> QED BY <1>4, <1>5, <1>7, <1>8, <1>9 DEF WsInv

(* open() once more, on a timer or after a refresh.                         *)
LEMMA ReopenKeeps ==
    ASSUME WsInv, NEW r \in BOOLEAN, NEW l \in Nat, Reopen(r, l),
           UNCHANGED <<wantOpen, didRefresh, authTimer, lostAuths, revoked, aged, lost>>,
           token' \in {"stale", "fresh"},
           token = "fresh" => token' = "fresh",
           refreshing' \in Nat, refreshing' <= refreshing,
           refreshing # refreshing' => token' = "fresh" /\ wantOpen' = wantOpen
    PROVE  WsInv'
<1>1. CASE wantOpen
  <2>1. OpenSocket(r, l) /\ TypeOK /\ Referred
    BY <1>1 DEF Reopen, WsInv
  <2>2. TypeOK'
    BY <2>1, Opened DEF TypeOK
  <2>3. OpenDelivers'
    BY <2>1, Opened DEF OpenDelivers
  <2>4. /\ OneAtATime' /\ Referred'
        /\ ~overlap' => ~overlap /\ \A s \in Sockets : sock'[s] \in {"free", "connecting"}
    BY <2>1, Opened, OpenedSound
  <2>5. Guarded'
    BY <2>4 DEF WsInv, TypeOK, Guarded
  <2> QED BY <2>2, <2>3, <2>4, <2>5 DEF WsInv
<1>2. CASE ~wantOpen
  <2>1. /\ retry' = r /\ lostRetries' = l
        /\ UNCHANGED <<sock, ws, authed, state, heartbeat, overlap, used>>
    BY <1>2 DEF Reopen
  <2>2. TypeOK'
    BY <2>1 DEF WsInv, TypeOK
  <2>3. OpenDelivers'
    BY <1>2 DEF OpenDelivers
  <2>4. OneAtATime' /\ Referred'
    BY <2>1 DEF WsInv, TypeOK, OneAtATime, Referred
  <2>5. Guarded'
    BY <2>1 DEF WsInv, TypeOK, Guarded
  <2> QED BY <2>2, <2>3, <2>4, <2>5 DEF WsInv
<1> QED BY <1>1, <1>2

(* A reconnect timer runs.                                                  *)
LEMMA RetryKeeps == ASSUME WsInv, Retry PROVE WsInv'
<1>1. /\ UNCHANGED <<wantOpen, didRefresh, authTimer, lostAuths, refreshing, world, lost>>
      /\ refreshing \in Nat /\ token \in {"stale", "fresh"} /\ retry \in BOOLEAN
      /\ FALSE \in BOOLEAN /\ lostRetries \in Nat
      /\ UNCHANGED <<revoked, aged>> /\ token' = token
      /\ refreshing' = refreshing /\ refreshing <= refreshing
  BY DEF WsInv, TypeOK, Retry
<1>2. CASE Reopen(FALSE, lostRetries)
  BY <1>1, <1>2, ReopenKeeps
<1>3. CASE lostRetries > 0 /\ Reopen(retry, lostRetries - 1)
  <2>1. lostRetries - 1 \in Nat
    BY <1>1, <1>3
  <2> QED BY <1>1, <1>3, <2>1, ReopenKeeps
<1> QED BY <1>2, <1>3 DEF Retry

(* refresh() resolves true: the token is fresh.                             *)
LEMMA RefreshedKeeps == ASSUME WsInv, Refreshed PROVE WsInv'
<1>1. /\ UNCHANGED <<wantOpen, didRefresh, authTimer, lostAuths, revoked, aged, lost>>
      /\ refreshing' \in Nat /\ refreshing' <= refreshing /\ token' = "fresh"
      /\ retry \in BOOLEAN /\ lostRetries \in Nat /\ Reopen(retry, lostRetries)
  BY DEF WsInv, TypeOK, Refreshed
<1> QED BY <1>1, ReopenKeeps

(* An auth timer runs.                                                      *)
LEMMA AuthTimerEffect ==
    ASSUME TypeOK, AuthTimerRuns
    PROVE  authTimer' \in BOOLEAN /\ lostAuths' \in Nat
<1>1. lostAuths > 0 => lostAuths - 1 \in Nat
  BY DEF TypeOK
<1> QED BY <1>1 DEF TypeOK, AuthTimerRuns

(* The hello was in time.                                                   *)
LEMMA AuthInTimeKeeps == ASSUME WsInv, AuthInTime PROVE WsInv'
<1>1. /\ authTimer' \in BOOLEAN /\ lostAuths' \in Nat
      /\ UNCHANGED <<sock, fields, heartbeat, retry, lostRetries, refreshing, world,
                     overlap, lost, used>>
  BY AuthTimerEffect DEF WsInv, AuthInTime
<1>2. TypeOK'
  BY <1>1 DEF WsInv, TypeOK
<1>3. OpenDelivers' /\ OneAtATime' /\ Referred' /\ Guarded'
  BY <1>1 DEF WsInv, OpenDelivers, OneAtATime, Referred, Guarded
<1> QED BY <1>2, <1>3 DEF WsInv

(* dropAndReconnect(): the socket without a hello is closed.                *)
LEMMA AuthTimeoutKeeps == ASSUME WsInv, AuthTimeout PROVE WsInv'
<1>1. /\ ws' = Null /\ sock' \in [Sockets -> SocketState]
      /\ \A s \in Sockets : \/ sock'[s] = sock[s] /\ (ws = s => sock[s] \in Closing)
                            \/ ws = s /\ sock'[s] = "closing" /\ sock[s] \notin Closing
  BY Closed DEF WsInv, AuthTimeout
<1>2. used' \in [Events -> Nat] /\ authTimer' \in BOOLEAN /\ lostAuths' \in Nat
  BY Counted, AuthTimerEffect DEF WsInv, AuthTimeout
<1>3. /\ retry' \in BOOLEAN /\ lostRetries' \in Nat /\ state' \in States
      /\ wantOpen => state' = "connecting"
  BY Scheduled DEF WsInv, AuthTimeout
<1>4. /\ heartbeat' \in BOOLEAN
      /\ UNCHANGED <<wantOpen, authed, didRefresh, refreshing, world, overlap, lost>>
  BY DEF AuthTimeout, WsInv, TypeOK
<1>5. TypeOK'
  BY <1>1, <1>2, <1>3, <1>4 DEF WsInv, TypeOK
<1>6. OpenDelivers'
  BY <1>3, <1>4 DEF OpenDelivers
<1>7. ~overlap' => \A s \in Alive' : s \in Alive /\ sock'[s] \in Closing
  BY <1>1, <1>4 DEF WsInv, Referred
<1>8. OneAtATime'
  <2>1. Alive' \subseteq Alive
    BY <1>1 DEF WsInv, Referred
  <2> QED BY <1>4, <2>1 DEF WsInv, OneAtATime
<1>9. Referred'
  BY <1>1, <1>7 DEF Referred
<1>10. Guarded'
  BY <1>1, <1>4 DEF WsInv, Guarded
<1> QED BY <1>5, <1>6, <1>8, <1>9, <1>10 DEF WsInv

(* onopen: without an overlap the frame goes out on the socket that opened. *)
LEMMA OnopenKeeps == ASSUME WsInv, NEW s \in Sockets, Onopen(s) PROVE WsInv'
<1> USE DEF AuthToken
<1>1. /\ sock[s] = "connecting" /\ authTimer' = TRUE /\ lostAuths' \in Nat
      /\ UNCHANGED <<fields, heartbeat, retry, lostRetries, refreshing, world, overlap, lost, used>>
  <2>1. lostAuths + 1 \in Nat /\ lostAuths \in Nat
    BY DEF WsInv, TypeOK
  <2> QED BY <2>1 DEF Onopen
<1> DEFINE opened == [sock EXCEPT ![s] = "open"]
<1>2. /\ opened \in [Sockets -> SocketState] /\ opened[s] = "open"
      /\ \A u \in Sockets : u # s => opened[u] = sock[u]
  BY DEF WsInv, TypeOK
<1>3. sock' = IF ws # Null /\ opened[ws] = "open" THEN [opened EXCEPT ![ws] = token] ELSE opened
  BY DEF Onopen
<1> HIDE DEF opened
<1>4. /\ sock' \in [Sockets -> SocketState]
      /\ \A u \in Sockets : \/ sock'[u] = opened[u] /\ (u = ws => opened[u] # "open")
                            \/ u = ws /\ opened[u] = "open" /\ sock'[u] = token
  BY <1>2, <1>3 DEF WsInv, TypeOK
<1>5. TypeOK'
  BY <1>1, <1>4 DEF WsInv, TypeOK
<1>6. OpenDelivers'
  BY <1>1, <1>2, <1>4 DEF WsInv, TypeOK, OpenDelivers
<1>7. OneAtATime'
  <2>1. Alive' = Alive
    BY <1>1, <1>2, <1>4 DEF WsInv, TypeOK
  <2> QED BY <1>1, <2>1 DEF WsInv, OneAtATime
<1>8. CASE overlap
  <2>1. Referred' /\ Guarded'
    BY <1>1, <1>2, <1>4, <1>8 DEF WsInv, TypeOK, Referred, Guarded
  <2> QED BY <1>5, <1>6, <1>7, <2>1 DEF WsInv
<1>9. CASE ~overlap
  <2>1. ws = s /\ sock'[s] = token /\ \A u \in Sockets : u # s => sock'[u] = "free"
    BY <1>1, <1>2, <1>4, <1>9 DEF WsInv, Referred, OneAtATime
  <2>2. Referred'
    BY <1>1, <2>1 DEF WsInv, TypeOK, Referred
  <2>3. refreshing = 0
    BY <1>1, <1>9 DEF WsInv, TypeOK, OneAtATime
  <2>4. Guarded'
    BY <1>1, <2>1, <2>3 DEF WsInv, TypeOK, Guarded
  <2> QED BY <1>5, <1>6, <1>7, <2>2, <2>4 DEF WsInv
<1> QED BY <1>8, <1>9

(* hello: the socket is live.                                               *)
LEMMA HelloKeeps == ASSUME WsInv, NEW s \in Sockets, Hello(s) PROVE WsInv'
<1>1. /\ sock[s] = "fresh" /\ authed' = TRUE /\ didRefresh' = FALSE /\ state' = "open"
      /\ authTimer' = FALSE /\ heartbeat' = TRUE
      /\ UNCHANGED <<ws, wantOpen, retry, lostRetries, lostAuths, refreshing, world,
                     overlap, lost, used>>
  BY DEF Hello
<1>2. /\ sock' \in [Sockets -> SocketState] /\ sock'[s] = "live"
      /\ \A u \in Sockets : u # s => sock'[u] = sock[u]
  BY Moves DEF WsInv, Hello
<1>3. TypeOK'
  BY <1>1, <1>2 DEF WsInv, TypeOK
<1>4. OpenDelivers'
  BY <1>2 DEF OpenDelivers
<1>5. OneAtATime' /\ Referred'
  BY <1>1, <1>2 DEF WsInv, OneAtATime, Referred
<1>6. Guarded'
  BY <1>1 DEF WsInv, Guarded
<1> QED BY <1>3, <1>4, <1>5, <1>6 DEF WsInv

(* onclose: the object is gone; without an overlap it was the only one.     *)
LEMMA OncloseKeeps == ASSUME WsInv, NEW s \in Sockets, Onclose(s) PROVE WsInv'
<1>1. /\ sock[s] \in {"closing", "dropped"} /\ ws' = Null
      /\ authTimer' = FALSE /\ heartbeat' = FALSE
      /\ UNCHANGED <<wantOpen, authed, didRefresh, lostAuths, refreshing, world, overlap, lost, used>>
  BY DEF Onclose
<1>2. /\ sock' \in [Sockets -> SocketState] /\ sock'[s] = "free"
      /\ \A u \in Sockets : u # s => sock'[u] = sock[u]
  BY Moves DEF WsInv, Onclose
<1>3. /\ retry' \in BOOLEAN /\ lostRetries' \in Nat /\ state' \in States
      /\ wantOpen => state' = "connecting"
  BY Scheduled DEF WsInv, Onclose
<1>4. TypeOK'
  BY <1>1, <1>2, <1>3 DEF WsInv, TypeOK
<1>5. OpenDelivers'
  BY <1>1, <1>3 DEF OpenDelivers
<1>6. ~overlap => \A u \in Sockets : sock'[u] = "free"
  BY <1>1, <1>2 DEF WsInv, OneAtATime
<1>7. OneAtATime'
  BY <1>1, <1>6 DEF WsInv, TypeOK, OneAtATime
<1>8. Referred'
  BY <1>1, <1>6 DEF Referred
<1>9. Guarded'
  BY <1>1, <1>6 DEF WsInv, Guarded
<1> QED BY <1>4, <1>5, <1>7, <1>8, <1>9 DEF WsInv

(* onclose with 4401: one refresh, or the session is given up.              *)
LEMMA AuthCloseKeeps == ASSUME WsInv, NEW s \in Sockets, AuthClose(s) PROVE WsInv'
<1> USE DEF RefreshSpent, AuthLost
<1>1. /\ sock[s] = "refused" /\ ws' = Null /\ authTimer' = FALSE /\ heartbeat' = FALSE
      /\ UNCHANGED <<authed, retry, lostRetries, lostAuths, world, overlap, used>>
  BY DEF AuthClose
<1>2. /\ sock' \in [Sockets -> SocketState] /\ sock'[s] = "free"
      /\ \A u \in Sockets : u # s => sock'[u] = sock[u]
  BY Moves DEF WsInv, AuthClose
<1>3. ~overlap => refreshing = 0 /\ \A u \in Sockets : sock'[u] = "free"
  BY <1>1, <1>2 DEF WsInv, TypeOK, OneAtATime
<1>4. CASE ~wantOpen /\ UNCHANGED <<wantOpen, state, lost, didRefresh, refreshing>>
  <2>1. TypeOK'
    BY <1>1, <1>2, <1>4 DEF WsInv, TypeOK
  <2>2. OpenDelivers'
    BY <1>4 DEF OpenDelivers
  <2>3. OneAtATime' /\ Referred'
    BY <1>1, <1>3, <1>4 DEF WsInv, TypeOK, OneAtATime, Referred
  <2>4. Guarded'
    BY <1>1, <1>3, <1>4 DEF WsInv, Guarded
  <2> QED BY <2>1, <2>2, <2>3, <2>4 DEF WsInv
<1>5. CASE didRefresh /\ AuthLost /\ UNCHANGED <<didRefresh, refreshing>>
  <2>1. lost' \in Nat /\ wantOpen' = FALSE /\ state' = "closed"
        /\ UNCHANGED <<didRefresh, refreshing>>
    BY <1>5 DEF WsInv, TypeOK
  <2>2. TypeOK'
    BY <1>1, <1>2, <2>1 DEF WsInv, TypeOK
  <2>3. OpenDelivers'
    BY <2>1 DEF OpenDelivers
  <2>4. OneAtATime' /\ Referred'
    BY <1>1, <1>3, <2>1 DEF WsInv, TypeOK, OneAtATime, Referred
  <2>5. ~overlap /\ ~aged => revoked
    BY <1>1, <1>5 DEF WsInv, Guarded
  <2>6. Guarded'
    BY <1>1, <1>3, <2>1, <2>5 DEF Guarded
  <2> QED BY <2>2, <2>3, <2>4, <2>6 DEF WsInv
<1>6. CASE /\ didRefresh' = TRUE /\ refreshing' = refreshing + 1
           /\ UNCHANGED <<wantOpen, state, lost>>
  <2>1. refreshing' \in Nat /\ refreshing' > 0
    BY <1>6 DEF WsInv, TypeOK
  <2>2. TypeOK'
    BY <1>1, <1>2, <1>6, <2>1 DEF WsInv, TypeOK
  <2>3. OpenDelivers'
    BY <2>1 DEF OpenDelivers
  <2>4. OneAtATime' /\ Referred'
    BY <1>1, <1>3, <1>6 DEF OneAtATime, Referred
  <2>5. Guarded'
    BY <1>1, <1>3, <1>6, <2>1 DEF WsInv, Guarded
  <2> QED BY <2>2, <2>3, <2>4, <2>5 DEF WsInv
<1> QED BY <1>4, <1>5, <1>6 DEF AuthClose

(* refresh() resolves false: the server has revoked the session.            *)
LEMMA RefreshRejectedKeeps == ASSUME WsInv, RefreshRejected PROVE WsInv'
<1>1. /\ refreshing > 0 /\ refreshing' = refreshing - 1 /\ revoked
      /\ wantOpen' = FALSE /\ state' = "closed" /\ lost' = lost + 1
      /\ UNCHANGED <<sock, ws, authed, didRefresh, timers, world, overlap, used>>
  BY DEF RefreshRejected, AuthLost
<1>2. refreshing' \in Nat /\ lost' \in Nat
  BY <1>1 DEF WsInv, TypeOK
<1>3. TypeOK'
  BY <1>1, <1>2 DEF WsInv, TypeOK
<1>4. OpenDelivers'
  BY <1>1 DEF OpenDelivers
<1>5. OneAtATime' /\ Referred'
  BY <1>1, <1>2 DEF WsInv, TypeOK, OneAtATime, Referred
<1>6. Guarded'
  BY <1>1 DEF Guarded
<1> QED BY <1>3, <1>4, <1>5, <1>6 DEF WsInv

(* refresh() rejects: the one refresh of the cycle is not spent.            *)
LEMMA RefreshFailsKeeps == ASSUME WsInv, RefreshFails PROVE WsInv'
<1>1. /\ refreshing > 0 /\ refreshing' = refreshing - 1 /\ didRefresh' = FALSE
      /\ heartbeat' = (heartbeat /\ ~wantOpen)
      /\ UNCHANGED <<sock, ws, wantOpen, authed, authTimer, lostAuths, world, overlap, lost>>
  BY DEF RefreshFails, GuardAfterFailure
<1>2. refreshing' \in Nat /\ refreshing \in Nat /\ used' \in [Events -> Nat]
  BY <1>1, Counted DEF WsInv, TypeOK, RefreshFails
<1>3. /\ retry' \in BOOLEAN /\ lostRetries' \in Nat /\ state' \in States
      /\ wantOpen => state' = "connecting"
  BY Scheduled DEF WsInv, RefreshFails
<1>4. TypeOK'
  BY <1>1, <1>2, <1>3 DEF WsInv, TypeOK
<1>5. OpenDelivers'
  BY <1>1, <1>3 DEF OpenDelivers
<1>6. ~overlap => \A u \in Sockets : sock[u] = "free"
  BY <1>1, <1>2 DEF WsInv, OneAtATime
<1>7. OneAtATime' /\ Referred'
  BY <1>1, <1>2, <1>6 DEF WsInv, OneAtATime, Referred
<1>8. Guarded'
  BY <1>1 DEF WsInv, Guarded
<1> QED BY <1>4, <1>5, <1>7, <1>8 DEF WsInv

(* The network closes a socket.                                             *)
LEMMA DropKeeps == ASSUME WsInv, NEW s \in Sockets, Drop(s) PROVE WsInv'
<1>1. /\ sock[s] \notin Closing \cup {"free"}
      /\ UNCHANGED <<fields, timers, refreshing, world, overlap, lost>>
  BY DEF Drop
<1>2. /\ sock' \in [Sockets -> SocketState] /\ sock'[s] = "dropped"
      /\ \A u \in Sockets : u # s => sock'[u] = sock[u]
  BY Moves DEF WsInv, Drop
<1>3. used' \in [Events -> Nat]
  BY Counted DEF WsInv, Drop
<1>4. TypeOK'
  BY <1>1, <1>2, <1>3 DEF WsInv, TypeOK
<1>5. OpenDelivers'
  BY <1>1, <1>2 DEF WsInv, OpenDelivers
<1>6. OneAtATime' /\ Referred'
  BY <1>1, <1>2 DEF WsInv, OneAtATime, Referred
<1>7. Guarded'
  BY <1>1, <1>2 DEF WsInv, Guarded
<1> QED BY <1>4, <1>5, <1>6, <1>7 DEF WsInv

(* The server closes a socket: for a stale token, or a revoked session.     *)
LEMMA RefuseKeeps == ASSUME WsInv, NEW s \in Sockets, Refuse(s) PROVE WsInv'
<1>1. /\ sock[s] \in {"open", "stale"} \/ (revoked /\ sock[s] \in {"fresh", "live"})
      /\ UNCHANGED <<fields, timers, refreshing, world, overlap, lost, used>>
  BY DEF Refuse
<1>2. /\ sock' \in [Sockets -> SocketState] /\ sock'[s] = "refused"
      /\ \A u \in Sockets : u # s => sock'[u] = sock[u]
  BY Moves DEF WsInv, Refuse
<1>3. TypeOK'
  BY <1>1, <1>2 DEF WsInv, TypeOK
<1>4. OpenDelivers'
  BY <1>1, <1>2 DEF WsInv, OpenDelivers
<1>5. OneAtATime' /\ Referred'
  BY <1>1, <1>2 DEF WsInv, OneAtATime, Referred
<1>6. ~overlap => sock[s] = "stale" \/ revoked
  BY <1>1 DEF WsInv, Referred
<1>7. Guarded'
  BY <1>1, <1>2, <1>6 DEF WsInv, Guarded
<1> QED BY <1>3, <1>4, <1>5, <1>7 DEF WsInv

(* The access token expires.                                                *)
LEMMA ExpireKeeps == ASSUME WsInv, Expire PROVE WsInv'
<1>1. used' \in [Events -> Nat]
  BY Counted DEF WsInv, Expire
<1>2. TypeOK'
  BY <1>1 DEF WsInv, TypeOK, Expire
<1>3. OpenDelivers' /\ OneAtATime' /\ Referred'
  BY DEF WsInv, Expire, OpenDelivers, OneAtATime, Referred
<1>4. Guarded'
  BY DEF WsInv, Expire, Guarded
<1> QED BY <1>2, <1>3, <1>4 DEF WsInv

(* The server revokes the session.                                          *)
LEMMA RevokeKeeps == ASSUME WsInv, Revoke PROVE WsInv'
<1>1. used' \in [Events -> Nat]
  BY Counted DEF WsInv, Revoke
<1>2. TypeOK'
  BY <1>1 DEF WsInv, TypeOK, Revoke
<1>3. OpenDelivers' /\ OneAtATime' /\ Referred'
  BY DEF WsInv, Revoke, OpenDelivers, OneAtATime, Referred
<1>4. Guarded'
  BY DEF WsInv, Revoke, Guarded
<1> QED BY <1>2, <1>3, <1>4 DEF WsInv

-----------------------------------------------------------------------------
(* The theorems.                                                           *)

(* Nothing exists before start().                                           *)
LEMMA InitHolds == Init => WsInv
<1> SUFFICES ASSUME Init PROVE WsInv
  OBVIOUS
<1>1. sock \in [Sockets -> SocketState] /\ used \in [Events -> Nat]
  BY DEF Init
<1>2. TypeOK
  BY <1>1 DEF Init, TypeOK
<1>3. OpenDelivers /\ OneAtATime /\ Referred /\ Guarded
  BY DEF Init, OpenDelivers, OneAtATime, Referred, Guarded
<1> QED BY <1>2, <1>3 DEF WsInv

(* A step in which nothing happens.                                         *)
LEMMA StutterKeeps == ASSUME WsInv, UNCHANGED vars PROVE WsInv'
BY DEF vars, WsInv, TypeOK, OpenDelivers, OneAtATime, Referred, Guarded

(* Every step keeps the invariant.                                          *)
LEMMA StepKeeps == WsInv /\ [Next]_vars => WsInv'
<1> SUFFICES ASSUME WsInv, [Next]_vars PROVE WsInv'
  OBVIOUS
<1>1. CASE Start \/ Stop \/ Retry \/ AuthInTime \/ AuthTimeout
  BY <1>1, StartKeeps, StopKeeps, RetryKeeps, AuthInTimeKeeps, AuthTimeoutKeeps
<1>2. CASE RefreshEnds \/ RefreshFails \/ Expire \/ Revoke
  BY <1>2, RefreshedKeeps, RefreshRejectedKeeps, RefreshFailsKeeps, ExpireKeeps, RevokeKeeps
     DEF RefreshEnds
<1>3. CASE \E s \in Sockets : SocketStep(s) \/ Drop(s)
  BY <1>3, OnopenKeeps, HelloKeeps, OncloseKeeps, AuthCloseKeeps, RefuseKeeps, DropKeeps
     DEF SocketStep
<1>4. CASE UNCHANGED vars
  BY <1>4, StutterKeeps
<1> QED BY <1>1, <1>2, <1>3, <1>4 DEF Next

(* WsInv holds at every moment.                                             *)
THEOREM WsInvariant == Spec => []WsInv
BY InitHolds, StepKeeps, PTL DEF Spec

(* The variables keep their types.                                          *)
THEOREM TypeCorrect == Spec => []TypeOK
<1>1. WsInv => TypeOK
  BY DEF WsInv
<1> QED BY <1>1, WsInvariant, PTL

(* A socket shown as open delivers, or a close event or a refresh will say  *)
(* that it does not.                                                        *)
THEOREM ShownOpenDelivers == Spec => []OpenDelivers
<1>1. WsInv => OpenDelivers
  BY DEF WsInv
<1> QED BY <1>1, WsInvariant, PTL

(* Without an overlap the client sends on its live socket, and gives the    *)
(* session up only for a revocation or a refreshed token that has expired.  *)
THEOREM SingleSocket == Spec => []SingleSocketSound
<1>1. WsInv => SingleSocketSound
  BY DEF WsInv, Referred, Guarded, SingleSocketSound
<1> QED BY <1>1, WsInvariant, PTL
=============================================================================
