------------------------------ MODULE WsClient ------------------------------
(***************************************************************************)
(* The reconnecting socket of the client core (clients/core/src/ws.ts).    *)
(*                                                                         *)
(* A WebSocket object outlives the client's reference to it (ws): its      *)
(* onclose runs when the closing handshake or the operating system says    *)
(* so.  setTimeout handles are fields that a second setTimeout overwrites, *)
(* after which the first timer runs all the same: lostRetries, lostAuths.  *)
(*                                                                         *)
(* The server is external.  It answers the auth frame with hello, or       *)
(* closes with 4401 when the token is stale or the session revoked, or     *)
(* when no auth frame came inside its window (ws.ts:5, 37, 98).  refresh   *)
(* is ApiClient.refreshTokens.  Backoff delays, frames other than auth and *)
(* hello, and the resume cursor (see DeliverySync) are left out.           *)
(***************************************************************************)
EXTENDS Naturals

CONSTANTS
    Sockets,    \* socket objects that may exist at once (a bound)
    Limit       \* how often each environment event may happen (a bound)

Events == {"slow", "drop", "refuse", "expire", "revoke", "offline", "restart"}

ASSUME LimitAssumption == Limit \in [Events -> Nat]

Null == "none"
ASSUME NullAssumption == Null \notin Sockets

VARIABLES
    sock,        \* every socket object, seen from the network
    ws,          \* this.ws
    wantOpen,    \* this.wantOpen
    authed,      \* this.authed
    state,       \* this.state
    didRefresh,  \* this.didRefreshThisCycle
    heartbeat,   \* this.heartbeatTimer runs
    retry,       \* this.reconnectTimer is pending
    lostRetries, \* pending reconnect timers whose handle was overwritten
    authTimer,   \* this.authTimer is pending
    lostAuths,   \* pending auth timers whose handle was overwritten
    refreshing,  \* handleAuthClose() calls that await refresh()
    token,       \* tokens.access, as the server sees it
    revoked,     \* server: the session is revoked
    aged,        \* history: the token expired after a refresh, before the next hello
    overlap,     \* history: open() ran beside a socket object or a refresh
    lost,        \* onAuthLost() calls
    used         \* how often each bounded event has happened

fields == <<ws, wantOpen, authed, state, didRefresh>>
timers == <<heartbeat, retry, lostRetries, authTimer, lostAuths>>
world  == <<token, revoked, aged>>
vars   == <<sock, fields, timers, refreshing, world, overlap, lost, used>>

\* "connecting"; "open": no auth frame sent yet; "stale" and "fresh": sent with
\* such a token; "live": hello received; "closing": close() was called;
\* "dropped" and "refused": the network, or the server with 4401, has closed it.
\* In the last three the close event has not been delivered.
SocketState == {"free", "connecting", "open", "stale", "fresh", "live",
                "closing", "dropped", "refused"}
Closing == {"closing", "dropped", "refused"}
\* "connecting" stands for "reconnecting" too.
States  == {"idle", "connecting", "open", "closed"}

Happens(e) == used[e] < Limit[e] /\ used' = [used EXCEPT ![e] = @ + 1]

-----------------------------------------------------------------------------
(* Private methods.  Each says what it does to the variables it names; r   *)
(* and l are retry and lostRetries once the timer that called it has run.  *)

Alive == {s \in Sockets : sock[s] # "free"}

\* scheduleReconnect(), while wantOpen: the old handle is overwritten.
Schedule(r, l) == retry' = TRUE /\ lostRetries' = IF r THEN l + 1 ELSE l

ReconnectsSilently ==                                                \* faulty
    IF wantOpen THEN Schedule(retry, lostRetries) /\ UNCHANGED state
                ELSE UNCHANGED <<retry, lostRetries, state>>
Reconnects ==
    IF wantOpen THEN Schedule(retry, lostRetries) /\ state' = "connecting"
                ELSE UNCHANGED <<retry, lostRetries, state>>

\* open(), while wantOpen: a new socket object, unless the constructor throws.
\* refreshing' counts the refreshes that are still under way.
OpenSocket(r, l) ==
    /\ authed' = FALSE /\ state' = "connecting"
    /\ overlap' = (overlap \/ Alive # {} \/ refreshing' > 0)
    /\ \/ \E s \in Sockets \ Alive :
             /\ sock' = [sock EXCEPT ![s] = "connecting"] /\ ws' = s
             /\ retry' = r /\ lostRetries' = l
             /\ UNCHANGED <<heartbeat, used>>
       \/ /\ Happens("refuse")
          /\ Schedule(r, l) /\ heartbeat' = FALSE
          /\ UNCHANGED <<sock, ws>>

\* fatalAuthLost().
AuthLost == wantOpen' = FALSE /\ state' = "closed" /\ lost' = lost + 1

\* this.ws.close(), and the reference is dropped.
CloseSocket ==
    /\ sock' = IF ws # Null /\ sock[ws] \notin Closing
               THEN [sock EXCEPT ![ws] = "closing"] ELSE sock
    /\ ws' = Null

-----------------------------------------------------------------------------
(* Calls of the SyncEngine: start() and stop(), at every lock and unlock.  *)

Start ==
    /\ ~wantOpen /\ lost = 0
    /\ wantOpen' = TRUE /\ didRefresh' = FALSE
    /\ UNCHANGED <<authTimer, lostAuths, refreshing, world, lost>>
    /\ OpenSocket(retry, lostRetries)

\* close().
Stop ==
    /\ wantOpen /\ Happens("restart")
    /\ wantOpen' = FALSE /\ state' = "closed"
    /\ CloseSocket
    /\ retry' = FALSE /\ authTimer' = FALSE /\ heartbeat' = FALSE
    /\ UNCHANGED <<authed, didRefresh, lostRetries, lostAuths, refreshing, world, overlap, lost>>

-----------------------------------------------------------------------------
(* Timers.                                                                 *)

Reopen(r, l) ==
    IF wantOpen
    THEN OpenSocket(r, l)
    ELSE /\ retry' = r /\ lostRetries' = l
         /\ UNCHANGED <<sock, ws, authed, state, heartbeat, overlap, used>>

Retry ==
    /\ UNCHANGED <<wantOpen, didRefresh, authTimer, lostAuths, refreshing, world, lost>>
    /\ \/ retry /\ Reopen(FALSE, lostRetries)
       \/ lostRetries > 0 /\ Reopen(retry, lostRetries - 1)

AuthTimerRuns ==
    \/ authTimer /\ authTimer' = FALSE /\ UNCHANGED lostAuths
    \/ lostAuths > 0 /\ lostAuths' = lostAuths - 1 /\ UNCHANGED authTimer

\* The auth timer finds the socket authenticated ...
AuthInTime ==
    /\ AuthTimerRuns /\ authed
    /\ UNCHANGED <<sock, fields, heartbeat, retry, lostRetries, refreshing, world,
                   overlap, lost, used>>

\* ... or the hello has not come: dropAndReconnect().
AuthTimeout ==
    /\ AuthTimerRuns /\ ~authed
    /\ Happens("slow")
    /\ CloseSocket
    /\ Reconnects /\ heartbeat' = (heartbeat /\ ~wantOpen)
    /\ UNCHANGED <<wantOpen, authed, didRefresh, refreshing, world, overlap, lost>>

-----------------------------------------------------------------------------
(* Events of a socket.                                                     *)

\* The token of the auth frame.
NoToken == ""                                                        \* faulty
AuthToken == token

\* onopen: the auth frame goes out on this.ws, and the auth timer is set.
Onopen(s) ==
    /\ sock[s] = "connecting"
    /\ LET opened == [sock EXCEPT ![s] = "open"]
       IN  sock' = IF ws # Null /\ opened[ws] = "open" THEN [opened EXCEPT ![ws] = AuthToken] ELSE opened
    /\ authTimer' = TRUE
    /\ lostAuths' = IF authTimer THEN lostAuths + 1 ELSE lostAuths
    /\ UNCHANGED <<fields, heartbeat, retry, lostRetries, refreshing, world, overlap, lost, used>>

\* onmessage: hello.
Hello(s) ==
    /\ sock[s] = "fresh" /\ ~revoked
    /\ sock' = [sock EXCEPT ![s] = "live"]
    /\ authed' = TRUE /\ didRefresh' = FALSE /\ state' = "open"
    /\ authTimer' = FALSE /\ heartbeat' = TRUE
    /\ UNCHANGED <<ws, wantOpen, retry, lostRetries, lostAuths, refreshing, world,
                   overlap, lost, used>>

\* onclose, unless the server closed with 4401.
Onclose(s) ==
    /\ sock[s] \in {"closing", "dropped"}
    /\ sock' = [sock EXCEPT ![s] = "free"]
    /\ ws' = Null
    /\ authTimer' = FALSE /\ heartbeat' = FALSE
    /\ Reconnects
    /\ UNCHANGED <<wantOpen, authed, didRefresh, lostAuths, refreshing, world, overlap, lost, used>>

\* onclose with 4401: handleAuthClose() up to its await.
RefreshSpentNever == FALSE                                           \* faulty
RefreshSpent == didRefresh
AuthClose(s) ==
    /\ sock[s] = "refused"
    /\ sock' = [sock EXCEPT ![s] = "free"]
    /\ ws' = Null
    /\ authTimer' = FALSE /\ heartbeat' = FALSE
    /\ IF ~wantOpen THEN UNCHANGED <<wantOpen, state, lost, didRefresh, refreshing>>
       ELSE IF RefreshSpent
       THEN AuthLost /\ UNCHANGED <<didRefresh, refreshing>>
       ELSE /\ didRefresh' = TRUE
            /\ refreshing' = refreshing + 1
            /\ UNCHANGED <<wantOpen, state, lost>>
    /\ UNCHANGED <<authed, retry, lostRetries, lostAuths, world, overlap, used>>

\* refresh() resolves true: the tokens are fresh; open() if still wanted.
Refreshed ==
    /\ refreshing > 0 /\ refreshing' = refreshing - 1
    /\ ~revoked
    /\ token' = "fresh"
    /\ Reopen(retry, lostRetries)
    /\ UNCHANGED <<wantOpen, didRefresh, authTimer, lostAuths, revoked, aged, lost>>

\* refresh() resolves false: the verdict of the server.
RefreshRejected ==
    /\ refreshing > 0 /\ refreshing' = refreshing - 1
    /\ revoked
    /\ AuthLost
    /\ UNCHANGED <<sock, ws, authed, didRefresh, timers, world, overlap, used>>

\* refresh() rejects: offline, or a failing server.
GuardKept == didRefresh                                              \* faulty
GuardAfterFailure == FALSE
RefreshFails ==
    /\ refreshing > 0 /\ refreshing' = refreshing - 1
    /\ Happens("offline")
    /\ didRefresh' = GuardAfterFailure
    /\ Reconnects /\ heartbeat' = (heartbeat /\ ~wantOpen)
    /\ UNCHANGED <<sock, ws, wantOpen, authed, authTimer, lostAuths, world, overlap, lost>>

-----------------------------------------------------------------------------
(* The network and the server.                                             *)

Drop(s) ==
    /\ sock[s] \notin Closing \cup {"free"}
    /\ Happens("drop")
    /\ sock' = [sock EXCEPT ![s] = "dropped"]
    /\ UNCHANGED <<fields, timers, refreshing, world, overlap, lost>>

\* The server closes a socket without an auth frame, or with a bad one.
Refuse(s) ==
    /\ sock[s] \in {"open", "stale"} \/ (revoked /\ sock[s] \in {"fresh", "live"})
    /\ sock' = [sock EXCEPT ![s] = "refused"]
    /\ UNCHANGED <<fields, timers, refreshing, world, overlap, lost, used>>

Expire ==
    /\ token = "fresh" /\ Happens("expire")
    /\ token' = "stale"
    /\ aged' = (aged \/ (didRefresh /\ refreshing = 0))
    /\ UNCHANGED <<sock, fields, timers, refreshing, revoked, overlap, lost>>

Revoke ==
    /\ ~revoked /\ Happens("revoke")
    /\ revoked' = TRUE
    /\ UNCHANGED <<sock, fields, timers, refreshing, token, aged, overlap, lost>>

-----------------------------------------------------------------------------
Init ==
    /\ sock = [s \in Sockets |-> "free"] /\ ws = Null
    /\ wantOpen = FALSE /\ authed = FALSE /\ state = "idle" /\ didRefresh = FALSE
    /\ heartbeat = FALSE /\ retry = FALSE /\ lostRetries = 0
    /\ authTimer = FALSE /\ lostAuths = 0 /\ refreshing = 0
    /\ token \in {"stale", "fresh"} /\ revoked = FALSE
    /\ aged = FALSE /\ overlap = FALSE /\ lost = 0 /\ used = [e \in Events |-> 0]

RefreshEnds == Refreshed \/ RefreshRejected
SocketStep(s) == Onopen(s) \/ Hello(s) \/ Onclose(s) \/ AuthClose(s) \/ Refuse(s)

Next ==
    \/ Start \/ Stop \/ Retry \/ AuthInTime \/ AuthTimeout
    \/ RefreshEnds \/ RefreshFails \/ Expire \/ Revoke
    \/ \E s \in Sockets : SocketStep(s) \/ Drop(s)

Spec == Init /\ [][Next]_vars

\* Timers fire, close events are delivered, requests end, and the server
\* answers or gives up a socket.  Failures are never forced, nor is Start.
FairSpec ==
    /\ Spec
    /\ WF_vars(Retry) /\ WF_vars(RefreshEnds)
    /\ \A s \in Sockets : WF_vars(SocketStep(s))

-----------------------------------------------------------------------------
(* Properties.                                                             *)

TypeOK ==
    /\ sock \in [Sockets -> SocketState] /\ ws \in Sockets \cup {Null}
    /\ wantOpen \in BOOLEAN /\ authed \in BOOLEAN /\ didRefresh \in BOOLEAN
    /\ state \in States
    /\ heartbeat \in BOOLEAN /\ retry \in BOOLEAN /\ authTimer \in BOOLEAN
    /\ lostRetries \in Nat /\ lostAuths \in Nat /\ refreshing \in Nat /\ lost \in Nat
    /\ token \in {"stale", "fresh"} /\ revoked \in BOOLEAN
    /\ aged \in BOOLEAN /\ overlap \in BOOLEAN
    /\ used \in [Events -> Nat]

\* The state "open" suspends the long-poll loop (sync.ts:177-188): it is shown
\* only while some socket delivers, or its close event or a refresh will end it.
OpenDelivers ==
    wantOpen /\ state = "open" =>
        refreshing > 0 \/ \E s \in Sockets : sock[s] \in Closing \cup {"live"}

\* As long as no two sockets existed at once, a live socket is the one that
\* frames are sent on, it has a heartbeat, and the session is given up only
\* after the server revoked it (ws.ts:10-15), unless a refreshed token expired
\* before the client got through to a hello with it.
SingleSocketSound ==
    ~overlap =>
        /\ \A s \in Sockets : sock[s] = "live" => ws = s /\ authed /\ heartbeat
        /\ lost > 0 => revoked \/ aged

\* A client that should be connected gets a live socket, or stops: no order of
\* late close events, stops, timeouts and refresh outcomes loses the last thing
\* that would go on (ws.ts:198-215, 303-361).
EventuallyConnected ==
    wantOpen ~> (~wantOpen \/ \E s \in Sockets : sock[s] = "live")

-----------------------------------------------------------------------------
(* What makes the properties inductive.                                    *)

\* Without an overlap there is one socket object or one refresh, or neither.
OneAtATime ==
    ~overlap =>
        /\ \A s, u \in Alive : s = u
        /\ refreshing <= 1 /\ (refreshing = 1 => Alive = {})

\* The client refers to an object that exists.  Without an overlap a socket that
\* nobody has closed is that one, and its auth frame goes out as soon as it opens.
Referred ==
    /\ ws # Null => ws \in Alive
    /\ ~overlap => \A s \in Alive :
          /\ sock[s] \notin Closing => ws = s
          /\ sock[s] # "open"
          /\ sock[s] = "live" => authed /\ heartbeat

\* After a refresh the token is fresh until the hello, unless it has aged; a
\* socket that is refused all the same is refused for a revocation.
Guarded ==
    ~overlap /\ ~aged =>
        /\ didRefresh /\ refreshing = 0 => token = "fresh" \/ revoked
        /\ didRefresh => \A s \in Alive : sock[s] \in {"stale", "refused"} => revoked
        /\ lost > 0 => revoked

WsInv == TypeOK /\ OpenDelivers /\ OneAtATime /\ Referred /\ Guarded
=============================================================================
