----------------------------- MODULE ApiClient ------------------------------
(***************************************************************************)
(* Requests and token rotation of the client core (clients/core/src/api.ts) *)
(* in the tabs of one browser, with the coordinator of the web shell       *)
(* (clients/web/src/refresh_lock.ts): the tabs share the stored session    *)
(* record and, where the browser has them, Web Locks.                      *)
(*                                                                         *)
(* A refresh token is a number; a proposed successor is the next unused    *)
(* one.  The server is external.  It rotates on the current token, repeats *)
(* its answer to the pair it has already committed, calls another          *)
(* successor of the previous token superseded, and takes anything older    *)
(* for theft (refresh_lock.ts:18-19, api.ts:499, main.ts:1189).            *)
(*                                                                         *)
(* Signing in and out are in Session; timeouts count as network failures.  *)
(***************************************************************************)
EXTENDS Naturals

CONSTANTS
    Tabs,
    MaxToken,   \* refresh tokens that are ever proposed (a bound)
    MaxRetries, \* this.maxRetries
    MaxEvents   \* requests, expiries, losses, crashes, revocations (a bound)

Kinds  == {"get", "write"}      \* idempotent, or not

ASSUME BoundAssumption == MaxToken \in Nat \ {0} /\ MaxRetries \in Nat /\ MaxEvents \in Nat

Nobody == "nobody"
ASSUME NobodyAssumption == Nobody \notin Tabs

VARIABLES
    locks,      \* the browser has navigator.locks
    holder,     \* the tab that holds the refresh lock
    disk,       \* the stored credential: refresh and pendingRefresh
    server,     \* the refresh tokens the server knows, and whether they are void
    access,     \* tokens.access of each tab, as the server sees it
    mem,        \* tokens.refresh and tokens.refreshNext of each tab
    flight,     \* this.refreshInFlight of each tab
    req,        \* a request of each tab
    executed,   \* history: how often the server executed that request
    lost,       \* history: tabs that called onAuthLost()
    left        \* how many more events the environment may produce

vars == <<locks, holder, disk, server, access, mem, flight, req, executed, lost, left>>

\* 0 stands for no token.
Credential == [refresh : 0..MaxToken, next : 0..MaxToken]
Nothing == [refresh |-> 0, next |-> 0]

Flight == [pc : {"idle", "queued", "sent", "done", "superseded", "refused", "true", "false", "failed"},
           pair : Credential, again : BOOLEAN]
Req == [pc : {"idle", "sent", "ok", "expired", "denied", "refreshing"}, kind : Kinds,
        attempt : 0..MaxRetries, refreshed : BOOLEAN, replay : BOOLEAN]
NoFlight == [pc |-> "idle", pair |-> Nothing, again |-> TRUE]
NoReq == [pc |-> "idle", kind |-> "get", attempt |-> 0, refreshed |-> FALSE, replay |-> TRUE]

Event == left > 0 /\ left' = left - 1

FlightGoes(t, pc) == flight' = [flight EXCEPT ![t].pc = pc]
ReqGoes(t, pc) == req' = [req EXCEPT ![t].pc = pc]

-----------------------------------------------------------------------------
(* Refresh: ApiClient.refreshTokens() inside browserRefreshCoordinator().  *)

\* The journaled successor, or one that nobody has seen (createRefreshSuccessor).
Unjournaled(c) == server.last + 1                                    \* faulty
Successor(c) == IF c.next # 0 THEN c.next ELSE server.last + 1

\* rotate() with the stored credential, or else the one in memory: the pair is
\* journaled before it is sent.
Rotate(t, again) ==
    LET base == IF disk.refresh # 0 THEN disk ELSE mem[t]
        pair == [base EXCEPT !.next = Successor(base)]
    IN  /\ base.refresh # 0 /\ pair.next <= MaxToken
        /\ disk' = IF disk.refresh # 0 THEN pair ELSE disk
        /\ mem' = [mem EXCEPT ![t] = pair]
        /\ flight' = [flight EXCEPT ![t] = [pc |-> "sent", pair |-> pair, again |-> again]]
        /\ server' = [server EXCEPT !.last = IF pair.next > @ THEN pair.next ELSE @]

LockFree == ~locks \/ holder = Nobody
ReleaseNever(t) == UNCHANGED holder                                  \* faulty
Release(t) == holder' = IF holder = t THEN Nobody ELSE holder

RotateStart(t) ==
    /\ flight[t].pc = "queued" /\ LockFree
    /\ \/ /\ Rotate(t, TRUE)
          /\ holder' = IF locks THEN t ELSE holder
       \/ /\ disk.refresh = 0 /\ mem[t].refresh = 0
          /\ FlightGoes(t, "false")
          /\ UNCHANGED <<disk, mem, server, holder>>
    /\ UNCHANGED <<locks, access, req, executed, lost, left>>

\* The server handles the pair of a refresh request.
ServerRotates(t) ==
    LET f == flight[t].pair
        void == server.revoked \/ server.theft
        known == {server.cur, server.prev}
    IN
    /\ flight[t].pc = "sent"
    /\ \/ /\ ~void /\ f.refresh = server.cur
          /\ server' = [server EXCEPT !.cur = f.next, !.prev = f.refresh]
          /\ FlightGoes(t, "done")
       \/ /\ ~void /\ f.refresh = server.prev
          /\ FlightGoes(t, IF f.next = server.cur THEN "done" ELSE "superseded")
          /\ UNCHANGED server
       \/ /\ void \/ f.refresh \notin known
          /\ server' = [server EXCEPT !.theft = @ \/ f.refresh \notin known]
          /\ FlightGoes(t, "refused")
    /\ UNCHANGED <<locks, holder, disk, access, mem, req, executed, lost, left>>

\* The rotation is acknowledged: the stored record follows, unless another
\* context has moved it on or cleared it.
RotateDone(t) ==
    LET pair == flight[t].pair
        acked == [refresh |-> pair.next, next |-> 0]
        moved == disk.refresh \notin {0, pair.refresh, pair.next}
    IN
    /\ flight[t].pc = "done"
    /\ disk' = IF disk.refresh \in {pair.refresh, pair.next} THEN acked ELSE disk
    /\ mem' = [mem EXCEPT ![t] = IF moved THEN disk ELSE acked]
    /\ access' = [access EXCEPT ![t] = "ok"]
    /\ FlightGoes(t, "true") /\ Release(t)
    /\ UNCHANGED <<locks, server, req, executed, lost, left>>

\* REFRESH_SUPERSEDED: once more with the record that another context stored.
RotateSuperseded(t) ==
    LET moved == disk.refresh \notin {0, flight[t].pair.refresh} IN
    /\ flight[t].pc = "superseded"
    /\ \/ /\ flight[t].again /\ moved
          /\ Rotate(t, FALSE)
          /\ UNCHANGED holder
       \/ /\ ~(flight[t].again /\ moved)
          /\ FlightGoes(t, "failed") /\ Release(t)
          /\ UNCHANGED <<disk, mem, server>>
    /\ UNCHANGED <<locks, access, req, executed, lost, left>>

\* The verdict of the server: the tokens in memory are erased.
RotateRefused(t) ==
    /\ flight[t].pc = "refused"
    /\ mem' = [mem EXCEPT ![t] = Nothing]
    /\ access' = [access EXCEPT ![t] = "expired"]
    /\ FlightGoes(t, "false") /\ Release(t)
    /\ UNCHANGED <<locks, disk, server, req, executed, lost, left>>

\* The request or its answer is lost: the journal stays.
FailureIsVerdict == "false"                                          \* faulty
FailureIs == "failed"
RotateFails(t) ==
    /\ flight[t].pc \in {"sent", "done", "superseded", "refused"}
    /\ Event
    /\ FlightGoes(t, FailureIs) /\ Release(t)
    /\ UNCHANGED <<locks, disk, server, access, mem, req, executed, lost>>

\* The socket's handleAuthClose() shares the refresh (sync.ts:94).
SocketRefresh(t) ==
    /\ flight[t].pc = "idle" /\ access[t] = "expired" /\ t \notin lost
    /\ FlightGoes(t, "queued")
    /\ UNCHANGED <<locks, holder, disk, server, access, mem, req, executed, lost, left>>

-----------------------------------------------------------------------------
(* ApiClient.request().                                                    *)

\* isIdempotent(): only such a request is repeated after a failure.
IdempotentAny(t) == TRUE                                             \* faulty
Idempotent(t) == req[t].kind = "get"
RetryOneMore(t) == req[t].attempt <= MaxRetries                      \* faulty
RetryLeft(t) == req[t].attempt < MaxRetries
Again(r) == [r EXCEPT !.pc = "sent", !.attempt = @ + 1]

Request(t, kind) ==
    /\ req[t].pc = "idle" /\ t \notin lost
    /\ Event
    /\ req' = [req EXCEPT ![t] = [NoReq EXCEPT !.pc = "sent", !.kind = kind]]
    /\ executed' = [executed EXCEPT ![t] = 0]
    /\ UNCHANGED <<locks, holder, disk, server, access, mem, flight, lost>>

\* The server executes the request, unless it does not accept the access token
\* or the handler denies it for a reason of its own (a wrong password).
ServerAnswers(t) ==
    /\ req[t].pc = "sent"
    /\ \/ /\ server.revoked \/ server.theft
          /\ ReqGoes(t, "denied") /\ UNCHANGED <<executed, left>>
       \/ /\ access[t] = "expired"
          /\ ReqGoes(t, "expired") /\ UNCHANGED <<executed, left>>
       \/ /\ access[t] = "ok" /\ Event
          /\ ReqGoes(t, "denied") /\ UNCHANGED executed
       \/ /\ access[t] = "ok"
          /\ ReqGoes(t, "ok")
          /\ executed' = [executed EXCEPT ![t] = @ + 1] /\ UNCHANGED left
    /\ UNCHANGED <<locks, holder, disk, server, access, mem, flight, lost>>

\* The request, or its answer, is lost.
Retried(t) ==
    req' = [req EXCEPT ![t] = IF Idempotent(t) /\ RetryLeft(t) THEN Again(@) ELSE NoReq]
RequestFails(t) ==
    /\ req[t].pc \in {"sent", "ok", "expired", "denied"}
    /\ Event
    /\ Retried(t)
    /\ UNCHANGED <<locks, holder, disk, server, access, mem, flight, executed, lost>>

Answered(t) ==
    /\ req[t].pc = "ok" \/ (req[t].pc \in {"expired", "denied"} /\ req[t].refreshed)
    /\ req' = [req EXCEPT ![t] = NoReq]
    /\ UNCHANGED <<locks, holder, disk, server, access, mem, flight, executed, lost, left>>

\* shouldProbeSession: join the refresh in flight, or start one.
Probe(t) ==
    /\ req[t].pc \in {"expired", "denied"} /\ ~req[t].refreshed
    /\ req' = [req EXCEPT ![t] = [@ EXCEPT !.pc = "refreshing", !.refreshed = TRUE,
                                   !.replay = req[t].pc = "expired" \/ Idempotent(t)]]
    /\ flight' = [flight EXCEPT ![t].pc = IF @ = "idle" THEN "queued" ELSE @]
    /\ UNCHANGED <<locks, holder, disk, server, access, mem, executed, lost, left>>

\* The shared refresh settles: every caller goes on.  On a verdict onAuthLost()
\* clears the stored session (session.wipeLocalData).
RefreshSettles(t) ==
    LET waits == req[t].pc = "refreshing"
        result == flight[t].pc
    IN
    /\ result \in {"true", "false", "failed"}
    /\ flight' = [flight EXCEPT ![t] = NoFlight]
    /\ IF result = "false"
       THEN lost' = lost \cup {t} /\ disk' = Nothing /\ mem' = [mem EXCEPT ![t] = Nothing]
       ELSE UNCHANGED <<lost, disk, mem>>
    /\ IF ~waits THEN UNCHANGED req
       ELSE \/ result = "true" /\ req[t].replay /\ ReqGoes(t, "sent")
            \/ /\ result = "false" \/ (result = "true" /\ ~req[t].replay)
               /\ req' = [req EXCEPT ![t] = NoReq]
            \/ /\ result = "failed"
               /\ req' = [req EXCEPT ![t] =
                            IF Idempotent(t) /\ RetryLeft(t)
                            THEN [Again(@) EXCEPT !.refreshed = FALSE]
                            ELSE NoReq]
    /\ UNCHANGED <<locks, holder, server, access, executed, left>>

-----------------------------------------------------------------------------
(* The environment.                                                        *)

Expire(t) ==
    /\ access[t] = "ok" /\ Event
    /\ access' = [access EXCEPT ![t] = "expired"]
    /\ UNCHANGED <<locks, holder, disk, server, mem, flight, req, executed, lost>>

Revoke ==
    /\ ~server.revoked /\ Event
    /\ server' = [server EXCEPT !.revoked = TRUE]
    /\ UNCHANGED <<locks, holder, disk, access, mem, flight, req, executed, lost>>

\* The tab dies and is opened again: the browser releases its lock, and boot
\* takes the refresh token from the stored session (Session.restore).
Crash(t) ==
    /\ t \notin lost /\ Event
    /\ Release(t)
    /\ mem' = [mem EXCEPT ![t] = disk]
    /\ access' = [access EXCEPT ![t] = "expired"]
    /\ flight' = [flight EXCEPT ![t] = NoFlight]
    /\ req' = [req EXCEPT ![t] = NoReq]
    /\ UNCHANGED <<locks, disk, server, executed, lost>>

Init ==
    /\ locks \in BOOLEAN /\ holder = Nobody
    /\ disk = [refresh |-> 1, next |-> 0]
    /\ server = [cur |-> 1, prev |-> 0, last |-> 1, revoked |-> FALSE, theft |-> FALSE]
    /\ access \in [Tabs -> {"ok", "expired"}]
    /\ mem = [t \in Tabs |-> disk]
    /\ flight = [t \in Tabs |-> NoFlight] /\ req = [t \in Tabs |-> NoReq]
    /\ executed = [t \in Tabs |-> 0] /\ lost = {}
    /\ left = MaxEvents

RefreshStep(t) ==
    \/ RotateStart(t) \/ ServerRotates(t) \/ RotateDone(t) \/ RotateSuperseded(t)
    \/ RotateRefused(t) \/ RefreshSettles(t)
RequestStep(t) == ServerAnswers(t) \/ Answered(t) \/ Probe(t)

Next ==
    \/ \E t \in Tabs :
          \/ RefreshStep(t) \/ RotateFails(t) \/ SocketRefresh(t)
          \/ RequestStep(t) \/ RequestFails(t) \/ \E kind \in Kinds : Request(t, kind)
          \/ Expire(t) \/ Crash(t)
    \/ Revoke

Spec == Init /\ [][Next]_vars

\* Requests end, their callers go on, and the browser grants its lock.
FairSpec == Spec /\ \A t \in Tabs : WF_vars(RefreshStep(t)) /\ WF_vars(RequestStep(t))

-----------------------------------------------------------------------------
(* Properties.                                                             *)

TypeOK ==
    /\ locks \in BOOLEAN /\ holder \in Tabs \cup {Nobody}
    /\ disk \in Credential /\ mem \in [Tabs -> Credential]
    /\ server \in [cur : 1..MaxToken, prev : 0..MaxToken, last : 1..MaxToken,
                   revoked : BOOLEAN, theft : BOOLEAN]
    /\ access \in [Tabs -> {"ok", "expired"}]
    /\ flight \in [Tabs -> Flight] /\ req \in [Tabs -> Req]
    /\ executed \in [Tabs -> Nat] /\ lost \subseteq Tabs
    /\ left \in 0..MaxEvents

\* With Web Locks the stored record can be exchanged at any moment: it holds the
\* current token, or the pair that the server has committed.  A crash, a lost
\* answer or another tab at any point leaves it so (refresh_lock.ts:16-19).
JournalSound ==
    locks /\ disk.refresh # 0 =>
        \/ disk.refresh = server.cur
        \/ disk.refresh = server.prev /\ disk.next = server.cur

\* With Web Locks a tab is signed out only after the server revoked the session:
\* being offline, racing another tab or losing an answer never looks like theft
\* (api.ts:453-458, api.ts:499-502).
LostOnlyWhenRevoked == locks /\ lost # {} => server.revoked

\* A mutation without a client_msg_id is executed once at most, whatever was
\* lost, expired, denied or refreshed on its way (api.ts:330-334).
MutationOnce == \A t \in Tabs : req[t].kind = "write" => executed[t] <= 1

\* Every request settles.
RequestSettles == \A t \in Tabs : req[t].pc # "idle" ~> req[t].pc = "idle"

-----------------------------------------------------------------------------
(* What makes the properties inductive.                                    *)

OnTheWire == {"sent", "done", "superseded", "refused"}

\* A rotation under way holds the lock, a proposed pair is complete, and the
\* stored record is the pair, unless it was cleared.
Rotating ==
    \A t \in Tabs : flight[t].pc \in OnTheWire =>
        /\ flight[t].pair.refresh # 0 /\ flight[t].pair.next # 0
        /\ locks => holder = t
        /\ locks /\ disk.refresh # 0 => disk = flight[t].pair

\* The server rotates for nobody else before the answer has been handled.
Committed ==
    \A t \in Tabs : locks /\ disk.refresh # 0 /\ flight[t].pc = "done" =>
        flight[t].pair.next = server.cur

\* Before a revocation nothing looks like theft, and nobody loses the record.
NoVerdict ==
    locks /\ ~server.revoked =>
        /\ lost = {} /\ disk.refresh # 0 /\ ~server.theft
        /\ \A t \in Tabs : flight[t].pc \notin {"refused", "false"}

\* A mutation waits for its first execution, or for the answer to it.
Unexecuted ==
    \A t \in Tabs : req[t].kind = "write" =>
        /\ req[t].pc \in {"sent", "expired", "denied", "refreshing"} => executed[t] = 0
        /\ req[t].pc = "ok" => executed[t] = 1
        /\ req[t].pc # "idle"

ApiInv == TypeOK /\ Rotating /\ Committed /\ JournalSound /\ NoVerdict /\ Unexecuted
=============================================================================
