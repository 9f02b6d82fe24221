--------------------------- MODULE ApiClientProofs ---------------------------
(***************************************************************************)
(* Proofs about the token rotation of the core, for every set of tabs and  *)
(* every MaxToken, MaxRetries and MaxEvents: ApiInv is an invariant, and    *)
(* with it the properties of ApiClient.  A step either moves the refresh   *)
(* of one tab or its request; the lemmas of the first section say what     *)
(* such a move leaves alone.                                               *)
(***************************************************************************)
EXTENDS ApiClient, TLAPS

USE BoundAssumption, NobodyAssumption
    DEF Kinds, Event, OnTheWire, FlightGoes, ReqGoes, LockFree

-----------------------------------------------------------------------------
(* What a step moves.                                                      *)

(* The types of the records that the steps build.                           *)
LEMMA EmptyRecords == Nothing \in Credential /\ NoFlight \in Flight /\ NoReq \in Req
BY DEF Nothing, Credential, NoFlight, Flight, NoReq, Req

(* A rotation moves on: the pair it carries stays.                          *)
LEMMA FlightMoves ==
    ASSUME flight \in [Tabs -> Flight], NEW t \in Tabs,
           NEW pc \in {"idle", "queued", "sent", "done", "superseded", "refused",
                       "true", "false", "failed"},
           FlightGoes(t, pc)
    PROVE  /\ flight' \in [Tabs -> Flight]
           /\ flight'[t].pc = pc /\ flight'[t].pair = flight[t].pair
           /\ \A u \in Tabs : u # t => flight'[u] = flight[u]
<1>1. flight[t] \in Flight /\ [flight[t] EXCEPT !.pc = pc] \in Flight
  BY DEF Flight
<1> QED BY <1>1 DEF Flight

(* A request moves on: its kind stays.                                      *)
LEMMA ReqMoves ==
    ASSUME req \in [Tabs -> Req], NEW t \in Tabs,
           NEW pc \in {"idle", "sent", "ok", "expired", "denied", "refreshing"},
           ReqGoes(t, pc)
    PROVE  /\ req' \in [Tabs -> Req]
           /\ req'[t].pc = pc /\ req'[t].kind = req[t].kind
           /\ \A u \in Tabs : u # t => req'[u] = req[u]
<1>1. req[t] \in Req /\ [req[t] EXCEPT !.pc = pc] \in Req
  BY DEF Req
<1> QED BY <1>1 DEF Req

(* The lock stays with its holder, or nobody has it.                        *)
LEMMA Released ==
    ASSUME holder \in Tabs \cup {Nobody}, NEW t \in Tabs, Release(t)
    PROVE  /\ holder' \in Tabs \cup {Nobody}
           /\ holder # t => holder' = holder
BY DEF Release

(* A step of a request alone leaves the rotation in order.                  *)
LEMMA RequestFrame ==
    ASSUME ApiInv, UNCHANGED <<locks, holder, disk, server, mem, flight, lost>>
    PROVE  Rotating' /\ Committed' /\ JournalSound' /\ NoVerdict'
BY DEF ApiInv, Rotating, Committed, JournalSound, NoVerdict

(* A step of the rotation alone leaves the requests as they are.            *)
LEMMA RefreshFrame ==
    ASSUME ApiInv, UNCHANGED <<req, executed>>
    PROVE  Unexecuted'
BY DEF ApiInv, Unexecuted

(* Only one rotation is on the wire while there are locks.                  *)
LEMMA OneOnTheWire ==
    ASSUME ApiInv, locks, NEW t \in Tabs, NEW u \in Tabs,
           flight[t].pc \in OnTheWire, flight[u].pc \in OnTheWire
    PROVE  t = u
BY DEF ApiInv, Rotating

(* A rotation that leaves the wire, and frees the lock, leaves the other    *)
(* rotations in order while the record and the server stay.                 *)
LEMMA LandingFrame ==
    ASSUME ApiInv, NEW t \in Tabs, Release(t), UNCHANGED <<locks, disk, server, lost>>,
           flight'[t].pc \notin OnTheWire,
           \A u \in Tabs : u # t => flight'[u] = flight[u]
    PROVE  Rotating' /\ Committed' /\ JournalSound'
BY Released DEF ApiInv, TypeOK, Rotating, Committed, JournalSound

-----------------------------------------------------------------------------
(* Every action keeps ApiInv.                                              *)

(* rotate(): the successor is journaled, the pair is what is stored.        *)
LEMMA RotateEffect ==
    ASSUME ApiInv, NEW t \in Tabs, NEW again \in BOOLEAN, Rotate(t, again)
    PROVE  /\ disk' \in Credential /\ mem' \in [Tabs -> Credential]
           /\ flight' \in [Tabs -> Flight]
           /\ server' \in [cur : 1..MaxToken, prev : 0..MaxToken, last : 1..MaxToken,
                           revoked : BOOLEAN, theft : BOOLEAN]
           /\ flight'[t].pc = "sent"
           /\ flight'[t].pair.refresh # 0 /\ flight'[t].pair.next # 0
           /\ disk.refresh # 0 => disk' = flight'[t].pair
           /\ disk.refresh = 0 => disk' = disk
           /\ disk'.refresh = disk.refresh
           /\ disk.next # 0 => disk'.next = disk.next
           /\ \A u \in Tabs : u # t => flight'[u] = flight[u]
           /\ server'.cur = server.cur /\ server'.prev = server.prev
           /\ server'.revoked = server.revoked /\ server'.theft = server.theft
<1> DEFINE base == IF disk.refresh # 0 THEN disk ELSE mem[t]
           pair == [base EXCEPT !.next = Successor(base)]
           f == [pc |-> "sent", pair |-> pair, again |-> again]
<1>1. base \in Credential /\ base.refresh \in 1..MaxToken
  BY DEF ApiInv, TypeOK, Credential, Rotate
<1>2. Successor(base) \in Nat \ {0} /\ (base.next # 0 => Successor(base) = base.next)
  BY <1>1 DEF ApiInv, TypeOK, Credential, Successor
<1>3. pair.next <= MaxToken /\ pair.refresh = base.refresh /\ pair.next = Successor(base)
  BY <1>1 DEF Rotate, Credential
<1>4. pair \in Credential
  BY <1>1, <1>2, <1>3 DEF Credential
<1>5. /\ disk' = IF disk.refresh # 0 THEN pair ELSE disk
      /\ mem' = [mem EXCEPT ![t] = pair]
      /\ flight' = [flight EXCEPT ![t] = f]
      /\ server' = [server EXCEPT !.last = IF pair.next > @ THEN pair.next ELSE @]
  BY DEF Rotate
<1>6. f \in Flight
  BY <1>4 DEF Flight
<1> HIDE DEF pair
<1>7. /\ server' \in [cur : 1..MaxToken, prev : 0..MaxToken, last : 1..MaxToken,
                           revoked : BOOLEAN, theft : BOOLEAN]
      /\ server'.cur = server.cur /\ server'.prev = server.prev
      /\ server'.revoked = server.revoked /\ server'.theft = server.theft
  BY <1>2, <1>3, <1>5 DEF ApiInv, TypeOK
<1>8. flight' \in [Tabs -> Flight] /\ flight'[t] = f
      /\ \A u \in Tabs : u # t => flight'[u] = flight[u]
  BY <1>5, <1>6 DEF ApiInv, TypeOK
<1>9. disk' \in Credential /\ mem' \in [Tabs -> Credential]
  BY <1>4, <1>5 DEF ApiInv, TypeOK
<1> QED BY <1>1, <1>2, <1>3, <1>5, <1>7, <1>8, <1>9

(* The lock is granted and the stored credential is exchanged.              *)
LEMMA RotateStartKeeps == ASSUME ApiInv, NEW t \in Tabs, RotateStart(t) PROVE ApiInv'
<1>1. Unexecuted'
  BY RefreshFrame DEF RotateStart
<1>2. CASE Rotate(t, TRUE) /\ holder' = IF locks THEN t ELSE holder
  <2>1. TypeOK'
    BY <1>2, RotateEffect DEF RotateStart, ApiInv, TypeOK
  <2>2. Rotating' /\ Committed'
    <3>1. locks => \A u \in Tabs : flight[u].pc \notin OnTheWire
      BY DEF RotateStart, ApiInv, TypeOK, Rotating
    <3>2. /\ flight'[t].pc = "sent" /\ \A u \in Tabs : u # t => flight'[u] = flight[u]
          /\ flight'[t].pair.refresh # 0 /\ flight'[t].pair.next # 0
          /\ disk.refresh # 0 => disk' = flight'[t].pair
          /\ disk.refresh = 0 => disk' = disk
          /\ locks' = locks
      BY <1>2, RotateEffect DEF RotateStart
    <3>3. Rotating'
      BY <1>2, <3>1, <3>2 DEF ApiInv, Rotating
    <3>4. Committed'
      BY <3>1, <3>2 DEF Committed
    <3> QED BY <3>3, <3>4
  <2>3. JournalSound' /\ NoVerdict'
    <3>1. JournalSound'
      <4>1. /\ disk'.refresh = disk.refresh
            /\ disk.next # 0 => disk'.next = disk.next
            /\ server'.cur = server.cur /\ server'.prev = server.prev /\ locks' = locks
        BY <1>2, RotateEffect DEF RotateStart
      <4>2. server.cur # 0
        BY DEF ApiInv, TypeOK
      <4> QED BY <4>1, <4>2 DEF ApiInv, JournalSound
    <3>2. NoVerdict'
      BY <1>2, RotateEffect DEF RotateStart, ApiInv, NoVerdict
    <3> QED BY <3>1, <3>2
  <2> QED BY <1>1, <2>1, <2>2, <2>3 DEF ApiInv
<1>3. CASE /\ disk.refresh = 0 /\ FlightGoes(t, "false")
           /\ UNCHANGED <<disk, mem, server, holder>>
  <2>1. TypeOK'
    BY <1>3, FlightMoves DEF RotateStart, ApiInv, TypeOK
  <2>2. Rotating' /\ Committed' /\ JournalSound' /\ NoVerdict'
    BY <1>3, FlightMoves DEF RotateStart, ApiInv, TypeOK, Rotating, Committed,
       JournalSound, NoVerdict
  <2> QED BY <1>1, <2>1, <2>2 DEF ApiInv
<1> QED BY <1>2, <1>3 DEF RotateStart

(* The server rotates, repeats its answer, or refuses.                      *)
LEMMA ServerRotatesKeeps == ASSUME ApiInv, NEW t \in Tabs, ServerRotates(t) PROVE ApiInv'
<1> DEFINE f == flight[t].pair
<1>1. Unexecuted'
  BY RefreshFrame DEF ServerRotates
<1>2. /\ f \in Credential /\ f.refresh # 0 /\ f.next # 0 /\ flight[t].pc = "sent"
      /\ locks /\ disk.refresh # 0 => disk = f
  BY DEF ApiInv, TypeOK, Rotating, ServerRotates, Flight
<1>a. \A pc \in {"done", "superseded", "refused"} : FlightGoes(t, pc) =>
        /\ flight' \in [Tabs -> Flight] /\ flight'[t].pc = pc /\ flight'[t].pair = f
        /\ \A u \in Tabs : u # t => flight'[u] = flight[u]
  BY FlightMoves DEF ApiInv, TypeOK
<1>b. UNCHANGED <<locks, holder, disk, lost>>
  BY DEF ServerRotates
<1>c. locks => \A u \in Tabs : u # t => flight[u].pc \notin OnTheWire
  BY <1>2, OneOnTheWire
<1>3. CASE /\ f.refresh = server.cur
           /\ server' = [server EXCEPT !.cur = f.next, !.prev = f.refresh]
           /\ FlightGoes(t, "done")
  <2>1. /\ server' \in [cur : 1..MaxToken, prev : 0..MaxToken, last : 1..MaxToken,
                        revoked : BOOLEAN, theft : BOOLEAN]
        /\ server'.cur = f.next /\ server'.prev = f.refresh
        /\ server'.revoked = server.revoked /\ server'.theft = server.theft
    <3>1. f.next \in 1..MaxToken /\ f.refresh \in 0..MaxToken
      BY <1>2 DEF Credential
    <3> HIDE DEF f
    <3> QED BY <1>3, <3>1 DEF ApiInv, TypeOK
  <2>2. TypeOK'
    BY <1>3, <2>1, FlightMoves DEF ServerRotates, ApiInv, TypeOK
  <2>a. /\ flight'[t].pc = "done" /\ flight'[t].pair = f
        /\ \A u \in Tabs : u # t => flight'[u] = flight[u]
    BY <1>3, <1>a
  <2>3. Rotating' /\ Committed'
    <3>1. Rotating'
      BY <1>2, <1>b, <2>a DEF ApiInv, Rotating
    <3>2. Committed'
      BY <1>b, <1>c, <2>1, <2>a DEF Committed
    <3> QED BY <3>1, <3>2
  <2>4. JournalSound'
    BY <1>2, <1>b, <2>1 DEF JournalSound
  <2>5. NoVerdict'
    BY <1>b, <2>1, <2>a DEF ApiInv, NoVerdict
  <2> QED BY <1>1, <2>2, <2>3, <2>4, <2>5 DEF ApiInv
<1>4. CASE /\ f.refresh = server.prev /\ UNCHANGED server
           /\ FlightGoes(t, IF f.next = server.cur THEN "done" ELSE "superseded")
  <2>1. TypeOK'
    BY <1>4, FlightMoves DEF ServerRotates, ApiInv, TypeOK
  <2>a. /\ flight'[t].pc \in {"done", "superseded"} /\ flight'[t].pair = f
        /\ flight'[t].pc = "done" => f.next = server.cur
        /\ \A u \in Tabs : u # t => flight'[u] = flight[u]
    BY <1>4, <1>a
  <2>2. Rotating'
    BY <1>2, <1>b, <2>a DEF ApiInv, Rotating
  <2>3. Committed' /\ JournalSound'
    BY <1>4, <1>b, <2>a DEF ApiInv, Committed, JournalSound
  <2>4. NoVerdict'
    BY <1>4, <1>b, <2>a DEF ApiInv, NoVerdict
  <2> QED BY <1>1, <2>1, <2>2, <2>3, <2>4 DEF ApiInv
<1>5. CASE /\ server.revoked \/ server.theft \/ f.refresh \notin {server.cur, server.prev}
           /\ server' = [server EXCEPT !.theft = @ \/ f.refresh \notin {server.cur, server.prev}]
           /\ FlightGoes(t, "refused")
  <2>1. /\ server' \in [cur : 1..MaxToken, prev : 0..MaxToken, last : 1..MaxToken,
                        revoked : BOOLEAN, theft : BOOLEAN]
        /\ server'.cur = server.cur /\ server'.prev = server.prev
        /\ server'.revoked = server.revoked
    BY <1>5 DEF ApiInv, TypeOK
  <2>2. TypeOK'
    BY <1>5, <2>1, FlightMoves DEF ServerRotates, ApiInv, TypeOK
  <2>a. /\ flight'[t].pc = "refused" /\ flight'[t].pair = f
        /\ \A u \in Tabs : u # t => flight'[u] = flight[u]
    BY <1>5, <1>a
  <2>3. Rotating' /\ Committed' /\ JournalSound'
    <3>1. Rotating'
      BY <1>2, <1>b, <2>a DEF ApiInv, Rotating
    <3>2. Committed' /\ JournalSound'
      BY <1>b, <2>1, <2>a DEF ApiInv, Committed, JournalSound
    <3> QED BY <3>1, <3>2
  <2>4. locks => server.revoked
    BY <1>2, <1>5 DEF ApiInv, JournalSound, NoVerdict
  <2>5. NoVerdict'
    BY <2>1, <2>4 DEF NoVerdict, ServerRotates
  <2> QED BY <1>1, <2>2, <2>3, <2>5 DEF ApiInv
<1> QED BY <1>3, <1>4, <1>5 DEF ServerRotates

(* The rotation is acknowledged in the stored record.                       *)
LEMMA RotateDoneKeeps == ASSUME ApiInv, NEW t \in Tabs, RotateDone(t) PROVE ApiInv'
<1> DEFINE pair == flight[t].pair
           acked == [refresh |-> pair.next, next |-> 0]
<1>1. Unexecuted'
  BY RefreshFrame DEF RotateDone
<1>2. pair \in Credential /\ pair.next # 0 /\ acked \in Credential /\ flight[t].pc = "done"
  BY DEF ApiInv, TypeOK, Rotating, RotateDone, Flight, Credential
<1>3. /\ locks /\ disk.refresh # 0 => disk' = acked /\ server.cur = pair.next
      /\ disk.refresh = 0 => disk' = disk
  BY <1>2 DEF ApiInv, TypeOK, Rotating, Committed, RotateDone
<1>4. TypeOK'
  <2>1. disk' \in Credential /\ mem' \in [Tabs -> Credential] /\ access' \in [Tabs -> {"ok", "expired"}]
    BY <1>2 DEF ApiInv, TypeOK, RotateDone
  <2> QED BY <2>1, FlightMoves, Released DEF RotateDone, ApiInv, TypeOK
<1>5. /\ flight'[t].pc = "true"
      /\ \A u \in Tabs : u # t => flight'[u] = flight[u]
      /\ server' = server /\ locks' = locks /\ lost' = lost
  BY FlightMoves DEF RotateDone, ApiInv, TypeOK
<1>6. locks => \A u \in Tabs : flight'[u].pc \notin OnTheWire
  BY <1>2, <1>5, OneOnTheWire
<1>7. Rotating' /\ Committed'
  <2>1. \A u \in Tabs : flight'[u].pc \in OnTheWire =>
           ~locks /\ flight'[u].pair.refresh # 0 /\ flight'[u].pair.next # 0
    BY <1>5, <1>6 DEF ApiInv, Rotating
  <2> QED BY <1>5, <2>1 DEF Rotating, Committed
<1>8. JournalSound'
  BY <1>2, <1>3, <1>5 DEF ApiInv, JournalSound
<1>9. NoVerdict'
  <2>1. locks /\ disk.refresh # 0 => disk'.refresh # 0
    BY <1>2, <1>3
  <2> QED BY <1>5, <2>1 DEF ApiInv, NoVerdict
<1> QED BY <1>1, <1>4, <1>7, <1>8, <1>9 DEF ApiInv

(* REFRESH_SUPERSEDED: only without locks is there another record to try.   *)
LEMMA RotateSupersededKeeps ==
    ASSUME ApiInv, NEW t \in Tabs, RotateSuperseded(t) PROVE ApiInv'
<1>1. Unexecuted'
  BY RefreshFrame DEF RotateSuperseded
<1>2. CASE /\ disk.refresh \notin {0, flight[t].pair.refresh}
           /\ Rotate(t, FALSE) /\ UNCHANGED holder
  <2>1. ~locks
    BY <1>2 DEF ApiInv, Rotating, RotateSuperseded
  <2>2. TypeOK'
    BY <1>2, RotateEffect DEF RotateSuperseded, ApiInv, TypeOK
  <2>3. /\ flight'[t].pc = "sent" /\ \A u \in Tabs : u # t => flight'[u] = flight[u]
        /\ flight'[t].pair.refresh # 0 /\ flight'[t].pair.next # 0
        /\ ~locks'
    BY <1>2, <2>1, RotateEffect DEF RotateSuperseded
  <2>4. Rotating'
    BY <2>3 DEF ApiInv, Rotating
  <2>5. Committed' /\ JournalSound' /\ NoVerdict'
    BY <2>3 DEF Committed, JournalSound, NoVerdict
  <2> QED BY <1>1, <2>2, <2>4, <2>5 DEF ApiInv
<1>3. CASE /\ FlightGoes(t, "failed") /\ Release(t)
           /\ UNCHANGED <<disk, mem, server>>
  <2>1. TypeOK'
    BY <1>3, FlightMoves, Released DEF RotateSuperseded, ApiInv, TypeOK
  <2>2. Rotating' /\ Committed' /\ JournalSound'
    BY <1>3, FlightMoves, LandingFrame DEF RotateSuperseded, ApiInv, TypeOK
  <2>3. NoVerdict'
    BY <1>3, FlightMoves DEF RotateSuperseded, ApiInv, TypeOK, NoVerdict
  <2> QED BY <1>1, <2>1, <2>2, <2>3 DEF ApiInv
<1> QED BY <1>2, <1>3 DEF RotateSuperseded

(* The server's verdict erases the tokens in memory.                        *)
LEMMA RotateRefusedKeeps == ASSUME ApiInv, NEW t \in Tabs, RotateRefused(t) PROVE ApiInv'
<1>1. Unexecuted'
  BY RefreshFrame DEF RotateRefused
<1>2. TypeOK'
  BY FlightMoves, Released, EmptyRecords DEF RotateRefused, ApiInv, TypeOK
<1>3. Rotating' /\ Committed' /\ JournalSound'
  BY FlightMoves, LandingFrame DEF RotateRefused, ApiInv, TypeOK
<1>4. NoVerdict'
  BY FlightMoves DEF RotateRefused, ApiInv, TypeOK, NoVerdict
<1> QED BY <1>1, <1>2, <1>3, <1>4 DEF ApiInv

(* A lost request or answer is no verdict.                                  *)
LEMMA RotateFailsKeeps == ASSUME ApiInv, NEW t \in Tabs, RotateFails(t) PROVE ApiInv'
<1> USE DEF FailureIs
<1>1. Unexecuted'
  BY RefreshFrame DEF RotateFails
<1>2. TypeOK'
  <2>1. left' \in 0..MaxEvents
    BY DEF RotateFails, ApiInv, TypeOK
  <2> QED BY <2>1, FlightMoves, Released DEF RotateFails, ApiInv, TypeOK
<1>3. Rotating' /\ Committed' /\ JournalSound'
  BY FlightMoves, LandingFrame DEF RotateFails, ApiInv, TypeOK
<1>4. NoVerdict'
  BY FlightMoves DEF RotateFails, ApiInv, TypeOK, NoVerdict
<1> QED BY <1>1, <1>2, <1>3, <1>4 DEF ApiInv

(* The socket starts a refresh that is not under way.                       *)
LEMMA SocketRefreshKeeps == ASSUME ApiInv, NEW t \in Tabs, SocketRefresh(t) PROVE ApiInv'
<1>1. Unexecuted'
  BY RefreshFrame DEF SocketRefresh
<1>2. TypeOK'
  BY FlightMoves DEF SocketRefresh, ApiInv, TypeOK
<1>3. Rotating' /\ Committed' /\ JournalSound' /\ NoVerdict'
  BY FlightMoves
     DEF SocketRefresh, ApiInv, TypeOK, Rotating, Committed, JournalSound, NoVerdict
<1> QED BY <1>1, <1>2, <1>3 DEF ApiInv

(* Only an idempotent request with attempts left is sent once more.         *)
LEMMA AgainEffect ==
    ASSUME NEW t \in Tabs, req[t] \in Req, Idempotent(t), RetryLeft(t)
    PROVE  Again(req[t]) \in Req /\ Again(req[t]).kind = "get"
<1>1. req[t].attempt + 1 \in 0..MaxRetries /\ req[t].kind = "get"
  BY DEF Req, Idempotent, RetryLeft
<1> QED BY <1>1 DEF Req, Again

(* A request that goes on after the refresh.                                *)
LEMMA SettledReq ==
    ASSUME ApiInv, NEW t \in Tabs, RefreshSettles(t)
    PROVE  req' \in [Tabs -> Req] /\ Unexecuted'
<1>1. req[t] \in Req
  BY DEF ApiInv, TypeOK
<1>2. CASE UNCHANGED req
  BY <1>2 DEF ApiInv, TypeOK, Unexecuted, RefreshSettles
<1>3. CASE req[t].pc = "refreshing" /\ ReqGoes(t, "sent")
  <2>1. /\ req' \in [Tabs -> Req] /\ req'[t].pc = "sent" /\ req'[t].kind = req[t].kind
        /\ \A u \in Tabs : u # t => req'[u] = req[u]
    BY <1>3, ReqMoves DEF ApiInv, TypeOK
  <2> QED BY <1>3, <2>1 DEF ApiInv, Unexecuted, RefreshSettles
<1>4. CASE req' = [req EXCEPT ![t] = NoReq]
  <2>1. req' \in [Tabs -> Req] /\ req'[t] = NoReq /\ NoReq.kind = "get"
        /\ \A u \in Tabs : u # t => req'[u] = req[u]
    BY <1>4, EmptyRecords DEF ApiInv, TypeOK, NoReq
  <2> QED BY <2>1 DEF ApiInv, Unexecuted, RefreshSettles
<1>5. CASE req' = [req EXCEPT ![t] = IF Idempotent(t) /\ RetryLeft(t)
                                     THEN [Again(@) EXCEPT !.refreshed = FALSE] ELSE NoReq]
  <2> DEFINE r == IF Idempotent(t) /\ RetryLeft(t)
                  THEN [Again(req[t]) EXCEPT !.refreshed = FALSE] ELSE NoReq
  <2>1. r \in Req /\ r.kind = "get"
    BY <1>1, AgainEffect, EmptyRecords DEF NoReq, Req
  <2>2. req' = [req EXCEPT ![t] = r]
    BY <1>5
  <2> HIDE DEF r
  <2>3. req' \in [Tabs -> Req] /\ req'[t] = r
        /\ \A u \in Tabs : u # t => req'[u] = req[u]
    BY <2>1, <2>2 DEF ApiInv, TypeOK
  <2> QED BY <2>1, <2>3 DEF ApiInv, Unexecuted, RefreshSettles
<1> QED BY <1>2, <1>3, <1>4, <1>5 DEF RefreshSettles

(* The shared refresh settles; only a verdict clears the stored session.    *)
LEMMA RefreshSettlesKeeps == ASSUME ApiInv, NEW t \in Tabs, RefreshSettles(t) PROVE ApiInv'
<1>1. /\ flight' \in [Tabs -> Flight] /\ flight'[t].pc = "idle"
      /\ \A u \in Tabs : u # t => flight'[u] = flight[u]
  BY EmptyRecords DEF RefreshSettles, ApiInv, TypeOK, NoFlight
<1>2. TypeOK'
  <2>1. disk' \in Credential /\ mem' \in [Tabs -> Credential] /\ lost' \subseteq Tabs
    BY EmptyRecords DEF RefreshSettles, ApiInv, TypeOK
  <2> QED BY <1>1, <2>1, SettledReq DEF RefreshSettles, ApiInv, TypeOK
<1>3. disk' = disk \/ disk'.refresh = 0
  BY DEF RefreshSettles, Nothing
<1>4. Rotating' /\ Committed' /\ JournalSound'
  BY <1>1, <1>3 DEF RefreshSettles, ApiInv, Rotating, Committed, JournalSound
<1>5. NoVerdict'
  BY <1>1 DEF RefreshSettles, ApiInv, NoVerdict
<1> QED BY <1>2, <1>4, <1>5, SettledReq DEF ApiInv

(* A new request starts its count.                                          *)
LEMMA RequestKeeps ==
    ASSUME ApiInv, NEW t \in Tabs, NEW kind \in Kinds, Request(t, kind) PROVE ApiInv'
<1> DEFINE r == [NoReq EXCEPT !.pc = "sent", !.kind = kind]
<1>1. r \in Req /\ r.pc = "sent"
  <2>1. NoReq \in Req
    BY EmptyRecords
  <2> QED BY <2>1 DEF Req
<1>2. /\ req' \in [Tabs -> Req] /\ req'[t] = r
      /\ executed' \in [Tabs -> Nat] /\ executed'[t] = 0
      /\ \A u \in Tabs : u # t => req'[u] = req[u] /\ executed'[u] = executed[u]
  BY <1>1 DEF Request, ApiInv, TypeOK
<1>3. TypeOK'
  BY <1>2 DEF Request, ApiInv, TypeOK
<1> HIDE DEF r
<1>4. Unexecuted'
  BY <1>1, <1>2 DEF ApiInv, Unexecuted
<1> QED BY <1>3, <1>4, RequestFrame DEF Request, ApiInv

(* The server executes, denies or does not accept the request.              *)
LEMMA ServerAnswersKeeps == ASSUME ApiInv, NEW t \in Tabs, ServerAnswers(t) PROVE ApiInv'
<1>1. /\ req' \in [Tabs -> Req] /\ req'[t].kind = req[t].kind
      /\ \A u \in Tabs : u # t => req'[u] = req[u]
      /\ \/ req'[t].pc \in {"denied", "expired"} /\ executed' = executed
         \/ /\ req'[t].pc = "ok"
            /\ executed' = [executed EXCEPT ![t] = @ + 1]
  BY ReqMoves DEF ServerAnswers, ApiInv, TypeOK
<1>2. /\ executed' \in [Tabs -> Nat]
      /\ req'[t].pc = "ok" => executed'[t] = executed[t] + 1
      /\ \A u \in Tabs : u # t => executed'[u] = executed[u]
  BY <1>1 DEF ApiInv, TypeOK
<1>3. TypeOK'
  BY <1>1, <1>2 DEF ServerAnswers, ApiInv, TypeOK
<1>4. Unexecuted'
  BY <1>1, <1>2 DEF ServerAnswers, ApiInv, TypeOK, Unexecuted
<1> QED BY <1>3, <1>4, RequestFrame DEF ServerAnswers, ApiInv

(* Only an idempotent request is sent again.                                *)
LEMMA RequestFailsKeeps == ASSUME ApiInv, NEW t \in Tabs, RequestFails(t) PROVE ApiInv'
<1> DEFINE r == IF Idempotent(t) /\ RetryLeft(t)
                THEN Again(req[t]) ELSE NoReq
<1>a. req[t] \in Req
  BY DEF ApiInv, TypeOK
<1>1. r \in Req /\ r.kind = "get"
  BY <1>a, AgainEffect, EmptyRecords DEF NoReq
<1>b. req' = [req EXCEPT ![t] = r]
  BY DEF RequestFails, Retried
<1> HIDE DEF r
<1>2. req' \in [Tabs -> Req] /\ req'[t] = r
      /\ \A u \in Tabs : u # t => req'[u] = req[u]
  BY <1>1, <1>b DEF ApiInv, TypeOK
<1>3. TypeOK'
  BY <1>2 DEF RequestFails, ApiInv, TypeOK
<1>4. Unexecuted'
  BY <1>1, <1>2 DEF RequestFails, ApiInv, Unexecuted
<1> QED BY <1>3, <1>4, RequestFrame DEF RequestFails, ApiInv

(* The caller has its answer.                                               *)
LEMMA AnsweredKeeps == ASSUME ApiInv, NEW t \in Tabs, Answered(t) PROVE ApiInv'
<1>1. req' \in [Tabs -> Req] /\ req'[t].kind = "get"
      /\ \A u \in Tabs : u # t => req'[u] = req[u]
  BY EmptyRecords DEF Answered, ApiInv, TypeOK, NoReq
<1>2. TypeOK'
  BY <1>1 DEF Answered, ApiInv, TypeOK
<1>3. Unexecuted'
  BY <1>1 DEF Answered, ApiInv, Unexecuted
<1> QED BY <1>2, <1>3, RequestFrame DEF Answered, ApiInv

(* The request joins the refresh, or starts one.                            *)
LEMMA ProbeKeeps == ASSUME ApiInv, NEW t \in Tabs, Probe(t) PROVE ApiInv'
<1> DEFINE r == [req[t] EXCEPT !.pc = "refreshing", !.refreshed = TRUE,
                               !.replay = req[t].pc = "expired" \/ Idempotent(t)]
<1>1. r \in Req /\ r.kind = req[t].kind /\ r.pc = "refreshing"
  <2>1. req[t] \in Req
    BY DEF ApiInv, TypeOK
  <2>2. PICK b \in BOOLEAN : r = [req[t] EXCEPT !.pc = "refreshing", !.refreshed = TRUE,
                                                !.replay = b]
    BY DEF Idempotent
  <2> HIDE DEF r
  <2> QED BY <2>1, <2>2 DEF Req
<1>2. req' \in [Tabs -> Req] /\ req'[t] = r
      /\ \A u \in Tabs : u # t => req'[u] = req[u]
  BY <1>1 DEF Probe, ApiInv, TypeOK
<1> DEFINE pc == IF flight[t].pc = "idle" THEN "queued" ELSE flight[t].pc
<1>3. FlightGoes(t, pc)
  BY DEF Probe
<1>4. /\ flight \in [Tabs -> Flight]
      /\ pc \in {"idle", "queued", "sent", "done", "superseded", "refused",
                 "true", "false", "failed"}
  BY DEF ApiInv, TypeOK, Flight
<1>5. /\ flight' \in [Tabs -> Flight] /\ flight'[t].pair = flight[t].pair
      /\ flight'[t].pc = pc
      /\ \A u \in Tabs : u # t => flight'[u] = flight[u]
  <2> HIDE DEF pc, FlightGoes
  <2> QED BY <1>3, <1>4, FlightMoves
<1>6. TypeOK'
  BY <1>2, <1>5 DEF Probe, ApiInv, TypeOK
<1>7. Unexecuted'
  BY <1>1, <1>2 DEF Probe, ApiInv, Unexecuted
<1>8. Rotating' /\ Committed' /\ JournalSound' /\ NoVerdict'
  BY <1>5 DEF Probe, ApiInv, Rotating, Committed, JournalSound, NoVerdict
<1> QED BY <1>6, <1>7, <1>8 DEF ApiInv

(* The access token expires.                                                *)
LEMMA ExpireKeeps == ASSUME ApiInv, NEW t \in Tabs, Expire(t) PROVE ApiInv'
<1>1. TypeOK'
  BY DEF Expire, ApiInv, TypeOK
<1> QED BY <1>1, RequestFrame, RefreshFrame DEF Expire, ApiInv

(* The server revokes the session.                                          *)
LEMMA RevokeKeeps == ASSUME ApiInv, Revoke PROVE ApiInv'
<1>1. /\ server' \in [cur : 1..MaxToken, prev : 0..MaxToken, last : 1..MaxToken,
                      revoked : BOOLEAN, theft : BOOLEAN]
      /\ server'.cur = server.cur /\ server'.prev = server.prev
      /\ server'.revoked = TRUE
  BY DEF Revoke, ApiInv, TypeOK
<1>2. TypeOK'
  BY <1>1 DEF Revoke, ApiInv, TypeOK
<1>3. Rotating' /\ Committed' /\ JournalSound' /\ NoVerdict'
  BY <1>1 DEF Revoke, ApiInv, Rotating, Committed, JournalSound, NoVerdict
<1> QED BY <1>2, <1>3, RefreshFrame DEF Revoke, ApiInv

(* The tab dies; its refresh and its request die with it.                   *)
LEMMA CrashKeeps == ASSUME ApiInv, NEW t \in Tabs, Crash(t) PROVE ApiInv'
<1>1. /\ flight' \in [Tabs -> Flight] /\ flight'[t].pc = "idle"
      /\ \A u \in Tabs : u # t => flight'[u] = flight[u]
  BY EmptyRecords DEF Crash, ApiInv, TypeOK, NoFlight
<1>2. req' \in [Tabs -> Req] /\ req'[t].kind = "get"
      /\ \A u \in Tabs : u # t => req'[u] = req[u]
  BY EmptyRecords DEF Crash, ApiInv, TypeOK, NoReq
<1>3. TypeOK'
  <2>1. mem' \in [Tabs -> Credential] /\ access' \in [Tabs -> {"ok", "expired"}]
    BY DEF Crash, ApiInv, TypeOK
  <2> QED BY <1>1, <1>2, <2>1, Released DEF Crash, ApiInv, TypeOK
<1>4. Unexecuted'
  BY <1>2 DEF Crash, ApiInv, Unexecuted
<1>5. Rotating' /\ Committed' /\ JournalSound'
  BY <1>1, LandingFrame DEF Crash
<1>6. NoVerdict'
  BY <1>1 DEF Crash, ApiInv, NoVerdict
<1> QED BY <1>3, <1>4, <1>5, <1>6 DEF ApiInv

-----------------------------------------------------------------------------
(* The theorems.                                                           *)

(* The first state: the stored record holds the server's current token.     *)
LEMMA InitHolds == Init => ApiInv
<1> SUFFICES ASSUME Init PROVE ApiInv
  OBVIOUS
<1>1. TypeOK
  BY EmptyRecords DEF Init, TypeOK, Credential
<1>2. Rotating /\ Committed /\ JournalSound /\ NoVerdict
  BY DEF Init, Rotating, Committed, JournalSound, NoVerdict, NoFlight
<1>3. Unexecuted
  BY DEF Init, Unexecuted, NoReq
<1> QED BY <1>1, <1>2, <1>3 DEF ApiInv

(* A step in which nothing happens.                                         *)
LEMMA StutterKeeps == ASSUME ApiInv, UNCHANGED vars PROVE ApiInv'
BY DEF vars, ApiInv, TypeOK, Rotating, Committed, JournalSound, NoVerdict, Unexecuted

(* Every step keeps the invariant.                                          *)
LEMMA StepKeeps == ApiInv /\ [Next]_vars => ApiInv'
<1> SUFFICES ASSUME ApiInv, [Next]_vars PROVE ApiInv'
  OBVIOUS
<1>1. CASE \E t \in Tabs : RefreshStep(t)
  BY <1>1, RotateStartKeeps, ServerRotatesKeeps, RotateDoneKeeps, RotateSupersededKeeps,
     RotateRefusedKeeps, RefreshSettlesKeeps DEF RefreshStep
<1>2. CASE \E t \in Tabs : RequestStep(t)
  BY <1>2, ServerAnswersKeeps, AnsweredKeeps, ProbeKeeps DEF RequestStep
<1>3. CASE \E t \in Tabs : RotateFails(t) \/ SocketRefresh(t) \/ RequestFails(t)
                           \/ Expire(t) \/ Crash(t)
  BY <1>3, RotateFailsKeeps, SocketRefreshKeeps, RequestFailsKeeps, ExpireKeeps, CrashKeeps
<1>4. CASE \E t \in Tabs, kind \in Kinds : Request(t, kind)
  BY <1>4, RequestKeeps
<1>5. CASE Revoke
  BY <1>5, RevokeKeeps
<1>6. CASE UNCHANGED vars
  BY <1>6, StutterKeeps
<1> QED BY <1>1, <1>2, <1>3, <1>4, <1>5, <1>6 DEF Next

(* ApiInv holds at every moment, with and without Web Locks.                *)
THEOREM ApiInvariant == Spec => []ApiInv
BY InitHolds, StepKeeps, PTL DEF Spec

(* The variables keep their types.                                          *)
THEOREM TypeCorrect == Spec => []TypeOK
<1>1. ApiInv => TypeOK
  BY DEF ApiInv
<1> QED BY <1>1, ApiInvariant, PTL

(* Under Web Locks the stored record can be exchanged at any moment: two    *)
(* tabs, a crash or a lost answer never leave it behind the server.         *)
THEOREM RecordExchangeable == Spec => []JournalSound
<1>1. ApiInv => JournalSound
  BY DEF ApiInv
<1> QED BY <1>1, ApiInvariant, PTL

(* Under Web Locks no race, loss or crash signs a tab out: only the server  *)
(* does, by revoking the session.                                           *)
THEOREM NeverLostToARace == Spec => []LostOnlyWhenRevoked
<1>1. ApiInv => LostOnlyWhenRevoked
  BY DEF ApiInv, NoVerdict, LostOnlyWhenRevoked
<1> QED BY <1>1, ApiInvariant, PTL

(* A mutation is executed at most once per call of request().               *)
THEOREM ExecutedOnce == Spec => []MutationOnce
<1>1. ApiInv => MutationOnce
  <2> SUFFICES ASSUME ApiInv, NEW t \in Tabs, req[t].kind = "write" PROVE executed[t] <= 1
    BY DEF MutationOnce
  <2>1. req[t].pc \in {"idle", "sent", "ok", "expired", "denied", "refreshing"}
    BY DEF ApiInv, TypeOK, Req
  <2> QED BY <2>1 DEF ApiInv, Unexecuted
<1> QED BY <1>1, ApiInvariant, PTL
=============================================================================
