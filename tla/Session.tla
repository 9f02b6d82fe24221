-------------------------------- MODULE Session --------------------------------
(***************************************************************************)
(* The session controller (clients/ui/src/screens/session.ts) with the     *)
(* durable cache it owns (clients/web/src/local_data.ts), the account      *)
(* boundary of the web shell (main.ts) and the token refresh that shares   *)
(* its credentials (core/src/api.ts, web/src/refresh_lock.ts).             *)
(*                                                                         *)
(* A lifecycle operation is an entry of ops; its index is the generation   *)
(* that beginTransition() gave it.  A server session is a number and       *)
(* account[s] its account; a credential is the number of its session, 0    *)
(* for none.  How one session's tokens rotate is in ApiClient.  The locks  *)
(* of the container, the proof of work and the polls of a QR sign-in are   *)
(* left out; a sign-in is any of password, registration and QR.            *)
(***************************************************************************)
EXTENDS Naturals, Sequences

CONSTANTS
    Users,
    LastUser,   \* the account that was used in this browser before
    MaxOps,     \* lifecycle operations (a bound)
    MaxEvents   \* background refreshes and reloads (a bound)

ASSUME UsersAssumption == Users \subseteq Nat \ {0} /\ LastUser \in Users
ASSUME BoundAssumption == MaxOps \in Nat /\ MaxEvents \in Nat

VARIABLES
    user,       \* this.user, 0 for null
    tokens,     \* the shared holder: access and refresh
    committed,  \* this.committedTokens
    disk,       \* the stored credential (with its user)
    ops,        \* the operations; Len(ops) is lifecycleSeq
    chain,      \* localDataChain
    owner,      \* the owner marker of the durable cache, 0 for none
    rows,       \* the accounts that have rows in the durable cache
    plane,      \* the data plane (sync, outbox) runs
    flight,     \* refreshInFlight
    account, revoked,   \* the server's sessions, and those it has ended
    late,       \* history: what an older lifecycle did to a newer one
    left        \* how many more events the environment may produce

session == <<user, tokens, committed, disk, plane>>
store == <<chain, owner, rows>>
server == <<account, revoked>>
vars == <<session, ops, store, flight, server, late, left>>

Kinds == {"login", "logout", "wipe", "delete", "restore"}
Steps == {"posted", "queued", "ready", "flushing", "refreshing", "emit", "done", "superseded", "gone"}
Ended == {"done", "superseded", "gone"}
Sessions == DOMAIN account
Credential == Nat
Holder == [access : Credential, refresh : Credential]
NoTokens == [access |-> 0, refresh |-> 0]
NoFlight == [pc |-> "idle", sid |-> 0, shared |-> FALSE]

Latest == Len(ops)
Current(s) == s = Latest
OpGoes(s, pc) == ops' = [ops EXCEPT ![s].pc = pc]
InFlight(kinds) == Latest > 0 /\ ops[Latest].kind \in kinds /\ ops[Latest].pc \notin Ended
Event == left > 0 /\ left' = left - 1

\* beginTransition(): op is the record of the operation.
Begin(kind, pc, who, sid) ==
    /\ Latest < MaxOps
    /\ ops' = Append(ops, [kind |-> kind, pc |-> pc, user |-> who, sid |-> sid])

Enqueue(s, task) == chain' = Append(chain, [seq |-> s, task |-> task, step |-> "start"])

-----------------------------------------------------------------------------
(* Signing in.                                                             *)

Login(u) ==
    /\ Begin("login", "posted", u, 0)
    /\ UNCHANGED <<session, store, flight, server, late, left>>

\* adopt(): a session that replaces another one stops its data plane first, and
\* the cache is reconciled with the new owner before anything is committed.
LoginAnswered(s) ==
    LET replacing == user # 0 \/ committed # NoTokens IN
    /\ ops[s].kind = "login" /\ ops[s].pc = "posted"
    /\ \/ /\ Current(s)
          /\ account' = Append(account, ops[s].user)
          /\ ops' = [ops EXCEPT ![s].pc = "queued", ![s].sid = Len(account')]
          /\ plane' = (plane /\ ~replacing)
          /\ Enqueue(s, "reconcile")
       \/ /\ ~Current(s)
          /\ account' = Append(account, ops[s].user)
          /\ OpGoes(s, "superseded") /\ UNCHANGED <<plane, chain>>
       \/ OpGoes(s, "done") /\ UNCHANGED <<account, plane, chain>>    \* rejected
    /\ UNCHANGED <<user, tokens, committed, disk, owner, rows, flight, revoked, late, left>>

Adopt(s) ==
    LET sid == ops[s].sid IN
    /\ ops[s].kind = "login" /\ ops[s].pc = "ready"
    /\ IF Current(s)
       THEN /\ tokens' = [access |-> sid, refresh |-> sid]
            /\ user' = ops[s].user /\ disk' = sid
            /\ OpGoes(s, "flushing")
       ELSE OpGoes(s, "superseded") /\ UNCHANGED <<tokens, user, disk>>
    /\ UNCHANGED <<committed, plane, store, flight, server, late, left>>

\* commitTokenSnapshot() and emit(): the shell starts the data plane.
Adopted(s) ==
    /\ ops[s].kind = "login" /\ ops[s].pc = "flushing"
    /\ IF Current(s)
       THEN committed' = tokens /\ plane' = TRUE /\ OpGoes(s, "done")
       ELSE OpGoes(s, "superseded") /\ UNCHANGED <<committed, plane>>
    /\ UNCHANGED <<user, tokens, disk, store, flight, server, late, left>>

-----------------------------------------------------------------------------
(* Signing out.                                                            *)

\* beginClearBoundary() and clearLocal().
ClearMemory ==                                                       \* faulty
    /\ user' = 0 /\ tokens' = NoTokens /\ committed' = NoTokens
    /\ plane' = FALSE /\ UNCHANGED disk
ClearLocal ==
    /\ user' = 0 /\ tokens' = NoTokens /\ committed' = NoTokens /\ disk' = 0
    /\ plane' = FALSE

Logout ==
    /\ user # 0 /\ ~InFlight({"logout"})
    /\ Begin("logout", "posted", user, tokens.access)
    /\ plane' = FALSE
    /\ UNCHANGED <<user, tokens, committed, disk, store, flight, server, late, left>>

DeleteAccount ==
    /\ user # 0 /\ ~InFlight({"delete"})
    /\ Begin("delete", "posted", user, tokens.access)
    /\ UNCHANGED <<session, store, flight, server, late, left>>

\* onAuthLost, a duress code, or another server: no round trip.
StartWipe ==
    IF InFlight({"wipe"}) THEN UNCHANGED <<ops, session>>
    ELSE Begin("wipe", "flushing", user, 0) /\ ClearLocal

WipeLocalData ==
    /\ ~InFlight({"wipe"}) /\ StartWipe
    /\ UNCHANGED <<store, flight, server, late, left>>

\* The answer to a logout (lost or not) or to a deletion: wipeFor() begins, but
\* not for a generation that is no longer current.
SignOutAnswered(s) ==
    LET op == ops[s] IN
    /\ op.kind \in {"logout", "delete"} /\ op.pc = "posted"
    /\ \E executed \in {FALSE, op.sid \notin revoked \cup {0}} :
          /\ revoked' = IF executed THEN revoked \cup {op.sid} ELSE revoked
          /\ IF Current(s) /\ (executed \/ op.kind = "logout")
             THEN ClearLocal /\ OpGoes(s, "flushing")
             ELSE OpGoes(s, IF Current(s) THEN "done" ELSE "superseded")
                  /\ UNCHANGED session
    /\ UNCHANGED <<store, flight, account, late, left>>

\* The physical wipe joins the chain, whatever began during the flush.
WipeFlushed(s) ==
    /\ ops[s].kind # "login" /\ ops[s].pc = "flushing"
    /\ Enqueue(s, "wipe") /\ OpGoes(s, "queued")
    /\ late' = IF Current(s) THEN late ELSE late \cup {"wipe"}
    /\ UNCHANGED <<session, owner, rows, flight, server, left>>

WipeEnds(s) ==
    /\ ops[s].kind # "login" /\ ops[s].pc = "emit"
    /\ OpGoes(s, IF Current(s) THEN "done" ELSE "superseded")
    /\ UNCHANGED <<session, store, flight, server, late, left>>

-----------------------------------------------------------------------------
(* localDataChain: its tasks run one after the other.                       *)

Task == Head(chain)
ChainStep(step) == chain' = [chain EXCEPT ![1].step = step]

\* The task's promise settles, and its operation goes on.
TaskEndsSilently(pc) == chain' = Tail(chain) /\ UNCHANGED ops       \* faulty
TaskEnds(pc) ==
    chain' = Tail(chain) /\ OpGoes(Task.seq, pc)

\* Another account's cache is wiped.
ForeignNever(u) == FALSE                                             \* faulty
Foreign(u) == owner \notin {0, u}

Reconcile ==
    LET u == ops[Task.seq].user IN
    /\ chain # <<>> /\ Task.task = "reconcile"
    /\ \/ /\ ~Current(Task.seq) /\ Task.step # "cleared"
          /\ TaskEnds("ready") /\ UNCHANGED <<owner, rows>>
       \/ /\ Current(Task.seq) /\ Task.step = "start" /\ Foreign(u)
          /\ rows' = {} /\ ChainStep("cleared") /\ UNCHANGED <<owner, ops>>
       \/ /\ Task.step = "cleared"
          /\ owner' = 0 /\ ChainStep("wiped") /\ UNCHANGED <<rows, ops>>
       \/ /\ Current(Task.seq)
          /\ Task.step = "wiped" \/ (Task.step = "start" /\ ~Foreign(u))
          /\ owner' = u /\ TaskEnds("ready") /\ UNCHANGED rows
    /\ UNCHANGED <<session, flight, server, late, left>>

Wipe ==
    /\ chain # <<>> /\ Task.task = "wipe"
    /\ \/ /\ Task.step = "start"
          /\ rows' = {} /\ ChainStep("cleared") /\ UNCHANGED <<owner, ops>>
       \/ /\ Task.step = "cleared"
          /\ owner' = 0 /\ TaskEnds("emit") /\ UNCHANGED rows
    /\ UNCHANGED <<session, flight, server, late, left>>

-----------------------------------------------------------------------------
(* Booting, and the shared refresh.                                        *)

\* The page is loaded again, at any point of whatever ran, and restores the
\* stored session.
Boot ==
    LET gone == [s \in DOMAIN ops |-> [ops[s] EXCEPT !.pc = IF @ \in Ended THEN @ ELSE "gone"]]
        saved == disk # 0
    IN
    /\ Event /\ Latest < MaxOps
    /\ user' = 0 /\ tokens' = NoTokens /\ committed' = NoTokens /\ plane' = FALSE
    /\ flight' = NoFlight
    /\ ops' = Append(gone, [kind |-> "restore", pc |-> IF saved THEN "queued" ELSE "done",
                            user |-> IF saved THEN account[disk] ELSE 0, sid |-> disk])
    /\ chain' = IF saved THEN <<[seq |-> Len(ops'), task |-> "reconcile", step |-> "start"]>>
                ELSE <<>>
    /\ UNCHANGED <<disk, owner, rows, server, late>>

\* refreshTokens(): the coordinator rotates the stored credential, if there is one.
StartFlight(shared, holder) ==
    LET sid == IF disk # 0 THEN disk ELSE holder.refresh
        new == [pc |-> IF sid = 0 THEN "bad" ELSE "sent", sid |-> sid, shared |-> shared]
    IN
    /\ tokens' = [holder EXCEPT !.refresh = sid]
    /\ flight' = new

Restore(s) ==
    /\ ops[s].kind = "restore" /\ ops[s].pc = "ready"
    /\ IF Current(s)
       THEN /\ OpGoes(s, "refreshing")
            /\ flight.pc = "idle"
            /\ StartFlight(FALSE, [access |-> 0, refresh |-> ops[s].sid])
       ELSE OpGoes(s, "superseded") /\ UNCHANGED <<tokens, flight>>
    /\ UNCHANGED <<user, committed, disk, plane, store, server, late, left>>

\* A request that the server does not accept any more, or the socket, asks for a
\* refresh, and shares the one in flight.
BackgroundRefresh ==
    /\ user # 0 /\ Event
    /\ \/ flight.pc = "idle" /\ StartFlight(TRUE, tokens)
       \/ /\ flight.pc = "sent" /\ ~flight.shared
          /\ flight' = [flight EXCEPT !.shared = TRUE] /\ UNCHANGED tokens
    /\ UNCHANGED <<user, committed, disk, plane, ops, store, server, late>>

\* restore() goes on when the refresh settles.  A superseded one puts the
\* committed credentials back.
RestoreNothing(held) == tokens' = held                               \* faulty
RestoreCommitted(held) == tokens' = committed
RestoreGoesOn(s, result, held) ==
    \/ /\ ~Current(s)
       /\ RestoreCommitted(held) /\ OpGoes(s, "superseded")
       /\ UNCHANGED <<user, committed, disk, plane>>
    \/ /\ Current(s) /\ result = "bad"
       /\ ClearLocal /\ OpGoes(s, "flushing")
    \/ /\ Current(s) /\ result # "bad"
       /\ tokens' = IF result = "ok" THEN held ELSE [access |-> 0, refresh |-> ops[s].sid]
       /\ committed' = tokens' /\ user' = ops[s].user
       /\ plane' = TRUE /\ OpGoes(s, "done") /\ UNCHANGED disk

\* The answer writes the holder, whoever owns it now; the stored record follows
\* only for the same account.
Held(result) ==
    LET sid == flight.sid
        moved == disk \notin {0, sid} /\ account[disk] = account[sid]
    IN CASE result = "ok" -> [access |-> sid, refresh |-> IF moved THEN disk ELSE sid]
         [] result = "bad" -> NoTokens
         [] result = "failed" -> tokens

\* A superseded restore settles when the committed credentials are not those of
\* the account that has signed in: its snapshot is to be taken, or never was.
RestoreOvertaken ==
    /\ \E s \in DOMAIN ops : ops[s].pc = "refreshing" /\ ~Current(s)
    /\ user # 0
    /\ \E t \in {committed.access, committed.refresh} \ {0} : account[t] # user

RefreshAnswered ==
    /\ flight.pc = "sent"
    /\ \E result \in {"failed", "bad"} \cup (IF flight.sid \in revoked THEN {} ELSE {"ok"}) :
          /\ revoked' = IF result = "bad" THEN revoked \cup {flight.sid} ELSE revoked
          /\ flight' = IF result = "bad" /\ flight.shared
                       THEN [flight EXCEPT !.pc = "bad"] ELSE NoFlight
          /\ \/ \E s \in DOMAIN ops :
                   ops[s].pc = "refreshing" /\ RestoreGoesOn(s, result, Held(result))
             \/ /\ \A s \in DOMAIN ops : ops[s].pc # "refreshing"
                /\ tokens' = Held(result)
                /\ UNCHANGED <<user, committed, disk, plane, ops>>
    /\ late' = late \cup (IF flight.shared /\ account[flight.sid] # user THEN {"refresh"} ELSE {})
                    \cup (IF RestoreOvertaken THEN {"restore"} ELSE {})
    /\ UNCHANGED <<store, account, left>>

\* On a verdict the waiting requests end the session: onAuthLost().
Refused ==
    /\ flight.pc = "bad"
    /\ flight' = NoFlight /\ StartWipe
    /\ UNCHANGED <<store, server, late, left>>

-----------------------------------------------------------------------------
(* The data plane, and the server.                                         *)

\* Rows are stored under whatever account the access token fetched them for.
Sync ==
    /\ plane /\ tokens.access \notin revoked \cup {0}
    /\ rows' = rows \cup {account[tokens.access]}
    /\ UNCHANGED <<session, ops, chain, owner, flight, server, late, left>>

Init ==
    /\ account = <<LastUser>> /\ owner = LastUser /\ rows = {LastUser} /\ disk = 1
    /\ user = 0 /\ tokens = NoTokens /\ committed = NoTokens /\ plane = FALSE
    /\ ops = <<>> /\ chain = <<>> /\ flight = NoFlight
    /\ revoked = {} /\ late = {} /\ left = MaxEvents

\* What runs on its own once it has begun.
OpStep(s) ==
    \/ LoginAnswered(s) \/ Adopt(s) \/ Adopted(s) \/ SignOutAnswered(s)
    \/ WipeFlushed(s) \/ WipeEnds(s) \/ Restore(s)
Progress ==
    \/ \E s \in DOMAIN ops : OpStep(s)
    \/ Reconcile \/ Wipe \/ RefreshAnswered \/ Refused

Next ==
    \/ Progress
    \/ \E u \in Users : Login(u)
    \/ Logout \/ DeleteAccount \/ WipeLocalData
    \/ Boot \/ BackgroundRefresh \/ Sync

Spec == Init /\ [][Next]_vars

-----------------------------------------------------------------------------
(* Properties.                                                             *)

TypeOK ==
    /\ user \in Users \cup {0} /\ account \in Seq(Users) /\ revoked \subseteq Sessions
    /\ tokens \in Holder /\ committed \in Holder
    /\ {tokens.access, tokens.refresh, disk} \subseteq Sessions \cup {0}
    /\ {s \in DOMAIN ops : ops[s].pc = "queued"} = {chain[i].seq : i \in DOMAIN chain}
    /\ ops \in Seq([kind : Kinds, pc : Steps, user : Users \cup {0}, sid : Nat])
    /\ chain \in Seq([seq : DOMAIN ops, task : {"reconcile", "wipe"},
                      step : {"start", "cleared", "wiped"}])
    /\ owner \in Users \cup {0} /\ rows \subseteq Users /\ plane \in BOOLEAN
    /\ flight \in [pc : {"idle", "sent", "bad"}, sid : Nat, shared : BOOLEAN]
    /\ late \subseteq {"refresh", "restore", "wipe"} /\ left \in 0..MaxEvents

\* While the data plane of an account runs, the durable cache is marked as its
\* own and holds nothing of another one ("wipe it so one user never sees
\* another's data", session.ts adopt()): unless a refresh for another account
\* was answered late, or an old wipe outlasted the flush of the vault.
CacheOwned == plane /\ late = {} => owner = user /\ rows \subseteq {user}

Quiet == (\A s \in DOMAIN ops : ops[s].pc \in Ended) /\ chain = <<>> /\ flight.pc = "idle"

\* When everything has settled, identity, stored record and credentials are one
\* account's, unless a refresh for another account was answered late or an
\* overtaken restore put the previous credentials back.
OneIdentity ==
    Quiet /\ user # 0 /\ late \subseteq {"wipe"} =>
        /\ disk # 0 /\ account[disk] = user
        /\ \A t \in {tokens.access, tokens.refresh} \ {0} : account[t] = user

\* A sign-out that completed as the latest transition leaves nothing behind: no
\* identity, no stored record, no cache, no credentials in memory, nor any to put
\* back (session.ts:539).  Excepted is the holder when a refresh was answered
\* late: one in flight at clearLocal() puts a live credential into it again
\* (api.ts:493-496), which no step takes out until the next transition.
SignedOutClean ==
    Quiet /\ Latest > 0 /\ ops[Latest].kind \in {"logout", "wipe"} /\ ops[Latest].pc = "done" =>
        /\ user = 0 /\ disk = 0 /\ owner = 0 /\ rows = {} /\ committed = NoTokens
        /\ "refresh" \notin late => tokens = NoTokens

-----------------------------------------------------------------------------
(* What makes the properties inductive.                                    *)

Now == ops[Latest]
InTime == late = {}
Awaiting == {"queued", "ready", "flushing", "refreshing", "emit"}

\* A sign-in knows its server session, and a restore has one; an account that is
\* shown is the stored one, and the data plane runs for no other.
Known ==
    /\ committed.access \in Sessions \cup {0} /\ committed.refresh \in Sessions \cup {0}
    /\ \A s \in DOMAIN ops : ops[s].sid \in Sessions \cup {0}
    /\ \A s \in DOMAIN ops : ops[s].kind \in {"login", "restore"} =>
          /\ ops[s].sid # 0 => account[ops[s].sid] = ops[s].user
          /\ ops[s].pc \in Awaiting => ops[s].sid # 0
    /\ \A s \in DOMAIN ops : ops[s].kind = "login" =>
          ops[s].pc \notin {"refreshing", "emit"} /\ ops[s].user # 0
    /\ user # 0 => disk # 0 /\ account[disk] = user
    /\ plane => user # 0

\* One restore at most waits for the refresh, and for one of its own; nobody else
\* is waiting for a refresh that is not shared.
Awaited ==
    /\ flight.pc = "sent" => flight.sid \in Sessions
    /\ flight.pc = "sent" /\ ~flight.shared => \E s \in DOMAIN ops : ops[s].pc = "refreshing"
    /\ \A s \in DOMAIN ops : ops[s].pc = "refreshing" =>
          /\ ops[s].kind = "restore"
          /\ flight.pc = "sent" /\ flight.sid = ops[s].sid
    /\ \A s, n \in DOMAIN ops : ops[s].pc = "refreshing" /\ ops[n].pc = "refreshing" => s = n

\* Every operation has one task in the chain at most, and the first one runs.
Chained ==
    /\ \A i, j \in DOMAIN chain : chain[i].seq = chain[j].seq => i = j
    /\ \A i \in DOMAIN chain :
          /\ ops[chain[i].seq].pc = "queued"
          /\ chain[i].step # "start" => i = 1
          /\ chain[i].task = "reconcile" => ops[chain[i].seq].kind \in {"login", "restore"}
          /\ chain[i].task = "wipe" =>
                ops[chain[i].seq].kind # "login" /\ chain[i].step # "wiped"
    /\ \A s \in DOMAIN ops : ops[s].pc = "queued" => \E i \in DOMAIN chain : chain[i].seq = s

\* The data plane stands still until the latest sign-in is through, and from the
\* moment the latest operation clears the session.
Still ==
    Latest > 0 =>
        /\ Now.kind = "login" /\ Now.pc \in {"queued", "ready", "flushing"} => ~plane
        /\ Now.kind = "login" /\ Now.pc = "flushing" => user = Now.user
        /\ Now.kind # "login" /\ Now.pc = "flushing" => ~plane /\ user = 0
        /\ Now.kind = "restore" /\ Now.pc \in {"queued", "ready", "refreshing"} =>
              ~plane /\ user = 0
        /\ Now.kind = "restore" /\ Now.pc \in {"ready", "refreshing"} => disk = Now.sid
        /\ \A i \in DOMAIN chain :
              chain[i].seq = Latest /\ Now.kind = "restore" /\ chain[i].task = "reconcile" =>
                 disk = Now.sid

\* Unless something was late, the cache has the rows of its owner only; the task of
\* the latest sign-in is the last one, and then the cache is its own.
Reconciled ==
    InTime =>
        /\ rows \subseteq {owner} \ {0}
        /\ \A i \in DOMAIN chain : chain[i].step # "start" => rows = {}
        /\ \A i \in DOMAIN chain : chain[i].step = "wiped" => owner = 0
        /\ plane => chain = <<>> /\ owner = user
        /\ \A i \in DOMAIN chain :
              chain[i].seq = Latest /\ chain[i].task = "reconcile" => i = Len(chain)
        /\ Latest > 0 /\ Now.kind = "login" /\ Now.pc \in {"ready", "flushing"} =>
              chain = <<>> /\ owner = Now.user
        /\ Latest > 0 /\ Now.kind = "restore" /\ Now.pc \in {"ready", "refreshing"} =>
              chain = <<>> /\ owner = Now.user

\* The credentials in memory are those of the account that is shown.
Identified ==
    user # 0 /\ late \subseteq {"wipe"} =>
        \A t \in {tokens.access, tokens.refresh} \ {0} : account[t] = user

\* From the latest sign-out on nobody is signed in, and no credential is left
\* unless a refresh was late; when its task has run the cache is empty and only
\* wipes are left to do.
SignedOut ==
    Latest > 0 /\ Now.kind \in {"logout", "wipe"} =>
        /\ Now.pc \in {"flushing", "queued", "emit", "done"} =>
              /\ user = 0 /\ disk = 0 /\ ~plane /\ committed = NoTokens
              /\ "refresh" \notin late => tokens = NoTokens
        /\ Now.pc \in {"emit", "done"} =>
              /\ owner = 0 /\ rows = {}
              /\ \A i \in DOMAIN chain : chain[i].task = "wipe"
        /\ \A i \in DOMAIN chain : chain[i].seq = Latest =>
              /\ chain[i].step = "cleared" => rows = {}
              /\ \A j \in DOMAIN chain : j >= i => chain[j].task = "wipe"

SessInv ==
    /\ TypeOK /\ Known /\ Awaited /\ Chained /\ Still /\ Reconciled /\ Identified /\ SignedOut
=============================================================================
