# GreenChat client: a TLA+ verification project

GreenChat's client is one TypeScript core (`clients/core`), one set of screens (`clients/ui`) and
one shell (`clients/web`), which the desktop application (`clients/desktop`) wraps in a native
window. The program's own logic is asynchronous: promise chains, timers, two delivery transports, an
application lock that can close under any of them, and an IndexedDB that all browser tabs of an
account share. This directory models that logic in TLA+ and checks it with TLC on small instances.
For every instance it proves with TLAPS the central safety properties of the outbox, of event delivery
and its cache, the socket, the token rotation, the session, calls and the connection, and that the
application lock implements its abstract specification.

Contents: [how it is modelled](#how-javascript-is-modelled) · [inventory](#inventory) · the models:
[Outbox](#outbox), [DeliverySync](#deliverysync), [WsClient](#wsclient), [ApiClient](#apiclient),
[Session](#session), [Vault and AppLock](#vault-and-applock), [Call](#call),
[Connection](#connection) · [runs](#runs) ·
[proofs](#proofs) · [finding](#finding) · [schedules the properties except](#schedules-the-properties-except) ·
[not modelled](#what-is-not-modelled) · [plan](#plan)

## Files

| module | what it is |
|---|---|
| `Outbox` | the persistent queue of outgoing messages, edits and deletes, in any number of tabs |
| `OutboxProofs` | theorems about `Outbox` and their TLAPS proofs |
| `DeliverySync` | `SyncEngine`, `CacheSync` and their wiring in `main.ts`: how events reach the screens and the cache |
| `DeliverySyncProofs` | theorems about `DeliverySync` and their proofs |
| `WsClient` | the reconnecting socket with every socket object it leaves behind |
| `WsClientProofs` | theorems about `WsClient` and their proofs |
| `ApiClient` | requests, retries and the rotation of the refresh token across tabs |
| `ApiClientProofs` | theorems about `ApiClient` and their proofs |
| `Session` | sign-in, restore, sign-out, deletion and account switch over the tokens and the durable cache |
| `SessionProofs` | theorems about `Session` and their proofs |
| `Vault` | abstract specification: what the application lock promises of local data |
| `AppLock` | the application lock with the encrypted store whose key it owns; implements `Vault` |
| `AppLockProofs` | theorems about `AppLock` and their TLAPS proofs, the refinement among them |
| `Call` | two call controllers, their peer connections and sockets, and the signalling server |
| `CallProofs` | theorems about `Call` and their proofs |
| `Connection` | both endpoint managers, the refresh of `/v1/config`, the relay engine and the change of server |
| `ConnectionProofs` | theorems about `Connection` and their proofs |
| `MC*` | model values, bounds and symmetry for TLC, one per checked module; the `.cfg` files choose among them |

`PROJECT.json` lists components, runs, the source lines of every definition, hazards, findings and,
for every checked property, a *mutant*: a plausible bug in one mapped definition with which the
property no longer holds. The faulty variants stand beside the definitions they replace, marked
`faulty`.

## How JavaScript is modelled

* **A step is one resumption of a function.** Code between two `await`s is atomic in the event loop
  of a tab, so it is one action; what other code may do in between is every other action. A `pc`
  names the `await` a call is suspended in.
* **Tabs run concurrently**, and meet only in what the browser shares: the object stores and the
  Web Locks.
* **Store requests take effect when they are issued.** IndexedDB starts transactions in the order in
  which they are created, so a read sees, and a delete removes, what every earlier request left; the
  awaiter resumes later. A read is therefore performed in the step that issues it and its result is
  carried (`row`) to the step that uses it: exactly the window in which it goes stale. A `put` of the
  outbox is different: `EncryptedStore.put` encrypts first, so its effect falls anywhere between the
  call and the awaiter's resumption. The model gives it at the resumption: requests that others issue
  in the gap then see the old row; a request that sees the new one comes after the resumption.
* **The server is external.** It may receive a request and lose the answer, receive an aborted
  request late, answer in batches, and forget old events. What it guarantees (deduplication by
  `dedup_key`, a gap-free log) is an assumption.
* **Time** appears only as "the window has elapsed" (`HoldElapses`) and "the sleep is over".
* **Bounds.** `Limit[e]` caps how often each environment event `e` happens, or `MaxEvents` how many
  happen in all; the other bounds are named in the modules' CONSTANTS (`MaxChain`, `MaxSeq`,
  `Sockets`, `MaxToken`, `MaxOps`, `MaxCalls`, `MaxDesc`). A variable that counts bounded events
  (`used`, `left`, `placed`) is the only state they add.
* **History.** A few variables record what has happened for a property to speak of (`acked`, `lost`,
  `late`, `overlap`, `tampered`, ...) and say so where they are declared.

## Inventory

For each component: what it keeps, what it does, whom it meets, what is hard, and what makes it
correct. The status is that of `PROJECT.json`.

**Outbox** (`core/src/outbox.ts`, `web/src/outbox_lock.ts`, `web/src/cache_policy.ts`) — *modelled.*
State: rows in the store, rows in RAM for cloud-only chats, a promise chain per chat, undo timers, a
pause flag with a generation. Operations: enqueue, cancel, retry, resume, retryFailed, flush, list,
setChat/setGlobal reconciliation, pause. Meets: the encrypted store, the API client, the Web Locks,
the retention policy, `startSync`/`stopDataPlane`. Hard: rows shared by tabs, sends that straddle a
lock, a crash after the request, a policy change under a running send. Correct when: one tab works on
a row, nothing is on the wire while locked, a delete waits for its window, an honoured undo is final,
nothing accepted is lost, healthy messages keep their order, everything settles.

**Sync and local cache** (`core/src/sync.ts`, `core/src/cache.ts`, wired in `web/src/main.ts`) —
*modelled.* State: the cursor in RAM and on disk, a resync in flight with its buffer and newest head,
poll and lifecycle generations, a serial queue of store tasks with two failure latches. Operations:
start, stop, seed, hello, socket state, event, poll answer, resync round, cache apply, setCursor,
reset, getCursor. Hard: two transports at once, overlapping resyncs, results of a former lifecycle,
a store failure in the middle of a queue, a crash between a write and its cursor, several tabs.
Correct when: the screens miss nothing below the cursor, the durable cursor never vouches for an
event that is not folded in, and an unlocked page catches up.

**WebSocket client** (`core/src/ws.ts`) — *modelled.* State: the socket reference, whether it should be
open, whether it is authenticated, one refresh per cycle, three timer handles. Operations: start,
close, open, the socket's four callbacks, the auth timeout, the reconnect, the refresh after a 4401.
Hard: callbacks of a dropped socket, handles overwritten while their timer still runs, a refresh that
ends after `close()`. Correct when: a client that should be connected always has something under way
that connects it, shows "open" only while something delivers, and gives a session up only when the
server has.

**API client and token refresh** (`core/src/api.ts`, `errors.ts`, `web/src/refresh_lock.ts`) —
*partly.* State: tokens in RAM, the stored record with a journaled successor, the refresh in flight,
the attempt and the refresh flag of each request. Operations: request with retry, replay and session
probe; rotation under the Web Lock. Hard: two tabs, an answer lost after the server has rotated, a
crash between journal and acknowledgement, a mutation repeated after a refresh. Correct when: the
stored record can be exchanged at any moment, nobody is signed out who was not revoked, and a write is
executed once. Left out: routes, uploads and the parsing of errors.

**Session controller** (`ui/.../session.ts`, `web/src/session_storage.ts`, `local_data.ts`) —
*partly.* State: the user, three copies of the credentials (live, committed, stored), a lifecycle
sequence, a serial chain of tasks on the durable cache with its owner marker. Operations: sign-in,
restore, sign-out, deletion, wipe, reload. Hard: every one of them awaits the network, the vault or
the cache while a newer one begins. Correct when: nobody sees another account's rows, identity and
credentials agree once everything has settled, and a sign-out leaves nothing behind but what a refresh
answered later writes into the token holder.

**App lock** (`crypto_store/app_lock.ts`, `lock_machine.ts`, `session.ts`, `policy.ts`,
`web/src/app_lock.ts`) and **Encrypted store** (`encrypted_store.ts`, `store.ts`,
`indexeddb_store.ts`) — *partly, together.* State: the lock machine, the durable snapshot (container,
pending migration, counters, duress, biometrics), the controller's serial queue, the key buffer, and
which rows are plain, sealed or lost. Operations: enabling, unlocking by code and finger, changing
codes, locking, wiping, duress, panic, reset, boot, the migration, reads and writes. Hard: the lock
closes without waiting for anyone, operations decide before an await and act after it, a page dies in
the middle of an erasure. Correct when: it implements `Vault`. Left out: see
[not modelled](#what-is-not-modelled).

**1:1 calls** (`call_model.ts`, `web/src/call_media.ts` and the other `call_*` adapters) — *partly.*
State: phase, call id, epoch, the media session, candidates waiting in both directions, a pending
offer, recovery timers and the restart offer. Operations: place, accept, decline, hang up, one handler
per frame, the socket's state, the connection's state, recovery. Hard: every media step is a promise
that may settle after its call, frames are never replayed, recovery races the server's grace. Correct
when: no microphone, line or screen outlives its call.

**Connection manager** (`conn_manager.ts`, `endpoints.ts`, `config_verify.ts`, `server_clock.ts`,
`pow_*.ts`) — *partly modelled, in Connection.* State: the candidates and the current one, the failure
streak, the routing policy and the operator's pin, the last good address, probes under way.
Operations: traffic through the wrapped fetch, connect, recheck direct, the verified ingest of
`/v1/config`, the change of server. Hard: probes that answer after a newer configuration, a refresh in
flight when the server changes, failures of one address counted against another, a native engine that
starts or stops only in part. Correct when: a pin is not undone by an older probe, addresses and
engine belong to the chosen server, and the client comes back to direct.

**Key container** (`crypto_store/container.ts`, `format.ts`, `securekey.ts`, `primitives.ts`,
`argon2.ts`, `biometric_wrap.ts`, `types.ts`) — not modelled: cryptography and byte formats. Its
slots are opaque values of `AppLock`.

**Retention policy** (`retention.ts`) — planned: persistence mode per chat with rollback, pruning,
the media ledger. **Media cache and uploads** (`media_cache.ts`, `media_crypto.ts`, `upload.ts`) —
planned: a byte budget with downloads in flight; resumable parts. **Conferences**
(`conference_model.ts`, `conference_*`) — planned: the room state machine; LiveKit is external.

**Web shell** (`web/src/main.ts`, `native_update_lifecycle.ts`, `reality_transport_controller.ts`) —
*partly*: `startSync`, `stopDataPlane`, the online listener, the sync options and the resync barrier
are in `Outbox` and `DeliverySync`, the account boundary in `Session`, the migration and the integrity
incident in `AppLock`, the signal port of calls in `Call`, the refresh of `/v1/config`, the change of server and
the relay engine in `Connection`. **Feed and chat screens**
(`feed_screen.ts`, `feed_model.ts`, `composer.ts`, `app.ts`) — rendering; the undo bar and the retry
button are inputs of `Outbox`.

**Diagnostics and session quality** — planned (counters acknowledged once). **Telegram connector** —
planned (account slots and their wipe). **Wallet, exchange and finance screens** — planned if the
idempotency contract can be read off the code.

Not planned: **notes recorders and media screens**, **other screens** (DOM and devices), **push and
notifications**, **Telegram import**, **update checker** (sequential, one request or one parse),
**desktop host** (window, tray, keyring glue), **build and release scripts**.

How the modelled parts interact:

    Session --start, stop at an account change--> data plane <--start, stop at a lock-- AppLock
       |  tokens                                                                          |  key
       v                                                                                  v
    ApiClient --refresh--> WsClient --frames--> SyncEngine --events--> CacheSync --> encrypted store
       ^                      |                                                           ^
       +--requests-- Outbox --|---- rows, leases -----------------------------------------+
                              +--call.* frames, never replayed--> Call (CallController)

Each model represents its neighbours by what they may do to it: `DeliverySync` sees one connection at
a time, which opens and drops; `WsClient` sees a refresh that succeeds, is refused or fails;
`Session` sees a background refresh and rows being stored; `Outbox` and `DeliverySync` see the lock as
a pause and a resume; `Call` sees a socket that dies, is noticed and reopens.

## Outbox

| model | code |
|---|---|
| `disk`, `ram` | the `outbox` collection; `this.volatile` |
| `persist` | what `persistForChat` answers in that tab |
| `chain`, `timer`, `paused` | `this.chains`, `this.undoTimers`, `this.paused` |
| `job[t][i]` | the `sendClaimed()` of item `i` in tab `t`: the await it is in (`pc`), the row it has read or is writing, and whether its generation is still the current one (`live`) |
| `lease` | the Web Lock `greenchat.outbox.<id>` |
| `call[t][i]` | an `add()`, `cancel()` or `retry()` under way |
| `plane` | the app lock is closed, open, or `startSync` has been entered (its flag `syncing`) |
| `drive[t][l]` | an operation that reconciles rows: `startSync` and the `resume` it ends in, `retryFailed`, `flush`, or `transitionChat` with its rollback; a tab has up to `Lists` of them at once, since nothing keeps them apart |
| `held` | deletes younger than the undo window |
| `orphan`, `log` | aborted requests that may still arrive; the server's receipts |
| `acked`, `undone`, `undoneHeld`, `failedOnce`, `session`, `behind` | history for the properties |

One action per resumption: `Add`/`AddStored`; `Cancel`/`CancelRead`; `Retry`/`RetryRead`/
`RetryStored`; `TimerFires`; `SendStart` (turn in the chain, lease, read), `SendRead`, `SendStored`,
`SendAnswered`, `SendDeleted`, and on a rejection `SendFailed`, `SendFailedRead`,
`SendFailedStored`; `StartSync`, `Online`, `Flush`, `SetChatPolicy` start a list, `DriveEvicts`,
`DriveStored`, `DriveRestored`, `Resume`, `DriveListed` carry it on, and `Switch` changes the policy at the
end of a transition; `Pause`, `LockAgain` (a lock that finds the outbox paused already), `Crash`, `Open`; and
one action for each place where a store request may reject. Only the transitions of one chat run one after
the other (`cache_policy.ts:65-75`). A row is represented by its status: payload, attempt count and error text
decide nothing.

Properties. `ClaimExclusive`, `OneFetchPerChat`, `LockedQuiet` are about who may send;
`HoldRespected`, `UndoHonoured` about deletes; `NoLoss`, `OrderWhenHealthy`,
`KeptWhenGoingCloudOnly` about what is kept and in which order; `EventuallySettled` about delivery.
Each is stated with its exceptions in the module; the exceptions are what the code does:

* `OrderWhenHealthy` excuses an item that failed once. `retry()` and `retryFailed()` append it behind
  messages queued after it, although `outbox.ts:10-11` says that N+1 never overtakes N. It also needs
  a policy that does not change, since a RAM-only row dies with its tab, and no `flush()`, which sends
  a queued message without the older one of its chat that another tab has marked "sending".
* `KeptWhenGoingCloudOnly` is about the rows of chats that are durable at first, on a device with one tab,
  until the second change of policy, without store failures, and unless another list of the tab is putting
  rows back at the moment the policy switches (`overlap`): the row can then be
  [in neither place](#schedules-the-properties-except). Across two tabs a row can be evicted into the RAM of a
  tab that is then closed, and a store failure during the rollback of a transition leaves the row behind.
* `HoldRespected` excepts `flush()`, which cuts the window short on purpose and which no code calls.
* `UndoHonoured` and `NoLoss` need a policy that does not change. A transition of another tab that has
  scanned the row before `cancel()` removes it writes it back afterwards (`outbox.ts:134-139`).
* A row written under the old policy after `transitionChat()` has scanned stays on disk in a chat that
  is cloud-only by then, until the next `list()` (`outbox.ts:57` says RAM only).

Fairness (`Fairness`): weak fairness for continuations, timers, the drive of a list, and the server's
receipt, because promises settle and the event loop is fair; strong fairness for `SendStart`,
because the lease is taken and released by other tabs again and again, and the browser grants Web
Locks first come, first served; weak fairness for `Open` and `Online` and strong fairness for `StartSync`,
which state that the user comes back and that `online` events recur: without them a failed row legitimately
waits. `StartSync` needs the strong form because the lists of `online` events may take the places of `Lists`,
which is a bound of the model and not of the code. Nothing is assumed about failures, pauses, crashes or
clicks.

## DeliverySync

| model | code |
|---|---|
| `head`, `low` | the server's last event, and the last one outside its replay window |
| `rows`, `cursor` | the events folded into the cached messages and chats; `meta/last_seq` |
| `app`, `syncing` | page closed, locked or unlocked; `startSync` has been entered |
| `boot[t][k]` | the calls of `startSync`: in the awaits before `getCursor()`, waiting for the queue, or with the cursor they have read; a lock leaves one behind as it does a resync |
| `running`, `lastSeq`, `resyncHead`, `buffer` | the fields of `SyncEngine` |
| `ops[t][k]` | the `handleResync` operations: the current one is `resyncInFlight`; a lock leaves an older one in its await |
| `polls` | the `pollLoop` calls: `asked`, `answered`, waiting at the resync barrier, or asleep |
| `socket` | `WsClient` as the engine sees it, one connection: the `since` its `auth` carried and the next event the server will push |
| `queue`, `failed`, `blocked` | `CacheSync.chain`, `resetFailure`, `blockedCursorAt` |
| `seen`, `wiped` | history: what the screens reflect; the server's head when the rows were last cleared |
| `skipped`, `late` | history: events `lastSeq` has passed without delivering them; a `startSync` that a lock has overtaken began with an old cursor |

The engine's synchronous work is a value `[last, queue, seen]` that `ApplyEventNow` and `AdvanceTo`
transform: an event moves the cursor in RAM, reaches the screens, and queues its cache write *before*
its cursor write, in this order. `CacheStep` runs the queue, one task at a time: `ApplyRuns`,
`CursorReads`/`CursorPuts` (the read and the write of `setCursor` are two requests),
`ResetClears`/`ResetDeletes` (the clears, then the cursor), `SeedReads` (`getCursor`). `StoreFails`
rejects any of them. `Refetched` is the end of the barrier, with its three outcomes: abandoned by a
stop, superseded by a newer head, or acknowledged with the buffer drained. A snapshot contains what
was on the server when the refetch was issued.

Comparing a captured generation with the current one is represented by the flag `cur` of the operation
that captured it; the step that bumps the generation clears it.

Properties. `CursorSound`: an event the durable cursor has passed is folded into the cache, or was
there to be wiped by a resync and nothing older has been cached since. It is promised to any number of
tabs until the first wipe and to one tab for ever, of events that are not `skipped`, unless a start was
`late`. `ViewComplete`: everything up to `lastSeq` has reached the screens or is `skipped`.
`EventuallyCaughtUp`: an unlocked page runs and reaches the
server's head, or is locked or closed. Fairness: weak, for continuations, timers, answers of the
server and frames on an open socket. Not for `Connects` (the network may never allow a socket: the
long poll has to do), `Open`, `Unlock` or any failure.

Limits of these statements, all from the code:

* The code does skip events, in two places, and a late start does spoil the cursor: the schedules are
  [below](#schedules-the-properties-except). `Skips` and `Outdated` record exactly these, and every other
  step has to keep both properties.
* `EventuallyCaughtUp` is checked without store failures. A failed reset leaves `resetFailure` set; if
  the page is locked before the retry, `getCursor()` rejects at the next unlock, `startSync` swallows
  the rejection (`main.ts:1951`), and nothing starts delivery again before a reload.
* A resync that a stale `hello` demands after the poll has already caught up deletes the durable
  cursor and does not store it again (`targetHead > current` is false, `sync.ts:245`) until the next
  event. `blockedCursorAt` outlives a lock, so the durable cursor may stand still until a reload or a
  reset. Both are safe: a restart replays more than it must.

## WsClient

| model | code |
|---|---|
| `sock` | every `WebSocket` object, from `new` until its `onclose` has run |
| `ws`, `wantOpen`, `authed`, `state`, `didRefresh` | the fields of the client |
| `retry`, `authTimer`, `heartbeat` | the timer handles; `lostRetries`, `lostAuths` count timers whose handle a second `setTimeout` has overwritten |
| `refreshing` | `handleAuthClose()` calls that await `refresh()` |
| `token`, `revoked` | what the server thinks of the access token and of the session |
| `overlap`, `aged` | history: two sockets, or a socket and a refresh, have existed at once; a refreshed token expired before a hello confirmed it |

One action per callback: `Onopen`, `Hello` (onmessage), `Onclose`, `AuthClose` (4401), `Retry`,
`AuthInTime`/`AuthTimeout`, and the three ends of a refresh; `Start` and `Stop` are the engine's calls.

`OpenDelivers`: the state "open", which suspends the long poll, is never shown by a client that is not
going to deliver. `SingleSocketSound`: as long as no two sockets existed at once, the live one is the
one frames are sent on, and the session is given up only after it was revoked, or for a refreshed token
that expired before the hello. `EventuallyConnected`.
Fairness: reconnect timers, refreshes and the events of sockets; nothing forces a start or a failure.

## ApiClient

| model | code |
|---|---|
| `disk` | the stored session record: `refresh` and the journaled `pendingRefresh` |
| `mem`, `access` | `tokens` of each tab; the access token as the server sees it |
| `locks`, `holder` | whether the browser has Web Locks, and who holds `greenchat.session.refresh` |
| `flight[t]` | `refreshInFlight` with the pair it has sent |
| `req[t]` | a request: attempt, whether it has refreshed, whether it may be replayed |
| `server` | the current and the previous refresh token, and whether they are void |

A refresh is `RotateStart` (journal, then send), `ServerRotates`, then `RotateDone`,
`RotateSuperseded`, `RotateRefused` or `RotateFails` (answer lost), and `RefreshSettles` for all who
share it. A request is `Request`, `ServerAnswers`, `Answered`, `RequestFails`, `Probe`. `Crash`
reopens a tab from the record at any point; `Expire` and `Revoke` are the server's.

The server's rule is read off the client's comments (`refresh_lock.ts:18-19`, `api.ts:499`): it
rotates on the current token, repeats its answer to the pair it has committed, calls another successor
of the previous token superseded, and takes anything older for theft. Under it `JournalSound` (the
record can be exchanged at any moment), `LostOnlyWhenRevoked`, `MutationOnce`, and
`RequestSettles`. The first two are about browsers with Web Locks: without them a late acknowledgement
drops another tab's journal.

## Session

| model | code |
|---|---|
| `ops` | the lifecycle operations; the index of an operation is its generation, `Len(ops)` is `lifecycleSeq` |
| `user`, `tokens`, `committed`, `disk` | `this.user`, the shared holder, `committedTokens`, the stored credential |
| `chain` | `localDataChain` with the step its first task is in |
| `owner`, `rows` | the owner marker of the cache, and whose rows are in it |
| `plane` | whether the data plane runs |
| `flight` | `refreshInFlight`, and whether a background request shares it |
| `account`, `revoked` | the server's sessions |

An operation is `posted` (network), `queued` (cache), `ready`, `flushing` (vault), then `done` or
`superseded`; `isCurrent()` is asked where the code asks it, and `Boot` ends whatever ran. `late`
records the three writes in which an older lifecycle reaches a newer one
([below](#schedules-the-properties-except)); the properties say what holds besides: `CacheOwned`
(while a data plane runs the cache is its account's only), `OneIdentity`, and `SignedOutClean` (after a
sign-out that completed there is no identity, record, owner, row or committed credential, whatever was late,
and no credential in the shared holder either, unless a refresh was late). All are safety properties, checked
without fairness.

## Vault and AppLock

`Vault` is what the rest of the application may rely on, in four variables: whether local data is
`off` (in plain), `shut`, `open` or `gone`; the durable `doors` to the master key; whether a `proof`
has been accepted; whether `plain` rows exist. Nothing opens over plain rows, the biometric door never
stands without the code, a proof needs a door, an erasure takes every door in one step, and only a
reset leads out of it.

| model | code |
|---|---|
| `machine`, `enabling` | `LockMachine.state`; the boundary `enable()` raises before its first await |
| `snap` | the snapshot in RAM and `localStorage` |
| `op` | the controller's operation under way (its queue is serial) and the await it is in |
| `dbKey`, `imported` | the buffer of K_db, live or overwritten with zeros; whether WebCrypto holds its own copy |
| `rows` | kinds of rows: `plain`, `sealed` under the present container, `lost` (no key opens them) |
| `read`, `write` | a read and a write under way with the key they captured |
| `alarm` | `storeIntegrityWipeStarted` and what led to it |

`Lock` waits for nobody and zeroes the buffers under whatever is running; `DestroyKey` turns sealed
rows into lost ones. `Promised` is `Promise!VaultSpec` under the mapping at the end of the module.
`AlarmExplained`: the incident that signs the user out and erases the container needs an altered row,
a failed deletion, or a lock that changed under a store operation. `Settled`: operations end,
incidents are answered, the reset marker goes away. Fairness: weak for operations under way; strong
for the two operations the shell queues itself (`IntegrityWipe`, `CompleteReset`), because the
queue is first in, first out and a user who keeps pressing buttons cannot keep them out.

## Call

| model | code |
|---|---|
| `dev[d]` | a `CallController`: `CallState`, both candidate queues, `pendingOffer`, the recovery timers, `restartOfferSdp`, and its `CallMediaSession` with the peer connection |
| `dev[d].jobs` | promises under way (media, offer, answer, restart); `epoch += 1` marks them late |
| `dev[d].orphan` | a session that was opened and is no longer `this.session` |
| `net.line`, `net.id`, `net.grace` | external: the server's line, and whose reconnect grace runs |
| `net.sock`, `net.down` | the sockets (`dead` is one that is still taken for open) and the frames under way |

One action per public method, per continuation, per frame handler, per timer and per callback of the
peer connection; `Handles` is `onFrame()` with the flush of local candidates that precedes its switch.
`idle` stands for `ended` as well. A description is the next number of its device, and media flows
when each end has the description the other made last. The server keeps one line per person, rings for
a while, forwards frames of the call, ends it when a silent device does not resume in time, and answers
the resume of a call that is over with a hangup. ICE gives up on a peer only when it has closed or
nothing is under way that could still reach it.

`MediaReleased`, `NoResurrection`, `SameCall`, and for liveness `CallSettles`: no screen stays between
idle and active, nobody stays in a call alone, no candidate stays in its queue, and the server's line
is given back. Fairness: one weak fairness of `Progress`; the
bounds leave no endless behaviour, and the person is not in it.

## Connection

| model | code |
|---|---|
| `primary`, `merged`, `auto` | `EndpointManager`: the chosen address, the advertised ones, auto-failover |
| `route` | `idx`, `failures`, `lastSwitchReason` |
| `policy`, `force` | `policy` and `killSwitch` of the connection manager |
| `call[c]`, `loose` | a `connect()` or `recheckDirect()` under way and the probe it awaits; probes nobody waits for |
| `call[c].superseded` | `generation !== routingGeneration` |
| `memory` | the last known-good address of the network |
| `sync` | `runServerConfigSync()`: its request, verification, native preparation; `cancelled` is `seq !== configSyncSeq` |
| `save` | `serverPort.save()` and the await it is in |
| `engine`, `build` | `active` of the relay controller; whether the build pins a key and has the bridge |
| `up`, `wire` | external: what answers now; one request of ordinary traffic |
| `stray`, `stuck` | history: a configuration asked for during a change of server was taken; the engine did not stop |

An address is a model value and a configuration keeps what routing depends on. Probes go through
`efetch` (`main.ts:931`), so `Probed` reports each to the manager like any request. `Connect` is
`connect()` up to its first await, `MemoryRead`, `ProbeOk`, `ProbeFails`, `ProbeLate` and `OtherEnds`
its resumptions; `SyncStart`, `SyncAnswered`, `Verified`, `Prepared` and `SyncConnect` the refresh with
its failures `SyncLost`, `SyncRefused`, `VerifyEnds`; `SaveStart`, `SaveQuiet`, `SaveStops` and
`SetPrimary` the change of server. A build that pins no key never uses the native bridge (`main.ts:967`), so `build`
has the bridge only beside a key.

`PinObeyed`: once a transport is pinned and in use, only the failure streak or a newer configuration or
server leaves it. `ConfigInForce`: the advertised addresses are those of the chosen server, and the
engine is off or runs the plan in force. `DirectRegained`: while direct stays up and nothing forbids it,
the client is on it again and again. Fairness: weak for the resumptions of each call (probes are
bounded by `probe_timeout_ms`) and for the five-minute timer; nothing forces traffic, refreshes or
events of the network.

## Runs

All runs have deadlock checking off: the application may rest, closed or with nothing to do. Sizes are
distinct states; times are with two workers.

| run | instance | properties | states |
|---|---|---|---|
| `outbox_undo` | 2 tabs, 2 lists at once, 1 delete; 1 each of pause, cancel, crash or store failure; online events | `HoldRespected`, `UndoHonoured` | 565 k with symmetry, 120 s |
| `outbox_order` | 1 tab, 2 lists at once, 2 messages of a chat; online events; up to 2 pauses, or the mixes below of pause, crash, failed request, store failure, retry, policy change, flush | `OneFetchPerChat`, `NoLoss`, `OrderWhenHealthy`, `KeptWhenGoingCloudOnly` | 692 k with symmetry, 105 s |
| `outbox_settles` | 2 tabs, 1 list at a time, 1 message, fair; 1 each of pause and crash, or of failed request with one of them; online events | `TypeOK`, `ClaimExclusive`, `LockedQuiet`, `EventuallySettled` | 72 k, 64 s |
| `sync_cache` | 1 tab, 2 events; 1 each of crash, lock, connection, drop, request failure, store failure | `TypeOK`, `CursorSound`, `ViewComplete` | 2.4 M, 110 s |
| `sync_live` | 1 tab, 2 events, fair; 1 each of lock, connection, drop, request failure | `EventuallyCaughtUp` | 385 k, 107 s |
| `ws_socket` | 2 socket objects, fair; 1 each of auth timeout, drop, refusal, expiry, revocation, offline refresh, stop | `TypeOK`, `OpenDelivers`, `SingleSocketSound`, `EventuallyConnected` | 603 k, 105 s |
| `api_refresh` | 2 tabs with and without Web Locks, fair; 1 retry; 3 events among requests, expiries, losses, crashes, revocations | `TypeOK`, `JournalSound`, `LostOnlyWhenRevoked`, `MutationOnce`, `RequestSettles` | 460 k, 62 s |
| `session_accounts` | 2 accounts, 3 operations, 2 reloads or background refreshes | `TypeOK`, `CacheOwned`, `OneIdentity`, `SignedOutClean` | 353 k, 17 s |
| `lock_vault` | wipe after 2 wrong codes, 1 biometric miss, 1 crash, failed deletion or altered row, fair | `TypeOK`, `AlarmExplained`, `Promised`, `Settled` | 225 k, 80 s |
| `lock_integrity_claim` | the same without crashes and altered rows | `OnlyWhenViolated` | violated |
| `call_pair` | 2 devices, 2 calls, 2 restart descriptions, 3 events among calls, refused microphone, second tap, dead socket, lost path, retry, candidate; fair | `TypeOK`, `MediaReleased`, `SameCall`, `NoResurrection`, `CallSettles` | 241 k, 86 s |
| `connection` | 2 servers, 1 relay, 3 configurations, 2 calls; 3 events, of them up to 3 refreshes and 1 each of a changed reachability, connect, switch of auto-failover, change of server; fair | `TypeOK`, `ConfigInForce`, `PinObeyed`, `DirectRegained` | 116 k, 40 s |

Why the bounds suffice. *Outbox:* a conflict is between two users of one row (two tabs) or two items of
one chain; a third adds no new pair. Every hazard needs at most one interruption of each kind beside
one send; two chats are independent because chains, policies and rows are per chat. Chains of two
entries contain "the same item twice" and "a predecessor", the only distinctions `Turn` makes. Two lists at
once are enough for what one of them may do to another: a list works on its own snapshot, and meets the
others in the rows and the policy only. The runs explore mixes of bounded events, kept apart by action
constraints in `MCOutbox`. `OrderMixes`: failing requests; a failing store; a change of policy with a failure
and a retry, or with a lock or a crash; a change that is taken back, with a flush; two locks; and two lists at
once beside a change of policy or a flush with one message, or after locks. `UndoMixes`: a crash or a store
failure; two lists at once without either, while nothing runs in the other tab. `Settling`: a lock and a
crash, or a failed request with one of them, one list at a time. What lies outside the mixes is covered for
the safety properties by the proofs, which know no such limit. The tabs are interchangeable, and so are the
lists, and two messages of a chat until they are queued, so the two safety runs use symmetry; the liveness
run does not.
*DeliverySync:* two events are the least with a hole (2 without 1), a moving replay window between
them, a head that is superseded by a newer one, and a failed task followed by a good one. Two
operations of each kind overlap across a lock. *WsClient:* two socket objects are the least in which
an old one's close event meets a new one; each interruption of a connection happens in every order
with the others. *ApiClient:* two tabs compete for one record, and three events are an expiry and a
loss in one tab beside a crash or a second expiry in the other; seven tokens are more than they can
propose. *Session:* three operations are a sign-in overtaken by a sign-out that is overtaken by a
sign-in of the other account. *AppLock:* one page, one read and one write beside the controller's one
operation; the instance with two events (462 k states, 4 minutes) passes as well. *Call:* two calls are
the least in which frames of one meet the other; three events let each pair of interruptions fall into
one call, or one into each of two. *Connection:* two calls are the least in which one overtakes another;
three events are two refreshes around a change of server, or a relay advertised, then pinned, beside
one interruption. A relay of the first server and none of the second tell whose addresses are in force,
and its threshold of one lets every failure rotate. With four events and two refreshes (797 k states,
4 minutes) it passes as well.

## Proofs

Each module below proves that an invariant holds of `Spec`, and from it the listed properties, for every
value of the constants that meets the assumptions of the component's module. The invariant is a
conjunction of named parts at the end of that module. TLC checked each one, within the bounds of the
component's runs, before it was proved; where a part turned out false or not inductive, the property
or the part was corrected, and where the cause is in the code it is listed
[below](#schedules-the-properties-except).

### OutboxProofs

For every set of tabs, finite sets of items, every set of chats and all bounds.

| theorem | states |
|---|---|
| `ClaimInvariant` | `Spec => []ClaimInv` |
| `TypeCorrect` | `Spec => []TypeOK` |
| `ExclusiveClaim` | `Spec => []ClaimExclusive`: at most one tab works on a row |
| `TurnsInChat` | `Spec => []OneFetchPerChat`: one request per chat and tab, also when a chain of before a pause is still running out |
| `QuietWhenLocked` | `Spec => []LockedQuiet`: no request of a locked or closed tab |
| `RowInvariant` | `Spec => []RowInv` |
| `HoldKept` | `Spec => []HoldRespected`: no delete is sent within its window |
| `UndoKept` | `Spec => []UndoHonoured`: a delete withdrawn within its window is never sent |
| `NothingLost` | `Spec => []NoLoss`: an accepted item is on disk until it is received or withdrawn |
| `OrderInvariant` | `Spec => []OrderInv` |
| `OrderKept` | `Spec => []OrderWhenHealthy`: messages of a session arrive in the order in which they were queued |
| `KeptInvariant` | `Spec => []KeptInv` |
| `KeptOnSwitch` | `Spec => []KeptWhenGoingCloudOnly`: while a chat becomes cloud-only beside any number of other lists, its only tab has every row it queued |

Assumptions: messages and deletes are disjoint and finite, every item has a chat, `Free` is not a tab,
the bounds are naturals.

*Claims.* None of the first three safety properties is inductive, and neither are the types alone:
`Finish` takes the tail of a chain, which must not be empty. `ClaimInv` adds three facts. `LeaseHeld`:
a running `sendClaimed()` holds its item's lease, which gives exclusion. `AtHead`: a send of the
current generation is first in its chain, so two of one chat are the same; that it stays first is
`HeadsKept`, since every other action only appends to chains and a pause, which empties them, clears
`live` in the same step. `CurrentIsLive`: only an open, unlocked tab has current sends, and only a
current send is in its request, because `pause()` aborts those that are; together with `AtHead` this
extends "one request" over a chain that a pause has orphaned.

*Rows.* The other three properties are about where copies of a row may be. `HeldUntouched`: while a
delete is held, every copy of it, stored, listed, read or about to be written, says "queued", and it is
on no chain, so that no sender reads it. `FixedPolicy`: without a transition a row of a durable chat is
never in RAM, and one of a cloud-only chat is known to one tab only; so a list moves nothing, only an
answered request or a `cancel()` deletes, and `cancel()` deletes the one copy there is. `WithdrawnGone`:
what is left of a delete withdrawn in time cannot become a row again. `NewOnes` (an item nobody queued
has left no trace) and `AddedOnce` (one enqueue per item, withdrawn only when acknowledged) carry the
start. The proof follows one item: each step is the item's own, a list of some tab, the world's, or
`Apart` from it (`Views`), and each part is kept in each of these cases.

*Order.* That a message arrives behind another says nothing about chains, of which every tab has its own
and which a lock drops, so `OrderInv`, given `RowInv`, follows what `j` waits for (`Needed(j)`: messages of
its session that were acknowledged before it and neither arrived nor failed) from the enqueue to the log.
`InSession`: a live session has its acknowledged messages on its chain, and the rows of a cloud-only chat in
its RAM, so that what `add()` appends comes behind them. `InLine`: wherever a chain has `j`, in any tab, it has
`Needed(j)` in front. `Listed`: a list of a resume that found the row of `j` found theirs too, because
`NoLoss` keeps them on disk; `Queued` makes the sorted listing a listing of all of them in their order.
`InTurn`: a send that begins is first of its chain and waits for nothing, and what begins late, an aborted
request or a retry, had begun before; a send that ends without a failure has delivered its message or found
no row, which happens only in a tab that never had it, or once it is done. `Stored` and `Failures` say that
only the call works on an item before its acknowledgement, and that "failed" is written of what failed. The
proof takes the parts one by one; `StepCases` sorts the steps by who takes them, and lemmas per kind of
state (`CallQueues`, `SendQueues`, `ListEnds`, `RamMoves`, `CallMoves`, `JobMoves`) say what each kind of step
does to it. TLC checked `OrderInv` before: all states of one tab with two durable messages (2.9 M) and with
two of a cloud-only chat (1.6 M), of two tabs with a cloud-only chat, and 2 M or more states of two tabs with
two durable messages and of a message and a delete; this is where the exception of `flush()` came up.

*A chat that becomes cloud-only.* With one tab, for any number of items, chats and lists at once. `KeptInv` has
four parts. `Copies`: what the session queued has a copy, or its first put is still to come; every write
leaves one in RAM, on disk or in a put under way (`CopyStays`). `Restores`: the second loop of a list drops
from RAM only what it has put, and between the put and the drop no send, call or other list of the tab takes
the row off the disk, because the tab keeps its chat (`StaysOnDisk`); this is what a switch in between would
break. `OneSwitch`: there is one transition, never one that makes a chat durable that was so at first, and
until it switches all of these are durable; without it the restore loop of a transition back would meet sends
that write under the old policy, which is a schedule below. `Leaves`: a row the transition has yet to evict is
not in RAM and no other list restores it, so that an eviction does not take from the disk what a list has
just put there. `ListSteps` and `ReconcileSteps` name the steps of a list and of its scan, `StillOrOwn` says
who else touches a row, `RamStays` what stays in RAM. TLC checked `KeptInv` before, with two lists at once
(692 k states).

### ApiClientProofs

For every set of tabs, every `MaxToken`, `MaxRetries` and `MaxEvents` (`MaxToken` not zero; `Nobody` is
not a tab).

| theorem | states |
|---|---|
| `ApiInvariant` | `Spec => []ApiInv` |
| `TypeCorrect` | `Spec => []TypeOK` |
| `RecordExchangeable` | `Spec => []JournalSound`: with Web Locks the stored record can be exchanged at any moment |
| `NeverLostToARace` | `Spec => []LostOnlyWhenRevoked`: no race, loss or crash looks like theft |
| `ExecutedOnce` | `Spec => []MutationOnce`: a write is executed once at most |

`JournalSound` is not inductive: a tab may commit what it proposed. `Rotating` says that a rotation on
the wire holds the lock and that the stored record is its pair; `Committed` that the server has rotated
for nobody else before the answer is handled; `NoVerdict` that nothing looks like theft before a
revocation. `Unexecuted` counts a mutation at each point of its request.

### WsClientProofs

For every set of socket objects and every `Limit`.

| theorem | states |
|---|---|
| `WsInvariant` | `Spec => []WsInv` |
| `TypeCorrect` | `Spec => []TypeOK` |
| `ShownOpenDelivers` | `Spec => []OpenDelivers`: "open" is shown only while something delivers or is about to end it |
| `SingleSocket` | `Spec => []SingleSocketSound`: without an overlap the live socket is the one in use, and the session is given up only after a revocation |

`OneAtATime` makes "no overlap" usable (one object or one refresh), `Referred` says that an object nobody
has closed is the one the client refers to, `Guarded` that after a refresh the token stays good until the
hello, unless it aged or was revoked.

### SessionProofs

For every set of accounts and every `MaxOps` and `MaxEvents` (accounts are positive numbers).

| theorem | states |
|---|---|
| `SessInvariant` | `Spec => []SessInv` |
| `TypeCorrect` | `Spec => []TypeOK` |
| `CacheIsOwned` | `Spec => []CacheOwned`: a running data plane has its own account's cache |
| `OneAccount` | `Spec => []OneIdentity`: identity, record and credentials are one account's when all has settled |
| `NothingLeftBehind` | `Spec => []SignedOutClean`: after a completed sign-out nothing is left, but for the holder when a refresh was late |

The properties speak of settled states or of a running data plane; the invariant has to follow the latest
operation through each of its awaits. `Still`: the data plane stands still until it is through.
`Reconciled`: its task is the last of the chain, and the cache is its own afterwards. `SignedOut`: from the
latest sign-out on nobody is signed in, no credential is committed, none is in the holder unless a refresh was
late, and behind its task only wipes wait. `Known`, `Awaited` and
`Chained` tie operations to server sessions, to the one refresh and to their tasks; `Identified` is
`OneIdentity` without the settling. Older operations are superseded: an action has to answer for the
latest one only, once the first lemmas have said what it leaves alone.

### CallProofs

For two devices, call ids without bound, and every `MaxCalls`, `MaxDesc` and `MaxEvents`.

| theorem | states |
|---|---|
| `CallInvariant` | `Spec => []CallInv` |
| `TypeCorrect` | `Spec => []TypeOK` |
| `MicrophoneReleased` | `Spec => []MediaReleased`: no session without its call, none forgotten but by a second tap |
| `TalkTogether` | `Spec => []SameCall`: two screens that are both active show the same call |
| `NotBroughtBack` | `Spec => NoResurrection`: a call that is over does not come back on the screen |

`MediaReleased` is about sessions, and what may open one is a promise under way: `JobsOfCall` says that a
promise that is not late belongs to the call on the screen, `OneOpening` that one opening is awaited at a
time, `Tapped` that a session is left behind only after a second tap on accept. All are about one
controller (`Sound`); the lemmas follow the controller's private methods in the order in which the
handlers compose them. `Sent` passes at most three frames to the server, which is what a handler sends
at most.

`SameCall` relates both controllers, the server and the frames under way; `ToldInv` is its invariant.
A description is known by its number. Whatever one end holds of the other, in a frame, in a promise under
way or in its session, is a description that the other made, as the one who called (`OfferOf`) or as the
one who was called (`AnswerOf`); and as long as an answer still describes its maker, its maker is in the
call it was made in. The media connect only between two ends that describe each other, and one of the two
descriptions is an answer, so both are in its call. `InRole` keeps the two kinds apart: who has called
never answers, and who was called never offers. TLC checked `ToldInv` on the instance of `call_pair`.

### ConnectionProofs

For every set of servers, relays and configurations, and every bound. Assumptions: every address belongs to
one server, a configuration lists addresses of the server that signed it, and each of them once
(`endpoints.ts:243-285` drops repetitions).

| theorem | states |
|---|---|
| `ConnInvariant` | `Spec => []ConnInv` |
| `TypeCorrect` | `Spec => []TypeOK` |
| `InForce` | `Spec => []ConfigInForce`: addresses and engine are those of the chosen server |
| `PinHolds` | `Spec => PinObeyed`: a pin in use is left only by failures, a newer configuration or another server |

`ConfigInForce` depends on what a refresh in flight will apply: `AsksThisServer` (it asks the server in
force unless it was begun during a change), `Cancelled` (a change of server cancels the one before it),
`EngineKept` (what the engine runs at each step of both). `PinObeyed` depends on calls in flight:
`NotPinned` says that a call which may still take the route has only the candidates of before any
configuration. `Carried` and `Refreshing` say that what an await carries is there.

### DeliverySyncProofs

For every set of tabs, every `MaxSeq` and every `Limit`: any number of events, locks, crashes, drops and
failures.

| theorem | states |
|---|---|
| `TypeCorrect` | `Spec => []TypeOK` |
| `ViewInvariant` | `Spec => []ViewInv` |
| `Complete` | `Spec => []ViewComplete`: the screens of a running engine miss nothing that was not skipped |
| `CacheInvariant` | `Spec => []CacheInv` |
| `CursorVouches` | `Spec => []CursorSound`: the durable cursor passes no event that a restart would miss |

*The view.* `Published`: nothing is ahead of the server. `Alive`: only an unlocked page runs its engine, and
only a running engine has a socket, a current poll or one current resync. `Chained`: what comes next over
any transport follows `lastSeq`, or the head the resync will have fetched, or an event in the buffer. It is
the buffer that makes this subtle: an event is accepted behind another one that waits, and draining it
leaves no hole because each waiting event follows an earlier one (`After`, by induction over the buffer).

*The cache.* `TaskShape` ties each task to the call that awaits it. `ResetLast`: the reset of a resync comes
after every event in the queue, so that one that fails rejects none; this is where the engine's buffer
protects the cache. `Ready` says that a start finds the queue at rest, `Behind` that the stored cursor is
not ahead of a running engine, `Swept` that a reset that has cleared the rows covers all the engine knows.
`Vouched` is the heart: for each cursor on its way to the disk, and for the engine's own, every event below
it is in the rows, wiped, skipped, ahead in the queue, or at or above `blocked`. Most steps take the first
task of a queue or append to its end; the lemmas `...Carried` and `...Grown` say what each kind of step
leaves of every part, `CacheKept` that the other tabs keep theirs.

`ApplyEach` is a recursive function. What it computes for every sequence is proved by well-founded
induction on a set (`SetInduction`, from the theorem of the library on minimal elements).

`CacheInv` was checked before it was proved on seven smaller instances: without crashes, request failures
or connections, with two locks, and with two tabs.

### AppLockProofs

For every `WipeAfter`, `BioLimit` and `MaxEvents`, from the assumptions that these are naturals and the
first two are not zero.

| theorem | states |
|---|---|
| `LockInvariant` | `Spec => []LockInv` |
| `TypeCorrect` | `Spec => []TypeOK`, with the limits of both attempt counters |
| `Implements` | `Spec => Promised`: the lock implements `Vault` |
| `LockGuarded` | `Spec => []Promise!Guarded`: open data has the door of the code and no plain row |
| `KeyStaysErased` | `Spec => Promise!StaysErased` |
| `IncidentExplained` | `Spec => []AlarmExplained`: the data-integrity incident has a cause |

The types are not inductive: that a failure is only counted below `WipeAfter` needs
`Counted` (an attempt beyond the limit costs a page that ends before the erasure), that a key is only
held over a container needs to know which operations can be under way. `OneContainer` ties the machine
to the container; `InItsPlace` says that what an operation found when it began still holds although it
does not look again (a lock may come between, an erasure cannot, because operations queue); `Migrated`
keeps the machine from being open to the application, and the second door from being set, while plain
rows may be left. The first lemmas say field by field what the operations do to the snapshot; then one
lemma per action keeps `LockInv`, and one per action names the action of `Vault` it amounts to, or the
stutter. `StepPromised` combines them under the mapping `Phase`, `Doors`, `Proved`. For the incident,
`Undisturbed` is kept on top of `LockInv`: until a row is altered, a wipe remains unfinished or the machine
changes under an operation, a row that cannot be opened is on its way out, every key under way is the one
of the rows, and a reader is in the mode in which it began. Both were checked by TLC with two wrong codes,
two biometric misses and two events (584 k states) before.

### Only model-checked

* Liveness, and whatever rests on fairness: `EventuallySettled`, `EventuallyCaughtUp`,
  `EventuallyConnected`, `RequestSettles`, `Settled`, `CallSettles`, `DirectRegained`. Temporal proofs under
  fairness need ENABLED, which is beyond this prover.

## Finding

* **A read may report an integrity violation where there is none** (`encrypted_store.ts:366` against
  `:69`). `get()` finds that there is no lock and awaits the plain row; `enable()` closes the
  passthrough meanwhile, so the row is refused as a violation, and the shell answers by signing out and
  erasing the container (`main.ts:903-912`). Run `lock_integrity_claim`.

## Schedules the properties except

Where a property names an exception, the code has a schedule that needs it. They were found by
checking the property without it.

Outbox
* One tab deletes a message; before the window is over another tab starts to change the chat's policy
  and scans the row; the first tab withdraws the delete and `cancel()` returns true; the transition
  evicts or restores its stale copy (`outbox.ts:134-139`), and the delete is sent. It takes two tabs,
  an enqueue, a cancel and one transition, and came up when `UndoHonoured` was to be proved: the bounds
  of `outbox_undo` have no transition.
* `cancel()` and `sendClaimed()` both read the row as queued; `cancel()` reports a removal
  (`outbox.ts:217-219`) and the send goes on with its copy. `UndoHonoured` shows that an undo inside
  the undo window is not affected.
* The catch block of a failed send writes the row without asking again whether the outbox was paused
  (`outbox.ts:402-406` against `:86`): in a cloud-only chat it returns to the RAM that `pause()` has
  just cleared.
* Leaving cloud-only while a send is running may drop the row (`outbox.ts:149` against `:134`): the
  send writes it under the old policy, and the continuation removes it from RAM.
* One tab has queued a message; another makes the chat cloud-only, evicts the row into its own RAM
  (`outbox.ts:139-143`) and is closed: the row is gone, although the session that queued it lives on.
  `KeptWhenGoingCloudOnly` is therefore about a device with one tab; two tabs need five steps.
* A chat becomes cloud-only in the only tab. The transition has put `m` into RAM and awaits its delete. The list
  of a `retryFailed()` that an `online` event started finds `m` in RAM while the chat is still durable and puts
  it (`outbox.ts:148`); the policy switches; the send of `m` that was running fails, writes its row into RAM
  under the new policy and deletes the stored one (`outbox.ts:164-165`); the list goes on and drops the
  row from RAM (`outbox.ts:149`). It is in neither place, against `outbox.ts:133`: "Reconcile pending rows
  after a T-529 policy change without dropping an operation". `KeptWhenGoingCloudOnly` excepts a switch while
  another list is putting rows back (`overlap`); without the exception TLC finds a loss in twelve states.
* A row written under the old policy after the scan stays on disk until the next `list()` (`outbox.ts:57`,
  `cache_policy.ts:54`); `KeptWhenGoingCloudOnly` only says that it is somewhere.
* `OrderWhenHealthy` excuses items that failed once: a retry appends them behind their successors
  (`outbox.ts:405` against `:10-11`).
* Two messages of a chat are queued in one tab, and the first is being sent, so that its row says "sending".
  `flush()` in another tab lists both and schedules the queued one only (`outbox.ts:300-305`), which may
  arrive first. `OrderWhenHealthy` therefore excepts `flush()`, which no code calls; the schedule came up when
  its invariant was checked with two tabs.

DeliverySync
* A poll answering during a resync moves `lastSeq` over the events it buffers, which then count as
  duplicates (`sync.ts:289` against `:190`). If the socket drops, or the tab locks, before the refetch
  ends, neither the snapshot nor the buffer delivers them (`skipped`).
* A `startSync` that a lock has overtaken waits for `getCursor()` while the next one starts the engine:
  its `setCursor()` moves the running engine forward over events nobody has received (`main.ts:1943`,
  `sync.ts:110`; `skipped`).
* The same call may be the one that starts the engine, with a cursor it read before the lock, while
  tasks of the former lifecycle, or a failed reset, are still in the queue (`late`). After a failed reset
  `enqueue()` rejects an event before `apply()` can block the cursor (`cache.ts:243` against `:78`), and
  the cursor behind it is stored once the next reset has cleared the failure.
* A tab that resyncs stores the server's head while another tab is closed before it has cached an
  event below it (`cache.ts:236` against `sync.ts:206`): after a wipe `CursorSound` is promised to one
  tab only.

WsClient
* After an auth timeout `dropAndReconnect()` schedules a reconnect and so does the late close event of
  the dropped socket (`ws.ts:303`). The extra socket may be refused beside a refresh under way, find
  `didRefreshThisCycle` spent, and end the session although nobody revoked it (against `ws.ts:54`);
  `SingleSocketSound` excepts runs with such an overlap (`overlap`). A socket nobody refers to any more may also
  receive its hello after `close()` and show "open".
* `didRefreshThisCycle` is cleared by a hello, a failed refresh and `start()`, not by a drop
  (`ws.ts:233`, `:332`, `:144`). When the network goes after a successful refresh and before the hello, and
  comes back after the access token has expired, the 4401 that follows ends the session without asking
  for a refresh (`ws.ts:320`), and the local data is wiped, against `ws.ts:49`: "Fired ONLY after a
  refresh attempt is rejected by the server (T-421); a plain access-token expiry is recovered
  transparently, not fatal". `SingleSocketSound` excepts it (`aged`); without `\/ aged` TLC finds it in
  ten states.

Session (`late`)
* `wipe`: a sign-out's physical wipe is queued after the flush of the vault without asking
  `isCurrent()` (`session.ts:566`), and may clear the cache of an account that has signed in meanwhile,
  against `ui/test/session_races.test.ts:1`.
* `refresh`: a background refresh for the account before is answered after the switch and writes its
  tokens into the shared holder; `rotate()` returns early when the stored user differs
  (`refresh_lock.ts:37`), so nothing corrects it. The same refresh, in flight when a sign-out runs
  `clearLocal()`, puts a live access token of the account that has left into the holder
  (`api.ts:493-496`), against `session.ts:539`: "Wipe ALL local state WITHOUT a server round-trip: the
  in-memory access token + the persisted refresh/user slice". `SignedOutClean` excepts the holder, and only
  the holder, when a refresh was late; without the exception TLC finds it.
* `restore`: a superseded restore puts the committed credentials back (`session.ts:276`) while a newer
  sign-in has set its own, which are not committed yet or, when it was itself overtaken, never will be.

AppLock
* `AlarmExplained` admits `overtaken`, of which the finding is one case. Others: a lock before the
  migration has imported its key makes it seal rows under zeros and commit; a read holding a buffer
  that is zeroed before it is imported; a sealed write in flight across a wipe leaves an orphan row;
  a lock after the migration's batch leaves a zeroed key that writes of the next unlock may use.
* A page that ends between saving the last failed attempt (`app_lock.ts:1087`) and the erasure earns
  one more attempt.

Call
* A second tap on accept while the first one makes its answer leaves the first session open, and its
  failure hangs up the good call (`call_model.ts:346`; the button stays, `call_overlay.ts:381`).
* Hanging up before `call.ringing` sends nothing (`call_model.ts:372`): the callee rings until the
  server's timeout, and the late `call.ringing` is adopted by the next dial (`call_model.ts:444`).
* Two people who call each other at once refuse each other as busy (`call_model.ts:502`).

Connection
* A refresh that the hourly timer starts while `serverPort.save()` awaits the sign-out is not cancelled;
  `setPrimary()` does not cancel it either and `syncServerConfig()` coalesces with it
  (`main.ts:1398`, `:1904`, `:1408`). The old server's answer is applied to the new one, and later
  requests may go to the old server's relay, against `main.ts:1886` and `endpoints.ts:306-307`.
* Because probes are traffic (`main.ts:931`), a failed probe of another candidate, or the late failure
  of a request to another address, counts against the current one (`endpoints.ts:431`, against
  `endpoints.ts:150`, and `conn_manager.ts:352` and `:408`, by which a probe leaves the route alone).
  With a threshold of one the client may keep moving between direct and a dead relay, which is why
  `DirectRegained` says "again and again" and not "for good".
* Auto-failover switched off while `connect()` awaits its memory or a probe does not stop that call from
  selecting (`conn_manager.ts:357-359`).
* A configuration that withdraws the active relay moves the route without a status notice
  (`conn_manager.ts:441`).
* `serverPort.save()` gives up when the engine does not stop (`main.ts:1404`): the user is signed out
  of the old server, which stays configured.

## What is not modelled

*Outbox and DeliverySync:* payloads, attempt counts, error texts and the user-visible states derived
from them; ties of `created_at`; the fallback without `navigator.locks`; the failure of persisting a
policy, and of loading it (a load that fails twice leaves every chat RAM-only; it is awaited before the
outbox is used, `main.ts:2108`, `:1941`); `pause()` for another reason than the app lock, such as a sign-out that
wipes the store as well; an engine that was never seeded; the individual screens behind `onResync`, of which
`calls_screen.ts:424` answers with a detached load; the read-modify-write of chat summaries inside a
cached event; volatile events, which carry no sequence number. *WsClient:* backoff delays, the
watchdog, frames other than auth and hello. *ApiClient:* timeouts (a failure like others), caller
aborts, suspended accounts, the desktop keyring's flush; a request of a closed tab is handled at once
or never. *Session:* container locks, proof of work, the polls of a QR sign-in. *AppLock:* delays after
wrong codes, cold entry, policies, other tabs' snapshots, media files, failed writes of
`localStorage`. *Call:* `destroy()`, which no code calls, other devices of the same person
(`call.taken`), mute, camera, quality, device choice, a rejected `restartOffer()`, more than one
candidate per session. *Connection:* health records, `lastConfigReject` and the status callback, the
order and weights of advertised entries, a configuration without some of its fields, expiry as such (the
memory may be gone whenever it is read), the fallback addresses (none in this build), more than one
network and more than one request of ordinary traffic; a second `serverPort.save()` beside the first, which
the screen's `busy` flag refuses (`server_screen.ts:76`) as long as the user does not leave the screen and open
it again meanwhile. The other components: see the inventory.

## Plan

Each module keeps its parameters as constants with assumptions, one action per operation and no
`RECURSIVE` operator, so that it can be proved about.

1. `Session` composed with the start and stop of `DeliverySync` (`main.ts:1943`: the late answer for the
   cursor of the account before).
2. `Conference`, then `MediaCache`, `Upload`, `Retention`, `SessionQuality`.
3. Abstract specifications: `Queue` (per-chat sequence of accepted operations, each received or
   withdrawn) implemented by `Outbox`; `Feed` (a view that is a prefix of the log) implemented by
   `DeliverySync`.
