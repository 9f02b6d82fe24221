---------------------------- MODULE DeliverySync ----------------------------
(***************************************************************************)
(* Durable event delivery of the web shell: SyncEngine (core/src/sync.ts), *)
(* CacheSync (core/src/cache.ts) and the wiring of the two in main.ts.     *)
(*                                                                         *)
(* Every tab runs one engine.  It learns about events from a WebSocket and *)
(* from a long-poll loop, drops what it has already applied, hands the     *)
(* rest to the screens, and queues the cache writes.  The cache (rows) and *)
(* the durable cursor live in the IndexedDB that all tabs share.           *)
(*                                                                         *)
(* A step is one resumption of a JavaScript function: it runs to its next  *)
(* await.  An event is its sequence number.  Comparing a generation with   *)
(* the current one is represented by the flag cur of the operation that    *)
(* captured it, which the step that bumps the generation clears.  The      *)
(* socket is WsClient as the engine sees it: one connection at a time.     *)
(*                                                                         *)
(* The server is external: a log of head events of which those up to low   *)
(* have left the replay window, never to come back.                        *)
(***************************************************************************)
EXTENDS Naturals, Sequences, SequencesExt

CONSTANTS
    Tabs,       \* pages of one account on one device
    MaxSeq,     \* events the server publishes (a bound)
    Limit       \* how often each environment event may happen (a bound)

Events == {"crash", "lock", "connect", "drop", "netFail", "storeFail"}

ASSUME MaxSeqAssumption == MaxSeq \in Nat
ASSUME LimitAssumption  == Limit \in [Events -> Nat]

Seqs  == 1..MaxSeq
Seqs0 == 0..MaxSeq

\* Resync operations, or calls of startSync, alive in a tab: the current one, and
\* one that each lock has left behind in its await.
Slots == 1..(Limit["lock"] + 1)

VARIABLES
    head, low,  \* server: the last event; the last one out of the window
    rows,       \* disk: events folded into the cached messages and chats
    cursor,     \* disk: meta/last_seq, 0 when absent
    app,        \* the tab: closed, locked (no K_db), or unlocked
    syncing,    \* main.ts: startSync has been entered
    boot,       \* startSync calls
    running,    \* this.running
    lastSeq,    \* this.lastSeq
    socket,     \* this.ws
    polls,      \* pollLoop() calls
    ops,        \* handleResync() operations; the current one is resyncInFlight
    resyncHead, \* this.resyncHead, 0 for null
    buffer,     \* this.resyncBuffer
    queue,      \* CacheSync.chain: tasks that have not finished
    failed,     \* resetFailure is set
    blocked,    \* blockedCursorAt, 0 for null
    seen,       \* history: events the tab's screens reflect
    wiped,      \* history: the newest event when the cached rows were last cleared
    skipped,    \* history: events lastSeq has passed without delivering them
    late,       \* history: a startSync that a lock has overtaken began with an old cursor
    used        \* how often each bounded event has happened

server == <<head, low>>
disk   == <<rows, cursor>>
shell  == <<app, syncing, boot>>
engine == <<running, resyncHead, buffer, ops>>
net    == <<socket, polls>>
cache  == <<failed, blocked>>
flow   == <<lastSeq, queue, seen>>
gone   == <<skipped, late>>
vars   == <<server, disk, shell, engine, net, cache, flow, wiped, gone, used>>

Happens(e) == used[e] < Limit[e] /\ used' = [used EXCEPT ![e] = @ + 1]

-----------------------------------------------------------------------------
(* Tasks of the cache queue, resync operations, polls and sockets.         *)

ApplyTask(s)  == [kind |-> "apply", arg |-> s, step |-> "start"]
CursorTask(n) == [kind |-> "cursor", arg |-> n, step |-> "start"]
ResetTask(k)  == [kind |-> "reset", arg |-> k, step |-> "start"]
SeedTask(k)   == [kind |-> "seed", arg |-> k, step |-> "start"]

Task == [kind : {"apply"}, arg : Seqs, step : {"start"}]
   \cup [kind : {"cursor"}, arg : Seqs0, step : {"start", "put"}]
   \cup [kind : {"reset"}, arg : Slots, step : {"start", "cleared", "dirty"}]
   \cup [kind : {"seed"}, arg : Slots, step : {"start"}]
Call == [st : {"none", "prelude", "queued", "read"}, cur : BOOLEAN, read : Seqs0]
Op   == [st : {"none", "reset", "fetch", "sleep"}, cur : BOOLEAN,
         target : Seqs0, at : Seqs0]
Poll == [cur : BOOLEAN, st : {"asked", "answered", "barrier", "sleep"},
         since : Seqs0, upto : Seqs0, resync : BOOLEAN]
Socket == [st : {"down", "auth", "hello", "open"}, since : Seqs0,
           resync : BOOLEAN, last : Seqs0, next : 1..(MaxSeq + 1)]

NoCall == [st |-> "none", cur |-> FALSE, read |-> 0]
NoOp == [st |-> "none", cur |-> FALSE, target |-> 0, at |-> 0]
Resetting(n) == [st |-> "reset", cur |-> TRUE, target |-> n, at |-> 0]
Down == [st |-> "down", since |-> 0, resync |-> FALSE, last |-> 0, next |-> 1]
Ask(n) == [cur |-> TRUE, st |-> "asked", since |-> n, upto |-> 0, resync |-> FALSE]

CurrentOps(t)   == {k \in Slots : ops[t][k].cur}
ResyncInFlight(t) == CurrentOps(t) # {}
FreeSlots(t)    == {k \in Slots : ops[t][k].st = "none"}
FreeCalls(t)    == {k \in Slots : boot[t][k].st = "none"}

-----------------------------------------------------------------------------
(* What the engine does with one event, or with a newer cursor: the values *)
(* of lastSeq, queue and seen a tab goes through.                          *)

Flow(t) == [last |-> lastSeq[t], queue |-> queue[t], seen |-> seen[t]]

FlowBecomes(t, f) ==
    /\ lastSeq' = [lastSeq EXCEPT ![t] = f.last]
    /\ queue'   = [queue EXCEPT ![t] = f.queue]
    /\ seen'    = [seen EXCEPT ![t] = f.seen]

ApplyEventNow(f, s) ==
    IF s <= f.last
    THEN f
    ELSE [last  |-> s,
          queue |-> f.queue \o <<ApplyTask(s), CursorTask(s)>>,
          seen  |-> f.seen \cup {s}]

ApplyEach(f, es) ==
    LET after[i \in 0..Len(es)] ==
            IF i = 0 THEN f ELSE ApplyEventNow(after[i - 1], es[i])
    IN  after[Len(es)]

\* A newer cursor without events: next_since of a poll, or the head of a snapshot.
AdvanceTo(f, n) ==
    IF n <= f.last
    THEN f
    ELSE [f EXCEPT !.last = n, !.queue = Append(@, CursorTask(n))]

\* Durable events wait behind a snapshot that is being loaded.
BuffersNothing(t) == FALSE                                           \* faulty
Buffers(t) == ResyncInFlight(t)

\* lastSeq passes the events up to n, and nobody has received them.
Skips(t, n) == skipped' = [skipped EXCEPT ![t] = @ \cup (lastSeq[t] + 1)..n]

\* A batch reaches the engine; then comes its next_since (0: it has none), which
\* moves lastSeq over what has just been buffered.
ApplyBatch(t, es, next) ==
    IF Buffers(t)
    THEN /\ buffer' = [buffer EXCEPT ![t] = @ \o es]
         /\ FlowBecomes(t, AdvanceTo(Flow(t), next))
         /\ Skips(t, next)
    ELSE /\ FlowBecomes(t, AdvanceTo(ApplyEach(Flow(t), es), next))
         /\ UNCHANGED <<buffer, skipped>>

-----------------------------------------------------------------------------
(* Resync.  A round discards the cached snapshot and refetches.            *)

Round(t, k, f, target) ==
    /\ ops' = [ops EXCEPT ![t][k] = Resetting(target)]
    /\ FlowBecomes(t, [f EXCEPT !.queue = Append(@, ResetTask(k))])
    /\ failed' = [failed EXCEPT ![t] = FALSE]

HandleResync(t, h) ==
    LET newest == Max({resyncHead[t], h}) IN
    /\ resyncHead' = [resyncHead EXCEPT ![t] = newest]
    /\ IF ResyncInFlight(t)
       THEN UNCHANGED <<ops, flow, failed>>
       ELSE \E k \in FreeSlots(t) :
                /\ k = Min(FreeSlots(t))
                /\ Round(t, k, Flow(t), newest)

OpEnds(t, k) == ops' = [ops EXCEPT ![t][k] = NoOp]

\* The lifecycle the operation belongs to is over.
Abandoned(t, k) == ~ops[t][k].cur

\* A newer resync signal arrived while the snapshot was loading.
Superseded(t, k) == ops[t][k].target # resyncHead[t]

\* Every screen has refetched.  The snapshot covers what was on the server
\* when the requests were issued; screens of an older lifecycle are gone.
Refetched(t, k) ==
    LET o == ops[t][k]
        f == [Flow(t) EXCEPT !.seen = @ \cup 1..o.at]
    IN
    /\ o.st = "fetch"
    /\ \/ /\ Abandoned(t, k)
          /\ OpEnds(t, k)
          /\ UNCHANGED <<flow, failed, resyncHead, buffer>>
       \/ /\ ~Abandoned(t, k) /\ Superseded(t, k)
          /\ Round(t, k, f, resyncHead[t])
          /\ UNCHANGED <<resyncHead, buffer>>
       \/ /\ ~Abandoned(t, k) /\ ~Superseded(t, k)
          /\ FlowBecomes(t, ApplyEach(AdvanceTo(f, o.target), buffer[t]))
          /\ buffer' = [buffer EXCEPT ![t] = <<>>]
          /\ resyncHead' = [resyncHead EXCEPT ![t] = 0]
          /\ OpEnds(t, k)
          /\ UNCHANGED failed
    /\ UNCHANGED <<server, disk, shell, running, net, blocked, wiped, used, gone>>

\* onResync rejects: back off, unless the lifecycle is over.
Rejects(t, k) ==
    IF Abandoned(t, k)
    THEN OpEnds(t, k)
    ELSE ops' = [ops EXCEPT ![t][k].st = "sleep"]

RefetchFails(t, k) ==
    /\ ops[t][k].st = "fetch"
    /\ Happens("netFail")
    /\ Rejects(t, k)
    /\ UNCHANGED <<server, disk, shell, running, resyncHead, buffer, net, cache, flow, wiped, gone>>

OpWakes(t, k) ==
    /\ ops[t][k].st = "sleep"
    /\ \/ /\ Abandoned(t, k)
          /\ OpEnds(t, k)
          /\ UNCHANGED <<flow, failed>>
       \/ /\ ~Abandoned(t, k)
          /\ Round(t, k, Flow(t), resyncHead[t])
    /\ UNCHANGED <<server, disk, shell, running, resyncHead, buffer, net, blocked, used, wiped, gone>>

-----------------------------------------------------------------------------
(* The long-poll loop.                                                     *)

\* pollLoopActive, which bumping the generation clears.
AnyLoop(ps) == ps # {}                                               \* faulty
PollActive(ps) == \E p \in ps : p.cur

\* The generation is bumped.  A loop without an answer under way is forgotten
\* at once: what it gets later it drops.
Supersede(ps) == {[p EXCEPT !.cur = FALSE] : p \in {q \in ps : q.st = "answered"}}

\* ensurePolling, called when the socket is not open.
EnsurePolling(ps, n) == IF PollActive(ps) THEN ps ELSE ps \cup {Ask(n)}

PollBecomes(t, p, qs) == polls' = [polls EXCEPT ![t] = (@ \ {p}) \cup qs]

\* gen # this.pollGeneration
Stale(p) == ~p.cur

\* The server answers a poll when it has news; the batch may be cut short.
ServerAnswers(t, p) ==
    /\ p.st = "asked"
    /\ \/ /\ p.since < low
          /\ PollBecomes(t, p, {[p EXCEPT !.st = "answered", !.resync = TRUE, !.upto = head]})
       \/ /\ p.since >= low
          /\ \E n \in (p.since + 1)..head :
                PollBecomes(t, p, {[p EXCEPT !.st = "answered", !.upto = n]})
    /\ UNCHANGED <<server, disk, shell, engine, socket, cache, flow, used, wiped, gone>>

PollReturns(t, p) ==
    /\ p.st = "answered"
    /\ \/ /\ Stale(p)
          /\ PollBecomes(t, p, {})
          /\ UNCHANGED <<engine, failed, flow, skipped>>
       \/ /\ ~Stale(p) /\ p.resync
          /\ HandleResync(t, p.upto)
          /\ PollBecomes(t, p, {[p EXCEPT !.st = "barrier"]})
          /\ UNCHANGED <<running, buffer, skipped>>
       \/ /\ ~Stale(p) /\ ~p.resync
          /\ ApplyBatch(t, [i \in 1..(p.upto - p.since) |-> p.since + i], p.upto)
          /\ PollBecomes(t, p, {Ask(lastSeq'[t])})
          /\ UNCHANGED <<running, resyncHead, ops, failed>>
    /\ UNCHANGED <<server, disk, shell, socket, blocked, late, used, wiped>>

PollFails(t, p) ==
    /\ p.st \in {"asked", "answered"} /\ p.cur
    /\ Happens("netFail")
    /\ PollBecomes(t, p, {[p EXCEPT !.st = "sleep"]})
    /\ UNCHANGED <<server, disk, shell, engine, socket, cache, flow, wiped, gone>>

\* The loop comes round after its sleep, or after the barrier has opened.
PollResumes(t, p) ==
    /\ \/ p.st = "sleep"
       \/ p.st = "barrier" /\ ~ResyncInFlight(t)
    /\ PollBecomes(t, p, {Ask(lastSeq[t])})
    /\ UNCHANGED <<server, disk, shell, engine, socket, cache, flow, used, wiped, gone>>

-----------------------------------------------------------------------------
(* The socket.                                                             *)

SocketBecomes(t, s) == socket' = [socket EXCEPT ![t] = s]

\* onopen sends auth with since = the engine's lastSeq.
Connects(t) ==
    /\ running[t] /\ socket[t].st = "down"
    /\ Happens("connect")
    /\ SocketBecomes(t, [Down EXCEPT !.st = "auth", !.since = lastSeq[t]])
    /\ UNCHANGED <<server, disk, shell, engine, polls, cache, flow, wiped, gone>>

\* The stream goes on after since, or after the head that hello announces.
ServerGreets(t) ==
    LET s == socket[t] IN
    /\ s.st = "auth"
    /\ SocketBecomes(t, [s EXCEPT !.st = "hello", !.resync = s.since < low, !.last = head,
                                  !.next = 1 + IF s.since < low THEN head ELSE s.since])
    /\ UNCHANGED <<server, disk, shell, engine, polls, cache, flow, used, wiped, gone>>

HelloArrives(t) ==
    LET s == socket[t] IN
    /\ s.st = "hello"
    /\ SocketBecomes(t, [s EXCEPT !.st = "open"])
    /\ polls' = [polls EXCEPT ![t] = Supersede(@)]
    /\ IF s.resync
       THEN HandleResync(t, s.last)
       ELSE UNCHANGED <<ops, resyncHead, failed, flow>>
    /\ UNCHANGED <<server, disk, shell, running, buffer, blocked, used, wiped, gone>>

EventArrives(t) ==
    LET s == socket[t] IN
    /\ s.st = "open" /\ s.next <= head
    /\ SocketBecomes(t, [s EXCEPT !.next = @ + 1])
    /\ ApplyBatch(t, <<s.next>>, 0)
    /\ UNCHANGED <<server, disk, shell, running, ops, resyncHead, polls, cache, late, used, wiped>>

SocketDrops(t) ==
    /\ socket[t].st # "down"
    /\ Happens("drop")
    /\ SocketBecomes(t, Down)
    /\ polls' = [polls EXCEPT ![t] = EnsurePolling(@, lastSeq[t])]
    /\ UNCHANGED <<server, disk, shell, engine, cache, flow, wiped, gone>>

-----------------------------------------------------------------------------
(* The cache queue: one task at a time, in order.                          *)

HeadIs(t, kind, step) ==
    queue[t] # <<>> /\ queue[t][1].kind = kind /\ queue[t][1].step = step

Arg(t) == queue[t][1].arg

TaskEnds(t) == queue' = [queue EXCEPT ![t] = Tail(@)]
TaskMoves(t, step) == queue' = [queue EXCEPT ![t][1].step = step]

\* The store is out of reach: K_db is gone (currentKey throws).
Locked(t) == app[t] # "unlocked"

\* The event's transaction rejects: its seq, and all later ones, are not to be
\* acknowledged on disk.
Block(t, s) ==
    blocked' = [blocked EXCEPT ![t] = IF @ = 0 THEN s ELSE Min({@, s})]

ApplyRuns(t) ==
    /\ HeadIs(t, "apply", "start")
    /\ TaskEnds(t)
    /\ \/ /\ failed[t]                      \* enqueue() throws before the task
          /\ UNCHANGED <<rows, blocked>>
       \/ /\ ~failed[t] /\ Locked(t)
          /\ Block(t, Arg(t))
          /\ UNCHANGED rows
       \/ /\ ~failed[t] /\ ~Locked(t)
          /\ rows' = rows \cup {Arg(t)}
          /\ UNCHANGED blocked
    /\ UNCHANGED <<server, cursor, shell, engine, net, failed, lastSeq, seen, used, wiped, gone>>

ApplyFails(t) ==
    /\ HeadIs(t, "apply", "start")
    /\ ~failed[t] /\ ~Locked(t)
    /\ Happens("storeFail")
    /\ TaskEnds(t)
    /\ Block(t, Arg(t))
    /\ UNCHANGED <<server, disk, shell, engine, net, failed, lastSeq, seen, wiped, gone>>

\* lastSeq >= this.blockedCursorAt
WithheldNever(t, n) == FALSE                                         \* faulty
Withheld(t, n) == blocked[t] # 0 /\ n >= blocked[t]

\* setCursor: the guards and the read.
CursorReads(t) ==
    /\ HeadIs(t, "cursor", "start")
    /\ IF failed[t] \/ Withheld(t, Arg(t)) \/ Locked(t) \/ Arg(t) <= cursor
       THEN TaskEnds(t)
       ELSE TaskMoves(t, "put")
    /\ UNCHANGED <<server, disk, shell, engine, net, cache, lastSeq, seen, used, wiped, gone>>

\* setCursor: the write.
CursorPuts(t) ==
    /\ HeadIs(t, "cursor", "put")
    /\ TaskEnds(t)
    /\ cursor' = IF Locked(t) THEN cursor ELSE Arg(t)
    /\ UNCHANGED <<server, rows, shell, engine, net, cache, lastSeq, seen, used, wiped, gone>>

\* A read or a write of setCursor rejects; nobody is told.
CursorFails(t) ==
    /\ queue[t] # <<>> /\ queue[t][1].kind = "cursor"
    /\ ~failed[t] /\ ~Locked(t)
    /\ Happens("storeFail")
    /\ TaskEnds(t)
    /\ UNCHANGED <<server, disk, shell, engine, net, cache, lastSeq, seen, wiped, gone>>

\* reset: messages and chats are cleared, key or no key.
ResetClears(t) ==
    /\ HeadIs(t, "reset", "start")
    /\ \/ /\ TaskMoves(t, "cleared")
          /\ rows' = {} /\ wiped' = head
          /\ UNCHANGED used
       \/ /\ Happens("storeFail")
          /\ TaskMoves(t, "dirty")
          /\ UNCHANGED <<rows, wiped>>
    /\ UNCHANGED <<server, cursor, shell, engine, net, cache, lastSeq, seen, gone>>

\* epoch = this.resetEpoch: no later reset() has been called.
NewestReset(t) == \A i \in 2..Len(queue[t]) : queue[t][i].kind # "reset"

\* reset: the cursor is deleted and the outcome of the reset is known.
ResetEnds(t, ok) ==
    LET k == Arg(t) IN
    /\ TaskEnds(t)
    /\ IF ok
       THEN /\ blocked' = [blocked EXCEPT ![t] = IF NewestReset(t) THEN 0 ELSE @]
            /\ ops' = [ops EXCEPT ![t][k] = [@ EXCEPT !.st = "fetch", !.at = head]]
            /\ UNCHANGED failed
       ELSE /\ failed' = [failed EXCEPT ![t] = @ \/ NewestReset(t)]
            /\ Rejects(t, k)
            /\ UNCHANGED blocked

ResetDeletes(t) ==
    /\ \/ HeadIs(t, "reset", "cleared") \/ HeadIs(t, "reset", "dirty")
    /\ \/ /\ cursor' = 0
          /\ ResetEnds(t, HeadIs(t, "reset", "cleared"))
          /\ UNCHANGED used
       \/ /\ Happens("storeFail")
          /\ ResetEnds(t, FALSE)
          /\ UNCHANGED cursor
    /\ UNCHANGED <<server, rows, shell, running, resyncHead, buffer, net, lastSeq, seen, wiped, gone>>

-----------------------------------------------------------------------------
(* main.ts: startSync, stopDataPlane and the application lock.             *)

\* startSync, up to its first await.
StartSync(t) ==
    IF syncing[t]
    THEN UNCHANGED <<syncing, boot>>
    ELSE /\ syncing' = [syncing EXCEPT ![t] = TRUE]
         /\ \E k \in FreeCalls(t) :
                /\ k = Min(FreeCalls(t))
                /\ boot' = [boot EXCEPT ![t][k] = [st |-> "prelude", cur |-> TRUE, read |-> 0]]

CallEnds(t, k) == boot' = [boot EXCEPT ![t][k] = NoCall]

\* startSync swallows a rejection.
CallRejects(t, k) ==
    /\ CallEnds(t, k)
    /\ syncing' = [syncing EXCEPT ![t] = FALSE]

\* localCachePolicy.load and outbox.applyPersistencePolicy are done; getCursor
\* waits for the queue as it is now.
PreludeEnds(t, k) ==
    /\ boot[t][k].st = "prelude"
    /\ boot' = [boot EXCEPT ![t][k].st = "queued"]
    /\ queue' = [queue EXCEPT ![t] = Append(@, SeedTask(k))]
    /\ UNCHANGED <<server, disk, app, syncing, engine, net, cache, lastSeq, seen, used, wiped, gone>>

\* One of the three rejects: the key is gone, or the store fails.
PreludeFails(t, k) ==
    /\ boot[t][k].st = "prelude"
    /\ (Locked(t) /\ UNCHANGED used) \/ Happens("storeFail")
    /\ CallRejects(t, k)
    /\ UNCHANGED <<server, disk, app, engine, net, cache, flow, wiped, gone>>

\* getCursor: ready(), then the read.
SeedReads(t) ==
    /\ HeadIs(t, "seed", "start")
    /\ TaskEnds(t)
    /\ IF failed[t] \/ Locked(t)
       THEN CallRejects(t, Arg(t))
       ELSE /\ boot' = [boot EXCEPT ![t][Arg(t)] = [@ EXCEPT !.st = "read", !.read = cursor]]
            /\ UNCHANGED syncing
    /\ UNCHANGED <<server, disk, app, engine, net, cache, lastSeq, seen, used, wiped, gone>>

SeedFails(t) ==
    /\ HeadIs(t, "seed", "start")
    /\ Happens("storeFail")
    /\ TaskEnds(t)
    /\ CallRejects(t, Arg(t))
    /\ UNCHANGED <<server, disk, app, engine, net, cache, lastSeq, seen, wiped, gone>>

\* The cache has moved on, or is about to, since a stopped engine's cursor was read.
Outdated(t, n) ==
    n # cursor \/ failed[t] \/ \E i \in 1..Len(queue[t]) : queue[t][i].kind # "seed"

\* setCursor: exact while the engine is stopped, forward only while it runs.
SeedAfter(t, n) == n + 1                                             \* faulty
SeedOf(t, n) == IF running[t] THEN Max({lastSeq[t], n}) ELSE n

SeedUsed(t, k) ==
    LET n == boot[t][k].read IN
    /\ boot[t][k].st = "read"
    /\ CallEnds(t, k)
    /\ lastSeq' = [lastSeq EXCEPT ![t] = SeedOf(t, n)]
    /\ IF Locked(t)
       THEN /\ syncing' = [syncing EXCEPT ![t] = FALSE]
            /\ UNCHANGED <<running, seen, polls, gone>>
       ELSE /\ running' = [running EXCEPT ![t] = TRUE]
            /\ IF running[t]
               THEN /\ Skips(t, n)
                    /\ UNCHANGED <<seen, polls, late>>
               ELSE /\ seen' = [seen EXCEPT ![t] = 1..n]
                    /\ polls' = [polls EXCEPT ![t] = EnsurePolling(@, n)]
                    /\ late' = (late \/ (~boot[t][k].cur /\ Outdated(t, n)))
                    /\ UNCHANGED skipped
            /\ UNCHANGED syncing
    /\ UNCHANGED <<server, disk, app, resyncHead, buffer, ops, socket, cache, queue, used, wiped>>

\* SyncEngine.stop
Stop(t) ==
    /\ running'    = [running EXCEPT ![t] = FALSE]
    /\ ops'        = [ops EXCEPT ![t] = [k \in Slots |-> [@[k] EXCEPT !.cur = FALSE]]]
    /\ resyncHead' = [resyncHead EXCEPT ![t] = 0]
    /\ buffer'     = [buffer EXCEPT ![t] = <<>>]
    /\ polls'      = [polls EXCEPT ![t] = Supersede(@)]
    /\ SocketBecomes(t, Down)

Lock(t) ==
    /\ app[t] = "unlocked"
    /\ Happens("lock")
    /\ app' = [app EXCEPT ![t] = "locked"]
    /\ syncing' = [syncing EXCEPT ![t] = FALSE]
    /\ boot' = [boot EXCEPT ![t] = [k \in Slots |-> [@[k] EXCEPT !.cur = FALSE]]]
    /\ Stop(t)
    /\ UNCHANGED <<server, disk, cache, flow, wiped, gone>>

Unlock(t) ==
    /\ app[t] = "locked"
    /\ app' = [app EXCEPT ![t] = "unlocked"]
    /\ StartSync(t)
    /\ UNCHANGED <<server, disk, engine, net, cache, flow, used, wiped, gone>>

Open(t) ==
    /\ app[t] = "closed"
    /\ app' = [app EXCEPT ![t] = "unlocked"]
    /\ StartSync(t)
    /\ UNCHANGED <<server, disk, engine, net, cache, flow, used, wiped, gone>>

\* The page goes away, with whatever it had not written.
Crash(t) ==
    /\ app[t] # "closed"
    /\ Happens("crash")
    /\ app'     = [app EXCEPT ![t] = "closed"]
    /\ syncing' = [syncing EXCEPT ![t] = FALSE]
    /\ boot'    = [boot EXCEPT ![t] = [k \in Slots |-> NoCall]]
    /\ running' = [running EXCEPT ![t] = FALSE]
    /\ ops'     = [ops EXCEPT ![t] = [k \in Slots |-> NoOp]]
    /\ resyncHead' = [resyncHead EXCEPT ![t] = 0]
    /\ buffer'  = [buffer EXCEPT ![t] = <<>>]
    /\ polls'   = [polls EXCEPT ![t] = {}]
    /\ SocketBecomes(t, Down)
    /\ failed'  = [failed EXCEPT ![t] = FALSE]
    /\ blocked' = [blocked EXCEPT ![t] = 0]
    /\ FlowBecomes(t, [last |-> 0, queue |-> <<>>, seen |-> {}])
    /\ UNCHANGED <<server, disk, wiped, gone>>

-----------------------------------------------------------------------------
(* The server.                                                             *)

Publish ==
    /\ head < MaxSeq
    /\ head' = head + 1
    /\ UNCHANGED <<low, disk, shell, engine, net, cache, flow, used, wiped, gone>>

Expire ==
    /\ low < head
    /\ low' = low + 1
    /\ UNCHANGED <<head, disk, shell, engine, net, cache, flow, used, wiped, gone>>

-----------------------------------------------------------------------------

Init ==
    /\ head = 0 /\ low = 0
    /\ rows = {} /\ cursor = 0
    /\ app = [t \in Tabs |-> "closed"]
    /\ syncing = [t \in Tabs |-> FALSE]
    /\ boot = [t \in Tabs |-> [k \in Slots |-> NoCall]]
    /\ running = [t \in Tabs |-> FALSE]
    /\ lastSeq = [t \in Tabs |-> 0]
    /\ socket = [t \in Tabs |-> Down]
    /\ polls = [t \in Tabs |-> {}]
    /\ ops = [t \in Tabs |-> [k \in Slots |-> NoOp]]
    /\ resyncHead = [t \in Tabs |-> 0]
    /\ buffer = [t \in Tabs |-> <<>>]
    /\ queue = [t \in Tabs |-> <<>>]
    /\ failed = [t \in Tabs |-> FALSE]
    /\ blocked = [t \in Tabs |-> 0]
    /\ seen = [t \in Tabs |-> {}]
    /\ wiped = 0
    /\ skipped = [t \in Tabs |-> {}]
    /\ late = FALSE
    /\ used = [e \in Events |-> 0]

CacheStep(t) ==
    \/ ApplyRuns(t) \/ CursorReads(t) \/ CursorPuts(t)
    \/ ResetClears(t) \/ ResetDeletes(t) \/ SeedReads(t)

StoreFails(t) == ApplyFails(t) \/ CursorFails(t) \/ SeedFails(t)

BootStep(t) ==
    \E k \in Slots : PreludeEnds(t, k) \/ PreludeFails(t, k) \/ SeedUsed(t, k)

OpStep(t, k) == Refetched(t, k) \/ OpWakes(t, k)

PollStep(t, p) == ServerAnswers(t, p) \/ PollReturns(t, p) \/ PollResumes(t, p)

SocketStep(t) == ServerGreets(t) \/ HelloArrives(t) \/ EventArrives(t)

Next ==
    \/ Publish \/ Expire
    \/ \E t \in Tabs :
        \/ CacheStep(t) \/ StoreFails(t) \/ BootStep(t)
        \/ Connects(t) \/ SocketStep(t) \/ SocketDrops(t)
        \/ \E k \in Slots : OpStep(t, k) \/ RefetchFails(t, k)
        \/ \E p \in polls[t] : PollStep(t, p) \/ PollFails(t, p)
        \/ Open(t) \/ Lock(t) \/ Unlock(t) \/ Crash(t)

Spec == Init /\ [][Next]_vars

\* Timers fire, promises settle, and the server answers; the user may leave
\* the page closed or locked, and the socket may never connect.
FairSpec ==
    /\ Spec
    /\ \A t \in Tabs :
        /\ WF_vars(CacheStep(t)) /\ WF_vars(BootStep(t)) /\ WF_vars(SocketStep(t))
        /\ \A k \in Slots : WF_vars(OpStep(t, k))
        /\ WF_vars(\E p \in polls[t] : PollStep(t, p))

-----------------------------------------------------------------------------
(* Properties.                                                             *)

ServerType == head \in Seqs0 /\ low \in 0..head
DiskType   == rows \subseteq Seqs /\ cursor \in Seqs0
ShellType  ==
    /\ app \in [Tabs -> {"closed", "locked", "unlocked"}]
    /\ syncing \in [Tabs -> BOOLEAN]
    /\ boot \in [Tabs -> [Slots -> Call]]
EngineType ==
    /\ running \in [Tabs -> BOOLEAN]
    /\ resyncHead \in [Tabs -> Seqs0]
    /\ buffer \in [Tabs -> Seq(Seqs)]
    /\ ops \in [Tabs -> [Slots -> Op]]
NetType   == socket \in [Tabs -> Socket] /\ polls \in [Tabs -> SUBSET Poll]
CacheType == failed \in [Tabs -> BOOLEAN] /\ blocked \in [Tabs -> Seqs0]
FlowType  ==
    /\ lastSeq \in [Tabs -> Seqs0]
    /\ queue \in [Tabs -> Seq(Task)]
    /\ seen \in [Tabs -> SUBSET Seqs]
PastType  ==
    /\ wiped \in Seqs0
    /\ skipped \in [Tabs -> SUBSET Seqs] /\ late \in BOOLEAN
    /\ used \in [Events -> Nat] /\ \A e \in Events : used[e] <= Limit[e]

TypeOK ==
    /\ ServerType /\ DiskType /\ ShellType /\ EngineType
    /\ NetType /\ CacheType /\ FlowType /\ PastType

\* No other tab adds rows from before a wipe.
Single == \A t, u \in Tabs : t = u
Sole   == wiped = 0 \/ Single

\* The durable cursor vouches for the cache.  An event the cursor has passed is
\* in the cache, or it was there to be wiped and nothing older is cached since:
\* otherwise a restart would never fold it in (cache.ts:55-58, sync.ts:206-208).
\* It is promised to a single tab, or until the first wipe; not of the events an
\* engine skips, nor after a start with a cursor that was read before a lock.
CursorSound ==
    ~late /\ Sole =>
        \A s \in 1..cursor \ UNION Range(skipped) :
            s \in rows \/ (s <= wiped /\ \A r \in rows : r > s)

\* What the engine counts as received has reached the screens, one by one or in
\* a snapshot: neither a duplicate transport, nor an overtaking or failing
\* resync, nor an answer to an earlier lifecycle makes a hole, but for the events
\* skipped by a poll that answers during a resync and by a start that finds the
\* engine running (sync.ts:190-260).
ViewComplete ==
    \A t \in Tabs : running[t] => 1..lastSeq[t] \subseteq seen[t] \cup skipped[t]

\* An unlocked page ends up running with every event received, over either
\* transport, whatever was dropped, failed, refetched or locked before
\* (sync.ts:5-13, main.ts:1937-1956).
EventuallyCaughtUp ==
    \A t \in Tabs : app[t] = "unlocked" ~>
        app[t] # "unlocked" \/ (running[t] /\ lastSeq[t] = head)
-----------------------------------------------------------------------------
(* The invariant behind ViewComplete: its parts, for one tab.              *)

\* Nothing is ahead of the server.
Published(t) ==
    /\ lastSeq[t] <= head /\ resyncHead[t] <= head
    /\ socket[t].last <= head /\ socket[t].next <= head + 1
    /\ \A k \in Slots : ops[t][k].target <= head /\ ops[t][k].at <= head /\ boot[t][k].read <= head
    /\ \A p \in polls[t] : p.upto <= head
    /\ \A i \in 1..Len(buffer[t]) : buffer[t][i] <= head
    /\ \A i \in 1..Len(queue[t]) : queue[t][i].kind \in {"apply", "cursor"} => queue[t][i].arg <= head

\* Only an unlocked page runs its engine, and only a running engine has a socket,
\* a current poll, or a resync, and one at most.
Alive(t) ==
    /\ running[t] => app[t] = "unlocked"
    /\ socket[t].st # "down" => running[t]
    /\ \A p \in polls[t] : IF p.cur THEN running[t] ELSE p.st = "answered"
    /\ \A k \in CurrentOps(t) : running[t]
    /\ \A k, l \in CurrentOps(t) : k = l
    /\ ~ResyncInFlight(t) => resyncHead[t] = 0 /\ buffer[t] = <<>>

\* Event n follows what has been applied, or what the resync will have fetched.
Follows(t, n) == n <= lastSeq[t] + 1 \/ n <= resyncHead[t] + 1

\* No transport leaves a hole: what comes next follows, if not what has been
\* applied, then an event that waits in the buffer.
Chained(t) ==
    LET b == buffer[t]
        s == socket[t]
    IN
    /\ \A i \in 1..Len(b) : Follows(t, b[i]) \/ \E j \in 1..(i - 1) : b[i] = b[j] + 1
    /\ s.st = "auth" => s.since <= lastSeq[t]
    /\ s.st = "hello" => IF s.resync THEN s.next = s.last + 1 ELSE s.next <= lastSeq[t] + 1
    /\ s.st = "open" => Follows(t, s.next) \/ \E j \in 1..Len(b) : s.next = b[j] + 1
    /\ \A p \in polls[t] :
          /\ p.cur /\ p.st \in {"asked", "answered"} => p.since <= lastSeq[t]
          /\ p.st = "answered" /\ ~p.resync => p.since < p.upto
    /\ \A k \in Slots : ops[t][k].st = "fetch" => ops[t][k].target <= ops[t][k].at

ViewOf(t) == running[t] => 1..lastSeq[t] \subseteq seen[t] \cup skipped[t]

ViewInv ==
    /\ TypeOK /\ cursor <= head /\ wiped <= head
    /\ \A t \in Tabs : Published(t) /\ Alive(t) /\ Chained(t) /\ ViewOf(t)

-----------------------------------------------------------------------------
(* The invariant behind CursorSound: its parts, for one tab.               *)

TasksOf(t, kind) == {i \in 1..Len(queue[t]) : queue[t][i].kind = kind}

\* Each task refers to what its operation waits for; only the first has begun.
TaskShape(t) ==
    /\ \A i \in TasksOf(t, "reset") : ops[t][queue[t][i].arg].st = "reset"
    /\ \A i \in TasksOf(t, "seed")  : boot[t][queue[t][i].arg].st = "queued"
    /\ \A kind \in {"reset", "seed"} : \A i, j \in TasksOf(t, kind) :
          queue[t][i].arg = queue[t][j].arg => i = j
    /\ \A i \in 2..Len(queue[t]) : queue[t][i].step = "start"

\* The reset of a resync comes after every event: one that fails cannot lose them.
ResetLast(t) ==
    /\ \A i, j \in TasksOf(t, "reset") : i = j
    /\ \A i \in TasksOf(t, "reset"), j \in TasksOf(t, "apply") : j < i
    /\ \A i \in TasksOf(t, "reset") : running[t] => ops[t][queue[t][i].arg].cur
    /\ \A k \in CurrentOps(t) : ops[t][k].st # "reset" => TasksOf(t, "apply") = {}
    /\ failed[t] => TasksOf(t, "apply") = {}
    /\ failed[t] /\ running[t] => \E k \in CurrentOps(t) : ops[t][k].st = "sleep"

\* A current startSync finds the engine stopped and the cache at rest, unless one
\* that a lock has overtaken was faster.
Ready(t) ==
    \A k \in Slots : boot[t][k].cur /\ ~running[t] =>
        /\ \A i \in TasksOf(t, "seed") :
              queue[t][i].arg = k => (i + 1)..Len(queue[t]) \subseteq TasksOf(t, "seed")
        /\ boot[t][k].st = "read" =>
              ~failed[t] /\ 1..Len(queue[t]) \subseteq TasksOf(t, "seed")

\* In the cache, or gone with everything older.
Folded(s) ==
    \/ s \in rows
    \/ /\ s <= wiped
       /\ \A r \in rows : r > s
       /\ \A t \in Tabs : \A i \in TasksOf(t, "apply") : queue[t][i].arg > s

Excused(s) == \E t \in Tabs : s \in skipped[t]

\* The cursor may not pass s before a task ahead of task j has run, or at all.
Covered(t, s, j) ==
    \/ Folded(s) \/ Excused(s)
    \/ \E i \in TasksOf(t, "apply") : i < j /\ queue[t][i].arg = s
    \/ 0 < blocked[t] /\ blocked[t] <= s

\* Every cursor that is to be written, or that the engine holds, is covered.
Vouched(t) ==
    /\ \A j \in TasksOf(t, "cursor") : \A s \in 1..queue[t][j].arg : Covered(t, s, j)
    /\ \A j \in TasksOf(t, "cursor") : queue[t][j].step = "put" =>
          blocked[t] = 0 \/ queue[t][j].arg < blocked[t]
    /\ running[t] => \A s \in 1..lastSeq[t] : Covered(t, s, Len(queue[t]) + 1)
    /\ \A k \in Slots : boot[t][k].st = "read" =>
          \A s \in 1..boot[t][k].read : wiped = 0 => Folded(s) \/ Excused(s)

\* The cursor on disk is never ahead of a running engine, nor of a seed in use.
Behind(t) ==
    /\ running[t] => \A j \in TasksOf(t, "cursor") : queue[t][j].arg <= lastSeq[t]
    /\ Single /\ running[t] => cursor <= lastSeq[t]
    /\ Single => \A k \in Slots : boot[t][k].cur /\ ~running[t] /\ boot[t][k].st = "read" =>
          boot[t][k].read = cursor

\* A reset that has cleared the rows covers all the engine knows, until the
\* snapshot it makes room for has been fetched.
Swept(t) ==
    /\ \A i \in TasksOf(t, "reset") : queue[t][i].step = "cleared" =>
          /\ ops[t][queue[t][i].arg].target <= wiped
          /\ Single => rows = {}
          /\ \A j \in TasksOf(t, "cursor") : \A s \in 1..queue[t][j].arg : s <= wiped \/ Excused(s)
          /\ running[t] => \A s \in 1..lastSeq[t] : s <= wiped \/ Excused(s)
    /\ \A k \in CurrentOps(t) : ops[t][k].st = "fetch" =>
          /\ ops[t][k].target <= wiped
          /\ Single => rows = {}

CacheInv ==
    /\ ViewInv
    /\ \A t \in Tabs : TaskShape(t)
    /\ ~late => \A t \in Tabs : ResetLast(t) /\ Ready(t) /\ Behind(t) /\ Swept(t)
    /\ ~late /\ Sole => /\ \A t \in Tabs : Vouched(t)
                       /\ \A s \in 1..cursor : Folded(s) \/ Excused(s)

=============================================================================
