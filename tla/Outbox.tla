------------------------------- MODULE Outbox -------------------------------
(***************************************************************************)
(* The persistent outbox of the client core (clients/core/src/outbox.ts)   *)
(* as it runs in the browser tabs (or the one desktop window) of a device. *)
(*                                                                         *)
(* Tabs share one IndexedDB collection, disk.  Each tab has its own RAM:   *)
(* the volatile map (ram), the per-chat promise chains (chain), the undo   *)
(* timers (timer) and the asynchronous calls in flight.  A step is one     *)
(* resumption of a JavaScript function: it runs to its next await.         *)
(*                                                                         *)
(* IndexedDB executes requests in the order they are issued, so a read     *)
(* returns, and a delete takes, what is on disk when it is called; a put   *)
(* is sealed first (EncryptedStore.put) and takes effect at some later     *)
(* point, at the latest when its awaiter resumes.                          *)
(*                                                                         *)
(* A stored row is represented by its status; the payload, the attempt     *)
(* count and the error text are left out.  created_at is represented by    *)
(* the order of born.  The server is external: it receives requests and    *)
(* may answer or fail.                                                     *)
(***************************************************************************)
EXTENDS Naturals, Sequences, FiniteSets, SequencesExt

CONSTANTS
    Tabs,       \* execution contexts that share the browser origin
    Messages,   \* queued sends and edits: no undo hold
    Deletes,    \* queued deletes: held for the undo window before sending
    Chats,
    ChatOf,     \* the chat of each item
    CloudOnly,  \* chats whose rows start as RAM-only (T-529)
    Lists,      \* list()-based operations a tab has under way at once (a bound)
    Limit,      \* how often each environment event may happen (a bound)
    MaxChain    \* longest promise chain explored (a bound)

Items == Messages \cup Deletes

Events == {"pause", "crash", "fail", "storeFail", "cancel", "retry",
           "online", "flush", "policy", "overlap"}

ASSUME ItemsAssumption == Messages \cap Deletes = {}
ASSUME ChatAssumption == ChatOf \in [Items -> Chats] /\ CloudOnly \subseteq Chats
ASSUME LimitAssumption == Limit \in [Events -> Nat] /\ MaxChain \in Nat

ASSUME FiniteAssumption == IsFiniteSet(Messages) /\ IsFiniteSet(Deletes)

None == "none"
Status == {"queued", "sending", "failed"}
Rows == Status \cup {None}
Free == "free"      \* a lease nobody holds
ASSUME FreeAssumption == Free \notin Tabs

VARIABLES
    disk,       \* rows of the shared "outbox" collection
    ram,        \* this.volatile of each tab
    persist,    \* persistForChat, as each tab currently answers it
    up,         \* the tab is open
    paused,     \* this.paused
    plane,      \* the data plane of the tab: the app lock, and syncing of main.ts
    chain,      \* this.chains: item ids whose send() has not finished
    timer,      \* keys of this.undoTimers
    job,        \* the sendClaimed() call of each tab and item
    lease,      \* holder of the lock greenchat.outbox.<id>
    call,       \* add(), cancel() or retry() of each tab and item
    drive,      \* the list()-based operations of each tab
    held,       \* deletes whose undo window has not elapsed yet
    born,       \* items in created_at order
    orphan,     \* requests whose fetch was aborted but may still arrive
    log,        \* server: items in the order of their first receipt
    acked,      \* history: enqueue* resolved
    undone,     \* history: cancel() found the row queued and removed it
    undoneHeld, \* history: the same, while the undo window was open
    failedOnce, \* history: the row was stored or shown as failed
    session,    \* history: items queued in the tab's current live session
    behind,     \* history: items that were acked in the session before this
    used        \* how often each bounded event has happened

tabVars  == <<persist, up, paused, plane>>
workVars == <<job, lease>>
envVars  == <<held, born, orphan, log>>
histVars == <<acked, undone, undoneHeld, failedOnce, session, behind>>
vars == <<disk, ram, tabVars, chain, timer, workVars, call, drive, envVars, histVars, used>>

NoJob  == [pc |-> "idle", live |-> FALSE, row |-> None]
NoCall == [pc |-> "idle", row |-> None]
NoRows == [i \in Items |-> None]
NoDrive == [pc |-> "idle", kind |-> "resume", chats |-> {}, keep |-> FALSE,
            left |-> NoRows, cur |-> {}]

Spend(e) == used[e] < Limit[e] /\ used' = [used EXCEPT ![e] = @ + 1]

-----------------------------------------------------------------------------
(* Helpers.  An operator marked "faulty" is a variant for mutation runs.   *)

Persists(t, i) == persist[t][ChatOf[i]]

\* readItem(): the volatile row if there is one, else the stored row.
RowOf(t, i) == IF ram[t][i] # None THEN ram[t][i] ELSE disk[i]

\* writeItem() up to its await: a durable row leaves the volatile map and its
\* put is under way (PutOf); a RAM-only row enters the map and leaves the disk.
WriteItem(t, i, s) ==
    IF Persists(t, i)
    THEN ram' = [ram EXCEPT ![t][i] = None] /\ UNCHANGED disk
    ELSE ram' = [ram EXCEPT ![t][i] = s] /\ disk' = [disk EXCEPT ![i] = None]
PutNothing(t, i, s) == None                                          \* faulty
PutOf(t, i, s) == IF Persists(t, i) THEN s ELSE None

\* The put that a call awaits, if any, has taken effect.
PutDone(i, row) == disk' = IF row = None THEN disk ELSE [disk EXCEPT ![i] = row]

\* deleteItem().
DeleteFromRam(t, i) == ram' = [ram EXCEPT ![t][i] = None] /\ UNCHANGED disk   \* faulty
DeleteItem(t, i) == ram' = [ram EXCEPT ![t][i] = None] /\ disk' = [disk EXCEPT ![i] = None]

\* scheduleSend(): append to the chat's promise chain unless paused.
Scheduled(t, i) ==
    IF paused[t] THEN chain ELSE [chain EXCEPT ![t][ChatOf[i]] = Append(@, i)]

\* undoDelayFor(): which items are held, and whether time still remains.
HoldForAny(i) == {i}                                                 \* faulty
HoldFor(i) == {i} \cap Deletes
HoldIgnored(i) == FALSE                                              \* faulty
HoldOpen(i) == i \in held

ScheduleUndo(t, i) ==
    /\ timer' = [timer EXCEPT ![t] = IF HoldOpen(i) /\ ~paused[t] THEN @ \cup {i} ELSE @ \ {i}]
    /\ chain' = IF HoldOpen(i) THEN chain ELSE Scheduled(t, i)

Usable(t) == up[t] /\ ~paused[t]
ChainsBounded(t) == \A c \in Chats : Len(chain[t][c]) < MaxChain

CallReturns(t, i) == call' = [call EXCEPT ![t][i] = NoCall]

-----------------------------------------------------------------------------
Init ==
    /\ disk = NoRows
    /\ ram = [t \in Tabs |-> NoRows]
    /\ persist = [t \in Tabs |-> [c \in Chats |-> c \notin CloudOnly]]
    /\ up = [t \in Tabs |-> TRUE]
    /\ paused = [t \in Tabs |-> FALSE]
    /\ plane = [t \in Tabs |-> "syncing"]
    /\ chain = [t \in Tabs |-> [c \in Chats |-> <<>>]]
    /\ timer = [t \in Tabs |-> {}]
    /\ job = [t \in Tabs |-> [i \in Items |-> NoJob]]
    /\ lease = [i \in Items |-> Free]
    /\ call = [t \in Tabs |-> [i \in Items |-> NoCall]]
    /\ drive = [t \in Tabs |-> [l \in Lists |-> NoDrive]]
    /\ held = {} /\ born = <<>> /\ orphan = {} /\ log = <<>>
    /\ acked = {} /\ undone = {} /\ undoneHeld = {} /\ failedOnce = {}
    /\ session = [t \in Tabs |-> {}]
    /\ behind = [i \in Items |-> {}]
    /\ used = [e \in Events |-> 0]

-----------------------------------------------------------------------------
(* enqueueMessage, enqueueEdit, enqueueDelete: add().                      *)

Add(t, i) ==
    /\ Usable(t) /\ i \notin Range(born)
    /\ born' = Append(born, i)
    /\ held' = held \cup HoldFor(i)
    /\ WriteItem(t, i, "queued")
    /\ call' = [call EXCEPT ![t][i] = [pc |-> "add", row |-> PutOf(t, i, "queued")]]
    /\ session' = [session EXCEPT ![t] = @ \cup {i}]
    /\ behind' = [behind EXCEPT ![i] = {j \in session[t] \cap acked : ChatOf[j] = ChatOf[i]}]
    /\ UNCHANGED <<tabVars, chain, timer, workVars, drive, orphan, log,
                   acked, undone, undoneHeld, failedOnce, used>>

AddStored(t, i) ==
    /\ call[t][i].pc = "add"
    /\ PutDone(i, call[t][i].row)
    /\ CallReturns(t, i)
    /\ acked' = acked \cup {i}
    /\ behind' = [behind EXCEPT ![i] = @ \cap session[t]]
    /\ ScheduleUndo(t, i)
    /\ UNCHANGED <<ram, tabVars, workVars, drive, envVars,
                   undone, undoneHeld, failedOnce, session, used>>

\* The undo timer of a held delete fires.
TimerFires(t, i) ==
    /\ i \in timer[t] /\ ~HoldOpen(i)
    /\ timer' = [timer EXCEPT ![t] = @ \ {i}]
    /\ chain' = Scheduled(t, i)
    /\ UNCHANGED <<disk, ram, tabVars, workVars, call, drive, envVars, histVars, used>>

\* Wall-clock time: the undo window measured from created_at elapses.
HoldElapses(i) ==
    /\ i \in held
    /\ held' = held \ {i}
    /\ UNCHANGED <<disk, ram, tabVars, chain, timer, workVars, call, drive,
                   born, orphan, log, histVars, used>>

-----------------------------------------------------------------------------
(* cancel(), which the undo bar offers for deletes (feed_screen.ts), and   *)
(* retry(), which a bubble offers that was shown as failed.                *)

Cancel(t, i) ==
    /\ Usable(t) /\ i \in Deletes \cap acked /\ call[t][i].pc = "idle"
    /\ Spend("cancel")
    /\ call' = [call EXCEPT ![t][i] = [pc |-> "cancelRead", row |-> RowOf(t, i)]]
    /\ UNCHANGED <<disk, ram, tabVars, chain, timer, workVars, drive, envVars, histVars>>

CancelRead(t, i) ==
    /\ call[t][i].pc = "cancelRead"
    /\ CallReturns(t, i)
    /\ IF call[t][i].row = "queued"
       THEN /\ timer' = [timer EXCEPT ![t] = @ \ {i}]
            /\ DeleteItem(t, i)
            /\ undone' = undone \cup {i}
            /\ undoneHeld' = undoneHeld \cup ({i} \cap held)
       ELSE UNCHANGED <<timer, ram, disk, undone, undoneHeld>>
    /\ UNCHANGED <<tabVars, chain, workVars, drive, envVars,
                   acked, failedOnce, session, behind, used>>

Retry(t, i) ==
    /\ Usable(t) /\ i \in failedOnce /\ call[t][i].pc = "idle"
    /\ ChainsBounded(t)
    /\ Spend("retry")
    /\ call' = [call EXCEPT ![t][i] = [pc |-> "retryRead", row |-> RowOf(t, i)]]
    /\ UNCHANGED <<disk, ram, tabVars, chain, timer, workVars, drive, envVars, histVars>>

RetryRead(t, i) ==
    /\ call[t][i].pc = "retryRead"
    /\ IF call[t][i].row \in {"queued", "failed"}
       THEN /\ WriteItem(t, i, "queued")
            /\ call' = [call EXCEPT ![t][i] =
                            [pc |-> "retryWrite", row |-> PutOf(t, i, "queued")]]
       ELSE CallReturns(t, i) /\ UNCHANGED <<ram, disk>>
    /\ UNCHANGED <<tabVars, chain, timer, workVars, drive, envVars, histVars, used>>

RetryStored(t, i) ==
    /\ call[t][i].pc = "retryWrite"
    /\ PutDone(i, call[t][i].row)
    /\ CallReturns(t, i)
    /\ chain' = Scheduled(t, i)
    /\ UNCHANGED <<ram, tabVars, timer, workVars, drive, envVars, histVars, used>>

-----------------------------------------------------------------------------
(* send() and sendClaimed().                                               *)

\* A send waits for its predecessor in the chain, and for the item's lease.
AnyTurn(t, i) == i \in Range(chain[t][ChatOf[i]])                    \* faulty
Turn(t, i) == chain[t][ChatOf[i]] # <<>> /\ Head(chain[t][ChatOf[i]]) = i
LeaseIgnored(i) == TRUE                                              \* faulty
LeaseFree(i) == lease[i] = Free

\* Neither paused nor of an earlier generation.
CurrentUnchecked(t, i) == TRUE                                       \* faulty
Current(t, i) == job[t][i].live

Work(t, i, pc, row) ==
    /\ job' = [job EXCEPT ![t][i] = [@ EXCEPT !.pc = pc, !.row = row]]
    /\ UNCHANGED <<lease, chain>>

\* The call returns: its lease is released and, unless a pause has dropped the
\* chain, the next send of the chain may start.
Finish(t, i) ==
    /\ job' = [job EXCEPT ![t][i] = NoJob]
    /\ lease' = [lease EXCEPT ![i] = Free]
    /\ chain' = IF job[t][i].live THEN [chain EXCEPT ![t][ChatOf[i]] = Tail(@)] ELSE chain

SendStart(t, i) ==
    /\ ~paused[t] /\ Turn(t, i) /\ LeaseFree(i) /\ job[t][i].pc = "idle"
    /\ lease' = [lease EXCEPT ![i] = t]
    /\ job' = [job EXCEPT ![t][i] = [pc |-> "read", live |-> TRUE, row |-> RowOf(t, i)]]
    /\ UNCHANGED <<disk, ram, tabVars, chain, timer, call, drive, envVars, histVars, used>>

SendRead(t, i) ==
    LET row == job[t][i].row
    IN  /\ job[t][i].pc = "read"
        /\ IF ~Current(t, i) \/ row = None \/ (row = "queued" /\ i \in timer[t])
           THEN Finish(t, i) /\ UNCHANGED <<ram, disk>>
           ELSE WriteItem(t, i, "sending") /\ Work(t, i, "write", PutOf(t, i, "sending"))
        /\ UNCHANGED <<tabVars, timer, call, drive, envVars, histVars, used>>

SendStored(t, i) ==
    /\ job[t][i].pc = "write"
    /\ PutDone(i, job[t][i].row)
    /\ IF Current(t, i) THEN Work(t, i, "request", None) ELSE Finish(t, i)
    /\ UNCHANGED <<ram, tabVars, timer, call, drive, envVars, histVars, used>>

\* The server receives the request of a running fetch, or late, of an aborted one.
ServerReceives(i) ==
    /\ i \notin Range(log)
    /\ \/ \E t \in Tabs : job[t][i].pc = "request" /\ UNCHANGED orphan
       \/ i \in orphan /\ orphan' = orphan \ {i}
    /\ log' = Append(log, i)
    /\ UNCHANGED <<disk, ram, tabVars, chain, timer, workVars, call, drive,
                   held, born, histVars, used>>

\* api.request() resolves.
SendAnswered(t, i) ==
    /\ job[t][i].pc = "request" /\ i \in Range(log)
    /\ DeleteItem(t, i)
    /\ Work(t, i, "delete", None)
    /\ UNCHANGED <<tabVars, timer, call, drive, envVars, histVars, used>>

SendDeleted(t, i) ==
    /\ job[t][i].pc = "delete"
    /\ Finish(t, i)
    /\ UNCHANGED <<disk, ram, tabVars, timer, call, drive, envVars, histVars, used>>

\* api.request() rejects while the outbox is live; the server may have it, or
\* may yet receive it.
SendFailed(t, i) ==
    /\ job[t][i].pc = "request"
    /\ Spend("fail")
    /\ Work(t, i, "readFailed", RowOf(t, i))
    /\ orphan' \in {orphan, orphan \cup ({i} \ Range(log))}
    /\ failedOnce' = failedOnce \cup {i}
    /\ UNCHANGED <<disk, ram, tabVars, timer, call, drive, held, born, log,
                   acked, undone, undoneHeld, session, behind>>

SendFailedRead(t, i) ==
    /\ job[t][i].pc = "readFailed"
    /\ IF job[t][i].row = None
       THEN Finish(t, i) /\ UNCHANGED <<ram, disk>>
       ELSE WriteItem(t, i, "failed") /\ Work(t, i, "writeFailed", PutOf(t, i, "failed"))
    /\ UNCHANGED <<tabVars, timer, call, drive, envVars, histVars, used>>

SendFailedStored(t, i) ==
    /\ job[t][i].pc = "writeFailed"
    /\ PutDone(i, job[t][i].row)
    /\ Finish(t, i)
    /\ UNCHANGED <<ram, tabVars, timer, call, drive, envVars, histVars, used>>

-----------------------------------------------------------------------------
(* list() with applyPersistencePolicy(), and the operations built on it.   *)
(* Nothing keeps those of a tab apart: an "online" event, a startSync() and *)
(* a change of policy each begin one while others are in their awaits.      *)

Transitions == {"policy", "rollback"}
Restoring == {"restore", "restored"}

\* shouldPersist(): the override of a transition, else the current policy.
Keeps(t, d, i) == IF d.kind \in Transitions THEN d.keep ELSE Persists(t, i)

\* policy.setChat() switches the chats of a transition.  It is counted when
\* another list() of the tab is restoring rows at that moment.
Switch(t, l, d) ==
    /\ persist' = [persist EXCEPT ![t] =
                      [c \in Chats |-> IF c \in d.chats THEN d.keep ELSE @[c]]]
    /\ IF \E m \in Lists \ {l} : drive[t][m].pc \in Restoring
       THEN Spend("overlap") ELSE UNCHANGED used

\* Second loop: put every volatile row that should persist, then drop it.
\* After it, list() scans again, transitionChat() switches the policy, and
\* startSync() reads its cursor.
RestoreLoop(t, l, d, r) ==
    LET todo == {i \in Items : d.left[i] # None /\ ChatOf[i] \in d.chats /\ Keeps(t, d, i)}
        To(next) == drive' = [drive EXCEPT ![t][l] = next]
    IN  /\ ram' = [ram EXCEPT ![t] = r]
        /\ \/ \E i \in todo :
                 To([d EXCEPT !.pc = "restore", !.cur = {i}]) /\ UNCHANGED <<persist, used>>
           \/ todo = {} /\ d.kind = "policy" /\ To(NoDrive) /\ Switch(t, l, d)
           \/ todo = {} /\ d.kind = "rollback" /\ To(NoDrive) /\ UNCHANGED <<persist, used>>
           \/ /\ todo = {} /\ d.kind \notin Transitions
              /\ To([d EXCEPT !.pc = IF d.kind = "sync" THEN "synced" ELSE "list",
                              !.left = IF d.kind = "sync" THEN NoRows ELSE disk, !.cur = {}])
              /\ UNCHANGED <<persist, used>>

\* First loop: move every scanned row that should not persist to RAM.
EvictedNowhere(t, i, row) == ram' = ram                              \* faulty
Evicted(t, i, row) == ram' = [ram EXCEPT ![t][i] = row]
EvictLoop(t, l, d) ==
    LET todo == {i \in Items : d.left[i] # None /\ ~Keeps(t, d, i)}
    IN  \/ \E i \in todo :
             /\ Evicted(t, i, d.left[i])
             /\ disk' = [disk EXCEPT ![i] = None]
             /\ drive' = [drive EXCEPT ![t][l] = [d EXCEPT !.pc = "evict", !.left[i] = None]]
             /\ UNCHANGED <<persist, used>>
        \/ /\ todo = {}
           /\ RestoreLoop(t, l, [d EXCEPT !.left = ram[t]], ram[t])
           /\ UNCHANGED disk

\* applyPersistencePolicy() up to its scan.
Scan(kind, chats, keep) ==
    [pc |-> "scan", kind |-> kind, chats |-> chats, keep |-> keep, cur |-> {},
     left |-> [i \in Items |-> IF ChatOf[i] \in chats THEN disk[i] ELSE None]]
StartDrive(t, l, kind, chats, keep) ==
    /\ drive' = [drive EXCEPT ![t][l] = Scan(kind, chats, keep)]
    /\ UNCHANGED <<disk, ram, persist, up, chain, timer, workVars, call, envVars, histVars>>
Idle(t, l) == drive[t][l].pc = "idle"

\* startSync(), called after a start, an unlock or a failed attempt, reconciles
\* the rows with the policy ...
StartSync(t, l) ==
    /\ up[t] /\ plane[t] # "syncing" /\ Idle(t, l)
    /\ plane' = [plane EXCEPT ![t] = "syncing"]
    /\ StartDrive(t, l, "sync", Chats, FALSE)
    /\ UNCHANGED <<paused, used>>

\* ... and calls resume(), unless the app lock is closed by then.
Resume(t, l) ==
    /\ up[t] /\ drive[t][l].pc = "synced"
    /\ IF plane[t] = "locked"
       THEN /\ drive' = [drive EXCEPT ![t][l] = NoDrive]
            /\ UNCHANGED <<disk, ram, tabVars, chain, timer, workVars, call, envVars, histVars>>
       ELSE /\ paused' = [paused EXCEPT ![t] = FALSE]
            /\ StartDrive(t, l, "resume", Chats, FALSE)
            /\ UNCHANGED plane
    /\ UNCHANGED used

\* The browser's "online" event calls retryFailed().
Online(t, l) ==
    /\ Usable(t) /\ Limit["online"] > 0 /\ Idle(t, l) /\ ChainsBounded(t)
    /\ StartDrive(t, l, "online", Chats, FALSE)
    /\ UNCHANGED <<paused, plane, used>>

Flush(t, l) ==
    /\ Usable(t) /\ Idle(t, l) /\ ChainsBounded(t)
    /\ Spend("flush")
    /\ StartDrive(t, l, "flush", Chats, FALSE)
    /\ UNCHANGED <<paused, plane>>

\* transitionChat() (cache_policy.ts): reconcile the rows, then switch.  Those of
\* one chat run one after the other (enqueueChatTransition()).
SetChatPolicy(t, l, c) ==
    /\ Usable(t) /\ Idle(t, l) /\ ChainsBounded(t)
    /\ \A m \in Lists : drive[t][m].kind \in Transitions => c \notin drive[t][m].chats
    /\ Spend("policy")
    /\ StartDrive(t, l, "policy", {c}, ~persist[t][c])
    /\ UNCHANGED <<paused, plane>>

\* The scan, or the delete of an evicted row, has returned.
DriveEvicts(t, l) ==
    /\ drive[t][l].pc \in {"scan", "evict"}
    /\ EvictLoop(t, l, drive[t][l])
    /\ UNCHANGED <<up, paused, plane, chain, timer, workVars, call, envVars, histVars>>

\* The put of a restored row takes effect ...
DriveStored(t, l) ==
    LET d == drive[t][l] IN
    /\ d.pc = "restore"
    /\ disk' = [i \in Items |-> IF i \in d.cur THEN d.left[i] ELSE disk[i]]
    /\ drive' = [drive EXCEPT ![t][l].pc = "restored"]
    /\ UNCHANGED <<ram, tabVars, chain, timer, workVars, call, envVars, histVars, used>>

\* ... and its awaiter drops the volatile row.
DriveRestored(t, l) ==
    LET d == drive[t][l]
        Without(rows) == [i \in Items |-> IF i \in d.cur THEN None ELSE rows[i]]
    IN  /\ d.pc = "restored"
        /\ RestoreLoop(t, l, [d EXCEPT !.left = Without(@)], Without(ram[t]))
        /\ UNCHANGED <<disk, up, paused, plane, chain, timer, workVars, call, envVars, histVars>>

\* list() sorts by created_at: the listings of S from the oldest to the newest.
Younger(i, j) == \E m, n \in DOMAIN born : n < m /\ born[m] = i /\ born[n] = j   \* faulty
Older(i, j) == \E m, n \in DOMAIN born : m < n /\ born[m] = i /\ born[n] = j
Sorted(S) == {q \in [1..Cardinality(S) -> S] : \A a, b \in DOMAIN q : a < b => Older(q[a], q[b])}

\* Which listed rows resume(), retryFailed() and flush() put on a chain.
ResumableFailed == {"failed"}                                        \* faulty
Resumable == {"sending", "failed"}
Redriven(kind, i, row) ==
    \/ kind = "resume" /\ (row \in Resumable \/ (row = "queued" /\ ~HoldOpen(i)))
    \/ kind = "online" /\ row = "failed"
    \/ kind = "flush"  /\ row \in {"queued", "failed"}

\* The listed rows are scheduled, or get their undo timer back.
DriveListed(t, l) ==
    LET kind == drive[t][l].kind
        row(i) == IF ram[t][i] # None THEN ram[t][i] ELSE drive[t][l].left[i]
        send(c) == {i \in Items : Redriven(kind, i, row(i)) /\ ChatOf[i] = c}
        queued == {i \in Items : row(i) = "queued"}
        hold == {i \in queued : kind = "resume" /\ HoldOpen(i)}
    IN  /\ drive[t][l].pc = "list"
        /\ drive' = [drive EXCEPT ![t][l] = NoDrive]
        /\ \E q \in [Chats -> UNION {Sorted(send(c)) : c \in Chats}] :
              /\ \A c \in Chats : q[c] \in Sorted(send(c))
              /\ chain' = IF paused[t] THEN chain
                          ELSE [chain EXCEPT ![t] = [c \in Chats |-> @[c] \o q[c]]]
        /\ timer' = [timer EXCEPT ![t] = (@ \ (IF kind = "online" THEN {} ELSE queued))
                                         \cup (IF paused[t] THEN {} ELSE hold)]
        /\ UNCHANGED <<disk, ram, tabVars, workVars, call, envVars, histVars, used>>

-----------------------------------------------------------------------------
(* Locking, closing and failing.                                           *)

\* What pause() and the end of a tab both lose.  A fetch in flight is aborted,
\* but its request may still arrive.
Aborted(t) == {i \in Items : job[t][i].pc = "request"}
Stop(t) ==
    /\ paused' = [paused EXCEPT ![t] = TRUE]
    /\ timer' = [timer EXCEPT ![t] = {}]
    /\ chain' = [chain EXCEPT ![t] = [c \in Chats |-> <<>>]]
    /\ ram' = [ram EXCEPT ![t] = NoRows]
    /\ orphan' = orphan \cup (Aborted(t) \ Range(log))
    /\ session' = [session EXCEPT ![t] = {}]
    /\ UNCHANGED <<disk, persist, held, born, log, acked, undone, undoneHeld,
                   failedOnce, behind>>

\* stopDataPlane() with pause(): the app lock closes ...
Pause(t) ==
    /\ Usable(t) /\ Spend("pause")
    /\ Stop(t)
    /\ plane' = [plane EXCEPT ![t] = "locked"]
    /\ job' = [job EXCEPT ![t] = [i \in Items |->
                  IF i \in Aborted(t) THEN NoJob ELSE [@[i] EXCEPT !.live = FALSE]]]
    /\ lease' = [i \in Items |-> IF i \in Aborted(t) THEN Free ELSE lease[i]]
    /\ UNCHANGED <<up, call, drive>>

\* ... or it does so before startSync() has resumed a paused outbox, for which
\* pause() does nothing.
LockAgain(t) ==
    /\ up[t] /\ paused[t] /\ plane[t] # "locked"
    /\ Spend("pause")
    /\ plane' = [plane EXCEPT ![t] = "locked"]
    /\ UNCHANGED <<disk, ram, persist, up, paused, chain, timer, workVars, call, drive,
                   envVars, histVars>>

\* The tab is closed or crashes: the browser releases its leases.
Crash(t) ==
    /\ up[t] /\ Spend("crash")
    /\ Stop(t)
    /\ up' = [up EXCEPT ![t] = FALSE]
    /\ plane' = [plane EXCEPT ![t] = "locked"]
    /\ job' = [job EXCEPT ![t] = [i \in Items |-> NoJob]]
    /\ lease' = [i \in Items |-> IF lease[i] = t THEN Free ELSE lease[i]]
    /\ call' = [call EXCEPT ![t] = [i \in Items |-> NoCall]]
    /\ drive' = [drive EXCEPT ![t] = [l \in Lists |-> NoDrive]]

\* The app is opened again: a new Outbox, which is paused only behind a lock.
Open(t) ==
    /\ ~up[t]
    /\ up' = [up EXCEPT ![t] = TRUE]
    /\ \/ UNCHANGED <<paused, plane>>
       \/ /\ paused' = [paused EXCEPT ![t] = FALSE]
          /\ plane' = [plane EXCEPT ![t] = "open"]
    /\ UNCHANGED <<disk, ram, persist, chain, timer, workVars, call, drive,
                   envVars, histVars, used>>

\* A read or a put of the sender rejects: sendClaimed() ends.
SendStoreFails(t, i) ==
    /\ job[t][i].pc \in {"read", "write", "readFailed", "writeFailed"}
    /\ Spend("storeFail")
    /\ Finish(t, i)
    /\ failedOnce' = failedOnce \cup {i}
    /\ UNCHANGED <<disk, ram, tabVars, timer, call, drive, envVars,
                   acked, undone, undoneHeld, session, behind>>

\* The delete of an answered request rejects: the catch block marks it failed.
SendDeleteFails(t, i) ==
    /\ job[t][i].pc = "request" /\ i \in Range(log)
    /\ Spend("storeFail")
    /\ ram' = [ram EXCEPT ![t][i] = None]
    /\ Work(t, i, "readFailed", disk[i])
    /\ failedOnce' = failedOnce \cup {i}
    /\ UNCHANGED <<disk, tabVars, timer, call, drive, envVars,
                   acked, undone, undoneHeld, session, behind>>

\* A read or a put of add(), cancel() or retry() rejects, or the delete of
\* cancel(), which has cleared the timer and the volatile row by then.
CallStoreFails(t, i) ==
    /\ call[t][i].pc # "idle"
    /\ Spend("storeFail")
    /\ CallReturns(t, i)
    /\ \/ UNCHANGED <<timer, ram>>
       \/ /\ call[t][i] = [pc |-> "cancelRead", row |-> "queued"]
          /\ timer' = [timer EXCEPT ![t] = @ \ {i}]
          /\ ram' = [ram EXCEPT ![t][i] = None]
    /\ UNCHANGED <<disk, tabVars, chain, workVars, drive, envVars, histVars>>

\* A store request of a list()-based operation rejects, or getCursor() does.
\* transitionChat() then reconciles once more with the previous policy, and
\* startSync() may be called again.
DriveStoreFails(t, l) ==
    LET d == drive[t][l] IN
    /\ d.pc # "idle"
    /\ Spend("storeFail")
    /\ drive' = [drive EXCEPT ![t][l] =
                    IF d.kind = "policy" THEN Scan("rollback", d.chats, ~d.keep) ELSE NoDrive]
    /\ plane' = IF d.kind = "sync" /\ plane[t] = "syncing"
                THEN [plane EXCEPT ![t] = "open"] ELSE plane
    /\ UNCHANGED <<disk, ram, persist, up, paused, chain, timer, workVars, call, envVars, histVars>>

-----------------------------------------------------------------------------
CallStep(t, i) ==
    \/ AddStored(t, i) \/ CancelRead(t, i) \/ RetryRead(t, i) \/ RetryStored(t, i)

SendStep(t, i) ==
    \/ SendRead(t, i) \/ SendStored(t, i) \/ SendAnswered(t, i) \/ SendDeleted(t, i)
    \/ SendFailedRead(t, i) \/ SendFailedStored(t, i)

DriveStep(t, l) ==
    \/ DriveEvicts(t, l) \/ DriveStored(t, l) \/ DriveRestored(t, l)
    \/ Resume(t, l) \/ DriveListed(t, l)

Next ==
    \/ \E t \in Tabs, i \in Items :
          \/ Add(t, i) \/ Cancel(t, i) \/ Retry(t, i) \/ TimerFires(t, i)
          \/ CallStep(t, i) \/ SendStart(t, i) \/ SendStep(t, i) \/ SendFailed(t, i)
          \/ SendStoreFails(t, i) \/ SendDeleteFails(t, i) \/ CallStoreFails(t, i)
    \/ \E t \in Tabs, l \in Lists :
          \/ StartSync(t, l) \/ Online(t, l) \/ Flush(t, l)
          \/ DriveStep(t, l) \/ DriveStoreFails(t, l)
    \/ \E t \in Tabs : Pause(t) \/ LockAgain(t) \/ Crash(t) \/ Open(t)
    \/ \E t \in Tabs, l \in Lists, c \in Chats : SetChatPolicy(t, l, c)
    \/ \E i \in Items : ServerReceives(i) \/ HoldElapses(i)

Spec == Init /\ [][Next]_vars

(* Fairness.  Promise continuations and timers run, the browser's lock      *)
(* queue is first-come first-served (hence strong fairness for the lease),  *)
(* requests reach the server, the user opens and unlocks the app again, and *)
(* "online" events recur; they may take the places in Lists that startSync() *)
(* needs, which is a bound of the model (hence strong fairness for it).     *)
(* Failures, pauses, crashes and the user's clicks are never forced.        *)
Fairness ==
    /\ \A t \in Tabs, i \in Items :
          /\ WF_vars(CallStep(t, i)) /\ WF_vars(SendStep(t, i))
          /\ WF_vars(TimerFires(t, i)) /\ SF_vars(SendStart(t, i))
    /\ \A t \in Tabs, l \in Lists : WF_vars(DriveStep(t, l))
    /\ \A t \in Tabs :
          /\ WF_vars(Open(t)) /\ SF_vars(\E l \in Lists : StartSync(t, l))
          /\ WF_vars(\E l \in Lists : Online(t, l))
    /\ \A i \in Items : WF_vars(ServerReceives(i)) /\ WF_vars(HoldElapses(i))

FairSpec == Spec /\ Fairness

-----------------------------------------------------------------------------
(* Properties.                                                             *)

JobPC   == {"idle", "read", "write", "request", "delete", "readFailed", "writeFailed"}
CallPC  == {"idle", "add", "cancelRead", "retryRead", "retryWrite"}
DrivePC == {"idle", "scan", "evict", "list", "synced"} \cup Restoring
Kinds   == {"sync", "resume", "online", "flush"} \cup Transitions

Job   == [pc : JobPC, live : BOOLEAN, row : Rows]
Call  == [pc : CallPC, row : Rows]
Drive == [pc : DrivePC, kind : Kinds, chats : SUBSET Chats, keep : BOOLEAN,
          left : [Items -> Rows], cur : SUBSET Items]

StoreType ==
    /\ disk \in [Items -> Rows]
    /\ ram \in [Tabs -> [Items -> Rows]]
TabType ==
    /\ persist \in [Tabs -> [Chats -> BOOLEAN]]
    /\ up \in [Tabs -> BOOLEAN]
    /\ paused \in [Tabs -> BOOLEAN]
    /\ plane \in [Tabs -> {"locked", "open", "syncing"}]
QueueType ==
    /\ chain \in [Tabs -> [Chats -> Seq(Items)]]
    /\ timer \in [Tabs -> SUBSET Items]
WorkType ==
    /\ job \in [Tabs -> [Items -> Job]]
    /\ lease \in [Items -> Tabs \cup {Free}]
CallType == call \in [Tabs -> [Items -> Call]]
DriveType == drive \in [Tabs -> [Lists -> Drive]]
EnvType ==
    /\ held \in SUBSET Deletes
    /\ born \in Seq(Items)
    /\ orphan \in SUBSET Items
    /\ log \in Seq(Items)
HistType ==
    /\ acked \in SUBSET Items /\ undone \in SUBSET Items
    /\ undoneHeld \in SUBSET Items /\ failedOnce \in SUBSET Items
    /\ session \in [Tabs -> SUBSET Items]
    /\ behind \in [Items -> SUBSET Items]
    /\ used \in [Events -> Nat]

\* Every variable stays in its type.
TypeOK == StoreType /\ TabType /\ QueueType /\ WorkType /\ CallType /\ DriveType /\ EnvType /\ HistType

Received == Range(log)

\* A sendClaimed() runs under the lease of its item, ...
LeaseHeld == \A t \in Tabs, i \in Items : job[t][i].pc # "idle" => lease[i] = t

\* ... a current one at the head of its chain, ...
AtHead == \A t \in Tabs, i \in Items :
             (job[t][i].pc # "idle" /\ job[t][i].live) => Turn(t, i)

\* ... in an open, unlocked tab; only such a one has a request on the wire.
CurrentIsLive ==
    /\ \A t \in Tabs : ~up[t] => paused[t]
    /\ \A t \in Tabs, i \in Items :
          /\ job[t][i].live => Usable(t)
          /\ job[t][i].pc = "request" => job[t][i].live

\* The inductive invariant behind the next three properties.
ClaimInv == TypeOK /\ LeaseHeld /\ AtHead /\ CurrentIsLive

\* Two tabs never work on the same row at once: a row is read, sent, deleted or
\* marked failed by one sendClaimed() at a time, over pauses, crashes and
\* restarts (outbox.ts:59-61).
ClaimExclusive ==
    \A i \in Items : \A t, u \in Tabs :
        (job[t][i].pc # "idle" /\ job[u][i].pc # "idle") => t = u

\* In one tab at most one request of a chat is on the wire, also after a pause
\* and a resume have replaced the chain that was running (outbox.ts:351-352).
OneFetchPerChat ==
    \A t \in Tabs, i, j \in Items :
        (/\ job[t][i].pc = "request" /\ job[t][j].pc = "request"
         /\ ChatOf[i] = ChatOf[j]) => i = j

\* A locked or closed tab has no request on the wire, whatever was in flight
\* when pause() ran (outbox.ts:93-95).
LockedQuiet ==
    \A t \in Tabs, i \in Items : job[t][i].pc = "request" => Usable(t)

\* No delete reaches the server before its undo window has elapsed, whichever
\* tab, restart, retry or "online" event drives the queue; only flush(), which
\* the client never calls, cuts the window short on purpose (outbox.ts:278).
HoldRespected == used["flush"] = 0 => held \cap Received = {}

\* A delete whose cancel() resolved true inside the undo window never reaches
\* the server afterwards, as long as the policy does not change: a transition
\* that has scanned the row before writes it again (outbox.ts:134-139).
UndoHonoured == used["policy"] = 0 /\ used["flush"] = 0 => undoneHeld \cap Received = {}

\* An item of a durable chat whose enqueue resolved is on disk until the server
\* has it or the user withdrew it, as long as the policy does not change.
NoLoss ==
    used["policy"] = 0 =>
    \A i \in acked \ (Received \cup undone) : ChatOf[i] \notin CloudOnly => disk[i] # None

\* Without failures, messages of a chat that one session queued one after the
\* other reach the server in that order, over locks, restarts and other tabs, as
\* long as the policy does not change, since a row in RAM dies with its tab, and
\* without flush(), which leaves out a message that a tab is sending.
OrderWhenHealthy ==
    used["policy"] = 0 /\ used["flush"] = 0 =>
    \A k \in DOMAIN log : \A i \in behind[log[k]] \cap Messages :
        \/ i \in undone \cup failedOnce
        \/ \E m \in 1..k : log[m] = i

\* Every accepted item of a durable chat is eventually received or withdrawn.
EventuallySettled ==
    \A i \in Items :
        (i \in acked /\ ChatOf[i] \notin CloudOnly) ~> (i \in Received \cup undone)

\* A put of item i that tab t has called has not taken effect yet.
PutUnderWay(t, i) ==
    \/ job[t][i].pc \in {"write", "writeFailed"} /\ job[t][i].row # None
    \/ call[t][i].pc = "retryWrite" /\ call[t][i].row # None

\* While a chat becomes cloud-only under running sends, retries and list()
\* calls, no item queued in the live session vanishes: it is on disk, in RAM or
\* in a put under way until the server has it (outbox.ts:133).  Excepted are: a
\* list() that is putting rows back at the moment of the switch, since a send
\* that fails then deletes what it has put (outbox.ts:148-149 against 164-165);
\* a chat that is switched back; a store failure during the rollback of the
\* transition; and several tabs: one may evict a row of another, and be closed.
KeptWhenGoingCloudOnly ==
    (used["policy"] <= 1 /\ used["storeFail"] = 0 /\ used["overlap"] = 0) =>
    \A t \in Tabs : (\A u \in Tabs : u = t) =>
    \A i \in (session[t] \cap acked) \ (Received \cup undone) : ChatOf[i] \notin CloudOnly =>
        disk[i] # None \/ ram[t][i] # None \/ PutUnderWay(t, i)

-----------------------------------------------------------------------------
(* The inductive invariant behind HoldRespected, UndoHonoured and NoLoss.   *)

InNoChain(t, i) == \A c \in Chats : i \notin Range(chain[t][c])

\* An item that nobody has queued yet left no trace.
Unknown(i) ==
    /\ i \notin held \cup orphan \cup Received \cup acked \cup undoneHeld \cup failedOnce
    /\ disk[i] = None
    /\ \A t \in Tabs :
          /\ ram[t][i] = None /\ i \notin timer[t] /\ (\A l \in Lists : drive[t][l].left[i] = None)
          /\ job[t][i] = NoJob /\ call[t][i] = NoCall /\ InNoChain(t, i)
NewOnes == \A i \in Items \ Range(born) : Unknown(i)

\* No sender has come near a held delete: it is queued or gone, wherever it is
\* stored, copied or about to be written.  flush() alone cuts the hold short.
Resting == {None, "queued"}
Untouched(i) ==
    /\ i \notin orphan \cup Received \cup failedOnce
    /\ disk[i] \in Resting
    /\ \A t \in Tabs :
          /\ ram[t][i] \in Resting
          /\ \A l \in Lists : drive[t][l].left[i] \in Resting
          /\ job[t][i] = NoJob /\ InNoChain(t, i)
          /\ call[t][i].pc \in {"idle", "add", "cancelRead"} /\ call[t][i].row \in Resting
HeldUntouched == used["flush"] = 0 =>
    /\ \A t \in Tabs, l \in Lists : drive[t][l].kind # "flush"
    /\ \A i \in held : Untouched(i)

\* One enqueue stores an item and acknowledges it; only then is it withdrawn.
AddedOnce == \A i \in Items, t \in Tabs :
    /\ call[t][i].pc = "add" => i \notin acked /\ \A u \in Tabs : call[u][i].pc = "add" => u = t
    /\ call[t][i].pc = "cancelRead" => i \in acked

\* As long as the policy does not change, a row of a durable chat is on disk or
\* in a put under way and never in RAM, and one of a cloud-only chat is in the
\* RAM of one tab and never on disk; so no list() moves a row.
Durable(i) == ChatOf[i] \notin CloudOnly
OnDisk(i) == \A t \in Tabs :
    ram[t][i] = None /\ (call[t][i].pc = "add" => call[t][i].row # None)
Knows(t, i) == ram[t][i] # None \/ call[t][i].row # None \/ job[t][i].row # None
InOneRam(i) ==
    /\ disk[i] = None
    /\ \A t \in Tabs :
          /\ \A l \in Lists : drive[t][l].left[i] = None
          /\ call[t][i].pc \in {"add", "retryWrite"} => call[t][i].row = None
          /\ job[t][i].pc \in {"write", "writeFailed"} => job[t][i].row = None
    /\ \A t, u \in Tabs : Knows(t, i) /\ Knows(u, i) => t = u
OnePlace ==
    /\ \A t \in Tabs, c \in Chats : persist[t][c] = (c \notin CloudOnly)
    /\ \A t \in Tabs, l \in Lists :
          /\ drive[t][l].pc \in {"idle", "scan", "synced", "list"}
          /\ drive[t][l].kind \notin Transitions
    /\ \A i \in Items : IF Durable(i) THEN OnDisk(i) ELSE InOneRam(i)
FixedPolicy == used["policy"] = 0 => OnePlace

\* Nothing of a delete that was withdrawn in time is left that a put, a retry or
\* a sender could make a row of again; a stale listing only leads to a send that
\* finds no row.
Gone(i) ==
    /\ i \in acked \ (orphan \cup Received)
    /\ disk[i] = None
    /\ \A t \in Tabs :
          /\ ram[t][i] = None
          /\ job[t][i].pc = "idle" \/ (job[t][i].pc = "read" /\ job[t][i].row = None)
          /\ \/ call[t][i].pc \in {"idle", "cancelRead"}
             \/ call[t][i].pc = "retryRead" /\ call[t][i].row = None
WithdrawnGone == used["policy"] = 0 /\ used["flush"] = 0 => \A i \in undoneHeld : Gone(i)

RowInv == ClaimInv /\ NewOnes /\ HeldUntouched /\ AddedOnce /\ FixedPolicy /\ NoLoss /\ WithdrawnGone

-----------------------------------------------------------------------------
(* The inductive invariant behind OrderWhenHealthy.                         *)

\* Nobody has to wait for i, or no longer.
Done(i) == i \in undone \cup failedOnce \cup Received
\* The messages that must arrive before j.
Needed(j) == {i \in behind[j] \cap Messages : ~Done(i)}
\* The tab t has the row of i at hand.
Reached(t, i) == Durable(i) \/ i \in session[t]

\* Items are queued once, and behind acknowledged ones of their chat.
Queued ==
    /\ \A m, n \in DOMAIN born : born[m] = born[n] => m = n
    /\ \A j \in Items : \A i \in behind[j] :
          i \in acked /\ ChatOf[i] = ChatOf[j] /\ Older(i, j)

\* What a session has queued is on its chain once acknowledged, and in the RAM of
\* its tab when the chat is cloud-only.
InSession == \A t \in Tabs :
    /\ session[t] # {} => Usable(t)
    /\ session[t] \subseteq Range(born)
    /\ \A i \in session[t] \cap Messages : Done(i) \/
          /\ i \in acked => i \in Range(chain[t][ChatOf[i]])
          /\ Durable(i) \/ ram[t][i] # None
    /\ \A i \in session[t], u \in Tabs : call[u][i].pc = "add" => u = t

\* What a chain or a timer is going to send has its predecessors in front of it.
InLine == \A t \in Tabs :
    /\ \A c \in Chats : \A n \in DOMAIN chain[t][c] : \A i \in Needed(chain[t][c][n]) :
          Reached(t, i) /\ \E m \in 1 .. n - 1 : chain[t][c][m] = i
    /\ \A j \in timer[t] :
          /\ j \notin Messages
          /\ \A i \in Needed(j) : Reached(t, i) /\ i \in Range(chain[t][ChatOf[i]])

\* So has what a list() of a resume or a session finds.
Listed == \A t \in Tabs, j \in Items :
    /\ ~Durable(j) /\ ram[t][j] # None => Needed(j) \subseteq session[t]
    /\ Durable(j) => \A l \in Lists :
          drive[t][l].pc = "list" /\ drive[t][l].kind = "resume" /\ drive[t][l].left[j] # None
             => \A i \in Needed(j) : drive[t][l].left[i] # None

\* Nothing of a durable item but its call is left before it is acknowledged.
Stored == \A i \in Items : Durable(i) /\ i \notin acked =>
    /\ disk[i] = None /\ i \notin failedOnce
    /\ \A t \in Tabs :
          /\ job[t][i] = NoJob /\ InNoChain(t, i) /\ i \notin timer[t]
          /\ \A l \in Lists : drive[t][l].left[i] = None

\* Where a row says "failed", the item has failed.
Says(row, i) == row = "failed" => i \in failedOnce
Failures == \A t \in Tabs, i \in Items :
    /\ Says(disk[i], i) /\ Says(ram[t][i], i) /\ \A l \in Lists : Says(drive[t][l].left[i], i)
    /\ Says(job[t][i].row, i) /\ Says(call[t][i].row, i)
    /\ job[t][i].pc \in {"readFailed", "writeFailed"} => i \in failedOnce
    /\ call[t][i].pc \in {"retryRead", "retryWrite"} => i \in failedOnce
    /\ call[t][i].pc = "cancelRead" => i \in Deletes

\* Whatever a sender has begun with, now or before, waits for nothing; and a
\* sender that ends without a failure has sent its message, or has found none.
InTurn ==
    /\ \A i \in failedOnce \cup orphan : Needed(i) = {}
    /\ \A t \in Tabs, i \in Items :
          /\ job[t][i].pc # "idle" => Needed(i) = {}
          /\ job[t][i].pc = "delete" => i \in Received
          /\ job[t][i].pc = "read" /\ job[t][i].row = None /\ i \in Messages
                => Done(i) \/ ~Reached(t, i)

Ordered == Queued /\ InSession /\ InLine /\ Listed /\ Stored /\ Failures /\ InTurn
OrderInv == OrderWhenHealthy /\ (used["policy"] = 0 /\ used["flush"] = 0 => Ordered)

-----------------------------------------------------------------------------
(* The inductive invariant behind KeptWhenGoingCloudOnly.                   *)

Alone(t) == \A u \in Tabs : u = t
Over(i) == i \in Received \cup undone
Copied(t, i) == disk[i] # None \/ ram[t][i] # None \/ PutUnderWay(t, i)

\* The session has a copy of what it queued, or its first put is still to come.
Copies(t) == \A i \in session[t] : Durable(i) => Over(i) \/
    IF i \in acked THEN Copied(t, i)
    ELSE call[t][i].pc = "add" /\ (call[t][i].row # None \/ Copied(t, i))

\* What a list() is about to drop from RAM is on disk, and no call of its tab
\* takes it off, because the chat is durable.
Restores(t) == \A l \in Lists :
    /\ drive[t][l].pc \notin Restoring => drive[t][l].cur = {}
    /\ \A i \in drive[t][l].cur : Durable(i) =>
          /\ drive[t][l].kind \notin Transitions /\ Persists(t, i) /\ drive[t][l].left[i] # None
          /\ drive[t][l].pc = "restored" => Over(i) \/ disk[i] # None

\* There is one transition, never one that makes a chat durable that was so at
\* first; until it switches, all of these are durable.
OneSwitch(t) == \A l \in Lists :
    /\ drive[t][l].kind # "rollback"
    /\ drive[t][l].kind = "policy" =>
          /\ ~drive[t][l].keep \/ drive[t][l].chats \subseteq CloudOnly
          /\ \A m \in Lists : drive[t][m].kind = "policy" => m = l
          /\ \A c \in Chats \ CloudOnly : persist[t][c]

\* What it has yet to evict of them is not in RAM, and no list() restores it.
Leaves(t) == \A l \in Lists :
    drive[t][l].kind = "policy" /\ drive[t][l].pc \in {"scan", "evict"} =>
    \A i \in Items : Durable(i) /\ drive[t][l].left[i] # None =>
        /\ ram[t][i] = None
        /\ \A m \in Lists : drive[t][m].pc \in Restoring => drive[t][m].left[i] = None

KeptInv == used["policy"] <= 1 /\ used["storeFail"] = 0 /\ used["overlap"] = 0 =>
    \A t \in Tabs : Alone(t) => Copies(t) /\ Restores(t) /\ OneSwitch(t) /\ Leaves(t)
=============================================================================
