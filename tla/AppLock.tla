-------------------------------- MODULE AppLock --------------------------------
(***************************************************************************)
(* The application lock: its controller and lock machine                   *)
(* (core/src/crypto_store/app_lock.ts, lock_machine.ts, session.ts), the   *)
(* encrypted store whose key it owns (core/src/encrypted_store.ts) and the *)
(* wiring of both in the web shell (web/src/main.ts, web/src/app_lock.ts). *)
(*                                                                         *)
(* One realm.  The controller runs one operation at a time, op; the lock   *)
(* signals of the platform do not wait for it.  A row of the store is one  *)
(* of three kinds: plain, sealed under the key of the present container,   *)
(* or lost, an envelope that key cannot open.  A key buffer is live until  *)
(* a lock overwrites it with zeros, which no longer matters once it has    *)
(* been imported.  Delays after wrong codes, cold entry, policies, other   *)
(* tabs and media files are left out.                                      *)
(***************************************************************************)
EXTENDS Naturals

CONSTANTS
    WipeAfter,  \* policy.wipeAfter
    BioLimit,   \* APP_LOCK_BIOMETRIC_FAILURE_LIMIT
    MaxEvents   \* crashes, failed deletions and altered rows (a bound)

ASSUME LimitAssumption == WipeAfter \in Nat \ {0} /\ BioLimit \in Nat \ {0}
ASSUME BoundAssumption == MaxEvents \in Nat

VARIABLES
    machine,    \* LockMachine.state, "NONE" without a machine
    enabling,   \* the synchronous boundary of enable()
    snap,       \* the snapshot, in memory and in localStorage
    op,         \* the controller's operation under way
    dbKey,      \* the buffer of K_db
    imported,   \* the store has imported that buffer
    rows, read, write,  \* the store: kinds of rows, a read and a write under way
    alarm,      \* the integrity incident of this page
    tampered,   \* history: a row was altered from outside
    unclean,    \* history: a deletion of local data failed
    overtaken,  \* history: the lock changed under an operation of the store
    left        \* how many more events the environment may produce

lock == <<machine, enabling, snap, op>>
key == <<dbKey, imported>>
store == <<rows, read, write>>
history == <<tampered, unclean, overtaken, left>>
vars == <<lock, key, store, alarm, history>>

NoContainer == [container |-> "none", pending |-> FALSE, failures |-> 0, duress |-> FALSE,
                bio |-> "off", bioFailures |-> 0, reset |-> FALSE]
Idle == [pc |-> "idle", what |-> "none"]

Disabled == ~enabling /\ machine = "NONE" /\ snap.container = "none"
Unlocked == machine = "UNLOCKED" /\ ~snap.pending
Wipeable == machine \notin {"NONE", "WIPED"}
Event == left > 0 /\ left' = left - 1

Begins(pc, what) == op = Idle /\ op' = [pc |-> pc, what |-> what]
At(pc) == op.pc = pc
Goes(pc, what) == op' = [pc |-> pc, what |-> what]
Ends == op' = Idle

\* Something of the store is under way while the lock changes.
Overtakes == overtaken' = (overtaken \/ read # "idle" \/ write # "idle"
                           \/ op.pc \in {"collect", "batch", "commit"})

\* CryptoSession.lock(): the buffers are overwritten, imported keys live on.
Zeroize ==
    /\ read' = IF read # "live" THEN read ELSE IF imported THEN "cached" ELSE "zero"
    /\ op' = IF op.pc \in {"collect", "batch", "commit"} /\ ~imported
             THEN [op EXCEPT !.what = "zero"] ELSE op

\* The end of the master key: what it sealed is lost, whoever holds its K_db.
DestroyKey ==
    /\ rows' = IF "sealed" \in rows THEN (rows \ {"sealed"}) \cup {"lost"} ELSE rows
    /\ read' = CASE read = "live" /\ ~imported -> "zero"
               [] read \in {"live", "cached"} -> "old"
               [] OTHER -> read
    /\ write' = IF write = "sealed" THEN "zero" ELSE write
    /\ dbKey' = "none" /\ imported' = FALSE
    /\ Overtakes

-----------------------------------------------------------------------------
(* Setting the code.                                                       *)

\* Synchronous, before the operation gets its turn.
EnableStart ==
    /\ Disabled
    /\ enabling' = TRUE /\ Overtakes
    /\ UNCHANGED <<machine, snap, op, key, store, alarm, tampered, unclean, left>>

EnableRuns ==
    /\ enabling /\ Begins("create", "none")
    /\ UNCHANGED <<machine, enabling, snap, key, store, alarm, history>>

\* The container becomes durable with the migration pending, and is opened.
EnableCreated ==
    /\ At("create") /\ enabling' = FALSE
    /\ \/ /\ snap' = [NoContainer EXCEPT !.container = "wrapped", !.pending = TRUE]
          /\ machine' = "COLD" /\ Goes("kdf", "right")
       \/ Ends /\ UNCHANGED <<snap, machine>>
    /\ UNCHANGED <<key, store, alarm, history>>

-----------------------------------------------------------------------------
(* Opening.                                                                *)

Unlock(code) ==
    /\ machine \in {"COLD", "LOCKED"} /\ (code = "duress" => snap.duress)
    /\ Begins("kdf", code)
    /\ UNCHANGED <<machine, enabling, snap, key, store, alarm, history>>

UnlockBiometric(answer) ==
    /\ machine \in {"COLD", "LOCKED"}
    /\ snap.bio = "wrap" /\ snap.bioFailures < BioLimit
    /\ Begins("prompt", answer)
    /\ UNCHANGED <<machine, enabling, snap, key, store, alarm, history>>

\* unlockOrDuress(), or a biometric master key: the machine opens before the
\* controller has K_db.
Accepted ==
    /\ op.pc \in {"kdf", "prompt"} /\ op.what = "right"
    /\ machine' = "UNLOCKED"
    /\ Goes("derive", IF At("kdf") THEN "code" ELSE "bio")
    /\ UNCHANGED <<enabling, snap, key, store, alarm, history>>

AnyFailureLeft == snap.failures > WipeAfter                          \* faulty
LastFailure == snap.failures + 1 >= WipeAfter
WrongCode ==
    /\ At("kdf") /\ op.what = "wrong"
    /\ IF LastFailure
       THEN /\ snap' = [snap EXCEPT !.failures = @ + 1, !.bio = "off", !.bioFailures = 0]
            /\ Goes("bioCleared", "wipe")
       ELSE snap' = [snap EXCEPT !.failures = @ + 1] /\ Ends
    /\ UNCHANGED <<machine, enabling, key, store, alarm, history>>

\* A biometric miss never counts as a wrong code; a new enrolment only spends
\* the wrap.
BiometricRefused ==
    /\ At("prompt") /\ op.what # "right" /\ Ends
    /\ snap' = CASE op.what = "replaced" -> [snap EXCEPT !.bio = "stale"]
               [] op.what = "lockout" -> [snap EXCEPT !.bioFailures = BioLimit]
               [] OTHER -> [snap EXCEPT !.bioFailures = @ + 1]
    /\ UNCHANGED <<machine, enabling, key, store, alarm, history>>

\* What follows an accepted code once the rows are in order.
Opened(k) ==
    /\ snap' = [snap EXCEPT !.failures = 0, !.bioFailures = 0, !.pending = FALSE]
    /\ dbKey' = k
    /\ IF snap.bio = "stale" THEN Goes("bioSet", "none") ELSE Ends

NeverMigrates == FALSE                                               \* faulty
NeedsMigration == snap.pending
Derived ==
    /\ At("derive")
    /\ \/ machine # "UNLOCKED" /\ Ends /\ UNCHANGED <<snap, key>>
       \/ /\ machine = "UNLOCKED" /\ NeedsMigration /\ Goes("collect", "live")
          /\ imported' = FALSE /\ UNCHANGED <<snap, dbKey>>
       \/ /\ machine = "UNLOCKED" /\ ~NeedsMigration /\ imported' = FALSE
          /\ IF op.what = "code" THEN Opened("live")
             ELSE /\ snap' = [snap EXCEPT !.failures = 0, !.bioFailures = 0]
                  /\ dbKey' = "live" /\ Ends
    /\ UNCHANGED <<machine, enabling, store, alarm, history>>

\* migrateForAppLock(): the rows are read, then sealed (the first seal imports
\* the key), then replaced in one transaction, then checked.
Collected ==
    /\ At("collect") /\ Goes("batch", op.what)
    /\ imported' = ("plain" \in rows)
    /\ UNCHANGED <<machine, enabling, snap, dbKey, store, alarm, history>>

Resealed == IF op.what = "zero" THEN "lost" ELSE "sealed"
Batched ==
    /\ At("batch") /\ Goes("commit", op.what)
    /\ rows' = IF "plain" \in rows THEN (rows \ {"plain"}) \cup {Resealed} ELSE rows
    /\ UNCHANGED <<machine, enabling, snap, key, read, write, alarm, history>>

\* The marker is cleared whether or not the machine has been locked meanwhile.
Committed ==
    /\ At("commit") /\ Opened(op.what)
    /\ UNCHANGED <<machine, enabling, imported, store, alarm, history>>

MigrationFails ==
    /\ op.pc \in {"collect", "batch", "commit"} /\ Ends
    /\ machine' = "LOCKED" /\ dbKey' = "none" /\ imported' = FALSE
    /\ UNCHANGED <<enabling, snap, store, alarm, history>>

-----------------------------------------------------------------------------
(* The open lock: its second factor, its codes, and closing.               *)

SetBiometric ==
    /\ machine = "UNLOCKED"
    /\ \/ snap.bio # "wrap" /\ Begins("bioSet", "none") /\ UNCHANGED snap
       \/ /\ snap.bio # "off" /\ op = Idle /\ UNCHANGED op
          /\ snap' = [snap EXCEPT !.bio = "off", !.bioFailures = 0]
    /\ UNCHANGED <<machine, enabling, key, store, alarm, history>>

\* createBiometricWrap() rejects when the session is gone; so may the person.
BiometricSet ==
    /\ At("bioSet") /\ Ends
    /\ \/ machine = "UNLOCKED" /\ snap' = [snap EXCEPT !.bio = "wrap", !.bioFailures = 0]
       \/ UNCHANGED snap
    /\ UNCHANGED <<machine, enabling, key, store, alarm, history>>

\* changeCode(), configureDuress() and disableDuress() wrap the key anew.
Rewrap(what) ==
    /\ machine = "UNLOCKED" /\ Begins("rewrap", what)
    /\ UNCHANGED <<machine, enabling, snap, key, store, alarm, history>>

Rewrapped ==
    /\ At("rewrap")
    /\ \/ /\ machine = "UNLOCKED"
          /\ snap' = [snap EXCEPT !.bio = IF @ = "off" THEN "off" ELSE "stale", !.bioFailures = 0,
                                  !.duress = CASE op.what = "duress" -> TRUE
                                             [] op.what = "noDuress" -> FALSE
                                             [] OTHER -> @]
          /\ IF snap.bio = "off" THEN Ends ELSE Goes("bioSet", "none")
       \/ Ends /\ UNCHANGED snap
    /\ UNCHANGED <<machine, enabling, key, store, alarm, history>>

\* The screen goes off, the background timer fires, the page is left, another
\* tab is locked, or the person locks: no operation is waited for.
Lock ==
    /\ machine = "UNLOCKED" /\ machine' = "LOCKED"
    /\ Zeroize /\ Overtakes
    /\ dbKey' = "none"
    /\ imported' = (imported /\ op.pc \in {"collect", "batch", "commit"})
    /\ UNCHANGED <<enabling, snap, rows, write, alarm, tampered, unclean, left>>

-----------------------------------------------------------------------------
(* Erasing.  The last biometric wrap goes before the container does.       *)

DisableAndWipe(code) ==
    /\ Wipeable /\ Begins("verify", code)
    /\ UNCHANGED <<machine, enabling, snap, key, store, alarm, history>>

KeepBiometric == UNCHANGED snap                                      \* faulty
ClearBiometric == snap' = [snap EXCEPT !.bio = "off", !.bioFailures = 0]
Verified ==
    /\ At("verify")
    /\ IF op.what = "right" THEN ClearBiometric /\ Goes("bioCleared", "disable")
       ELSE Ends /\ UNCHANGED snap
    /\ UNCHANGED <<machine, enabling, key, store, alarm, history>>

\* The answer to an integrity incident; it is rejected when there is no lock.
IntegrityWipe ==
    /\ alarm = "raised" /\ op = Idle /\ alarm' = "done"
    /\ IF Wipeable THEN ClearBiometric /\ Goes("bioCleared", "wipe")
       ELSE UNCHANGED <<snap, op>>
    /\ UNCHANGED <<machine, enabling, key, store, history>>

\* LockMachine.wipe() with the tombstone.
Wiped ==
    /\ At("bioCleared") /\ Goes("erase", op.what)
    /\ machine' = "WIPED" /\ DestroyKey
    /\ snap' = [snap EXCEPT !.container = "tombstone", !.pending = FALSE]
    /\ UNCHANGED <<enabling, alarm, tampered, unclean, left>>

\* A duress code, or panic(); no tombstone is ever written.
FreshInstallWipe ==
    /\ Goes("erase", "fresh")
    /\ machine' = "WIPED" /\ DestroyKey
    /\ snap' = [NoContainer EXCEPT !.reset = TRUE]
    /\ UNCHANGED <<enabling, alarm, tampered, unclean, left>>

TriggerDuress == At("kdf") /\ op.what = "duress" /\ FreshInstallWipe
Panic == op = Idle /\ Wipeable /\ FreshInstallWipe

ResetAfterWipe ==
    /\ snap.container = "tombstone" /\ Begins("erase", "reset")
    /\ UNCHANGED <<machine, enabling, snap, key, store, alarm, history>>

\* The teardown after a duress code; a boot has queued it before anything else.
CompleteReset ==
    /\ snap.reset /\ machine = "NONE" /\ Begins("erase", "complete")
    /\ UNCHANGED <<machine, enabling, snap, key, store, alarm, history>>

MarkerKept == snap                                                   \* faulty
MarkerRemoved == [snap EXCEPT !.reset = FALSE]

\* bestEffortLocalWipe() and what each caller does after it.
Erased ==
    /\ At("erase") /\ Ends
    /\ \/ rows' = {} /\ UNCHANGED <<unclean, left>>
       \/ Event /\ unclean' = TRUE /\ UNCHANGED rows
    /\ CASE op.what = "wipe" -> UNCHANGED <<snap, machine>>
       [] op.what = "complete" -> snap' = MarkerRemoved /\ UNCHANGED machine
       [] op.what = "fresh" -> machine' = "NONE" /\ UNCHANGED snap
       [] OTHER -> machine' = "NONE" /\ snap' = NoContainer
    /\ UNCHANGED <<enabling, key, read, write, alarm, tampered, overtaken>>

\* The page ends, by a crash or a reload, and starts again.
Boot ==
    /\ Event
    /\ machine' = IF snap.container = "wrapped" THEN "COLD" ELSE "NONE"
    /\ enabling' = FALSE /\ dbKey' = "none" /\ imported' = FALSE
    /\ op' = IF snap.reset THEN [pc |-> "erase", what |-> "complete"] ELSE Idle
    /\ read' = "idle" /\ write' = "idle" /\ alarm' = "none"
    /\ UNCHANGED <<snap, rows, tampered, unclean, overtaken>>

-----------------------------------------------------------------------------
(* The store.  Every operation asks for the key first.                     *)

HasKey == Unlocked /\ dbKey # "none"
Captured == CASE dbKey = "live" /\ imported -> "cached" [] OTHER -> dbKey

ReadStart ==
    /\ read = "idle"
    /\ \/ Disabled /\ read' = "plain"
       \/ HasKey /\ read' = Captured
    /\ UNCHANGED <<lock, key, rows, write, alarm, history>>

\* Plain rows are for a store without a lock, envelopes for their own key; a
\* key that is gone still opens what it sealed.  Without a key the read fails
\* and says so to nobody but its caller.
Refused(row) == CASE row = "plain" -> ~Disabled
                [] row = "sealed" -> read \in {"zero", "old"}
                [] row = "lost" -> read # "plain"
                [] OTHER -> FALSE
Opens(row) == ~Refused(row) \/ (row = "lost" /\ read \in {"zero", "old"})

ReadDone(row) ==
    /\ read # "idle" /\ row \in rows \cup {"absent"}
    /\ read' = "idle"
    /\ imported' = (imported \/ (read = "live" /\ row \in {"sealed", "lost"}))
    /\ \/ Opens(row) /\ UNCHANGED alarm
       \/ Refused(row) /\ alarm' = IF alarm = "none" THEN "raised" ELSE alarm
    /\ UNCHANGED <<lock, dbKey, rows, write, history>>

\* A passthrough write takes its turn in the database at once; a sealed one
\* takes its key at once, and its turn when the seals are ready.
PlainWrite ==
    /\ Disabled /\ rows' = rows \cup {"plain"}
    /\ UNCHANGED <<lock, key, read, write, alarm, history>>
WriteStart ==
    /\ HasKey /\ write = "idle"
    /\ write' = IF dbKey = "zero" THEN "zero" ELSE "sealed"
    /\ imported' = TRUE
    /\ UNCHANGED <<lock, dbKey, rows, read, alarm, history>>
WriteDone ==
    /\ write # "idle" /\ write' = "idle"
    /\ rows' = rows \cup {IF write = "sealed" THEN "sealed" ELSE "lost"}
    /\ UNCHANGED <<lock, key, read, alarm, history>>

Tamper ==
    /\ Event /\ rows # {} /\ rows' = rows \cup {"lost"} /\ tampered' = TRUE
    /\ UNCHANGED <<lock, key, read, write, alarm, unclean, overtaken>>

-----------------------------------------------------------------------------

Init ==
    /\ machine = "NONE" /\ enabling = FALSE /\ snap = NoContainer /\ op = Idle
    /\ dbKey = "none" /\ imported = FALSE
    /\ rows \in {{}, {"plain"}} /\ read = "idle" /\ write = "idle" /\ alarm = "none"
    /\ tampered = FALSE /\ unclean = FALSE /\ overtaken = FALSE /\ left = MaxEvents

\* The user and the shell; none of these need ever happen.
Begun ==
    \/ EnableStart
    \/ \E code \in {"right", "wrong", "duress"} : Unlock(code)
    \/ \E answer \in {"right", "missed", "lockout", "replaced"} : UnlockBiometric(answer)
    \/ SetBiometric
    \/ \E what \in {"code", "duress", "noDuress"} : Rewrap(what)
    \/ \E code \in {"right", "wrong"} : DisableAndWipe(code)
    \/ Panic \/ ResetAfterWipe

\* What has begun goes on: derivations, prompts and transactions end.
Progress ==
    \/ EnableRuns \/ EnableCreated
    \/ Accepted \/ WrongCode \/ BiometricRefused
    \/ Derived \/ Collected \/ Batched \/ Committed \/ MigrationFails
    \/ BiometricSet \/ Rewrapped \/ Verified \/ Wiped \/ TriggerDuress \/ Erased

Stores == ReadStart \/ (\E row \in rows \cup {"absent"} : ReadDone(row))
          \/ PlainWrite \/ WriteStart \/ WriteDone

Next == Begun \/ Progress \/ IntegrityWipe \/ CompleteReset
        \/ Lock \/ Boot \/ Stores \/ Tamper

Spec == Init /\ [][Next]_vars

\* The operations go on, and the two that the shell itself queues get their
\* turn although the user keeps others coming: the queue is first in, first out.
FairSpec == Spec /\ WF_vars(Progress) /\ SF_vars(IntegrityWipe) /\ SF_vars(CompleteReset)

-----------------------------------------------------------------------------

Kinds == {"idle", "none", "create", "kdf", "prompt", "derive", "collect", "batch", "commit",
          "bioSet", "rewrap", "verify", "bioCleared", "erase"}
Answers == {"none", "right", "wrong", "duress", "noDuress", "missed", "lockout", "replaced",
            "code", "bio", "live", "zero", "wipe", "disable", "fresh", "reset", "complete"}
Snapshots == [container : {"none", "wrapped", "tombstone"}, pending : BOOLEAN,
              failures : 0 .. WipeAfter + MaxEvents, duress : BOOLEAN,
              bio : {"off", "wrap", "stale"}, bioFailures : 0 .. BioLimit, reset : BOOLEAN]

(* The state is well formed, the attempt counters stay within the limits at *)
(* which the code acts on them (a page that ends between the last attempt   *)
(* and the erasure earns one more), and a key is only held over a container.*)
TypeOK ==
    /\ machine \in {"NONE", "COLD", "UNLOCKED", "LOCKED", "WIPED"} /\ enabling \in BOOLEAN
    /\ snap \in Snapshots /\ op \in [pc : Kinds, what : Answers]
    /\ dbKey \in {"none", "live", "zero"} /\ imported \in BOOLEAN
    /\ rows \subseteq {"plain", "sealed", "lost"}
    /\ read \in {"idle", "plain", "live", "cached", "zero", "old"}
    /\ write \in {"idle", "sealed", "zero"} /\ alarm \in {"none", "raised", "done"}
    /\ tampered \in BOOLEAN /\ unclean \in BOOLEAN /\ overtaken \in BOOLEAN
    /\ left \in 0 .. MaxEvents
    /\ dbKey # "none" => snap.container = "wrapped"

(* The integrity incident of the encrypted store signs the user out and     *)
(* erases the container.  It is raised only when a row was altered, when a  *)
(* deletion had left rows of an erased container behind, or when the lock   *)
(* changed under an operation of the store; never in any other run of       *)
(* setting, opening, changing, migrating, crashing and erasing.             *)
AlarmExplained == alarm # "none" => tampered \/ unclean \/ overtaken

(* Every operation ends, an incident is answered, and the marker of a local *)
(* reset is removed, however often the application starts again.            *)
Quiet == op = Idle /\ ~enabling
Settled == []<>Quiet /\ (alarm = "raised" ~> alarm # "raised") /\ (snap.reset ~> ~snap.reset)

(* The comment of encrypted_store.ts on onIntegrityError: "Called at most   *)
(* once when authenticated storage integrity is violated".                  *)
OnlyWhenViolated == alarm # "none" => tampered \/ unclean

-----------------------------------------------------------------------------
(* The inductive invariant behind TypeOK and Promised.                      *)

(* A machine for every container, and nothing left of one that has gone.    *)
OneContainer ==
    /\ machine \in {"COLD", "UNLOCKED", "LOCKED"} <=> snap.container = "wrapped"
    /\ snap.container # "wrapped" => snap.bio = "off"
    /\ enabling => machine = "NONE" /\ snap.container = "none"
    /\ snap.reset => snap.container = "none"

(* What an operation has found when it began still holds where it is now.   *)
Migrates == op.pc \in {"collect", "batch", "commit"}
OverContainer == {"kdf", "prompt", "derive", "collect", "batch", "commit",
                  "bioSet", "rewrap", "verify", "bioCleared"}
InItsPlace ==
    /\ op.pc \in OverContainer => snap.container = "wrapped"
    /\ At("create") => enabling
    /\ op.pc \in {"kdf", "prompt"} => machine # "UNLOCKED"
    /\ Migrates => snap.pending /\ op.what \in {"live", "zero"}
    /\ At("bioCleared") => snap.bio = "off"
    /\ At("erase") =>
          /\ snap.container # "wrapped"
          /\ op.what \notin {"wipe", "complete"} =>
                machine = "WIPED" \/ snap.container = "tombstone"

(* A pending migration keeps the lock shut and the second door off, and only *)
(* it has plain rows under a container.                                      *)
Migrated ==
    /\ snap.bio = "wrap" => ~snap.pending
    /\ machine = "UNLOCKED" /\ snap.pending => At("derive") \/ Migrates
    /\ "plain" \in rows => snap.container # "wrapped" \/ snap.pending
    /\ At("commit") => "plain" \notin rows

(* An attempt beyond the limit takes a page that ends before the erasure.    *)
Counted ==
    /\ snap.failures + left <= WipeAfter + MaxEvents
    /\ snap.failures + left = WipeAfter + MaxEvents =>
          At("bioCleared") \/ snap.container = "tombstone"
    /\ At("prompt") => snap.bioFailures < BioLimit

LockInv == TypeOK /\ OneContainer /\ InItsPlace /\ Migrated /\ Counted

(* The inductive invariant behind AlarmExplained: while nothing has come     *)
(* between, a lost row is on its way out, every key is the one of the rows,  *)
(* and whoever reads is in the mode it began in.                             *)
Undisturbed ==
    tampered \/ unclean \/ overtaken \/
        /\ alarm = "none"
        /\ "lost" \in rows => snap.container = "tombstone" \/ (At("erase") /\ snap.reset)
        /\ dbKey # "zero" /\ write # "zero" /\ (Migrates => op.what = "live")
        /\ read \in {"idle", "plain", "live", "cached"}
        /\ read = "plain" => Disabled
        /\ read \in {"live", "cached"} => Unlocked


-----------------------------------------------------------------------------
(* The lock implements what it promises (Vault).                           *)

Phase == CASE enabling -> "shut"
         [] ~enabling /\ machine = "NONE" ->
              IF snap.container = "tombstone" THEN "gone" ELSE "off"
         [] ~enabling /\ machine = "WIPED" -> "gone"
         [] OTHER -> IF Unlocked THEN "open" ELSE "shut"
Doors == (IF snap.container = "wrapped" THEN {"code"} ELSE {})
         \cup (IF snap.bio = "wrap" THEN {"bio"} ELSE {})
Proved == \/ op.pc \in {"kdf", "prompt"} /\ op.what = "right"
          \/ At("derive") /\ machine = "UNLOCKED"
          \/ op.pc \in {"collect", "batch", "commit"}

Promise == INSTANCE Vault WITH phase <- Phase, doors <- Doors, proof <- Proved,
                               plain <- "plain" \in rows

(* The data is open to the application only after a code or a finger, and   *)
(* only when no plain row is left; no second door outlives the first.       *)
Promised == Promise!VaultSpec
================================================================================
