------------------------------ MODULE AppLockProofs ------------------------------
(***************************************************************************)
(* Proofs about the application lock, for every WipeAfter, BioLimit and    *)
(* MaxEvents: LockInv is an invariant of AppLock, and AppLock implements   *)
(* what Vault promises.  Unless a step hides them, the abbreviations of    *)
(* the module are expanded everywhere; an action, never.                   *)
(***************************************************************************)
EXTENDS AppLock, TLAPS

USE LimitAssumption, BoundAssumption
    DEF At, Begins, Goes, Ends, Idle, Event, lock, key, store, history,
        Disabled, Unlocked, Wipeable, Migrates, OverContainer, LockInv

-----------------------------------------------------------------------------
(* What the operations do to the snapshot, field by field.                 *)

(* The snapshot of a page without a lock is one, and holds nothing.         *)
LEMMA NoContainerIs ==
    /\ NoContainer \in Snapshots /\ NoContainer.container = "none"
    /\ NoContainer.pending = FALSE /\ NoContainer.failures = 0
    /\ NoContainer.bio = "off" /\ NoContainer.bioFailures = 0
    /\ NoContainer.reset = FALSE
BY DEF NoContainer, Snapshots

(* enable(): the new container is marked for its migration.                 *)
LEMMA CreatedEffect ==
    ASSUME snap' = [NoContainer EXCEPT !.container = "wrapped", !.pending = TRUE]
    PROVE  /\ snap' \in Snapshots /\ snap'.container = "wrapped" /\ snap'.pending = TRUE
           /\ snap'.failures = 0 /\ snap'.bio = "off" /\ snap'.bioFailures = 0
           /\ snap'.reset = FALSE
BY NoContainerIs DEF Snapshots

(* The biometric record changes alone.                                      *)
LEMMA BiometricSwitched ==
    ASSUME snap \in Snapshots, NEW b \in {"off", "wrap", "stale"}, NEW n \in 0 .. BioLimit,
           snap' = [snap EXCEPT !.bio = b, !.bioFailures = n]
    PROVE  /\ snap' \in Snapshots /\ snap'.container = snap.container
           /\ snap'.pending = snap.pending /\ snap'.failures = snap.failures
           /\ snap'.bio = b /\ snap'.bioFailures = n /\ snap'.reset = snap.reset
BY DEF Snapshots

(* clearBiometric(): the second door is gone, and nothing else is.          *)
LEMMA ClearedEffect ==
    ASSUME snap \in Snapshots, ClearBiometric
    PROVE  /\ snap' \in Snapshots /\ snap'.container = snap.container
           /\ snap'.pending = snap.pending /\ snap'.failures = snap.failures
           /\ snap'.bio = "off" /\ snap'.bioFailures = 0 /\ snap'.reset = snap.reset
<1>1. 0 \in 0 .. BioLimit /\ "off" \in {"off", "wrap", "stale"}
  OBVIOUS
<1> QED BY <1>1, BiometricSwitched DEF ClearBiometric

(* An accepted code ends the count of misses and the migration.             *)
LEMMA OpenedEffect ==
    ASSUME snap \in Snapshots, NEW p \in BOOLEAN,
           snap' = [snap EXCEPT !.failures = 0, !.bioFailures = 0, !.pending = p]
    PROVE  /\ snap' \in Snapshots /\ snap'.container = snap.container
           /\ snap'.pending = p /\ snap'.failures = 0
           /\ snap'.bio = snap.bio /\ snap'.bioFailures = 0 /\ snap'.reset = snap.reset
<1>1. 0 \in 0 .. WipeAfter + MaxEvents /\ 0 \in 0 .. BioLimit
  OBVIOUS
<1> QED BY <1>1 DEF Snapshots

(* A wrong code is counted; the last one also spends the second door.       *)
LEMMA WrongCodeEffect ==
    ASSUME snap \in Snapshots, WrongCode, left \in 0 .. MaxEvents,
           snap.failures + left < WipeAfter + MaxEvents
    PROVE  /\ snap' \in Snapshots /\ snap'.container = snap.container
           /\ snap'.pending = snap.pending /\ snap'.failures = snap.failures + 1
           /\ snap'.reset = snap.reset
           /\ \/ /\ LastFailure /\ snap'.bio = "off" /\ snap'.bioFailures = 0
                 /\ op' = [pc |-> "bioCleared", what |-> "wipe"]
              \/ /\ ~LastFailure /\ snap'.bio = snap.bio
                 /\ snap'.bioFailures = snap.bioFailures /\ op' = Idle
<1>1. snap.failures + 1 \in 0 .. WipeAfter + MaxEvents
  BY DEF Snapshots
<1>2. 0 \in 0 .. BioLimit
  OBVIOUS
<1>3. CASE LastFailure
  <2>1. snap' = [snap EXCEPT !.failures = snap.failures + 1,
                            !.bio = "off", !.bioFailures = 0]
        /\ op' = [pc |-> "bioCleared", what |-> "wipe"]
    BY <1>3 DEF WrongCode
  <2> QED BY <1>1, <1>2, <1>3, <2>1 DEF Snapshots
<1>4. CASE ~LastFailure
  BY <1>1, <1>4 DEF WrongCode, Snapshots
<1> QED BY <1>3, <1>4

(* A new wrapping of the master key makes the biometric wrap a stale one.   *)
LEMMA RewrappedEffect ==
    ASSUME snap \in Snapshots, Rewrapped, snap' # snap
    PROVE  /\ snap' \in Snapshots /\ snap'.container = snap.container
           /\ snap'.pending = snap.pending /\ snap'.failures = snap.failures
           /\ snap'.reset = snap.reset /\ snap'.bioFailures = 0
           /\ snap'.bio = IF snap.bio = "off" THEN "off" ELSE "stale"
<1>1. 0 \in 0 .. BioLimit
  OBVIOUS
<1>2. PICK x \in BOOLEAN :
        snap' = [snap EXCEPT !.bio = IF snap.bio = "off" THEN "off" ELSE "stale",
                             !.bioFailures = 0, !.duress = x]
  BY DEF Rewrapped, Snapshots
<1> QED BY <1>1, <1>2 DEF Snapshots

(* LockMachine.wipe(): a tombstone in the place of the container.           *)
LEMMA WipedEffect ==
    ASSUME snap \in Snapshots, Wiped
    PROVE  /\ snap' \in Snapshots /\ snap'.container = "tombstone"
           /\ snap'.pending = FALSE /\ snap'.failures = snap.failures
           /\ snap'.reset = snap.reset /\ snap'.bioFailures = snap.bioFailures
           /\ snap'.bio = snap.bio
BY DEF Wiped, Snapshots

(* A wipe that looks like a fresh install leaves the marker of the reset.   *)
LEMMA FreshEffect ==
    ASSUME FreshInstallWipe
    PROVE  /\ snap' \in Snapshots /\ snap'.container = "none"
           /\ snap'.pending = FALSE /\ snap'.failures = 0
           /\ snap'.bio = "off" /\ snap'.bioFailures = 0 /\ snap'.reset = TRUE
BY NoContainerIs DEF FreshInstallWipe, Snapshots

(* The rows and the calls under way stay of their kinds when a key ends.    *)
LEMMA DestroyedEffect ==
    ASSUME TypeOK, DestroyKey
    PROVE  /\ rows' \subseteq {"plain", "sealed", "lost"}
           /\ "plain" \in rows' <=> "plain" \in rows
           /\ read' \in {"idle", "plain", "live", "cached", "zero", "old"}
           /\ write' \in {"idle", "sealed", "zero"}
           /\ dbKey' = "none" /\ imported' = FALSE /\ overtaken' \in BOOLEAN
BY DEF TypeOK, DestroyKey, Overtakes

-----------------------------------------------------------------------------
(* Every action keeps LockInv.                                             *)

(* enable(), its synchronous part.                                          *)
LEMMA EnableStartKeeps == ASSUME LockInv, EnableStart PROVE LockInv'
BY DEF EnableStart, Overtakes, TypeOK, Snapshots, Kinds, Answers, OneContainer,
       InItsPlace, Migrated, Counted

(* enable() gets its turn.                                                  *)
LEMMA EnableRunsKeeps == ASSUME LockInv, EnableRuns PROVE LockInv'
BY DEF EnableRuns, TypeOK, Snapshots, Kinds, Answers, OneContainer, InItsPlace, Migrated,
       Counted

(* The container is created.                                                *)
LEMMA EnableCreatedKeeps == ASSUME LockInv, EnableCreated PROVE LockInv'
<1>1. At("create") /\ enabling' = FALSE /\ UNCHANGED <<key, store, alarm, history>>
  BY DEF EnableCreated
<1>2. CASE /\ snap' = [NoContainer EXCEPT !.container = "wrapped", !.pending = TRUE]
           /\ machine' = "COLD" /\ op' = [pc |-> "kdf", what |-> "right"]
  <2>1. /\ snap' \in Snapshots /\ snap'.container = "wrapped" /\ snap'.pending = TRUE
        /\ snap'.failures = 0 /\ snap'.bio = "off" /\ snap'.bioFailures = 0
        /\ snap'.reset = FALSE
    BY <1>2, CreatedEffect
  <2>2. machine' = "COLD" /\ op' = [pc |-> "kdf", what |-> "right"]
    BY <1>2
  <2> HIDE <1>2
  <2>a. TypeOK'
    BY <1>1, <2>1, <2>2 DEF TypeOK, Kinds, Answers, OneContainer, InItsPlace
  <2>b. OneContainer'
    BY <1>1, <2>1, <2>2 DEF TypeOK, OneContainer, InItsPlace
  <2>c. InItsPlace'
    BY <1>1, <2>1, <2>2 DEF TypeOK, OneContainer, InItsPlace, Migrated
  <2>d. Migrated'
    BY <1>1, <2>1, <2>2 DEF TypeOK, OneContainer, InItsPlace, Migrated
  <2>e. Counted'
    BY <1>1, <2>1, <2>2 DEF TypeOK, Snapshots, OneContainer, InItsPlace, Counted
  <2> QED BY <2>a, <2>b, <2>c, <2>d, <2>e
<1>3. CASE op' = Idle /\ UNCHANGED <<snap, machine>>
  <2>a. TypeOK'
    BY <1>1, <1>3 DEF TypeOK, Kinds, Answers, OneContainer, InItsPlace
  <2>b. OneContainer'
    BY <1>1, <1>3 DEF TypeOK, OneContainer, InItsPlace
  <2>c. InItsPlace'
    BY <1>1, <1>3 DEF TypeOK, OneContainer, InItsPlace, Migrated
  <2>d. Migrated'
    BY <1>1, <1>3 DEF TypeOK, OneContainer, InItsPlace, Migrated
  <2>e. Counted'
    BY <1>1, <1>3 DEF TypeOK, Snapshots, OneContainer, InItsPlace, Counted
  <2> QED BY <2>a, <2>b, <2>c, <2>d, <2>e
<1> QED BY <1>2, <1>3 DEF EnableCreated

(* unlock() begins to derive.                                               *)
LEMMA UnlockKeeps ==
    ASSUME LockInv, NEW code \in {"right", "wrong", "duress"}, Unlock(code)
    PROVE  LockInv'
BY DEF Unlock, TypeOK, Snapshots, Kinds, Answers, OneContainer, InItsPlace, Migrated,
       Counted

(* unlockBiometric() prompts.                                               *)
LEMMA UnlockBiometricKeeps ==
    ASSUME LockInv, NEW answer \in {"right", "missed", "lockout", "replaced"},
           UnlockBiometric(answer)
    PROVE  LockInv'
BY DEF UnlockBiometric, TypeOK, Snapshots, Kinds, Answers, OneContainer, InItsPlace,
       Migrated, Counted

(* The machine opens.                                                       *)
LEMMA AcceptedKeeps == ASSUME LockInv, Accepted PROVE LockInv'
BY DEF Accepted, TypeOK, Snapshots, Kinds, Answers, OneContainer, InItsPlace, Migrated,
       Counted

(* A wrong code, and the last one.                                          *)
LEMMA WrongCodeKeeps == ASSUME LockInv, WrongCode PROVE LockInv'
<1>1. At("kdf") /\ UNCHANGED <<machine, enabling, key, store, alarm, history>>
  BY DEF WrongCode
<1>2. snap \in Snapshots /\ left \in 0 .. MaxEvents /\ snap.container = "wrapped"
      /\ snap.failures + left < WipeAfter + MaxEvents
  BY <1>1 DEF TypeOK, Snapshots, InItsPlace, Counted
<1>3. /\ snap' \in Snapshots /\ snap'.container = snap.container
      /\ snap'.pending = snap.pending /\ snap'.failures = snap.failures + 1
      /\ snap'.reset = snap.reset
      /\ \/ /\ LastFailure /\ snap'.bio = "off" /\ snap'.bioFailures = 0
            /\ op' = [pc |-> "bioCleared", what |-> "wipe"]
         \/ /\ ~LastFailure /\ snap'.bio = snap.bio
            /\ snap'.bioFailures = snap.bioFailures /\ op' = Idle
  BY <1>2, WrongCodeEffect
<1>a. TypeOK'
  BY <1>1, <1>2, <1>3 DEF TypeOK, Kinds, Answers, OneContainer, InItsPlace
<1>b. OneContainer'
  BY <1>1, <1>2, <1>3 DEF TypeOK, OneContainer, InItsPlace
<1>c. InItsPlace'
  BY <1>1, <1>2, <1>3 DEF TypeOK, OneContainer, InItsPlace, Migrated
<1>d. Migrated'
  BY <1>1, <1>2, <1>3 DEF TypeOK, OneContainer, InItsPlace, Migrated
<1>e. Counted'
  BY <1>1, <1>2, <1>3 DEF TypeOK, Snapshots, OneContainer, InItsPlace, Counted, LastFailure
<1> QED BY <1>a, <1>b, <1>c, <1>d, <1>e

(* A finger is refused.                                                     *)
LEMMA BiometricRefusedKeeps == ASSUME LockInv, BiometricRefused PROVE LockInv'
BY DEF BiometricRefused, TypeOK, Snapshots, Kinds, Answers, OneContainer, InItsPlace,
       Migrated, Counted

(* The key of the database is derived: open, or migrate first.              *)
LEMMA DerivedKeeps == ASSUME LockInv, Derived PROVE LockInv'
<1>1. At("derive") /\ UNCHANGED <<machine, enabling, store, alarm, history>>
  BY DEF Derived
<1>2. snap.container = "wrapped" /\ snap \in Snapshots
  BY <1>1 DEF TypeOK, InItsPlace
<1>3. CASE machine # "UNLOCKED" /\ Ends /\ UNCHANGED <<snap, key>>
  BY <1>1, <1>3
    DEF TypeOK, Snapshots, Kinds, Answers, OneContainer, InItsPlace, Migrated, Counted
<1>4. CASE machine = "UNLOCKED" /\ NeedsMigration /\ Goes("collect", "live")
           /\ imported' = FALSE /\ UNCHANGED <<snap, dbKey>>
  <2>a. TypeOK'
    BY <1>1, <1>2, <1>4 DEF TypeOK, Kinds, Answers, OneContainer, InItsPlace, NeedsMigration
  <2>b. OneContainer'
    BY <1>1, <1>2, <1>4 DEF TypeOK, OneContainer, InItsPlace, NeedsMigration
  <2>c. InItsPlace'
    BY <1>1, <1>2, <1>4 DEF TypeOK, OneContainer, InItsPlace, Migrated, NeedsMigration
  <2>d. Migrated'
    BY <1>1, <1>2, <1>4 DEF TypeOK, OneContainer, InItsPlace, Migrated, NeedsMigration
  <2>e. Counted'
    BY <1>1, <1>2, <1>4
      DEF TypeOK, Snapshots, OneContainer, InItsPlace, Counted, NeedsMigration
  <2> QED BY <2>a, <2>b, <2>c, <2>d, <2>e
<1>5. CASE machine = "UNLOCKED" /\ ~NeedsMigration /\ imported' = FALSE
           /\ IF op.what = "code" THEN Opened("live")
              ELSE /\ snap' = [snap EXCEPT !.failures = 0, !.bioFailures = 0]
                   /\ dbKey' = "live" /\ Ends
  <2>1. ~snap.pending
    BY <1>5, <1>2 DEF NeedsMigration, Snapshots
  <2>2. /\ snap' = [snap EXCEPT !.failures = 0, !.bioFailures = 0, !.pending = FALSE]
        /\ dbKey' = "live" /\ imported' = FALSE
        /\ op' \in {Idle, [pc |-> "bioSet", what |-> "none"]}
    <3>1. CASE op.what = "code"
      BY <1>5, <3>1 DEF Opened
    <3>2. CASE op.what # "code"
      BY <1>2, <1>5, <2>1, <3>2 DEF Snapshots
    <3> QED BY <3>1, <3>2
  <2>3. /\ snap' \in Snapshots /\ snap'.container = snap.container
        /\ snap'.pending = FALSE /\ snap'.failures = 0
        /\ snap'.bio = snap.bio /\ snap'.bioFailures = 0 /\ snap'.reset = snap.reset
    BY <1>2, <2>2, OpenedEffect
  <2> HIDE <1>5
  <2>4. machine = "UNLOCKED" /\ op' \in [pc : Kinds, what : Answers]
    BY <1>5, <2>2 DEF Kinds, Answers
  <2>a. TypeOK'
    BY <1>1, <1>2, <2>1, <2>2, <2>3, <2>4
      DEF TypeOK, Kinds, Answers, OneContainer, InItsPlace
  <2>b. OneContainer'
    BY <1>1, <1>2, <2>1, <2>2, <2>3, <2>4 DEF TypeOK, OneContainer, InItsPlace
  <2>c. InItsPlace'
    BY <1>1, <1>2, <2>1, <2>2, <2>3, <2>4 DEF TypeOK, OneContainer, InItsPlace, Migrated
  <2>d. Migrated'
    BY <1>1, <1>2, <2>1, <2>2, <2>3, <2>4 DEF TypeOK, OneContainer, InItsPlace, Migrated
  <2>e. Counted'
    BY <1>1, <1>2, <2>1, <2>2, <2>3, <2>4
      DEF TypeOK, Snapshots, OneContainer, InItsPlace, Counted
  <2> QED BY <2>a, <2>b, <2>c, <2>d, <2>e
<1> QED BY <1>3, <1>4, <1>5 DEF Derived

(* The rows of the migration are read.                                      *)
LEMMA CollectedKeeps == ASSUME LockInv, Collected PROVE LockInv'
BY DEF Collected, TypeOK, Snapshots, Kinds, Answers, OneContainer, InItsPlace, Migrated,
       Counted

(* The rows of the migration are sealed and replaced.                       *)
LEMMA BatchedKeeps == ASSUME LockInv, Batched PROVE LockInv'
BY DEF Batched, Resealed, TypeOK, Snapshots, Kinds, Answers, OneContainer, InItsPlace,
       Migrated, Counted

(* The migration is finished.                                               *)
LEMMA CommittedKeeps == ASSUME LockInv, Committed PROVE LockInv'
<1>1. At("commit") /\ UNCHANGED <<machine, enabling, imported, store, alarm, history>>
      /\ dbKey' = op.what
      /\ op' \in {Idle, [pc |-> "bioSet", what |-> "none"]}
  BY DEF Committed, Opened
<1>2. snap.container = "wrapped" /\ snap \in Snapshots
  BY <1>1 DEF TypeOK, InItsPlace
<1>3. /\ snap' \in Snapshots /\ snap'.container = snap.container
      /\ snap'.pending = FALSE /\ snap'.failures = 0
      /\ snap'.bio = snap.bio /\ snap'.bioFailures = 0 /\ snap'.reset = snap.reset
  BY <1>2, OpenedEffect DEF Committed, Opened
<1>a. TypeOK'
  BY <1>1, <1>2, <1>3 DEF TypeOK, Kinds, Answers, OneContainer, InItsPlace
<1>b. OneContainer'
  BY <1>1, <1>2, <1>3 DEF TypeOK, OneContainer, InItsPlace
<1>c. InItsPlace'
  BY <1>1, <1>2, <1>3 DEF TypeOK, OneContainer, InItsPlace, Migrated
<1>d. Migrated'
  BY <1>1, <1>2, <1>3 DEF TypeOK, OneContainer, InItsPlace, Migrated
<1>e. Counted'
  BY <1>1, <1>2, <1>3 DEF TypeOK, Snapshots, OneContainer, InItsPlace, Counted
<1> QED BY <1>a, <1>b, <1>c, <1>d, <1>e

(* The migration fails, and the machine locks.                              *)
LEMMA MigrationFailsKeeps == ASSUME LockInv, MigrationFails PROVE LockInv'
<1>1. Migrates /\ op' = Idle /\ machine' = "LOCKED" /\ dbKey' = "none" /\ imported' = FALSE
      /\ UNCHANGED <<enabling, snap, store, alarm, history>>
  BY DEF MigrationFails
<1>2. snap.container = "wrapped"
  BY <1>1 DEF InItsPlace
<1>a. TypeOK'
  BY <1>1, <1>2 DEF TypeOK, Kinds, Answers, OneContainer, InItsPlace
<1>b. OneContainer'
  BY <1>1, <1>2 DEF TypeOK, OneContainer, InItsPlace
<1>c. InItsPlace'
  BY <1>1, <1>2 DEF TypeOK, OneContainer, InItsPlace, Migrated
<1>d. Migrated'
  BY <1>1, <1>2 DEF TypeOK, OneContainer, InItsPlace, Migrated
<1>e. Counted'
  BY <1>1, <1>2 DEF TypeOK, Snapshots, OneContainer, InItsPlace, Counted
<1> QED BY <1>a, <1>b, <1>c, <1>d, <1>e

(* The second door is asked for, or closed.                                 *)
LEMMA SetBiometricKeeps == ASSUME LockInv, SetBiometric PROVE LockInv'
<1>1. machine = "UNLOCKED" /\ op = Idle
      /\ UNCHANGED <<machine, enabling, key, store, alarm, history>>
      /\ \/ snap' = snap /\ op' = [pc |-> "bioSet", what |-> "none"]
         \/ ClearBiometric /\ op' = Idle
  BY DEF SetBiometric, ClearBiometric
<1>2. snap \in Snapshots /\ snap.container = "wrapped"
  BY <1>1 DEF TypeOK, OneContainer
<1>3. CASE snap' = snap /\ op' = [pc |-> "bioSet", what |-> "none"]
  BY <1>1, <1>2, <1>3
    DEF TypeOK, Snapshots, Kinds, Answers, OneContainer, InItsPlace, Migrated, Counted
<1>4. CASE ClearBiometric /\ op' = Idle
  BY <1>1, <1>2, <1>4, ClearedEffect
    DEF TypeOK, Snapshots, Kinds, Answers, OneContainer, InItsPlace, Migrated, Counted
<1> QED BY <1>1, <1>3, <1>4

(* The second door is there, or was refused.                                *)
LEMMA BiometricSetKeeps == ASSUME LockInv, BiometricSet PROVE LockInv'
<1>1. At("bioSet") /\ op' = Idle
      /\ UNCHANGED <<machine, enabling, key, store, alarm, history>>
  BY DEF BiometricSet
<1>2. snap \in Snapshots /\ snap.container = "wrapped"
  BY <1>1 DEF TypeOK, InItsPlace
<1>3. CASE snap' = snap
  BY <1>1, <1>2, <1>3
    DEF TypeOK, Snapshots, Kinds, Answers, OneContainer, InItsPlace, Migrated, Counted
<1>4. CASE machine = "UNLOCKED" /\ snap' = [snap EXCEPT !.bio = "wrap", !.bioFailures = 0]
  <2>1. /\ snap' \in Snapshots /\ snap'.container = snap.container
        /\ snap'.pending = snap.pending /\ snap'.failures = snap.failures
        /\ snap'.bio = "wrap" /\ snap'.bioFailures = 0 /\ snap'.reset = snap.reset
    <3>1. "wrap" \in {"off", "wrap", "stale"} /\ 0 \in 0 .. BioLimit
      OBVIOUS
    <3> QED BY <1>2, <1>4, <3>1, BiometricSwitched
  <2>2. ~snap.pending
    BY <1>1, <1>2, <1>4 DEF Migrated, Snapshots
  <2> QED BY <1>1, <1>2, <2>1, <2>2
    DEF TypeOK, Snapshots, Kinds, Answers, OneContainer, InItsPlace, Migrated, Counted
<1> QED BY <1>3, <1>4 DEF BiometricSet

(* changeCode() and its kin begin.                                          *)
LEMMA RewrapKeeps ==
    ASSUME LockInv, NEW what \in {"code", "duress", "noDuress"}, Rewrap(what)
    PROVE  LockInv'
BY DEF Rewrap, TypeOK, Snapshots, Kinds, Answers, OneContainer, InItsPlace, Migrated,
       Counted

(* The master key is wrapped anew.                                          *)
LEMMA RewrappedKeeps == ASSUME LockInv, Rewrapped PROVE LockInv'
<1>1. At("rewrap") /\ op' \in {Idle, [pc |-> "bioSet", what |-> "none"]}
      /\ UNCHANGED <<machine, enabling, key, store, alarm, history>>
  BY DEF Rewrapped
<1>2. snap \in Snapshots /\ snap.container = "wrapped"
  BY <1>1 DEF TypeOK, InItsPlace
<1>3. CASE snap' = snap
  BY <1>1, <1>2, <1>3
    DEF TypeOK, Snapshots, Kinds, Answers, OneContainer, InItsPlace, Migrated, Counted
<1>4. CASE snap' # snap
  BY <1>1, <1>2, <1>4, RewrappedEffect
    DEF TypeOK, Snapshots, Kinds, Answers, OneContainer, InItsPlace, Migrated, Counted
<1> QED BY <1>3, <1>4

(* A lock signal, whatever is under way.                                    *)
LEMMA LockKeeps == ASSUME LockInv, Lock PROVE LockInv'
BY DEF Lock, Zeroize, Overtakes, TypeOK, Snapshots, Kinds, Answers, OneContainer,
       InItsPlace, Migrated, Counted

(* disableAndWipe() begins.                                                 *)
LEMMA DisableAndWipeKeeps ==
    ASSUME LockInv, NEW code \in {"right", "wrong"}, DisableAndWipe(code)
    PROVE  LockInv'
BY DEF DisableAndWipe, TypeOK, Snapshots, Kinds, Answers, OneContainer, InItsPlace,
       Migrated, Counted

(* disableAndWipe() has verified the code.                                  *)
LEMMA VerifiedKeeps == ASSUME LockInv, Verified PROVE LockInv'
<1>1. At("verify") /\ UNCHANGED <<machine, enabling, key, store, alarm, history>>
      /\ \/ ClearBiometric /\ op' = [pc |-> "bioCleared", what |-> "disable"]
         \/ snap' = snap /\ op' = Idle
  BY DEF Verified
<1>2. snap \in Snapshots /\ snap.container = "wrapped"
  BY <1>1 DEF TypeOK, InItsPlace
<1>3. CASE ClearBiometric /\ op' = [pc |-> "bioCleared", what |-> "disable"]
  BY <1>1, <1>2, <1>3, ClearedEffect
    DEF TypeOK, Snapshots, Kinds, Answers, OneContainer, InItsPlace, Migrated, Counted
<1>4. CASE snap' = snap /\ op' = Idle
  BY <1>1, <1>2, <1>4
    DEF TypeOK, Snapshots, Kinds, Answers, OneContainer, InItsPlace, Migrated, Counted
<1> QED BY <1>1, <1>3, <1>4

(* The answer to an integrity incident.                                     *)
LEMMA IntegrityWipeKeeps == ASSUME LockInv, IntegrityWipe PROVE LockInv'
<1>1. op = Idle /\ alarm' = "done" /\ UNCHANGED <<machine, enabling, key, store, history>>
      /\ \/ Wipeable /\ ClearBiometric /\ op' = [pc |-> "bioCleared", what |-> "wipe"]
         \/ UNCHANGED <<snap, op>>
  BY DEF IntegrityWipe
<1>2. snap \in Snapshots
  BY DEF TypeOK
<1>3. CASE Wipeable /\ ClearBiometric /\ op' = [pc |-> "bioCleared", what |-> "wipe"]
  <2>1. snap.container = "wrapped"
    BY <1>3 DEF TypeOK, OneContainer
  <2> QED BY <1>1, <1>2, <1>3, <2>1, ClearedEffect
    DEF TypeOK, Snapshots, Kinds, Answers, OneContainer, InItsPlace, Migrated, Counted
<1>4. CASE UNCHANGED <<snap, op>>
  BY <1>1, <1>4
    DEF TypeOK, Snapshots, Kinds, Answers, OneContainer, InItsPlace, Migrated, Counted
<1> QED BY <1>1, <1>3, <1>4

(* The master key ends.                                                     *)
LEMMA WipedKeeps == ASSUME LockInv, Wiped PROVE LockInv'
<1>1. At("bioCleared") /\ op' = [pc |-> "erase", what |-> op.what] /\ machine' = "WIPED"
      /\ DestroyKey /\ UNCHANGED <<enabling, alarm, tampered, unclean, left>>
  BY DEF Wiped
<1>2. snap \in Snapshots /\ snap.container = "wrapped" /\ snap.bio = "off"
  BY <1>1 DEF TypeOK, InItsPlace
<1>3. /\ snap' \in Snapshots /\ snap'.container = "tombstone"
      /\ snap'.pending = FALSE /\ snap'.failures = snap.failures
      /\ snap'.reset = snap.reset /\ snap'.bioFailures = snap.bioFailures
      /\ snap'.bio = snap.bio
  BY <1>2, WipedEffect
<1>4. /\ rows' \subseteq {"plain", "sealed", "lost"}
      /\ "plain" \in rows' <=> "plain" \in rows
      /\ read' \in {"idle", "plain", "live", "cached", "zero", "old"}
      /\ write' \in {"idle", "sealed", "zero"}
      /\ dbKey' = "none" /\ imported' = FALSE /\ overtaken' \in BOOLEAN
  BY <1>1, DestroyedEffect
<1>a. TypeOK'
  BY <1>1, <1>2, <1>3, <1>4 DEF TypeOK, Kinds, Answers, OneContainer, InItsPlace
<1>b. OneContainer'
  BY <1>1, <1>2, <1>3, <1>4 DEF TypeOK, OneContainer, InItsPlace
<1>c. InItsPlace'
  BY <1>1, <1>2, <1>3, <1>4 DEF TypeOK, OneContainer, InItsPlace, Migrated
<1>d. Migrated'
  BY <1>1, <1>2, <1>3, <1>4 DEF TypeOK, OneContainer, InItsPlace, Migrated
<1>e. Counted'
  BY <1>1, <1>2, <1>3, <1>4 DEF TypeOK, Snapshots, OneContainer, InItsPlace, Counted
<1> QED BY <1>a, <1>b, <1>c, <1>d, <1>e

(* A duress code, or panic().                                               *)
LEMMA FreshInstallWipeKeeps ==
    ASSUME LockInv, FreshInstallWipe, snap.container = "wrapped" PROVE LockInv'
<1>1. op' = [pc |-> "erase", what |-> "fresh"] /\ machine' = "WIPED" /\ DestroyKey
      /\ UNCHANGED <<enabling, alarm, tampered, unclean, left>>
  BY DEF FreshInstallWipe
<1>2. /\ snap' \in Snapshots /\ snap'.container = "none"
      /\ snap'.pending = FALSE /\ snap'.failures = 0
      /\ snap'.bio = "off" /\ snap'.bioFailures = 0 /\ snap'.reset = TRUE
  BY FreshEffect
<1>3. /\ rows' \subseteq {"plain", "sealed", "lost"}
      /\ "plain" \in rows' <=> "plain" \in rows
      /\ read' \in {"idle", "plain", "live", "cached", "zero", "old"}
      /\ write' \in {"idle", "sealed", "zero"}
      /\ dbKey' = "none" /\ imported' = FALSE /\ overtaken' \in BOOLEAN
  BY <1>1, DestroyedEffect
<1>a. TypeOK'
  BY <1>1, <1>2, <1>3 DEF TypeOK, Kinds, Answers, OneContainer, InItsPlace
<1>b. OneContainer'
  BY <1>1, <1>2, <1>3 DEF TypeOK, OneContainer, InItsPlace
<1>c. InItsPlace'
  BY <1>1, <1>2, <1>3 DEF TypeOK, OneContainer, InItsPlace, Migrated
<1>d. Migrated'
  BY <1>1, <1>2, <1>3 DEF TypeOK, OneContainer, InItsPlace, Migrated
<1>e. Counted'
  BY <1>1, <1>2, <1>3 DEF TypeOK, Snapshots, OneContainer, InItsPlace, Counted
<1> QED BY <1>a, <1>b, <1>c, <1>d, <1>e

(* resetAfterWipe() begins.                                                 *)
LEMMA ResetAfterWipeKeeps == ASSUME LockInv, ResetAfterWipe PROVE LockInv'
BY DEF ResetAfterWipe, TypeOK, Snapshots, Kinds, Answers, OneContainer, InItsPlace,
       Migrated, Counted

(* completeLocalReset() begins.                                             *)
LEMMA CompleteResetKeeps == ASSUME LockInv, CompleteReset PROVE LockInv'
BY DEF CompleteReset, TypeOK, Snapshots, Kinds, Answers, OneContainer, InItsPlace,
       Migrated, Counted

(* The local data is erased, as far as it can be.                           *)
LEMMA ErasedKeeps == ASSUME LockInv, Erased PROVE LockInv'
<1> HIDE DEF Event
<1>1. /\ At("erase") /\ Ends
      /\ \/ rows' = {} /\ UNCHANGED <<unclean, left>>
         \/ Event /\ unclean' = TRUE /\ UNCHANGED rows
      /\ UNCHANGED <<enabling, key, read, write, alarm, tampered, overtaken>>
  BY DEF Erased
<1>2. left' = left \/ (left > 0 /\ left' = left - 1)
  BY <1>1 DEF Event
<1>3. /\ At("erase") /\ op' = Idle /\ left \in 0 .. MaxEvents /\ left' \in 0 .. MaxEvents
      /\ left' <= left /\ rows' \subseteq rows /\ unclean' \in BOOLEAN
      /\ UNCHANGED <<enabling, key, read, write, alarm, tampered, overtaken>>
  <2>1. left \in 0 .. MaxEvents
    BY DEF TypeOK
  <2>2. unclean' \in BOOLEAN /\ rows' \subseteq rows
    BY <1>1 DEF TypeOK
  <2> QED BY <1>1, <1>2, <2>1, <2>2
<1>4. \/ op.what = "wipe" /\ UNCHANGED <<snap, machine>>
      \/ op.what = "complete" /\ snap' = MarkerRemoved /\ UNCHANGED machine
      \/ op.what = "fresh" /\ machine' = "NONE" /\ UNCHANGED snap
      \/ op.what \notin {"wipe", "complete"} /\ machine' = "NONE" /\ snap' = NoContainer
  BY DEF Erased
<1>5. CASE op.what = "wipe" /\ UNCHANGED <<snap, machine>>
  <2>a. TypeOK'
    BY <1>3, <1>5 DEF TypeOK, Kinds, Answers, OneContainer, InItsPlace
  <2>b. OneContainer'
    BY <1>3, <1>5 DEF TypeOK, OneContainer, InItsPlace
  <2>c. InItsPlace'
    BY <1>3, <1>5 DEF TypeOK, OneContainer, InItsPlace, Migrated
  <2>d. Migrated'
    BY <1>3, <1>5 DEF TypeOK, OneContainer, InItsPlace, Migrated
  <2>e. Counted'
    BY <1>3, <1>5 DEF TypeOK, Snapshots, OneContainer, InItsPlace, Counted
  <2> QED BY <2>a, <2>b, <2>c, <2>d, <2>e
<1>6. CASE op.what = "complete" /\ snap' = MarkerRemoved /\ UNCHANGED machine
  <2>1. /\ snap' \in Snapshots /\ snap'.container = snap.container
        /\ snap'.pending = snap.pending /\ snap'.failures = snap.failures
        /\ snap'.bio = snap.bio /\ snap'.bioFailures = snap.bioFailures
        /\ snap'.reset = FALSE /\ machine' = machine /\ op.what = "complete"
    BY <1>6 DEF MarkerRemoved, TypeOK, Snapshots
  <2>a. TypeOK'
    BY <1>3, <2>1 DEF TypeOK, Kinds, Answers, OneContainer, InItsPlace
  <2>b. OneContainer'
    BY <1>3, <2>1 DEF TypeOK, OneContainer, InItsPlace
  <2>c. InItsPlace'
    BY <1>3, <2>1 DEF TypeOK, OneContainer, InItsPlace, Migrated
  <2>d. Migrated'
    BY <1>3, <2>1 DEF TypeOK, OneContainer, InItsPlace, Migrated
  <2>e. Counted'
    BY <1>3, <2>1 DEF TypeOK, Snapshots, OneContainer, InItsPlace, Counted
  <2> QED BY <2>a, <2>b, <2>c, <2>d, <2>e
<1>7. CASE op.what = "fresh" /\ machine' = "NONE" /\ UNCHANGED snap
  <2>a. TypeOK'
    BY <1>3, <1>7 DEF TypeOK, Kinds, Answers, OneContainer, InItsPlace
  <2>b. OneContainer'
    BY <1>3, <1>7 DEF TypeOK, OneContainer, InItsPlace
  <2>c. InItsPlace'
    BY <1>3, <1>7 DEF TypeOK, OneContainer, InItsPlace, Migrated
  <2>d. Migrated'
    BY <1>3, <1>7 DEF TypeOK, OneContainer, InItsPlace, Migrated
  <2>e. Counted'
    BY <1>3, <1>7 DEF TypeOK, Snapshots, OneContainer, InItsPlace, Counted
  <2> QED BY <2>a, <2>b, <2>c, <2>d, <2>e
<1>8. CASE op.what \notin {"wipe", "complete"} /\ machine' = "NONE" /\ snap' = NoContainer
  <2>a. TypeOK'
    BY <1>3, <1>8, NoContainerIs DEF TypeOK, Kinds, Answers, OneContainer, InItsPlace
  <2>b. OneContainer'
    BY <1>3, <1>8, NoContainerIs DEF TypeOK, OneContainer, InItsPlace
  <2>c. InItsPlace'
    BY <1>3, <1>8, NoContainerIs DEF TypeOK, OneContainer, InItsPlace, Migrated
  <2>d. Migrated'
    BY <1>3, <1>8, NoContainerIs DEF TypeOK, OneContainer, InItsPlace, Migrated
  <2>e. Counted'
    <3>1. snap'.failures = 0 /\ op' = Idle /\ left' \in 0 .. MaxEvents
      BY <1>3, <1>8, NoContainerIs
    <3>2. \A n \in 0 .. MaxEvents :
            0 + n <= WipeAfter + MaxEvents /\ 0 + n # WipeAfter + MaxEvents
      OBVIOUS
    <3>3. /\ snap'.failures + left' <= WipeAfter + MaxEvents
          /\ snap'.failures + left' # WipeAfter + MaxEvents
      BY <3>1, <3>2, Zenon
    <3>4. op'.pc # "prompt"
      BY <3>1
    <3> QED BY <3>3, <3>4 DEF Counted
  <2> QED BY <2>a, <2>b, <2>c, <2>d, <2>e
<1> QED BY <1>4, <1>5, <1>6, <1>7, <1>8

(* The page ends and starts again.                                          *)
LEMMA BootKeeps == ASSUME LockInv, Boot PROVE LockInv'
<1>1. op' = IF snap.reset THEN [pc |-> "erase", what |-> "complete"] ELSE Idle
  BY DEF Boot
<1>2. /\ machine' = IF snap.container = "wrapped" THEN "COLD" ELSE "NONE"
      /\ left > 0 /\ left' = left - 1
      /\ enabling' = FALSE /\ dbKey' = "none" /\ imported' = FALSE
      /\ read' = "idle" /\ write' = "idle" /\ alarm' = "none"
      /\ UNCHANGED <<snap, rows, tampered, unclean, overtaken>>
  BY DEF Boot
<1>3. left \in 0 .. MaxEvents /\ left' \in 0 .. MaxEvents
  <2>1. left \in 0 .. MaxEvents
    BY DEF TypeOK
  <2> QED BY <1>2, <2>1
<1>4. op' \in [pc : Kinds, what : Answers]
  BY <1>1 DEF Kinds, Answers
<1>a. TypeOK'
  BY <1>1, <1>2, <1>3, <1>4 DEF TypeOK, Kinds, Answers, OneContainer, InItsPlace
<1>b. OneContainer'
  BY <1>1, <1>2, <1>3, <1>4 DEF TypeOK, OneContainer, InItsPlace
<1>c. InItsPlace'
  BY <1>1, <1>2, <1>3, <1>4 DEF TypeOK, OneContainer, InItsPlace, Migrated
<1>d. Migrated'
  BY <1>1, <1>2, <1>3, <1>4 DEF TypeOK, OneContainer, InItsPlace, Migrated
<1>e. Counted'
  BY <1>1, <1>2, <1>3, <1>4 DEF TypeOK, Snapshots, OneContainer, InItsPlace, Counted
<1> QED BY <1>a, <1>b, <1>c, <1>d, <1>e

(* A read takes its key.                                                    *)
LEMMA ReadStartKeeps == ASSUME LockInv, ReadStart PROVE LockInv'
BY DEF ReadStart, HasKey, Captured, TypeOK, Snapshots, Kinds, Answers, OneContainer,
       InItsPlace, Migrated, Counted

(* A read ends.                                                             *)
LEMMA ReadDoneKeeps ==
    ASSUME LockInv, NEW row \in rows \cup {"absent"}, ReadDone(row)
    PROVE  LockInv'
BY DEF ReadDone, Refused, Opens, TypeOK, Snapshots, Kinds, Answers, OneContainer,
       InItsPlace, Migrated, Counted

(* A write without a lock.                                                  *)
LEMMA PlainWriteKeeps == ASSUME LockInv, PlainWrite PROVE LockInv'
BY DEF PlainWrite, TypeOK, Snapshots, Kinds, Answers, OneContainer, InItsPlace, Migrated,
       Counted

(* A write takes its key.                                                   *)
LEMMA WriteStartKeeps == ASSUME LockInv, WriteStart PROVE LockInv'
BY DEF WriteStart, HasKey, TypeOK, Snapshots, Kinds, Answers, OneContainer, InItsPlace,
       Migrated, Counted

(* A sealed write ends.                                                     *)
LEMMA WriteDoneKeeps == ASSUME LockInv, WriteDone PROVE LockInv'
BY DEF WriteDone, TypeOK, Snapshots, Kinds, Answers, OneContainer, InItsPlace, Migrated,
       Counted

(* A row is altered from outside.                                           *)
LEMMA TamperKeeps == ASSUME LockInv, Tamper PROVE LockInv'
BY DEF Tamper, TypeOK, Snapshots, Kinds, Answers, OneContainer, InItsPlace, Migrated,
       Counted


-----------------------------------------------------------------------------
(* Every action does what Vault promises, or nothing Vault sees.           *)

Stutters == UNCHANGED Promise!vaultVars

(* The second door goes, or stays, while nothing is proved.                  *)
LEMMA Undoored ==
    ASSUME LockInv, snap.container = "wrapped", snap' \in Snapshots,
           snap'.container = snap.container, snap'.pending = snap.pending,
           snap'.bio \in {snap.bio, "off", "stale"}, Proved = FALSE, Proved' = FALSE,
           UNCHANGED <<machine, enabling, rows>>
    PROVE  Promise!DropDoor \/ Stutters
<1>1. UNCHANGED Phase
  BY DEF TypeOK, Snapshots, OneContainer, Phase
<1>2. "code" \in Doors /\ Doors' \in {{"code"}, Doors}
  BY DEF TypeOK, Snapshots, OneContainer, Doors
<1> QED BY <1>1, <1>2 DEF Promise!DropDoor, Stutters, Promise!vaultVars

LEMMA EnableStartPromised == ASSUME LockInv, EnableStart PROVE Promise!Protect
BY DEF EnableStart, Promise!Protect, Phase, Doors, Proved, TypeOK, Snapshots,
       OneContainer, InItsPlace, Migrated

LEMMA EnableRunsPromised == ASSUME LockInv, EnableRuns PROVE Stutters
BY DEF EnableRuns, Stutters, Promise!vaultVars, Phase, Doors, Proved, TypeOK,
       Snapshots, OneContainer, InItsPlace, Migrated

LEMMA EnableCreatedPromised ==
    ASSUME LockInv, EnableCreated
    PROVE  Promise!Install \/ Promise!GiveUp
<1>1. enabling /\ ~enabling' /\ UNCHANGED rows /\ machine = "NONE"
      /\ snap.container = "none" /\ snap.bio = "off" /\ ~Proved
  BY DEF EnableCreated, OneContainer, InItsPlace, Proved, store
<1>2. CASE /\ snap' = [NoContainer EXCEPT !.container = "wrapped", !.pending = TRUE]
           /\ machine' = "COLD" /\ op' = [pc |-> "kdf", what |-> "right"]
  <2>1. snap'.container = "wrapped" /\ snap'.bio = "off" /\ machine' = "COLD"
        /\ op' = [pc |-> "kdf", what |-> "right"]
    BY <1>2, CreatedEffect
  <2> HIDE <1>2
  <2> QED BY <1>1, <2>1 DEF Promise!Install, Phase, Doors, Proved
<1>3. CASE op' = Idle /\ UNCHANGED <<snap, machine>>
  BY <1>1, <1>3 DEF Promise!GiveUp, Phase, Doors, Proved
<1> QED BY <1>2, <1>3 DEF EnableCreated

LEMMA UnlockPromised ==
    ASSUME LockInv, NEW code \in {"right", "wrong", "duress"}, Unlock(code)
    PROVE  Promise!Prove \/ Stutters
BY DEF Unlock, Promise!Prove, Stutters, Promise!vaultVars, Phase, Doors, Proved,
       TypeOK, Snapshots, OneContainer, InItsPlace, Migrated

LEMMA UnlockBiometricPromised ==
    ASSUME LockInv, NEW answer \in {"right", "missed", "lockout", "replaced"},
           UnlockBiometric(answer)
    PROVE  Promise!Prove \/ Stutters
BY DEF UnlockBiometric, Promise!Prove, Stutters, Promise!vaultVars, Phase, Doors,
       Proved, TypeOK, Snapshots, OneContainer, InItsPlace, Migrated

LEMMA AcceptedPromised == ASSUME LockInv, Accepted PROVE Promise!Open \/ Stutters
BY DEF Accepted, Promise!Open, Stutters, Promise!vaultVars, Phase, Doors, Proved,
       TypeOK, Snapshots, OneContainer, InItsPlace, Migrated

LEMMA WrongCodePromised == ASSUME LockInv, WrongCode PROVE Promise!DropDoor \/ Stutters
<1>1. At("kdf") /\ op.what = "wrong" /\ UNCHANGED <<machine, enabling, rows>>
  BY DEF WrongCode
<1>2. snap \in Snapshots /\ left \in 0 .. MaxEvents /\ snap.container = "wrapped"
      /\ snap.failures + left < WipeAfter + MaxEvents
  BY <1>1 DEF TypeOK, Snapshots, InItsPlace, Counted
<1>3. /\ snap' \in Snapshots /\ snap'.container = snap.container
      /\ snap'.pending = snap.pending /\ snap'.bio \in {snap.bio, "off", "stale"}
      /\ op' \in {Idle, [pc |-> "bioCleared", what |-> "wipe"]}
  BY <1>2, WrongCodeEffect
<1>4. Proved = FALSE /\ Proved' = FALSE
  BY <1>1, <1>3 DEF Proved
<1> QED BY <1>1, <1>2, <1>3, <1>4, Undoored

LEMMA BiometricRefusedPromised ==
    ASSUME LockInv, BiometricRefused
    PROVE  Promise!DropDoor \/ Stutters
BY DEF BiometricRefused, Promise!DropDoor, Stutters, Promise!vaultVars, Phase, Doors,
       Proved, TypeOK, Snapshots, OneContainer, InItsPlace, Migrated

LEMMA DerivedPromised == ASSUME LockInv, Derived PROVE Promise!Conclude \/ Stutters
<1>1. At("derive") /\ UNCHANGED <<machine, enabling, rows>> /\ snap \in Snapshots
  BY DEF Derived, TypeOK
<1>2. CASE machine # "UNLOCKED" /\ Ends /\ UNCHANGED <<snap, key>>
  BY <1>1, <1>2 DEF Stutters, Promise!vaultVars, Phase, Doors, Proved
<1>3. CASE machine = "UNLOCKED" /\ NeedsMigration /\ Goes("collect", "live")
           /\ imported' = FALSE /\ UNCHANGED <<snap, dbKey>>
  BY <1>1, <1>3 DEF Stutters, Promise!vaultVars, Phase, Doors, Proved
<1>4. CASE machine = "UNLOCKED" /\ ~NeedsMigration /\ imported' = FALSE
           /\ IF op.what = "code" THEN Opened("live")
              ELSE /\ snap' = [snap EXCEPT !.failures = 0, !.bioFailures = 0]
                   /\ dbKey' = "live" /\ Ends
  <2>1. ~snap.pending
    BY <1>4, <1>1 DEF NeedsMigration, Snapshots
  <2>2. /\ snap' = [snap EXCEPT !.failures = 0, !.bioFailures = 0, !.pending = FALSE]
        /\ op' \in {Idle, [pc |-> "bioSet", what |-> "none"]}
    <3>1. CASE op.what = "code"
      BY <1>4, <3>1 DEF Opened
    <3>2. CASE op.what # "code"
      BY <1>1, <1>4, <2>1, <3>2 DEF Snapshots
    <3> QED BY <3>1, <3>2
  <2>3. snap'.container = snap.container /\ snap'.pending = snap.pending
        /\ snap'.bio = snap.bio
    BY <1>1, <2>1, <2>2, OpenedEffect DEF Snapshots
  <2>4. Proved' = FALSE
    BY <2>2 DEF Proved
  <2> HIDE <1>4
  <2> QED BY <1>1, <2>3, <2>4 DEF Promise!Conclude, Phase, Doors
<1> QED BY <1>2, <1>3, <1>4 DEF Derived

LEMMA CollectedPromised == ASSUME LockInv, Collected PROVE Stutters
BY DEF Collected, Stutters, Promise!vaultVars, Phase, Doors, Proved, TypeOK, Snapshots,
       OneContainer, InItsPlace, Migrated

LEMMA BatchedPromised == ASSUME LockInv, Batched PROVE Promise!Seal \/ Stutters
BY DEF Batched, Resealed, Promise!Seal, Stutters, Promise!vaultVars, Phase, Doors,
       Proved, TypeOK, Snapshots, OneContainer, InItsPlace, Migrated

LEMMA CommittedPromised ==
    ASSUME LockInv, Committed
    PROVE  Promise!Open \/ Promise!Conclude
BY DEF Committed, Opened, Promise!Open, Promise!Conclude, Phase, Doors, Proved, TypeOK,
       Snapshots, OneContainer, InItsPlace, Migrated

LEMMA MigrationFailsPromised ==
    ASSUME LockInv, MigrationFails
    PROVE  Promise!Shut \/ Promise!Conclude
BY DEF MigrationFails, Promise!Shut, Promise!Conclude, Phase, Doors, Proved, TypeOK,
       Snapshots, OneContainer, InItsPlace, Migrated

LEMMA SetBiometricPromised ==
    ASSUME LockInv, SetBiometric
    PROVE  Promise!DropDoor \/ Stutters
<1>1. machine = "UNLOCKED" /\ op = Idle /\ UNCHANGED <<machine, enabling, rows>>
      /\ (ClearBiometric \/ snap' = snap)
      /\ op' \in {Idle, [pc |-> "bioSet", what |-> "none"]}
  BY DEF SetBiometric, ClearBiometric
<1>2. snap \in Snapshots /\ snap.container = "wrapped"
  BY <1>1 DEF TypeOK, OneContainer
<1>3. /\ snap' \in Snapshots /\ snap'.container = snap.container
      /\ snap'.pending = snap.pending /\ snap'.bio \in {snap.bio, "off", "stale"}
  BY <1>1, <1>2, ClearedEffect
<1>4. Proved = FALSE /\ Proved' = FALSE
  BY <1>1 DEF Proved
<1> QED BY <1>1, <1>2, <1>3, <1>4, Undoored

LEMMA BiometricSetPromised ==
    ASSUME LockInv, BiometricSet
    PROVE  Promise!AddDoor \/ Stutters
BY DEF BiometricSet, Promise!AddDoor, Stutters, Promise!vaultVars, Phase, Doors,
       Proved, TypeOK, Snapshots, OneContainer, InItsPlace, Migrated

LEMMA RewrapPromised ==
    ASSUME LockInv, NEW what \in {"code", "duress", "noDuress"}, Rewrap(what)
    PROVE  Stutters
BY DEF Rewrap, Stutters, Promise!vaultVars, Phase, Doors, Proved, TypeOK, Snapshots,
       OneContainer, InItsPlace, Migrated

LEMMA RewrappedPromised == ASSUME LockInv, Rewrapped PROVE Promise!DropDoor \/ Stutters
<1>1. At("rewrap") /\ op' \in {Idle, [pc |-> "bioSet", what |-> "none"]}
      /\ UNCHANGED <<machine, enabling, rows>>
  BY DEF Rewrapped
<1>2. snap \in Snapshots /\ snap.container = "wrapped"
  BY <1>1 DEF TypeOK, InItsPlace
<1>3. /\ snap' \in Snapshots /\ snap'.container = snap.container
      /\ snap'.pending = snap.pending /\ snap'.bio \in {snap.bio, "off", "stale"}
  BY <1>2, RewrappedEffect
<1>4. Proved = FALSE /\ Proved' = FALSE
  BY <1>1 DEF Proved
<1> QED BY <1>1, <1>2, <1>3, <1>4, Undoored

LEMMA LockPromised ==
    ASSUME LockInv, Lock
    PROVE  Promise!Shut \/ Promise!Conclude \/ Stutters
BY DEF Lock, Zeroize, Promise!Shut, Promise!Conclude, Stutters, Promise!vaultVars,
       Phase, Doors, Proved, TypeOK, Snapshots, OneContainer, InItsPlace, Migrated

LEMMA DisableAndWipePromised ==
    ASSUME LockInv, NEW code \in {"right", "wrong"}, DisableAndWipe(code)
    PROVE  Stutters
BY DEF DisableAndWipe, Stutters, Promise!vaultVars, Phase, Doors, Proved, TypeOK,
       Snapshots, OneContainer, InItsPlace, Migrated

LEMMA VerifiedPromised == ASSUME LockInv, Verified PROVE Promise!DropDoor \/ Stutters
<1>1. At("verify") /\ UNCHANGED <<machine, enabling, rows>>
      /\ (ClearBiometric \/ snap' = snap)
      /\ op' \in {Idle, [pc |-> "bioCleared", what |-> "disable"]}
  BY DEF Verified
<1>2. snap \in Snapshots /\ snap.container = "wrapped"
  BY <1>1 DEF TypeOK, InItsPlace
<1>3. /\ snap' \in Snapshots /\ snap'.container = snap.container
      /\ snap'.pending = snap.pending /\ snap'.bio \in {snap.bio, "off", "stale"}
  BY <1>1, <1>2, ClearedEffect
<1>4. Proved = FALSE /\ Proved' = FALSE
  BY <1>1 DEF Proved
<1> QED BY <1>1, <1>2, <1>3, <1>4, Undoored

LEMMA IntegrityWipePromised ==
    ASSUME LockInv, IntegrityWipe
    PROVE  Promise!DropDoor \/ Stutters
<1>1. op = Idle /\ UNCHANGED <<machine, enabling, rows>>
      /\ \/ Wipeable /\ ClearBiometric /\ op' = [pc |-> "bioCleared", what |-> "wipe"]
         \/ UNCHANGED <<snap, op>>
  BY DEF IntegrityWipe
<1>2. CASE Wipeable /\ ClearBiometric /\ op' = [pc |-> "bioCleared", what |-> "wipe"]
  <2>1. snap \in Snapshots /\ snap.container = "wrapped"
    BY <1>2 DEF TypeOK, OneContainer
  <2>2. /\ snap' \in Snapshots /\ snap'.container = snap.container
        /\ snap'.pending = snap.pending /\ snap'.bio \in {snap.bio, "off", "stale"}
    BY <1>2, <2>1, ClearedEffect
  <2>3. Proved = FALSE /\ Proved' = FALSE
    BY <1>1, <1>2 DEF Proved
  <2> QED BY <1>1, <2>1, <2>2, <2>3, Undoored
<1>3. CASE UNCHANGED <<snap, op>>
  BY <1>1, <1>3 DEF Stutters, Promise!vaultVars, Phase, Doors, Proved
<1> QED BY <1>1, <1>2, <1>3

LEMMA WipedPromised == ASSUME LockInv, Wiped PROVE Promise!Erase
BY DEF Wiped, DestroyKey, Promise!Erase, Phase, Doors, Proved, TypeOK, Snapshots,
       OneContainer, InItsPlace, Migrated

LEMMA FreshInstallWipePromised ==
    ASSUME LockInv, FreshInstallWipe, snap.container = "wrapped", ~enabling
    PROVE  Promise!Erase
<1>1. /\ op' = [pc |-> "erase", what |-> "fresh"] /\ machine' = "WIPED" /\ DestroyKey
      /\ UNCHANGED enabling
  BY DEF FreshInstallWipe
<1>2. snap'.container = "none" /\ snap'.bio = "off"
  BY FreshEffect
<1>3. "plain" \in rows' <=> "plain" \in rows
  BY <1>1, DestroyedEffect
<1>4. machine \in {"COLD", "UNLOCKED", "LOCKED"}
  BY DEF OneContainer
<1> QED BY <1>1, <1>2, <1>3, <1>4 DEF Promise!Erase, Phase, Doors, Proved

LEMMA ResetAfterWipePromised == ASSUME LockInv, ResetAfterWipe PROVE Stutters
BY DEF ResetAfterWipe, Stutters, Promise!vaultVars, Phase, Doors, Proved, TypeOK,
       Snapshots, OneContainer, InItsPlace, Migrated

LEMMA CompleteResetPromised == ASSUME LockInv, CompleteReset PROVE Stutters
BY DEF CompleteReset, Stutters, Promise!vaultVars, Phase, Doors, Proved, TypeOK,
       Snapshots, OneContainer, InItsPlace, Migrated

LEMMA ErasedPromised ==
    ASSUME LockInv, Erased
    PROVE  Promise!Clean \/ Promise!Reset \/ Stutters
<1> HIDE DEF Event
<1>1. At("erase") /\ Ends /\ UNCHANGED enabling /\ (rows' = {} \/ UNCHANGED rows)
  BY DEF Erased
<1>2. \/ op.what = "wipe" /\ UNCHANGED <<snap, machine>>
      \/ op.what = "complete" /\ snap' = MarkerRemoved /\ UNCHANGED machine
      \/ op.what = "fresh" /\ machine' = "NONE" /\ UNCHANGED snap
      \/ op.what \notin {"wipe", "complete"} /\ machine' = "NONE" /\ snap' = NoContainer
  BY DEF Erased
<1>3. ("plain" \in rows') = FALSE \/ UNCHANGED ("plain" \in rows)
  BY <1>1
<1>4. Doors = {} /\ Proved = FALSE /\ Proved' = FALSE
  <2>1. op'.pc = "idle" /\ op.pc = "erase"
    BY <1>1
  <2>2. snap.container # "wrapped" /\ snap.bio # "wrap"
    BY <1>1 DEF OneContainer, InItsPlace
  <2> QED BY <2>1, <2>2 DEF Doors, Proved
<1>5. ASSUME UNCHANGED Phase, Doors' = {} PROVE Promise!Clean \/ Stutters
  BY <1>3, <1>4, <1>5 DEF Promise!Clean, Stutters, Promise!vaultVars
<1>6. ASSUME Phase = "gone", Phase' = "off", Doors' = {} PROVE Promise!Reset
  BY <1>3, <1>4, <1>6 DEF Promise!Reset
<1>7. CASE UNCHANGED <<snap, machine>>
  BY <1>1, <1>4, <1>5, <1>7 DEF Phase, Doors
<1>8. CASE op.what = "complete" /\ snap' = MarkerRemoved /\ UNCHANGED machine
  <2>1. snap'.container = snap.container /\ snap'.pending = snap.pending
        /\ snap'.bio = snap.bio /\ machine' = machine
    BY <1>8 DEF MarkerRemoved, TypeOK, Snapshots
  <2> HIDE <1>8
  <2>2. UNCHANGED Phase /\ Doors' = {}
    BY <1>1, <1>4, <2>1 DEF Phase, Doors
  <2> QED BY <1>5, <2>2
<1>9. CASE op.what \notin {"wipe", "complete"} /\ machine' = "NONE"
           /\ snap' \in {snap, NoContainer}
  <2>1. ~enabling /\ (machine = "WIPED" \/ snap.container = "tombstone")
        /\ machine \in {"NONE", "WIPED"} /\ snap.container # "wrapped" /\ snap.bio = "off"
    BY <1>1, <1>9 DEF TypeOK, InItsPlace, OneContainer
  <2>2. Phase = "gone"
    BY <2>1 DEF Phase
  <2>3. snap'.container # "wrapped" /\ snap'.bio = "off" /\ ~enabling' /\ machine' = "NONE"
    BY <1>1, <1>9, <2>1, NoContainerIs
  <2>4. Doors' = {} /\ Phase' \in {"gone", "off"}
    BY <2>3 DEF Doors, Phase
  <2> QED BY <1>5, <1>6, <2>2, <2>4
<1> QED BY <1>2, <1>7, <1>8, <1>9

LEMMA BootPromised ==
    ASSUME LockInv, Boot
    PROVE  Promise!Shut \/ Promise!Conclude \/ Promise!GiveUp \/ Promise!Reset \/ Stutters
BY DEF Boot, Promise!Shut, Promise!Conclude, Promise!GiveUp, Promise!Reset, Stutters,
       Promise!vaultVars, Phase, Doors, Proved, TypeOK, Snapshots, OneContainer,
       InItsPlace, Migrated

LEMMA ReadStartPromised == ASSUME LockInv, ReadStart PROVE Stutters
BY DEF ReadStart, Stutters, Promise!vaultVars, Phase, Doors, Proved, TypeOK, Snapshots,
       OneContainer, InItsPlace, Migrated

LEMMA ReadDonePromised ==
    ASSUME LockInv, NEW row \in rows \cup {"absent"}, ReadDone(row)
    PROVE  Stutters
BY DEF ReadDone, Stutters, Promise!vaultVars, Phase, Doors, Proved, TypeOK, Snapshots,
       OneContainer, InItsPlace, Migrated

LEMMA PlainWritePromised == ASSUME LockInv, PlainWrite PROVE Promise!Keep
BY DEF PlainWrite, Promise!Keep, Phase, Doors, Proved, TypeOK, Snapshots, OneContainer,
       InItsPlace, Migrated

LEMMA WriteStartPromised == ASSUME LockInv, WriteStart PROVE Stutters
BY DEF WriteStart, Stutters, Promise!vaultVars, Phase, Doors, Proved, TypeOK,
       Snapshots, OneContainer, InItsPlace, Migrated

LEMMA WriteDonePromised == ASSUME LockInv, WriteDone PROVE Stutters
BY DEF WriteDone, Stutters, Promise!vaultVars, Phase, Doors, Proved, TypeOK, Snapshots,
       OneContainer, InItsPlace, Migrated

LEMMA TamperPromised == ASSUME LockInv, Tamper PROVE Stutters
BY DEF Tamper, Stutters, Promise!vaultVars, Phase, Doors, Proved, TypeOK, Snapshots,
       OneContainer, InItsPlace, Migrated

-----------------------------------------------------------------------------
(* The theorems.                                                           *)

(* Every page starts with a container that is absent, and nothing begun.    *)
LEMMA InitLockInv == Init => LockInv
<1> SUFFICES ASSUME Init PROVE LockInv
  OBVIOUS
<1>1. TypeOK
  <2>1. op \in [pc : Kinds, what : Answers] /\ snap \in Snapshots
    BY NoContainerIs DEF Init, Kinds, Answers
  <2>2. left \in 0 .. MaxEvents /\ rows \subseteq {"plain", "sealed", "lost"}
    BY DEF Init
  <2>3. /\ machine = "NONE" /\ dbKey = "none" /\ enabling = FALSE /\ imported = FALSE
        /\ read = "idle" /\ write = "idle" /\ alarm = "none"
        /\ tampered = FALSE /\ unclean = FALSE /\ overtaken = FALSE
    BY DEF Init
  <2> QED BY <2>1, <2>2, <2>3 DEF TypeOK
<1>2. OneContainer /\ InItsPlace /\ Migrated
  BY NoContainerIs DEF Init, OneContainer, InItsPlace, Migrated
<1>3. Counted
  <2>1. snap.failures = 0 /\ left = MaxEvents /\ ~At("prompt")
    BY NoContainerIs DEF Init
  <2>2. 0 + MaxEvents <= WipeAfter + MaxEvents /\ 0 + MaxEvents # WipeAfter + MaxEvents
    OBVIOUS
  <2> QED BY <2>1, <2>2 DEF Counted
<1> QED BY <1>1, <1>2, <1>3

(* A duress code and panic() both meet a container.                         *)
LEMMA FreshOverContainer ==
    ASSUME LockInv, TriggerDuress \/ Panic
    PROVE  FreshInstallWipe /\ snap.container = "wrapped" /\ ~enabling
<1>1. CASE TriggerDuress
  BY <1>1 DEF TriggerDuress, OneContainer, InItsPlace
<1>2. CASE Panic
  BY <1>2 DEF Panic, TypeOK, OneContainer
<1> QED BY <1>1, <1>2

(* LockInv is inductive.                                                    *)
LEMMA StepLockInv == LockInv /\ [Next]_vars => LockInv'
<1> SUFFICES ASSUME LockInv, [Next]_vars PROVE LockInv'
  OBVIOUS
<1> HIDE DEF LockInv
<1>1. CASE Begun
  BY <1>1, EnableStartKeeps, UnlockKeeps, UnlockBiometricKeeps,
     SetBiometricKeeps, RewrapKeeps, DisableAndWipeKeeps,
     ResetAfterWipeKeeps,
     FreshOverContainer, FreshInstallWipeKeeps DEF Begun
<1>2. CASE Progress
  BY <1>2, EnableRunsKeeps, EnableCreatedKeeps, AcceptedKeeps, WrongCodeKeeps,
     BiometricRefusedKeeps, DerivedKeeps, CollectedKeeps, BatchedKeeps,
     CommittedKeeps, MigrationFailsKeeps, BiometricSetKeeps,
     RewrappedKeeps, VerifiedKeeps, WipedKeeps, ErasedKeeps,
     FreshOverContainer, FreshInstallWipeKeeps DEF Progress
<1>3. CASE IntegrityWipe \/ CompleteReset \/ Lock \/ Boot \/ Tamper
  BY <1>3, IntegrityWipeKeeps, CompleteResetKeeps, LockKeeps, BootKeeps, TamperKeeps
<1>4. CASE Stores
  BY <1>4, ReadStartKeeps, ReadDoneKeeps, PlainWriteKeeps, WriteStartKeeps,
     WriteDoneKeeps DEF Stores
<1>5. CASE UNCHANGED vars
  BY <1>5 DEF vars, LockInv, TypeOK, OneContainer, InItsPlace, Migrated, Counted
<1> QED BY <1>1, <1>2, <1>3, <1>4, <1>5 DEF Next

(* A container has a machine, and only a container has one; every operation *)
(* still finds what it found when it began, although a lock signal, a crash *)
(* or a wipe may have come between; the open lock has no plain row behind   *)
(* it; the counters stop where the code acts on them.                       *)
THEOREM LockInvariant == Spec => []LockInv
<1> HIDE DEF LockInv
<1> QED BY InitLockInv, StepLockInv, PTL DEF Spec

(* The type invariant of the lock, with the limits of its counters and the  *)
(* rule that a key is only held over a container.                           *)
THEOREM TypeCorrect == Spec => []TypeOK
<1>1. LockInv => TypeOK
  OBVIOUS
<1> QED BY <1>1, LockInvariant, PTL

(* The lock starts as the vault does.                                       *)
LEMMA InitPromised == Init => Promise!VaultInit
BY NoContainerIs DEF Init, Promise!VaultInit, Phase, Doors, Proved

(* Every step of the lock is one of the vault, or none.                     *)
LEMMA StepPromised == LockInv /\ [Next]_vars => [Promise!VaultNext]_(Promise!vaultVars)
<1> SUFFICES ASSUME LockInv, [Next]_vars PROVE Promise!VaultNext \/ Stutters
  BY DEF Stutters
<1> HIDE DEF LockInv
<1> USE DEF Promise!VaultNext
<1>1. CASE Begun
  BY <1>1, EnableStartPromised, UnlockPromised, UnlockBiometricPromised,
     SetBiometricPromised, RewrapPromised, DisableAndWipePromised,
     ResetAfterWipePromised,
     FreshOverContainer, FreshInstallWipePromised DEF Begun
<1>2. CASE Progress
  BY <1>2, EnableRunsPromised, EnableCreatedPromised, AcceptedPromised,
     WrongCodePromised, BiometricRefusedPromised, DerivedPromised,
     CollectedPromised, BatchedPromised, CommittedPromised,
     MigrationFailsPromised, BiometricSetPromised, RewrappedPromised,
     VerifiedPromised, WipedPromised, ErasedPromised,
     FreshOverContainer, FreshInstallWipePromised DEF Progress
<1>3. CASE IntegrityWipe \/ CompleteReset \/ Lock \/ Boot \/ Tamper
  BY <1>3, IntegrityWipePromised, CompleteResetPromised, LockPromised, BootPromised,
     TamperPromised
<1>4. CASE Stores
  BY <1>4, ReadStartPromised, ReadDonePromised, PlainWritePromised, WriteStartPromised,
     WriteDonePromised DEF Stores
<1>5. CASE UNCHANGED vars
  BY <1>5 DEF vars, Stutters, Promise!vaultVars, Phase, Doors, Proved
<1> QED BY <1>1, <1>2, <1>3, <1>4, <1>5 DEF Next

(* The lock keeps what the vault promises: data is open only after a code   *)
(* or a finger and only without plain rows, a second door is only added     *)
(* from inside, and erasure takes every door at once.                       *)
THEOREM Implements == Spec => Promised
<1> HIDE DEF LockInv
<1>1. Spec => [][Promise!VaultNext]_(Promise!vaultVars)
  BY LockInvariant, StepPromised, PTL DEF Spec
<1>2. Spec => Promise!VaultInit
  BY InitPromised DEF Spec
<1> QED BY <1>1, <1>2, PTL DEF Promised, Promise!VaultSpec

(* What the vault's promises come to holds of the lock: open data has the   *)
(* door of the code and no plain row, the second door is never without the  *)
(* first, and nothing leads to the key of an erased or absent container.    *)
THEOREM LockGuarded == Spec => []Promise!Guarded
<1>1. LockInv => Promise!Guarded
  BY DEF TypeOK, Snapshots, OneContainer, InItsPlace, Migrated, Promise!Guarded, Phase,
         Doors, Proved
<1> QED BY <1>1, LockInvariant, PTL

(* After an erasure the application is without a lock before it is open     *)
(* again, and an open lock only becomes none through shutting or erasing.   *)
THEOREM KeyStaysErased == Spec => Promise!StaysErased
<1>1. [Promise!VaultNext]_(Promise!vaultVars) => [Promise!NoReturn]_(Promise!vaultVars)
  <2>1. Promise!VaultNext => Promise!NoReturn
    BY DEF Promise!VaultNext, Promise!NoReturn, Promise!Keep, Promise!Protect,
           Promise!Install, Promise!GiveUp, Promise!Prove, Promise!Conclude, Promise!Seal,
           Promise!Open, Promise!Shut, Promise!AddDoor, Promise!DropDoor, Promise!Erase,
           Promise!Reset, Promise!Clean
  <2> QED BY <2>1
<1> QED BY <1>1, Implements, PTL DEF Promised, Promise!VaultSpec, Promise!StaysErased

-----------------------------------------------------------------------------
(* The incident: every action keeps Undisturbed.                            *)

(* enable() closes the passthrough: who was reading through it is           *)
(* overtaken.                                                               *)
LEMMA EnableStartExplained ==
    ASSUME LockInv, Undisturbed, EnableStart
    PROVE  Undisturbed'
BY DEF EnableStart, Overtakes, TypeOK, Snapshots, OneContainer, InItsPlace, Migrated,
       Undisturbed

(* enable() gets its turn.                                                  *)
LEMMA EnableRunsExplained ==
    ASSUME LockInv, Undisturbed, EnableRuns
    PROVE  Undisturbed'
BY DEF EnableRuns, TypeOK, Snapshots, OneContainer, InItsPlace, Migrated, Undisturbed

(* The container is created.                                                *)
LEMMA EnableCreatedExplained ==
    ASSUME LockInv, Undisturbed, EnableCreated
    PROVE  Undisturbed'
BY DEF EnableCreated, OneContainer, InItsPlace, TypeOK, Snapshots, Migrated, Undisturbed

(* The machine opens: until now nobody has been reading with a key.         *)
LEMMA AcceptedExplained == ASSUME LockInv, Undisturbed, Accepted PROVE Undisturbed'
BY DEF Accepted, InItsPlace, TypeOK, Snapshots, OneContainer, Migrated, Undisturbed

(* A wrong code, and the last one.                                          *)
LEMMA WrongCodeExplained ==
    ASSUME LockInv, Undisturbed, WrongCode
    PROVE  Undisturbed'
BY DEF WrongCode, TypeOK, Snapshots, OneContainer, InItsPlace, Migrated, Undisturbed

(* A finger is refused.                                                     *)
LEMMA BiometricRefusedExplained ==
    ASSUME LockInv, Undisturbed, BiometricRefused
    PROVE  Undisturbed'
BY DEF BiometricRefused, TypeOK, Snapshots, OneContainer, InItsPlace, Migrated,
       Undisturbed

(* The rows of the migration are read.                                      *)
LEMMA CollectedExplained ==
    ASSUME LockInv, Undisturbed, Collected
    PROVE  Undisturbed'
BY DEF Collected, TypeOK, Snapshots, OneContainer, InItsPlace, Migrated, Undisturbed

(* The rows of the migration are sealed under the container's key.          *)
LEMMA BatchedExplained == ASSUME LockInv, Undisturbed, Batched PROVE Undisturbed'
BY DEF Batched, Resealed, TypeOK, Snapshots, OneContainer, InItsPlace, Migrated,
       Undisturbed

(* The migration is finished; its key is the one that sealed the rows.      *)
LEMMA CommittedExplained ==
    ASSUME LockInv, Undisturbed, Committed
    PROVE  Undisturbed'
BY DEF Committed, Opened, TypeOK, Snapshots, OneContainer, InItsPlace, Migrated,
       Undisturbed

(* The migration fails: the data was not open to anyone.                    *)
LEMMA MigrationFailsExplained ==
    ASSUME LockInv, Undisturbed, MigrationFails
    PROVE  Undisturbed'
BY DEF MigrationFails, InItsPlace, TypeOK, Snapshots, OneContainer, Migrated,
       Undisturbed

(* The second door is there, or was refused.                                *)
LEMMA BiometricSetExplained ==
    ASSUME LockInv, Undisturbed, BiometricSet
    PROVE  Undisturbed'
BY DEF BiometricSet, TypeOK, Snapshots, OneContainer, InItsPlace, Migrated, Undisturbed

(* A lock: whoever reads or writes is overtaken.                            *)
LEMMA LockExplained == ASSUME LockInv, Undisturbed, Lock PROVE Undisturbed'
BY DEF Lock, Zeroize, Overtakes, TypeOK, Snapshots, OneContainer, InItsPlace, Migrated,
       Undisturbed

(* The answer to an incident: there is none.                                *)
LEMMA IntegrityWipeExplained ==
    ASSUME LockInv, Undisturbed, IntegrityWipe
    PROVE  Undisturbed'
BY DEF IntegrityWipe, ClearBiometric, TypeOK, Snapshots, OneContainer, InItsPlace,
       Migrated, Undisturbed

(* The key ends, and what it sealed is on its way out.                      *)
LEMMA WipedExplained == ASSUME LockInv, Undisturbed, Wiped PROVE Undisturbed'
BY DEF Wiped, DestroyKey, Overtakes, TypeOK, Snapshots, OneContainer, InItsPlace,
       Migrated, Undisturbed

(* resetAfterWipe() begins.                                                 *)
LEMMA ResetAfterWipeExplained ==
    ASSUME LockInv, Undisturbed, ResetAfterWipe
    PROVE  Undisturbed'
BY DEF ResetAfterWipe, TypeOK, Snapshots, OneContainer, InItsPlace, Migrated,
       Undisturbed

(* The teardown after a duress code begins.                                 *)
LEMMA CompleteResetExplained ==
    ASSUME LockInv, Undisturbed, CompleteReset
    PROVE  Undisturbed'
BY DEF CompleteReset, TypeOK, Snapshots, OneContainer, InItsPlace, Migrated, Undisturbed

(* The rows are gone, or a deletion has failed.                             *)
LEMMA ErasedExplained == ASSUME LockInv, Undisturbed, Erased PROVE Undisturbed'
BY DEF Erased, MarkerRemoved, TypeOK, Snapshots, OneContainer, InItsPlace, Migrated,
       Undisturbed

(* A page starts: the marker of a reset has queued its teardown.            *)
LEMMA BootExplained == ASSUME LockInv, Undisturbed, Boot PROVE Undisturbed'
BY DEF Boot, TypeOK, Snapshots, OneContainer, InItsPlace, Migrated, Undisturbed

(* A read begins, in the mode the lock is in.                               *)
LEMMA ReadStartExplained ==
    ASSUME LockInv, Undisturbed, ReadStart
    PROVE  Undisturbed'
BY DEF ReadStart, HasKey, Captured, TypeOK, Snapshots, OneContainer, InItsPlace,
       Migrated, Undisturbed

(* A passthrough write.                                                     *)
LEMMA PlainWriteExplained ==
    ASSUME LockInv, Undisturbed, PlainWrite
    PROVE  Undisturbed'
BY DEF PlainWrite, TypeOK, Snapshots, OneContainer, InItsPlace, Migrated, Undisturbed

(* A sealed write takes its key.                                            *)
LEMMA WriteStartExplained ==
    ASSUME LockInv, Undisturbed, WriteStart
    PROVE  Undisturbed'
BY DEF WriteStart, HasKey, TypeOK, Snapshots, OneContainer, InItsPlace, Migrated,
       Undisturbed

(* A sealed write is done.                                                  *)
LEMMA WriteDoneExplained ==
    ASSUME LockInv, Undisturbed, WriteDone
    PROVE  Undisturbed'
BY DEF WriteDone, TypeOK, Snapshots, OneContainer, InItsPlace, Migrated, Undisturbed

(* A row is altered from outside.                                           *)
LEMMA TamperExplained == ASSUME LockInv, Undisturbed, Tamper PROVE Undisturbed'
BY DEF Tamper, TypeOK, Snapshots, OneContainer, InItsPlace, Migrated, Undisturbed

(* unlock() begins to derive.                                               *)
LEMMA UnlockExplained ==
    ASSUME LockInv, Undisturbed, NEW code \in {"right", "wrong", "duress"}, Unlock(code)
    PROVE  Undisturbed'
BY DEF Unlock, TypeOK, Snapshots, OneContainer, InItsPlace, Migrated, Undisturbed,
       Refused, Opens

(* unlockBiometric() prompts.                                               *)
LEMMA UnlockBiometricExplained ==
    ASSUME LockInv, Undisturbed,
           NEW answer \in {"right", "missed", "lockout", "replaced"}, UnlockBiometric(answer)
    PROVE  Undisturbed'
BY DEF UnlockBiometric, TypeOK, Snapshots, OneContainer, InItsPlace, Migrated,
       Undisturbed, Refused, Opens

(* A change of codes begins.                                                *)
LEMMA RewrapExplained ==
    ASSUME LockInv, Undisturbed, NEW what \in {"code", "duress", "noDuress"}, Rewrap(what)
    PROVE  Undisturbed'
BY DEF Rewrap, TypeOK, Snapshots, OneContainer, InItsPlace, Migrated, Undisturbed,
       Refused, Opens

(* disableAndWipe() begins.                                                 *)
LEMMA DisableAndWipeExplained ==
    ASSUME LockInv, Undisturbed, NEW code \in {"right", "wrong"}, DisableAndWipe(code)
    PROVE  Undisturbed'
BY DEF DisableAndWipe, TypeOK, Snapshots, OneContainer, InItsPlace, Migrated,
       Undisturbed, Refused, Opens

(* No read is refused: a plain row is behind an open passthrough only, and  *)
(* a lost one is behind neither.                                            *)
LEMMA ReadDoneExplained ==
    ASSUME LockInv, Undisturbed, NEW row \in rows \cup {"absent"}, ReadDone(row)
    PROVE  Undisturbed'
BY DEF ReadDone, TypeOK, Snapshots, OneContainer, InItsPlace, Migrated, Undisturbed,
       Refused, Opens

(* The operation under way changes the biometric record or ends the         *)
(* migration.                                                               *)
LEMMA RecordExplained ==
    ASSUME LockInv, Undisturbed, ~At("erase"), ~Migrates', dbKey' # "zero",
           UNCHANGED <<machine, enabling, rows, read, write, alarm, tampered, unclean, overtaken>>,
           snap'.container = snap.container, snap'.pending = snap.pending \/ ~snap'.pending,
           snap'.reset = snap.reset
    PROVE  Undisturbed'
BY DEF Undisturbed, TypeOK, Snapshots

(* The second factor is set, or taken off.                                  *)
LEMMA SetBiometricExplained ==
    ASSUME LockInv, Undisturbed, SetBiometric
    PROVE  Undisturbed'
<1>1. /\ op = Idle /\ ~Migrates' /\ UNCHANGED <<machine, enabling, key, store, alarm, history>>
      /\ snap' = snap \/ ClearBiometric
  BY DEF SetBiometric, ClearBiometric
<1>2. snap'.container = snap.container /\ snap'.pending = snap.pending /\ snap'.reset = snap.reset
  BY <1>1, ClearedEffect DEF TypeOK
<1>3. CASE dbKey = "zero"
  BY <1>1, <1>2, <1>3 DEF Undisturbed
<1> QED BY <1>1, <1>2, <1>3, RecordExplained

(* disableAndWipe() has verified the code.                                  *)
LEMMA VerifiedExplained == ASSUME LockInv, Undisturbed, Verified PROVE Undisturbed'
<1>1. /\ At("verify") /\ ~Migrates' /\ UNCHANGED <<machine, enabling, key, store, alarm, history>>
      /\ snap' = snap \/ ClearBiometric
  BY DEF Verified
<1>2. snap'.container = snap.container /\ snap'.pending = snap.pending /\ snap'.reset = snap.reset
  BY <1>1, ClearedEffect DEF TypeOK
<1>3. CASE dbKey = "zero"
  BY <1>1, <1>2, <1>3 DEF Undisturbed
<1> QED BY <1>1, <1>2, <1>3, RecordExplained

(* The key is wrapped anew.                                                 *)
LEMMA RewrappedExplained ==
    ASSUME LockInv, Undisturbed, Rewrapped
    PROVE  Undisturbed'
<1>1. At("rewrap") /\ ~Migrates' /\ UNCHANGED <<machine, enabling, key, store, alarm, history>>
  BY DEF Rewrapped
<1>2. snap'.container = snap.container /\ snap'.pending = snap.pending /\ snap'.reset = snap.reset
  BY RewrappedEffect DEF TypeOK
<1>3. CASE dbKey = "zero"
  BY <1>1, <1>2, <1>3 DEF Undisturbed
<1> QED BY <1>1, <1>2, <1>3, RecordExplained

(* The key of the database is derived: open, or migrate first.              *)
LEMMA DerivedExplained == ASSUME LockInv, Undisturbed, Derived PROVE Undisturbed'
<1>1. At("derive") /\ UNCHANGED <<machine, enabling, store, alarm, history>>
  BY DEF Derived
<1>2. snap \in Snapshots
  BY DEF TypeOK
<1>3. CASE /\ UNCHANGED snap /\ dbKey' = dbKey
           /\ op' = Idle \/ op' = [pc |-> "collect", what |-> "live"]
  BY <1>1, <1>3 DEF Undisturbed
<1>4. CASE /\ ~Migrates' /\ dbKey' = "live"
           /\ \/ snap' = [snap EXCEPT !.failures = 0, !.bioFailures = 0, !.pending = FALSE]
              \/ snap' = [snap EXCEPT !.failures = 0, !.bioFailures = 0]
  <2>1. snap'.container = snap.container /\ (snap'.pending = snap.pending \/ ~snap'.pending)
        /\ snap'.reset = snap.reset
    BY <1>2, <1>4 DEF Snapshots
  <2> QED BY <1>1, <1>4, <2>1, RecordExplained
<1> QED BY <1>3, <1>4 DEF Derived, Opened

(* A wipe that leaves a marker instead of a tombstone.                      *)
LEMMA FreshInstallWipeExplained ==
    ASSUME LockInv, Undisturbed, FreshInstallWipe, snap.container = "wrapped"
    PROVE  Undisturbed'
<1>1. snap'.reset = TRUE /\ snap'.container = "none"
  BY FreshEffect
<1>2. /\ op' = [pc |-> "erase", what |-> "fresh"] /\ DestroyKey
      /\ UNCHANGED <<enabling, alarm, tampered, unclean>>
  BY DEF FreshInstallWipe
<1>3. CASE overtaken'
  BY <1>3 DEF Undisturbed
<1>4. CASE ~overtaken'
  <2>1. read = "idle" /\ write = "idle" /\ ~overtaken
    BY <1>2, <1>4 DEF DestroyKey, Overtakes
  <2>2. read' = "idle" /\ write' = "idle" /\ dbKey' = "none"
    BY <1>2, <2>1 DEF DestroyKey
  <2> QED BY <1>1, <1>2, <2>1, <2>2 DEF Undisturbed
<1> QED BY <1>3, <1>4

(* Undisturbed is inductive over LockInv.                                   *)
LEMMA StepExplained == LockInv /\ Undisturbed /\ [Next]_vars => Undisturbed'
<1> SUFFICES ASSUME LockInv, Undisturbed, [Next]_vars PROVE Undisturbed'
  OBVIOUS
<1> HIDE DEF LockInv
<1>1. CASE Begun
  BY <1>1, EnableStartExplained, UnlockExplained, UnlockBiometricExplained,
     SetBiometricExplained, RewrapExplained, DisableAndWipeExplained,
     ResetAfterWipeExplained, FreshOverContainer, FreshInstallWipeExplained DEF Begun
<1>2. CASE Progress
  BY <1>2, EnableRunsExplained, EnableCreatedExplained, AcceptedExplained,
     WrongCodeExplained, BiometricRefusedExplained, DerivedExplained, CollectedExplained,
     BatchedExplained, CommittedExplained, MigrationFailsExplained, BiometricSetExplained,
     RewrappedExplained, VerifiedExplained, WipedExplained, ErasedExplained,
     FreshOverContainer, FreshInstallWipeExplained DEF Progress
<1>3. CASE IntegrityWipe \/ CompleteReset \/ Lock \/ Boot \/ Tamper
  BY <1>3, IntegrityWipeExplained, CompleteResetExplained, LockExplained, BootExplained,
     TamperExplained
<1>4. CASE Stores
  BY <1>4, ReadStartExplained, ReadDoneExplained, PlainWriteExplained,
     WriteStartExplained, WriteDoneExplained DEF Stores
<1>5. CASE UNCHANGED vars
  BY <1>5 DEF vars, Undisturbed
<1> QED BY <1>1, <1>2, <1>3, <1>4, <1>5 DEF Next

(* An incident is raised only when a row was altered, a deletion had left   *)
(* rows of an erased container behind, or the lock changed under an         *)
(* operation of the store: on every reachable state.                        *)
THEOREM IncidentExplained == Spec => []AlarmExplained
<1>1. Init => Undisturbed
  BY DEF Init, Undisturbed
<1>2. Undisturbed => AlarmExplained
  BY DEF Undisturbed, AlarmExplained
<1> HIDE DEF LockInv
<1> QED BY <1>1, <1>2, StepExplained, LockInvariant, PTL DEF Spec
================================================================================
