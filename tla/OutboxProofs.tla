---------------------------- MODULE OutboxProofs ----------------------------
(***************************************************************************)
(* What holds of the outbox for any number of tabs, chats and items, and   *)
(* any bounds.                                                             *)
(*                                                                         *)
(* TypeOK is not inductive alone: a sendClaimed() that ends applies Tail   *)
(* to a chain, which must not be empty.  Exclusion, one request per chat   *)
(* and silence while locked are not inductive either.  The invariant is    *)
(* ClaimInv: types, a running sendClaimed() holds the lease of its item    *)
(* (LeaseHeld), a current one is first in its chain (AtHead), and only an  *)
(* open, unlocked tab has current ones, the only ones with a request       *)
(* (CurrentIsLive).                                                        *)
(*                                                                         *)
(* RowInv adds where the rows of an item are (see its parts in Outbox).    *)
(* Its proof follows one item x: a step is x's own, a list() of some tab,  *)
(* the world's, or Apart from x, which forgets copies of x's row and makes *)
(* none (Views); then each part is kept in each of these cases.            *)
(*                                                                         *)
(* OrderInv, given RowInv, says why messages arrive in order: what an      *)
(* acknowledged message waits for is in front of it on every chain it is   *)
(* on (InLine), because a session appends in its order and a list() finds  *)
(* and sorts all of it (InSession, Listed, Queued); a send that begins is  *)
(* first of its chain, so it waits for nothing, and stays so (InTurn).     *)
(*                                                                         *)
(* KeptInv, given RowInv, follows one item of the only tab: each write     *)
(* leaves a copy in RAM, on disk or in a put (CopyStays); a list() drops   *)
(* from RAM what it has put, and no step of the tab takes that off again,  *)
(* because the tab keeps the chat (Restores); the switch is the first, so  *)
(* no transition makes a chat durable that was so at first (OneSwitch),    *)
(* and it finds no row that a list() beside it is restoring, because none  *)
(* of the chat was in RAM before (Leaves) or overlap excepts the case.     *)
(*                                                                         *)
(* Layout: the operators the actions share; one lemma per action for the   *)
(* types, then one for the other parts of ClaimInv, and its theorems; what *)
(* a step leaves alone and what a list() moves; the parts of RowInv, of    *)
(* OrderInv and of KeptInv, each followed by its theorems.                 *)
(***************************************************************************)
EXTENDS Outbox, FiniteSetTheorems, TLAPS

\* WriteItem keeps every variable in its type.
LEMMA WriteItemType ==
    ASSUME StoreType, NEW t \in Tabs, NEW i \in Items, NEW s \in Rows, WriteItem(t, i, s)
    PROVE  StoreType'
BY DEF StoreType, WriteItem, Rows

\* PutDone keeps every variable in its type.
LEMMA PutDoneType ==
    ASSUME StoreType, UNCHANGED ram, NEW i \in Items, NEW row \in Rows, PutDone(i, row)
    PROVE  StoreType'
BY DEF StoreType, PutDone, Rows

\* DeleteItem keeps every variable in its type.
LEMMA DeleteItemType ==
    ASSUME StoreType, NEW t \in Tabs, NEW i \in Items, DeleteItem(t, i)
    PROVE  StoreType'
BY DEF StoreType, DeleteItem, Rows

\* What a put writes is a row, or nothing.
LEMMA PutOfType ==
    ASSUME NEW t, NEW i, NEW s \in Rows PROVE PutOf(t, i, s) \in Rows
BY DEF PutOf, Rows

\* readItem() answers with a row, or nothing.
LEMMA RowOfType ==
    ASSUME StoreType, NEW t \in Tabs, NEW i \in Items PROVE RowOf(t, i) \in Rows
BY DEF StoreType, RowOf

\* An intermediate step of sendClaimed() keeps the types of jobs, leases and chains.
LEMMA WorkStepType ==
    ASSUME WorkType, QueueType, NEW t \in Tabs, NEW i \in Items,
           NEW pc \in JobPC, NEW row \in Rows, Work(t, i, pc, row)
    PROVE  WorkType' /\ chain' \in [Tabs -> [Chats -> Seq(Items)]]
<1> DEFINE r == [job[t][i] EXCEPT !.pc = pc, !.row = row]
<1>1. job[t][i] \in Job
  BY DEF WorkType
<1>2. r \in Job
  BY <1>1 DEF Job
<1>3. job' = [job EXCEPT ![t][i] = r]
  BY DEF Work
<1> HIDE DEF r
<1>4. job' \in [Tabs -> [Items -> Job]]
  BY <1>2, <1>3 DEF WorkType
<1> QED
  BY <1>4 DEF WorkType, QueueType, Work

\* A sendClaimed() that ends at the head of its chain keeps the types of jobs, leases and chains.
LEMMA FinishType ==
    ASSUME WorkType, QueueType, NEW t \in Tabs, NEW i \in Items, Finish(t, i),
           job[t][i].live => Turn(t, i)
    PROVE  WorkType' /\ chain' \in [Tabs -> [Chats -> Seq(Items)]]
<1>1. NoJob \in Job
  BY DEF NoJob, Job, JobPC, Rows
<1>2. job' \in [Tabs -> [Items -> Job]]
  BY <1>1 DEF WorkType, Finish
<1>3. lease' \in [Items -> Tabs \cup {Free}]
  BY DEF WorkType, Finish
<1>4. CASE job[t][i].live
  <2>1. chain[t][ChatOf[i]] \in Seq(Items) /\ chain[t][ChatOf[i]] # <<>>
    BY <1>4, ChatAssumption DEF QueueType, Turn
  <2>2. Tail(chain[t][ChatOf[i]]) \in Seq(Items)
    BY <2>1
  <2>3. chain' = [chain EXCEPT ![t][ChatOf[i]] = Tail(chain[t][ChatOf[i]])]
    BY <1>4 DEF Finish
  <2> QED
    BY <1>2, <1>3, <2>2, <2>3, ChatAssumption DEF WorkType, QueueType
<1>5. CASE ~job[t][i].live
  BY <1>2, <1>3, <1>5 DEF WorkType, QueueType, Finish
<1> QED
  BY <1>4, <1>5

\* scheduleSend() keeps the chains sequences of items.
LEMMA ScheduledType ==
    ASSUME QueueType, NEW t \in Tabs, NEW i \in Items
    PROVE  Scheduled(t, i) \in [Tabs -> [Chats -> Seq(Items)]]
BY ChatAssumption DEF QueueType, Scheduled

\* ScheduleUndo keeps every variable in its type.
LEMMA ScheduleUndoType ==
    ASSUME QueueType, NEW t \in Tabs, NEW i \in Items, ScheduleUndo(t, i)
    PROVE  QueueType'
BY ScheduledType DEF QueueType, ScheduleUndo

\* A new list()-based operation has its type.
LEMMA ScanType ==
    ASSUME StoreType, NEW kind \in Kinds, NEW chats \in SUBSET Chats, NEW keep \in BOOLEAN
    PROVE  Scan(kind, chats, keep) \in Drive
BY DEF StoreType, Scan, Drive, DrivePC, Rows

\* RestoreLoop keeps every variable in its type.
LEMMA RestoreLoopType ==
    ASSUME StoreType, TabType, DriveType, HistType, NEW t \in Tabs, NEW l \in Lists,
           NEW d \in Drive, NEW r \in [Items -> Rows], RestoreLoop(t, l, d, r)
    PROVE  /\ ram' \in [Tabs -> [Items -> Rows]]
           /\ DriveType'
           /\ persist' \in [Tabs -> [Chats -> BOOLEAN]]
           /\ used' \in [Events -> Nat]
<1> DEFINE Goes(e) == drive' = [drive EXCEPT ![t][l] = e]
           e1(i) == [d EXCEPT !.pc = "restore", !.cur = {i}]
           e2 == [d EXCEPT !.pc = IF d.kind = "sync" THEN "synced" ELSE "list",
                           !.left = IF d.kind = "sync" THEN NoRows ELSE disk, !.cur = {}]
<1>1. ram' \in [Tabs -> [Items -> Rows]]
  BY DEF StoreType, RestoreLoop
<1>2. NoDrive \in Drive
  BY DEF NoDrive, NoRows, Drive, DrivePC, Kinds, Rows
<1>3. ASSUME NEW e \in Drive, Goes(e) PROVE DriveType'
  BY <1>3 DEF DriveType
<1>4. CASE \E i \in Items : Goes(e1(i)) /\ UNCHANGED <<persist, used>>
  <2>1. PICK i \in Items : Goes(e1(i)) /\ UNCHANGED <<persist, used>>
    BY <1>4
  <2>2. e1(i) \in Drive
    BY DEF Drive, DrivePC, Restoring
  <2> QED
    BY <1>1, <1>3, <2>1, <2>2 DEF TabType, HistType
<1>5. CASE Goes(NoDrive) /\ Switch(t, l, d)
  <2>1. [c \in Chats |-> IF c \in d.chats THEN d.keep ELSE persist[t][c]] \in [Chats -> BOOLEAN]
    BY DEF TabType, Drive
  <2>2. persist' \in [Tabs -> [Chats -> BOOLEAN]]
    BY <1>5, <2>1 DEF Switch, TabType
  <2>3. used' \in [Events -> Nat]
    BY <1>5 DEF Switch, Spend, HistType
  <2> QED
    BY <1>1, <1>2, <1>3, <1>5, <2>2, <2>3
<1>6. CASE Goes(NoDrive) /\ UNCHANGED <<persist, used>>
  BY <1>1, <1>2, <1>3, <1>6 DEF TabType, HistType
<1>7. CASE Goes(e2) /\ UNCHANGED <<persist, used>>
  <2>1. e2 \in Drive
    BY DEF Drive, DrivePC, StoreType, NoRows, Rows
  <2> QED
    BY <1>1, <1>3, <1>7, <2>1 DEF TabType, HistType
<1>8. \/ \E i \in Items : Goes(e1(i)) /\ UNCHANGED <<persist, used>>
      \/ Goes(NoDrive) /\ Switch(t, l, d)
      \/ Goes(NoDrive) /\ UNCHANGED <<persist, used>>
      \/ Goes(e2) /\ UNCHANGED <<persist, used>>
  BY DEF RestoreLoop
<1> HIDE DEF Goes, e1, e2
<1> QED
  BY <1>4, <1>5, <1>6, <1>7, <1>8

\* EvictLoop keeps every variable in its type.
LEMMA EvictLoopType ==
    ASSUME StoreType, TabType, DriveType, HistType, NEW t \in Tabs, NEW l \in Lists,
           NEW d \in Drive, EvictLoop(t, l, d)
    PROVE  /\ StoreType' /\ DriveType' /\ persist' \in [Tabs -> [Chats -> BOOLEAN]]
           /\ used' \in [Events -> Nat]
<1>1. CASE \E i \in Items : /\ Evicted(t, i, d.left[i])
                            /\ disk' = [disk EXCEPT ![i] = None]
                            /\ drive' = [drive EXCEPT ![t][l] = [d EXCEPT !.pc = "evict", !.left[i] = None]]
                            /\ UNCHANGED <<persist, used>>
  <2>1. PICK i \in Items : /\ Evicted(t, i, d.left[i])
                           /\ disk' = [disk EXCEPT ![i] = None]
                           /\ drive' = [drive EXCEPT ![t][l] = [d EXCEPT !.pc = "evict", !.left[i] = None]]
                           /\ UNCHANGED <<persist, used>>
    BY <1>1
  <2>2. d.left \in [Items -> Rows]
    BY DEF Drive
  <2>3. StoreType'
    BY <2>1, <2>2 DEF StoreType, Evicted, Rows
  <2>4. [d EXCEPT !.pc = "evict", !.left[i] = None] \in Drive
    BY <2>2 DEF Drive, DrivePC, Rows
  <2>5. DriveType'
    BY <2>1, <2>4 DEF DriveType
  <2> QED
    BY <2>1, <2>3, <2>5 DEF TabType, HistType
<1>2. CASE RestoreLoop(t, l, [d EXCEPT !.left = ram[t]], ram[t]) /\ UNCHANGED disk
  <2>1. ram[t] \in [Items -> Rows] /\ [d EXCEPT !.left = ram[t]] \in Drive
    BY DEF StoreType, Drive
  <2> QED
    BY <1>2, <2>1, RestoreLoopType DEF StoreType
<1> QED
  BY <1>1, <1>2 DEF EvictLoop

\* What pause() and the loss of a tab share keeps the types.
LEMMA StopType ==
    ASSUME TypeOK, NEW t \in Tabs, Stop(t)
    PROVE  /\ StoreType' /\ QueueType' /\ EnvType'
           /\ paused' \in [Tabs -> BOOLEAN] /\ persist' = persist
           /\ acked' = acked /\ undone' = undone /\ undoneHeld' = undoneHeld
           /\ failedOnce' = failedOnce /\ behind' = behind
           /\ session' \in [Tabs -> SUBSET Items]
BY DEF TypeOK, StoreType, TabType, QueueType, EnvType, HistType, Stop, Aborted, NoRows, Rows

\* Counting a bounded event keeps the counters natural.
LEMMA SpendType ==
    ASSUME HistType, NEW e \in Events, Spend(e) PROVE used' \in [Events -> Nat]
BY DEF HistType, Spend

-----------------------------------------------------------------------------
(* Every action keeps the types.  Those that take a send off its chain need *)
(* AtHead as well: Tail is applied to a chain that is not empty.            *)

\* Add keeps every variable in its type.
LEMMA AddType ==
    ASSUME TypeOK, AtHead, NEW t \in Tabs, NEW i \in Items, Add(t, i)
    PROVE  TypeOK'
<1>1. StoreType'
  BY WriteItemType DEF TypeOK, Add, Rows, Status, tabVars, workVars, envVars, histVars
<1>2. CallType'
  BY PutOfType DEF TypeOK, Add, CallType, Call, CallPC, Rows, Status, tabVars, workVars, envVars, histVars
<1>3. EnvType'
  BY DEF TypeOK, Add, EnvType, HoldFor, Items, tabVars, workVars, envVars, histVars
<1>4. HistType'
  BY DEF TypeOK, Add, HistType, tabVars, workVars, envVars, histVars
<1>5. TabType' /\ QueueType' /\ WorkType' /\ DriveType'
  BY DEF TypeOK, Add, TabType, QueueType, WorkType, DriveType, tabVars, workVars, envVars, histVars
<1> QED
  BY <1>1, <1>2, <1>3, <1>4, <1>5 DEF TypeOK

\* AddStored keeps every variable in its type.
LEMMA AddStoredType ==
    ASSUME TypeOK, AtHead, NEW t \in Tabs, NEW i \in Items, AddStored(t, i)
    PROVE  TypeOK'
<1>1. StoreType'
  BY PutDoneType DEF TypeOK, AddStored, CallType, Call, tabVars, workVars, envVars, histVars
<1>2. QueueType'
  BY ScheduleUndoType DEF TypeOK, AddStored, tabVars, workVars, envVars, histVars
<1>3. CallType'
  BY DEF TypeOK, AddStored, CallType, Call, CallPC, NoCall, CallReturns, Rows, tabVars, workVars, envVars, histVars
<1>4. HistType'
  BY DEF TypeOK, AddStored, HistType, tabVars, workVars, envVars, histVars
<1>5. TabType' /\ WorkType' /\ DriveType' /\ EnvType'
  BY DEF TypeOK, AddStored, TabType, WorkType, DriveType, EnvType, tabVars, workVars, envVars, histVars
<1> QED
  BY <1>1, <1>2, <1>3, <1>4, <1>5 DEF TypeOK

\* TimerFires keeps every variable in its type.
LEMMA TimerFiresType ==
    ASSUME TypeOK, AtHead, NEW t \in Tabs, NEW i \in Items, TimerFires(t, i)
    PROVE  TypeOK'
<1>1. QueueType'
  BY ScheduledType DEF TypeOK, TimerFires, QueueType, tabVars, workVars, envVars, histVars
<1>2. StoreType' /\ TabType' /\ WorkType' /\ CallType' /\ DriveType' /\ EnvType' /\ HistType'
  BY DEF TypeOK, TimerFires, StoreType, TabType, WorkType, CallType, DriveType, EnvType, HistType, tabVars, workVars, envVars, histVars
<1> QED
  BY <1>1, <1>2 DEF TypeOK

\* Cancel keeps every variable in its type.
LEMMA CancelType ==
    ASSUME TypeOK, AtHead, NEW t \in Tabs, NEW i \in Items, Cancel(t, i)
    PROVE  TypeOK'
<1>1. CallType'
  BY RowOfType DEF TypeOK, Cancel, CallType, Call, CallPC, tabVars, workVars, envVars, histVars
<1>2. HistType'
  BY SpendType DEF TypeOK, Cancel, HistType, Events, tabVars, workVars, envVars, histVars
<1>3. StoreType' /\ TabType' /\ QueueType' /\ WorkType' /\ DriveType' /\ EnvType'
  BY DEF TypeOK, Cancel, StoreType, TabType, QueueType, WorkType, DriveType, EnvType, tabVars, workVars, envVars, histVars
<1> QED
  BY <1>1, <1>2, <1>3 DEF TypeOK

\* CancelRead keeps every variable in its type.
LEMMA CancelReadType ==
    ASSUME TypeOK, AtHead, NEW t \in Tabs, NEW i \in Items, CancelRead(t, i)
    PROVE  TypeOK'
<1>1. StoreType'
  BY DeleteItemType DEF TypeOK, CancelRead, StoreType, tabVars, workVars, envVars, histVars
<1>2. QueueType'
  BY DEF TypeOK, CancelRead, QueueType, tabVars, workVars, envVars, histVars
<1>3. CallType'
  BY DEF TypeOK, CancelRead, CallType, Call, CallPC, NoCall, CallReturns, Rows, tabVars, workVars, envVars, histVars
<1>4. HistType'
  BY DEF TypeOK, CancelRead, HistType, EnvType, Items, tabVars, workVars, envVars, histVars
<1>5. TabType' /\ WorkType' /\ DriveType' /\ EnvType'
  BY DEF TypeOK, CancelRead, TabType, WorkType, DriveType, EnvType, tabVars, workVars, envVars, histVars
<1> QED
  BY <1>1, <1>2, <1>3, <1>4, <1>5 DEF TypeOK

\* Retry keeps every variable in its type.
LEMMA RetryType ==
    ASSUME TypeOK, AtHead, NEW t \in Tabs, NEW i \in Items, Retry(t, i)
    PROVE  TypeOK'
<1>1. CallType'
  BY RowOfType DEF TypeOK, Retry, CallType, Call, CallPC, tabVars, workVars, envVars, histVars
<1>2. HistType'
  BY SpendType DEF TypeOK, Retry, HistType, Events, tabVars, workVars, envVars, histVars
<1>3. StoreType' /\ TabType' /\ QueueType' /\ WorkType' /\ DriveType' /\ EnvType'
  BY DEF TypeOK, Retry, StoreType, TabType, QueueType, WorkType, DriveType, EnvType, tabVars, workVars, envVars, histVars
<1> QED
  BY <1>1, <1>2, <1>3 DEF TypeOK

\* RetryRead keeps every variable in its type.
LEMMA RetryReadType ==
    ASSUME TypeOK, AtHead, NEW t \in Tabs, NEW i \in Items, RetryRead(t, i)
    PROVE  TypeOK'
<1>1. StoreType'
  BY WriteItemType DEF TypeOK, RetryRead, StoreType, Rows, Status, tabVars, workVars, envVars, histVars
<1>2. CallType'
  <2>1. PutOf(t, i, "queued") \in Rows
    BY PutOfType DEF Rows, Status
  <2>2. CASE call[t][i].row \in {"queued", "failed"}
    <3>1. [pc |-> "retryWrite", row |-> PutOf(t, i, "queued")] \in Call
      BY <2>1 DEF Call, CallPC
    <3>2. call' = [call EXCEPT ![t][i] = [pc |-> "retryWrite", row |-> PutOf(t, i, "queued")]]
      BY <2>2 DEF RetryRead
    <3> QED
      BY <3>1, <3>2 DEF TypeOK, CallType
  <2>3. CASE call[t][i].row \notin {"queued", "failed"}
    <3>1. NoCall \in Call
      BY DEF NoCall, Call, CallPC, Rows
    <3>2. call' = [call EXCEPT ![t][i] = NoCall]
      BY <2>3 DEF RetryRead, CallReturns
    <3> QED
      BY <3>1, <3>2 DEF TypeOK, CallType
  <2> QED
    BY <2>2, <2>3
<1>3. TabType' /\ QueueType' /\ WorkType' /\ DriveType' /\ EnvType' /\ HistType'
  BY DEF TypeOK, RetryRead, TabType, QueueType, WorkType, DriveType, EnvType, HistType, tabVars, workVars, envVars, histVars
<1> QED
  BY <1>1, <1>2, <1>3 DEF TypeOK

\* RetryStored keeps every variable in its type.
LEMMA RetryStoredType ==
    ASSUME TypeOK, AtHead, NEW t \in Tabs, NEW i \in Items, RetryStored(t, i)
    PROVE  TypeOK'
<1>1. StoreType'
  BY PutDoneType DEF TypeOK, RetryStored, CallType, Call, tabVars, workVars, envVars, histVars
<1>2. QueueType'
  BY ScheduledType DEF TypeOK, RetryStored, QueueType, tabVars, workVars, envVars, histVars
<1>3. CallType'
  BY DEF TypeOK, RetryStored, CallType, Call, CallPC, NoCall, CallReturns, Rows, tabVars, workVars, envVars, histVars
<1>4. TabType' /\ WorkType' /\ DriveType' /\ EnvType' /\ HistType'
  BY DEF TypeOK, RetryStored, TabType, WorkType, DriveType, EnvType, HistType, tabVars, workVars, envVars, histVars
<1> QED
  BY <1>1, <1>2, <1>3, <1>4 DEF TypeOK

\* SendStart keeps every variable in its type.
LEMMA SendStartType ==
    ASSUME TypeOK, AtHead, NEW t \in Tabs, NEW i \in Items, SendStart(t, i)
    PROVE  TypeOK'
<1>1. WorkType'
  BY RowOfType DEF TypeOK, SendStart, WorkType, Job, JobPC, tabVars, workVars, envVars, histVars
<1>2. StoreType' /\ TabType' /\ QueueType' /\ CallType' /\ DriveType' /\ EnvType' /\ HistType'
  BY DEF TypeOK, SendStart, StoreType, TabType, QueueType, CallType, DriveType, EnvType, HistType, tabVars, workVars, envVars, histVars
<1> QED
  BY <1>1, <1>2 DEF TypeOK

\* SendRead keeps every variable in its type.
LEMMA SendReadType ==
    ASSUME TypeOK, AtHead, NEW t \in Tabs, NEW i \in Items, SendRead(t, i)
    PROVE  TypeOK'
<1>0. job[t][i] \in Job /\ job[t][i].row \in Rows /\ (job[t][i].pc # "idle" /\ job[t][i].live => Turn(t, i))
  BY DEF TypeOK, WorkType, Job, AtHead
<1>1. StoreType'
  BY WriteItemType DEF TypeOK, SendRead, StoreType, Rows, Status, tabVars, workVars, envVars, histVars
<1>2. WorkType' /\ QueueType'
  BY <1>0, PutOfType, WorkStepType, FinishType DEF TypeOK, SendRead, QueueType, JobPC, Rows, Status, tabVars, workVars, envVars, histVars
<1>3. TabType' /\ CallType' /\ DriveType' /\ EnvType' /\ HistType'
  BY DEF TypeOK, SendRead, TabType, CallType, DriveType, EnvType, HistType, tabVars, workVars, envVars, histVars
<1> QED
  BY <1>1, <1>2, <1>3 DEF TypeOK

\* SendStored keeps every variable in its type.
LEMMA SendStoredType ==
    ASSUME TypeOK, AtHead, NEW t \in Tabs, NEW i \in Items, SendStored(t, i)
    PROVE  TypeOK'
<1>0. job[t][i] \in Job /\ job[t][i].row \in Rows /\ (job[t][i].pc # "idle" /\ job[t][i].live => Turn(t, i))
  BY DEF TypeOK, WorkType, Job, AtHead
<1>1. StoreType'
  BY <1>0, PutDoneType DEF TypeOK, SendStored, tabVars, workVars, envVars, histVars
<1>2. WorkType' /\ QueueType'
  BY <1>0, WorkStepType, FinishType DEF TypeOK, SendStored, QueueType, JobPC, Rows, tabVars, workVars, envVars, histVars
<1>3. TabType' /\ CallType' /\ DriveType' /\ EnvType' /\ HistType'
  BY DEF TypeOK, SendStored, TabType, CallType, DriveType, EnvType, HistType, tabVars, workVars, envVars, histVars
<1> QED
  BY <1>1, <1>2, <1>3 DEF TypeOK

\* SendAnswered keeps every variable in its type.
LEMMA SendAnsweredType ==
    ASSUME TypeOK, AtHead, NEW t \in Tabs, NEW i \in Items, SendAnswered(t, i)
    PROVE  TypeOK'
<1>0. job[t][i] \in Job /\ job[t][i].row \in Rows /\ (job[t][i].pc # "idle" /\ job[t][i].live => Turn(t, i))
  BY DEF TypeOK, WorkType, Job, AtHead
<1>1. StoreType'
  BY DeleteItemType DEF TypeOK, SendAnswered, tabVars, workVars, envVars, histVars
<1>2. WorkType' /\ QueueType'
  BY <1>0, WorkStepType DEF TypeOK, SendAnswered, QueueType, JobPC, Rows, tabVars, workVars, envVars, histVars
<1>3. TabType' /\ CallType' /\ DriveType' /\ EnvType' /\ HistType'
  BY DEF TypeOK, SendAnswered, TabType, CallType, DriveType, EnvType, HistType, tabVars, workVars, envVars, histVars
<1> QED
  BY <1>1, <1>2, <1>3 DEF TypeOK

\* SendDeleted keeps every variable in its type.
LEMMA SendDeletedType ==
    ASSUME TypeOK, AtHead, NEW t \in Tabs, NEW i \in Items, SendDeleted(t, i)
    PROVE  TypeOK'
<1>0. job[t][i] \in Job /\ job[t][i].row \in Rows /\ (job[t][i].pc # "idle" /\ job[t][i].live => Turn(t, i))
  BY DEF TypeOK, WorkType, Job, AtHead
<1>1. WorkType' /\ QueueType'
  BY <1>0, FinishType DEF TypeOK, SendDeleted, QueueType, tabVars, workVars, envVars, histVars
<1>2. StoreType' /\ TabType' /\ CallType' /\ DriveType' /\ EnvType' /\ HistType'
  BY DEF TypeOK, SendDeleted, StoreType, TabType, CallType, DriveType, EnvType, HistType, tabVars, workVars, envVars, histVars
<1> QED
  BY <1>1, <1>2 DEF TypeOK

\* SendFailed keeps every variable in its type.
LEMMA SendFailedType ==
    ASSUME TypeOK, AtHead, NEW t \in Tabs, NEW i \in Items, SendFailed(t, i)
    PROVE  TypeOK'
<1>0. job[t][i] \in Job /\ job[t][i].row \in Rows /\ (job[t][i].pc # "idle" /\ job[t][i].live => Turn(t, i))
  BY DEF TypeOK, WorkType, Job, AtHead
<1>1. WorkType' /\ QueueType'
  BY <1>0, RowOfType, WorkStepType DEF TypeOK, SendFailed, QueueType, JobPC, tabVars, workVars, envVars, histVars
<1>2. EnvType'
  BY DEF TypeOK, SendFailed, EnvType, tabVars, workVars, envVars, histVars
<1>3. HistType'
  BY SpendType DEF TypeOK, SendFailed, HistType, Events, tabVars, workVars, envVars, histVars
<1>4. StoreType' /\ TabType' /\ CallType' /\ DriveType'
  BY DEF TypeOK, SendFailed, StoreType, TabType, CallType, DriveType, tabVars, workVars, envVars, histVars
<1> QED
  BY <1>1, <1>2, <1>3, <1>4 DEF TypeOK

\* SendFailedRead keeps every variable in its type.
LEMMA SendFailedReadType ==
    ASSUME TypeOK, AtHead, NEW t \in Tabs, NEW i \in Items, SendFailedRead(t, i)
    PROVE  TypeOK'
<1>0. job[t][i] \in Job /\ job[t][i].row \in Rows /\ (job[t][i].pc # "idle" /\ job[t][i].live => Turn(t, i))
  BY DEF TypeOK, WorkType, Job, AtHead
<1>1. StoreType'
  BY WriteItemType DEF TypeOK, SendFailedRead, StoreType, Rows, Status, tabVars, workVars, envVars, histVars
<1>2. WorkType' /\ QueueType'
  BY <1>0, PutOfType, WorkStepType, FinishType DEF TypeOK, SendFailedRead, QueueType, JobPC, Rows, Status, tabVars, workVars, envVars, histVars
<1>3. TabType' /\ CallType' /\ DriveType' /\ EnvType' /\ HistType'
  BY DEF TypeOK, SendFailedRead, TabType, CallType, DriveType, EnvType, HistType, tabVars, workVars, envVars, histVars
<1> QED
  BY <1>1, <1>2, <1>3 DEF TypeOK

\* SendFailedStored keeps every variable in its type.
LEMMA SendFailedStoredType ==
    ASSUME TypeOK, AtHead, NEW t \in Tabs, NEW i \in Items, SendFailedStored(t, i)
    PROVE  TypeOK'
<1>0. job[t][i] \in Job /\ job[t][i].row \in Rows /\ (job[t][i].pc # "idle" /\ job[t][i].live => Turn(t, i))
  BY DEF TypeOK, WorkType, Job, AtHead
<1>1. StoreType'
  BY <1>0, PutDoneType DEF TypeOK, SendFailedStored, tabVars, workVars, envVars, histVars
<1>2. WorkType' /\ QueueType'
  BY <1>0, FinishType DEF TypeOK, SendFailedStored, QueueType, tabVars, workVars, envVars, histVars
<1>3. TabType' /\ CallType' /\ DriveType' /\ EnvType' /\ HistType'
  BY DEF TypeOK, SendFailedStored, TabType, CallType, DriveType, EnvType, HistType, tabVars, workVars, envVars, histVars
<1> QED
  BY <1>1, <1>2, <1>3 DEF TypeOK

\* SendStoreFails keeps every variable in its type.
LEMMA SendStoreFailsType ==
    ASSUME TypeOK, AtHead, NEW t \in Tabs, NEW i \in Items, SendStoreFails(t, i)
    PROVE  TypeOK'
<1>0. job[t][i] \in Job /\ job[t][i].row \in Rows /\ (job[t][i].pc # "idle" /\ job[t][i].live => Turn(t, i))
  BY DEF TypeOK, WorkType, Job, AtHead
<1>1. WorkType' /\ QueueType'
  BY <1>0, FinishType DEF TypeOK, SendStoreFails, QueueType, tabVars, workVars, envVars, histVars
<1>2. HistType'
  BY SpendType DEF TypeOK, SendStoreFails, HistType, Events, tabVars, workVars, envVars, histVars
<1>3. StoreType' /\ TabType' /\ CallType' /\ DriveType' /\ EnvType'
  BY DEF TypeOK, SendStoreFails, StoreType, TabType, CallType, DriveType, EnvType, tabVars, workVars, envVars, histVars
<1> QED
  BY <1>1, <1>2, <1>3 DEF TypeOK

\* SendDeleteFails keeps every variable in its type.
LEMMA SendDeleteFailsType ==
    ASSUME TypeOK, AtHead, NEW t \in Tabs, NEW i \in Items, SendDeleteFails(t, i)
    PROVE  TypeOK'
<1>0. job[t][i] \in Job /\ job[t][i].row \in Rows /\ (job[t][i].pc # "idle" /\ job[t][i].live => Turn(t, i))
  BY DEF TypeOK, WorkType, Job, AtHead
<1>1. StoreType'
  BY DEF TypeOK, SendDeleteFails, StoreType, Rows, tabVars, workVars, envVars, histVars
<1>2. WorkType' /\ QueueType'
  BY <1>0, WorkStepType DEF TypeOK, SendDeleteFails, QueueType, StoreType, JobPC, tabVars, workVars, envVars, histVars
<1>3. HistType'
  BY SpendType DEF TypeOK, SendDeleteFails, HistType, Events, tabVars, workVars, envVars, histVars
<1>4. TabType' /\ CallType' /\ DriveType' /\ EnvType'
  BY DEF TypeOK, SendDeleteFails, TabType, CallType, DriveType, EnvType, tabVars, workVars, envVars, histVars
<1> QED
  BY <1>1, <1>2, <1>3, <1>4 DEF TypeOK

\* CallStoreFails keeps every variable in its type.
LEMMA CallStoreFailsType ==
    ASSUME TypeOK, AtHead, NEW t \in Tabs, NEW i \in Items, CallStoreFails(t, i)
    PROVE  TypeOK'
<1>1. StoreType'
  <2>1. disk' = disk /\ ram' \in {ram, [ram EXCEPT ![t][i] = None]}
    BY DEF CallStoreFails
  <2> QED
    BY <2>1 DEF TypeOK, StoreType, Rows
<1>2. QueueType'
  BY DEF TypeOK, CallStoreFails, QueueType, tabVars, workVars, envVars, histVars
<1>3. CallType'
  BY DEF TypeOK, CallStoreFails, CallType, Call, CallPC, NoCall, CallReturns, Rows, tabVars, workVars, envVars, histVars
<1>4. HistType'
  BY SpendType DEF TypeOK, CallStoreFails, HistType, Events, tabVars, workVars, envVars, histVars
<1>5. TabType' /\ WorkType' /\ DriveType' /\ EnvType'
  BY DEF TypeOK, CallStoreFails, TabType, WorkType, DriveType, EnvType, tabVars, workVars, envVars, histVars
<1> QED
  BY <1>1, <1>2, <1>3, <1>4, <1>5 DEF TypeOK

\* StartSync keeps every variable in its type.
LEMMA StartSyncType ==
    ASSUME TypeOK, AtHead, NEW t \in Tabs, NEW l \in Lists, StartSync(t, l)
    PROVE  TypeOK'
<1>1. TabType'
  BY DEF TypeOK, StartSync, TabType, StartDrive
<1>2. DriveType'
  BY ScanType DEF TypeOK, StartSync, StartDrive, DriveType, Kinds
<1>3. StoreType' /\ QueueType' /\ WorkType' /\ CallType' /\ EnvType' /\ HistType'
  BY DEF TypeOK, StartSync, StartDrive, StoreType, QueueType, WorkType, CallType, EnvType, HistType, workVars, envVars, histVars
<1> QED
  BY <1>1, <1>2, <1>3 DEF TypeOK

\* Resume keeps every variable in its type.
LEMMA ResumeType ==
    ASSUME TypeOK, AtHead, NEW t \in Tabs, NEW l \in Lists, Resume(t, l)
    PROVE  TypeOK'
<1>1. TabType'
  BY DEF TypeOK, Resume, TabType, StartDrive, tabVars
<1>2. DriveType'
  <2>1. NoDrive \in Drive /\ Scan("resume", Chats, FALSE) \in Drive
    BY ScanType DEF TypeOK, NoDrive, NoRows, Drive, DrivePC, Kinds, Rows
  <2>2. \E e \in Drive : drive' = [drive EXCEPT ![t][l] = e]
    BY <2>1 DEF Resume, StartDrive
  <2> QED
    BY <2>2 DEF TypeOK, DriveType
<1>3. StoreType' /\ QueueType' /\ WorkType' /\ CallType' /\ EnvType' /\ HistType'
  BY DEF TypeOK, Resume, StartDrive, StoreType, QueueType, WorkType, CallType, EnvType, HistType, tabVars, workVars, envVars, histVars
<1> QED
  BY <1>1, <1>2, <1>3 DEF TypeOK

\* Online keeps every variable in its type.
LEMMA OnlineType ==
    ASSUME TypeOK, AtHead, NEW t \in Tabs, NEW l \in Lists, Online(t, l)
    PROVE  TypeOK'
<1>1. DriveType'
  BY ScanType DEF TypeOK, Online, StartDrive, DriveType, Kinds
<1>2. StoreType' /\ TabType' /\ QueueType' /\ WorkType' /\ CallType' /\ EnvType' /\ HistType'
  BY DEF TypeOK, Online, StartDrive, StoreType, TabType, QueueType, WorkType, CallType, EnvType, HistType, tabVars, workVars, envVars, histVars
<1> QED
  BY <1>1, <1>2 DEF TypeOK

\* Flush keeps every variable in its type.
LEMMA FlushType ==
    ASSUME TypeOK, AtHead, NEW t \in Tabs, NEW l \in Lists, Flush(t, l)
    PROVE  TypeOK'
<1>1. DriveType'
  BY ScanType DEF TypeOK, Flush, StartDrive, DriveType, Kinds
<1>2. HistType'
  BY SpendType DEF TypeOK, Flush, HistType, Events, StartDrive, tabVars, workVars, envVars, histVars
<1>3. StoreType' /\ TabType' /\ QueueType' /\ WorkType' /\ CallType' /\ EnvType'
  BY DEF TypeOK, Flush, StartDrive, StoreType, TabType, QueueType, WorkType, CallType, EnvType, tabVars, workVars, envVars, histVars
<1> QED
  BY <1>1, <1>2, <1>3 DEF TypeOK

\* DriveEvicts keeps every variable in its type.
LEMMA DriveEvictsType ==
    ASSUME TypeOK, AtHead, NEW t \in Tabs, NEW l \in Lists, DriveEvicts(t, l)
    PROVE  TypeOK'
<1>0. drive[t][l] \in Drive /\ EvictLoop(t, l, drive[t][l])
  BY DEF TypeOK, DriveType, DriveEvicts
<1>1. StoreType' /\ DriveType' /\ persist' \in [Tabs -> [Chats -> BOOLEAN]] /\ used' \in [Events -> Nat]
  BY <1>0, EvictLoopType DEF TypeOK
<1>2. TabType' /\ HistType'
  BY <1>1 DEF TypeOK, DriveEvicts, TabType, HistType, histVars
<1>3. QueueType' /\ WorkType' /\ CallType' /\ EnvType'
  BY DEF TypeOK, DriveEvicts, QueueType, WorkType, CallType, EnvType, tabVars, workVars, envVars, histVars
<1> QED
  BY <1>1, <1>2, <1>3 DEF TypeOK

\* DriveStored keeps every variable in its type.
LEMMA DriveStoredType ==
    ASSUME TypeOK, AtHead, NEW t \in Tabs, NEW l \in Lists, DriveStored(t, l)
    PROVE  TypeOK'
<1>0. drive[t][l] \in Drive
  BY DEF TypeOK, DriveType
<1>1. StoreType'
  BY <1>0 DEF TypeOK, DriveStored, StoreType, Drive, tabVars, workVars, envVars, histVars
<1>2. DriveType'
  <2>1. [drive[t][l] EXCEPT !.pc = "restored"] \in Drive
    BY <1>0 DEF Drive, DrivePC, Restoring
  <2>2. drive' = [drive EXCEPT ![t][l] = [drive[t][l] EXCEPT !.pc = "restored"]]
    BY DEF DriveStored
  <2> QED
    BY <2>1, <2>2 DEF TypeOK, DriveType
<1>3. TabType' /\ QueueType' /\ WorkType' /\ CallType' /\ EnvType' /\ HistType'
  BY DEF TypeOK, DriveStored, TabType, QueueType, WorkType, CallType, EnvType, HistType, tabVars, workVars, envVars, histVars
<1> QED
  BY <1>1, <1>2, <1>3 DEF TypeOK

\* DriveStoreFails keeps every variable in its type.
LEMMA DriveStoreFailsType ==
    ASSUME TypeOK, AtHead, NEW t \in Tabs, NEW l \in Lists, DriveStoreFails(t, l)
    PROVE  TypeOK'
<1>0. drive[t][l] \in Drive
  BY DEF TypeOK, DriveType
<1>1. DriveType'
  <2>1. Scan("rollback", drive[t][l].chats, ~drive[t][l].keep) \in Drive
    BY <1>0, ScanType DEF TypeOK, Drive, Kinds, Transitions
  <2>2. NoDrive \in Drive
    BY DEF NoDrive, NoRows, Drive, DrivePC, Kinds, Rows
  <2> QED
    BY <2>1, <2>2 DEF TypeOK, DriveStoreFails, DriveType
<1>2. HistType'
  BY SpendType DEF TypeOK, DriveStoreFails, HistType, Events, tabVars, workVars, envVars, histVars
<1>4. TabType'
  BY DEF TypeOK, DriveStoreFails, TabType
<1>3. StoreType' /\ QueueType' /\ WorkType' /\ CallType' /\ EnvType'
  BY DEF TypeOK, DriveStoreFails, StoreType, TabType, QueueType, WorkType, CallType, EnvType, tabVars, workVars, envVars, histVars
<1> QED
  BY <1>1, <1>2, <1>3, <1>4 DEF TypeOK

\* Pause keeps every variable in its type.
LEMMA PauseType ==
    ASSUME TypeOK, AtHead, NEW t \in Tabs, Pause(t)
    PROVE  TypeOK'
<1>1. StoreType' /\ QueueType' /\ EnvType'
  BY StopType DEF TypeOK, Pause, tabVars, workVars, envVars, histVars
<1>2. TabType'
  BY StopType DEF TypeOK, Pause, TabType, tabVars, workVars, envVars, histVars
<1>3. WorkType'
  <2>1. NoJob \in Job
    BY DEF NoJob, Job, JobPC, Rows
  <2>2. ASSUME NEW i \in Items PROVE [job[t][i] EXCEPT !.live = FALSE] \in Job
    <3>1. job[t][i] \in Job
      BY DEF TypeOK, WorkType
    <3> QED
      BY <3>1 DEF Job
  <2>3. job' \in [Tabs -> [Items -> Job]]
    BY <2>1, <2>2 DEF TypeOK, Pause, WorkType
  <2> QED
    BY <2>3 DEF TypeOK, Pause, WorkType
<1>4. HistType'
  BY StopType, SpendType DEF TypeOK, Pause, HistType, Events, tabVars, workVars, envVars, histVars
<1>5. CallType' /\ DriveType'
  BY DEF TypeOK, Pause, CallType, DriveType, tabVars, workVars, envVars, histVars
<1> QED
  BY <1>1, <1>2, <1>3, <1>4, <1>5 DEF TypeOK

\* LockAgain keeps every variable in its type.
LEMMA LockAgainType ==
    ASSUME TypeOK, AtHead, NEW t \in Tabs, LockAgain(t)
    PROVE  TypeOK'
<1>1. TabType'
  BY DEF TypeOK, LockAgain, TabType
<1>2. HistType'
  BY SpendType DEF TypeOK, LockAgain, HistType, Events, histVars
<1>3. StoreType' /\ QueueType' /\ WorkType' /\ CallType' /\ DriveType' /\ EnvType'
  BY DEF TypeOK, LockAgain, StoreType, QueueType, WorkType, CallType, DriveType, EnvType, workVars, envVars
<1> QED
  BY <1>1, <1>2, <1>3 DEF TypeOK

\* Crash keeps every variable in its type.
LEMMA CrashType ==
    ASSUME TypeOK, AtHead, NEW t \in Tabs, Crash(t)
    PROVE  TypeOK'
<1>1. StoreType' /\ QueueType' /\ EnvType'
  BY StopType DEF TypeOK, Crash, tabVars, workVars, envVars, histVars
<1>2. TabType'
  BY StopType DEF TypeOK, Crash, TabType, tabVars, workVars, envVars, histVars
<1>3. WorkType'
  BY DEF TypeOK, Crash, WorkType, Job, NoJob, JobPC, Rows, tabVars, workVars, envVars, histVars
<1>4. CallType'
  BY DEF TypeOK, Crash, CallType, Call, CallPC, NoCall, CallReturns, Rows, tabVars, workVars, envVars, histVars
<1>5. DriveType'
  BY DEF TypeOK, Crash, DriveType, Drive, NoDrive, NoRows, DrivePC, Kinds, Rows, tabVars, workVars, envVars, histVars
<1>6. HistType'
  BY StopType, SpendType DEF TypeOK, Crash, HistType, Events, tabVars, workVars, envVars, histVars
<1> QED
  BY <1>1, <1>2, <1>3, <1>4, <1>5, <1>6 DEF TypeOK

\* Open keeps every variable in its type.
LEMMA OpenType ==
    ASSUME TypeOK, AtHead, NEW t \in Tabs, Open(t)
    PROVE  TypeOK'
<1>1. TabType'
  BY DEF TypeOK, Open, TabType, tabVars, workVars, envVars, histVars
<1>2. StoreType' /\ QueueType' /\ WorkType' /\ CallType' /\ DriveType' /\ EnvType' /\ HistType'
  BY DEF TypeOK, Open, StoreType, QueueType, WorkType, CallType, DriveType, EnvType, HistType, tabVars, workVars, envVars, histVars
<1> QED
  BY <1>1, <1>2 DEF TypeOK

\* DriveRestored keeps every variable in its type.
LEMMA DriveRestoredType ==
    ASSUME TypeOK, NEW t \in Tabs, NEW l \in Lists, DriveRestored(t, l)
    PROVE  TypeOK'
<1> DEFINE d == drive[t][l]
           Without(rows) == [i \in Items |-> IF i \in d.cur THEN None ELSE rows[i]]
<1>1. d \in Drive /\ d.left \in [Items -> Rows] /\ ram[t] \in [Items -> Rows]
  BY DEF TypeOK, DriveType, StoreType, Drive
<1>2. Without(d.left) \in [Items -> Rows] /\ Without(ram[t]) \in [Items -> Rows]
  BY <1>1 DEF Rows
<1>3. [d EXCEPT !.left = Without(@)] \in Drive
  BY <1>1, <1>2 DEF Drive
<1>4. RestoreLoop(t, l, [d EXCEPT !.left = Without(@)], Without(ram[t]))
  BY DEF DriveRestored
<1> HIDE DEF d, Without
<1>5. StoreType' /\ DriveType' /\ TabType' /\ HistType'
  BY <1>2, <1>3, <1>4, RestoreLoopType DEF TypeOK, DriveRestored, StoreType, TabType, HistType, histVars
<1>6. QueueType' /\ WorkType' /\ CallType' /\ EnvType'
  BY DEF TypeOK, DriveRestored, QueueType, WorkType, CallType, EnvType,
         workVars, envVars, histVars
<1> QED
  BY <1>5, <1>6 DEF TypeOK

\* The listings of a set of items are sequences of items.
LEMMA SortedType ==
    ASSUME NEW S \in SUBSET Items, NEW q \in Sorted(S) PROVE q \in Seq(Items)
<1>1. IsFiniteSet(Items)
  BY FiniteAssumption, FS_Union DEF Items
<1>2. Cardinality(S) \in Nat
  BY <1>1, FS_Subset, FS_CardinalityType
<1>3. q \in [1..Cardinality(S) -> Items]
  BY DEF Sorted
<1> QED
  BY <1>2, <1>3

\* What list() appends to the chains of a tab.
LEMMA DriveListedChain ==
    ASSUME QueueType, NEW t \in Tabs, NEW l \in Lists, DriveListed(t, l)
    PROVE  \/ chain' = chain
           \/ /\ ~paused[t]
              /\ \E q \in [Chats -> Seq(Items)] :
                    chain' = [chain EXCEPT ![t] = [c \in Chats |-> chain[t][c] \o q[c]]]
<1> DEFINE row(i) == IF ram[t][i] # None THEN ram[t][i] ELSE drive[t][l].left[i]
           send(c) == {i \in Items : Redriven(drive[t][l].kind, i, row(i)) /\ ChatOf[i] = c}
<1>1. CASE paused[t]
  BY <1>1 DEF DriveListed
<1>2. CASE ~paused[t]
  <2>1. PICK q \in [Chats -> UNION {Sorted(send(c)) : c \in Chats}] :
            /\ \A c \in Chats : q[c] \in Sorted(send(c))
            /\ chain' = [chain EXCEPT ![t] = [c \in Chats |-> chain[t][c] \o q[c]]]
    BY <1>2 DEF DriveListed
  <2>2. ASSUME NEW c \in Chats PROVE q[c] \in Seq(Items)
    BY <2>1, SortedType
  <2>3. q \in [Chats -> Seq(Items)]
    BY <2>2
  <2> QED
    BY <1>2, <2>1, <2>3
<1> QED
  BY <1>1, <1>2

\* DriveListed keeps every variable in its type.
LEMMA DriveListedType ==
    ASSUME TypeOK, NEW t \in Tabs, NEW l \in Lists, DriveListed(t, l)
    PROVE  TypeOK'
<1>1. chain' \in [Tabs -> [Chats -> Seq(Items)]]
  <2>1. CASE chain' = chain
    BY <2>1 DEF TypeOK, QueueType
  <2>2. ASSUME NEW q \in [Chats -> Seq(Items)],
               chain' = [chain EXCEPT ![t] = [c \in Chats |-> chain[t][c] \o q[c]]]
        PROVE  chain' \in [Tabs -> [Chats -> Seq(Items)]]
    <3>1. ASSUME NEW c \in Chats PROVE chain[t][c] \o q[c] \in Seq(Items)
      BY DEF TypeOK, QueueType
    <3> QED
      BY <2>2, <3>1 DEF TypeOK, QueueType
  <2> QED
    BY <2>1, <2>2, DriveListedChain DEF TypeOK
<1>2. timer' \in [Tabs -> SUBSET Items]
  BY DEF TypeOK, QueueType, DriveListed
<1>3. DriveType'
  <2>1. NoDrive \in Drive
    BY DEF NoDrive, NoRows, Drive, DrivePC, Kinds, Rows
  <2> QED
    BY <2>1 DEF TypeOK, DriveType, DriveListed
<1>4. StoreType' /\ TabType' /\ WorkType' /\ CallType' /\ EnvType' /\ HistType'
  BY DEF TypeOK, DriveListed, StoreType, TabType, WorkType, CallType, EnvType, HistType,
         tabVars, workVars, envVars, histVars
<1> QED
  BY <1>1, <1>2, <1>3, <1>4 DEF TypeOK, QueueType

\* ServerReceives keeps every variable in its type.
LEMMA ServerReceivesType ==
    ASSUME TypeOK, NEW i \in Items, ServerReceives(i) PROVE TypeOK'
<1>1. EnvType'
  BY DEF TypeOK, EnvType, ServerReceives
<1>2. StoreType' /\ TabType' /\ QueueType' /\ WorkType' /\ CallType' /\ DriveType' /\ HistType'
  BY DEF TypeOK, ServerReceives, StoreType, TabType, QueueType, WorkType, CallType, DriveType,
         HistType, tabVars, workVars, histVars
<1> QED
  BY <1>1, <1>2 DEF TypeOK

\* HoldElapses keeps every variable in its type.
LEMMA HoldElapsesType ==
    ASSUME TypeOK, NEW i \in Items, HoldElapses(i) PROVE TypeOK'
<1>1. EnvType'
  BY DEF TypeOK, EnvType, HoldElapses
<1>2. StoreType' /\ TabType' /\ QueueType' /\ WorkType' /\ CallType' /\ DriveType' /\ HistType'
  BY DEF TypeOK, HoldElapses, StoreType, TabType, QueueType, WorkType, CallType, DriveType,
         HistType, tabVars, workVars, histVars
<1> QED
  BY <1>1, <1>2 DEF TypeOK

\* SetChatPolicy keeps every variable in its type.
LEMMA SetChatPolicyType ==
    ASSUME TypeOK, NEW t \in Tabs, NEW l \in Lists, NEW c \in Chats, SetChatPolicy(t, l, c) PROVE TypeOK'
<1>1. DriveType'
  <2>1. persist[t][c] \in BOOLEAN
    BY DEF TypeOK, TabType
  <2>2. Scan("policy", {c}, ~persist[t][c]) \in Drive
    BY <2>1, ScanType DEF TypeOK, Kinds, Transitions
  <2> QED
    BY <2>2 DEF TypeOK, DriveType, SetChatPolicy, StartDrive
<1>2. HistType'
  BY SpendType DEF TypeOK, SetChatPolicy, StartDrive, HistType, histVars, Events
<1>3. StoreType' /\ TabType' /\ QueueType' /\ WorkType' /\ CallType' /\ EnvType'
  BY DEF TypeOK, SetChatPolicy, StartDrive, StoreType, TabType, QueueType, WorkType, CallType,
         EnvType, workVars, envVars
<1> QED
  BY <1>1, <1>2, <1>3 DEF TypeOK

\* Every variable starts in its type.
LEMMA InitType == Init => TypeOK
<1> SUFFICES ASSUME Init PROVE TypeOK
  OBVIOUS
<1>1. NoRows \in [Items -> Rows] /\ NoJob \in Job /\ NoCall \in Call
  BY DEF NoRows, NoJob, NoCall, Rows, Job, JobPC, Call, CallPC
<1>2. NoDrive \in Drive
  BY <1>1 DEF NoDrive, Drive, DrivePC, Kinds, Rows
<1>3. StoreType /\ TabType /\ QueueType /\ WorkType /\ CallType /\ DriveType
  BY <1>1, <1>2 DEF Init, StoreType, TabType, QueueType, WorkType, CallType, DriveType
<1>4. EnvType /\ HistType
  BY DEF Init, EnvType, HistType
<1> QED
  BY <1>3, <1>4 DEF TypeOK

-----------------------------------------------------------------------------
(* The claim: which sends are running, under which lease, in which place.   *)

Claim == LeaseHeld /\ AtHead /\ CurrentIsLive

\* A chain only grows at its end: its first send stays the first.
HeadsKept ==
    \A t \in Tabs, c \in Chats :
        chain[t][c] # <<>> => chain'[t][c] # <<>> /\ Head(chain'[t][c]) = Head(chain[t][c])

\* A step that only lengthens chains disturbs no claim.
LEMMA HeadsKeptClaim ==
    ASSUME Claim, HeadsKept, UNCHANGED <<workVars, up, paused>>
    PROVE  Claim'
BY ChatAssumption DEF Claim, LeaseHeld, AtHead, CurrentIsLive, HeadsKept, Turn, Usable, workVars

\* Nor does one that leaves the chains alone.
LEMMA SameChainClaim ==
    ASSUME Claim, UNCHANGED <<workVars, up, paused, chain>>
    PROVE  Claim'
BY HeadsKeptClaim DEF HeadsKept

\* The heads of the chains stay what they are.
LEMMA ScheduledHeads ==
    ASSUME QueueType, NEW t \in Tabs, NEW i \in Items, chain' \in {chain, Scheduled(t, i)}
    PROVE  HeadsKept
<1>1. ASSUME NEW s \in Seq(Items), s # <<>>
      PROVE  Append(s, i) # <<>> /\ Head(Append(s, i)) = Head(s)
  BY <1>1
<1>2. CASE chain' = chain
  BY <1>2 DEF HeadsKept
<1>3. CASE chain' = [chain EXCEPT ![t][ChatOf[i]] = Append(@, i)]
  BY <1>1, <1>3, ChatAssumption DEF HeadsKept, QueueType
<1> QED
  BY <1>2, <1>3 DEF Scheduled

\* The heads of the chains stay what they are.
LEMMA DriveListedHeads ==
    ASSUME QueueType, NEW t \in Tabs, NEW l \in Lists, DriveListed(t, l)
    PROVE  HeadsKept
<1>1. ASSUME NEW s \in Seq(Items), NEW z \in Seq(Items), s # <<>>
      PROVE  s \o z # <<>> /\ Head(s \o z) = Head(s)
  BY <1>1
<1>2. CASE chain' = chain
  BY <1>2 DEF HeadsKept
<1>3. ASSUME NEW q \in [Chats -> Seq(Items)],
             chain' = [chain EXCEPT ![t] = [c \in Chats |-> chain[t][c] \o q[c]]]
      PROVE  HeadsKept
  <2>1. ASSUME NEW u \in Tabs, NEW c \in Chats, chain[u][c] # <<>>
        PROVE  chain'[u][c] # <<>> /\ Head(chain'[u][c]) = Head(chain[u][c])
    BY <1>1, <1>3, <2>1 DEF QueueType
  <2> QED
    BY <2>1 DEF HeadsKept
<1> QED
  BY <1>2, <1>3, DriveListedChain

\* An intermediate step of sendClaimed() keeps LeaseHeld, AtHead and CurrentIsLive.
LEMMA WorkClaim ==
    ASSUME WorkType, Claim, UNCHANGED <<up, paused>>,
           NEW t \in Tabs, NEW i \in Items, NEW pc, NEW row, Work(t, i, pc, row),
           job[t][i].pc # "idle", pc = "request" => job[t][i].live
    PROVE  Claim'
<1>1. job[t][i] \in Job
  BY DEF WorkType
<1>2. /\ job'[t][i].pc = pc /\ job'[t][i].live = job[t][i].live
      /\ \A u \in Tabs, j \in Items : u # t \/ j # i => job'[u][j] = job[u][j]
  BY <1>1 DEF Work, WorkType, Job
<1>3. LeaseHeld'
  BY <1>2 DEF Claim, LeaseHeld, Work
<1>4. AtHead'
  BY <1>2 DEF Claim, AtHead, Turn, Work
<1>5. CurrentIsLive'
  BY <1>2 DEF Claim, CurrentIsLive, Usable
<1> QED
  BY <1>3, <1>4, <1>5 DEF Claim

\* The end of a sendClaimed() keeps LeaseHeld, AtHead and CurrentIsLive.
LEMMA FinishClaim ==
    ASSUME WorkType, QueueType, Claim, UNCHANGED <<up, paused>>,
           NEW t \in Tabs, NEW i \in Items, Finish(t, i), job[t][i].pc # "idle"
    PROVE  Claim'
<1>1. /\ job'[t][i] = NoJob
      /\ \A u \in Tabs, j \in Items : u # t \/ j # i => job'[u][j] = job[u][j]
  BY DEF Finish, WorkType
<1>2. ASSUME NEW j \in Items, j # i PROVE lease'[j] = lease[j]
  BY <1>2 DEF Finish, WorkType
<1>3. LeaseHeld'
  <2> SUFFICES ASSUME NEW u \in Tabs, NEW j \in Items, job'[u][j].pc # "idle"
               PROVE  lease'[j] = u
    BY DEF LeaseHeld
  <2>1. (u # t \/ j # i) /\ lease[j] = u
    BY <1>1 DEF NoJob, Claim, LeaseHeld
  <2>2. j # i
    BY <2>1 DEF Claim, LeaseHeld
  <2> QED
    BY <1>2, <2>1, <2>2
<1>4. AtHead'
  <2> SUFFICES ASSUME NEW u \in Tabs, NEW j \in Items, job'[u][j].pc # "idle", job'[u][j].live
               PROVE  Turn(u, j)'
    BY DEF AtHead
  <2>1. (u # t \/ j # i) /\ Turn(u, j)
    BY <1>1 DEF NoJob, Claim, AtHead
  <2>2. CASE ~job[t][i].live
    BY <2>1, <2>2 DEF Finish, Turn
  <2>3. CASE job[t][i].live
    <3>1. u # t \/ ChatOf[j] # ChatOf[i]
      BY <2>1, <2>3 DEF Claim, AtHead, Turn
    <3>2. chain'[u][ChatOf[j]] = chain[u][ChatOf[j]]
      BY <2>3, <3>1, ChatAssumption DEF Finish, QueueType
    <3> QED
      BY <2>1, <3>2 DEF Turn
  <2> QED
    BY <2>2, <2>3
<1>5. CurrentIsLive'
  BY <1>1 DEF Claim, CurrentIsLive, Usable, NoJob
<1> QED
  BY <1>3, <1>4, <1>5 DEF Claim

\* SendStart keeps LeaseHeld, AtHead and CurrentIsLive.
LEMMA SendStartClaim ==
    ASSUME TypeOK, Claim, NEW t \in Tabs, NEW i \in Items, SendStart(t, i)
    PROVE  Claim'
<1>1. /\ job'[t][i].pc = "read"
      /\ \A u \in Tabs, j \in Items : u # t \/ j # i => job'[u][j] = job[u][j]
  BY DEF TypeOK, WorkType, SendStart
<1>2. lease' = [lease EXCEPT ![i] = t] /\ lease[i] = Free
  BY DEF SendStart, LeaseFree
<1>3. LeaseHeld'
  BY <1>1, <1>2, FreeAssumption DEF TypeOK, WorkType, Claim, LeaseHeld
<1>4. AtHead'
  BY <1>1 DEF Claim, AtHead, SendStart, Turn
<1>5. CurrentIsLive'
  BY <1>1 DEF Claim, CurrentIsLive, SendStart, Usable, tabVars
<1> QED
  BY <1>3, <1>4, <1>5 DEF Claim

\* Pause keeps LeaseHeld, AtHead and CurrentIsLive.
LEMMA PauseClaim ==
    ASSUME TypeOK, Claim, NEW t \in Tabs, Pause(t)
    PROVE  Claim'
<1>1. /\ \A u \in Tabs, j \in Items : u # t => job'[u][j] = job[u][j]
      /\ \A j \in Items : j \in Aborted(t) => job'[t][j] = NoJob
      /\ \A j \in Items : j \notin Aborted(t) => job'[t][j] = [job[t][j] EXCEPT !.live = FALSE]
  BY DEF TypeOK, WorkType, Pause
<1>2. \A j \in Items : /\ job'[t][j].live = FALSE
                       /\ job'[t][j].pc # "request"
                       /\ job'[t][j].pc # "idle" => job[t][j].pc # "idle" /\ j \notin Aborted(t)
  <2> TAKE j \in Items
  <2>1. job[t][j] \in Job
    BY DEF TypeOK, WorkType
  <2>2. CASE j \in Aborted(t)
    BY <1>1, <2>2 DEF NoJob
  <2>3. CASE j \notin Aborted(t)
    BY <1>1, <2>1, <2>3 DEF Job, Aborted
  <2> QED
    BY <2>2, <2>3
<1>3. LeaseHeld'
  <2> SUFFICES ASSUME NEW u \in Tabs, NEW j \in Items, job'[u][j].pc # "idle"
               PROVE  lease'[j] = u
    BY DEF LeaseHeld
  <2>1. lease[j] = u
    BY <1>1, <1>2 DEF Claim, LeaseHeld
  <2>2. j \notin Aborted(t)
    BY <1>1, <1>2, <2>1 DEF Aborted, Claim, LeaseHeld
  <2> QED
    BY <2>1, <2>2 DEF Pause
<1>4. AtHead'
  <2> SUFFICES ASSUME NEW u \in Tabs, NEW j \in Items, job'[u][j].pc # "idle", job'[u][j].live
               PROVE  Turn(u, j)'
    BY DEF AtHead
  <2>1. u # t /\ Turn(u, j)
    BY <1>1, <1>2 DEF Claim, AtHead
  <2> QED
    BY <2>1 DEF Pause, Stop, Turn, TypeOK, QueueType
<1>5. CurrentIsLive'
  BY <1>1, <1>2 DEF Claim, CurrentIsLive, Usable, Pause, Stop, TypeOK, TabType
<1> QED
  BY <1>3, <1>4, <1>5 DEF Claim

\* Crash keeps LeaseHeld, AtHead and CurrentIsLive.
LEMMA CrashClaim ==
    ASSUME TypeOK, Claim, NEW t \in Tabs, Crash(t)
    PROVE  Claim'
<1>1. /\ \A u \in Tabs, j \in Items : u # t => job'[u][j] = job[u][j]
      /\ \A j \in Items : job'[t][j] = NoJob
  BY DEF TypeOK, WorkType, Crash
<1>2. LeaseHeld'
  BY <1>1 DEF Claim, LeaseHeld, Crash, NoJob
<1>3. AtHead'
  BY <1>1 DEF Claim, AtHead, Crash, Stop, Turn, NoJob, TypeOK, QueueType
<1>4. CurrentIsLive'
  BY <1>1 DEF Claim, CurrentIsLive, Usable, Crash, Stop, NoJob, TypeOK, TabType
<1> QED
  BY <1>2, <1>3, <1>4 DEF Claim

\* Open keeps LeaseHeld, AtHead and CurrentIsLive.
LEMMA OpenClaim ==
    ASSUME TypeOK, Claim, NEW t \in Tabs, Open(t)
    PROVE  Claim'
<1>1. \A u \in Tabs, j \in Items : ~job[u][j].live \/ (up'[u] /\ ~paused'[u])
  BY DEF Claim, CurrentIsLive, Usable, Open, TypeOK, TabType
<1> QED
  BY <1>1 DEF Claim, LeaseHeld, AtHead, CurrentIsLive, Usable, Turn, Open, workVars, TypeOK, TabType

\* Resume keeps LeaseHeld, AtHead and CurrentIsLive.
LEMMA ResumeClaim ==
    ASSUME TypeOK, Claim, NEW t \in Tabs, NEW l \in Lists, Resume(t, l)
    PROVE  Claim'
<1>1. UNCHANGED <<up, job, lease, chain>> /\ paused' \in {paused, [paused EXCEPT ![t] = FALSE]}
  BY DEF Resume, StartDrive, tabVars, workVars
<1>2. \A u \in Tabs : ~paused[u] => ~paused'[u]
  BY <1>1 DEF TypeOK, TabType
<1>3. up[t]
  BY DEF Resume
<1>4. CurrentIsLive'
  BY <1>1, <1>2, <1>3 DEF Claim, CurrentIsLive, Usable, TypeOK, TabType
<1> QED
  BY <1>1, <1>4 DEF Claim, LeaseHeld, AtHead, CurrentIsLive, Usable, Turn

-----------------------------------------------------------------------------
(* The inductive invariant and its theorems.                                *)

\* ClaimInv holds initially.
LEMMA ClaimInit == Init => ClaimInv
<1> SUFFICES ASSUME Init PROVE ClaimInv
  OBVIOUS
<1>1. TypeOK
  BY InitType
<1>2. LeaseHeld /\ AtHead /\ CurrentIsLive
  BY DEF Init, LeaseHeld, AtHead, CurrentIsLive, NoJob
<1> QED
  BY <1>1, <1>2 DEF ClaimInv

\* Every step keeps ClaimInv: one case per action.
LEMMA ClaimStep == ClaimInv /\ [Next]_vars => ClaimInv'
<1> SUFFICES ASSUME ClaimInv, [Next]_vars PROVE ClaimInv'
  OBVIOUS
<1>1. CASE UNCHANGED vars
  <2>1. TypeOK'
    BY <1>1 DEF ClaimInv, TypeOK, StoreType, TabType, QueueType, WorkType, CallType, DriveType,
           EnvType, HistType, vars, tabVars, workVars, envVars, histVars
  <2>2. Claim'
    BY <1>1, SameChainClaim DEF ClaimInv, Claim, vars, tabVars, workVars
  <2> QED
    BY <2>1, <2>2 DEF ClaimInv, Claim
<1>2. CASE Next
  <2>1. ASSUME NEW t \in Tabs, NEW i \in Items, Add(t, i) PROVE ClaimInv'
    BY <2>1, AddType, SameChainClaim
    DEF ClaimInv, Claim, TypeOK, Add, tabVars, workVars, envVars, histVars
  <2>2. ASSUME NEW t \in Tabs, NEW i \in Items, Cancel(t, i) PROVE ClaimInv'
    BY <2>2, CancelType, SameChainClaim
    DEF ClaimInv, Claim, TypeOK, Cancel, tabVars, workVars, envVars, histVars
  <2>3. ASSUME NEW t \in Tabs, NEW i \in Items, Retry(t, i) PROVE ClaimInv'
    BY <2>3, RetryType, SameChainClaim
    DEF ClaimInv, Claim, TypeOK, Retry, tabVars, workVars, envVars, histVars
  <2>4. ASSUME NEW t \in Tabs, NEW i \in Items, CancelRead(t, i) PROVE ClaimInv'
    BY <2>4, CancelReadType, SameChainClaim
    DEF ClaimInv, Claim, TypeOK, CancelRead, tabVars, workVars, envVars, histVars
  <2>5. ASSUME NEW t \in Tabs, NEW i \in Items, RetryRead(t, i) PROVE ClaimInv'
    BY <2>5, RetryReadType, SameChainClaim
    DEF ClaimInv, Claim, TypeOK, RetryRead, tabVars, workVars, envVars, histVars
  <2>6. ASSUME NEW t \in Tabs, NEW i \in Items, CallStoreFails(t, i) PROVE ClaimInv'
    BY <2>6, CallStoreFailsType, SameChainClaim
    DEF ClaimInv, Claim, TypeOK, CallStoreFails, tabVars, workVars, envVars, histVars
  <2>7. ASSUME NEW t \in Tabs, NEW i \in Items, TimerFires(t, i) PROVE ClaimInv'
    BY <2>7, TimerFiresType, ScheduledHeads, HeadsKeptClaim
    DEF ClaimInv, Claim, TypeOK, TimerFires, tabVars, workVars, envVars, histVars
  <2>8. ASSUME NEW t \in Tabs, NEW i \in Items, RetryStored(t, i) PROVE ClaimInv'
    BY <2>8, RetryStoredType, ScheduledHeads, HeadsKeptClaim
    DEF ClaimInv, Claim, TypeOK, RetryStored, tabVars, workVars, envVars, histVars
  <2>9. ASSUME NEW t \in Tabs, NEW i \in Items, AddStored(t, i) PROVE ClaimInv'
    BY <2>9, AddStoredType, ScheduledHeads, HeadsKeptClaim
    DEF ClaimInv, Claim, TypeOK, AddStored, ScheduleUndo, tabVars, workVars, envVars, histVars
  <2>10. ASSUME NEW t \in Tabs, NEW i \in Items, SendStart(t, i) PROVE ClaimInv'
    BY <2>10, SendStartType, SendStartClaim
    DEF ClaimInv, Claim, TypeOK, tabVars
  <2>11. ASSUME NEW t \in Tabs, NEW i \in Items, SendRead(t, i) PROVE ClaimInv'
    BY <2>11, SendReadType, WorkClaim, FinishClaim
    DEF ClaimInv, Claim, TypeOK, SendRead, Current, tabVars
  <2>12. ASSUME NEW t \in Tabs, NEW i \in Items, SendStored(t, i) PROVE ClaimInv'
    BY <2>12, SendStoredType, WorkClaim, FinishClaim
    DEF ClaimInv, Claim, TypeOK, SendStored, Current, tabVars
  <2>13. ASSUME NEW t \in Tabs, NEW i \in Items, SendFailedRead(t, i) PROVE ClaimInv'
    BY <2>13, SendFailedReadType, WorkClaim, FinishClaim
    DEF ClaimInv, Claim, TypeOK, SendFailedRead, Current, tabVars
  <2>14. ASSUME NEW t \in Tabs, NEW i \in Items, SendAnswered(t, i) PROVE ClaimInv'
    BY <2>14, SendAnsweredType, WorkClaim
    DEF ClaimInv, Claim, TypeOK, SendAnswered, tabVars
  <2>15. ASSUME NEW t \in Tabs, NEW i \in Items, SendFailed(t, i) PROVE ClaimInv'
    BY <2>15, SendFailedType, WorkClaim
    DEF ClaimInv, Claim, TypeOK, SendFailed, tabVars
  <2>16. ASSUME NEW t \in Tabs, NEW i \in Items, SendDeleteFails(t, i) PROVE ClaimInv'
    BY <2>16, SendDeleteFailsType, WorkClaim
    DEF ClaimInv, Claim, TypeOK, SendDeleteFails, tabVars
  <2>17. ASSUME NEW t \in Tabs, NEW i \in Items, SendDeleted(t, i) PROVE ClaimInv'
    BY <2>17, SendDeletedType, FinishClaim
    DEF ClaimInv, Claim, TypeOK, SendDeleted, tabVars
  <2>18. ASSUME NEW t \in Tabs, NEW i \in Items, SendFailedStored(t, i) PROVE ClaimInv'
    BY <2>18, SendFailedStoredType, FinishClaim
    DEF ClaimInv, Claim, TypeOK, SendFailedStored, tabVars
  <2>19. ASSUME NEW t \in Tabs, NEW i \in Items, SendStoreFails(t, i) PROVE ClaimInv'
    BY <2>19, SendStoreFailsType, FinishClaim
    DEF ClaimInv, Claim, TypeOK, SendStoreFails, tabVars
  <2>20. ASSUME NEW t \in Tabs, NEW l \in Lists, Online(t, l) PROVE ClaimInv'
    BY <2>20, OnlineType, SameChainClaim
    DEF ClaimInv, Claim, TypeOK, Online, StartDrive, workVars
  <2>21. ASSUME NEW t \in Tabs, NEW l \in Lists, Flush(t, l) PROVE ClaimInv'
    BY <2>21, FlushType, SameChainClaim
    DEF ClaimInv, Claim, TypeOK, Flush, StartDrive, workVars
  <2>22. ASSUME NEW t \in Tabs, NEW l \in Lists, DriveEvicts(t, l) PROVE ClaimInv'
    BY <2>22, DriveEvictsType, SameChainClaim
    DEF ClaimInv, Claim, TypeOK, DriveEvicts, tabVars, workVars, envVars, histVars
  <2>23. ASSUME NEW t \in Tabs, NEW l \in Lists, DriveStored(t, l) PROVE ClaimInv'
    BY <2>23, DriveStoredType, SameChainClaim
    DEF ClaimInv, Claim, TypeOK, DriveStored, tabVars, workVars, envVars, histVars
  <2>24. ASSUME NEW t \in Tabs, NEW l \in Lists, DriveRestored(t, l) PROVE ClaimInv'
    BY <2>24, DriveRestoredType, SameChainClaim
    DEF ClaimInv, Claim, TypeOK, DriveRestored, tabVars, workVars, envVars, histVars
  <2>25. ASSUME NEW t \in Tabs, NEW l \in Lists, DriveStoreFails(t, l) PROVE ClaimInv'
    BY <2>25, DriveStoreFailsType, SameChainClaim
    DEF ClaimInv, Claim, TypeOK, DriveStoreFails, tabVars, workVars, envVars, histVars
  <2>26. ASSUME NEW t \in Tabs, NEW l \in Lists, DriveListed(t, l) PROVE ClaimInv'
    BY <2>26, DriveListedType, DriveListedHeads, HeadsKeptClaim
    DEF ClaimInv, Claim, TypeOK, DriveListed, tabVars, workVars, envVars, histVars
  <2>27. ASSUME NEW t \in Tabs, NEW l \in Lists, Resume(t, l) PROVE ClaimInv'
    BY <2>27, ResumeType, ResumeClaim
    DEF ClaimInv, Claim, TypeOK
  <2>34. ASSUME NEW t \in Tabs, NEW l \in Lists, StartSync(t, l) PROVE ClaimInv'
    BY <2>34, StartSyncType, SameChainClaim
    DEF ClaimInv, Claim, TypeOK, StartSync, StartDrive, workVars
  <2>35. ASSUME NEW t \in Tabs, LockAgain(t) PROVE ClaimInv'
    BY <2>35, LockAgainType, SameChainClaim
    DEF ClaimInv, Claim, TypeOK, LockAgain, workVars
  <2>28. ASSUME NEW t \in Tabs, Pause(t) PROVE ClaimInv'
    BY <2>28, PauseType, PauseClaim
    DEF ClaimInv, Claim, TypeOK
  <2>29. ASSUME NEW t \in Tabs, Crash(t) PROVE ClaimInv'
    BY <2>29, CrashType, CrashClaim
    DEF ClaimInv, Claim, TypeOK
  <2>30. ASSUME NEW t \in Tabs, Open(t) PROVE ClaimInv'
    BY <2>30, OpenType, OpenClaim
    DEF ClaimInv, Claim, TypeOK
  <2>31. ASSUME NEW t \in Tabs, NEW l \in Lists, NEW c \in Chats, SetChatPolicy(t, l, c) PROVE ClaimInv'
    BY <2>31, SetChatPolicyType, SameChainClaim
    DEF ClaimInv, Claim, TypeOK, SetChatPolicy, StartDrive, workVars
  <2>32. ASSUME NEW i \in Items, ServerReceives(i) PROVE ClaimInv'
    BY <2>32, ServerReceivesType, SameChainClaim
    DEF ClaimInv, Claim, TypeOK, ServerReceives, tabVars, workVars, envVars, histVars
  <2>33. ASSUME NEW i \in Items, HoldElapses(i) PROVE ClaimInv'
    BY <2>33, HoldElapsesType, SameChainClaim
    DEF ClaimInv, Claim, TypeOK, HoldElapses, tabVars, workVars, envVars, histVars
  <2> QED
    BY <1>2, <2>1, <2>2, <2>3, <2>4, <2>5, <2>6, <2>7, <2>8, <2>9, <2>10, <2>11, <2>12, <2>13, <2>14, <2>15, <2>16, <2>17, <2>18, <2>19, <2>20, <2>21, <2>22, <2>23, <2>24, <2>25, <2>26, <2>27, <2>28, <2>29, <2>30, <2>31, <2>32, <2>33, <2>34, <2>35
    DEF Next, CallStep, SendStep, DriveStep
<1> QED
  BY <1>1, <1>2

\* ClaimInv holds in every reachable state.
THEOREM ClaimInvariant == Spec => []ClaimInv
BY ClaimInit, ClaimStep, PTL DEF Spec

\* Every variable stays in its type, for any number of tabs, items and chats and
\* for any bound on the environment's events.
THEOREM TypeCorrect == Spec => []TypeOK
<1>1. ClaimInv => TypeOK
  BY DEF ClaimInv
<1> QED
  BY <1>1, ClaimInvariant, PTL

\* At most one tab works on a row at a time (outbox.ts:59-61).
THEOREM ExclusiveClaim == Spec => []ClaimExclusive
<1>1. ClaimInv => ClaimExclusive
  BY DEF ClaimInv, LeaseHeld, ClaimExclusive
<1> QED
  BY <1>1, ClaimInvariant, PTL

\* In one tab the sends of a chat take turns on the wire, over every pause and
\* resume (outbox.ts:351-352).
THEOREM TurnsInChat == Spec => []OneFetchPerChat
<1>1. ClaimInv => OneFetchPerChat
  <2> SUFFICES ASSUME ClaimInv, NEW t \in Tabs, NEW i \in Items, NEW j \in Items,
                      job[t][i].pc = "request", job[t][j].pc = "request", ChatOf[i] = ChatOf[j]
               PROVE  i = j
    BY DEF OneFetchPerChat
  <2>1. Turn(t, i) /\ Turn(t, j)
    BY DEF ClaimInv, CurrentIsLive, AtHead
  <2> QED
    BY <2>1 DEF Turn
<1> QED
  BY <1>1, ClaimInvariant, PTL

\* A locked or closed tab has no request on the wire (outbox.ts:93-95).
THEOREM QuietWhenLocked == Spec => []LockedQuiet
<1>1. ClaimInv => LockedQuiet
  BY DEF ClaimInv, CurrentIsLive, LockedQuiet
<1> QED
  BY <1>1, ClaimInvariant, PTL

-----------------------------------------------------------------------------
(* Rows: what a step leaves alone.                                          *)

\* Nothing but i is appended to a chain.
LEMMA RangeAppended ==
    ASSUME NEW s \in Seq(Items), NEW i \in Items
    PROVE  Range(Append(s, i)) = Range(s) \cup {i}
<1>1. /\ DOMAIN s = 1..Len(s) /\ DOMAIN Append(s, i) = 1..(Len(s) + 1) /\ Len(s) \in Nat
      /\ \A k \in 1..Len(s) : Append(s, i)[k] = s[k]
      /\ Append(s, i)[Len(s) + 1] = i
  OBVIOUS
<1> QED BY <1>1 DEF Range

\* The rest of a chain has no other items.
LEMMA RangeRest ==
    ASSUME NEW s \in Seq(Items), s # <<>>
    PROVE  Range(Tail(s)) \subseteq Range(s)
<1>1. /\ DOMAIN s = 1..Len(s) /\ DOMAIN Tail(s) = 1..(Len(s) - 1) /\ Len(s) \in Nat
      /\ \A k \in 1..(Len(s) - 1) : Tail(s)[k] = s[k + 1]
  OBVIOUS
<1> QED BY <1>1 DEF Range

\* Nor have two chains one after the other.
LEMMA RangeJoined ==
    ASSUME NEW s \in Seq(Items), NEW z \in Seq(Items)
    PROVE  Range(s \o z) = Range(s) \cup Range(z)
<1>1. /\ DOMAIN s = 1..Len(s) /\ DOMAIN z = 1..Len(z) /\ Len(s) \in Nat /\ Len(z) \in Nat
      /\ DOMAIN (s \o z) = 1..(Len(s) + Len(z))
      /\ \A k \in 1..Len(s) : (s \o z)[k] = s[k]
      /\ \A k \in (Len(s) + 1)..(Len(s) + Len(z)) : (s \o z)[k] = z[k - Len(s)]
  OBVIOUS
<1>2. Range(s \o z) \subseteq Range(s) \cup Range(z)
  BY <1>1 DEF Range
<1>3. Range(s) \subseteq Range(s \o z)
  BY <1>1 DEF Range
<1>4. Range(z) \subseteq Range(s \o z)
  <2> SUFFICES ASSUME NEW k \in 1..Len(z) PROVE z[k] \in Range(s \o z)
    BY <1>1 DEF Range
  <2>1. (s \o z)[Len(s) + k] = z[k] /\ Len(s) + k \in DOMAIN (s \o z)
    BY <1>1
  <2> QED BY <2>1 DEF Range
<1> QED BY <1>2, <1>3, <1>4

\* The chains hold x no more than before.
Queues(x) == \A u \in Tabs : InNoChain(u, x) => InNoChain(u, x)'

\* A schedule, and the end of a send, queue no other item.
LEMMA ScheduledElsewhere ==
    ASSUME QueueType, NEW t \in Tabs, NEW i \in Items, chain' \in {chain, Scheduled(t, i)},
           NEW x \in Items, x # i
    PROVE  Queues(x)
<1>1. ASSUME NEW u \in Tabs, NEW c \in Chats, x \notin Range(chain[u][c])
      PROVE  x \notin Range(chain'[u][c])
  <2>1. chain[u][c] \in Seq(Items)
    BY DEF QueueType
  <2>2. CASE chain'[u][c] = chain[u][c]
    BY <1>1, <2>2
  <2>3. CASE chain'[u][c] = Append(chain[u][c], i)
    BY <1>1, <2>1, <2>3, RangeAppended
  <2>4. \/ chain' = chain
        \/ chain' = [chain EXCEPT ![t][ChatOf[i]] = Append(chain[t][ChatOf[i]], i)]
    BY DEF Scheduled
  <2>5. ChatOf[i] \in Chats /\ chain \in [Tabs -> [Chats -> Seq(Items)]]
    BY ChatAssumption DEF QueueType
  <2>6. chain'[u][c] = chain[u][c] \/ chain'[u][c] = Append(chain[u][c], i)
    BY <2>4, <2>5
  <2> QED BY <2>2, <2>3, <2>6
<1> QED BY <1>1 DEF Queues, InNoChain
\* The end of a send queues nothing.
LEMMA FinishElsewhere ==
    ASSUME QueueType, NEW t \in Tabs, NEW i \in Items, Finish(t, i),
           job[t][i].live => Turn(t, i), NEW x \in Items
    PROVE  Queues(x)
<1>1. ASSUME NEW u \in Tabs, NEW c \in Chats, x \notin Range(chain[u][c])
      PROVE  x \notin Range(chain'[u][c])
  <2>1. chain[u][c] \in Seq(Items)
    BY DEF QueueType
  <2>2. CASE chain'[u][c] = chain[u][c]
    BY <1>1, <2>2
  <2>3. CASE chain'[u][c] = Tail(chain[u][c]) /\ chain[u][c] # <<>>
    BY <1>1, <2>1, <2>3, RangeRest
  <2> QED BY <2>2, <2>3, ChatAssumption DEF Finish, QueueType, Turn
<1> QED BY <1>1 DEF Queues, InNoChain

\* A table is changed at one place.
LEMMA Point ==
    ASSUME NEW S, NEW f \in [Tabs -> [Items -> S]], NEW t \in Tabs, NEW i \in Items, NEW v
    PROVE  /\ \A u \in Tabs, x \in Items : u # t \/ x # i => [f EXCEPT ![t][i] = v][u][x] = f[u][x]
           /\ [f EXCEPT ![t][i] = v][t][i] = v
OBVIOUS

\* So are the list()-based operations.
LEMMA Slot ==
    ASSUME DriveType, NEW t \in Tabs, NEW l \in Lists, NEW v, drive' = [drive EXCEPT ![t][l] = v]
    PROVE  /\ \A u \in Tabs, m \in Lists : u # t \/ m # l => drive'[u][m] = drive[u][m]
           /\ drive'[t][l] = v
BY DEF DriveType

\* What is stored, copied or shown of x may be forgotten, and history is not.
Same(x) ==
    /\ disk'[x] = disk[x]
    /\ \A u \in Tabs :
          /\ ram'[u][x] \in {ram[u][x], None}
          /\ \A m \in Lists : drive'[u][m].left[x] \in {drive[u][m].left[x], disk[x], None}
          /\ job[u][x] = NoJob => job'[u][x] = NoJob
          /\ (job'[u][x].pc = job[u][x].pc /\ job'[u][x].row = job[u][x].row) \/ job'[u][x] = NoJob
          /\ call'[u][x] \in {call[u][x], NoCall}
          /\ x \in timer'[u] => x \in timer[u]
    /\ Queues(x)
History(x) ==
    /\ x \in held' => x \in held
    /\ x \in orphan' => x \in orphan \/ \E u \in Tabs : job[u][x].pc = "request"
    /\ x \in Received' <=> x \in Received
    /\ x \in acked' <=> x \in acked
    /\ x \in undone' <=> x \in undone
    /\ x \in undoneHeld' <=> x \in undoneHeld
    /\ x \in failedOnce' => x \in failedOnce
    /\ x \in Range(born') <=> x \in Range(born)
Apart(x) == Same(x) /\ History(x)

\* Calls and timers of another item.
LEMMA CallApart ==
    ASSUME TypeOK, NEW t \in Tabs, NEW i \in Items, NEW x \in Items, x # i,
           \/ Add(t, i) \/ AddStored(t, i) \/ TimerFires(t, i) \/ Cancel(t, i) \/ CancelRead(t, i)
           \/ Retry(t, i) \/ RetryRead(t, i) \/ RetryStored(t, i) \/ CallStoreFails(t, i)
    PROVE  Apart(x)
<1>1. chain' \in {chain, Scheduled(t, i)}
  BY DEF Add, AddStored, TimerFires, Cancel, CancelRead, Retry, RetryRead, RetryStored,
         CallStoreFails, ScheduleUndo
<1>2. Queues(x)
  BY <1>1, ScheduledElsewhere DEF TypeOK
<1>3. \A u \in Tabs : call'[u][x] \in {call[u][x], NoCall}
  BY DEF Add, AddStored, TimerFires, Cancel, CancelRead, Retry, RetryRead, RetryStored,
         CallStoreFails, CallReturns, TypeOK, CallType
<1>4. disk'[x] = disk[x] /\ \A u \in Tabs : ram'[u][x] \in {ram[u][x], None}
  BY DEF Add, AddStored, TimerFires, Cancel, CancelRead, Retry, RetryRead, RetryStored,
         CallStoreFails, WriteItem, PutDone, DeleteItem, TypeOK, StoreType
<1>5. job' = job /\ drive' = drive
  BY DEF Add, AddStored, TimerFires, Cancel, CancelRead, Retry, RetryRead, RetryStored,
         CallStoreFails, workVars
<1>6. \A u \in Tabs : x \in timer'[u] => x \in timer[u]
  <2>1. timer' \in {timer, [timer EXCEPT ![t] = timer[t] \cup {i}], [timer EXCEPT ![t] = timer[t] \ {i}]}
    BY DEF Add, AddStored, TimerFires, Cancel, CancelRead, Retry, RetryRead, RetryStored,
           CallStoreFails, ScheduleUndo
  <2> QED BY <2>1 DEF TypeOK, QueueType
<1>7. History(x)
  <2>1. /\ orphan' = orphan /\ log' = log /\ failedOnce' = failedOnce
        /\ held' \in {held, held \cup HoldFor(i)} /\ born' \in {born, Append(born, i)}
        /\ acked' \in {acked, acked \cup {i}} /\ undone' \in {undone, undone \cup {i}}
        /\ undoneHeld' \in {undoneHeld, undoneHeld \cup ({i} \cap held)}
    BY DEF Add, AddStored, TimerFires, Cancel, CancelRead, Retry, RetryRead, RetryStored,
           CallStoreFails, envVars, histVars
  <2>2. x \in Range(born') <=> x \in Range(born)
    <3>1. born \in Seq(Items)
      BY DEF TypeOK, EnvType
    <3>2. Range(Append(born, i)) = Range(born) \cup {i}
      BY <3>1, RangeAppended
    <3> QED BY <2>1, <3>2
  <2> QED BY <2>1, <2>2 DEF History, HoldFor, Received
<1> QED BY <1>2, <1>3, <1>4, <1>5, <1>6, <1>7 DEF Apart, Same

\* Sends of another item.
LEMMA SendApart ==
    ASSUME ClaimInv, NEW t \in Tabs, NEW i \in Items, NEW x \in Items, x # i,
           \/ SendStart(t, i) \/ SendStep(t, i) \/ SendFailed(t, i)
           \/ SendStoreFails(t, i) \/ SendDeleteFails(t, i)
    PROVE  Apart(x)
<1>1. TypeOK
  BY DEF ClaimInv
<1>2. job[t][i].pc # "idle" \/ SendStart(t, i)
  BY DEF SendStep, SendRead, SendStored, SendAnswered, SendDeleted, SendFailedRead,
         SendFailedStored, SendFailed, SendStoreFails, SendDeleteFails
<1>3. chain' = chain \/ (Finish(t, i) /\ job[t][i].pc # "idle")
  BY DEF SendStart, SendStep, SendRead, SendStored, SendAnswered, SendDeleted, SendFailedRead,
         SendFailedStored, SendFailed, SendStoreFails, SendDeleteFails, Work
<1>4. Queues(x)
  <2>1. CASE chain' = chain
    BY <2>1 DEF Queues, InNoChain
  <2>2. CASE Finish(t, i) /\ job[t][i].pc # "idle"
    BY <1>1, <2>2, FinishElsewhere DEF ClaimInv, AtHead, TypeOK
  <2> QED BY <1>3, <2>1, <2>2
<1>5. \A u \in Tabs : job'[u][x] = job[u][x]
  <2>1. \E v : job' = [job EXCEPT ![t][i] = v]
    BY DEF SendStart, SendStep, SendRead, SendStored, SendAnswered, SendDeleted, SendFailedRead,
           SendFailedStored, SendFailed, SendStoreFails, SendDeleteFails, Work, Finish
  <2> QED BY <1>1, <2>1, Point DEF TypeOK, WorkType
<1>6. disk'[x] = disk[x] /\ \A u \in Tabs : ram'[u][x] \in {ram[u][x], None}
  BY <1>1 DEF SendStart, SendStep, SendRead, SendStored, SendAnswered, SendDeleted, SendFailedRead,
         SendFailedStored, SendFailed, SendStoreFails, SendDeleteFails,
         WriteItem, PutDone, DeleteItem, TypeOK, StoreType
<1>7. UNCHANGED <<drive, call, timer, held, born, log, acked, undone, undoneHeld>>
  BY DEF SendStart, SendStep, SendRead, SendStored, SendAnswered, SendDeleted, SendFailedRead,
         SendFailedStored, SendFailed, SendStoreFails, SendDeleteFails, envVars, histVars
<1>8. /\ x \in orphan' => x \in orphan
      /\ x \in failedOnce' => x \in failedOnce
  BY DEF SendStart, SendStep, SendRead, SendStored, SendAnswered, SendDeleted, SendFailedRead,
         SendFailedStored, SendFailed, SendStoreFails, SendDeleteFails, envVars, histVars
<1> QED BY <1>4, <1>5, <1>6, <1>7, <1>8 DEF Apart, Same, History, Received

\* The server, and the end of another item's hold.
LEMMA WorldApart ==
    ASSUME TypeOK, NEW i \in Items, NEW x \in Items, x # i, ServerReceives(i) \/ HoldElapses(i)
    PROVE  Apart(x)
<1>1. UNCHANGED <<disk, ram, chain, timer, job, call, drive, born, acked, undone, undoneHeld, failedOnce>>
  BY DEF ServerReceives, HoldElapses, workVars, histVars
<1>2. /\ x \in orphan' => x \in orphan
      /\ x \in held' => x \in held
  BY DEF ServerReceives, HoldElapses
<1>3. x \in Received' <=> x \in Received
  <2>1. log' \in {log, Append(log, i)} /\ log \in Seq(Items)
    BY DEF ServerReceives, HoldElapses, TypeOK, EnvType
  <2>2. Range(Append(log, i)) = Range(log) \cup {i}
    BY <2>1, RangeAppended
  <2> QED BY <2>1, <2>2 DEF Received
<1> QED BY <1>1, <1>2, <1>3 DEF Apart, Same, History, Queues, InNoChain

\* What happens to a tab, and the beginning, the failure and the last step of a
\* list()-based operation that changes no row.
Tabwise(t) == Pause(t) \/ LockAgain(t) \/ Crash(t) \/ Open(t)
Begins(t, l) == StartSync(t, l) \/ Online(t, l) \/ Flush(t, l) \/ \E c \in Chats : SetChatPolicy(t, l, c)

\* They are apart from every item.
LEMMA TabApart ==
    ASSUME ClaimInv, NEW t \in Tabs, NEW x \in Items, Tabwise(t)
    PROVE  Apart(x)
<1>1. TypeOK
  BY DEF ClaimInv
<1>2. CASE Pause(t) \/ Crash(t)
  <2>1. chain' = [chain EXCEPT ![t] = [c \in Chats |-> <<>>]]
    BY <1>2 DEF Pause, Crash, Stop
  <2>2. Queues(x)
    BY <1>1, <2>1 DEF Queues, InNoChain, TypeOK, QueueType, Range
  <2>3. ASSUME NEW u \in Tabs
        PROVE  /\ job[u][x] = NoJob => job'[u][x] = NoJob
               /\ \/ job'[u][x].pc = job[u][x].pc /\ job'[u][x].row = job[u][x].row
                  \/ job'[u][x] = NoJob
    <3>1. job[u][x] \in Job
      BY <1>1 DEF TypeOK, WorkType
    <3>2. \/ job'[u][x] = job[u][x] \/ job'[u][x] = NoJob
          \/ job'[u][x] = [job[u][x] EXCEPT !.live = FALSE]
      <4>1. job \in [Tabs -> [Items -> Job]]
        BY <1>1 DEF TypeOK, WorkType
      <4>2. CASE Pause(t)
        <5>1. job' = [job EXCEPT ![t] = [j \in Items |->
                        IF j \in Aborted(t) THEN NoJob ELSE [job[t][j] EXCEPT !.live = FALSE]]]
          BY <4>2 DEF Pause
        <5> QED BY <4>1, <5>1
      <4>3. CASE Crash(t)
        BY <4>1, <4>3 DEF Crash
      <4> QED BY <1>2, <4>2, <4>3
    <3>3. [job[u][x] EXCEPT !.live = FALSE].pc = job[u][x].pc
          /\ [job[u][x] EXCEPT !.live = FALSE].row = job[u][x].row
      BY <3>1 DEF Job
    <3>4. [NoJob EXCEPT !.live = FALSE] = NoJob
      <4>1. NoJob \in Job /\ NoJob.live = FALSE
        BY DEF NoJob, Job, JobPC, Rows
      <4> HIDE DEF NoJob
      <4> QED BY <4>1 DEF Job
    <3> QED BY <3>2, <3>3, <3>4
  <2>4. disk' = disk /\ \A u \in Tabs : ram'[u][x] \in {ram[u][x], None}
    BY <1>1, <1>2 DEF Pause, Crash, Stop, TypeOK, StoreType, NoRows
  <2>5. \A u \in Tabs :
           /\ \A m \in Lists : drive'[u][m].left[x] \in {drive[u][m].left[x], None}
           /\ call'[u][x] \in {call[u][x], NoCall}
           /\ x \in timer'[u] => x \in timer[u]
    <3>1. timer' = [timer EXCEPT ![t] = {}]
      BY <1>2 DEF Pause, Crash, Stop
    <3>2. \A u \in Tabs : x \in timer'[u] => x \in timer[u]
      BY <1>1, <3>1 DEF TypeOK, QueueType
    <3>3. \/ UNCHANGED <<call, drive>>
          \/ /\ call' = [call EXCEPT ![t] = [i \in Items |-> NoCall]]
             /\ drive' = [drive EXCEPT ![t] = [l \in Lists |-> NoDrive]]
      BY <1>2 DEF Pause, Crash
    <3>4. NoDrive.left[x] = None
      BY DEF NoDrive, NoRows
    <3> HIDE DEF NoDrive, NoCall
    <3>5. \A u \in Tabs : call'[u][x] \in {call[u][x], NoCall}
      BY <1>1, <3>3 DEF TypeOK, CallType
    <3>6. \A u \in Tabs, m \in Lists : drive'[u][m].left[x] \in {drive[u][m].left[x], None}
      BY <1>1, <3>3, <3>4 DEF TypeOK, DriveType
    <3> QED BY <3>2, <3>5, <3>6
  <2>6. /\ x \in orphan' => x \in orphan \/ \E u \in Tabs : job[u][x].pc = "request"
        /\ UNCHANGED <<held, born, log, acked, undone, undoneHeld, failedOnce>>
    BY <1>2 DEF Pause, Crash, Stop, Aborted
  <2>7. Same(x)
    BY <2>2, <2>3, <2>4, <2>5 DEF Same
  <2>8. History(x)
    BY <2>6 DEF History, Received
  <2> QED BY <2>7, <2>8 DEF Apart
<1>3. CASE Open(t) \/ LockAgain(t)
  BY <1>3 DEF Open, LockAgain, Apart, Same, History, Queues, InNoChain, Received, workVars, envVars,
              histVars
<1> QED BY <1>2, <1>3 DEF Tabwise

\* So are they.
LEMMA BeginApart ==
    ASSUME ClaimInv, NEW t \in Tabs, NEW l \in Lists, NEW x \in Items,
           Begins(t, l) \/ Resume(t, l) \/ DriveStoreFails(t, l)
    PROVE  Apart(x)
<1>1. DriveType
  BY DEF ClaimInv, TypeOK
<1> DEFINE Goal ==
        /\ \E e : drive' = [drive EXCEPT ![t][l] = e] /\ e.left[x] \in {disk[x], None}
        /\ UNCHANGED <<disk, ram, chain, timer, job, call, held, born, log, orphan, acked, undone,
                       undoneHeld, failedOnce>>
<1>2. Goal
  <2>1. \A k, cs, p : Scan(k, cs, p).left[x] \in {disk[x], None}
    BY DEF Scan
  <2>2. NoDrive.left[x] = None
    BY DEF NoDrive, NoRows
  <2>3. ASSUME NEW k, NEW cs, NEW p, StartDrive(t, l, k, cs, p)
        PROVE  Goal
    BY <2>1, <2>3 DEF StartDrive, workVars, envVars, histVars
  <2>4. CASE Begins(t, l)
    <3>1. \/ StartDrive(t, l, "sync", Chats, FALSE) \/ StartDrive(t, l, "online", Chats, FALSE)
          \/ StartDrive(t, l, "flush", Chats, FALSE)
          \/ \E c \in Chats : StartDrive(t, l, "policy", {c}, ~persist[t][c])
      BY <2>4 DEF Begins, StartSync, Online, Flush, SetChatPolicy
    <3> HIDE DEF Goal
    <3> QED BY <2>3, <3>1
  <2>5. CASE Resume(t, l)
    <3>1. CASE drive' = [drive EXCEPT ![t][l] = NoDrive] /\ ~StartDrive(t, l, "resume", Chats, FALSE)
      <4> HIDE DEF NoDrive
      <4>1. UNCHANGED <<disk, ram, chain, timer, job, call, held, born, log, orphan, acked, undone,
                        undoneHeld, failedOnce>>
        BY <2>5, <3>1 DEF Resume, workVars, envVars, histVars
      <4> QED BY <2>2, <3>1, <4>1
    <3>2. CASE StartDrive(t, l, "resume", Chats, FALSE)
      <4> HIDE DEF Goal
      <4> QED BY <2>3, <3>2
    <3>3. drive' = [drive EXCEPT ![t][l] = NoDrive] \/ StartDrive(t, l, "resume", Chats, FALSE)
      BY <2>5 DEF Resume
    <3> QED BY <3>1, <3>2, <3>3
  <2>6. CASE DriveStoreFails(t, l)
    <3>1. \/ \E k, cs, p : drive' = [drive EXCEPT ![t][l] = Scan(k, cs, p)]
          \/ drive' = [drive EXCEPT ![t][l] = NoDrive]
      BY <2>6 DEF DriveStoreFails
    <3>2. UNCHANGED <<disk, ram, chain, timer, job, call, held, born, log, orphan, acked, undone,
                      undoneHeld, failedOnce>>
      BY <2>6 DEF DriveStoreFails, workVars, envVars, histVars
    <3> HIDE DEF NoDrive
    <3> QED BY <2>1, <2>2, <3>1, <3>2
  <2> QED BY <2>4, <2>5, <2>6
<1>3. \A u \in Tabs, m \in Lists : drive'[u][m].left[x] \in {drive[u][m].left[x], disk[x], None}
  BY <1>1, <1>2, Slot
<1> QED BY <1>2, <1>3 DEF Apart, Same, History, Queues, InNoChain, Received

-----------------------------------------------------------------------------
(* What list() moves.                                                       *)

\* A list() moves copies of rows about, and touches nothing else.
Values(x) == {None, disk[x]} \cup {ram[u][x] : u \in Tabs}
                \cup {drive[u][m].left[x] : u \in Tabs, m \in Lists}
Moves(x) ==
    /\ disk'[x] \in Values(x)
    /\ \A u \in Tabs : ram'[u][x] \in Values(x)
    /\ \A u \in Tabs, m \in Lists : drive'[u][m].left[x] \in Values(x)
    /\ UNCHANGED <<chain, timer, job, call, envVars, histVars>>

\* The restore loop copies the rows of RAM or of the disk.
LEMMA RestoreMoves ==
    ASSUME TypeOK, NEW t \in Tabs, NEW l \in Lists, NEW d \in Drive, NEW r \in [Items -> Rows],
           RestoreLoop(t, l, d, r), NEW x \in Items, r[x] \in Values(x), d.left[x] \in Values(x)
    PROVE  /\ \A u \in Tabs : ram'[u][x] \in Values(x)
           /\ \A u \in Tabs, m \in Lists : drive'[u][m].left[x] \in Values(x)
<1>1. \A u \in Tabs : ram'[u][x] \in Values(x)
  <2>1. ram' = [ram EXCEPT ![t] = r]
    BY DEF RestoreLoop
  <2> QED BY <2>1 DEF TypeOK, StoreType, Values
<1>2. \E e : drive' = [drive EXCEPT ![t][l] = e] /\ e.left[x] \in {d.left[x], None, disk[x]}
  <2>1. \A i \in Items : [d EXCEPT !.pc = "restore", !.cur = {i}].left[x] = d.left[x]
    BY DEF Drive
  <2>2. \A pc, left : [d EXCEPT !.pc = pc, !.left = left, !.cur = {}].left[x] = left[x]
    BY DEF Drive
  <2>3. NoDrive.left[x] = None /\ NoRows[x] = None
    BY DEF NoDrive, NoRows
  <2>4. \/ \E i \in Items : drive' = [drive EXCEPT ![t][l] = [d EXCEPT !.pc = "restore", !.cur = {i}]]
        \/ drive' = [drive EXCEPT ![t][l] = NoDrive]
        \/ drive' = [drive EXCEPT ![t][l] = [d EXCEPT !.pc = "list", !.left = disk, !.cur = {}]]
        \/ drive' = [drive EXCEPT ![t][l] = [d EXCEPT !.pc = "synced", !.left = NoRows, !.cur = {}]]
    BY DEF RestoreLoop
  <2>5. /\ [d EXCEPT !.pc = "list", !.left = disk, !.cur = {}].left[x] = disk[x]
        /\ [d EXCEPT !.pc = "synced", !.left = NoRows, !.cur = {}].left[x] = None
    BY <2>2, <2>3
  <2> HIDE DEF NoDrive, NoRows
  <2> QED BY <2>1, <2>3, <2>4, <2>5
<1>3. \A u \in Tabs, m \in Lists : drive'[u][m].left[x] \in Values(x)
  <2>1. /\ None \in Values(x) /\ disk[x] \in Values(x)
        /\ \A u \in Tabs, m \in Lists : drive[u][m].left[x] \in Values(x)
    BY DEF Values
  <2> QED BY <1>2, <2>1, Slot DEF TypeOK
<1> QED BY <1>1, <1>3

\* So do the scan, the eviction and the put of a restored row.
LEMMA DriveMoves ==
    ASSUME TypeOK, NEW t \in Tabs, NEW l \in Lists, NEW x \in Items,
           DriveEvicts(t, l) \/ DriveStored(t, l) \/ DriveRestored(t, l)
    PROVE  Moves(x)
<1> DEFINE d == drive[t][l]
<1>1. /\ d \in Drive /\ ram[t] \in [Items -> Rows] /\ None \in Values(x) /\ disk[x] \in Values(x)
      /\ \A u \in Tabs, m \in Lists : drive[u][m].left[x] \in Values(x)
      /\ \A u \in Tabs : ram[u][x] \in Values(x)
  BY DEF TypeOK, DriveType, StoreType, Values
<1>2. UNCHANGED <<chain, timer, job, call, envVars, histVars>>
  BY DEF DriveEvicts, DriveStored, DriveRestored, workVars
<1>3. CASE DriveEvicts(t, l)
  <2>1. CASE \E i \in Items :
             /\ Evicted(t, i, d.left[i])
             /\ disk' = [disk EXCEPT ![i] = None]
             /\ drive' = [drive EXCEPT ![t][l] = [d EXCEPT !.pc = "evict", !.left[i] = None]]
    <3>1. PICK i \in Items :
             /\ Evicted(t, i, d.left[i])
             /\ disk' = [disk EXCEPT ![i] = None]
             /\ drive' = [drive EXCEPT ![t][l] = [d EXCEPT !.pc = "evict", !.left[i] = None]]
      BY <2>1
    <3>2. disk'[x] \in Values(x) /\ \A u \in Tabs : ram'[u][x] \in Values(x)
      BY <1>1, <3>1 DEF Evicted, TypeOK, StoreType
    <3>3. [d EXCEPT !.pc = "evict", !.left[i] = None].left[x] \in {d.left[x], None}
      BY <1>1 DEF Drive
    <3>4. \A u \in Tabs, m \in Lists : drive'[u][m].left[x] \in Values(x)
      <4> DEFINE e == [d EXCEPT !.pc = "evict", !.left[i] = None]
      <4>1. drive' = [drive EXCEPT ![t][l] = e] /\ e.left[x] \in Values(x)
        BY <1>1, <3>1, <3>3
      <4> HIDE DEF e, d
      <4> QED BY <1>1, <4>1, Slot DEF TypeOK
    <3> QED BY <1>2, <3>2, <3>4 DEF Moves
  <2>2. CASE RestoreLoop(t, l, [d EXCEPT !.left = ram[t]], ram[t]) /\ UNCHANGED disk
    <3> DEFINE e == [d EXCEPT !.left = ram[t]]
    <3>1. e \in Drive /\ e.left[x] = ram[t][x]
      BY <1>1 DEF Drive
    <3> HIDE DEF e
    <3>2. RestoreLoop(t, l, e, ram[t])
      BY <2>2 DEF e
    <3>3. /\ \A u \in Tabs : ram'[u][x] \in Values(x)
          /\ \A u \in Tabs, m \in Lists : drive'[u][m].left[x] \in Values(x)
      BY <1>1, <3>1, <3>2, RestoreMoves
    <3> QED BY <1>1, <1>2, <2>2, <3>3 DEF Moves
  <2> QED BY <1>3, <2>1, <2>2 DEF DriveEvicts, EvictLoop
<1>4. CASE DriveStored(t, l)
  <2>1. disk'[x] \in {disk[x], d.left[x]} /\ ram' = ram
    BY <1>4 DEF DriveStored
  <2>2. [d EXCEPT !.pc = "restored"].left[x] = d.left[x]
    BY <1>1 DEF Drive
  <2>3. drive' = [drive EXCEPT ![t][l] = [d EXCEPT !.pc = "restored"]]
    BY <1>4 DEF DriveStored
  <2>4. \A u \in Tabs, m \in Lists : drive'[u][m].left[x] \in Values(x)
    BY <1>1, <2>2, <2>3, Slot DEF TypeOK
  <2> QED BY <1>1, <1>2, <2>1, <2>4 DEF Moves
<1>5. CASE DriveRestored(t, l)
  <2> DEFINE W(rows) == [i \in Items |-> IF i \in d.cur THEN None ELSE rows[i]]
             e == [d EXCEPT !.left = W(d.left)]
             r == W(ram[t])
  <2>1. d.left \in [Items -> Rows]
    BY <1>1 DEF Drive
  <2>2. W(d.left) \in [Items -> Rows] /\ r \in [Items -> Rows]
    BY <1>1, <2>1 DEF Rows
  <2>3. e \in Drive /\ e.left[x] \in {d.left[x], None} /\ r[x] \in {ram[t][x], None}
    BY <1>1, <2>2 DEF Drive
  <2>4. RestoreLoop(t, l, e, r) /\ disk' = disk
    BY <1>5 DEF DriveRestored
  <2> HIDE DEF e, r
  <2>5. /\ \A u \in Tabs : ram'[u][x] \in Values(x)
        /\ \A u \in Tabs, m \in Lists : drive'[u][m].left[x] \in Values(x)
    <3>1. e.left[x] \in Values(x) /\ r[x] \in Values(x)
      BY <1>1, <2>3
    <3> QED BY <2>2, <2>3, <2>4, <3>1, RestoreMoves
  <2> QED BY <1>1, <1>2, <2>4, <2>5 DEF Moves
<1> QED BY <1>3, <1>4, <1>5

\* The end of a list() queues the items it re-drives, and shows undo timers of
\* those that are held and queued.
LEMMA DriveListedQueues ==
    ASSUME TypeOK, NEW t \in Tabs, NEW l \in Lists, DriveListed(t, l), NEW x \in Items
    PROVE  /\ \E row \in {ram[t][x], drive[t][l].left[x]} :
                /\ Redriven(drive[t][l].kind, x, row) \/ Queues(x)
                /\ (row = "queued" /\ HoldOpen(x)) \/ \A u \in Tabs : x \in timer'[u] => x \in timer[u]
           /\ \A u \in Tabs, m \in Lists : drive'[u][m].left[x] \in {drive[u][m].left[x], None}
           /\ UNCHANGED <<disk, ram, job, call, envVars, histVars, used>>
<1> DEFINE row(i) == IF ram[t][i] # None THEN ram[t][i] ELSE drive[t][l].left[i]
           send(c) == {i \in Items : Redriven(drive[t][l].kind, i, row(i)) /\ ChatOf[i] = c}
<1>1. UNCHANGED <<disk, ram, job, call, envVars, histVars, used>> /\ drive' = [drive EXCEPT ![t][l] = NoDrive]
  BY DEF DriveListed, workVars
<1>2. \A u \in Tabs, m \in Lists : drive'[u][m].left[x] \in {drive[u][m].left[x], None}
  <2>1. NoDrive.left[x] = None
    BY DEF NoDrive, NoRows
  <2> HIDE DEF NoDrive
  <2> QED BY <1>1, <2>1, Slot DEF TypeOK
<1>3. (row(x) = "queued" /\ HoldOpen(x)) \/ \A u \in Tabs : x \in timer'[u] => x \in timer[u]
  <2> DEFINE queued == {i \in Items : row(i) = "queued"}
             hold == {i \in queued : drive[t][l].kind = "resume" /\ HoldOpen(i)}
             T == (timer[t] \ (IF drive[t][l].kind = "online" THEN {} ELSE queued))
                     \cup (IF paused[t] THEN {} ELSE hold)
  <2>1. timer' = [timer EXCEPT ![t] = T]
    BY DEF DriveListed
  <2>2. x \in T => x \in timer[t] \/ (row(x) = "queued" /\ HoldOpen(x))
    OBVIOUS
  <2> HIDE DEF row, T
  <2> QED BY <2>1, <2>2 DEF TypeOK, QueueType
<1>4. Redriven(drive[t][l].kind, x, row(x)) \/ Queues(x)
  <2> SUFFICES ASSUME ~Redriven(drive[t][l].kind, x, row(x)) PROVE Queues(x)
    OBVIOUS
  <2>1. \A c \in Chats : x \notin send(c) /\ IsFiniteSet(send(c))
    <3>1. IsFiniteSet(Items)
      BY FiniteAssumption, FS_Union DEF Items
    <3> QED BY <3>1, FS_Subset
  <2>2. \/ chain' = chain
        \/ \E q : /\ \A c \in Chats : q[c] \in Sorted(send(c))
                  /\ chain' = [chain EXCEPT ![t] = [c \in Chats |-> chain[t][c] \o q[c]]]
    BY DEF DriveListed
  <2>3. ASSUME NEW c \in Chats, NEW z \in Sorted(send(c)), NEW s \in Seq(Items), x \notin Range(s)
        PROVE  x \notin Range(s \o z)
    <3>1. z \in [1..Cardinality(send(c)) -> send(c)] /\ Cardinality(send(c)) \in Nat
      BY <2>1, FS_CardinalityType DEF Sorted
    <3>2. z \in Seq(Items) /\ DOMAIN z = 1..Cardinality(send(c))
      <4>1. send(c) \subseteq Items
        OBVIOUS
      <4> HIDE DEF send
      <4>2. z \in [1..Cardinality(send(c)) -> Items]
        BY <3>1, <4>1
      <4> QED BY <3>1, <4>2
    <3>3. x \notin Range(z)
      BY <2>1, <3>1 DEF Range
    <3> QED BY <2>3, <3>2, <3>3, RangeJoined
  <2> HIDE DEF send
  <2>4. ASSUME NEW u \in Tabs, NEW c \in Chats, x \notin Range(chain[u][c])
        PROVE  x \notin Range(chain'[u][c])
    <3>1. chain \in [Tabs -> [Chats -> Seq(Items)]]
      BY DEF TypeOK, QueueType
    <3>2. CASE chain' = chain
      BY <2>4, <3>2
    <3>3. CASE chain' # chain
      <4>1. PICK q : /\ \A b \in Chats : q[b] \in Sorted(send(b))
                     /\ chain' = [chain EXCEPT ![t] = [b \in Chats |-> chain[t][b] \o q[b]]]
        BY <2>2, <3>3
      <4>2. chain'[u][c] = chain[u][c] \/ chain'[u][c] = chain[u][c] \o q[c]
        BY <3>1, <4>1
      <4>3. chain[u][c] \in Seq(Items) /\ q[c] \in Sorted(send(c))
        BY <3>1, <4>1
      <4> QED BY <2>3, <2>4, <4>2, <4>3
    <3> QED BY <3>2, <3>3
  <2> QED BY <2>4 DEF Queues, InNoChain
<1> QED BY <1>1, <1>2, <1>3, <1>4

-----------------------------------------------------------------------------
(* One item's view of a step.                                               *)

CallOwn(t, i) ==
    \/ Add(t, i) \/ AddStored(t, i) \/ TimerFires(t, i) \/ Cancel(t, i) \/ CancelRead(t, i)
    \/ Retry(t, i) \/ RetryRead(t, i) \/ RetryStored(t, i) \/ CallStoreFails(t, i)
SendOwn(t, i) ==
    \/ SendStart(t, i) \/ SendStep(t, i) \/ SendFailed(t, i)
    \/ SendStoreFails(t, i) \/ SendDeleteFails(t, i)
Reconciles(t, l) == DriveEvicts(t, l) \/ DriveStored(t, l) \/ DriveRestored(t, l)

\* A step is the item's own, a list() of one tab, the world's, or apart from it.
LEMMA Views ==
    ASSUME ClaimInv, [Next]_vars, NEW x \in Items
    PROVE  \/ Apart(x)
           \/ \E t \in Tabs : CallOwn(t, x)
           \/ \E t \in Tabs : SendOwn(t, x)
           \/ \E t \in Tabs, l \in Lists : Reconciles(t, l)
           \/ \E t \in Tabs, l \in Lists : DriveListed(t, l)
           \/ ServerReceives(x) \/ HoldElapses(x)
<1>1. TypeOK
  BY DEF ClaimInv
<1>2. ASSUME NEW t \in Tabs, NEW i \in Items, i # x, CallOwn(t, i)
      PROVE  Apart(x)
  BY <1>1, <1>2, CallApart DEF CallOwn
<1>3. ASSUME NEW t \in Tabs, NEW i \in Items, i # x, SendOwn(t, i)
      PROVE  Apart(x)
  BY <1>3, SendApart DEF SendOwn
<1>4. ASSUME NEW i \in Items, i # x, ServerReceives(i) \/ HoldElapses(i)
      PROVE  Apart(x)
  BY <1>1, <1>4, WorldApart
<1>5. ASSUME NEW t \in Tabs, Tabwise(t)
      PROVE  Apart(x)
  BY <1>5, TabApart
<1>6. ASSUME NEW t \in Tabs, NEW l \in Lists,
             Begins(t, l) \/ Resume(t, l) \/ DriveStoreFails(t, l)
      PROVE  Apart(x)
  BY <1>6, BeginApart
<1>7. CASE UNCHANGED vars
  BY <1>7 DEF vars, Apart, Same, History, Queues, InNoChain, Received, workVars, envVars, histVars
<1>8. CASE Next
  <2>1. \/ \E t \in Tabs, i \in Items : CallOwn(t, i) \/ SendOwn(t, i)
        \/ \E t \in Tabs : Tabwise(t)
        \/ \E t \in Tabs, l \in Lists : Begins(t, l) \/ Resume(t, l) \/ DriveStoreFails(t, l)
        \/ \E t \in Tabs, l \in Lists : Reconciles(t, l) \/ DriveListed(t, l)
        \/ \E i \in Items : ServerReceives(i) \/ HoldElapses(i)
    BY <1>8 DEF Next, CallStep, CallOwn, SendOwn, DriveStep, Reconciles, Tabwise, Begins
  <2> QED BY <1>2, <1>3, <1>4, <1>5, <1>6, <2>1
<1> QED BY <1>7, <1>8

\* The loops of applyPersistencePolicy() count a switch while another list()
\* restores, and nothing else.
LEMMA LoopCounts ==
    ASSUME NEW t \in Tabs, NEW l \in Lists, Reconciles(t, l)
    PROVE  UNCHANGED used \/ Spend("overlap")
BY DEF Reconciles, DriveEvicts, DriveStored, DriveRestored, EvictLoop, RestoreLoop, Switch

\* No bounded event is taken back.
LEMMA UsedCounts ==
    ASSUME TypeOK, [Next]_vars, NEW e \in Events
    PROVE  used[e] \in Nat /\ used'[e] \in Nat /\ used[e] <= used'[e]
<1>1. \/ UNCHANGED used
      \/ \E b \in Events : Spend(b)
  <2>1. CASE UNCHANGED vars
    BY <2>1 DEF vars
  <2>2. CASE \E t \in Tabs, i \in Items :
               Cancel(t, i) \/ Retry(t, i) \/ SendFailed(t, i) \/ SendStoreFails(t, i)
               \/ SendDeleteFails(t, i) \/ CallStoreFails(t, i)
    BY <2>2 DEF Cancel, Retry, SendFailed, SendStoreFails, SendDeleteFails, CallStoreFails, Events
  <2>3. CASE \E t \in Tabs, l \in Lists : Begins(t, l) \/ Resume(t, l) \/ DriveStoreFails(t, l)
    BY <2>3 DEF Begins, StartSync, Online, Flush, SetChatPolicy, Resume, DriveStoreFails, Events
  <2>4. CASE \E t \in Tabs, i \in Items :
               Add(t, i) \/ TimerFires(t, i) \/ CallStep(t, i) \/ SendStart(t, i) \/ SendStep(t, i)
    BY <2>4 DEF Add, TimerFires, CallStep, AddStored, CancelRead, RetryRead, RetryStored, SendStart,
                SendStep, SendRead, SendStored, SendAnswered, SendDeleted, SendFailedRead,
                SendFailedStored
  <2>5. CASE \E t \in Tabs : Tabwise(t)
    BY <2>5 DEF Tabwise, Pause, LockAgain, Crash, Open, Events
  <2>6. CASE \E i \in Items : ServerReceives(i) \/ HoldElapses(i)
    BY <2>6 DEF ServerReceives, HoldElapses
  <2>7. CASE \E t \in Tabs, l \in Lists : DriveListed(t, l)
    BY <2>7 DEF DriveListed
  <2>8. CASE \E t \in Tabs, l \in Lists : Reconciles(t, l)
    BY <2>8, LoopCounts DEF Events
  <2> QED BY <2>1, <2>2, <2>3, <2>4, <2>5, <2>6, <2>7, <2>8 DEF Next, Begins, Tabwise, DriveStep, Reconciles
<1>2. used \in [Events -> Nat]
  BY DEF TypeOK, HistType
<1> QED BY <1>1, <1>2 DEF Spend

\* What has not happened had not happened before.
LEMMA UsedGrows ==
    ASSUME TypeOK, [Next]_vars, NEW e \in Events, used'[e] = 0
    PROVE  used[e] = 0
BY UsedCounts

\* An item on no chain is not the next to be sent.
LEMMA NotQueuedNoTurn ==
    ASSUME QueueType, NEW t \in Tabs, NEW x \in Items, InNoChain(t, x)
    PROVE  ~Turn(t, x)
<1>1. chain[t][ChatOf[x]] \in Seq(Items) /\ ChatOf[x] \in Chats
  BY ChatAssumption DEF QueueType
<1>2. x \notin Range(chain[t][ChatOf[x]])
  BY <1>1 DEF InNoChain
<1>3. chain[t][ChatOf[x]] # <<>> => Head(chain[t][ChatOf[x]]) \in Range(chain[t][ChatOf[x]])
  BY <1>1 DEF Range
<1> QED BY <1>2, <1>3 DEF Turn

-----------------------------------------------------------------------------
(* An item that nobody has queued.                                          *)

\* It leaves no trace until it is added, by an enqueue of it and nothing else.
LEMMA NewOnesKept ==
    ASSUME ClaimInv, NewOnes, [Next]_vars
    PROVE  NewOnes'
<1> SUFFICES ASSUME NEW x \in Items, x \notin Range(born')
             PROVE  Unknown(x)'
  BY DEF NewOnes
<1>0. TypeOK
  BY DEF ClaimInv
<1>1. ASSUME x \in Range(born), UNCHANGED born
      PROVE  FALSE
  BY <1>1
<1>2. CASE Apart(x)
  <2>1. Unknown(x)
    BY <1>2 DEF NewOnes, Apart, History
  <2>2. \A t \in Tabs : job[t][x].pc # "request"
    BY <2>1 DEF Unknown, NoJob
  <2>3. x \notin held' \cup orphan' \cup Received' \cup acked' \cup undoneHeld' \cup failedOnce'
    BY <1>2, <2>1, <2>2 DEF Unknown, Apart, History
  <2>4. disk'[x] = None
    BY <1>2, <2>1 DEF Unknown, Apart, Same
  <2>5. ASSUME NEW t \in Tabs
        PROVE  /\ ram'[t][x] = None /\ x \notin timer'[t]
               /\ \A l \in Lists : drive'[t][l].left[x] = None
               /\ job'[t][x] = NoJob /\ call'[t][x] = NoCall /\ InNoChain(t, x)'
    BY <1>2, <2>1 DEF Unknown, Apart, Same, Queues
  <2> QED BY <2>3, <2>4, <2>5 DEF Unknown
<1>3. ASSUME NEW t \in Tabs, CallOwn(t, x)
      PROVE  FALSE
  <2>1. CASE Add(t, x)
    <3>1. Range(Append(born, x)) = Range(born) \cup {x}
      BY <1>0, RangeAppended DEF TypeOK, EnvType
    <3> QED BY <2>1, <3>1 DEF Add
  <2>2. CASE ~Add(t, x)
    <3>1. born' = born
      BY <1>3, <2>2 DEF CallOwn, AddStored, TimerFires, Cancel, CancelRead, Retry, RetryRead,
                        RetryStored, CallStoreFails, envVars
    <3>2. Unknown(x)
      BY <3>1 DEF NewOnes
    <3>3. x \notin acked \cup failedOnce /\ x \notin timer[t] /\ call[t][x].pc = "idle"
      BY <3>2 DEF Unknown, NoCall
    <3> QED BY <1>3, <2>2, <3>3 DEF CallOwn, AddStored, TimerFires, Cancel, CancelRead, Retry,
                                    RetryRead, RetryStored, CallStoreFails
  <2> QED BY <2>1, <2>2
<1>4. ASSUME NEW t \in Tabs, SendOwn(t, x)
      PROVE  FALSE
  <2>1. born' = born
    BY <1>4 DEF SendOwn, SendStart, SendStep, SendRead, SendStored, SendAnswered, SendDeleted,
                SendFailedRead, SendFailedStored, SendFailed, SendStoreFails, SendDeleteFails, envVars
  <2>2. Unknown(x)
    BY <2>1 DEF NewOnes
  <2>3. job[t][x].pc = "idle" /\ ~Turn(t, x)
    BY <1>0, <2>2, NotQueuedNoTurn DEF Unknown, NoJob, TypeOK
  <2> QED BY <1>4, <2>3 DEF SendOwn, SendStart, SendStep, SendRead, SendStored, SendAnswered,
                SendDeleted, SendFailedRead, SendFailedStored, SendFailed, SendStoreFails, SendDeleteFails
<1>5. ASSUME NEW t \in Tabs, NEW l \in Lists, Reconciles(t, l)
      PROVE  Unknown(x)'
  <2>1. Moves(x)
    BY <1>0, <1>5, DriveMoves DEF Reconciles
  <2>2. Unknown(x)
    BY <2>1 DEF NewOnes, Moves, envVars
  <2>3. \A v \in Values(x) : v = None
    BY <2>2 DEF Values, Unknown
  <2>4. /\ disk'[x] = None
        /\ \A u \in Tabs : ram'[u][x] = None
        /\ \A u \in Tabs, m \in Lists : drive'[u][m].left[x] = None
    BY <2>1, <2>3 DEF Moves
  <2> QED BY <2>1, <2>2, <2>4 DEF Unknown, Moves, InNoChain, Received, envVars, histVars
<1>6. ASSUME NEW t \in Tabs, NEW l \in Lists, DriveListed(t, l)
      PROVE  Unknown(x)'
  <2>1. PICK row \in {ram[t][x], drive[t][l].left[x]} :
                /\ Redriven(drive[t][l].kind, x, row) \/ Queues(x)
                /\ (row = "queued" /\ HoldOpen(x)) \/ \A u \in Tabs : x \in timer'[u] => x \in timer[u]
    BY <1>0, <1>6, DriveListedQueues
  <2>2. /\ \A u \in Tabs, m \in Lists : drive'[u][m].left[x] \in {drive[u][m].left[x], None}
        /\ UNCHANGED <<disk, ram, job, call, envVars, histVars, used>>
    BY <1>0, <1>6, DriveListedQueues
  <2>3. Unknown(x)
    BY <2>2 DEF NewOnes, envVars
  <2>4. row = None
    BY <2>1, <2>3 DEF Unknown
  <2>5. Queues(x) /\ \A u \in Tabs : x \in timer'[u] => x \in timer[u]
    BY <2>1, <2>4 DEF Redriven, Resumable, None
  <2> QED BY <2>2, <2>3, <2>5 DEF Unknown, Queues, Received, envVars, histVars
<1>7. CASE ServerReceives(x) \/ HoldElapses(x)
  <2>1. Unknown(x)
    BY <1>7 DEF ServerReceives, HoldElapses, NewOnes
  <2> QED BY <1>7, <2>1 DEF ServerReceives, HoldElapses, Unknown, NoJob
<1> QED BY <1>2, <1>3, <1>4, <1>5, <1>6, <1>7, Views

-----------------------------------------------------------------------------
(* A held delete.                                                           *)

\* Which steps touch a list().
LEMMA DriveMoved ==
    ASSUME [Next]_vars
    PROVE  \/ drive' = drive
           \/ \E t \in Tabs : Crash(t)
           \/ \E t \in Tabs, l \in Lists :
                 \/ Begins(t, l) \/ Resume(t, l) \/ Reconciles(t, l) \/ DriveListed(t, l)
                 \/ DriveStoreFails(t, l)
<1>1. CASE UNCHANGED vars
  BY <1>1 DEF vars
<1>2. ASSUME NEW t \in Tabs, NEW i \in Items, CallOwn(t, i)
      PROVE  drive' = drive
  BY <1>2 DEF CallOwn, Add, AddStored, TimerFires, Cancel, CancelRead, Retry, RetryRead,
              RetryStored, CallStoreFails
<1>3. ASSUME NEW t \in Tabs, NEW i \in Items, SendOwn(t, i)
      PROVE  drive' = drive
  BY <1>3 DEF SendOwn, SendStart, SendStep, SendRead, SendStored, SendAnswered, SendDeleted,
              SendFailedRead, SendFailedStored, SendFailed, SendStoreFails, SendDeleteFails
<1>4. ASSUME NEW t \in Tabs, Pause(t) \/ LockAgain(t) \/ Open(t)
      PROVE  drive' = drive
  BY <1>4 DEF Pause, LockAgain, Open
<1>5. ASSUME NEW i \in Items, ServerReceives(i) \/ HoldElapses(i)
      PROVE  drive' = drive
  BY <1>5 DEF ServerReceives, HoldElapses
<1> QED BY <1>1, <1>2, <1>3, <1>4, <1>5 DEF Next, CallStep, CallOwn, SendOwn, DriveStep, Begins,
                                              Reconciles

\* Only flush() starts a list() of its kind.
LEMMA NoFlush ==
    ASSUME TypeOK, [Next]_vars, used'["flush"] = 0, NEW u \in Tabs, NEW m \in Lists,
           drive[u][m].kind # "flush"
    PROVE  drive'[u][m].kind # "flush"
<1>1. DriveType /\ \A t \in Tabs, l \in Lists : drive[t][l] \in Drive
  BY DEF TypeOK, DriveType
<1>2. ASSUME NEW t \in Tabs, NEW l \in Lists, NEW e, drive' = [drive EXCEPT ![t][l] = e],
             e.kind # "flush" \/ e.kind = drive[t][l].kind
      PROVE  drive'[u][m].kind # "flush"
  <2>1. CASE t = u /\ l = m
    BY <1>1, <1>2, <2>1, Slot
  <2>2. CASE t # u \/ l # m
    BY <1>1, <1>2, <2>2, Slot
  <2> QED BY <2>1, <2>2
<1>3. NoDrive.kind # "flush"
  BY DEF NoDrive
<1>4. CASE drive' = drive
  BY <1>4
<1>5. ASSUME NEW t \in Tabs, NEW l \in Lists, Begins(t, l) \/ Resume(t, l) \/ DriveStoreFails(t, l)
      PROVE  drive'[u][m].kind # "flush"
  <2>1. ~Flush(t, l)
    <3>1. used["flush"] \in Nat /\ used \in [Events -> Nat] /\ "flush" \in Events
      BY DEF TypeOK, HistType, Events
    <3>2. Flush(t, l) => Spend("flush")
      BY DEF Flush
    <3> QED BY <3>1, <3>2 DEF Spend
  <2>2. \/ drive' = [drive EXCEPT ![t][l] = NoDrive]
        \/ \E k \in {"sync", "resume", "online", "policy", "rollback"} : \E cs, p :
              drive' = [drive EXCEPT ![t][l] = Scan(k, cs, p)]
    BY <1>5, <2>1 DEF Begins, StartSync, Resume, Online, SetChatPolicy, DriveStoreFails, StartDrive
  <2>3. \A k, cs, p : Scan(k, cs, p).kind = k
    BY DEF Scan
  <2>4. \E e : drive' = [drive EXCEPT ![t][l] = e] /\ e.kind # "flush"
    <3> HIDE DEF NoDrive
    <3> QED BY <1>3, <2>2, <2>3
  <2> QED BY <1>2, <2>4
<1>6. ASSUME NEW t \in Tabs, NEW l \in Lists, NEW d \in Drive, d.kind = drive[t][l].kind, NEW r,
             RestoreLoop(t, l, d, r)
      PROVE  drive'[u][m].kind # "flush"
  <2>1. \A i \in Items : [d EXCEPT !.pc = "restore", !.cur = {i}].kind = d.kind
    BY DEF Drive
  <2>2. /\ [d EXCEPT !.pc = "list", !.left = disk, !.cur = {}].kind = d.kind
        /\ [d EXCEPT !.pc = "synced", !.left = NoRows, !.cur = {}].kind = d.kind
    BY DEF Drive
  <2>3. CASE drive' = [drive EXCEPT ![t][l] = NoDrive]
    <3> HIDE DEF NoDrive
    <3> QED BY <1>2, <1>3, <2>3
  <2>4. ASSUME NEW e, e.kind = d.kind, drive' = [drive EXCEPT ![t][l] = e]
        PROVE  drive'[u][m].kind # "flush"
    BY <1>2, <1>6, <2>4
  <2>5. \/ drive' = [drive EXCEPT ![t][l] = NoDrive]
        \/ drive' = [drive EXCEPT ![t][l] = [d EXCEPT !.pc = "list", !.left = disk, !.cur = {}]]
        \/ drive' = [drive EXCEPT ![t][l] = [d EXCEPT !.pc = "synced", !.left = NoRows, !.cur = {}]]
        \/ \E i \in Items : drive' = [drive EXCEPT ![t][l] = [d EXCEPT !.pc = "restore", !.cur = {i}]]
    BY <1>6 DEF RestoreLoop
  <2> HIDE DEF NoDrive, NoRows
  <2> QED BY <2>1, <2>2, <2>3, <2>4, <2>5
<1>7. ASSUME NEW t \in Tabs, NEW l \in Lists, DriveEvicts(t, l)
      PROVE  drive'[u][m].kind # "flush"
  <2>1. CASE \E i \in Items : drive' = [drive EXCEPT ![t][l] = [drive[t][l] EXCEPT !.pc = "evict", !.left[i] = None]]
    <3>1. \A i \in Items : [drive[t][l] EXCEPT !.pc = "evict", !.left[i] = None].kind = drive[t][l].kind
      BY <1>1 DEF Drive
    <3> QED BY <1>2, <2>1, <3>1
  <2>2. CASE RestoreLoop(t, l, [drive[t][l] EXCEPT !.left = ram[t]], ram[t])
    <3>1. ram[t] \in [Items -> Rows] /\ drive[t][l] \in Drive
      BY <1>1 DEF TypeOK, StoreType
    <3>2. /\ [drive[t][l] EXCEPT !.left = ram[t]] \in Drive
          /\ [drive[t][l] EXCEPT !.left = ram[t]].kind = drive[t][l].kind
      BY <3>1 DEF Drive
    <3> QED BY <1>6, <2>2, <3>2
  <2> QED BY <1>7, <2>1, <2>2 DEF DriveEvicts, EvictLoop
<1>8. ASSUME NEW t \in Tabs, NEW l \in Lists, DriveStored(t, l)
      PROVE  drive'[u][m].kind # "flush"
  <2>1. /\ drive' = [drive EXCEPT ![t][l] = [drive[t][l] EXCEPT !.pc = "restored"]]
        /\ [drive[t][l] EXCEPT !.pc = "restored"].kind = drive[t][l].kind
    BY <1>1, <1>8 DEF DriveStored, Drive
  <2> QED BY <1>2, <2>1
<1>9. ASSUME NEW t \in Tabs, NEW l \in Lists, DriveRestored(t, l)
      PROVE  drive'[u][m].kind # "flush"
  <2> DEFINE d == drive[t][l]
             W(rows) == [i \in Items |-> IF i \in d.cur THEN None ELSE rows[i]]
             e == [d EXCEPT !.left = W(d.left)]
  <2>1. d.left \in [Items -> Rows] /\ d \in Drive
    BY <1>1 DEF Drive
  <2>2. W(d.left) \in [Items -> Rows]
    BY <2>1 DEF Rows
  <2>3. e \in Drive /\ e.kind = d.kind
    BY <2>1, <2>2 DEF Drive
  <2>4. RestoreLoop(t, l, e, W(ram[t]))
    BY <1>9 DEF DriveRestored
  <2> HIDE DEF e, W
  <2> QED BY <1>6, <2>3, <2>4
<1>10. ASSUME NEW t \in Tabs, NEW l \in Lists, DriveListed(t, l)
       PROVE  drive'[u][m].kind # "flush"
  <2>1. drive' = [drive EXCEPT ![t][l] = NoDrive]
    BY <1>10 DEF DriveListed
  <2> HIDE DEF NoDrive
  <2> QED BY <1>2, <1>3, <2>1
<1>11. ASSUME NEW t \in Tabs, Crash(t)
       PROVE  drive'[u][m].kind # "flush"
  <2>1. drive'[u][m] \in {drive[u][m], NoDrive}
    <3> HIDE DEF NoDrive
    <3> QED BY <1>1, <1>11 DEF Crash, DriveType
  <2> HIDE DEF NoDrive
  <2> QED BY <1>3, <2>1
<1> QED BY <1>4, <1>5, <1>7, <1>8, <1>9, <1>10, <1>11, DriveMoved DEF Reconciles

\* Until its window elapses, no step of any tab queues or starts its send: the
\* stored copies are all queued ones, and a list() arms a timer for those.
LEMMA HeldUntouchedKept ==
    ASSUME ClaimInv, NewOnes, HeldUntouched, [Next]_vars
    PROVE  HeldUntouched'
<1> SUFFICES ASSUME used'["flush"] = 0
             PROVE  /\ \A t \in Tabs, l \in Lists : drive'[t][l].kind # "flush"
                    /\ \A x \in held' : Untouched(x)'
  BY DEF HeldUntouched
<1>1. TypeOK
  BY DEF ClaimInv
<1>2. used["flush"] = 0
  BY <1>1, UsedGrows DEF Events
<1>3. /\ \A t \in Tabs, l \in Lists : drive[t][l].kind # "flush"
      /\ \A x \in held : Untouched(x)
  BY <1>2 DEF HeldUntouched
<1>4. \A t \in Tabs, l \in Lists : drive'[t][l].kind # "flush"
  BY <1>1, <1>3, NoFlush
<1>5. held' \subseteq Items
  <2>1. TypeOK'
    BY ClaimStep DEF ClaimInv
  <2> QED BY <2>1 DEF TypeOK, EnvType, Items
<1>6. ASSUME NEW x \in held'
      PROVE  Untouched(x)'
  <2>0. x \in Items
    BY <1>5, <1>6
  <2>1. CASE Apart(x)
    <3>1. x \in held /\ Untouched(x)
      BY <1>3, <1>6, <2>1 DEF Apart, History
    <3>2. \A t \in Tabs : job[t][x].pc # "request"
      BY <3>1 DEF Untouched, NoJob
    <3>3. x \notin orphan' \cup Received' \cup failedOnce' /\ disk'[x] \in Resting
      BY <2>1, <3>1, <3>2 DEF Untouched, Apart, History, Same
    <3>4. ASSUME NEW t \in Tabs
          PROVE  /\ ram'[t][x] \in Resting
                 /\ \A l \in Lists : drive'[t][l].left[x] \in Resting
                 /\ job'[t][x] = NoJob /\ InNoChain(t, x)'
                 /\ call'[t][x].pc \in {"idle", "add", "cancelRead"} /\ call'[t][x].row \in Resting
      BY <2>1, <3>1 DEF Untouched, Apart, Same, Queues, Resting, NoCall
    <3> QED BY <3>3, <3>4 DEF Untouched
  <2>2. ASSUME NEW t \in Tabs, CallOwn(t, x)
        PROVE  Untouched(x)'
    <3>1. CASE Add(t, x)
      <4>1. Unknown(x)
        BY <2>0, <3>1 DEF Add, NewOnes
      <4>2. UNCHANGED <<orphan, log, failedOnce, drive, job, chain>>
        BY <3>1 DEF Add, workVars
      <4>3. disk'[x] \in Resting /\ \A u \in Tabs : ram'[u][x] \in Resting
        BY <1>1, <2>0, <3>1, <4>1 DEF Add, WriteItem, Unknown, Resting, TypeOK, StoreType
      <4>4. \A u \in Tabs : /\ call'[u][x].pc \in {"idle", "add", "cancelRead"}
                            /\ call'[u][x].row \in Resting
        BY <1>1, <2>0, <3>1, <4>1 DEF Add, PutOf, Unknown, NoCall, Resting, TypeOK, CallType
      <4> QED BY <4>1, <4>2, <4>3, <4>4 DEF Unknown, Untouched, Resting, Received, InNoChain
    <3>2. CASE ~Add(t, x)
      <4>1. held' = held /\ UNCHANGED <<orphan, log, failedOnce, drive, job>>
        BY <2>2, <3>2 DEF CallOwn, AddStored, TimerFires, Cancel, CancelRead, Retry, RetryRead,
                          RetryStored, CallStoreFails, envVars, histVars, workVars
      <4>2. Untouched(x) /\ HoldOpen(x)
        BY <1>3, <1>6, <4>1 DEF HoldOpen
      <4>3. call[t][x].pc \in {"idle", "add", "cancelRead"} /\ call[t][x].row \in Resting
        BY <4>2 DEF Untouched
      <4>4. \/ AddStored(t, x) \/ Cancel(t, x) \/ CancelRead(t, x) \/ CallStoreFails(t, x)
        BY <2>2, <3>2, <4>2, <4>3 DEF CallOwn, TimerFires, Retry, RetryRead, RetryStored, Untouched
      <4>5. chain' = chain
        BY <4>2, <4>4 DEF AddStored, Cancel, CancelRead, CallStoreFails, ScheduleUndo
      <4>6. disk'[x] \in Resting
        BY <1>1, <2>0, <4>2, <4>3, <4>4 DEF AddStored, Cancel, CancelRead, CallStoreFails, PutDone,
           DeleteItem, Untouched, Resting, TypeOK, StoreType
      <4>7. \A u \in Tabs : ram'[u][x] \in Resting
        BY <1>1, <2>0, <4>2, <4>4 DEF AddStored, Cancel, CancelRead, CallStoreFails,
           DeleteItem, Untouched, Resting, TypeOK, StoreType
      <4>8. \A u \in Tabs : /\ call'[u][x].pc \in {"idle", "add", "cancelRead"}
                            /\ call'[u][x].row \in Resting
        <5>1. RowOf(t, x) \in Resting
          BY <4>2 DEF RowOf, Untouched
        <5>2. \E c : /\ call' = [call EXCEPT ![t][x] = c]
                     /\ c = NoCall \/ c = [pc |-> "cancelRead", row |-> RowOf(t, x)]
          BY <4>4 DEF AddStored, Cancel, CancelRead, CallStoreFails, CallReturns
        <5>3. \A u \in Tabs : /\ call[u][x].pc \in {"idle", "add", "cancelRead"}
                              /\ call[u][x].row \in Resting
          BY <4>2 DEF Untouched
        <5> QED BY <1>1, <2>0, <5>1, <5>2, <5>3 DEF NoCall, Resting, TypeOK, CallType
      <4> QED BY <4>1, <4>2, <4>5, <4>6, <4>7, <4>8 DEF Untouched, Received, InNoChain
    <3> QED BY <3>1, <3>2
  <2>3. ASSUME NEW t \in Tabs, SendOwn(t, x)
        PROVE  FALSE
    <3>1. held' = held
      BY <2>3 DEF SendOwn, SendStart, SendStep, SendRead, SendStored, SendAnswered, SendDeleted,
                  SendFailedRead, SendFailedStored, SendFailed, SendStoreFails, SendDeleteFails, envVars
    <3>2. Untouched(x)
      BY <1>3, <1>6, <3>1
    <3>3. job[t][x].pc = "idle" /\ ~Turn(t, x)
      BY <1>1, <2>0, <3>2, NotQueuedNoTurn DEF Untouched, NoJob, TypeOK
    <3> QED BY <2>3, <3>3 DEF SendOwn, SendStart, SendStep, SendRead, SendStored, SendAnswered,
                  SendDeleted, SendFailedRead, SendFailedStored, SendFailed, SendStoreFails, SendDeleteFails
  <2>4. ASSUME NEW t \in Tabs, NEW l \in Lists, Reconciles(t, l)
        PROVE  Untouched(x)'
    <3>1. Moves(x)
      BY <1>1, <2>0, <2>4, DriveMoves DEF Reconciles
    <3>2. Untouched(x)
      BY <1>3, <1>6, <3>1 DEF Moves, envVars
    <3>3. \A v \in Values(x) : v \in Resting
      BY <3>2 DEF Values, Untouched, Resting
    <3>4. /\ disk'[x] \in Resting
          /\ \A u \in Tabs : ram'[u][x] \in Resting
          /\ \A u \in Tabs, m \in Lists : drive'[u][m].left[x] \in Resting
      BY <3>1, <3>3 DEF Moves
    <3> QED BY <3>1, <3>2, <3>4 DEF Untouched, Moves, InNoChain, Received, envVars, histVars
  <2>5. ASSUME NEW t \in Tabs, NEW l \in Lists, DriveListed(t, l)
        PROVE  Untouched(x)'
    <3>1. PICK row \in {ram[t][x], drive[t][l].left[x]} : Redriven(drive[t][l].kind, x, row) \/ Queues(x)
      BY <1>1, <2>0, <2>5, DriveListedQueues
    <3>2. /\ \A u \in Tabs, m \in Lists : drive'[u][m].left[x] \in {drive[u][m].left[x], None}
          /\ UNCHANGED <<disk, ram, job, call, envVars, histVars, used>>
      BY <1>1, <2>0, <2>5, DriveListedQueues
    <3>3. Untouched(x) /\ HoldOpen(x)
      BY <1>3, <1>6, <3>2 DEF envVars, HoldOpen
    <3>4. row \in Resting /\ drive[t][l].kind # "flush"
      BY <1>3, <3>3 DEF Untouched
    <3>5. Queues(x)
      BY <3>1, <3>3, <3>4 DEF Redriven, Resumable, Resting, None
    <3> QED BY <3>2, <3>3, <3>5 DEF Untouched, Queues, Received, Resting, envVars, histVars
  <2>6. CASE ServerReceives(x) \/ HoldElapses(x)
    <3>1. CASE HoldElapses(x)
      BY <1>6, <3>1 DEF HoldElapses
    <3>2. CASE ServerReceives(x)
      <4>1. Untouched(x)
        BY <1>3, <1>6, <3>2 DEF ServerReceives
      <4> QED BY <3>2, <4>1 DEF ServerReceives, Untouched, NoJob
    <3> QED BY <2>6, <3>1, <3>2
  <2> QED BY <2>0, <2>1, <2>2, <2>3, <2>4, <2>5, <2>6, Views
<1> QED BY <1>4, <1>6

-----------------------------------------------------------------------------
(* Who enqueues and who withdraws.                                          *)

\* An enqueue of a new item finds no other; its end acknowledges the item.
LEMMA AddedOnceKept ==
    ASSUME ClaimInv, NewOnes, AddedOnce, [Next]_vars
    PROVE  AddedOnce'
<1> DEFINE Once(x) == \A t \in Tabs :
              /\ call[t][x].pc = "add" =>
                     x \notin acked /\ \A u \in Tabs : call[u][x].pc = "add" => u = t
              /\ call[t][x].pc = "cancelRead" => x \in acked
<1> SUFFICES ASSUME NEW x \in Items PROVE Once(x)'
  BY DEF AddedOnce
<1>0. TypeOK /\ Once(x)
  BY DEF ClaimInv, AddedOnce
<1>1. ASSUME \A u \in Tabs : call'[u][x] \in {call[u][x], NoCall}, x \in acked' <=> x \in acked
      PROVE  Once(x)'
  BY <1>0, <1>1 DEF NoCall
<1>2. CASE Apart(x)
  BY <1>1, <1>2 DEF Apart, Same, History
<1>3. ASSUME NEW t \in Tabs, CallOwn(t, x)
      PROVE  Once(x)'
  <2>1. CASE Add(t, x)
    <3>1. Unknown(x)
      BY <2>1 DEF Add, NewOnes
    <3>2. /\ \A u \in Tabs : u # t => call'[u][x] = NoCall
          /\ call'[t][x].pc = "add" /\ acked' = acked
      BY <1>0, <2>1, <3>1 DEF Add, Unknown, TypeOK, CallType
    <3> QED BY <3>1, <3>2 DEF Unknown, NoCall
  <2>2. CASE AddStored(t, x)
    <3>1. /\ \A u \in Tabs : u # t => call'[u][x] = call[u][x]
          /\ call'[t][x] = NoCall /\ x \in acked' /\ call[t][x].pc = "add"
      BY <1>0, <2>2 DEF AddStored, CallReturns, TypeOK, CallType
    <3> QED BY <1>0, <3>1 DEF NoCall
  <2>3. CASE Cancel(t, x)
    <3>1. /\ \A u \in Tabs : u # t => call'[u][x] = call[u][x]
          /\ call'[t][x].pc = "cancelRead" /\ x \in acked /\ acked' = acked
      BY <1>0, <2>3 DEF Cancel, TypeOK, CallType, histVars
    <3> QED BY <1>0, <3>1
  <2>4. CASE Retry(t, x) \/ RetryRead(t, x)
    <3>1. /\ \A u \in Tabs : u # t => call'[u][x] = call[u][x]
          /\ call'[t][x].pc \in {"retryRead", "retryWrite", "idle"} /\ acked' = acked
      BY <1>0, <2>4 DEF Retry, RetryRead, CallReturns, NoCall, TypeOK, CallType, histVars
    <3> QED BY <1>0, <3>1
  <2>5. CASE TimerFires(t, x) \/ CancelRead(t, x) \/ RetryStored(t, x) \/ CallStoreFails(t, x)
    <3>1. call' \in {call, [call EXCEPT ![t][x] = NoCall]} /\ acked' = acked
      BY <2>5 DEF TimerFires, CancelRead, RetryStored, CallStoreFails, CallReturns, histVars
    <3>2. \A u \in Tabs : call'[u][x] \in {call[u][x], NoCall}
      BY <1>0, <3>1 DEF TypeOK, CallType
    <3> QED BY <1>1, <3>1, <3>2
  <2> QED BY <1>3, <2>1, <2>2, <2>3, <2>4, <2>5 DEF CallOwn
<1>4. ASSUME NEW t \in Tabs, SendOwn(t, x)
      PROVE  UNCHANGED <<call, acked>>
  BY <1>4 DEF SendOwn, SendStart, SendStep, SendRead, SendStored, SendAnswered, SendDeleted,
              SendFailedRead, SendFailedStored, SendFailed, SendStoreFails, SendDeleteFails, histVars
<1>5. ASSUME NEW t \in Tabs, NEW l \in Lists, Reconciles(t, l) \/ DriveListed(t, l)
      PROVE  UNCHANGED <<call, acked>>
  BY <1>5 DEF Reconciles, DriveEvicts, DriveStored, DriveRestored, DriveListed, histVars
<1>6. CASE ServerReceives(x) \/ HoldElapses(x)
  BY <1>0, <1>6 DEF ServerReceives, HoldElapses, histVars
<1> QED BY <1>0, <1>2, <1>3, <1>4, <1>5, <1>6, Views

-----------------------------------------------------------------------------
(* As long as the policy does not change.                                   *)

\* list() leaves the rows where they are.
LEMMA NothingMoved ==
    ASSUME TypeOK, OnePlace, NEW t \in Tabs, NEW l \in Lists, Reconciles(t, l) \/ DriveListed(t, l)
    PROVE  /\ UNCHANGED <<disk, ram, persist, used>>
           /\ \/ drive'[t][l] = NoDrive
              \/ /\ drive'[t][l].kind = drive[t][l].kind
                 /\ \/ drive'[t][l].pc = "list" /\ drive'[t][l].left = disk
                    \/ drive'[t][l].pc = "synced" /\ drive'[t][l].left = NoRows
                       /\ drive[t][l].kind = "sync"
           /\ \A u \in Tabs, m \in Lists : u # t \/ m # l => drive'[u][m] = drive[u][m]
<1>1. /\ DriveType /\ drive[t][l] \in Drive /\ ram[t] \in [Items -> Rows]
      /\ ram \in [Tabs -> [Items -> Rows]]
  BY DEF TypeOK, DriveType, StoreType
<1>2. CASE DriveListed(t, l)
  <2>1. drive' = [drive EXCEPT ![t][l] = NoDrive] /\ UNCHANGED <<disk, ram, persist, used>>
    BY <1>2 DEF DriveListed, tabVars
  <2>2. drive'[t][l] = NoDrive /\ \A u \in Tabs, m \in Lists : u # t \/ m # l => drive'[u][m] = drive[u][m]
    <3>1. drive' = [drive EXCEPT ![t][l] = NoDrive]
      BY <2>1
    <3>2. DriveType
      BY <1>1
    <3> HIDE DEF NoDrive
    <3>3. drive'[t][l] = NoDrive
      BY <3>1, <3>2 DEF DriveType
    <3>4. \A u \in Tabs, m \in Lists : u # t \/ m # l => drive'[u][m] = drive[u][m]
      BY <3>1, <3>2, Slot
    <3> QED BY <3>3, <3>4
  <2> QED BY <2>1, <2>2
<1>3. CASE Reconciles(t, l)
  <2> DEFINE d == drive[t][l]
             e == [d EXCEPT !.left = ram[t]]
  <2>1. d.pc = "scan" /\ d.kind \notin Transitions /\ EvictLoop(t, l, d)
    BY <1>3 DEF Reconciles, DriveEvicts, DriveStored, DriveRestored, OnePlace, Restoring
  <2>2. ASSUME NEW i \in Items PROVE d.left[i] = None \/ Keeps(t, d, i)
    BY <2>1, ChatAssumption DEF OnePlace, InOneRam, Durable, Keeps, Persists
  <2>3. RestoreLoop(t, l, e, ram[t]) /\ UNCHANGED disk
    BY <2>1, <2>2 DEF EvictLoop
  <2>4. e \in Drive /\ e.left = ram[t] /\ e.kind = d.kind
    BY <1>1 DEF Drive
  <2>5. ASSUME NEW i \in Items PROVE e.left[i] = None \/ ~Keeps(t, e, i)
    BY <2>1, <2>4, ChatAssumption DEF OnePlace, OnDisk, Durable, Keeps, Persists
  <2> DEFINE f == [e EXCEPT !.pc = "list", !.left = disk, !.cur = {}]
             g == [e EXCEPT !.pc = "synced", !.left = NoRows, !.cur = {}]
  <2>6. /\ f.pc = "list" /\ f.left = disk /\ f.kind = d.kind
        /\ g.pc = "synced" /\ g.left = NoRows /\ g.kind = d.kind
    <3> HIDE DEF e, NoRows
    <3> QED BY <2>4 DEF Drive
  <2>7. /\ ram' = [ram EXCEPT ![t] = ram[t]] /\ UNCHANGED <<persist, used>>
        /\ \/ drive' = [drive EXCEPT ![t][l] = f]
           \/ drive' = [drive EXCEPT ![t][l] = g] /\ d.kind = "sync"
    <3>1. ~ \E i \in Items : e.left[i] # None /\ ChatOf[i] \in e.chats /\ Keeps(t, e, i)
      BY <2>5
    <3>2. e.kind # "policy" /\ e.kind # "rollback"
      BY <2>1, <2>4 DEF Transitions
    <3> HIDE DEF e, d
    <3> QED BY <2>3, <2>4, <3>1, <3>2 DEF RestoreLoop
  <2>8. ram' = ram
    BY <1>1, <2>7
  <2> HIDE DEF f, g, d, NoRows, NoDrive
  <2>9. drive'[t][l] = f \/ (drive'[t][l] = g /\ d.kind = "sync")
    BY <2>7, Slot DEF TypeOK
  <2>10. \A u \in Tabs, m \in Lists : u # t \/ m # l => drive'[u][m] = drive[u][m]
    BY <2>7, Slot DEF TypeOK
  <2> QED BY <2>3, <2>6, <2>7, <2>8, <2>9, <2>10 DEF d
<1> QED BY <1>2, <1>3

\* Nor does the policy change, and no transition begins.
LEMMA PolicyKept ==
    ASSUME TypeOK, OnePlace, [Next]_vars, used'["policy"] = 0
    PROVE  /\ \A t \in Tabs, c \in Chats : persist'[t][c] = (c \notin CloudOnly)
           /\ \A t \in Tabs, l \in Lists : /\ drive'[t][l].pc \in {"idle", "scan", "synced", "list"}
                                           /\ drive'[t][l].kind \notin Transitions
<1> DEFINE Plain(d) == d.pc \in {"idle", "scan", "synced", "list"} /\ d.kind \notin Transitions
<1>1. DriveType /\ used \in [Events -> Nat]
  BY DEF TypeOK, HistType
<1>2. /\ \A t \in Tabs, c \in Chats : persist[t][c] = (c \notin CloudOnly)
      /\ \A t \in Tabs, l \in Lists : Plain(drive[t][l])
  BY DEF OnePlace
<1>3. Plain(NoDrive)
  BY DEF NoDrive, Transitions
<1>4. persist' = persist
  <2>1. CASE UNCHANGED vars
    BY <2>1 DEF vars, tabVars
  <2>2. ASSUME NEW t \in Tabs, NEW i \in Items, CallOwn(t, i)
        PROVE  persist' = persist
    BY <2>2 DEF CallOwn, Add, AddStored, TimerFires, Cancel, CancelRead, Retry, RetryRead,
                RetryStored, CallStoreFails, tabVars
  <2>3. ASSUME NEW t \in Tabs, NEW i \in Items, SendOwn(t, i)
        PROVE  persist' = persist
    BY <2>3 DEF SendOwn, SendStart, SendStep, SendRead, SendStored, SendAnswered, SendDeleted,
                SendFailedRead, SendFailedStored, SendFailed, SendStoreFails, SendDeleteFails, tabVars
  <2>4. ASSUME NEW t \in Tabs, NEW l \in Lists, Begins(t, l) \/ Resume(t, l)
        PROVE  persist' = persist
    BY <2>4 DEF Begins, StartSync, Resume, Online, Flush, SetChatPolicy, StartDrive, tabVars
  <2>5. ASSUME NEW t \in Tabs, Tabwise(t)
        PROVE  persist' = persist
    BY <2>5 DEF Tabwise, Pause, LockAgain, Crash, Stop, Open, tabVars
  <2>6. ASSUME NEW t \in Tabs, NEW l \in Lists, Reconciles(t, l) \/ DriveListed(t, l)
        PROVE  persist' = persist
    BY <2>6, NothingMoved
  <2>7. ASSUME NEW i \in Items, ServerReceives(i) \/ HoldElapses(i)
        PROVE  persist' = persist
    BY <2>7 DEF ServerReceives, HoldElapses, tabVars
  <2>8. ASSUME NEW t \in Tabs, NEW l \in Lists, DriveStoreFails(t, l)
        PROVE  persist' = persist
    BY <2>8 DEF DriveStoreFails
  <2> QED BY <2>1, <2>2, <2>3, <2>4, <2>5, <2>6, <2>7, <2>8
          DEF Next, CallStep, CallOwn, SendOwn, DriveStep, Reconciles, Begins, Tabwise
<1>5. ASSUME NEW t \in Tabs, NEW l \in Lists
      PROVE  Plain(drive'[t][l])
  <2>1. CASE drive' = drive
    BY <1>2, <2>1
  <2>2. ASSUME NEW u \in Tabs, NEW m \in Lists, Reconciles(u, m) \/ DriveListed(u, m)
        PROVE  Plain(drive'[t][l])
    <3>1. /\ \/ drive'[u][m] = NoDrive
             \/ drive'[u][m].pc \in {"list", "synced"} /\ drive'[u][m].kind = drive[u][m].kind
          /\ \A v \in Tabs, n \in Lists : v # u \/ n # m => drive'[v][n] = drive[v][n]
      BY <2>2, NothingMoved
    <3> HIDE DEF NoDrive
    <3> QED BY <1>2, <1>3, <3>1
  <2>3. ASSUME NEW u \in Tabs, NEW m \in Lists, NEW e, drive' = [drive EXCEPT ![u][m] = e], Plain(e)
        PROVE  Plain(drive'[t][l])
    <3> HIDE DEF Plain
    <3> QED BY <1>1, <1>2, <2>3, Slot
  <2>4. ASSUME NEW u \in Tabs, NEW m \in Lists, Begins(u, m) \/ Resume(u, m)
        PROVE  Plain(drive'[t][l])
    <3>1. ~ \E c \in Chats : SetChatPolicy(u, m, c)
      <4>1. "policy" \in Events /\ used["policy"] \in Nat
        BY <1>1 DEF Events
      <4>2. ASSUME NEW c \in Chats, SetChatPolicy(u, m, c)
            PROVE  Spend("policy")
        BY <4>2 DEF SetChatPolicy
      <4> QED BY <1>1, <4>1, <4>2 DEF Spend
    <3>2. \/ drive' = [drive EXCEPT ![u][m] = NoDrive]
          \/ \E k \in {"sync", "resume", "online", "flush"} :
                drive' = [drive EXCEPT ![u][m] = Scan(k, Chats, FALSE)]
      BY <2>4, <3>1 DEF Begins, StartSync, Resume, Online, Flush, StartDrive
    <3>3. \A k \in {"sync", "resume", "online", "flush"} : Plain(Scan(k, Chats, FALSE))
      BY DEF Scan, Transitions
    <3> HIDE DEF NoDrive, Plain
    <3> QED BY <1>3, <2>3, <3>2, <3>3
  <2>5. ASSUME NEW u \in Tabs, NEW m \in Lists, DriveStoreFails(u, m)
        PROVE  Plain(drive'[t][l])
    <3>1. drive' = [drive EXCEPT ![u][m] = NoDrive]
      BY <1>2, <2>5 DEF DriveStoreFails, Transitions
    <3> HIDE DEF NoDrive, Plain
    <3> QED BY <1>3, <2>3, <3>1
  <2>6. ASSUME NEW u \in Tabs, Crash(u)
        PROVE  Plain(drive'[t][l])
    <3>1. drive'[t][l] \in {drive[t][l], NoDrive}
      <4> HIDE DEF NoDrive
      <4> QED BY <1>1, <2>6 DEF Crash, DriveType
    <3> HIDE DEF NoDrive, Plain
    <3> QED BY <1>2, <1>3, <3>1
  <2> HIDE DEF Plain
  <2> QED BY <2>1, <2>2, <2>4, <2>5, <2>6, DriveMoved
<1> QED BY <1>2, <1>4, <1>5

\* Where a row of each kind of chat may be.
Placed(i) == IF Durable(i) THEN OnDisk(i) ELSE InOneRam(i)

\* The item's own calls keep it there, ...
LEMMA CallPlaced ==
    ASSUME TypeOK, NewOnes, OnePlace, NEW t \in Tabs, NEW x \in Items, CallOwn(t, x)
    PROVE  Placed(x)'
<1>1. /\ call \in [Tabs -> [Items -> Call]] /\ disk \in [Items -> Rows]
      /\ ram \in [Tabs -> [Items -> Rows]] /\ Placed(x)
  BY DEF TypeOK, CallType, StoreType, OnePlace, Placed
<1>2. Persists(t, x) <=> Durable(x)
  BY ChatAssumption DEF OnePlace, Persists, Durable
<1>3. CASE Durable(x)
  <2>1. \A u \in Tabs : ram'[u][x] = None
    BY <1>1, <1>2, <1>3 DEF CallOwn, Placed, OnDisk, Add, AddStored, TimerFires, Cancel,
       CancelRead, Retry, RetryRead, RetryStored, CallStoreFails, WriteItem, DeleteItem
  <2>2. \A u \in Tabs : call'[u][x].pc = "add" => call'[u][x].row # None
    <3>1. CASE Add(t, x)
      BY <1>1, <1>2, <1>3, <3>1 DEF Placed, OnDisk, Add, PutOf, None
    <3>2. CASE ~Add(t, x)
      <4>1. \A u \in Tabs : call'[u][x] = call[u][x] \/ call'[u][x].pc # "add"
        BY <1>1, <3>2 DEF CallOwn, AddStored, TimerFires, Cancel, CancelRead, Retry, RetryRead,
           RetryStored, CallStoreFails, CallReturns, NoCall
      <4> QED BY <1>1, <1>3, <4>1 DEF Placed, OnDisk
    <3> QED BY <3>1, <3>2
  <2> QED BY <1>3, <2>1, <2>2 DEF Placed, OnDisk, Durable
<1>4. CASE ~Durable(x)
  <2>1. InOneRam(x) /\ job' = job /\ drive' = drive
    BY <1>1, <1>4 DEF Placed, CallOwn, Add, AddStored, TimerFires, Cancel, CancelRead, Retry,
       RetryRead, RetryStored, CallStoreFails, workVars
  <2>2. disk'[x] = None
    BY <1>1, <1>2, <1>4, <2>1 DEF CallOwn, InOneRam, Add, AddStored, TimerFires, Cancel,
       CancelRead, Retry, RetryRead, RetryStored, CallStoreFails, WriteItem, DeleteItem, PutDone
  <2>3. \A u \in Tabs : call'[u][x].pc \in {"add", "retryWrite"} => call'[u][x].row = None
    <3>1. \A u \in Tabs : \/ call'[u][x] = call[u][x] \/ call'[u][x].pc \in {"idle", "cancelRead", "retryRead"}
                          \/ call'[u][x].row = PutOf(t, x, "queued")
      BY <1>1 DEF CallOwn, Add, AddStored, TimerFires, Cancel, CancelRead, Retry, RetryRead,
         RetryStored, CallStoreFails, CallReturns, NoCall
    <3> QED BY <1>2, <1>4, <2>1, <3>1 DEF InOneRam, PutOf
  <2>4. \A u \in Tabs : Knows(u, x)' => Knows(u, x) \/ (u = t /\ Add(t, x))
    <3>1. \A u \in Tabs : u # t => ram'[u][x] = ram[u][x] /\ call'[u][x] = call[u][x]
      BY <1>1 DEF CallOwn, Add, AddStored, TimerFires, Cancel, CancelRead, Retry, RetryRead,
         RetryStored, CallStoreFails, CallReturns, WriteItem, DeleteItem
    <3>2. ~Add(t, x) /\ ram'[t][x] # None => ram[t][x] # None \/ call[t][x].row # None
      BY <1>1 DEF CallOwn, AddStored, TimerFires, Cancel, CancelRead, Retry, RetryRead,
         RetryStored, CallStoreFails, WriteItem, DeleteItem, None
    <3>3. ~Add(t, x) /\ call'[t][x].row # None => ram[t][x] # None \/ call[t][x].row # None
      <4>1. RowOf(t, x) # None => ram[t][x] # None
        BY <2>1 DEF RowOf, InOneRam
      <4>2. PutOf(t, x, "queued") = None
        BY <1>2, <1>4 DEF PutOf
      <4> QED BY <1>1, <4>1, <4>2 DEF CallOwn, AddStored, TimerFires, Cancel, CancelRead,
            Retry, RetryRead, RetryStored, CallStoreFails, CallReturns, NoCall
    <3> QED BY <2>1, <3>1, <3>2, <3>3 DEF Knows
  <2>5. ASSUME NEW u \in Tabs, NEW v \in Tabs, Knows(u, x)', Knows(v, x)'
        PROVE  u = v
    <3>1. Add(t, x) => \A w \in Tabs : ~Knows(w, x)
      BY DEF Add, NewOnes, Unknown, Knows, NoJob, NoCall
    <3> QED BY <2>1, <2>4, <2>5, <3>1 DEF InOneRam
  <2> QED BY <1>4, <2>1, <2>2, <2>3, <2>5 DEF Placed, InOneRam, Durable
<1> QED BY <1>3, <1>4

\* A step of sendClaimed() that goes on.
LEMMA WorkGives ==
    ASSUME WorkType, NEW t \in Tabs, NEW x \in Items, NEW pc, NEW row, Work(t, x, pc, row)
    PROVE  job'[t][x].pc = pc /\ job'[t][x].row = row
<1> DEFINE r == [job[t][x] EXCEPT !.pc = pc, !.row = row]
<1>1. r.pc = pc /\ r.row = row
  BY DEF WorkType, Job
<1>2. job' = [job EXCEPT ![t][x] = r]
  BY DEF Work
<1> HIDE DEF r
<1> QED BY <1>1, <1>2 DEF WorkType

\* ... and so do its sends.
LEMMA SendPlaced ==
    ASSUME TypeOK, OnePlace, NEW t \in Tabs, NEW x \in Items, SendOwn(t, x)
    PROVE  Placed(x)'
<1>1. /\ job \in [Tabs -> [Items -> Job]] /\ disk \in [Items -> Rows]
      /\ ram \in [Tabs -> [Items -> Rows]] /\ Placed(x)
  BY DEF TypeOK, WorkType, StoreType, OnePlace, Placed
<1>2. Persists(t, x) <=> Durable(x)
  BY ChatAssumption DEF OnePlace, Persists, Durable
<1>3. call' = call /\ drive' = drive
  BY DEF SendOwn, SendStart, SendStep, SendRead, SendStored, SendAnswered, SendDeleted,
         SendFailedRead, SendFailedStored, SendFailed, SendStoreFails, SendDeleteFails
<1>4. CASE Durable(x)
  <2>1. \A u \in Tabs : ram'[u][x] = None
    BY <1>1, <1>2, <1>4 DEF Placed, OnDisk, WriteItem, DeleteItem, SendOwn, SendStart, SendStep,
       SendRead, SendStored, SendAnswered, SendDeleted, SendFailedRead, SendFailedStored,
       SendFailed, SendStoreFails, SendDeleteFails
  <2> QED BY <1>1, <1>3, <1>4, <2>1 DEF Placed, OnDisk, Durable
<1>5. CASE ~Durable(x)
  <2>1. InOneRam(x)
    BY <1>1, <1>5 DEF Placed
  <2>2. disk'[x] = None
    BY <1>1, <1>2, <1>5, <2>1 DEF InOneRam, WriteItem, DeleteItem, PutDone, SendOwn, SendStart, SendStep,
       SendRead, SendStored, SendAnswered, SendDeleted, SendFailedRead, SendFailedStored,
       SendFailed, SendStoreFails, SendDeleteFails
  <2>3. \A u \in Tabs : u # t => job'[u][x] = job[u][x] /\ ram'[u][x] = ram[u][x]
    <3>1. \E v : job' = [job EXCEPT ![t][x] = v]
      BY DEF SendOwn, SendStart, SendStep, SendRead, SendStored, SendAnswered, SendDeleted, SendFailedRead,
             SendFailedStored, SendFailed, SendStoreFails, SendDeleteFails, Work, Finish
    <3>2. \A u \in Tabs : u # t => ram'[u][x] = ram[u][x]
      BY <1>1 DEF WriteItem, DeleteItem, SendOwn, SendStart, SendStep, SendRead, SendStored,
         SendAnswered, SendDeleted, SendFailedRead, SendFailedStored, SendFailed, SendStoreFails, SendDeleteFails
    <3> QED BY <1>1, <3>1, <3>2, Point
  <2>4. /\ job'[t][x].row # None => job'[t][x].pc \notin {"write", "writeFailed"}
        /\ Knows(t, x)' => Knows(t, x)
    <3>1. RowOf(t, x) = ram[t][x] /\ disk[x] = None
      BY <2>1 DEF InOneRam, RowOf
    <3>2. ASSUME NEW pc, NEW row, Work(t, x, pc, row)
          PROVE  job'[t][x].pc = pc /\ job'[t][x].row = row
      BY <1>1, <3>2, WorkGives DEF TypeOK
    <3>3. CASE Finish(t, x)
      <4>1. job'[t][x] = NoJob
        BY <1>1, <3>3 DEF Finish
      <4>2. ram'[t][x] \in {ram[t][x], None}
        <5>1. \A row : ~Work(t, x, "write", row) /\ ~Work(t, x, "writeFailed", row)
          BY <3>2, <4>1 DEF NoJob
        <5> QED BY <1>1, <3>3, <5>1 DEF SendOwn, SendStart, SendStep, SendRead, SendStored, SendAnswered,
              SendDeleted, SendFailedRead, SendFailedStored, SendFailed, SendStoreFails, SendDeleteFails,
              DeleteItem
      <4> QED BY <1>3, <4>1, <4>2 DEF Knows, NoJob
    <3>4. CASE SendStart(t, x)
      <4>1. job'[t][x].pc = "read" /\ job'[t][x].row = ram[t][x] /\ ram' = ram
        BY <1>1, <3>1, <3>4 DEF SendStart
      <4> QED BY <1>3, <4>1 DEF Knows
    <3>5. CASE SendRead(t, x) /\ ~Finish(t, x)
      <4>1. job[t][x].row # None /\ Work(t, x, "write", None)
        BY <1>2, <1>5, <3>5 DEF SendRead, PutOf
      <4> QED BY <3>2, <4>1 DEF Knows
    <3>6. CASE SendStored(t, x) /\ ~Finish(t, x)
      <4>1. Work(t, x, "request", None) /\ ram' = ram
        BY <3>6 DEF SendStored
      <4> QED BY <1>3, <3>2, <4>1 DEF Knows
    <3>7. CASE SendAnswered(t, x)
      <4>1. Work(t, x, "delete", None) /\ ram'[t][x] = None
        BY <1>1, <3>7 DEF SendAnswered, DeleteItem
      <4> QED BY <1>3, <3>2, <4>1 DEF Knows
    <3>8. CASE SendFailed(t, x)
      <4>1. Work(t, x, "readFailed", ram[t][x]) /\ ram' = ram
        BY <3>1, <3>8 DEF SendFailed
      <4> QED BY <1>3, <3>2, <4>1 DEF Knows
    <3>9. CASE SendFailedRead(t, x) /\ ~Finish(t, x)
      <4>1. job[t][x].row # None /\ Work(t, x, "writeFailed", None)
        BY <1>2, <1>5, <3>9 DEF SendFailedRead, PutOf
      <4> QED BY <3>2, <4>1 DEF Knows
    <3>10. CASE SendDeleteFails(t, x)
      <4>1. Work(t, x, "readFailed", None) /\ ram'[t][x] = None
        BY <1>1, <3>1, <3>10 DEF SendDeleteFails
      <4> QED BY <1>3, <3>2, <4>1 DEF Knows
    <3>11. (SendDeleted(t, x) \/ SendFailedStored(t, x) \/ SendStoreFails(t, x)) => Finish(t, x)
      BY DEF SendDeleted, SendFailedStored, SendStoreFails
    <3> QED BY <3>3, <3>4, <3>5, <3>6, <3>7, <3>8, <3>9, <3>10, <3>11 DEF SendOwn, SendStep
  <2>5. ASSUME NEW u \in Tabs, NEW v \in Tabs, Knows(u, x)', Knows(v, x)'
        PROVE  u = v
    BY <1>3, <2>1, <2>3, <2>4, <2>5 DEF InOneRam, Knows
  <2> QED BY <1>3, <1>5, <2>1, <2>2, <2>3, <2>4, <2>5 DEF Placed, InOneRam, Durable
<1> QED BY <1>4, <1>5

\* Without a transition every row stays in the kind of place it was written to.
LEMMA FixedPolicyKept ==
    ASSUME ClaimInv, NewOnes, FixedPolicy, [Next]_vars
    PROVE  FixedPolicy'
<1> SUFFICES ASSUME used'["policy"] = 0 PROVE OnePlace'
  BY DEF FixedPolicy
<1>1. TypeOK
  BY DEF ClaimInv
<1>2. OnePlace
  BY <1>1, UsedGrows DEF FixedPolicy, Events
<1>3. ASSUME NEW x \in Items
      PROVE  Placed(x)'
  <2>0. Placed(x)
    BY <1>2 DEF OnePlace, Placed
  <2>1. CASE Apart(x)
    <3>1. \A u \in Tabs : Knows(u, x)' => Knows(u, x)
      BY <2>1 DEF Apart, Same, Knows, NoJob, NoCall
    <3>2. CASE Durable(x)
      BY <2>0, <2>1, <3>2 DEF Placed, OnDisk, Durable, Apart, Same, NoCall
    <3>3. CASE ~Durable(x)
      <4>1. InOneRam(x) /\ disk'[x] = None
        BY <2>0, <2>1, <3>3 DEF Placed, InOneRam, Apart, Same
      <4>2. ASSUME NEW u \in Tabs
            PROVE  /\ \A m \in Lists : drive'[u][m].left[x] = None
                   /\ call'[u][x].pc \in {"add", "retryWrite"} => call'[u][x].row = None
                   /\ job'[u][x].pc \in {"write", "writeFailed"} => job'[u][x].row = None
        BY <2>1, <4>1 DEF InOneRam, Apart, Same, NoCall, NoJob
      <4>3. \A u, v \in Tabs : Knows(u, x)' /\ Knows(v, x)' => u = v
        BY <3>1, <4>1 DEF InOneRam
      <4> QED BY <3>3, <4>1, <4>2, <4>3 DEF Placed, InOneRam, Durable
    <3> QED BY <3>2, <3>3
  <2>2. ASSUME NEW t \in Tabs, NEW l \in Lists, Reconciles(t, l) \/ DriveListed(t, l)
        PROVE  Placed(x)'
    <3>1. UNCHANGED <<disk, ram, job, call>>
      BY <1>1, <1>2, <2>2, NothingMoved DEF Reconciles, DriveEvicts, DriveStored, DriveRestored,
         DriveListed, workVars
    <3>2. \A u \in Tabs, m \in Lists : drive'[u][m].left[x] \in {drive[u][m].left[x], disk[x], None}
      <4>1. NoDrive.left[x] = None /\ NoRows[x] = None
        BY DEF NoDrive, NoRows
      <4> HIDE DEF NoDrive, NoRows
      <4> QED BY <1>1, <1>2, <2>2, <4>1, NothingMoved
    <3> QED BY <2>0, <3>1, <3>2 DEF Placed, OnDisk, InOneRam, Durable, Knows
  <2>3. CASE ServerReceives(x) \/ HoldElapses(x)
    BY <2>0, <2>3 DEF ServerReceives, HoldElapses, workVars, Placed, OnDisk, InOneRam, Durable, Knows
  <2> QED BY <1>1, <1>2, <2>1, <2>2, <2>3, CallPlaced, SendPlaced, Views
<1>4. \A x \in Items : (IF Durable(x) THEN OnDisk(x) ELSE InOneRam(x))'
  BY <1>3 DEF Placed
<1> QED BY <1>1, <1>2, <1>4, PolicyKept DEF OnePlace

\* Only an answered request, or a cancel() that withdraws the item, deletes an
\* acknowledged row of a durable chat.
LEMMA NoLossKept ==
    ASSUME ClaimInv, NewOnes, FixedPolicy, NoLoss, [Next]_vars
    PROVE  NoLoss'
<1> SUFFICES ASSUME used'["policy"] = 0, NEW x \in acked' \ (Received' \cup undone'), Durable(x)
             PROVE  disk'[x] # None
  BY DEF NoLoss, Durable
<1>1. TypeOK /\ TypeOK'
  BY ClaimStep DEF ClaimInv
<1>2. x \in Items
  BY <1>1 DEF TypeOK, HistType
<1>3. used["policy"] = 0 /\ OnePlace
  BY <1>1, UsedGrows DEF FixedPolicy, Events
<1>4. x \in acked \ (Received \cup undone) => disk[x] # None
  BY <1>3 DEF NoLoss, Durable
<1>5. OnDisk(x) /\ disk \in [Items -> Rows]
  BY <1>1, <1>2, <1>3 DEF OnePlace, TypeOK, StoreType
<1>6. \A t \in Tabs : Persists(t, x)
  BY <1>2, <1>3, ChatAssumption DEF OnePlace, Persists, Durable
<1>7. CASE Apart(x)
  BY <1>4, <1>7 DEF Apart, Same, History
<1>8. ASSUME NEW t \in Tabs, CallOwn(t, x)
      PROVE  disk'[x] # None
  <2>1. CASE Add(t, x)
    BY <1>2, <2>1 DEF Add, NewOnes, Unknown
  <2>2. CASE AddStored(t, x)
    BY <1>2, <1>5, <2>2 DEF AddStored, OnDisk, PutDone
  <2>3. CASE CancelRead(t, x)
    <3>1. UNCHANGED <<disk, acked, log, undone>>
      BY <2>3 DEF CancelRead, envVars
    <3> QED BY <1>4, <3>1 DEF Received
  <2>4. CASE ~Add(t, x) /\ ~AddStored(t, x) /\ ~CancelRead(t, x)
    <3>1. UNCHANGED <<acked, log, undone>>
      BY <1>8, <2>4 DEF CallOwn, TimerFires, Cancel, Retry, RetryRead, RetryStored, CallStoreFails,
                        envVars, histVars
    <3>2. disk'[x] \in {disk[x], call[t][x].row} \ {None} \/ disk'[x] = disk[x]
      BY <1>2, <1>5, <1>6, <1>8, <2>4 DEF CallOwn, TimerFires, Cancel, Retry, RetryRead, RetryStored,
         CallStoreFails, WriteItem, PutDone
    <3> QED BY <1>4, <3>1, <3>2 DEF Received
  <2> QED BY <2>1, <2>2, <2>3, <2>4
<1>9. ASSUME NEW t \in Tabs, SendOwn(t, x)
      PROVE  disk'[x] # None
  <2>1. UNCHANGED <<acked, log, undone>>
    BY <1>9 DEF SendOwn, SendStart, SendStep, SendRead, SendStored, SendAnswered, SendDeleted,
                SendFailedRead, SendFailedStored, SendFailed, SendStoreFails, SendDeleteFails, envVars, histVars
  <2>2. ~SendAnswered(t, x)
    BY <2>1 DEF SendAnswered, Received
  <2>3. disk'[x] \in {disk[x], job[t][x].row} \ {None} \/ disk'[x] = disk[x]
    BY <1>2, <1>5, <1>6, <1>9, <2>2 DEF SendOwn, SendStart, SendStep, SendRead, SendStored, SendDeleted,
                SendFailedRead, SendFailedStored, SendFailed, SendStoreFails, SendDeleteFails, WriteItem, PutDone
  <2> QED BY <1>4, <2>1, <2>3 DEF Received
<1>10. ASSUME NEW t \in Tabs, NEW l \in Lists, Reconciles(t, l) \/ DriveListed(t, l)
       PROVE  disk'[x] # None
  <2>1. UNCHANGED <<disk, acked, log, undone>>
    BY <1>1, <1>3, <1>10, NothingMoved DEF Reconciles, DriveEvicts, DriveStored, DriveRestored,
       DriveListed, envVars, histVars
  <2> QED BY <1>4, <2>1 DEF Received
<1>11. CASE ServerReceives(x) \/ HoldElapses(x)
  <2>1. UNCHANGED <<disk, acked, undone>> /\ (x \in Received => x \in Received')
    <3>1. CASE HoldElapses(x)
      BY <3>1 DEF HoldElapses, histVars, Received
    <3>2. CASE ServerReceives(x)
      BY <3>2 DEF ServerReceives, histVars, Received
    <3> QED BY <1>11, <3>1, <3>2
  <2> QED BY <1>4, <2>1
<1> QED BY <1>2, <1>7, <1>8, <1>9, <1>10, <1>11, Views

\* A cancel() inside the window finds the one copy there is, and no call, sender
\* or list() that began before it brings the row back.
LEMMA WithdrawnGoneKept ==
    ASSUME ClaimInv, NewOnes, HeldUntouched, AddedOnce, FixedPolicy, WithdrawnGone, [Next]_vars
    PROVE  WithdrawnGone'
<1> SUFFICES ASSUME used'["policy"] = 0, used'["flush"] = 0, NEW x \in undoneHeld'
             PROVE  Gone(x)'
  BY DEF WithdrawnGone
<1>1. TypeOK /\ TypeOK'
  BY ClaimStep DEF ClaimInv
<1>2. x \in Items
  BY <1>1 DEF TypeOK, HistType
<1>3. used["policy"] = 0 /\ used["flush"] = 0 /\ OnePlace
  BY <1>1, UsedGrows DEF FixedPolicy, Events
<1>4. x \in undoneHeld => Gone(x)
  BY <1>3 DEF WithdrawnGone
<1>5. x \in held => Untouched(x)
  BY <1>3 DEF HeldUntouched
<1>6. /\ call \in [Tabs -> [Items -> Call]] /\ job \in [Tabs -> [Items -> Job]]
      /\ disk \in [Items -> Rows] /\ ram \in [Tabs -> [Items -> Rows]]
  BY <1>1 DEF TypeOK, CallType, WorkType, StoreType
<1>7. CASE Apart(x)
  <2>1. Gone(x)
    BY <1>4, <1>7 DEF Apart, History
  <2>2. x \in acked' \ (orphan' \cup Received') /\ disk'[x] = None
    BY <1>7, <2>1 DEF Gone, Apart, Same, History
  <2>3. ASSUME NEW t \in Tabs
        PROVE  /\ ram'[t][x] = None
               /\ job'[t][x].pc = "idle" \/ (job'[t][x].pc = "read" /\ job'[t][x].row = None)
               /\ \/ call'[t][x].pc \in {"idle", "cancelRead"}
                  \/ call'[t][x].pc = "retryRead" /\ call'[t][x].row = None
    BY <1>7, <2>1 DEF Gone, Apart, Same, NoJob, NoCall
  <2> QED BY <2>2, <2>3 DEF Gone
<1>8. ASSUME NEW t \in Tabs, CallOwn(t, x)
      PROVE  Gone(x)'
  <2>1. CASE CancelRead(t, x) /\ x \notin undoneHeld
    <3>1. x \in held /\ call[t][x].row = "queued" /\ DeleteItem(t, x) /\ call[t][x].pc = "cancelRead"
      BY <2>1 DEF CancelRead
    <3>2. Untouched(x) /\ x \in acked
      BY <1>2, <1>5, <3>1 DEF AddedOnce
    <3>3. UNCHANGED <<acked, orphan, log, job>> /\ disk'[x] = None /\ call' = [call EXCEPT ![t][x] = NoCall]
      BY <1>2, <1>6, <2>1, <3>1 DEF CancelRead, DeleteItem, CallReturns, envVars, workVars
    <3>4. \A u \in Tabs : ram'[u][x] = None
      <4>1. ram'[t][x] = None /\ \A u \in Tabs : u # t => ram'[u][x] = ram[u][x]
        BY <1>2, <1>6, <3>1 DEF DeleteItem
      <4>2. \A u \in Tabs : u # t => ram[u][x] = None
        BY <1>2, <1>3, <3>1 DEF OnePlace, OnDisk, InOneRam, Knows, None
      <4> QED BY <4>1, <4>2
    <3>5. \A u \in Tabs : call'[u][x].pc \in {"idle", "cancelRead"}
      <4>1. \A u \in Tabs : call[u][x].pc \in {"idle", "cancelRead"}
        BY <1>2, <3>2 DEF Untouched, AddedOnce
      <4> QED BY <1>2, <1>6, <3>3, <4>1 DEF NoCall
    <3> QED BY <3>2, <3>3, <3>4, <3>5 DEF Gone, Untouched, NoJob, Received
  <2>2. CASE x \in undoneHeld
    <3>1. Gone(x)
      BY <1>4, <2>2
    <3>2. ~Add(t, x) /\ ~AddStored(t, x) /\ ~RetryStored(t, x) /\ RowOf(t, x) = None
      BY <1>2, <3>1 DEF Gone, Add, NewOnes, Unknown, AddStored, RetryStored, RowOf
    <3>3. UNCHANGED <<acked, orphan, log, job>>
      BY <1>8, <3>2 DEF CallOwn, TimerFires, Cancel, CancelRead, Retry, RetryRead, CallStoreFails,
                        envVars, histVars, workVars
    <3>4. RetryRead(t, x) => UNCHANGED <<ram, disk>> /\ CallReturns(t, x)
      BY <3>1 DEF RetryRead, Gone, None
    <3>5. disk'[x] = None /\ \A u \in Tabs : ram'[u][x] = None
      BY <1>2, <1>6, <1>8, <3>1, <3>2, <3>4 DEF CallOwn, TimerFires, Cancel, CancelRead, Retry,
         CallStoreFails, DeleteItem, Gone
    <3>6. \A u \in Tabs : \/ call'[u][x].pc \in {"idle", "cancelRead"}
                          \/ call'[u][x].pc = "retryRead" /\ call'[u][x].row = None
      <4>1. \/ call' = call
            \/ call' = [call EXCEPT ![t][x] = NoCall]
            \/ call' = [call EXCEPT ![t][x] = [pc |-> "cancelRead", row |-> None]]
            \/ call' = [call EXCEPT ![t][x] = [pc |-> "retryRead", row |-> None]]
        BY <1>8, <3>2, <3>4 DEF CallOwn, TimerFires, Cancel, CancelRead, Retry, CallStoreFails, CallReturns
      <4>2. NoCall.pc = "idle"
        BY DEF NoCall
      <4> DEFINE w == [pc |-> "cancelRead", row |-> None]
                 r == [pc |-> "retryRead", row |-> None]
      <4>4. w.pc = "cancelRead" /\ r.pc = "retryRead" /\ r.row = None
        OBVIOUS
      <4>5. call' \in {call, [call EXCEPT ![t][x] = NoCall], [call EXCEPT ![t][x] = w], [call EXCEPT ![t][x] = r]}
        BY <4>1
      <4> HIDE DEF w, r, NoCall
      <4>3. \A u \in Tabs : \/ call[u][x].pc \in {"idle", "cancelRead"}
                            \/ call[u][x].pc = "retryRead" /\ call[u][x].row = None
        BY <3>1 DEF Gone
      <4> QED BY <1>2, <1>6, <4>2, <4>3, <4>4, <4>5
    <3> QED BY <3>1, <3>3, <3>5, <3>6 DEF Gone, Received
  <2>3. CASE x \notin undoneHeld /\ ~CancelRead(t, x)
    <3>1. undoneHeld' = undoneHeld
      BY <1>8, <2>3 DEF CallOwn, Add, AddStored, TimerFires, Cancel, Retry, RetryRead, RetryStored,
                        CallStoreFails, histVars
    <3> QED BY <2>3, <3>1
  <2> QED BY <2>1, <2>2, <2>3
<1>9. ASSUME NEW t \in Tabs, SendOwn(t, x)
      PROVE  Gone(x)'
  <2>1. undoneHeld' = undoneHeld
    BY <1>9 DEF SendOwn, SendStart, SendStep, SendRead, SendStored, SendAnswered, SendDeleted,
                SendFailedRead, SendFailedStored, SendFailed, SendStoreFails, SendDeleteFails, histVars
  <2>2. Gone(x) /\ RowOf(t, x) = None
    BY <1>4, <2>1 DEF Gone, RowOf
  <2>3. job[t][x].pc \in {"idle", "read"} /\ (job[t][x].pc = "read" => job[t][x].row = None)
    BY <2>2 DEF Gone
  <2>4. \/ SendStart(t, x)
        \/ Finish(t, x) /\ (SendRead(t, x) \/ SendStoreFails(t, x)) /\ UNCHANGED <<ram, disk>>
    BY <1>9, <2>3 DEF SendOwn, SendStep, SendRead, SendStored, SendAnswered, SendDeleted,
                SendFailedRead, SendFailedStored, SendFailed, SendStoreFails, SendDeleteFails
  <2>5. UNCHANGED <<disk, ram, call, acked, orphan, log>>
    BY <2>4 DEF SendStart, SendRead, SendStoreFails, envVars, histVars
  <2>6. \A u \in Tabs : job'[u][x].pc = "idle" \/ (job'[u][x].pc = "read" /\ job'[u][x].row = None)
    <3>1. \/ job' = [job EXCEPT ![t][x] = NoJob]
          \/ job' = [job EXCEPT ![t][x] = [pc |-> "read", live |-> TRUE, row |-> None]]
      BY <2>2, <2>4 DEF SendStart, Finish
    <3>2. \E v : job' = [job EXCEPT ![t][x] = v] /\ (v.pc = "idle" \/ (v.pc = "read" /\ v.row = None))
      BY <3>1 DEF NoJob
    <3>3. \A u \in Tabs : job[u][x].pc = "idle" \/ (job[u][x].pc = "read" /\ job[u][x].row = None)
      BY <2>2 DEF Gone
    <3> QED BY <1>2, <1>6, <3>2, <3>3
  <2> QED BY <2>2, <2>5, <2>6 DEF Gone, Received
<1>10. ASSUME NEW t \in Tabs, NEW l \in Lists, Reconciles(t, l) \/ DriveListed(t, l)
       PROVE  Gone(x)'
  <2>1. UNCHANGED <<disk, ram, job, call, acked, undoneHeld, orphan, log>>
    BY <1>1, <1>3, <1>10, NothingMoved DEF Reconciles, DriveEvicts, DriveStored, DriveRestored,
       DriveListed, workVars, envVars, histVars
  <2> QED BY <1>4, <2>1 DEF Gone, Received
<1>11. CASE ServerReceives(x) \/ HoldElapses(x)
  <2>1. Gone(x)
    BY <1>4, <1>11 DEF ServerReceives, HoldElapses, histVars
  <2>2. CASE HoldElapses(x)
    BY <2>1, <2>2 DEF HoldElapses, Gone, Received, workVars, histVars
  <2>3. CASE ServerReceives(x)
    BY <2>1, <2>3 DEF ServerReceives, Gone
  <2> QED BY <1>11, <2>2, <2>3
<1> QED BY <1>2, <1>7, <1>8, <1>9, <1>10, <1>11, Views

-----------------------------------------------------------------------------
(* The theorems.                                                            *)

\* Nobody has queued anything yet.
LEMMA RowInit == Init => RowInv
<1> SUFFICES ASSUME Init PROVE RowInv
  OBVIOUS
<1>1. ClaimInv
  BY ClaimInit
<1>2. /\ held = {} /\ acked = {} /\ undoneHeld = {} /\ \A t \in Tabs, i \in Items : call[t][i].pc = "idle"
      /\ \A t \in Tabs, l \in Lists : drive[t][l].kind # "flush"
  BY DEF Init, NoCall, NoDrive
<1>3. NewOnes
  BY DEF Init, NewOnes, Unknown, NoRows, NoDrive, InNoChain, Range, Received
<1>4. HeldUntouched /\ AddedOnce /\ WithdrawnGone
  BY <1>2 DEF HeldUntouched, AddedOnce, WithdrawnGone
<1>5. NoLoss
  BY <1>2 DEF NoLoss
<1>6. OnePlace
  <2>1. \A t \in Tabs, l \in Lists : drive[t][l].pc = "idle" /\ drive[t][l].kind \notin Transitions
    BY DEF Init, NoDrive, Transitions
  <2>2. \A i \in Items : OnDisk(i) /\ InOneRam(i)
    BY DEF Init, NoRows, NoDrive, NoCall, NoJob, OnDisk, InOneRam, Knows
  <2> QED BY <2>1, <2>2 DEF Init, OnePlace
<1> QED BY <1>1, <1>3, <1>4, <1>5, <1>6 DEF RowInv, FixedPolicy

\* Every step keeps all parts.
LEMMA RowStep == RowInv /\ [Next]_vars => RowInv'
BY ClaimStep, NewOnesKept, HeldUntouchedKept, AddedOnceKept, FixedPolicyKept, NoLossKept,
   WithdrawnGoneKept DEF RowInv

\* Where the rows of an item are, and who works on it, from its enqueue on.
THEOREM RowInvariant == Spec => []RowInv
BY RowInit, RowStep, PTL DEF Spec

\* No delete reaches the server within its undo window, unless flush() is called
\* (outbox.ts:281, 324-342).
THEOREM HoldKept == Spec => []HoldRespected
<1>1. RowInv => HoldRespected
  BY DEF RowInv, HeldUntouched, Untouched, HoldRespected
<1> QED BY <1>1, RowInvariant, PTL

\* A delete withdrawn inside its window never reaches the server, as long as the
\* policy of no chat changes and flush() is not called (outbox.ts:218-225).
THEOREM UndoKept == Spec => []UndoHonoured
<1>1. RowInv => UndoHonoured
  BY DEF RowInv, WithdrawnGone, Gone, UndoHonoured
<1> QED BY <1>1, RowInvariant, PTL

\* An accepted item of a durable chat is on disk until the server has it or the
\* user withdrew it, over pauses, crashes and store failures, as long as the
\* policy does not change.
THEOREM NothingLost == Spec => []NoLoss
<1>1. RowInv => NoLoss
  BY DEF RowInv
<1> QED BY <1>1, RowInvariant, PTL

-----------------------------------------------------------------------------
(* The order of a chat: who moves what.                                     *)

Transits(t) ==
    \/ \E l \in Lists : Begins(t, l) \/ Resume(t, l) \/ DriveStoreFails(t, l)
    \/ Open(t) \/ LockAgain(t)

\* The steps, by who takes them.
LEMMA StepCases ==
    ASSUME [Next]_vars
    PROVE  \/ UNCHANGED vars
           \/ \E t \in Tabs, i \in Items : CallOwn(t, i)
           \/ \E t \in Tabs, i \in Items : SendOwn(t, i)
           \/ \E t \in Tabs : Pause(t) \/ Crash(t)
           \/ \E t \in Tabs : Transits(t)
           \/ \E t \in Tabs, l \in Lists : Reconciles(t, l)
           \/ \E t \in Tabs, l \in Lists : DriveListed(t, l)
           \/ \E i \in Items : ServerReceives(i)
           \/ \E i \in Items : HoldElapses(i)
BY DEF Next, CallOwn, SendOwn, Transits, Begins, CallStep, DriveStep, Reconciles

\* Only an enqueue and its acknowledgement, and the loss of a session, touch what
\* is known of the order of items.
LEMMA CallHistory ==
    ASSUME TypeOK, NEW t \in Tabs, NEW i \in Items, CallOwn(t, i)
    PROVE  /\ UNCHANGED <<failedOnce, log, orphan>> /\ undone \subseteq undone'
           /\ Add(t, i) \/ UNCHANGED <<born, session>>
           /\ Add(t, i) \/ AddStored(t, i) \/ UNCHANGED behind
           /\ AddStored(t, i) \/ UNCHANGED acked
<1>1. UNCHANGED <<failedOnce, log, orphan>> /\ undone \subseteq undone'
  BY DEF CallOwn, Add, AddStored, TimerFires, Cancel, CancelRead, Retry, RetryRead,
         RetryStored, CallStoreFails, envVars, histVars
<1>2. Add(t, i) \/ UNCHANGED <<born, session>>
  BY DEF CallOwn, AddStored, TimerFires, Cancel, CancelRead, Retry, RetryRead,
         RetryStored, CallStoreFails, envVars, histVars
<1>3. Add(t, i) \/ AddStored(t, i) \/ UNCHANGED behind
  BY DEF CallOwn, TimerFires, Cancel, CancelRead, Retry, RetryRead,
         RetryStored, CallStoreFails, histVars
<1>4. AddStored(t, i) \/ UNCHANGED acked
  BY DEF CallOwn, Add, TimerFires, Cancel, CancelRead, Retry, RetryRead,
         RetryStored, CallStoreFails, histVars
<1> QED BY <1>1, <1>2, <1>3, <1>4

\* A send only adds to what has failed.
LEMMA SendHistory ==
    ASSUME NEW t \in Tabs, NEW i \in Items, SendOwn(t, i)
    PROVE  /\ UNCHANGED <<born, log, acked, undone, session, behind, held>>
           /\ failedOnce \subseteq failedOnce'
BY DEF SendOwn, SendStart, SendStep, SendRead, SendStored, SendAnswered, SendDeleted,
       SendFailedRead, SendFailedStored, SendFailed, SendStoreFails, SendDeleteFails, envVars, histVars

\* A stop takes the session, the queues and the RAM of its tab, and of no other.
LEMMA StopHistory ==
    ASSUME TypeOK, NEW t \in Tabs, Pause(t) \/ Crash(t)
    PROVE  /\ UNCHANGED <<born, log, acked, undone, failedOnce, behind, disk>>
           /\ session'[t] = {} /\ \A u \in Tabs : u # t => session'[u] = session[u]
           /\ timer'[t] = {} /\ \A u \in Tabs : u # t => timer'[u] = timer[u]
           /\ \A c \in Chats : chain'[t][c] = <<>>
           /\ \A u \in Tabs : u # t => chain'[u] = chain[u]
           /\ \A x \in Items : ram'[t][x] = None
           /\ \A u \in Tabs : u # t => ram'[u] = ram[u]
           /\ \A l \in Lists : drive'[t][l] \in {drive[t][l], NoDrive}
           /\ \A u \in Tabs : u # t => drive'[u] = drive[u]
<1>1. Stop(t)
  BY DEF Pause, Crash
<1>2. session \in [Tabs -> SUBSET Items] /\ timer \in [Tabs -> SUBSET Items]
      /\ chain \in [Tabs -> [Chats -> Seq(Items)]] /\ ram \in [Tabs -> [Items -> Rows]]
      /\ drive \in [Tabs -> [Lists -> Drive]]
  BY DEF TypeOK, HistType, QueueType, StoreType, DriveType
<1>3. drive' \in {drive, [drive EXCEPT ![t] = [l \in Lists |-> NoDrive]]}
  BY DEF Pause, Crash
<1>4. /\ \A l \in Lists : drive'[t][l] \in {drive[t][l], NoDrive}
      /\ \A u \in Tabs : u # t => drive'[u] = drive[u]
  <2> HIDE DEF NoDrive
  <2> QED BY <1>2, <1>3
<1> QED BY <1>1, <1>2, <1>4 DEF Stop, NoRows

\* The steps of a list() leave the order, the calls and the senders alone.
LEMMA OtherHistory ==
    ASSUME NEW t \in Tabs, Transits(t) \/ \E l \in Lists : Reconciles(t, l) \/ DriveListed(t, l)
    PROVE  UNCHANGED <<born, log, acked, undone, failedOnce, session, behind, held, orphan, call, job>>
BY DEF Transits, Begins, StartSync, Resume, Online, Flush, SetChatPolicy, StartDrive,
       DriveStoreFails, LockAgain, Open, Reconciles,
       DriveEvicts, DriveStored, DriveRestored, DriveListed, workVars, envVars, histVars

\* What is done stays done.
LEMMA DoneStays ==
    ASSUME TypeOK, [Next]_vars
    PROVE  /\ \A i : Done(i) => Done(i)'
           /\ failedOnce \subseteq failedOnce' /\ acked \subseteq acked' /\ Received \subseteq Received'
           /\ undone \subseteq undone'
<1>1. CASE UNCHANGED vars
  BY <1>1 DEF vars, envVars, histVars, Done, Received
<1>2. ASSUME NEW t \in Tabs, NEW i \in Items, CallOwn(t, i)
      PROVE  failedOnce \subseteq failedOnce' /\ acked \subseteq acked' /\ log' = log /\ undone \subseteq undone'
  BY <1>2, CallHistory DEF AddStored
<1>3. ASSUME NEW t \in Tabs, NEW i \in Items, SendOwn(t, i)
      PROVE  failedOnce \subseteq failedOnce' /\ acked \subseteq acked' /\ log' = log /\ undone \subseteq undone'
  BY <1>3, SendHistory
<1>4. ASSUME NEW t \in Tabs, Pause(t) \/ Crash(t)
      PROVE  failedOnce \subseteq failedOnce' /\ acked \subseteq acked' /\ log' = log /\ undone \subseteq undone'
  BY <1>4, StopHistory
<1>5. ASSUME NEW t \in Tabs, Transits(t) \/ \E l \in Lists : Reconciles(t, l) \/ DriveListed(t, l)
      PROVE  failedOnce \subseteq failedOnce' /\ acked \subseteq acked' /\ log' = log /\ undone \subseteq undone'
  BY <1>5, OtherHistory
<1>6. ASSUME NEW i \in Items, HoldElapses(i)
      PROVE  failedOnce \subseteq failedOnce' /\ acked \subseteq acked' /\ log' = log /\ undone \subseteq undone'
  BY <1>6 DEF HoldElapses, histVars
<1>7. ASSUME NEW i \in Items, ServerReceives(i)
      PROVE  failedOnce \subseteq failedOnce' /\ acked \subseteq acked' /\ Received \subseteq Received' /\ undone \subseteq undone'
  <2>1. Range(Append(log, i)) = Range(log) \cup {i}
    BY RangeAppended DEF TypeOK, EnvType
  <2> QED BY <1>7, <2>1 DEF ServerReceives, histVars, Received
<1>8. /\ failedOnce \subseteq failedOnce' /\ acked \subseteq acked' /\ undone \subseteq undone'
      /\ Received \subseteq Received'
  BY <1>1, <1>2, <1>3, <1>4, <1>5, <1>6, <1>7, StepCases DEF Received, vars, envVars, histVars
<1> QED BY <1>8 DEF Done

\* An enqueue of x finds it new.
LEMMA AddsNew ==
    ASSUME TypeOK, NewOnes, NEW t \in Tabs, NEW x \in Items, Add(t, x)
    PROVE  /\ Unknown(x) /\ Usable(t) /\ x \notin Range(born)
           /\ behind'[x] = {j \in session[t] \cap acked : ChatOf[j] = ChatOf[x]}
           /\ \A y \in Items : y # x => behind'[y] = behind[y]
           /\ session'[t] = session[t] \cup {x} /\ \A u \in Tabs : u # t => session'[u] = session[u]
           /\ UNCHANGED <<chain, timer, job, drive, acked, undone, failedOnce, log, orphan>>
BY DEF Add, NewOnes, TypeOK, HistType, workVars

\* Its acknowledgement leaves what was acknowledged in a session that still lives.
LEMMA AcksOnce ==
    ASSUME TypeOK, NEW t \in Tabs, NEW x \in Items, AddStored(t, x)
    PROVE  /\ behind'[x] = behind[x] \cap session[t]
           /\ \A y \in Items : y # x => behind'[y] = behind[y]
           /\ acked' = acked \cup {x}
           /\ UNCHANGED <<session, undone, failedOnce, log, orphan, born, job, drive, ram>>
BY DEF AddStored, TypeOK, HistType, workVars, envVars

\* Only an enqueue of j puts anything in front of j.
LEMMA BehindShrinks ==
    ASSUME TypeOK, NewOnes, [Next]_vars, NEW j \in Items
    PROVE  behind'[j] \subseteq behind[j] \/ \E t \in Tabs : Add(t, j)
<1>1. CASE UNCHANGED vars
  BY <1>1 DEF vars, histVars
<1>2. ASSUME NEW t \in Tabs, NEW i \in Items, CallOwn(t, i)
      PROVE  behind'[j] \subseteq behind[j] \/ Add(t, j)
  BY <1>2, CallHistory, AddsNew, AcksOnce
<1>3. ASSUME NEW t \in Tabs, NEW i \in Items, SendOwn(t, i)
      PROVE  behind' = behind
  BY <1>3, SendHistory
<1>4. ASSUME NEW t \in Tabs, Pause(t) \/ Crash(t)
      PROVE  behind' = behind
  BY <1>4, StopHistory
<1>5. ASSUME NEW t \in Tabs, Transits(t) \/ \E l \in Lists : Reconciles(t, l) \/ DriveListed(t, l)
      PROVE  behind' = behind
  BY <1>5, OtherHistory
<1>6. ASSUME NEW i \in Items, HoldElapses(i) \/ ServerReceives(i)
      PROVE  behind' = behind
  BY <1>6 DEF HoldElapses, ServerReceives, histVars
<1> QED BY <1>1, <1>2, <1>3, <1>4, <1>5, <1>6, StepCases

\* So only an enqueue of j makes j wait for anything.
LEMMA NeededShrinks ==
    ASSUME TypeOK, NewOnes, [Next]_vars, NEW j \in Items
    PROVE  Needed(j)' \subseteq Needed(j) \/ \E t \in Tabs : Add(t, j)
<1>1. behind'[j] \subseteq behind[j] \/ \E t \in Tabs : Add(t, j)
  BY BehindShrinks
<1>2. \A i : Done(i) => Done(i)'
  BY DoneStays
<1> QED BY <1>1, <1>2 DEF Needed

\* So what has left a trace waits for no more than before.
LEMMA KnownWaitsLess ==
    ASSUME TypeOK, NewOnes, [Next]_vars, NEW j \in Items, ~Unknown(j)
    PROVE  Needed(j)' \subseteq Needed(j)
BY NeededShrinks, AddsNew

-----------------------------------------------------------------------------
(* What a list() puts on the chains.                                        *)

\* The listing of S has every item of S once, from the oldest to the newest.
LEMMA SortedAll ==
    ASSUME NEW S \in SUBSET Items, NEW q \in Sorted(S), born \in Seq(Items),
           \A m, n \in DOMAIN born : born[m] = born[n] => m = n
    PROVE  /\ q \in Seq(Items) /\ Range(q) = S
           /\ \A a, b \in DOMAIN q : Older(q[a], q[b]) => a < b
<1> DEFINE N == Cardinality(S)
<1>1. IsFiniteSet(S) /\ N \in Nat
  <2>1. IsFiniteSet(Items)
    BY FiniteAssumption, FS_Union DEF Items
  <2> QED BY <2>1, FS_Subset, FS_CardinalityType
<1>2. q \in [1 .. N -> S] /\ DOMAIN q = 1 .. N
      /\ \A a, b \in 1 .. N : a < b => Older(q[a], q[b])
  BY DEF Sorted
<1>3. \A i, j : ~(Older(i, j) /\ Older(j, i)) /\ ~Older(i, i)
  <2>1. DOMAIN born = 1 .. Len(born) /\ Len(born) \in Nat
    OBVIOUS
  <2> QED BY <2>1 DEF Older
<1>4. \A a, b \in 1 .. N : (Older(q[a], q[b]) => a < b) /\ (q[a] = q[b] => a = b)
  <2> HIDE DEF N
  <2> SUFFICES ASSUME NEW a \in 1 .. N, NEW b \in 1 .. N
               PROVE  (Older(q[a], q[b]) => a < b) /\ (q[a] = q[b] => a = b)
    OBVIOUS
  <2>1. a < b \/ a = b \/ b < a
    BY <1>1
  <2>2. CASE a < b
    BY <1>2, <1>3, <2>2
  <2>3. CASE b < a
    BY <1>2, <1>3, <2>3
  <2>4. CASE a = b
    BY <1>3, <2>4
  <2> QED BY <2>1, <2>2, <2>3, <2>4
<1>5. q \in Injection(1 .. N, S)
  BY <1>2, <1>4 DEF Injection, IsInjective
<1>6. Cardinality(1 .. N) = N
  BY <1>1, FS_Interval
<1>7. q \in Surjection(1 .. N, S)
  BY <1>1, <1>5, <1>6, FS_Injection
<1>8. Range(q) = S
  BY <1>2, <1>7 DEF Surjection, Range
<1> HIDE DEF N
<1>9. q \in Seq(Items)
  BY <1>1, <1>2
<1> QED BY <1>2, <1>4, <1>8, <1>9

\* The row of an item that a list() answers with, and what it sends of a chat.
ListRow(t, l, i) == IF ram[t][i] # None THEN ram[t][i] ELSE drive[t][l].left[i]
Sends(t, l, c) == {i \in Items : Redriven(drive[t][l].kind, i, ListRow(t, l, i)) /\ ChatOf[i] = c}

\* The end of a list() queues what it sends and holds what has time left, in one tab.
LEMMA ListEnds ==
    ASSUME QueueType, NEW t \in Tabs, NEW l \in Lists, DriveListed(t, l)
    PROVE  /\ drive[t][l].pc = "list"
           /\ \A u \in Tabs : u # t => chain'[u] = chain[u] /\ timer'[u] = timer[u]
           /\ chain' = chain \/ (~paused[t] /\ \A c \in Chats :
                 \E q \in Sorted(Sends(t, l, c)) : chain'[t][c] = chain[t][c] \o q)
           /\ \A j \in timer'[t] : j \in timer[t] \/
                 /\ ListRow(t, l, j) = "queued" /\ drive[t][l].kind = "resume" /\ HoldOpen(j)
                 /\ ~paused[t] /\ j \in Items
           /\ ~paused[t] => \A c \in Chats :
                 \E q \in Sorted(Sends(t, l, c)) : chain'[t][c] = chain[t][c] \o q
           /\ UNCHANGED <<disk, ram, job, call, envVars, histVars>>
<1> DEFINE row(i) == IF ram[t][i] # None THEN ram[t][i] ELSE drive[t][l].left[i]
           send(c) == {i \in Items : Redriven(drive[t][l].kind, i, row(i)) /\ ChatOf[i] = c}
           queued == {i \in Items : row(i) = "queued"}
           hold == {i \in queued : drive[t][l].kind = "resume" /\ HoldOpen(i)}
           T == (timer[t] \ (IF drive[t][l].kind = "online" THEN {} ELSE queued))
                     \cup (IF paused[t] THEN {} ELSE hold)
<1>1. drive[t][l].pc = "list" /\ UNCHANGED <<disk, ram, job, call, envVars, histVars>>
  BY DEF DriveListed, workVars
<1>2. \A i : row(i) = ListRow(t, l, i)
  BY DEF ListRow
<1>3. \A c : send(c) = Sends(t, l, c)
  BY <1>2 DEF Sends
<1>4. timer' = [timer EXCEPT ![t] = T]
  BY DEF DriveListed
<1>5. \A j \in T : j \in timer[t] \/
                 /\ ListRow(t, l, j) = "queued" /\ drive[t][l].kind = "resume" /\ HoldOpen(j)
                 /\ ~paused[t] /\ j \in Items
  BY <1>2
<1>6. \E q : /\ \A c \in Chats : q[c] \in Sorted(send(c))
             /\ chain' = IF paused[t] THEN chain
                         ELSE [chain EXCEPT ![t] = [c \in Chats |-> chain[t][c] \o q[c]]]
  BY DEF DriveListed
<1> HIDE DEF T, send
<1>7. \A u \in Tabs : (u # t => timer'[u] = timer[u]) /\ timer'[t] = T
  BY <1>4 DEF QueueType
<1>8. PICK q : /\ \A c \in Chats : q[c] \in Sorted(Sends(t, l, c))
               /\ chain' = IF paused[t] THEN chain
                           ELSE [chain EXCEPT ![t] = [c \in Chats |-> chain[t][c] \o q[c]]]
  BY <1>3, <1>6
<1>9. \A u \in Tabs : u # t => chain'[u] = chain[u]
  BY <1>8 DEF QueueType
<1>10. ~paused[t] => \A c \in Chats : chain'[t][c] = chain[t][c] \o q[c]
  BY <1>8 DEF QueueType
<1> QED BY <1>1, <1>5, <1>7, <1>8, <1>9, <1>10

\* A resume that finds the row of j finds what j waits for.
LEMMA ListsBefore ==
    ASSUME RowInv, OnePlace, Queued, InSession, Listed, NEW t \in Tabs,
           NEW l \in Lists, NEW j \in Items, NEW i \in Needed(j),
           drive[t][l].pc = "list", drive[t][l].kind = "resume", ListRow(t, l, j) # None
    PROVE  i \in Sends(t, l, ChatOf[j]) /\ Reached(t, i) /\ ChatOf[i] = ChatOf[j] /\ i \in Items
<1>1. TypeOK
  BY DEF RowInv, ClaimInv
<1>2. i \in Messages /\ i \in behind[j] /\ ~Done(i) /\ i \in Items
  BY DEF Needed, Items
<1>3. ChatOf[i] = ChatOf[j] /\ i \in acked /\ (Durable(i) <=> Durable(j))
  BY <1>2 DEF Queued, Durable
<1>4. ~HoldOpen(i)
  BY <1>1, <1>2, ItemsAssumption DEF HoldOpen, TypeOK, EnvType
<1>5. ListRow(t, l, i) \in Rows
  BY <1>1, <1>2 DEF ListRow, TypeOK, StoreType, DriveType, Drive
<1>6. ListRow(t, l, i) # None /\ Reached(t, i)
  <2>1. CASE Durable(j)
    <3>1. ram[t][i] = None /\ ram[t][j] = None
      BY <1>2, <1>3, <2>1 DEF OnePlace, OnDisk
    <3>2. drive[t][l].left[j] # None
      BY <3>1 DEF ListRow
    <3>3. drive[t][l].left[i] # None
      BY <2>1, <3>2 DEF Listed
    <3> QED BY <1>3, <2>1, <3>1, <3>3 DEF ListRow, Reached
  <2>2. CASE ~Durable(j)
    <3>1. drive[t][l].left[j] = None
      BY <2>2 DEF OnePlace, InOneRam
    <3>2. ram[t][j] # None
      BY <3>1 DEF ListRow
    <3>3. i \in session[t]
      BY <2>2, <3>2 DEF Listed
    <3>4. ram[t][i] # None
      BY <1>2, <1>3, <2>2, <3>3 DEF InSession
    <3> QED BY <3>3, <3>4 DEF ListRow, Reached
  <2> QED BY <2>1, <2>2
<1>7. Redriven("resume", i, ListRow(t, l, i))
  BY <1>4, <1>5, <1>6 DEF Redriven, Resumable, Rows, Status
<1> QED BY <1>2, <1>3, <1>6, <1>7 DEF Sends

\* So what a list() sends has what it waits for in front of it.
LEMMA ListsInLine ==
    ASSUME RowInv, OnePlace, Queued, InSession, Listed, Failures, InTurn,
           NEW t \in Tabs, NEW l \in Lists, drive[t][l].pc = "list", drive[t][l].kind # "flush",
           NEW c \in Chats, NEW q \in Sorted(Sends(t, l, c)), NEW b \in DOMAIN q, NEW i \in Needed(q[b])
    PROVE  Reached(t, i) /\ \E a \in DOMAIN q : a < b /\ q[a] = i
<1>1. TypeOK
  BY DEF RowInv, ClaimInv
<1>2. Sends(t, l, c) \in SUBSET Items /\ born \in Seq(Items)
  BY <1>1 DEF Sends, TypeOK, EnvType
<1>3. /\ Range(q) = Sends(t, l, c)
      /\ \A a1, a2 \in DOMAIN q : Older(q[a1], q[a2]) => a1 < a2
  BY <1>2, SortedAll DEF Queued
<1>4. q[b] \in Sends(t, l, c)
  BY <1>3 DEF Range
<1> DEFINE j == q[b]
<1>5. j \in Items /\ ChatOf[j] = c /\ Redriven(drive[t][l].kind, j, ListRow(t, l, j))
  BY <1>4 DEF Sends
<1>6. ListRow(t, l, j) # "failed"
  <2>1. Needed(j) # {}
    OBVIOUS
  <2>2. j \notin failedOnce
    BY <2>1 DEF InTurn
  <2> QED BY <1>5, <2>2 DEF Failures, Says, ListRow
<1> HIDE DEF j
<1>7. drive[t][l].kind = "resume" /\ ListRow(t, l, j) # None
  BY <1>5, <1>6 DEF Redriven, Resumable, None
<1>8. i \in Needed(j)
  BY DEF j
<1>9. i \in Sends(t, l, c) /\ Reached(t, i)
  BY <1>5, <1>7, <1>8, ListsBefore
<1>10. Older(i, j)
  BY <1>5, <1>8 DEF Needed, Queued
<1>11. PICK a \in DOMAIN q : q[a] = i
  BY <1>3, <1>9 DEF Range
<1>12. a < b
  BY <1>3, <1>10, <1>11 DEF j
<1> QED BY <1>9, <1>11, <1>12

-----------------------------------------------------------------------------
(* What a step does to chains and timers.                                   *)

\* A call of x appends at most x, when it has been stored or its hold is over.
LEMMA CallQueues ==
    ASSUME QueueType, NEW t \in Tabs, NEW x \in Items, CallOwn(t, x)
    PROVE  /\ \A u \in Tabs : u # t => chain'[u] = chain[u] /\ timer'[u] = timer[u]
           /\ \A c \in Chats : \/ chain'[t][c] = chain[t][c]
                               \/ /\ c = ChatOf[x] /\ chain'[t][c] = Append(chain[t][c], x)
                                  /\ AddStored(t, x) \/ RetryStored(t, x) \/ (TimerFires(t, x) /\ x \in timer[t])
           /\ \A j \in timer'[t] : j \in timer[t] \/ (j = x /\ AddStored(t, x) /\ HoldOpen(x) /\ ~paused[t])
           /\ AddStored(t, x) /\ ~HoldOpen(x) /\ ~paused[t]
                => chain'[t][ChatOf[x]] = Append(chain[t][ChatOf[x]], x)
<1>1. ChatOf[x] \in Chats /\ chain \in [Tabs -> [Chats -> Seq(Items)]] /\ timer \in [Tabs -> SUBSET Items]
  BY ChatAssumption DEF QueueType
<1>2. chain' = chain \/ (chain' = [chain EXCEPT ![t][ChatOf[x]] = Append(chain[t][ChatOf[x]], x)]
         /\ (AddStored(t, x) \/ RetryStored(t, x) \/ (TimerFires(t, x) /\ x \in timer[t])))
  BY DEF CallOwn, Add, AddStored, TimerFires, Cancel, CancelRead, Retry, RetryRead,
         RetryStored, CallStoreFails, ScheduleUndo, Scheduled
<1>3. \/ timer' = timer \/ timer' = [timer EXCEPT ![t] = timer[t] \ {x}]
      \/ timer' = [timer EXCEPT ![t] = timer[t] \cup {x}] /\ AddStored(t, x) /\ HoldOpen(x) /\ ~paused[t]
  BY DEF CallOwn, Add, AddStored, TimerFires, Cancel, CancelRead, Retry, RetryRead,
         RetryStored, CallStoreFails, ScheduleUndo
<1>4. \A u \in Tabs : u # t => chain'[u] = chain[u] /\ timer'[u] = timer[u]
  BY <1>1, <1>2, <1>3
<1>5. \A j \in timer'[t] : j \in timer[t] \/ (j = x /\ AddStored(t, x) /\ HoldOpen(x) /\ ~paused[t])
  BY <1>1, <1>3
<1>6. AddStored(t, x) /\ ~HoldOpen(x) /\ ~paused[t]
                => chain'[t][ChatOf[x]] = Append(chain[t][ChatOf[x]], x)
  BY <1>1 DEF AddStored, ScheduleUndo, Scheduled
<1> QED BY <1>1, <1>2, <1>4, <1>5, <1>6

\* A send takes at most itself off its chain, when it ends.
LEMMA SendQueues ==
    ASSUME TypeOK, AtHead, NEW t \in Tabs, NEW x \in Items, SendOwn(t, x)
    PROVE  /\ timer' = timer
           /\ \A u \in Tabs : u # t => chain'[u] = chain[u]
           /\ \A c \in Chats : \/ chain'[t][c] = chain[t][c]
                               \/ /\ c = ChatOf[x] /\ chain'[t][c] = Tail(chain[t][c])
                                  /\ chain[t][c] # <<>> /\ Head(chain[t][c]) = x
                                  /\ Finish(t, x) /\ job[t][x].live /\ job[t][x].pc # "idle"
<1>1. chain \in [Tabs -> [Chats -> Seq(Items)]]
  BY DEF TypeOK, QueueType
<1>2. timer' = timer
  BY DEF SendOwn, SendStart, SendStep, SendRead, SendStored, SendAnswered, SendDeleted,
         SendFailedRead, SendFailedStored, SendFailed, SendStoreFails, SendDeleteFails
<1>3. chain' = chain \/ (Finish(t, x) /\ job[t][x].pc # "idle")
  BY DEF SendOwn, SendStart, SendStep, SendRead, SendStored, SendAnswered, SendDeleted, SendFailedRead,
         SendFailedStored, SendFailed, SendStoreFails, SendDeleteFails, Work
<1>4. CASE chain' = chain
  BY <1>2, <1>4
<1>5. CASE chain' # chain
  <2>1. /\ Finish(t, x) /\ job[t][x].live /\ job[t][x].pc # "idle"
        /\ chain' = [chain EXCEPT ![t][ChatOf[x]] = Tail(chain[t][ChatOf[x]])]
    BY <1>3, <1>5 DEF Finish
  <2>2. chain[t][ChatOf[x]] # <<>> /\ Head(chain[t][ChatOf[x]]) = x
    BY <2>1 DEF AtHead, Turn
  <2> QED BY <1>1, <1>2, <2>1, <2>2
<1> QED BY <1>4, <1>5

\* No other step queues or drops anything, except the end of a list() and a stop.
LEMMA WorldQueues ==
    ASSUME \/ UNCHANGED vars
           \/ \E t \in Tabs : Transits(t)
           \/ \E t \in Tabs, l \in Lists : Reconciles(t, l)
           \/ \E i \in Items : ServerReceives(i) \/ HoldElapses(i)
    PROVE  UNCHANGED <<chain, timer, session, job, call, acked, born, failedOnce, undone>>
<1>1. CASE \E t \in Tabs : Transits(t)
  <2>1. ASSUME NEW t \in Tabs, NEW l \in Lists, Begins(t, l) PROVE UNCHANGED <<chain, timer>>
    BY <2>1 DEF Begins, StartSync, Online, Flush, SetChatPolicy, StartDrive
  <2>2. ASSUME NEW t \in Tabs, NEW l \in Lists, Resume(t, l) PROVE UNCHANGED <<chain, timer>>
    BY <2>2 DEF Resume, StartDrive
  <2>3. ASSUME NEW t \in Tabs, NEW l \in Lists, DriveStoreFails(t, l) PROVE UNCHANGED <<chain, timer>>
    BY <2>3 DEF DriveStoreFails
  <2>4. ASSUME NEW t \in Tabs, LockAgain(t) \/ Open(t) PROVE UNCHANGED <<chain, timer>>
    BY <2>4 DEF LockAgain, Open
  <2>5. UNCHANGED <<chain, timer>>
    BY <1>1, <2>1, <2>2, <2>3, <2>4 DEF Transits
  <2> QED BY <1>1, <2>5, OtherHistory
<1>2. CASE \E t \in Tabs, l \in Lists : Reconciles(t, l)
  <2>1. UNCHANGED <<chain, timer>>
    BY <1>2 DEF Reconciles, DriveEvicts, DriveStored, DriveRestored
  <2> QED BY <1>2, <2>1, OtherHistory
<1>3. CASE UNCHANGED vars \/ \E i \in Items : ServerReceives(i) \/ HoldElapses(i)
  BY <1>3 DEF ServerReceives, HoldElapses, vars, workVars, envVars, histVars
<1> QED BY <1>1, <1>2, <1>3

\* A sender that leaves the chain has done its message, or the tab had nothing of it.
LEMMA FoundOrSent ==
    ASSUME TypeOK, Failures, InTurn, InLine, NEW t \in Tabs, NEW x \in Messages, SendOwn(t, x),
           Finish(t, x), job[t][x].live, job[t][x].pc # "idle"
    PROVE  Done(x)' \/ ~Reached(t, x)
<1>0. x \in Items
  BY DEF Items
<1>1. failedOnce \subseteq failedOnce' /\ undone' = undone /\ log' = log
  BY <1>0, SendHistory
<1>2. Done(x) => Done(x)'
  BY <1>1 DEF Done, Received
<1>3. job'[t][x] = NoJob /\ NoJob.pc = "idle"
  BY <1>0 DEF Finish, TypeOK, WorkType, NoJob
<1>4. ASSUME NEW pc, NEW row, Work(t, x, pc, row), pc # "idle" PROVE FALSE
  BY <1>0, <1>3, <1>4, WorkGives DEF TypeOK
<1>5. CASE SendRead(t, x)
  <2>1. job[t][x].row = None \/ x \in timer[t]
    BY <1>4, <1>5 DEF SendRead, Current
  <2>2. x \notin timer[t]
    BY DEF InLine
  <2> QED BY <1>0, <1>2, <1>5, <2>1, <2>2 DEF InTurn, SendRead
<1>6. CASE SendStored(t, x)
  BY <1>4, <1>6 DEF SendStored, Current
<1>7. CASE SendDeleted(t, x)
  BY <1>0, <1>2, <1>7 DEF SendDeleted, InTurn, Done
<1>8. CASE SendFailedRead(t, x) \/ SendFailedStored(t, x)
  BY <1>0, <1>2, <1>8 DEF SendFailedRead, SendFailedStored, Failures, Done
<1>9. CASE SendStoreFails(t, x)
  BY <1>9 DEF SendStoreFails, Done
<1>10. ~SendStart(t, x)
  BY DEF SendStart
<1>11. ~SendAnswered(t, x) /\ ~SendFailed(t, x) /\ ~SendDeleteFails(t, x)
  BY <1>4 DEF SendAnswered, SendFailed, SendDeleteFails
<1> QED BY <1>5, <1>6, <1>7, <1>8, <1>9, <1>10, <1>11 DEF SendOwn, SendStep

-----------------------------------------------------------------------------
(* The chains.                                                              *)

\* The state of the order while the policy is fixed and nobody flushes.
Calm == RowInv /\ OnePlace /\ Ordered /\ \A t \in Tabs, l \in Lists : drive[t][l].kind # "flush"

\* A session lives until its tab is locked or closed.
LEMMA SessionStays ==
    ASSUME TypeOK, NewOnes, [Next]_vars, NEW t \in Tabs
    PROVE  session[t] \subseteq session'[t] \/ Pause(t) \/ Crash(t)
<1>1. ASSUME NEW u \in Tabs, NEW i \in Items, CallOwn(u, i)
      PROVE  session[t] \subseteq session'[t]
  BY <1>1, CallHistory, AddsNew
<1>2. ASSUME NEW u \in Tabs, NEW i \in Items, SendOwn(u, i)
      PROVE  session' = session
  BY <1>2, SendHistory
<1>3. ASSUME NEW u \in Tabs, Pause(u) \/ Crash(u), u # t
      PROVE  session'[t] = session[t]
  BY <1>3, StopHistory
<1>4. ASSUME NEW u \in Tabs, NEW l \in Lists, DriveListed(u, l)
      PROVE  session' = session
  BY <1>4, OtherHistory
<1> QED BY <1>1, <1>2, <1>3, <1>4, WorldQueues, StepCases

\* What a tab has at hand stays at hand until it stops.
LEMMA ReachedStays ==
    ASSUME TypeOK, NewOnes, [Next]_vars, NEW t \in Tabs, NEW i, Reached(t, i), ~Pause(t), ~Crash(t)
    PROVE  Reached(t, i)'
BY SessionStays DEF Reached, Durable

\* What a tab has on a chain, a timer or in a call is not new.
LEMMA OnChainKnown ==
    ASSUME TypeOK, NEW t \in Tabs, NEW c \in Chats, NEW n \in DOMAIN chain[t][c]
    PROVE  chain[t][c][n] \in Items /\ ~Unknown(chain[t][c][n])
<1>1. chain[t][c] \in Seq(Items)
  BY DEF TypeOK, QueueType
<1>2. chain[t][c][n] \in Items
  BY <1>1
<1>3. chain[t][c][n] \in Range(chain[t][c])
  BY DEF Range
<1> QED BY <1>2, <1>3 DEF Unknown, InNoChain

\* A message that still has to arrive stays on the chain of a tab that reaches it.
LEMMA StaysOnChain ==
    ASSUME Calm, [Next]_vars, NEW t \in Tabs, NEW i \in Messages, ~Done(i)', Reached(t, i),
           ~Pause(t), ~Crash(t), i \in Range(chain[t][ChatOf[i]])
    PROVE  i \in Range(chain'[t][ChatOf[i]])
<1> DEFINE c == ChatOf[i]
           s == chain[t][c]
<1>1. TypeOK /\ AtHead /\ NewOnes
  BY DEF Calm, RowInv, ClaimInv
<1>2. i \in Items /\ c \in Chats
  BY ChatAssumption DEF Items
<1>3. s \in Seq(Items)
  BY <1>1, <1>2 DEF TypeOK, QueueType
<1>4. CASE chain'[t][c] = s
  BY <1>4
<1>5. ASSUME NEW x \in Items, chain'[t][c] = Append(s, x)
      PROVE  i \in Range(chain'[t][c])
  <2> HIDE DEF s, c
  <2> QED BY <1>3, <1>5, RangeAppended DEF s, c
<1>6. ASSUME NEW q \in Seq(Items), chain'[t][c] = s \o q
      PROVE  i \in Range(chain'[t][c])
  <2> HIDE DEF s, c
  <2> QED BY <1>3, <1>6, RangeJoined DEF s, c
<1>7. ASSUME NEW u \in Tabs, NEW x \in Items, CallOwn(u, x)
      PROVE  i \in Range(chain'[t][c])
  <2>1. chain'[t][c] = s \/ chain'[t][c] = Append(s, x)
    BY <1>1, <1>2, <1>7, CallQueues DEF TypeOK
  <2> QED BY <1>4, <1>5, <2>1
<1>8. ASSUME NEW u \in Tabs, NEW x \in Items, SendOwn(u, x)
      PROVE  i \in Range(chain'[t][c])
  <2>1. \/ chain'[t][c] = s
        \/ /\ chain'[t][c] = Tail(s) /\ s # <<>> /\ Head(s) = x /\ u = t
           /\ Finish(t, x) /\ job[t][x].live /\ job[t][x].pc # "idle"
    BY <1>1, <1>2, <1>8, SendQueues
  <2>2. CASE chain'[t][c] = Tail(s) /\ s # <<>> /\ Head(s) = x /\ u = t
           /\ Finish(t, x) /\ job[t][x].live /\ job[t][x].pc # "idle"
    <3>1. x # i
      BY <1>1, <1>8, <2>2, FoundOrSent DEF Calm, Ordered
    <3> HIDE DEF s, c
    <3>2. PICK m \in 1 .. Len(s) : s[m] = i
      BY <1>3 DEF Range, s, c
    <3>3. m # 1
      BY <1>3, <2>2, <3>1, <3>2
    <3>4. m - 1 \in DOMAIN Tail(s) /\ Tail(s)[m - 1] = i
      BY <1>3, <2>2, <3>2, <3>3
    <3> QED BY <2>2, <3>4 DEF Range
  <2> QED BY <1>4, <2>1, <2>2
<1>9. ASSUME NEW u \in Tabs, Pause(u) \/ Crash(u)
      PROVE  chain'[t][c] = s
  BY <1>1, <1>9, StopHistory
<1>10. ASSUME NEW u \in Tabs, NEW l \in Lists, DriveListed(u, l)
       PROVE  i \in Range(chain'[t][c])
  <2>1. chain'[t][c] = s \/ \E q \in Sorted(Sends(t, l, c)) : chain'[t][c] = s \o q
    BY <1>1, <1>2, <1>10, ListEnds DEF TypeOK
  <2>2. Sends(t, l, c) \in SUBSET Items
    BY DEF Sends
  <2>3. \A q \in Sorted(Sends(t, l, c)) : q \in Seq(Items)
    BY <2>2, SortedType
  <2> QED BY <1>4, <1>6, <2>1, <2>3
<1> HIDE DEF s
<1>11. i \in Range(chain'[t][c])
  <2>1. UNCHANGED chain => chain'[t][c] = s
    BY DEF s
  <2> QED BY <1>4, <1>7, <1>8, <1>9, <1>10, <2>1, WorldQueues, StepCases
<1> QED BY <1>11

\* What j waits for is in front of it: the place m of a chain s, before n.
Before(s, n, i) == \E m \in 1 .. n - 1 : s[m] = i

\* Every place of a chain that is kept has it still, ...
LEMMA LineKept ==
    ASSUME Calm, [Next]_vars, NEW t \in Tabs, ~Pause(t), ~Crash(t), NEW c \in Chats,
           NEW n \in DOMAIN chain[t][c], NEW j, chain[t][c][n] = j, NEW i \in Needed(j)'
    PROVE  Reached(t, i) /\ Reached(t, i)' /\ Before(chain[t][c], n, i)
<1>1. TypeOK /\ NewOnes
  BY DEF Calm, RowInv, ClaimInv
<1>2. j \in Items /\ ~Unknown(j)
  BY <1>1, OnChainKnown
<1>3. i \in Needed(j)
  BY <1>1, <1>2, KnownWaitsLess
<1>4. Reached(t, i) /\ \E m \in 1 .. n - 1 : chain[t][c][m] = i
  BY <1>3 DEF Calm, Ordered, InLine
<1> QED BY <1>1, <1>4, ReachedStays DEF Before

\* ... what a call appends has what it waits for on the chain already, ...
LEMMA CallWaits ==
    ASSUME Calm, [Next]_vars, NEW t \in Tabs, NEW x \in Items,
           AddStored(t, x) \/ RetryStored(t, x) \/ (TimerFires(t, x) /\ x \in timer[t]),
           NEW i \in Needed(x)'
    PROVE  Reached(t, i) /\ i \in Range(chain[t][ChatOf[i]]) /\ ChatOf[i] = ChatOf[x] /\ i \in Messages /\ ~Done(i)'
<1>1. TypeOK /\ NewOnes /\ Ordered
  BY DEF Calm, RowInv, ClaimInv
<1>2. call[t][x].pc # "idle" \/ x \in timer[t]
  BY DEF AddStored, RetryStored
<1>3. ~Unknown(x)
  BY <1>2 DEF Unknown, NoCall
<1>4. i \in Needed(x)
  BY <1>1, <1>3, KnownWaitsLess
<1>5. i \in Messages /\ i \in behind[x] /\ ~Done(i) /\ ~Done(i)' /\ i \in Items
  BY <1>4 DEF Needed, Items
<1>6. ChatOf[i] = ChatOf[x] /\ i \in acked
  BY <1>1, <1>5 DEF Ordered, Queued
<1>7. CASE AddStored(t, x)
  <2>1. i \in session[t]
    BY <1>1, <1>7, AcksOnce DEF Needed
  <2> QED BY <1>1, <1>5, <1>6, <2>1 DEF Ordered, InSession, Reached
<1>8. CASE RetryStored(t, x)
  <2>1. x \in failedOnce
    BY <1>1, <1>8 DEF RetryStored, Ordered, Failures
  <2> QED BY <1>1, <1>4, <2>1 DEF Ordered, InTurn
<1>9. CASE TimerFires(t, x) /\ x \in timer[t]
  BY <1>1, <1>4, <1>5, <1>6, <1>9 DEF Ordered, InLine
<1> QED BY <1>5, <1>6, <1>7, <1>8, <1>9

\* ... and so is every chain in line.
LEMMA ChainsInLine ==
    ASSUME Calm, [Next]_vars, NEW t \in Tabs, NEW c \in Chats, NEW n \in DOMAIN chain'[t][c],
           NEW j, chain'[t][c][n] = j, NEW i \in Needed(j)'
    PROVE  Reached(t, i)' /\ Before(chain'[t][c], n, i)
<1>1. TypeOK /\ NewOnes /\ Ordered /\ AtHead
  BY DEF Calm, RowInv, ClaimInv
<1> DEFINE s == chain[t][c]
           z == chain'[t][c]
<1>2. s \in Seq(Items)
  BY <1>1 DEF TypeOK, QueueType
<1>3. i \in Messages /\ ~Done(i)'
  BY DEF Needed
<1>4. CASE z = s /\ ~Pause(t) /\ ~Crash(t)
  <2>1. n \in DOMAIN chain[t][c] /\ chain[t][c][n] = j
    BY <1>4
  <2> QED BY <1>4, <2>1, LineKept
<1>5. CASE Pause(t) \/ Crash(t)
  <2>1. z = <<>>
    BY <1>1, <1>5, StopHistory
  <2> QED BY <2>1
<1>6. ASSUME NEW u \in Tabs, NEW x \in Items, CallOwn(u, x), ~Pause(t), ~Crash(t)
      PROVE  Reached(t, i)' /\ Before(z, n, i)
  <2>1. \/ z = s
        \/ /\ u = t /\ c = ChatOf[x] /\ z = Append(s, x)
           /\ AddStored(t, x) \/ RetryStored(t, x) \/ (TimerFires(t, x) /\ x \in timer[t])
    BY <1>1, <1>6, CallQueues DEF TypeOK
  <2>2. CASE /\ u = t /\ c = ChatOf[x] /\ z = Append(s, x)
             /\ AddStored(t, x) \/ RetryStored(t, x) \/ (TimerFires(t, x) /\ x \in timer[t])
    <3> HIDE DEF s, z
    <3>1. /\ Len(s) \in Nat /\ DOMAIN s = 1 .. Len(s) /\ n \in 1 .. Len(s) + 1 /\ z[Len(s) + 1] = x
          /\ \A k \in 1 .. Len(s) : z[k] = s[k]
      BY <1>2, <2>2 DEF z
    <3>2. CASE n \in 1 .. Len(s)
      <4>1. n \in DOMAIN chain[t][c] /\ chain[t][c][n] = j
        BY <3>1, <3>2 DEF s, z
      <4>2. Reached(t, i)' /\ Before(s, n, i)
        BY <1>6, <4>1, LineKept DEF s
      <4> QED BY <3>1, <3>2, <4>2 DEF Before
    <3>3. CASE n = Len(s) + 1
      <4>1. j = x
        BY <3>1, <3>3 DEF z
      <4>2. Reached(t, i) /\ i \in Range(s)
        BY <2>2, <4>1, CallWaits DEF s
      <4>3. Reached(t, i)'
        BY <1>1, <1>6, <4>2, ReachedStays
      <4> QED BY <3>1, <3>3, <4>2, <4>3 DEF Before, Range
    <3> QED BY <3>1, <3>2, <3>3
  <2> QED BY <1>4, <1>6, <2>1, <2>2
<1>7. ASSUME NEW u \in Tabs, NEW x \in Items, SendOwn(u, x), ~Pause(t), ~Crash(t)
      PROVE  Reached(t, i)' /\ Before(z, n, i)
  <2>1. \/ z = s
        \/ /\ u = t /\ z = Tail(s) /\ s # <<>> /\ Head(s) = x
           /\ Finish(t, x) /\ job[t][x].live /\ job[t][x].pc # "idle"
    BY <1>1, <1>7, SendQueues
  <2>2. CASE /\ u = t /\ z = Tail(s) /\ s # <<>> /\ Head(s) = x
             /\ Finish(t, x) /\ job[t][x].live /\ job[t][x].pc # "idle"
    <3> HIDE DEF s, z
    <3>1. /\ Len(s) \in Nat /\ DOMAIN s = 1 .. Len(s) /\ n \in 1 .. Len(s) - 1 /\ s[1] = x
          /\ \A k \in 1 .. Len(s) - 1 : z[k] = s[k + 1]
      BY <1>2, <2>2 DEF z
    <3>2. n + 1 \in DOMAIN chain[t][c] /\ chain[t][c][n + 1] = j
      BY <3>1 DEF s, z
    <3>3. Reached(t, i) /\ Reached(t, i)' /\ Before(s, n + 1, i)
      BY <1>7, <3>2, LineKept DEF s
    <3>4. PICK m \in 1 .. n : s[m] = i
      BY <3>1, <3>3 DEF Before
    <3>5. m # 1
      BY <1>1, <1>3, <1>7, <2>2, <3>1, <3>3, <3>4, FoundOrSent DEF Ordered
    <3>6. m - 1 \in 1 .. n - 1 /\ z[m - 1] = i
      BY <3>1, <3>4, <3>5
    <3> QED BY <3>3, <3>6 DEF Before
  <2> QED BY <1>4, <1>7, <2>1, <2>2
<1>8. ASSUME NEW u \in Tabs, NEW l \in Lists, DriveListed(u, l), ~Pause(t), ~Crash(t)
      PROVE  Reached(t, i)' /\ Before(z, n, i)
  <2>1. z = s \/ (drive[t][l].pc = "list" /\ \E q \in Sorted(Sends(t, l, c)) : z = s \o q)
    BY <1>1, <1>8, ListEnds DEF TypeOK
  <2>2. ASSUME drive[t][l].pc = "list", NEW q \in Sorted(Sends(t, l, c)), z = s \o q
        PROVE  Reached(t, i)' /\ Before(z, n, i)
    <3> HIDE DEF s, z
    <3>0. Sends(t, l, c) \in SUBSET Items
      BY DEF Sends
    <3>1. q \in Seq(Items)
      BY <3>0, SortedType
    <3>2. /\ Len(s) \in Nat /\ DOMAIN s = 1 .. Len(s) /\ n \in 1 .. Len(s) + Len(q)
          /\ Len(q) \in Nat /\ DOMAIN q = 1 .. Len(q)
          /\ \A k \in 1 .. Len(s) : z[k] = s[k]
          /\ \A k \in 1 .. Len(q) : z[Len(s) + k] = q[k]
      BY <1>2, <2>2, <3>1 DEF z
    <3>3. CASE n \in 1 .. Len(s)
      <4>1. n \in DOMAIN chain[t][c] /\ chain[t][c][n] = j
        BY <3>2, <3>3 DEF s, z
      <4>2. Reached(t, i)' /\ Before(s, n, i)
        BY <1>8, <4>1, LineKept DEF s
      <4> QED BY <3>2, <3>3, <4>2 DEF Before
    <3>4. CASE n > Len(s)
      <4> DEFINE b == n - Len(s)
      <4>1. b \in DOMAIN q /\ j = q[b]
        BY <3>2, <3>4 DEF z
      <4>2. UNCHANGED <<behind, undone, failedOnce, log>>
        BY <1>8, OtherHistory
      <4>3. i \in Needed(q[b])
        BY <4>1, <4>2 DEF Needed, Done, Received
      <4>4. Reached(t, i) /\ \E a \in DOMAIN q : a < b /\ q[a] = i
        BY <2>2, <4>1, <4>3, ListsInLine DEF Calm, Ordered
      <4>5. PICK a \in DOMAIN q : a < b /\ q[a] = i
        BY <4>4
      <4>6. Len(s) + a \in 1 .. n - 1 /\ z[Len(s) + a] = i
        BY <3>2, <3>4, <4>5
      <4>7. Reached(t, i)'
        BY <1>1, <1>8, <4>4, ReachedStays
      <4> QED BY <4>6, <4>7 DEF Before
    <3> QED BY <3>2, <3>3, <3>4
  <2> QED BY <1>4, <1>8, <2>1, <2>2
<1>9. ASSUME NEW u \in Tabs, Pause(u) \/ Crash(u)
      PROVE  t = u \/ z = s
  BY <1>1, <1>9, StopHistory
<1>10. UNCHANGED chain => z = s
  OBVIOUS
<1> QED BY <1>4, <1>5, <1>6, <1>7, <1>8, <1>9, <1>10, WorldQueues, StepCases

\* A timer too.
LEMMA TimersInLine ==
    ASSUME Calm, [Next]_vars, NEW t \in Tabs, NEW j \in timer'[t]
    PROVE  /\ j \notin Messages
           /\ \A i \in Needed(j)' : Reached(t, i)' /\ i \in Range(chain'[t][ChatOf[i]])
<1>1. TypeOK /\ NewOnes /\ Ordered
  BY DEF Calm, RowInv, ClaimInv
<1>2. ~Pause(t) /\ ~Crash(t)
  BY <1>1, StopHistory
<1>3. ASSUME NEW i \in Messages, ~Done(i)', Reached(t, i), i \in Range(chain[t][ChatOf[i]])
      PROVE  Reached(t, i)' /\ i \in Range(chain'[t][ChatOf[i]])
  BY <1>1, <1>2, <1>3, ReachedStays, StaysOnChain
<1>4. \A i \in Needed(j)' : i \in Messages /\ ~Done(i)'
  BY DEF Needed
<1>5. CASE j \in timer[t]
  <2>1. j \in Items /\ ~Unknown(j)
    BY <1>1, <1>5 DEF Unknown, TypeOK, QueueType
  <2>2. Needed(j)' \subseteq Needed(j)
    BY <1>1, <2>1, KnownWaitsLess
  <2> QED BY <1>1, <1>3, <1>4, <1>5, <2>2 DEF Ordered, InLine
<1>6. \A x \in Items : HoldOpen(x) => x \notin Messages
  BY <1>1, ItemsAssumption DEF HoldOpen, TypeOK, EnvType
<1>7. ASSUME NEW u \in Tabs, NEW x \in Items, CallOwn(u, x), j \notin timer[t]
      PROVE  /\ j \notin Messages
             /\ \A i \in Needed(j)' : Reached(t, i)' /\ i \in Range(chain'[t][ChatOf[i]])
  <2>1. j = x /\ u = t /\ AddStored(t, x) /\ HoldOpen(x)
    BY <1>1, <1>7, CallQueues DEF TypeOK
  <2>2. ASSUME NEW i \in Needed(x)'
        PROVE  Reached(t, i) /\ i \in Range(chain[t][ChatOf[i]])
    BY <2>1, <2>2, CallWaits
  <2> QED BY <1>3, <1>4, <1>6, <2>1, <2>2
<1>8. ASSUME NEW u \in Tabs, NEW l \in Lists, DriveListed(u, l), j \notin timer[t]
      PROVE  /\ j \notin Messages
             /\ \A i \in Needed(j)' : Reached(t, i)' /\ i \in Range(chain'[t][ChatOf[i]])
  <2>1. /\ u = t /\ j \in Items /\ ListRow(t, l, j) = "queued" /\ drive[t][l].kind = "resume" /\ HoldOpen(j)
        /\ ~paused[t] /\ drive[t][l].pc = "list"
        /\ \A c \in Chats : \E q \in Sorted(Sends(t, l, c)) : chain'[t][c] = chain[t][c] \o q
    BY <1>1, <1>8, ListEnds DEF TypeOK
  <2>2. UNCHANGED <<behind, undone, failedOnce, log>>
    BY <1>8, OtherHistory
  <2>3. ASSUME NEW i \in Needed(j)'
        PROVE  Reached(t, i)' /\ i \in Range(chain'[t][ChatOf[i]])
    <3>1. i \in Needed(j)
      BY <2>2 DEF Needed, Done, Received
    <3>2. ListRow(t, l, j) # None
      BY <2>1 DEF None
    <3>3. i \in Sends(t, l, ChatOf[j]) /\ Reached(t, i) /\ ChatOf[i] = ChatOf[j] /\ i \in Items
      BY <2>1, <3>1, <3>2, ListsBefore DEF Calm, Ordered
    <3> DEFINE c == ChatOf[j]
    <3>4. c \in Chats /\ Sends(t, l, c) \in SUBSET Items /\ born \in Seq(Items) /\ chain[t][c] \in Seq(Items)
      BY <1>1, <2>1, ChatAssumption DEF Sends, TypeOK, EnvType, QueueType
    <3> HIDE DEF c
    <3>5. PICK q \in Sorted(Sends(t, l, c)) : chain'[t][c] = chain[t][c] \o q
      BY <2>1, <3>4
    <3>6. q \in Seq(Items) /\ Range(q) = Sends(t, l, c)
      BY <1>1, <3>4, SortedAll DEF Ordered, Queued
    <3>7. i \in Range(chain'[t][c])
      BY <3>3, <3>4, <3>5, <3>6, RangeJoined DEF c
    <3> QED BY <1>1, <1>2, <3>3, <3>7, ReachedStays DEF c
  <2> QED BY <1>6, <2>1, <2>3
<1>9. ASSUME NEW u \in Tabs, NEW x \in Items, SendOwn(u, x) PROVE timer' = timer
  BY <1>1, <1>9, SendQueues DEF Calm, RowInv, ClaimInv
<1>10. ASSUME NEW u \in Tabs, Pause(u) \/ Crash(u)
       PROVE  u = t \/ timer'[t] = timer[t]
  BY <1>1, <1>10, StopHistory
<1> QED BY <1>2, <1>5, <1>7, <1>8, <1>9, <1>10, WorldQueues, StepCases

\* The chains and the timers stay in line.
LEMMA InLineKept == ASSUME Calm, [Next]_vars PROVE InLine'
<1>1. ASSUME NEW t \in Tabs, NEW c \in Chats, NEW n \in DOMAIN chain'[t][c],
             NEW j, chain'[t][c][n] = j, NEW i \in Needed(j)'
      PROVE  Reached(t, i)' /\ \E m \in 1 .. n - 1 : chain'[t][c][m] = i
  BY <1>1, ChainsInLine DEF Before
<1>2. ASSUME NEW t \in Tabs, NEW j \in timer'[t]
      PROVE  /\ j \notin Messages
             /\ \A i \in Needed(j)' : Reached(t, i)' /\ i \in Range(chain'[t][ChatOf[i]])
  BY <1>2, TimersInLine
<1> QED BY <1>1, <1>2 DEF InLine

-----------------------------------------------------------------------------
(* The other parts.                                                         *)

\* Only an enqueue adds to the order.
LEMMA BornMoves ==
    ASSUME TypeOK, [Next]_vars
    PROVE  UNCHANGED born \/ \E t \in Tabs, x \in Items : Add(t, x) /\ born' = Append(born, x)
<1>1. ASSUME NEW t \in Tabs, NEW x \in Items, CallOwn(t, x)
      PROVE  UNCHANGED born \/ (Add(t, x) /\ born' = Append(born, x))
  BY <1>1, CallHistory DEF Add
<1>2. ASSUME NEW t \in Tabs, NEW x \in Items, SendOwn(t, x) PROVE UNCHANGED born
  BY <1>2, SendHistory
<1>3. ASSUME NEW t \in Tabs, Pause(t) \/ Crash(t) PROVE UNCHANGED born
  BY <1>3, StopHistory
<1>4. ASSUME NEW t \in Tabs, NEW l \in Lists, DriveListed(t, l) PROVE UNCHANGED born
  BY <1>4, OtherHistory
<1> QED BY <1>1, <1>2, <1>3, <1>4, WorldQueues, StepCases

\* The order of the items is never revised.
LEMMA OrderGrows ==
    ASSUME TypeOK, [Next]_vars
    PROVE  Range(born) \subseteq Range(born') /\ \A i, j : Older(i, j) => Older(i, j)'
<1>1. CASE UNCHANGED born
  BY <1>1 DEF Older
<1>2. ASSUME NEW x \in Items, born' = Append(born, x)
      PROVE  Range(born) \subseteq Range(born') /\ \A i, j : Older(i, j) => Older(i, j)'
  <2>1. /\ Len(born) \in Nat /\ DOMAIN born = 1 .. Len(born) /\ DOMAIN born' = 1 .. Len(born) + 1
        /\ \A k \in 1 .. Len(born) : born'[k] = born[k]
    BY <1>2 DEF TypeOK, EnvType
  <2>2. Range(born) \subseteq Range(born')
    BY <2>1 DEF Range
  <2>3. \A i, j : Older(i, j) => Older(i, j)'
    BY <2>1 DEF Older
  <2> QED BY <2>2, <2>3
<1> QED BY <1>1, <1>2, BornMoves

\* An item is queued once, behind acknowledged ones.
LEMMA QueuedKept == ASSUME Calm, [Next]_vars PROVE Queued'
<1>1. TypeOK /\ NewOnes /\ Ordered /\ TypeOK'
  BY ClaimStep DEF Calm, RowInv, ClaimInv
<1>2. \A m, n \in DOMAIN born' : born'[m] = born'[n] => m = n
  <2>1. CASE UNCHANGED born
    BY <1>1, <2>1 DEF Ordered, Queued
  <2>2. ASSUME NEW t \in Tabs, NEW x \in Items, Add(t, x), born' = Append(born, x)
        PROVE  \A m, n \in DOMAIN born' : born'[m] = born'[n] => m = n
    <3>1. /\ Len(born) \in Nat /\ DOMAIN born = 1 .. Len(born) /\ DOMAIN born' = 1 .. Len(born) + 1
          /\ \A k \in 1 .. Len(born) : born'[k] = born[k]
          /\ born'[Len(born) + 1] = x
      BY <1>1, <2>2 DEF TypeOK, EnvType
    <3>2. \A k \in 1 .. Len(born) : born[k] # x
      BY <1>1, <2>2, <3>1, AddsNew DEF Range
    <3>3. \A m, n \in 1 .. Len(born) : born[m] = born[n] => m = n
      BY <1>1, <3>1 DEF Ordered, Queued
    <3> QED BY <3>1, <3>2, <3>3
  <2> QED BY <1>1, <2>1, <2>2, BornMoves
<1>3. ASSUME NEW j \in Items, NEW i \in behind'[j]
      PROVE  i \in acked' /\ ChatOf[i] = ChatOf[j] /\ Older(i, j)'
  <2>1. CASE i \in behind[j]
    BY <1>1, <2>1, DoneStays, OrderGrows DEF Ordered, Queued
  <2>2. ASSUME NEW t \in Tabs, Add(t, j)
        PROVE  i \in acked' /\ ChatOf[i] = ChatOf[j] /\ Older(i, j)'
    <3>1. i \in session[t] /\ i \in acked /\ ChatOf[i] = ChatOf[j] /\ acked' = acked
      BY <1>1, <2>2, AddsNew
    <3>2. i \in Range(born)
      BY <1>1, <3>1 DEF Ordered, InSession
    <3>3. /\ Len(born) \in Nat /\ DOMAIN born = 1 .. Len(born) /\ DOMAIN born' = 1 .. Len(born) + 1
          /\ \A k \in 1 .. Len(born) : born'[k] = born[k]
          /\ born'[Len(born) + 1] = j
      BY <1>1, <2>2 DEF Add, TypeOK, EnvType
    <3>4. Older(i, j)'
      BY <3>2, <3>3 DEF Older, Range
    <3> QED BY <3>1, <3>4
  <2> QED BY <1>1, <2>1, <2>2, BehindShrinks
<1> QED BY <1>2, <1>3 DEF Queued

\* An open, unlocked tab stays so until it is locked or closed.
LEMMA UsableStays ==
    ASSUME TypeOK, [Next]_vars, NEW t \in Tabs, Usable(t), ~Pause(t), ~Crash(t)
    PROVE  Usable(t)'
<1>1. up \in [Tabs -> BOOLEAN] /\ paused \in [Tabs -> BOOLEAN]
  BY DEF TypeOK, TabType
<1>2. ASSUME NEW u \in Tabs, NEW x \in Items, CallOwn(u, x) PROVE UNCHANGED <<up, paused>>
  BY <1>2 DEF CallOwn, Add, AddStored, TimerFires, Cancel, CancelRead, Retry, RetryRead,
              RetryStored, CallStoreFails, tabVars
<1>3. ASSUME NEW u \in Tabs, NEW x \in Items, SendOwn(u, x) PROVE UNCHANGED <<up, paused>>
  BY <1>3 DEF SendOwn, SendStart, SendStep, SendRead, SendStored, SendAnswered, SendDeleted,
       SendFailedRead, SendFailedStored, SendFailed, SendStoreFails, SendDeleteFails, tabVars
<1>4. ASSUME NEW u \in Tabs, Pause(u) \/ Crash(u) PROVE Usable(t)'
  BY <1>1, <1>4 DEF Pause, Crash, Stop, Usable
<1>5. ASSUME NEW u \in Tabs, Transits(u) PROVE Usable(t)'
  BY <1>1, <1>5 DEF Transits, Begins, StartSync, Resume, Online, Flush, SetChatPolicy, StartDrive,
       DriveStoreFails, LockAgain, Open, tabVars, Usable
<1>6. ASSUME NEW u \in Tabs, NEW l \in Lists, Reconciles(u, l) \/ DriveListed(u, l) PROVE UNCHANGED <<up, paused>>
  BY <1>6 DEF Reconciles, DriveEvicts, DriveStored, DriveRestored, DriveListed, tabVars
<1>7. ASSUME NEW x \in Items, ServerReceives(x) \/ HoldElapses(x) PROVE UNCHANGED <<up, paused>>
  BY <1>7 DEF ServerReceives, HoldElapses, tabVars
<1>8. UNCHANGED vars => UNCHANGED <<up, paused>>
  BY DEF vars, tabVars
<1> QED BY <1>2, <1>3, <1>4, <1>5, <1>6, <1>7, <1>8, StepCases DEF Usable

\* A volatile row is the concern of its own calls and sends, until the tab stops.
LEMMA RamMoves ==
    ASSUME Calm, [Next]_vars, NEW t \in Tabs, NEW x \in Items
    PROVE  \/ ram'[t][x] = ram[t][x]
           \/ CallOwn(t, x) \/ SendOwn(t, x)
           \/ (Pause(t) \/ Crash(t)) /\ ram'[t][x] = None
<1>1. TypeOK /\ OnePlace /\ ram \in [Tabs -> [Items -> Rows]]
  BY DEF Calm, RowInv, ClaimInv, TypeOK, StoreType
<1>2. ASSUME NEW u \in Tabs, NEW y \in Items, CallOwn(u, y), u # t \/ y # x PROVE ram'[t][x] = ram[t][x]
  <2>1. \E v : ram' = ram \/ ram' = [ram EXCEPT ![u][y] = v]
    BY <1>2 DEF CallOwn, Add, AddStored, TimerFires, Cancel, CancelRead, Retry, RetryRead,
              RetryStored, CallStoreFails, WriteItem, DeleteItem
  <2> QED BY <1>1, <1>2, <2>1, Point
<1>3. ASSUME NEW u \in Tabs, NEW y \in Items, SendOwn(u, y), u # t \/ y # x PROVE ram'[t][x] = ram[t][x]
  <2>1. \E v : ram' = ram \/ ram' = [ram EXCEPT ![u][y] = v]
    BY <1>3 DEF SendOwn, SendStart, SendStep, SendRead, SendStored, SendAnswered, SendDeleted,
       SendFailedRead, SendFailedStored, SendFailed, SendStoreFails, SendDeleteFails, WriteItem, DeleteItem
  <2> QED BY <1>1, <1>3, <2>1, Point
<1>4. ASSUME NEW u \in Tabs, Pause(u) \/ Crash(u)
      PROVE  ram'[t][x] = ram[t][x] \/ ((Pause(t) \/ Crash(t)) /\ ram'[t][x] = None)
  BY <1>1, <1>4, StopHistory
<1>5. ASSUME NEW u \in Tabs, Transits(u) PROVE ram' = ram
  BY <1>5 DEF Transits, Begins, StartSync, Resume, Online, Flush, SetChatPolicy, StartDrive,
       DriveStoreFails, LockAgain, Open
<1>6. ASSUME NEW u \in Tabs, NEW l \in Lists, Reconciles(u, l) \/ DriveListed(u, l) PROVE ram' = ram
  BY <1>1, <1>6, NothingMoved
<1>7. ASSUME NEW y \in Items, ServerReceives(y) \/ HoldElapses(y) PROVE ram' = ram
  BY <1>7 DEF ServerReceives, HoldElapses
<1>8. UNCHANGED vars => ram' = ram
  BY DEF vars
<1> QED BY <1>2, <1>3, <1>4, <1>5, <1>6, <1>7, <1>8, StepCases

-----------------------------------------------------------------------------
(* What a session knows of its items.                                       *)

\* What becomes of a call.
LEMMA CallMoves ==
    ASSUME ClaimInv, [Next]_vars, NEW u \in Tabs, NEW x \in Items
    PROVE  \/ call'[u][x] \in {call[u][x], NoCall}
           \/ Add(u, x) /\ call'[u][x].pc = "add" /\ call'[u][x].row \in {None, "queued"}
           \/ Cancel(u, x) /\ call'[u][x].pc = "cancelRead" /\ call'[u][x].row = RowOf(u, x)
           \/ Retry(u, x) /\ call'[u][x].pc = "retryRead"
           \/ RetryRead(u, x) /\ call[u][x].pc = "retryRead" /\ call'[u][x].pc = "retryWrite"
<1>1. call \in [Tabs -> [Items -> Call]]
  BY DEF ClaimInv, TypeOK, CallType
<1>2. CASE Apart(x)
  BY <1>2 DEF Apart, Same
<1>3. ASSUME NEW t \in Tabs, CallOwn(t, x), t # u
      PROVE  call'[u][x] = call[u][x]
  <2>1. \E v : call' = call \/ call' = [call EXCEPT ![t][x] = v]
    BY <1>3 DEF CallOwn, Add, AddStored, TimerFires, Cancel, CancelRead, Retry, RetryRead,
         RetryStored, CallStoreFails, CallReturns
  <2> QED BY <1>1, <1>3, <2>1, Point
<1>4. CASE Add(u, x)
  BY <1>1, <1>4 DEF Add, PutOf
<1>5. CASE Cancel(u, x) \/ Retry(u, x)
  BY <1>1, <1>5 DEF Cancel, Retry
<1>6. CASE RetryRead(u, x)
  <2>1. \/ call' = [call EXCEPT ![u][x] = NoCall]
        \/ call' = [call EXCEPT ![u][x] = [pc |-> "retryWrite", row |-> PutOf(u, x, "queued")]]
    BY <1>6 DEF RetryRead, CallReturns
  <2> HIDE DEF NoCall
  <2> QED BY <1>1, <1>6, <2>1 DEF RetryRead
<1>7. CASE CallOwn(u, x) /\ ~Add(u, x) /\ ~Cancel(u, x) /\ ~Retry(u, x) /\ ~RetryRead(u, x)
  <2>1. call' \in {call, [call EXCEPT ![u][x] = NoCall]}
    BY <1>7 DEF CallOwn, AddStored, TimerFires, CancelRead, RetryStored, CallStoreFails, CallReturns
  <2> HIDE DEF NoCall
  <2> QED BY <1>1, <2>1
<1>8. ASSUME NEW t \in Tabs, SendOwn(t, x)
      PROVE  UNCHANGED call
  BY <1>8 DEF SendOwn, SendStart, SendStep, SendRead, SendStored, SendAnswered, SendDeleted,
              SendFailedRead, SendFailedStored, SendFailed, SendStoreFails, SendDeleteFails
<1>9. ASSUME NEW t \in Tabs, NEW l \in Lists, Reconciles(t, l) \/ DriveListed(t, l)
      PROVE  UNCHANGED call
  BY <1>9, OtherHistory
<1>10. CASE ServerReceives(x) \/ HoldElapses(x)
  BY <1>10 DEF ServerReceives, HoldElapses
<1> HIDE DEF NoCall
<1> QED BY <1>2, <1>3, <1>4, <1>5, <1>6, <1>7, <1>8, <1>9, <1>10, Views

\* Only add() begins the call of an enqueue, ...
LEMMA Adding ==
    ASSUME ClaimInv, [Next]_vars, NEW u \in Tabs, NEW x \in Items, call'[u][x].pc = "add"
    PROVE  call[u][x].pc = "add" \/ Add(u, x)
BY CallMoves DEF NoCall

\* ... and only its end acknowledges the item.
LEMMA NewlyAcked ==
    ASSUME ClaimInv, [Next]_vars, NEW x \in Items, x \in acked'
    PROVE  x \in acked \/ \E t \in Tabs : AddStored(t, x)
<1>1. TypeOK
  BY DEF ClaimInv
<1>2. CASE Apart(x)
  BY <1>2 DEF Apart, History
<1>3. ASSUME NEW t \in Tabs, CallOwn(t, x)
      PROVE  x \in acked \/ AddStored(t, x)
  BY <1>1, <1>3, CallHistory
<1>4. ASSUME NEW t \in Tabs, SendOwn(t, x)
      PROVE  UNCHANGED acked
  BY <1>4, SendHistory
<1>5. ASSUME NEW t \in Tabs, NEW l \in Lists, Reconciles(t, l) \/ DriveListed(t, l)
      PROVE  UNCHANGED acked
  BY <1>5, OtherHistory
<1>6. CASE ServerReceives(x) \/ HoldElapses(x)
  BY <1>6 DEF ServerReceives, HoldElapses, histVars
<1> QED BY <1>2, <1>3, <1>4, <1>5, <1>6, Views

\* A session grows by what is added in it.
LEMMA SessionMoves ==
    ASSUME ClaimInv, NewOnes, [Next]_vars, NEW t \in Tabs, NEW x \in session'[t]
    PROVE  x \in Items /\ ~Pause(t) /\ ~Crash(t) /\ (x \in session[t] \/ Add(t, x))
<1>1. TypeOK /\ TypeOK'
  BY ClaimStep DEF ClaimInv
<1>2. ~Pause(t) /\ ~Crash(t)
  BY <1>1, StopHistory
<1>3. ASSUME NEW u \in Tabs, NEW y \in Items, CallOwn(u, y)
      PROVE  x \in session[t] \/ Add(t, x)
  BY <1>1, <1>3, CallHistory, AddsNew
<1>4. ASSUME NEW u \in Tabs, NEW y \in Items, SendOwn(u, y)
      PROVE  UNCHANGED session
  BY <1>4, SendHistory
<1>5. ASSUME NEW u \in Tabs, Pause(u) \/ Crash(u)
      PROVE  x \in session[t]
  BY <1>1, <1>2, <1>5, StopHistory
<1>6. ASSUME NEW u \in Tabs, NEW l \in Lists, DriveListed(u, l)
      PROVE  UNCHANGED session
  BY <1>6, OtherHistory
<1>7. x \in Items
  BY <1>1 DEF TypeOK, HistType
<1> QED BY <1>2, <1>3, <1>4, <1>5, <1>6, <1>7, WorldQueues, StepCases

\* A message of a cloud-only chat that has to arrive yet keeps its row in RAM.
LEMMA StaysInRam ==
    ASSUME Calm, [Next]_vars, NEW t \in Tabs, NEW i \in Messages, ~Durable(i), ~Done(i)',
           ~Pause(t), ~Crash(t), ram[t][i] # None \/ Add(t, i)
    PROVE  ram'[t][i] # None
<1>0. i \in Items
  BY DEF Items
<1>1. TypeOK /\ NewOnes /\ Ordered /\ ram \in [Tabs -> [Items -> Rows]]
  BY DEF Calm, RowInv, ClaimInv, TypeOK, StoreType
<1>2. ~Persists(t, i)
  BY <1>0, ChatAssumption DEF Calm, OnePlace, Persists, Durable
<1>3. ASSUME NEW s \in Status, WriteItem(t, i, s) PROVE ram'[t][i] # None
  BY <1>0, <1>1, <1>2, <1>3 DEF WriteItem, Status, None
<1>4. "queued" \in Status /\ "sending" \in Status /\ "failed" \in Status
  BY DEF Status
<1>5. CASE Add(t, i)
  BY <1>3, <1>4, <1>5 DEF Add
<1>6. CASE CallOwn(t, i) /\ ~Add(t, i)
  <2>1. call[t][i].pc # "cancelRead"
    BY <1>0, <1>1, ItemsAssumption DEF Ordered, Failures
  <2>2. UNCHANGED ram \/ WriteItem(t, i, "queued")
    BY <1>6, <2>1 DEF CallOwn, AddStored, TimerFires, Cancel, CancelRead, Retry, RetryRead,
         RetryStored, CallStoreFails
  <2> QED BY <1>3, <1>4, <1>6, <2>2
<1>7. CASE SendOwn(t, i)
  <2>1. i \notin Received /\ i \notin failedOnce'
    <3>1. Received \subseteq Received'
      BY <1>1, DoneStays
    <3> QED BY <3>1 DEF Done
  <2>2. ~SendAnswered(t, i) /\ ~SendDeleteFails(t, i)
    BY <2>1 DEF SendAnswered, SendDeleteFails, Received
  <2>3. UNCHANGED ram \/ WriteItem(t, i, "sending") \/ WriteItem(t, i, "failed")
    BY <1>7, <2>2 DEF SendOwn, SendStart, SendStep, SendRead, SendStored, SendDeleted,
         SendFailedRead, SendFailedStored, SendFailed, SendStoreFails
  <2>4. ~Add(t, i)
    <3>1. Add(t, i) => job[t][i] = NoJob /\ InNoChain(t, i)
      BY <1>0, <1>1, AddsNew DEF Unknown
    <3>2. QueueType /\ NoJob.pc = "idle"
      BY <1>1 DEF TypeOK, NoJob
    <3>3. Add(t, i) => born' # born
      BY <1>0, <1>1, AddsNew DEF Add, TypeOK, EnvType
    <3> QED BY <1>0, <1>7, <3>3, SendHistory
  <2> QED BY <1>3, <1>4, <2>3, <2>4
<1> QED BY <1>0, <1>5, <1>6, <1>7, RamMoves

\* A session keeps its items on its chains, and in the RAM of its tab.
LEMMA InSessionKept == ASSUME Calm, [Next]_vars PROVE InSession'
<1>1. ClaimInv /\ TypeOK /\ NewOnes /\ Ordered /\ AddedOnce
  BY DEF Calm, RowInv, ClaimInv
<1>2. ASSUME NEW t \in Tabs, NEW x \in session'[t] PROVE Usable(t)' /\ x \in Range(born')
  <2>1. x \in Items /\ ~Pause(t) /\ ~Crash(t) /\ (x \in session[t] \/ Add(t, x))
    BY <1>1, <1>2, SessionMoves
  <2>2. Usable(t)
    BY <1>1, <2>1, AddsNew DEF Ordered, InSession
  <2>3. Add(t, x) => x \in Range(born')
    <3>1. Add(t, x) => Range(Append(born, x)) = Range(born) \cup {x}
      BY <1>1, <2>1, RangeAppended DEF TypeOK, EnvType
    <3> QED BY <3>1 DEF Add
  <2>4. x \in session[t] => x \in Range(born')
    BY <1>1, OrderGrows DEF Ordered, InSession
  <2> QED BY <1>1, <2>1, <2>2, <2>3, <2>4, UsableStays
<1>3. ASSUME NEW t \in Tabs, NEW i \in Messages, i \in session'[t], ~Done(i)'
      PROVE  /\ i \in acked' => i \in Range(chain'[t][ChatOf[i]])
             /\ Durable(i) \/ ram'[t][i] # None
  <2>1. i \in Items /\ ~Pause(t) /\ ~Crash(t) /\ (i \in session[t] \/ Add(t, i))
    BY <1>1, <1>3, SessionMoves
  <2>2. ~Done(i)
    BY <1>1, <1>3, DoneStays
  <2>3. i \in session[t] => /\ i \in acked => i \in Range(chain[t][ChatOf[i]])
                            /\ Durable(i) \/ ram[t][i] # None
                            /\ \A u \in Tabs : call[u][i].pc = "add" => u = t
    BY <1>1, <2>2 DEF Ordered, InSession
  <2>4. Durable(i) \/ ram'[t][i] # None
    BY <1>3, <2>1, <2>3, StaysInRam
  <2>5. CASE i \in session[t] /\ i \in acked
    BY <1>3, <2>1, <2>3, <2>4, <2>5, StaysOnChain DEF Reached
  <2>6. CASE Add(t, i)
    <3>1. i \notin acked /\ acked' = acked
      BY <1>1, <2>1, <2>6, AddsNew DEF Unknown
    <3> QED BY <2>4, <3>1
  <2>7. ASSUME NEW u \in Tabs, AddStored(u, i), i \in session[t]
        PROVE  i \in Range(chain'[t][ChatOf[i]])
    <3>1. u = t
      BY <2>3, <2>7 DEF AddStored
    <3>2. ~paused[t]
      BY <1>1, <2>7 DEF Ordered, InSession, Usable
    <3>3. ~HoldOpen(i)
      BY <1>1, ItemsAssumption DEF HoldOpen, TypeOK, EnvType
    <3>4. chain'[t][ChatOf[i]] = Append(chain[t][ChatOf[i]], i)
      BY <1>1, <2>1, <2>7, <3>1, <3>2, <3>3, CallQueues DEF TypeOK, CallOwn
    <3>5. chain[t][ChatOf[i]] \in Seq(Items)
      BY <1>1, <2>1, ChatAssumption DEF TypeOK, QueueType
    <3> QED BY <2>1, <3>4, <3>5, RangeAppended
  <2> QED BY <1>1, <2>1, <2>4, <2>5, <2>6, <2>7, NewlyAcked
<1>4. ASSUME NEW t \in Tabs, NEW i \in session'[t], NEW u \in Tabs, call'[u][i].pc = "add"
      PROVE  u = t
  <2>1. i \in Items /\ (i \in session[t] \/ Add(t, i))
    BY <1>1, <1>4, SessionMoves
  <2>2. call[u][i].pc = "add" \/ Add(u, i)
    BY <1>1, <1>4, <2>1, Adding
  <2>3. ASSUME NEW v \in Tabs, Add(v, i)
        PROVE  call[u][i].pc # "add" /\ i \notin session[t]
    BY <1>1, <2>1, <2>3, AddsNew DEF Unknown, NoCall, Ordered, InSession
  <2>4. ASSUME NEW v \in Tabs, Add(v, i)
        PROVE  u = v /\ t = v
    <3>1. i \notin session[t] /\ call[u][i].pc # "add"
      BY <2>3, <2>4
    <3>2. t = v
      BY <1>1, <1>4, <2>1, <2>4, <3>1, AddsNew
    <3>3. u = v
      BY <1>1, <1>4, <2>1, <2>4, <3>1 DEF Add, TypeOK, CallType
    <3> QED BY <3>2, <3>3
  <2>5. CASE i \in session[t] /\ call[u][i].pc = "add"
    BY <1>1, <2>5 DEF Ordered, InSession
  <2> QED BY <2>1, <2>2, <2>4, <2>5
<1> QED BY <1>2, <1>3, <1>4 DEF InSession, Durable

-----------------------------------------------------------------------------
(* What a list() finds.                                                     *)

\* A list() that is about to end was so before, or has just taken its listing.
LEMMA ListMoves ==
    ASSUME Calm, [Next]_vars, NEW t \in Tabs, NEW l \in Lists, drive'[t][l].pc = "list"
    PROVE  \/ drive'[t][l] = drive[t][l]
           \/ Reconciles(t, l) /\ drive'[t][l].left = disk /\ drive'[t][l].kind = drive[t][l].kind
<1>1. TypeOK /\ OnePlace /\ DriveType
  BY DEF Calm, RowInv, ClaimInv, TypeOK
<1>2. \A kind, chats, keep : Scan(kind, chats, keep).pc = "scan"
  BY DEF Scan
<1>3. NoDrive.pc = "idle"
  BY DEF NoDrive
<1> HIDE DEF NoDrive
<1>4. ASSUME NEW u \in Tabs, NEW m \in Lists, Reconciles(u, m) \/ DriveListed(u, m)
      PROVE  \/ drive'[t][l] = drive[t][l]
             \/ Reconciles(t, l) /\ drive'[t][l].left = disk /\ drive'[t][l].kind = drive[t][l].kind
  <2>1. CASE u # t \/ m # l
    BY <1>1, <1>4, <2>1, NothingMoved
  <2>2. CASE DriveListed(t, l)
    <3>1. drive' = [drive EXCEPT ![t][l] = NoDrive]
      BY <2>2 DEF DriveListed
    <3> QED BY <1>1, <1>3, <3>1, Slot
  <2>3. CASE Reconciles(t, l)
    BY <1>1, <1>3, <2>3, NothingMoved
  <2> QED BY <1>4, <2>1, <2>2, <2>3
<1>5. ASSUME NEW u \in Tabs, NEW m \in Lists, NEW d, drive' = [drive EXCEPT ![u][m] = d], d.pc # "list"
      PROVE  drive'[t][l] = drive[t][l]
  BY <1>1, <1>5, Slot
<1>6. ASSUME NEW u \in Tabs, NEW m \in Lists, Begins(u, m) \/ Resume(u, m) \/ DriveStoreFails(u, m)
      PROVE  drive'[t][l] = drive[t][l]
  <2>1. ASSUME NEW kind, NEW chats, NEW keep, StartDrive(u, m, kind, chats, keep)
        PROVE  drive'[t][l] = drive[t][l]
    BY <1>2, <1>5, <2>1 DEF StartDrive
  <2>2. ASSUME drive' = [drive EXCEPT ![u][m] = NoDrive]
        PROVE  drive'[t][l] = drive[t][l]
    BY <1>3, <1>5, <2>2
  <2>3. CASE Begins(u, m) \/ Resume(u, m)
    BY <2>1, <2>2, <2>3 DEF Begins, StartSync, Resume, Online, Flush, SetChatPolicy
  <2>4. CASE DriveStoreFails(u, m)
    BY <1>2, <1>5, <2>2, <2>4 DEF DriveStoreFails
  <2> QED BY <1>6, <2>3, <2>4
<1>7. ASSUME NEW u \in Tabs, Crash(u)
      PROVE  drive'[t][l] = drive[t][l]
  BY <1>1, <1>3, <1>7 DEF Crash, DriveType
<1> QED BY <1>4, <1>6, <1>7, DriveMoved

\* What waits in RAM waits for items of the same session.
LEMMA RamListed ==
    ASSUME Calm, [Next]_vars, NEW t \in Tabs, NEW j \in Items, ~Durable(j), ram'[t][j] # None
    PROVE  Needed(j)' \subseteq session'[t]
<1>1. TypeOK /\ NewOnes /\ Ordered /\ ram \in [Tabs -> [Items -> Rows]]
  BY DEF Calm, RowInv, ClaimInv, TypeOK, StoreType
<1>2. ~Pause(t) /\ ~Crash(t)
  BY <1>1, StopHistory
<1>3. CASE ram[t][j] # None
  <2>1. ~Unknown(j)
    BY <1>3 DEF Unknown
  <2>2. Needed(j)' \subseteq Needed(j)
    BY <1>1, <2>1, KnownWaitsLess
  <2>3. Needed(j) \subseteq session[t]
    BY <1>1, <1>3 DEF Ordered, Listed
  <2> QED BY <1>1, <1>2, <2>2, <2>3, SessionStays
<1>4. CASE Add(t, j)
  <2>1. Needed(j)' \subseteq behind'[j]
    BY DEF Needed
  <2> QED BY <1>1, <1>4, <2>1, AddsNew
<1>5. ASSUME ~Unknown(j), Needed(j) = {} PROVE Needed(j)' \subseteq session'[t]
  BY <1>1, <1>5, KnownWaitsLess
<1>6. CASE CallOwn(t, j) /\ ~Add(t, j) /\ ram[t][j] = None
  <2>1. RetryRead(t, j)
    <3>1. CASE ~RetryRead(t, j)
      <4>1. UNCHANGED ram \/ ram' = [ram EXCEPT ![t][j] = None]
        BY <1>6, <3>1 DEF CallOwn, AddStored, TimerFires, Cancel, CancelRead, Retry,
             RetryStored, CallStoreFails, DeleteItem
      <4> QED BY <1>1, <1>6, <4>1, Point
    <3> QED BY <3>1
  <2>2. call[t][j].pc = "retryRead"
    BY <2>1 DEF RetryRead
  <2>3. j \in failedOnce
    BY <1>1, <2>2 DEF Ordered, Failures
  <2>4. Needed(j) = {} /\ ~Unknown(j)
    BY <1>1, <2>3 DEF Ordered, InTurn, Unknown
  <2> QED BY <1>5, <2>4
<1>7. CASE SendOwn(t, j) /\ ram[t][j] = None
  <2>1. job[t][j].pc # "idle" \/ UNCHANGED ram
    BY <1>7 DEF SendOwn, SendStart, SendStep, SendRead, SendStored, SendAnswered, SendDeleted,
         SendFailedRead, SendFailedStored, SendFailed, SendStoreFails, SendDeleteFails
  <2>2. CASE job[t][j].pc # "idle"
    <3>1. Needed(j) = {} /\ ~Unknown(j)
      BY <1>1, <2>2 DEF Ordered, InTurn, Unknown, NoJob
    <3> QED BY <1>5, <3>1
  <2> QED BY <1>7, <2>1, <2>2
<1> QED BY <1>2, <1>3, <1>4, <1>6, <1>7, RamMoves

\* A list() finds what its items wait for.
LEMMA ListedKept == ASSUME Calm, [Next]_vars, used["policy"] = 0 PROVE Listed'
<1>1. TypeOK /\ NewOnes /\ Ordered /\ NoLoss /\ OnePlace
  BY DEF Calm, RowInv, ClaimInv
<1>2. ASSUME NEW t \in Tabs, NEW l \in Lists, NEW j \in Items, Durable(j), drive'[t][l].pc = "list",
             drive'[t][l].kind = "resume", drive'[t][l].left[j] # None, NEW i \in Needed(j)'
      PROVE  drive'[t][l].left[i] # None
  <2>1. ~Unknown(j) => i \in Needed(j)
    BY <1>1, KnownWaitsLess
  <2>2. CASE drive'[t][l] = drive[t][l]
    <3>1. ~Unknown(j)
      BY <1>2, <2>2 DEF Unknown
    <3> QED BY <1>1, <1>2, <2>1, <2>2, <3>1 DEF Ordered, Listed
  <2>3. CASE drive'[t][l].left = disk
    <3>1. ~Unknown(j)
      BY <1>2, <2>3 DEF Unknown
    <3>2. i \in behind[j] /\ ~Done(i)
      BY <2>1, <3>1 DEF Needed
    <3>3. i \in acked /\ ChatOf[i] = ChatOf[j]
      BY <1>1, <3>2 DEF Ordered, Queued
    <3>4. disk[i] # None
      BY <1>1, <1>2, <3>2, <3>3 DEF NoLoss, Done, Durable
    <3> QED BY <2>3, <3>4
  <2> QED BY <1>2, <2>2, <2>3, ListMoves
<1>3. \A t \in Tabs, j \in Items : ~Durable(j) /\ ram'[t][j] # None => Needed(j)' \subseteq session'[t]
  BY RamListed
<1> QED BY <1>2, <1>3 DEF Listed, Durable

-----------------------------------------------------------------------------
(* What is stored before the acknowledgement, and what has failed.          *)

\* Nothing works on a durable item before it is acknowledged.
LEMMA StoredKept == ASSUME Calm, [Next]_vars PROVE Stored'
<1>1. ClaimInv /\ TypeOK /\ NewOnes /\ Ordered /\ OnePlace /\ AddedOnce
  BY DEF Calm, RowInv, ClaimInv
<1>2. SUFFICES ASSUME NEW x \in Items, Durable(x), x \notin acked'
               PROVE  /\ disk'[x] = None /\ x \notin failedOnce'
                      /\ \A t \in Tabs : /\ job'[t][x] = NoJob /\ InNoChain(t, x)' /\ x \notin timer'[t]
                                         /\ \A l \in Lists : drive'[t][l].left[x] = None
  BY DEF Stored, Durable
<1>3. x \notin acked
  BY <1>1, <1>2, DoneStays
<1>4. /\ disk[x] = None /\ x \notin failedOnce
      /\ \A t \in Tabs : /\ job[t][x] = NoJob /\ InNoChain(t, x) /\ x \notin timer[t]
                         /\ \A l \in Lists : drive[t][l].left[x] = None
  BY <1>1, <1>2, <1>3 DEF Ordered, Stored
<1>5. CASE Apart(x)
  BY <1>4, <1>5 DEF Apart, Same, History, Queues
<1>6. ASSUME NEW t \in Tabs, CallOwn(t, x)
      PROVE  /\ UNCHANGED <<disk, chain, job, drive, failedOnce>>
             /\ \A u \in Tabs : timer'[u] \subseteq timer[u]
  <2>1. ~AddStored(t, x) /\ ~TimerFires(t, x) /\ ~Cancel(t, x) /\ ~Retry(t, x)
    <3>1. AddStored(t, x) => x \in acked'
      BY DEF AddStored
    <3> QED BY <1>2, <1>3, <1>4, <3>1 DEF TimerFires, Cancel, Retry
  <2>2. ~CancelRead(t, x) /\ ~RetryRead(t, x) /\ ~RetryStored(t, x)
    <3>1. call[t][x].pc \notin {"cancelRead", "retryRead", "retryWrite"}
      BY <1>1, <1>3, <1>4 DEF AddedOnce, Ordered, Failures
    <3> QED BY <3>1 DEF CancelRead, RetryRead, RetryStored
  <2>3. CASE Add(t, x)
    <3>1. Persists(t, x)
      BY <1>1, <1>2, ChatAssumption DEF OnePlace, Persists, Durable
    <3> QED BY <2>3, <3>1 DEF Add, WriteItem, workVars
  <2>4. CASE CallStoreFails(t, x)
    <3>1. timer' = timer \/ timer' = [timer EXCEPT ![t] = timer[t] \ {x}]
      BY <2>4 DEF CallStoreFails
    <3>2. \A u \in Tabs : timer'[u] \subseteq timer[u]
      BY <1>1, <3>1 DEF TypeOK, QueueType
    <3> QED BY <2>4, <3>2 DEF CallStoreFails, workVars, histVars
  <2> QED BY <1>6, <2>1, <2>2, <2>3, <2>4 DEF CallOwn
<1>7. ASSUME NEW t \in Tabs, SendOwn(t, x) PROVE FALSE
  <2>1. job[t][x].pc = "idle" /\ ~Turn(t, x)
    BY <1>1, <1>4, NotQueuedNoTurn DEF NoJob, TypeOK
  <2> QED BY <1>7, <2>1 DEF SendOwn, SendStart, SendStep, SendRead, SendStored, SendAnswered, SendDeleted,
         SendFailedRead, SendFailedStored, SendFailed, SendStoreFails, SendDeleteFails
<1>8. ASSUME NEW t \in Tabs, NEW l \in Lists, Reconciles(t, l) \/ DriveListed(t, l)
      PROVE  /\ UNCHANGED <<disk, job, failedOnce>>
             /\ \A u \in Tabs, m \in Lists : drive'[u][m].left[x] = None
    <2>1. NoDrive.left[x] = None /\ NoRows[x] = None
      BY DEF NoDrive, NoRows
    <2> HIDE DEF NoDrive, NoRows
    <2> QED BY <1>1, <1>4, <1>8, <2>1, NothingMoved, OtherHistory
<1>9. ASSUME NEW t \in Tabs, NEW l \in Lists, DriveListed(t, l)
      PROVE  \A u \in Tabs : InNoChain(u, x)' /\ x \notin timer'[u]
  <2>1. ram[t][x] = None /\ drive[t][l].left[x] = None
    BY <1>1, <1>2, <1>4 DEF OnePlace, OnDisk
  <2>2. ~Redriven(drive[t][l].kind, x, None) /\ None # "queued"
    BY DEF Redriven, Resumable, None
  <2>3. Queues(x) /\ \A u \in Tabs : x \in timer'[u] => x \in timer[u]
    BY <1>1, <1>9, <2>1, <2>2, DriveListedQueues
  <2> QED BY <1>4, <2>3 DEF Queues
<1>10. ASSUME NEW t \in Tabs, NEW l \in Lists, Reconciles(t, l)
       PROVE  UNCHANGED <<chain, timer>>
  BY <1>10, WorldQueues
<1>11. ServerReceives(x) \/ HoldElapses(x) => UNCHANGED <<disk, chain, timer, job, drive, failedOnce>>
  BY DEF ServerReceives, HoldElapses, workVars, histVars
<1>12. UNCHANGED chain => \A u \in Tabs : InNoChain(u, x)'
  BY <1>4 DEF InNoChain
<1> QED BY <1>1, <1>4, <1>5, <1>6, <1>7, <1>8, <1>9, <1>10, <1>11, <1>12, Views

-----------------------------------------------------------------------------
(* What becomes of a send.                                                  *)

\* A sender goes from its read to its write, its request, and an end or a failure.
LEMMA JobMoves ==
    ASSUME ClaimInv, [Next]_vars, NEW u \in Tabs, NEW x \in Items
    PROVE  \/ job'[u][x].pc = job[u][x].pc /\ job'[u][x].row = job[u][x].row
           \/ job'[u][x] = NoJob
           \/ SendStart(u, x) /\ job'[u][x].pc = "read" /\ job'[u][x].row = RowOf(u, x)
           \/ /\ job[u][x].pc # "idle" /\ job'[u][x].row \in {None, "sending"}
              /\ job'[u][x].pc \in {"write", "request"}
           \/ /\ job[u][x].pc # "idle" /\ job'[u][x].row = None
              /\ job'[u][x].pc = "delete" /\ x \in Received
           \/ /\ job[u][x].pc # "idle" /\ job'[u][x].pc = "readFailed" /\ x \in failedOnce'
           \/ /\ job[u][x].pc = "readFailed" /\ job'[u][x].pc = "writeFailed"
<1>1. TypeOK /\ WorkType /\ job \in [Tabs -> [Items -> Job]]
  BY DEF ClaimInv, TypeOK, WorkType
<1>2. CASE Apart(x)
  BY <1>2 DEF Apart, Same
<1>3. ASSUME NEW t \in Tabs, SendOwn(t, x), t # u
      PROVE  job'[u][x] = job[u][x]
  <2>1. \E v : job' = [job EXCEPT ![t][x] = v]
    BY <1>3 DEF SendOwn, SendStart, SendStep, SendRead, SendStored, SendAnswered, SendDeleted,
              SendFailedRead, SendFailedStored, SendFailed, SendStoreFails, SendDeleteFails, Work, Finish
  <2> QED BY <1>1, <1>3, <2>1, Point
<1>4. Finish(u, x) => job'[u][x] = NoJob
  <2> HIDE DEF NoJob
  <2> QED BY <1>1, Point DEF Finish
<1>5. CASE SendStart(u, x)
  BY <1>1, <1>5 DEF SendStart
<1> HIDE DEF NoJob
<1>6. CASE SendRead(u, x)
  <2>1. Finish(u, x) \/ Work(u, x, "write", PutOf(u, x, "sending"))
    BY <1>6 DEF SendRead
  <2>2. PutOf(u, x, "sending") \in {None, "sending"}
    BY DEF PutOf
  <2>3. Work(u, x, "write", PutOf(u, x, "sending")) =>
           job'[u][x].pc = "write" /\ job'[u][x].row = PutOf(u, x, "sending")
    BY <1>1, WorkGives
  <2> QED BY <1>4, <1>6, <2>1, <2>2, <2>3 DEF SendRead
<1>7. CASE SendStored(u, x)
  BY <1>1, <1>4, <1>7, WorkGives DEF SendStored
<1>8. CASE SendAnswered(u, x)
  BY <1>1, <1>8, WorkGives DEF SendAnswered, Received
<1>9. CASE SendDeleted(u, x) \/ SendFailedStored(u, x) \/ SendStoreFails(u, x)
  BY <1>4, <1>9 DEF SendDeleted, SendFailedStored, SendStoreFails
<1>10. CASE SendFailedRead(u, x)
  BY <1>1, <1>4, <1>10, WorkGives DEF SendFailedRead
<1>11. CASE SendFailed(u, x) \/ SendDeleteFails(u, x)
  BY <1>1, <1>11, WorkGives DEF SendFailed, SendDeleteFails
<1>12. ASSUME NEW t \in Tabs, CallOwn(t, x)
       PROVE  UNCHANGED job
  BY <1>12 DEF CallOwn, Add, AddStored, TimerFires, Cancel, CancelRead, Retry, RetryRead,
         RetryStored, CallStoreFails, workVars
<1>13. ASSUME NEW t \in Tabs, NEW l \in Lists, Reconciles(t, l) \/ DriveListed(t, l)
       PROVE  UNCHANGED job
  BY <1>13, OtherHistory
<1>14. CASE ServerReceives(x) \/ HoldElapses(x)
  BY <1>14 DEF ServerReceives, HoldElapses, workVars
<1> QED BY <1>2, <1>3, <1>5, <1>6, <1>7, <1>8, <1>9, <1>10, <1>11, <1>12, <1>13, <1>14, Views
           DEF SendOwn, SendStep

-----------------------------------------------------------------------------
(* What has failed.                                                         *)

\* No row of x says "failed" before x has failed.
Unmarked(x) ==
    /\ disk[x] # "failed"
    /\ \A t \in Tabs : ram[t][x] # "failed" /\ \A l \in Lists : drive[t][l].left[x] # "failed"

\* No step writes "failed" for an item that has not.
LEMMA RowsUnmarked ==
    ASSUME Calm, [Next]_vars, NEW x \in Items, x \notin failedOnce', Tabs # {}
    PROVE  Unmarked(x)'
<1>1. ClaimInv /\ TypeOK /\ Ordered /\ OnePlace /\ x \notin failedOnce
  BY DoneStays DEF Calm, RowInv, ClaimInv
<1>2. /\ Unmarked(x)
      /\ \A t \in Tabs : /\ job[t][x].row # "failed" /\ call[t][x].row # "failed"
                         /\ job[t][x].pc \notin {"readFailed", "writeFailed"}
  BY <1>1 DEF Ordered, Failures, Says, Unmarked
<1>3. disk \in [Items -> Rows] /\ ram \in [Tabs -> [Items -> Rows]]
  BY <1>1 DEF TypeOK, StoreType
<1>4. None # "failed"
  BY DEF None
<1>5. CASE Apart(x)
  BY <1>2, <1>4, <1>5 DEF Apart, Same, Unmarked
<1>6. ASSUME NEW t \in Tabs, NEW v, ram' = [ram EXCEPT ![t][x] = v], v # "failed", NEW u \in Tabs
      PROVE  ram'[u][x] # "failed"
  <2>1. CASE u = t
    BY <1>3, <1>6, <2>1
  <2>2. CASE u # t
    BY <1>2, <1>3, <1>6, <2>2 DEF Unmarked
  <2> QED BY <2>1, <2>2
<1>7. ASSUME NEW t \in Tabs, NEW s, s # "failed", WriteItem(t, x, s)
      PROVE  disk'[x] # "failed" /\ \A u \in Tabs : ram'[u][x] # "failed"
  <2>1. disk'[x] # "failed"
    BY <1>2, <1>3, <1>4, <1>7 DEF WriteItem, Unmarked
  <2>2. ASSUME NEW u \in Tabs, ram' = [ram EXCEPT ![t][x] = None]
        PROVE  ram'[u][x] # "failed"
    BY <1>4, <1>6, <2>2
  <2>3. ASSUME NEW u \in Tabs, ram' = [ram EXCEPT ![t][x] = s]
        PROVE  ram'[u][x] # "failed"
    BY <1>6, <1>7, <2>3
  <2> QED BY <1>7, <2>1, <2>2, <2>3 DEF WriteItem
<1>8. ASSUME NEW t \in Tabs, DeleteItem(t, x)
      PROVE  disk'[x] # "failed" /\ \A u \in Tabs : ram'[u][x] # "failed"
  <2>1. disk'[x] # "failed"
    BY <1>3, <1>4, <1>8 DEF DeleteItem
  <2> QED BY <1>4, <1>6, <1>8, <2>1 DEF DeleteItem
<1>9. ASSUME NEW row, row # "failed", PutDone(x, row), UNCHANGED ram
      PROVE  disk'[x] # "failed" /\ \A u \in Tabs : ram'[u][x] # "failed"
  BY <1>2, <1>3, <1>9 DEF PutDone, Unmarked
<1>10. UNCHANGED <<disk, ram>> => disk'[x] # "failed" /\ \A u \in Tabs : ram'[u][x] # "failed"
  BY <1>2 DEF Unmarked
<1>11. ASSUME NEW t \in Tabs, CallOwn(t, x)
       PROVE  Unmarked(x)'
  <2>1. UNCHANGED drive
    BY <1>11 DEF CallOwn, Add, AddStored, TimerFires, Cancel, CancelRead, Retry, RetryRead,
         RetryStored, CallStoreFails
  <2>2. CASE CallStoreFails(t, x)
    BY <1>2, <1>4, <1>6, <2>2 DEF CallStoreFails, Unmarked
  <2>3. CASE ~CallStoreFails(t, x)
    <3>1. \/ UNCHANGED <<disk, ram>> \/ DeleteItem(t, x)
          \/ WriteItem(t, x, "queued")
          \/ PutDone(x, call[t][x].row) /\ UNCHANGED ram
      BY <1>11, <2>3 DEF CallOwn, Add, AddStored, TimerFires, Cancel, CancelRead, Retry, RetryRead,
         RetryStored
    <3> QED BY <1>2, <1>7, <1>8, <1>9, <1>10, <3>1, <2>1 DEF Unmarked
  <2>4. disk'[x] # "failed" /\ \A u \in Tabs : ram'[u][x] # "failed"
    BY <2>2, <2>3 DEF Unmarked
  <2> QED BY <1>2, <2>1, <2>4 DEF Unmarked
<1>12. ASSUME NEW t \in Tabs, SendOwn(t, x)
       PROVE  Unmarked(x)'
  <2>1. UNCHANGED drive
    BY <1>12 DEF SendOwn, SendStart, SendStep, SendRead, SendStored, SendAnswered, SendDeleted,
         SendFailedRead, SendFailedStored, SendFailed, SendStoreFails, SendDeleteFails
  <2>2. ~SendFailedRead(t, x) /\ ~SendFailedStored(t, x) /\ ~SendDeleteFails(t, x)
    BY <1>2, <1>1 DEF SendFailedRead, SendFailedStored, SendDeleteFails
  <2>3. \/ UNCHANGED <<disk, ram>> \/ DeleteItem(t, x)
        \/ WriteItem(t, x, "sending")
        \/ PutDone(x, job[t][x].row) /\ UNCHANGED ram
    BY <1>12, <2>2 DEF SendOwn, SendStart, SendStep, SendRead, SendStored, SendAnswered, SendDeleted,
         SendFailed, SendStoreFails
  <2> QED BY <1>2, <1>7, <1>8, <1>9, <1>10, <2>1, <2>3 DEF Unmarked
<1>13. ASSUME NEW t \in Tabs, NEW l \in Lists, Reconciles(t, l) \/ DriveListed(t, l)
       PROVE  Unmarked(x)'
  <2>1. UNCHANGED <<disk, ram>>
    BY <1>1, <1>13, NothingMoved
  <2>2. NoDrive.left[x] = None
    BY DEF NoDrive, NoRows
  <2> HIDE DEF NoDrive
  <2>3. \A u \in Tabs, m \in Lists : drive'[u][m].left[x] \in {None, disk[x], drive[u][m].left[x]}
    <3>1. \A u \in Tabs, m \in Lists : u # t \/ m # l => drive'[u][m].left[x] = drive[u][m].left[x]
      BY <1>1, <1>13, NothingMoved
    <3>2. drive'[t][l].left[x] \in {None, disk[x]}
      <4>1. NoRows[x] = None
        BY DEF NoRows
      <4> HIDE DEF NoRows
      <4> QED BY <1>1, <1>13, <2>2, <4>1, NothingMoved
    <3> QED BY <3>1, <3>2
  <2> QED BY <1>2, <1>4, <2>1, <2>3 DEF Unmarked
<1>14. ServerReceives(x) \/ HoldElapses(x) => UNCHANGED <<disk, ram, drive>>
  BY DEF ServerReceives, HoldElapses
<1> QED BY <1>1, <1>2, <1>5, <1>11, <1>12, <1>13, <1>14, Views DEF Unmarked

\* A row, a copy of it or a call says "failed" only of what has failed.
LEMMA FailuresKept == ASSUME Calm, [Next]_vars PROVE Failures'
<1>1. ClaimInv /\ TypeOK /\ Ordered /\ failedOnce \subseteq failedOnce'
  BY DoneStays DEF Calm, RowInv, ClaimInv
<1> SUFFICES ASSUME NEW t \in Tabs, NEW x \in Items
             PROVE  /\ Says(disk[x], x)' /\ Says(ram[t][x], x)' /\ (\A l \in Lists : Says(drive[t][l].left[x], x))'
                    /\ Says(job[t][x].row, x)' /\ Says(call[t][x].row, x)'
                    /\ job'[t][x].pc \in {"readFailed", "writeFailed"} => x \in failedOnce'
                    /\ call'[t][x].pc \in {"retryRead", "retryWrite"} => x \in failedOnce'
                    /\ call'[t][x].pc = "cancelRead" => x \in Deletes
  BY DEF Failures
<1>2. /\ Says(disk[x], x) /\ Says(ram[t][x], x) /\ \A l \in Lists : Says(drive[t][l].left[x], x)
      /\ Says(job[t][x].row, x) /\ Says(call[t][x].row, x)
      /\ job[t][x].pc \in {"readFailed", "writeFailed"} => x \in failedOnce
      /\ call[t][x].pc \in {"retryRead", "retryWrite"} => x \in failedOnce
      /\ call[t][x].pc = "cancelRead" => x \in Deletes
  BY <1>1 DEF Ordered, Failures
<1>3. Says(disk[x], x)' /\ Says(ram[t][x], x)' /\ (\A l \in Lists : Says(drive[t][l].left[x], x))'
  BY RowsUnmarked DEF Says, Unmarked
<1>4. RowOf(t, x) = "failed" => x \in failedOnce
  BY <1>2 DEF RowOf, Says
<1>5. NoJob.pc = "idle" /\ NoJob.row = None /\ NoCall.pc = "idle" /\ NoCall.row = None /\ None # "failed"
  BY DEF NoJob, NoCall, None
<1> HIDE DEF NoJob, NoCall
<1>6. /\ Says(job[t][x].row, x)'
      /\ job'[t][x].pc \in {"readFailed", "writeFailed"} => x \in failedOnce'
  BY <1>1, <1>2, <1>4, <1>5, JobMoves DEF Says
<1>7. /\ Says(call[t][x].row, x)'
      /\ call'[t][x].pc \in {"retryRead", "retryWrite"} => x \in failedOnce'
      /\ call'[t][x].pc = "cancelRead" => x \in Deletes
  <2>1. Cancel(t, x) => x \in Deletes
    BY DEF Cancel
  <2>2. Retry(t, x) => x \in failedOnce
    BY DEF Retry
  <2> QED BY <1>1, <1>2, <1>4, <1>5, <2>1, <2>2, CallMoves DEF Says
<1> QED BY <1>3, <1>6, <1>7

-----------------------------------------------------------------------------
(* Senders.                                                                 *)

\* A send begins when what its item waits for is done: it is first of its chain.
LEMMA StartsFirst ==
    ASSUME Calm, NEW t \in Tabs, NEW x \in Items, SendStart(t, x)
    PROVE  Needed(x) = {} /\ x \in Range(chain[t][ChatOf[x]])
<1>1. InLine /\ chain[t][ChatOf[x]] \in Seq(Items) /\ ChatOf[x] \in Chats
  BY ChatAssumption DEF Calm, Ordered, RowInv, ClaimInv, TypeOK, QueueType
<1> DEFINE s == chain[t][ChatOf[x]]
<1>2. s # <<>> /\ Head(s) = x
  BY DEF SendStart, Turn
<1>3. 1 \in DOMAIN s /\ s[1] = x
  BY <1>1, <1>2
<1>4. ASSUME NEW c \in Chats, NEW n \in DOMAIN chain[t][c], NEW j, chain[t][c][n] = j, NEW i \in Needed(j)
      PROVE  \E m \in 1 .. n - 1 : chain[t][c][m] = i
  BY <1>4 DEF InLine, Calm, Ordered
<1> DEFINE c == ChatOf[x]
<1>5. ASSUME NEW n, n = 1, NEW i \in Needed(x) PROVE FALSE
  <2>1. n \in DOMAIN chain[t][c] /\ chain[t][c][n] = x /\ c \in Chats
    BY <1>1, <1>3, <1>5
  <2> HIDE DEF c
  <2>2. \E m \in 1 .. n - 1 : chain[t][c][m] = i
    BY <1>4, <1>5, <2>1
  <2> QED BY <1>5, <2>2
<1>6. Needed(x) = {}
  BY <1>5
<1> QED BY <1>3, <1>6 DEF Range

\* When it finds no row, the message is done, or the tab never had it.
LEMMA NothingToSend ==
    ASSUME Calm, used["policy"] = 0, NEW t \in Tabs, NEW x \in Messages, SendStart(t, x), RowOf(t, x) = None
    PROVE  Done(x) \/ ~Reached(t, x)
<1>1. x \in Items /\ NoLoss /\ Ordered
  BY DEF Items, Calm, RowInv
<1>2. x \in Range(chain[t][ChatOf[x]]) /\ ChatOf[x] \in Chats
  BY <1>1, StartsFirst, ChatAssumption
<1>3. ram[t][x] = None /\ disk[x] = None
  BY DEF RowOf
<1>4. CASE Durable(x)
  <2>1. x \in acked
    BY <1>1, <1>2, <1>4 DEF Ordered, Stored, InNoChain
  <2>2. x \in Received \cup undone
    BY <1>3, <1>4, <1>1, <2>1 DEF NoLoss, Durable
  <2> QED BY <2>2 DEF Done
<1>5. CASE ~Durable(x) /\ x \in session[t]
  BY <1>1, <1>3, <1>5 DEF Ordered, InSession
<1> QED BY <1>4, <1>5 DEF Reached

\* What newly fails, or is left on its way, had begun.
LEMMA HadBegun ==
    ASSUME Calm, [Next]_vars, NEW x \in Items, x \in failedOnce' \cup orphan'
    PROVE  x \in failedOnce \cup orphan \/ \E t \in Tabs : job[t][x].pc # "idle"
<1>1. ClaimInv /\ TypeOK
  BY DEF Calm, RowInv, ClaimInv
<1>2. CASE Apart(x)
  BY <1>2 DEF Apart, History
<1>3. ASSUME NEW t \in Tabs, CallOwn(t, x)
      PROVE  UNCHANGED <<failedOnce, orphan>>
  BY <1>1, <1>3, CallHistory
<1>4. ASSUME NEW t \in Tabs, SendOwn(t, x)
      PROVE  UNCHANGED <<failedOnce, orphan>> \/ job[t][x].pc # "idle"
  BY <1>4 DEF SendOwn, SendStart, SendStep, SendRead, SendStored, SendAnswered, SendDeleted,
       SendFailedRead, SendFailedStored, SendFailed, SendStoreFails, SendDeleteFails, envVars, histVars
<1>5. ASSUME NEW t \in Tabs, NEW l \in Lists, Reconciles(t, l) \/ DriveListed(t, l)
      PROVE  UNCHANGED <<failedOnce, orphan>>
  BY <1>5, OtherHistory
<1>6. CASE ServerReceives(x) \/ HoldElapses(x)
  <2>1. orphan' \subseteq orphan /\ failedOnce' = failedOnce
    BY <1>6 DEF ServerReceives, HoldElapses, histVars
  <2> QED BY <2>1
<1> QED BY <1>1, <1>2, <1>3, <1>4, <1>5, <1>6, Views

\* Every sender that has begun waits for nothing.
LEMMA InTurnKept == ASSUME Calm, [Next]_vars, used["policy"] = 0 PROVE InTurn'
<1>1. ClaimInv /\ TypeOK /\ NewOnes /\ Ordered /\ Received \subseteq Received'
  BY DoneStays DEF Calm, RowInv, ClaimInv
<1>2. NoJob.pc = "idle"
  BY DEF NoJob
<1>3. ASSUME NEW x \in Items, Needed(x) = {}, ~Unknown(x)
      PROVE  Needed(x)' = {}
  BY <1>1, <1>3, KnownWaitsLess
<1>4. ASSUME NEW t \in Tabs, NEW x \in Items, job[t][x].pc # "idle"
      PROVE  Needed(x)' = {}
  BY <1>1, <1>2, <1>3, <1>4 DEF Ordered, InTurn, Unknown
<1>5. ASSUME NEW t \in Tabs, NEW x \in Items, SendStart(t, x)
      PROVE  Needed(x)' = {}
  <2>1. ~Unknown(x)
    BY <1>5, StartsFirst, ChatAssumption DEF Unknown, InNoChain
  <2> QED BY <1>3, <1>5, <2>1, StartsFirst
<1>6. ASSUME NEW x \in Items, x \in failedOnce' \cup orphan'
      PROVE  Needed(x)' = {}
  <2>1. x \in failedOnce \cup orphan => Needed(x) = {} /\ ~Unknown(x)
    BY <1>1 DEF Ordered, InTurn, Unknown
  <2> QED BY <1>3, <1>4, <1>6, <2>1, HadBegun
<1>7. ASSUME NEW t \in Tabs, NEW x \in Items
      PROVE  /\ job'[t][x].pc # "idle" => Needed(x)' = {}
             /\ job'[t][x].pc = "delete" => x \in Received'
  <2> HIDE DEF NoJob
  <2>1. job[t][x].pc = "delete" => x \in Received
    BY <1>1 DEF Ordered, InTurn
  <2> QED BY <1>1, <1>2, <1>4, <1>5, <2>1, JobMoves
<1>8. ASSUME NEW t \in Tabs, NEW x \in Items, job'[t][x].pc = "read", job'[t][x].row = None, x \in Messages
      PROVE  Done(x)' \/ ~Reached(t, x)'
  <2>1. \/ job[t][x].pc = "read" /\ job[t][x].row = None
        \/ SendStart(t, x) /\ RowOf(t, x) = None
    <3>1. job'[t][x] # NoJob
      BY <1>8 DEF NoJob
    <3>2. job'[t][x].pc \notin {"write", "request", "delete", "readFailed", "writeFailed"}
      BY <1>8
    <3>3. \/ job'[t][x].pc = job[t][x].pc /\ job'[t][x].row = job[t][x].row
          \/ SendStart(t, x) /\ job'[t][x].row = RowOf(t, x)
      <4> HIDE DEF NoJob
      <4> QED BY <1>1, <3>1, <3>2, JobMoves
    <3> QED BY <1>8, <3>3
  <2>2. Done(x) \/ ~Reached(t, x)
    BY <1>1, <1>8, <2>1, NothingToSend DEF Ordered, InTurn
  <2>3. ~Unknown(x)
    <3>1. SendStart(t, x) => ~Unknown(x)
      BY StartsFirst, ChatAssumption DEF Unknown, InNoChain
    <3> QED BY <1>2, <2>1, <3>1 DEF Unknown
  <2>4. Reached(t, x)' => Reached(t, x)
    <3>1. x \in session'[t] => x \in session[t]
      BY <1>1, <2>3, SessionMoves, AddsNew
    <3> QED BY <3>1 DEF Reached, Durable
  <2>5. Done(x) => Done(x)'
    BY <1>1, DoneStays
  <2> QED BY <2>2, <2>4, <2>5
<1>9. failedOnce' \cup orphan' \subseteq Items
  BY ClaimStep, <1>1 DEF ClaimInv, TypeOK, HistType, EnvType
<1> QED BY <1>6, <1>7, <1>8, <1>9 DEF InTurn

-----------------------------------------------------------------------------
(* The order of arrival.                                                    *)

\* The part of OrderWhenHealthy that counts while nothing disturbs the order.
Arrived ==
    \A k \in DOMAIN log : \A i \in behind[log[k]] \cap Messages :
        i \in undone \cup failedOnce \/ \E m \in 1..k : log[m] = i

\* A request that arrives finds those it waits for in the log, or failed.
LEMMA ArrivedKept == ASSUME Calm, Arrived, [Next]_vars PROVE Arrived'
<1>1. TypeOK /\ NewOnes /\ Ordered /\ undone \subseteq undone' /\ failedOnce \subseteq failedOnce'
  BY DoneStays DEF Calm, RowInv, ClaimInv
<1>2. /\ log \in Seq(Items) /\ Len(log) \in Nat /\ DOMAIN log = 1 .. Len(log)
  BY <1>1 DEF TypeOK, EnvType
<1>3. ASSUME NEW x \in Items, ~Unknown(x) PROVE behind'[x] \subseteq behind[x]
  BY <1>1, <1>3, BehindShrinks, AddsNew
<1>4. ASSUME NEW k \in 1 .. Len(log), NEW x, x = log[k], NEW i \in behind'[x] \cap Messages
      PROVE  i \in undone' \cup failedOnce' \/ \E m \in 1 .. k : log[m] = i
  <2>1. x \in Items /\ x \in Received
    BY <1>2, <1>4 DEF Received, Range
  <2>2. i \in behind[x]
    BY <1>3, <2>1 DEF Unknown
  <2> QED BY <1>1, <1>2, <1>4, <2>2 DEF Arrived
<1>5. CASE log' = log
  BY <1>2, <1>4, <1>5 DEF Arrived
<1>6. ASSUME NEW x \in Items, ServerReceives(x)
      PROVE  Arrived'
  <2>1. log' = Append(log, x) /\ behind' = behind /\ undone' = undone /\ failedOnce' = failedOnce
    BY <1>6 DEF ServerReceives, histVars
  <2>2. /\ DOMAIN log' = 1 .. Len(log) + 1 /\ log'[Len(log) + 1] = x
        /\ \A k \in 1 .. Len(log) : log'[k] = log[k]
    BY <1>2, <2>1
  <2>3. Needed(x) = {}
    BY <1>1, <1>6 DEF ServerReceives, Ordered, InTurn
  <2>4. \A i \in behind[x] \cap Messages : i \in undone \cup failedOnce \/ \E m \in 1 .. Len(log) : log[m] = i
    BY <1>2, <2>3 DEF Needed, Done, Received, Range
  <2>5. ASSUME NEW k \in DOMAIN log', NEW i \in behind'[log'[k]] \cap Messages
        PROVE  i \in undone' \cup failedOnce' \/ \E m \in 1 .. k : log'[m] = i
    <3>1. CASE k \in 1 .. Len(log)
      <4>1. i \in undone' \cup failedOnce' \/ \E m \in 1 .. k : log[m] = i
        BY <1>4, <2>2, <2>5, <3>1
      <4> QED BY <1>2, <2>2, <3>1, <4>1
    <3>2. CASE k = Len(log) + 1
      <4>1. i \in behind[x] \cap Messages
        BY <2>1, <2>2, <2>5, <3>2
      <4> QED BY <1>2, <2>1, <2>2, <2>4, <3>2, <4>1
    <3> QED BY <1>2, <2>2, <3>1, <3>2
  <2> QED BY <2>5 DEF Arrived
<1>7. log' = log \/ \E x \in Items : ServerReceives(x)
  <2>1. ASSUME NEW t \in Tabs, NEW x \in Items, CallOwn(t, x) PROVE UNCHANGED log
    BY <1>1, <2>1, CallHistory
  <2>2. ASSUME NEW t \in Tabs, NEW x \in Items, SendOwn(t, x) PROVE UNCHANGED log
    BY <2>2, SendHistory
  <2>3. ASSUME NEW t \in Tabs, Pause(t) \/ Crash(t) PROVE UNCHANGED log
    BY <1>1, <2>3, StopHistory
  <2>4. ASSUME NEW t \in Tabs, Transits(t) \/ \E l \in Lists : Reconciles(t, l) \/ DriveListed(t, l) PROVE UNCHANGED log
    BY <2>4, OtherHistory
  <2>5. ASSUME NEW x \in Items, HoldElapses(x) PROVE UNCHANGED log
    BY <2>5 DEF HoldElapses
  <2>6. UNCHANGED vars => UNCHANGED log
    BY DEF vars, envVars
  <2> QED BY <2>1, <2>2, <2>3, <2>4, <2>5, <2>6, StepCases
<1> QED BY <1>5, <1>6, <1>7

\* Nothing is queued at first.
LEMMA OrderInit == Init => OrderInv
<1> SUFFICES ASSUME Init PROVE OrderInv
  OBVIOUS
<1>1. /\ born = <<>> /\ log = <<>> /\ acked = {} /\ failedOnce = {} /\ orphan = {}
      /\ disk = NoRows /\ behind = [i \in Items |-> {}]
      /\ \A t \in Tabs : /\ session[t] = {} /\ timer[t] = {} /\ (\A l \in Lists : drive[t][l] = NoDrive) /\ ram[t] = NoRows
                         /\ chain[t] = [c \in Chats |-> <<>>]
                         /\ \A i \in Items : job[t][i] = NoJob /\ call[t][i] = NoCall
  BY DEF Init
<1>2. OrderWhenHealthy
  BY <1>1 DEF OrderWhenHealthy
<1>3. Queued /\ InSession
  BY <1>1 DEF Queued, InSession, NoCall
<1>4. InLine
  BY <1>1 DEF InLine
<1>5. NoDrive.pc = "idle" /\ \A i \in Items : NoDrive.left[i] = None /\ NoRows[i] = None
  BY DEF NoDrive, NoRows
<1>6. NoJob.pc = "idle" /\ NoJob.row = None /\ NoCall.pc = "idle" /\ NoCall.row = None /\ None # "failed"
  BY DEF NoJob, NoCall, None
<1>7. \A t \in Tabs, i \in Items : InNoChain(t, i)
  BY <1>1 DEF InNoChain, Range
<1> HIDE DEF NoDrive, NoRows, NoJob, NoCall
<1>8. Listed
  BY <1>1, <1>5 DEF Listed
<1>9. Stored
  BY <1>1, <1>5, <1>6, <1>7 DEF Stored
<1>10. Failures
  BY <1>1, <1>5, <1>6 DEF Failures, Says
<1>11. InTurn
  BY <1>1, <1>6 DEF InTurn
<1> QED BY <1>2, <1>3, <1>4, <1>8, <1>9, <1>10, <1>11 DEF OrderInv, Ordered

\* OrderInv is inductive, given RowInv.
LEMMA OrderStep == RowInv /\ OrderInv /\ [Next]_vars => OrderInv'
<1> SUFFICES ASSUME RowInv, OrderInv, [Next]_vars, used'["policy"] = 0, used'["flush"] = 0
             PROVE  Arrived' /\ Ordered'
  BY DEF OrderInv, OrderWhenHealthy, Arrived
<1>1. TypeOK /\ RowInv
  BY DEF RowInv, ClaimInv
<1>2. used["policy"] = 0 /\ used["flush"] = 0
  BY <1>1, UsedGrows DEF Events
<1>3. Arrived /\ Ordered
  BY <1>2 DEF OrderInv, OrderWhenHealthy, Arrived
<1>4. Calm
  BY <1>1, <1>2, <1>3 DEF Calm, RowInv, FixedPolicy, HeldUntouched
<1> QED BY <1>2, <1>3, <1>4, ArrivedKept, QueuedKept, InSessionKept, InLineKept, ListedKept,
           StoredKept, FailuresKept, InTurnKept DEF Ordered

\* What a session, the chains and the senders know of the order of a chat.
THEOREM OrderInvariant == Spec => []OrderInv
<1>1. Init => OrderInv
  BY OrderInit
<1>2. RowInv /\ OrderInv /\ [Next]_vars => OrderInv'
  BY OrderStep
<1> QED BY <1>1, <1>2, RowInvariant, PTL DEF Spec

\* Without failures, messages of a chat queued one after the other in a session
\* reach the server in that order.
THEOREM OrderKept == Spec => []OrderWhenHealthy
<1>1. OrderInv => OrderWhenHealthy
  BY DEF OrderInv
<1> QED BY <1>1, OrderInvariant, PTL

-----------------------------------------------------------------------------
(* A chat that becomes cloud-only, on a device with one tab.                *)

\* The other list() calls of the tab go on as they are.
Others(t, l) == \A m \in Lists : m # l => drive'[t][m] = drive[t][m]

\* It is one list() that an assignment to its record changes.
LEMMA OneSlot ==
    ASSUME DriveType, NEW t \in Tabs, NEW l \in Lists, NEW v, drive' = [drive EXCEPT ![t][l] = v]
    PROVE  drive'[t][l] = v /\ Others(t, l)
<1>1. drive'[t][l] = v
  BY DEF DriveType
<1>2. Others(t, l)
  BY Slot DEF Others
<1> QED BY <1>1, <1>2

\* A list() begins, or ends, with no row to restore.
Renews(t, l) ==
    /\ drive'[t][l].cur = {} /\ drive'[t][l].kind \notin Transitions /\ drive'[t][l].pc \notin Restoring
    /\ Others(t, l)
    /\ UNCHANGED <<disk, ram, persist>>

\* What a step does to the list() calls of the only tab.
LEMMA ListSteps ==
    ASSUME TypeOK, [Next]_vars, NEW t \in Tabs, Alone(t)
    PROVE  \/ UNCHANGED <<drive, persist>>
           \/ Crash(t) /\ (\A l \in Lists : drive'[t][l] = NoDrive) /\ UNCHANGED persist
           \/ \E l \in Lists : \/ Renews(t, l)
                               \/ \E c \in Chats : SetChatPolicy(t, l, c)
                               \/ Reconciles(t, l)
                               \/ DriveStoreFails(t, l)
<1>0. DriveType /\ drive \in [Tabs -> [Lists -> Drive]]
  BY DEF TypeOK, DriveType
<1>1. ASSUME NEW u \in Tabs, NEW i \in Items, CallOwn(u, i)
      PROVE  UNCHANGED <<drive, persist>>
  BY <1>1 DEF CallOwn, Add, AddStored, TimerFires, Cancel, CancelRead, Retry, RetryRead,
              RetryStored, CallStoreFails, tabVars
<1>2. ASSUME NEW u \in Tabs, NEW i \in Items, SendOwn(u, i)
      PROVE  UNCHANGED <<drive, persist>>
  BY <1>2 DEF SendOwn, SendStart, SendStep, SendRead, SendStored, SendAnswered, SendDeleted,
              SendFailedRead, SendFailedStored, SendFailed, SendStoreFails, SendDeleteFails, tabVars
<1>3. Pause(t) \/ LockAgain(t) \/ Open(t) => UNCHANGED <<drive, persist>>
  BY DEF Pause, Stop, LockAgain, Open
<1>4. Crash(t) => (\A l \in Lists : drive'[t][l] = NoDrive) /\ UNCHANGED persist
  <2> HIDE DEF NoDrive
  <2> QED BY <1>0 DEF Crash, Stop
<1>5. ASSUME NEW l \in Lists, NEW e, drive' = [drive EXCEPT ![t][l] = e], e.cur = {},
             e.kind \notin Transitions, e.pc \notin Restoring, UNCHANGED <<disk, ram, persist>>
      PROVE  Renews(t, l)
  BY <1>0, <1>5, Slot DEF Renews, Others
<1>6. ASSUME NEW l \in Lists, NEW k \in {"sync", "resume", "online", "flush"}, StartDrive(t, l, k, Chats, FALSE)
      PROVE  Renews(t, l)
  <2> DEFINE e == Scan(k, Chats, FALSE)
  <2>1. e.cur = {} /\ e.kind = k /\ e.pc = "scan"
    BY DEF Scan
  <2>2. drive' = [drive EXCEPT ![t][l] = e] /\ UNCHANGED <<disk, ram, persist>>
    BY <1>6 DEF StartDrive
  <2>3. e.kind \notin Transitions /\ e.pc \notin Restoring
    BY <2>1 DEF Transitions, Restoring
  <2> HIDE DEF e
  <2> QED BY <1>5, <2>1, <2>2, <2>3
<1>7. NoDrive.cur = {} /\ NoDrive.kind \notin Transitions /\ NoDrive.pc \notin Restoring
  BY DEF NoDrive, Transitions, Restoring
<1>8. ASSUME NEW l \in Lists, drive' = [drive EXCEPT ![t][l] = NoDrive], UNCHANGED <<disk, ram, persist>>
      PROVE  Renews(t, l)
  <2> HIDE DEF NoDrive
  <2> QED BY <1>5, <1>7, <1>8
<1>9. ASSUME NEW l \in Lists, Begins(t, l)
      PROVE  Renews(t, l) \/ \E c \in Chats : SetChatPolicy(t, l, c)
  BY <1>6, <1>9 DEF Begins, StartSync, Online, Flush
<1>10. ASSUME NEW l \in Lists, Resume(t, l)
       PROVE  Renews(t, l)
  <2>1. \/ StartDrive(t, l, "resume", Chats, FALSE)
        \/ drive' = [drive EXCEPT ![t][l] = NoDrive] /\ UNCHANGED <<disk, ram, persist>>
    BY <1>10 DEF Resume, tabVars
  <2> QED BY <1>6, <1>8, <2>1
<1>11. ASSUME NEW l \in Lists, DriveListed(t, l)
       PROVE  Renews(t, l)
  <2>1. drive' = [drive EXCEPT ![t][l] = NoDrive] /\ UNCHANGED <<disk, ram, persist>>
    BY <1>11 DEF DriveListed, tabVars
  <2> QED BY <1>8, <2>1
<1>12. ASSUME NEW i \in Items, ServerReceives(i) \/ HoldElapses(i)
       PROVE  UNCHANGED <<drive, persist>>
  BY <1>12 DEF ServerReceives, HoldElapses, tabVars
<1>13. UNCHANGED vars => UNCHANGED <<drive, persist>>
  BY DEF vars, tabVars
<1> QED BY <1>1, <1>2, <1>3, <1>4, <1>9, <1>10, <1>11, <1>12, <1>13, StepCases DEF Alone, Transits

\* A transition that ends switches the policy, counted if another list() is restoring.
Switches(t, l, kind) ==
    \/ UNCHANGED persist
    \/ /\ kind = "policy"
       /\ (\A m \in Lists : m # l => drive[t][m].pc \notin Restoring) \/ Spend("overlap")

\* A list() goes on with the same kind, chats and policy; it restores the rows
\* of chats that its tab keeps, one at a time.
LEMMA RestoreGoesOn ==
    ASSUME TypeOK, NEW t \in Tabs, NEW l \in Lists, NEW d \in Drive, NEW r, RestoreLoop(t, l, d, r)
    PROVE  /\ ram'[t] = r /\ Others(t, l)
           /\ \/ drive'[t][l] = NoDrive /\ Switches(t, l, d.kind)
              \/ /\ drive'[t][l].kind = d.kind /\ drive'[t][l].chats = d.chats /\ drive'[t][l].keep = d.keep
                 /\ UNCHANGED persist
                 /\ \/ drive'[t][l].pc \in {"list", "synced"} /\ drive'[t][l].cur = {}
                    \/ /\ drive'[t][l].pc = "restore" /\ drive'[t][l].left = d.left
                       /\ \E i \in Items : /\ drive'[t][l].cur = {i}
                                           /\ d.left[i] # None /\ ChatOf[i] \in d.chats /\ Keeps(t, d, i)
<1> DEFINE todo == {i \in Items : d.left[i] # None /\ ChatOf[i] \in d.chats /\ Keeps(t, d, i)}
           Goes(e) == drive' = [drive EXCEPT ![t][l] = e]
           pc == IF d.kind = "sync" THEN "synced" ELSE "list"
           left == IF d.kind = "sync" THEN NoRows ELSE disk
           Ended == [d EXCEPT !.pc = pc, !.left = left, !.cur = {}]
           Put(i) == [d EXCEPT !.pc = "restore", !.cur = {i}]
<1>1. DriveType /\ drive \in [Tabs -> [Lists -> Drive]] /\ ram \in [Tabs -> [Items -> Rows]]
  BY DEF TypeOK, DriveType, StoreType
<1>2. ram'[t] = r
  BY <1>1 DEF RestoreLoop
<1>3. \A e : Goes(e) => drive'[t][l] = e /\ Others(t, l)
  BY <1>1, Slot DEF Others
<1>4. \/ \E i \in todo : Goes(Put(i)) /\ UNCHANGED persist
      \/ Goes(NoDrive) /\ d.kind = "policy" /\ Switch(t, l, d)
      \/ Goes(NoDrive) /\ UNCHANGED persist
      \/ Goes(Ended) /\ UNCHANGED persist
  BY DEF RestoreLoop
<1>5. Switch(t, l, d) /\ d.kind = "policy" => Switches(t, l, d.kind)
  BY DEF Switch, Switches
<1>6. /\ Ended.pc = pc /\ Ended.cur = {} /\ Ended.kind = d.kind /\ Ended.chats = d.chats
      /\ Ended.keep = d.keep /\ pc \in {"list", "synced"}
  BY DEF Drive
<1>7. \A i : /\ Put(i).pc = "restore" /\ Put(i).cur = {i} /\ Put(i).kind = d.kind
             /\ Put(i).chats = d.chats /\ Put(i).keep = d.keep /\ Put(i).left = d.left
  BY DEF Drive
<1>8. \A i \in todo : i \in Items /\ d.left[i] # None /\ ChatOf[i] \in d.chats /\ Keeps(t, d, i)
  OBVIOUS
<1> HIDE DEF Goes, NoDrive, Ended, Put, pc, todo
<1>9. CASE Goes(NoDrive) /\ ((d.kind = "policy" /\ Switch(t, l, d)) \/ UNCHANGED persist)
  BY <1>2, <1>3, <1>5, <1>9 DEF Switches
<1>10. CASE Goes(Ended) /\ UNCHANGED persist
  BY <1>2, <1>3, <1>6, <1>10
<1>11. CASE \E i \in todo : Goes(Put(i)) /\ UNCHANGED persist
  <2>1. PICK i \in todo : Goes(Put(i)) /\ UNCHANGED persist
    BY <1>11
  <2>2. drive'[t][l] = Put(i) /\ Others(t, l)
    BY <1>3, <2>1
  <2> QED BY <1>2, <1>7, <1>8, <2>1, <2>2
<1> QED BY <1>4, <1>9, <1>10, <1>11

\* How a list() goes on once its first loop is through, or a row is restored.
GoesOn(t, l, left, r) ==
    /\ ram'[t] = r /\ Others(t, l)
    /\ \/ drive'[t][l] = NoDrive /\ Switches(t, l, drive[t][l].kind)
       \/ /\ drive'[t][l].kind = drive[t][l].kind /\ drive'[t][l].chats = drive[t][l].chats
          /\ drive'[t][l].keep = drive[t][l].keep
          /\ UNCHANGED persist
          /\ \/ drive'[t][l].pc \in {"list", "synced"} /\ drive'[t][l].cur = {}
             \/ /\ drive'[t][l].pc = "restore" /\ drive'[t][l].left = left
                /\ \E i \in Items : /\ drive'[t][l].cur = {i} /\ left[i] # None
                                    /\ ChatOf[i] \in drive[t][l].chats /\ Keeps(t, drive[t][l], i)

\* It stays the same list() of the same chats, and no other is touched.
Stays(t, l) ==
    /\ drive'[t][l].kind = drive[t][l].kind /\ drive'[t][l].chats = drive[t][l].chats
    /\ drive'[t][l].keep = drive[t][l].keep
    /\ Others(t, l) /\ UNCHANGED persist

\* A list() moves the rows that its scan left into RAM, one at a time; ...
Evicts(t, l) == \E y \in Items :
    /\ drive[t][l].pc \in {"scan", "evict"} /\ drive[t][l].left[y] # None /\ ~Keeps(t, drive[t][l], y)
    /\ ram'[t][y] = drive[t][l].left[y]
    /\ \A x \in Items : x # y => ram'[t][x] = ram[t][x] /\ disk'[x] = disk[x]
    /\ drive'[t][l].pc = "evict" /\ drive'[t][l].cur = drive[t][l].cur
    /\ drive'[t][l].left[y] = None
    /\ \A x \in Items : x # y => drive'[t][l].left[x] = drive[t][l].left[x]
    /\ Stays(t, l)
\* ... then it puts those of RAM, ...
Puts(t, l) ==
    /\ drive[t][l].pc = "restore" /\ drive'[t][l].pc = "restored"
    /\ \A x \in Items : disk'[x] = IF x \in drive[t][l].cur THEN drive[t][l].left[x] ELSE disk[x]
    /\ drive'[t][l].cur = drive[t][l].cur /\ drive'[t][l].left = drive[t][l].left
    /\ UNCHANGED ram /\ Stays(t, l)
\* ... and drops them.
Drops(t, l) == \E left, r :
    /\ drive[t][l].pc = "restored"
    /\ \A x \in Items : /\ r[x] = IF x \in drive[t][l].cur THEN None ELSE ram[t][x]
                        /\ left[x] \in {None, drive[t][l].left[x]}
    /\ GoesOn(t, l, left, r) /\ UNCHANGED disk

\* These are the steps of a list() up to its scan of all rows.
LEMMA ReconcileSteps ==
    ASSUME TypeOK, NEW t \in Tabs, NEW l \in Lists, Reconciles(t, l)
    PROVE  \/ Evicts(t, l)
           \/ drive[t][l].pc \in {"scan", "evict"} /\ GoesOn(t, l, ram[t], ram[t]) /\ UNCHANGED disk
           \/ Puts(t, l)
           \/ Drops(t, l)
<1> DEFINE d == drive[t][l]
<1>0. DriveType
  BY DEF TypeOK
<1>1. /\ d \in Drive /\ ram \in [Tabs -> [Items -> Rows]] /\ disk \in [Items -> Rows]
      /\ d.left \in [Items -> Rows]
  BY DEF TypeOK, DriveType, StoreType, Drive
<1>2. CASE DriveEvicts(t, l)
  <2>1. CASE \E i \in Items :
             /\ d.left[i] # None /\ ~Keeps(t, d, i)
             /\ Evicted(t, i, d.left[i])
             /\ disk' = [disk EXCEPT ![i] = None]
             /\ drive' = [drive EXCEPT ![t][l] = [d EXCEPT !.pc = "evict", !.left[i] = None]]
             /\ UNCHANGED <<persist, used>>
    <3>1. PICK i \in Items :
             /\ d.left[i] # None /\ ~Keeps(t, d, i)
             /\ Evicted(t, i, d.left[i])
             /\ disk' = [disk EXCEPT ![i] = None]
             /\ drive' = [drive EXCEPT ![t][l] = [d EXCEPT !.pc = "evict", !.left[i] = None]]
             /\ UNCHANGED <<persist, used>>
      BY <2>1
    <3> DEFINE e == [d EXCEPT !.pc = "evict", !.left[i] = None]
    <3>2. e.pc = "evict" /\ e.cur = d.cur /\ e.kind = d.kind /\ e.chats = d.chats /\ e.keep = d.keep
      BY <1>1 DEF Drive
    <3>3. e.left[i] = None /\ \A x \in Items : x # i => e.left[x] = d.left[x]
      BY <1>1 DEF Drive
    <3>4. drive' = [drive EXCEPT ![t][l] = e]
      BY <3>1
    <3> HIDE DEF e
    <3>5. drive'[t][l] = e /\ Others(t, l)
      <4> HIDE DEF d
      <4> QED BY <1>0, <3>4, OneSlot
    <3>6. ram'[t][i] = d.left[i] /\ \A x \in Items : x # i => ram'[t][x] = ram[t][x] /\ disk'[x] = disk[x]
      BY <1>1, <3>1 DEF Evicted
    <3>7. d.pc \in {"scan", "evict"}
      BY <1>2 DEF DriveEvicts
    <3>8. Stays(t, l)
      BY <3>1, <3>2, <3>5 DEF Stays
    <3>9. drive'[t][l].pc = "evict" /\ drive'[t][l].cur = d.cur /\ drive'[t][l].left[i] = None
      BY <3>2, <3>3, <3>5
    <3>10. \A x \in Items : x # i => drive'[t][l].left[x] = d.left[x]
      BY <3>3, <3>5
    <3>11. \A x \in Items : i # x => ram'[t][x] = ram[t][x] /\ disk'[x] = disk[x]
      BY <3>6
    <3>12. d.left[i] # None /\ ~Keeps(t, d, i) /\ ram'[t][i] = d.left[i]
      BY <3>1, <3>6
    <3>13. \A x \in Items : i # x => drive'[t][l].left[x] = d.left[x]
      BY <3>10
    <3> QED BY <3>7, <3>8, <3>9, <3>11, <3>12, <3>13 DEF Evicts
  <2>2. CASE RestoreLoop(t, l, [d EXCEPT !.left = ram[t]], ram[t]) /\ UNCHANGED disk
    <3> DEFINE e == [d EXCEPT !.left = ram[t]]
    <3>1. e \in Drive /\ e.left = ram[t] /\ e.kind = d.kind /\ e.chats = d.chats /\ e.keep = d.keep
      BY <1>1 DEF Drive
    <3>2. \A i : Keeps(t, e, i) = Keeps(t, d, i)
      BY <3>1 DEF Keeps
    <3> HIDE DEF e
    <3>3. RestoreLoop(t, l, e, ram[t])
      BY <2>2 DEF e
    <3>4. GoesOn(t, l, ram[t], ram[t])
      <4> HIDE DEF NoDrive
      <4> QED BY <3>1, <3>2, <3>3, RestoreGoesOn DEF GoesOn
    <3> QED BY <1>2, <2>2, <3>4 DEF DriveEvicts
  <2> QED BY <1>2, <2>1, <2>2 DEF DriveEvicts, EvictLoop
<1>3. CASE DriveStored(t, l)
  <2> DEFINE e == [d EXCEPT !.pc = "restored"]
  <2>1. /\ e.pc = "restored" /\ e.cur = d.cur /\ e.kind = d.kind /\ e.chats = d.chats /\ e.keep = d.keep
        /\ e.left = d.left
    BY <1>1 DEF Drive
  <2>2. drive' = [drive EXCEPT ![t][l] = e]
    BY <1>1, <1>3 DEF DriveStored
  <2>3. d.pc = "restore" /\ disk' = [i \in Items |-> IF i \in d.cur THEN d.left[i] ELSE disk[i]]
        /\ UNCHANGED <<ram, persist>>
    BY <1>3 DEF DriveStored, tabVars
  <2> HIDE DEF e
  <2>4. drive'[t][l] = e /\ Others(t, l)
    <3> HIDE DEF d
    <3> QED BY <1>0, <2>2, OneSlot
  <2> QED BY <2>1, <2>3, <2>4 DEF Puts, Stays
<1>4. CASE DriveRestored(t, l)
  <2> DEFINE W(rows) == [i \in Items |-> IF i \in d.cur THEN None ELSE rows[i]]
             left == W(d.left)
             e == [d EXCEPT !.left = left]
             r == W(ram[t])
  <2>1. left \in [Items -> Rows]
    BY <1>1 DEF Drive, Rows
  <2>2. e \in Drive /\ e.left = left /\ e.kind = d.kind /\ e.chats = d.chats /\ e.keep = d.keep
    BY <1>1, <2>1 DEF Drive
  <2>3. \A i : Keeps(t, e, i) = Keeps(t, d, i)
    BY <2>2 DEF Keeps
  <2>4. RestoreLoop(t, l, e, r) /\ disk' = disk /\ d.pc = "restored"
    BY <1>4 DEF DriveRestored
  <2>5. \A x \in Items : r[x] = (IF x \in d.cur THEN None ELSE ram[t][x]) /\ left[x] \in {None, d.left[x]}
    OBVIOUS
  <2> HIDE DEF e, r, left
  <2>6. GoesOn(t, l, left, r)
    <3> HIDE DEF NoDrive
    <3> QED BY <2>2, <2>3, <2>4, RestoreGoesOn DEF GoesOn
  <2> QED BY <2>4, <2>5, <2>6 DEF Drops
<1> QED BY <1>2, <1>3, <1>4 DEF Reconciles

\* A switch of the policy is the first one, so it finds the chats as they were.
LEMMA OneSwitchKept ==
    ASSUME RowInv, [Next]_vars, NEW t \in Tabs, Alone(t), OneSwitch(t), used'["policy"] <= 1,
           used'["storeFail"] = 0
    PROVE  OneSwitch(t)'
<1>1. TypeOK /\ FixedPolicy /\ DriveType /\ used \in [Events -> Nat]
  BY DEF RowInv, ClaimInv, TypeOK, HistType
<1>2. NoDrive.kind = "resume"
  BY DEF NoDrive
<1> HIDE DEF NoDrive
<1>3. CASE UNCHANGED <<drive, persist>>
  BY <1>3 DEF OneSwitch
<1>4. ASSUME NEW l \in Lists, Renews(t, l) PROVE OneSwitch(t)'
  BY <1>4 DEF Renews, Others, OneSwitch, Transitions
<1>5. ASSUME NEW l \in Lists, NEW c \in Chats, SetChatPolicy(t, l, c) PROVE OneSwitch(t)'
  <2>1. drive' = [drive EXCEPT ![t][l] = Scan("policy", {c}, ~persist[t][c])] /\ used["policy"] = 0
        /\ UNCHANGED persist
    BY <1>1, <1>5 DEF SetChatPolicy, StartDrive, Spend, Events
  <2>2. /\ \A x \in Chats : persist[t][x] = (x \notin CloudOnly)
        /\ \A m \in Lists : drive[t][m].kind \notin Transitions
    BY <1>1, <2>1 DEF FixedPolicy, OnePlace
  <2> DEFINE e == Scan("policy", {c}, ~persist[t][c])
  <2>3. e.kind = "policy" /\ e.chats = {c} /\ e.keep = ~persist[t][c]
    BY DEF Scan
  <2> HIDE DEF e
  <2>4. drive' = [drive EXCEPT ![t][l] = e]
    BY <2>1 DEF e
  <2>5. drive'[t][l] = e /\ Others(t, l)
    BY <1>1, <2>4, OneSlot
  <2>6. ~drive'[t][l].keep \/ drive'[t][l].chats \subseteq CloudOnly
    BY <2>2, <2>3, <2>5
  <2>7. \A m \in Lists : m # l => drive'[t][m].kind \notin {"policy", "rollback"}
    BY <2>2, <2>5 DEF Others, Transitions
  <2>8. \A x \in Chats \ CloudOnly : persist'[t][x]
    BY <2>1, <2>2
  <2> QED BY <2>3, <2>5, <2>6, <2>7, <2>8 DEF OneSwitch
<1>6. ASSUME NEW l \in Lists, Reconciles(t, l) PROVE OneSwitch(t)'
  <2>1. \/ Stays(t, l)
        \/ drive'[t][l] = NoDrive /\ Others(t, l) /\ (UNCHANGED persist \/ drive[t][l].kind = "policy")
    <3>1. \A left, r : GoesOn(t, l, left, r) =>
             \/ Stays(t, l)
             \/ drive'[t][l] = NoDrive /\ Others(t, l) /\ (UNCHANGED persist \/ drive[t][l].kind = "policy")
      BY DEF GoesOn, Stays, Switches
    <3> QED BY <1>1, <1>6, <3>1, ReconcileSteps DEF Evicts, Puts, Drops
  <2>2. CASE Stays(t, l)
    BY <2>2 DEF Stays, Others, OneSwitch
  <2>3. CASE drive'[t][l] = NoDrive /\ Others(t, l) /\ UNCHANGED persist
    BY <1>2, <2>3 DEF Others, OneSwitch
  <2>4. CASE drive'[t][l] = NoDrive /\ Others(t, l) /\ drive[t][l].kind = "policy"
    <3>1. \A m \in Lists : drive'[t][m].kind \notin {"policy", "rollback"}
      BY <1>2, <2>4 DEF Others, OneSwitch
    <3> QED BY <3>1 DEF OneSwitch
  <2> QED BY <2>1, <2>2, <2>3, <2>4
<1>7. CASE \A l \in Lists : drive'[t][l] = NoDrive
  BY <1>2, <1>7 DEF OneSwitch
<1>8. ASSUME NEW l \in Lists, DriveStoreFails(t, l) PROVE FALSE
  BY <1>1, <1>8 DEF DriveStoreFails, Spend, Events
<1> QED BY <1>1, <1>3, <1>4, <1>5, <1>6, <1>7, <1>8, ListSteps

\* Nothing of the row, the call or the send of x changes.
Still(t, x) ==
    /\ disk'[x] = disk[x] /\ ram'[t][x] = ram[t][x] /\ call'[t][x] = call[t][x]
    /\ job'[t][x] = job[t][x]

\* On a device with one tab these are the concern of the item's own steps, of the
\* list() and of the end of the session.
LEMMA StillOrOwn ==
    ASSUME TypeOK, [Next]_vars, NEW t \in Tabs, Alone(t), NEW x \in Items
    PROVE  \/ Still(t, x)
           \/ CallOwn(t, x) \/ SendOwn(t, x) \/ Pause(t) \/ Crash(t)
           \/ \E l \in Lists : Reconciles(t, l)
<1>1. /\ ram \in [Tabs -> [Items -> Rows]] /\ disk \in [Items -> Rows]
      /\ call \in [Tabs -> [Items -> Call]] /\ job \in [Tabs -> [Items -> Job]]
  BY DEF TypeOK, StoreType, CallType, WorkType
<1>2. ASSUME NEW y \in Items, y # x, CallOwn(t, y) PROVE Still(t, x)
  <2>1. \E v : ram' = ram \/ ram' = [ram EXCEPT ![t][y] = v]
    BY <1>2 DEF CallOwn, Add, AddStored, TimerFires, Cancel, CancelRead, Retry, RetryRead,
              RetryStored, CallStoreFails, WriteItem, DeleteItem
  <2>2. \E v : disk' = disk \/ disk' = [disk EXCEPT ![y] = v]
    BY <1>2 DEF CallOwn, Add, AddStored, TimerFires, Cancel, CancelRead, Retry, RetryRead,
              RetryStored, CallStoreFails, WriteItem, DeleteItem, PutDone
  <2>3. \E v : call' = call \/ call' = [call EXCEPT ![t][y] = v]
    BY <1>2 DEF CallOwn, Add, AddStored, TimerFires, Cancel, CancelRead, Retry, RetryRead,
              RetryStored, CallStoreFails, CallReturns
  <2>4. job' = job
    BY <1>2 DEF CallOwn, Add, AddStored, TimerFires, Cancel, CancelRead, Retry, RetryRead,
              RetryStored, CallStoreFails, workVars
  <2>5. ram'[t][x] = ram[t][x]
    BY <1>1, <1>2, <2>1, Point
  <2>6. call'[t][x] = call[t][x]
    BY <1>1, <1>2, <2>3, Point
  <2> QED BY <1>1, <1>2, <2>2, <2>4, <2>5, <2>6 DEF Still
<1>3. ASSUME NEW y \in Items, y # x, SendOwn(t, y) PROVE Still(t, x)
  <2>1. \E v : ram' = ram \/ ram' = [ram EXCEPT ![t][y] = v]
    BY <1>3 DEF SendOwn, SendStart, SendStep, SendRead, SendStored, SendAnswered, SendDeleted,
       SendFailedRead, SendFailedStored, SendFailed, SendStoreFails, SendDeleteFails, WriteItem, DeleteItem
  <2>2. \E v : disk' = disk \/ disk' = [disk EXCEPT ![y] = v]
    BY <1>3 DEF SendOwn, SendStart, SendStep, SendRead, SendStored, SendAnswered, SendDeleted,
       SendFailedRead, SendFailedStored, SendFailed, SendStoreFails, SendDeleteFails, WriteItem, DeleteItem, PutDone
  <2>3. call' = call
    BY <1>3 DEF SendOwn, SendStart, SendStep, SendRead, SendStored, SendAnswered, SendDeleted,
              SendFailedRead, SendFailedStored, SendFailed, SendStoreFails, SendDeleteFails
  <2>4. \E v : job' = [job EXCEPT ![t][y] = v]
    BY <1>3 DEF SendOwn, SendStart, SendStep, SendRead, SendStored, SendAnswered, SendDeleted,
              SendFailedRead, SendFailedStored, SendFailed, SendStoreFails, SendDeleteFails, Work, Finish
  <2>5. ram'[t][x] = ram[t][x]
    BY <1>1, <1>3, <2>1, Point
  <2>6. job'[t][x] = job[t][x]
    BY <1>1, <1>3, <2>4, Point
  <2> QED BY <1>1, <1>3, <2>2, <2>3, <2>5, <2>6 DEF Still
<1>4. CASE Transits(t)
  <2>1. ASSUME NEW l \in Lists, Begins(t, l) PROVE UNCHANGED <<disk, ram>>
    BY <2>1 DEF Begins, StartSync, Online, Flush, SetChatPolicy, StartDrive
  <2>2. ASSUME NEW l \in Lists, Resume(t, l) \/ DriveStoreFails(t, l) PROVE UNCHANGED <<disk, ram>>
    BY <2>2 DEF Resume, StartDrive, DriveStoreFails
  <2>3. LockAgain(t) \/ Open(t) => UNCHANGED <<disk, ram>>
    BY DEF LockAgain, Open
  <2>4. UNCHANGED <<disk, ram>>
    BY <1>4, <2>1, <2>2, <2>3 DEF Transits
  <2> QED BY <1>4, <2>4, OtherHistory DEF Still
<1>5. ASSUME NEW l \in Lists, DriveListed(t, l) PROVE Still(t, x)
  <2>1. UNCHANGED <<disk, ram>>
    BY <1>5 DEF DriveListed
  <2> QED BY <1>5, <2>1, OtherHistory DEF Still
<1>6. ASSUME NEW y \in Items, ServerReceives(y) \/ HoldElapses(y) PROVE Still(t, x)
  BY <1>6 DEF ServerReceives, HoldElapses, workVars, Still
<1>7. UNCHANGED vars => Still(t, x)
  BY DEF vars, workVars, Still
<1> QED BY <1>2, <1>3, <1>4, <1>5, <1>6, <1>7, StepCases DEF Alone

\* Of a durable row that is on disk, and not about to be sent or withdrawn, no
\* step of a tab that keeps its chat takes it off.
LEMMA StaysOnDisk ==
    ASSUME TypeOK, [Next]_vars, NEW t \in Tabs, NEW x \in Items, CallOwn(t, x) \/ SendOwn(t, x),
           Persists(t, x), disk[x] # None, ~Over(x)'
    PROVE  disk'[x] # None
<1>1. disk \in [Items -> Rows]
  BY DEF TypeOK, StoreType
<1>2. x \notin Received /\ x \notin undone'
  BY DoneStays DEF Over
<1>3. ASSUME NEW s, WriteItem(t, x, s) PROVE disk'[x] # None
  BY <1>3 DEF WriteItem
<1>4. ASSUME NEW row, PutDone(x, row) PROVE disk'[x] # None
  BY <1>1, <1>4 DEF PutDone
<1>5. CASE CallOwn(t, x)
  <2>1. UNCHANGED disk \/ WriteItem(t, x, "queued") \/ PutDone(x, call[t][x].row)
    BY <1>2, <1>5 DEF CallOwn, Add, AddStored, TimerFires, Cancel, CancelRead, Retry, RetryRead,
              RetryStored, CallStoreFails
  <2> QED BY <1>3, <1>4, <2>1
<1>6. CASE SendOwn(t, x)
  <2>1. ~SendAnswered(t, x)
    BY <1>2 DEF SendAnswered, Received
  <2>2. UNCHANGED disk \/ WriteItem(t, x, "sending") \/ WriteItem(t, x, "failed") \/ PutDone(x, job[t][x].row)
    BY <1>6, <2>1 DEF SendOwn, SendStart, SendStep, SendRead, SendStored, SendDeleted,
         SendFailedRead, SendFailedStored, SendFailed, SendStoreFails, SendDeleteFails
  <2> QED BY <1>3, <1>4, <2>2
<1> QED BY <1>5, <1>6


\* No step but that of a list() gives a row of a chat that the tab keeps to RAM.
LEMMA RamStays ==
    ASSUME TypeOK, [Next]_vars, NEW t \in Tabs, Alone(t), NEW x \in Items, Persists(t, x),
           ram[t][x] = None, \A l \in Lists : ~Reconciles(t, l)
    PROVE  ram'[t][x] = None
<1>1. ram \in [Tabs -> [Items -> Rows]]
  BY DEF TypeOK, StoreType
<1>2. CASE ram' = ram \/ ram' = [ram EXCEPT ![t][x] = None]
  BY <1>1, <1>2
<1>3. CASE CallOwn(t, x)
  <2>1. ram' = ram \/ ram' = [ram EXCEPT ![t][x] = None]
    BY <1>3 DEF CallOwn, Add, AddStored, TimerFires, Cancel, CancelRead, Retry, RetryRead,
                RetryStored, CallStoreFails, WriteItem, DeleteItem
  <2> QED BY <1>2, <2>1
<1>4. CASE SendOwn(t, x)
  <2>1. ram' = ram \/ ram' = [ram EXCEPT ![t][x] = None]
    BY <1>4 DEF SendOwn, SendStart, SendStep, SendRead, SendStored, SendAnswered, SendDeleted,
       SendFailedRead, SendFailedStored, SendFailed, SendStoreFails, SendDeleteFails, WriteItem, DeleteItem
  <2> QED BY <1>2, <2>1
<1>5. Pause(t) \/ Crash(t) => ram'[t][x] = None
  BY StopHistory
<1> QED BY <1>3, <1>4, <1>5, StillOrOwn DEF Still

\* A list() that evicts a durable row whose chat its tab keeps is the transition.
LEMMA EvictsOther ==
    ASSUME NEW t \in Tabs, OneSwitch(t), NEW l \in Lists, NEW i \in Items, Durable(i), Persists(t, i),
           ~Keeps(t, drive[t][l], i)
    PROVE  drive[t][l].kind = "policy"
BY DEF Keeps, OneSwitch, Transitions

\* The switch finds no row of the chat in RAM that its scan found on disk.
LEMMA LeavesKept ==
    ASSUME RowInv, [Next]_vars, NEW t \in Tabs, Alone(t), OneSwitch(t), OneSwitch(t)', Leaves(t),
           used'["policy"] <= 1, used'["storeFail"] = 0
    PROVE  Leaves(t)'
<1>1. /\ TypeOK /\ FixedPolicy /\ DriveType /\ used \in [Events -> Nat]
      /\ ram \in [Tabs -> [Items -> Rows]] /\ ChatOf \in [Items -> Chats]
  BY ChatAssumption DEF RowInv, ClaimInv, TypeOK, HistType, StoreType
<1> SUFFICES ASSUME NEW n \in Lists, drive'[t][n].kind = "policy", drive'[t][n].pc \in {"scan", "evict"},
                    NEW i \in Items, Durable(i), drive'[t][n].left[i] # None
             PROVE  /\ ram'[t][i] = None
                    /\ \A m \in Lists : drive'[t][m].pc \in Restoring => drive'[t][m].left[i] = None
  BY DEF Leaves, Durable
<1>2. NoDrive.kind = "resume" /\ NoDrive.pc = "idle" /\ "idle" \notin Restoring
      /\ "scan" \notin Restoring /\ "evict" \notin Restoring
  BY DEF NoDrive, Restoring
<1> HIDE DEF NoDrive
<1>3. ASSUME drive[t][n].kind = "policy"
      PROVE  Persists(t, i)
  BY <1>1, <1>3 DEF OneSwitch, Persists, Durable
<1>4. ASSUME drive[t][n].kind = "policy", drive[t][n].pc \in {"scan", "evict"}, drive[t][n].left[i] # None
      PROVE  /\ ram[t][i] = None
             /\ \A m \in Lists : drive[t][m].pc \in Restoring => drive[t][m].left[i] = None
  BY <1>4 DEF Leaves
<1>5. CASE UNCHANGED <<drive, persist>> /\ \A l \in Lists : ~Reconciles(t, l)
  <2>1. ram'[t][i] = None
    BY <1>1, <1>3, <1>4, <1>5, RamStays
  <2> QED BY <1>4, <1>5, <2>1
<1>6. ASSUME NEW l \in Lists, Renews(t, l) PROVE ram'[t][i] = None /\
                 \A m \in Lists : drive'[t][m].pc \in Restoring => drive'[t][m].left[i] = None
  <2>1. n # l /\ drive'[t][n] = drive[t][n]
    BY <1>6 DEF Renews, Others, Transitions
  <2> QED BY <1>4, <1>6, <2>1 DEF Renews, Others
<1>7. ASSUME NEW l \in Lists, NEW c \in Chats, SetChatPolicy(t, l, c) PROVE ram'[t][i] = None /\
                 \A m \in Lists : drive'[t][m].pc \in Restoring => drive'[t][m].left[i] = None
  <2>1. drive' = [drive EXCEPT ![t][l] = Scan("policy", {c}, ~persist[t][c])] /\ used["policy"] = 0
        /\ UNCHANGED ram
    BY <1>1, <1>7 DEF SetChatPolicy, StartDrive, Spend, Events
  <2> DEFINE e == Scan("policy", {c}, ~persist[t][c])
  <2>2. e.pc = "scan"
    BY DEF Scan
  <2> HIDE DEF e
  <2>3. drive' = [drive EXCEPT ![t][l] = e]
    BY <2>1 DEF e
  <2>4. drive'[t][l] = e /\ Others(t, l)
    BY <1>1, <2>3, OneSlot
  <2>5. ram[t][i] = None /\ \A m \in Lists : drive[t][m].pc \notin Restoring
    BY <1>1, <2>1 DEF FixedPolicy, OnePlace, OnDisk, Restoring
  <2> QED BY <1>2, <2>1, <2>2, <2>4, <2>5 DEF Others
<1>8. ASSUME NEW l \in Lists, Reconciles(t, l) PROVE ram'[t][i] = None /\
                 \A m \in Lists : drive'[t][m].pc \in Restoring => drive'[t][m].left[i] = None
  <2>1. CASE Evicts(t, l)
    <3>1. PICK y \in Items :
             /\ drive[t][l].pc \in {"scan", "evict"} /\ ~Keeps(t, drive[t][l], y)
             /\ \A x \in Items : x # y => ram'[t][x] = ram[t][x]
             /\ drive'[t][l].pc = "evict" /\ drive'[t][l].left[y] = None
             /\ \A x \in Items : x # y => drive'[t][l].left[x] = drive[t][l].left[x]
             /\ Stays(t, l)
      BY <2>1 DEF Evicts
    <3>2. drive[t][n].kind = "policy" /\ drive[t][n].pc \in {"scan", "evict"} /\ drive[t][n].left[i] # None
      BY <3>1 DEF Stays, Others
    <3>3. i # y
      <4>1. CASE n = l
        BY <3>1, <4>1
      <4>2. CASE n # l /\ i = y
        <5>1. drive[t][l].kind = "policy"
          BY <1>3, <3>1, <3>2, <4>2, EvictsOther
        <5> QED BY <3>2, <4>2, <5>1 DEF OneSwitch
      <4> QED BY <4>1, <4>2
    <3>4. ram'[t][i] = None
      BY <1>4, <3>1, <3>2, <3>3
    <3>5. ASSUME NEW m \in Lists, drive'[t][m].pc \in Restoring PROVE drive'[t][m].left[i] = None
      <4>1. m # l
        BY <1>2, <3>1, <3>5
      <4> QED BY <1>4, <3>1, <3>2, <3>5, <4>1 DEF Stays, Others
    <3> QED BY <3>4, <3>5
  <2>2. ASSUME NEW left, NEW r, GoesOn(t, l, left, r) PROVE n # l /\ drive'[t][n] = drive[t][n]
    BY <1>2, <2>2 DEF GoesOn, Others
  <2>3. CASE GoesOn(t, l, ram[t], ram[t])
    <3>1. n # l /\ drive'[t][n] = drive[t][n] /\ ram'[t] = ram[t] /\ Others(t, l)
      BY <2>2, <2>3 DEF GoesOn
    <3>2. drive'[t][l].pc \in Restoring => drive'[t][l].left = ram[t]
      BY <1>2, <2>3 DEF GoesOn, Restoring
    <3> QED BY <1>4, <3>1, <3>2 DEF Others
  <2>4. CASE Puts(t, l)
    <3>1. n # l /\ drive'[t][n] = drive[t][n] /\ Others(t, l) /\ ram' = ram
      BY <2>4 DEF Puts, Stays, Others
    <3>2. drive'[t][l].left = drive[t][l].left /\ drive[t][l].pc \in Restoring
      BY <2>4 DEF Puts, Restoring
    <3> QED BY <1>4, <3>1, <3>2 DEF Others
  <2>5. CASE Drops(t, l)
    <3>1. PICK left, r :
             /\ drive[t][l].pc = "restored"
             /\ \A x \in Items : /\ r[x] = IF x \in drive[t][l].cur THEN None ELSE ram[t][x]
                                 /\ left[x] \in {None, drive[t][l].left[x]}
             /\ GoesOn(t, l, left, r)
      BY <2>5 DEF Drops
    <3>2. n # l /\ drive'[t][n] = drive[t][n] /\ ram'[t] = r /\ Others(t, l)
      BY <2>2, <3>1 DEF GoesOn
    <3>3. ram'[t][i] = None
      BY <1>4, <3>1, <3>2
    <3>4. drive'[t][l].pc \in Restoring => drive'[t][l].left = left
      BY <1>2, <3>1 DEF GoesOn, Restoring
    <3>5. drive[t][l].left[i] = None
      BY <1>4, <3>1, <3>2 DEF Restoring
    <3>6. drive'[t][l].pc \in Restoring => drive'[t][l].left[i] = None
      BY <3>1, <3>4, <3>5
    <3> QED BY <1>4, <3>2, <3>3, <3>6 DEF Others
  <2> QED BY <1>1, <1>8, <2>1, <2>3, <2>4, <2>5, ReconcileSteps
<1>9. ~(\A l \in Lists : drive'[t][l] = NoDrive)
  BY <1>2
<1>10. ASSUME NEW l \in Lists, DriveStoreFails(t, l) PROVE FALSE
  BY <1>1, <1>10 DEF DriveStoreFails, Spend, Events
<1> QED BY <1>1, <1>5, <1>6, <1>7, <1>8, <1>9, <1>10, ListSteps

\* A list() restores durable rows only of chats that its tab keeps from now on.
LEMMA GoesOnWell ==
    ASSUME NEW t \in Tabs, NEW l \in Lists, OneSwitch(t), NEW left, NEW r, GoesOn(t, l, left, r)
    PROVE  /\ drive'[t][l].pc \notin Restoring => drive'[t][l].cur = {}
           /\ drive'[t][l].pc # "restored"
           /\ \A i \in drive'[t][l].cur : Durable(i) =>
                 drive'[t][l].kind \notin Transitions /\ persist'[t][ChatOf[i]] /\ drive'[t][l].left[i] # None
<1>1. NoDrive.pc = "idle" /\ NoDrive.cur = {}
  BY DEF NoDrive
<1> HIDE DEF NoDrive
<1>2. CASE drive'[t][l] = NoDrive
  BY <1>1, <1>2
<1>3. CASE drive'[t][l].pc \in {"list", "synced"} /\ drive'[t][l].cur = {}
  BY <1>3
<1>4. ASSUME NEW i \in Items, drive'[t][l].pc = "restore", drive'[t][l].left = left,
             drive'[t][l].kind = drive[t][l].kind, UNCHANGED persist,
             drive'[t][l].cur = {i}, left[i] # None, ChatOf[i] \in drive[t][l].chats, Keeps(t, drive[t][l], i)
      PROVE  /\ drive'[t][l].pc \in Restoring
             /\ Durable(i) => drive'[t][l].kind \notin Transitions /\ persist'[t][ChatOf[i]]
  <2>1. Durable(i) => drive[t][l].kind \notin Transitions
    BY <1>4 DEF Durable, OneSwitch, Keeps, Transitions
  <2>2. Durable(i) => persist[t][ChatOf[i]]
    BY <1>4, <2>1 DEF Keeps, Persists
  <2> QED BY <1>4, <2>1, <2>2 DEF Restoring
<1> QED BY <1>2, <1>3, <1>4 DEF GoesOn

\* What a list() has put stays on disk until its row is dropped from RAM.
LEMMA RestoresKept ==
    ASSUME RowInv, [Next]_vars, NEW t \in Tabs, Alone(t), OneSwitch(t), Leaves(t), Restores(t),
           used'["policy"] <= 1, used'["storeFail"] = 0, used'["overlap"] = 0
    PROVE  Restores(t)'
<1>1. TypeOK /\ DriveType /\ used \in [Events -> Nat]
  BY DEF RowInv, ClaimInv, TypeOK, HistType
<1>2. NoDrive.pc = "idle" /\ NoDrive.cur = {}
  BY DEF NoDrive
<1>3. \A m \in Lists : drive[t][m].cur \subseteq Items
  BY <1>1 DEF DriveType, Drive
<1> HIDE DEF NoDrive
<1> DEFINE Good(m) ==
        /\ drive'[t][m].pc \notin Restoring => drive'[t][m].cur = {}
        /\ \A i \in drive'[t][m].cur : Durable(i) =>
              /\ drive'[t][m].kind \notin Transitions /\ persist'[t][ChatOf[i]]
              /\ drive'[t][m].left[i] # None
              /\ drive'[t][m].pc = "restored" => Over(i)' \/ disk'[i] # None
<1> SUFFICES \A m \in Lists : Good(m)
  BY DEF Restores, Persists, Durable
<1>4. ASSUME NEW m \in Lists, NEW i \in drive[t][m].cur, Durable(i), drive[t][m].pc = "restored", ~Over(i)'
      PROVE  disk'[i] # None
  <2>1. i \in Items /\ Persists(t, i) /\ disk[i] # None /\ drive[t][m].left[i] # None
    <3>1. Over(i) => Over(i)'
      BY <1>1, DoneStays DEF Over
    <3> QED BY <1>3, <1>4, <3>1 DEF Restores
  <2>2. CASE CallOwn(t, i) \/ SendOwn(t, i)
    BY <1>1, <1>4, <2>1, <2>2, StaysOnDisk
  <2>3. CASE Pause(t) \/ Crash(t)
    BY <1>1, <2>1, <2>3, StopHistory
  <2>4. ASSUME NEW l \in Lists, Reconciles(t, l) PROVE disk'[i] # None
    <3>1. CASE Evicts(t, l)
      <4>1. PICK y \in Items :
               /\ drive[t][l].pc \in {"scan", "evict"} /\ drive[t][l].left[y] # None
               /\ ~Keeps(t, drive[t][l], y)
               /\ \A x \in Items : x # y => disk'[x] = disk[x]
        BY <3>1 DEF Evicts
      <4>2. i # y
        <5>1. SUFFICES ASSUME i = y PROVE FALSE
          OBVIOUS
        <5>2. drive[t][l].kind = "policy"
          BY <2>1, <4>1, <5>1, EvictsOther, <1>4
        <5> QED BY <1>4, <2>1, <4>1, <5>1, <5>2 DEF Leaves, Restoring
      <4> QED BY <2>1, <4>1, <4>2
    <3>2. CASE Puts(t, l)
      <4>1. i \in drive[t][l].cur => drive[t][l].left[i] # None
        BY <1>4 DEF Restores
      <4> QED BY <2>1, <3>2, <4>1 DEF Puts
    <3>3. CASE disk' = disk
      BY <2>1, <3>3
    <3> QED BY <1>1, <2>4, <3>1, <3>2, <3>3, ReconcileSteps DEF Drops
  <2> QED BY <1>1, <2>1, <2>2, <2>3, <2>4, StillOrOwn DEF Still
<1>5. ASSUME NEW m \in Lists, drive'[t][m] = drive[t][m],
             UNCHANGED persist \/ drive[t][m].pc \notin Restoring
      PROVE  Good(m)
  <2>1. drive[t][m].pc \notin Restoring => drive[t][m].cur = {}
    BY DEF Restores
  <2>2. CASE drive[t][m].pc \notin Restoring
    BY <1>5, <2>1, <2>2
  <2>3. CASE UNCHANGED persist
    <3>1. ASSUME NEW i \in drive[t][m].cur, Durable(i)
          PROVE  drive[t][m].kind \notin Transitions /\ persist[t][ChatOf[i]] /\ drive[t][m].left[i] # None
      BY <3>1 DEF Restores, Persists
    <3> QED BY <1>4, <1>5, <2>1, <2>3, <3>1
  <2> QED BY <1>5, <2>2, <2>3
<1>6. CASE UNCHANGED <<drive, persist>>
  BY <1>5, <1>6
<1>7. ASSUME NEW l \in Lists, drive'[t][l].cur = {}, Others(t, l), UNCHANGED persist
      PROVE  \A m \in Lists : Good(m)
  <2>1. Good(l)
    BY <1>7
  <2>2. \A m \in Lists : m # l => Good(m)
    <3> HIDE DEF Good
    <3> QED BY <1>5, <1>7 DEF Others
  <2> QED BY <2>1, <2>2
<1>8. ASSUME NEW l \in Lists, NEW c \in Chats, SetChatPolicy(t, l, c)
      PROVE  \A m \in Lists : Good(m)
  <2> DEFINE e == Scan("policy", {c}, ~persist[t][c])
  <2>1. drive' = [drive EXCEPT ![t][l] = e] /\ UNCHANGED persist /\ e.cur = {}
    BY <1>8 DEF SetChatPolicy, StartDrive, Scan
  <2> HIDE DEF e
  <2>2. drive'[t][l] = e /\ Others(t, l)
    BY <1>1, <2>1, OneSlot
  <2> HIDE DEF Good
  <2> QED BY <1>7, <2>1, <2>2
<1>9. ASSUME NEW l \in Lists, Reconciles(t, l)
      PROVE  \A m \in Lists : Good(m)
  <2>1. CASE Evicts(t, l)
    <3>1. drive'[t][l].cur = {} /\ Others(t, l) /\ UNCHANGED persist
      BY <2>1 DEF Evicts, Stays, Restores, Restoring
    <3> HIDE DEF Good
    <3> QED BY <1>7, <3>1
  <2>2. ASSUME NEW left, NEW r, GoesOn(t, l, left, r) PROVE \A m \in Lists : Good(m)
    <3>1. Good(l)
      BY <2>2, GoesOnWell
    <3>2. ASSUME NEW m \in Lists, m # l PROVE UNCHANGED persist \/ drive[t][m].pc \notin Restoring
      <4>1. ~Spend("overlap")
        BY <1>1 DEF Spend, Events
      <4> QED BY <2>2, <3>2, <4>1 DEF GoesOn, Switches
    <3>3. \A m \in Lists : m # l => drive'[t][m] = drive[t][m]
      BY <2>2 DEF GoesOn, Others
    <3> HIDE DEF Good
    <3> QED BY <1>5, <3>1, <3>2, <3>3
  <2>3. CASE Puts(t, l)
    <3>1. /\ drive'[t][l].pc = "restored" /\ drive'[t][l].cur = drive[t][l].cur
          /\ drive'[t][l].left = drive[t][l].left /\ drive'[t][l].kind = drive[t][l].kind
          /\ Others(t, l) /\ UNCHANGED persist
          /\ \A x \in drive[t][l].cur : disk'[x] = drive[t][l].left[x]
      BY <1>3, <2>3 DEF Puts, Stays
    <3>2. \A i \in drive[t][l].cur : Durable(i) =>
              drive[t][l].kind \notin Transitions /\ persist[t][ChatOf[i]] /\ drive[t][l].left[i] # None
      BY DEF Restores, Persists
    <3>3. Good(l)
      BY <3>1, <3>2 DEF Restoring
    <3> HIDE DEF Good
    <3> QED BY <1>5, <3>1, <3>3 DEF Others
  <2> HIDE DEF Good
  <2>4. Drops(t, l) => \A m \in Lists : Good(m)
    BY <2>2 DEF Drops
  <2> QED BY <1>1, <1>9, <2>1, <2>2, <2>3, <2>4, ReconcileSteps
<1>10. CASE \A l \in Lists : drive'[t][l] = NoDrive
  BY <1>2, <1>10
<1>11. ASSUME NEW l \in Lists, DriveStoreFails(t, l) PROVE FALSE
  BY <1>1, <1>11 DEF DriveStoreFails, Spend, Events
<1>12. ASSUME NEW l \in Lists, Renews(t, l)
       PROVE  \A m \in Lists : Good(m)
  <2> HIDE DEF Good
  <2> QED BY <1>7, <1>12 DEF Renews
<1> HIDE DEF Good
<1> QED BY <1>1, <1>6, <1>8, <1>9, <1>10, <1>11, <1>12, ListSteps

\* A copy of an item gives way only to another, or to its end.
LEMMA CopyStays ==
    ASSUME RowInv, [Next]_vars, NEW t \in Tabs, Alone(t), Restores(t), used'["storeFail"] = 0,
           NEW x \in Items, Durable(x), Copied(t, x), ~Over(x)', ~Pause(t), ~Crash(t)
    PROVE  Copied(t, x)'
<1>1. TypeOK /\ used \in [Events -> Nat]
  BY DEF RowInv, ClaimInv, TypeOK, HistType
<1>2. /\ ram \in [Tabs -> [Items -> Rows]] /\ disk \in [Items -> Rows]
      /\ call \in [Tabs -> [Items -> Call]] /\ job \in [Tabs -> [Items -> Job]]
  BY <1>1 DEF TypeOK, StoreType, CallType, WorkType
<1>3. x \notin Received /\ x \notin undone' /\ ~Over(x)
  BY <1>1, DoneStays DEF Over
<1>4. CASE Still(t, x)
  BY <1>4 DEF Still, Copied, PutUnderWay
<1>5. ASSUME NEW l \in Lists, Reconciles(t, l)
      PROVE  Copied(t, x)'
  <2>1. call' = call /\ job' = job
    BY <1>5, OtherHistory
  <2>2. CASE Evicts(t, l)
    BY <2>1, <2>2 DEF Evicts, Copied, PutUnderWay
  <2>3. CASE GoesOn(t, l, ram[t], ram[t]) /\ UNCHANGED disk
    BY <2>1, <2>3 DEF GoesOn, Copied, PutUnderWay
  <2>4. CASE Puts(t, l)
    <3>1. x \in drive[t][l].cur => drive[t][l].left[x] # None
      BY DEF Restores
    <3> QED BY <2>1, <2>4, <3>1 DEF Puts, Copied, PutUnderWay
  <2>5. CASE Drops(t, l)
    <3>1. drive[t][l].pc = "restored" /\ disk' = disk /\ \A y \in Items : ram'[t][y] = IF y \in drive[t][l].cur THEN None ELSE ram[t][y]
      BY <2>5 DEF Drops, GoesOn
    <3>2. x \in drive[t][l].cur => disk[x] # None
      BY <1>3, <3>1 DEF Restores
    <3> QED BY <2>1, <3>1, <3>2 DEF Copied, PutUnderWay
  <2> QED BY <1>1, <1>5, <2>2, <2>3, <2>4, <2>5, ReconcileSteps
<1>6. ASSUME NEW s \in Status, WriteItem(t, x, s)
      PROVE  (Persists(t, x) /\ PutOf(t, x, s) = s /\ s # None) \/ ram'[t][x] # None
  BY <1>2, <1>6, Point DEF WriteItem, PutOf, Status, None
<1>7. "queued" \in Status /\ "sending" \in Status /\ "failed" \in Status
  BY DEF Status
<1>8. CASE CallOwn(t, x)
  <2>1. UNCHANGED job
    BY <1>8 DEF CallOwn, Add, AddStored, TimerFires, Cancel, CancelRead, Retry, RetryRead,
              RetryStored, CallStoreFails, workVars
  <2>2. CASE Add(t, x)
    <3>1. Unknown(x)
      BY <1>1, <2>2, AddsNew DEF RowInv
    <3> QED BY <3>1 DEF Unknown, Copied, PutUnderWay, NoJob, NoCall
  <2>3. CASE AddStored(t, x) \/ RetryStored(t, x)
    <3>1. ram' = ram /\ PutDone(x, call[t][x].row)
      BY <2>3 DEF AddStored, RetryStored
    <3>2. (disk[x] # None \/ call[t][x].row # None) => disk'[x] # None
      BY <1>2, <3>1 DEF PutDone
    <3> QED BY <2>1, <3>1, <3>2 DEF Copied, PutUnderWay
  <2>4. CASE TimerFires(t, x)
    BY <2>4 DEF TimerFires, workVars, Copied, PutUnderWay
  <2>5. CASE Cancel(t, x) \/ Retry(t, x)
    <3>1. call[t][x].pc = "idle" /\ UNCHANGED <<disk, ram>>
      BY <2>5 DEF Cancel, Retry
    <3> QED BY <2>1, <3>1 DEF Copied, PutUnderWay
  <2>6. CASE CancelRead(t, x)
    <3>1. call[t][x].pc = "cancelRead" /\ UNCHANGED <<disk, ram>>
      BY <1>3, <2>6 DEF CancelRead
    <3> QED BY <2>1, <3>1 DEF Copied, PutUnderWay
  <2>7. CASE RetryRead(t, x)
    <3>1. call[t][x].pc = "retryRead"
      BY <2>7 DEF RetryRead
    <3>2. CASE UNCHANGED <<disk, ram>>
      BY <2>1, <3>1, <3>2 DEF Copied, PutUnderWay
    <3>3. CASE WriteItem(t, x, "queued") /\ call' = [call EXCEPT ![t][x] =
                            [pc |-> "retryWrite", row |-> PutOf(t, x, "queued")]]
      <4>1. call'[t][x].pc = "retryWrite" /\ call'[t][x].row = PutOf(t, x, "queued")
        BY <1>2, <3>3, Point
      <4> QED BY <1>6, <1>7, <3>3, <4>1 DEF Copied, PutUnderWay
    <3> QED BY <2>7, <3>2, <3>3 DEF RetryRead
  <2>8. ~CallStoreFails(t, x)
    BY <1>1 DEF CallStoreFails, Spend, Events
  <2> QED BY <1>8, <2>2, <2>3, <2>4, <2>5, <2>6, <2>7, <2>8 DEF CallOwn
<1>9. CASE SendOwn(t, x)
  <2>1. UNCHANGED call
    BY <1>9 DEF SendOwn, SendStart, SendStep, SendRead, SendStored, SendAnswered, SendDeleted,
              SendFailedRead, SendFailedStored, SendFailed, SendStoreFails, SendDeleteFails
  <2>2. ASSUME job[t][x].pc \notin {"write", "writeFailed"}, UNCHANGED <<disk, ram>>
        PROVE  Copied(t, x)'
    BY <2>1, <2>2 DEF Copied, PutUnderWay
  <2>3. CASE SendStart(t, x) \/ SendDeleted(t, x) \/ SendFailed(t, x)
    BY <2>2, <2>3 DEF SendStart, SendDeleted, SendFailed
  <2>4. ASSUME NEW s \in Status, NEW pc \in {"write", "writeFailed"},
               WriteItem(t, x, s), Work(t, x, pc, PutOf(t, x, s))
        PROVE  Copied(t, x)'
    <3>1. job'[t][x].pc = pc /\ job'[t][x].row = PutOf(t, x, s)
      BY <1>1, <2>4, WorkGives DEF TypeOK
    <3> QED BY <1>6, <2>4, <3>1 DEF Copied, PutUnderWay
  <2>5. CASE SendRead(t, x)
    <3>1. job[t][x].pc = "read" /\ (UNCHANGED <<disk, ram>> \/
             (WriteItem(t, x, "sending") /\ Work(t, x, "write", PutOf(t, x, "sending"))))
      BY <2>5 DEF SendRead
    <3> QED BY <1>7, <2>2, <2>4, <3>1
  <2>6. CASE SendFailedRead(t, x)
    <3>1. job[t][x].pc = "readFailed" /\ (UNCHANGED <<disk, ram>> \/
             (WriteItem(t, x, "failed") /\ Work(t, x, "writeFailed", PutOf(t, x, "failed"))))
      BY <2>6 DEF SendFailedRead
    <3> QED BY <1>7, <2>2, <2>4, <3>1
  <2>7. CASE SendStored(t, x) \/ SendFailedStored(t, x)
    <3>1. ram' = ram /\ PutDone(x, job[t][x].row)
      BY <2>7 DEF SendStored, SendFailedStored
    <3>2. (disk[x] # None \/ job[t][x].row # None) => disk'[x] # None
      BY <1>2, <3>1 DEF PutDone
    <3> QED BY <2>1, <3>1, <3>2 DEF Copied, PutUnderWay
  <2>8. ~SendAnswered(t, x)
    BY <1>3 DEF SendAnswered, Received
  <2>9. ~SendStoreFails(t, x) /\ ~SendDeleteFails(t, x)
    BY <1>1 DEF SendStoreFails, SendDeleteFails, Spend, Events
  <2> QED BY <1>9, <2>3, <2>5, <2>6, <2>7, <2>8, <2>9 DEF SendOwn, SendStep
<1> QED BY <1>1, <1>4, <1>5, <1>8, <1>9, StillOrOwn


\* What a session queues has a copy from its first put on.
LEMMA CopiesKept ==
    ASSUME RowInv, [Next]_vars, NEW t \in Tabs, Alone(t), Copies(t), Restores(t), used'["storeFail"] = 0
    PROVE  Copies(t)'
<1>1. ClaimInv /\ TypeOK /\ NewOnes /\ used \in [Events -> Nat]
  BY DEF RowInv, ClaimInv, TypeOK, HistType
<1>2. /\ ram \in [Tabs -> [Items -> Rows]] /\ disk \in [Items -> Rows]
      /\ call \in [Tabs -> [Items -> Call]]
  BY <1>1 DEF TypeOK, StoreType, CallType
<1>3. SUFFICES ASSUME NEW i \in session'[t], Durable(i), ~Over(i)'
               PROVE  IF i \in acked' THEN Copied(t, i)'
                      ELSE call'[t][i].pc = "add" /\ (call'[t][i].row # None \/ Copied(t, i)')
  BY DEF Copies, Durable
<1>4. i \in Items /\ ~Pause(t) /\ ~Crash(t) /\ (i \in session[t] \/ Add(t, i))
  BY <1>1, SessionMoves
<1>5. CASE Add(t, i)
  <2>1. i \notin acked'
    BY <1>1, <1>4, <1>5, AddsNew DEF Unknown
  <2>2. call'[t][i].pc = "add" /\ call'[t][i].row = PutOf(t, i, "queued") /\ WriteItem(t, i, "queued")
    BY <1>2, <1>4, <1>5, Point DEF Add
  <2>3. CASE Persists(t, i)
    BY <2>1, <2>2, <2>3 DEF PutOf, None
  <2>4. CASE ~Persists(t, i)
    <3>1. ram'[t][i] = "queued"
      BY <1>2, <1>4, <2>2, <2>4, Point DEF WriteItem
    <3> QED BY <2>1, <2>2, <3>1 DEF Copied, None
  <2> QED BY <2>3, <2>4
<1>6. CASE i \in session[t] /\ ~Add(t, i)
  <2>1. IF i \in acked THEN Copied(t, i)
        ELSE call[t][i].pc = "add" /\ (call[t][i].row # None \/ Copied(t, i))
    <3>1. ~Over(i)
      BY <1>1, <1>3, DoneStays DEF Over
    <3> QED BY <1>3, <1>6, <3>1 DEF Copies
  <2>2. Copied(t, i) => Copied(t, i)'
    BY <1>3, <1>4, CopyStays
  <2>3. CASE i \in acked
    BY <1>1, <2>1, <2>2, <2>3, DoneStays
  <2>4. CASE i \notin acked /\ i \in acked'
    <3>1. AddStored(t, i)
      BY <1>1, <1>4, <2>4, NewlyAcked DEF Alone
    <3>2. call[t][i].row # None => disk'[i] # None
      BY <1>2, <1>4, <3>1 DEF AddStored, PutDone
    <3> QED BY <2>1, <2>2, <2>4, <3>2 DEF Copied
  <2>5. CASE i \notin acked /\ i \notin acked'
    <3>1. call'[t][i] = call[t][i]
      <4>1. CASE CallOwn(t, i)
        <5>1. ~AddStored(t, i)
          BY <2>5 DEF AddStored
        <5>2. ~CallStoreFails(t, i)
          BY <1>1 DEF CallStoreFails, Spend, Events
        <5>3. call[t][i].pc = "add"
          BY <2>1, <2>5
        <5> QED BY <1>6, <4>1, <5>1, <5>2, <5>3 DEF CallOwn, TimerFires, Cancel, CancelRead, Retry, RetryRead, RetryStored
      <4>2. SendOwn(t, i) => call' = call
        BY DEF SendOwn, SendStart, SendStep, SendRead, SendStored, SendAnswered, SendDeleted,
              SendFailedRead, SendFailedStored, SendFailed, SendStoreFails, SendDeleteFails
      <4>3. (\E l \in Lists : Reconciles(t, l)) => call' = call
        BY OtherHistory
      <4> QED BY <1>1, <1>4, <4>1, <4>2, <4>3, StillOrOwn DEF Still
    <3> QED BY <2>1, <2>2, <2>5, <3>1
  <2> QED BY <2>3, <2>4, <2>5
<1> QED BY <1>4, <1>5, <1>6

\* At first nothing is queued and no list() runs.
LEMMA KeptInit == Init => KeptInv
<1> SUFFICES ASSUME Init, NEW t \in Tabs PROVE Copies(t) /\ Restores(t) /\ OneSwitch(t) /\ Leaves(t)
  BY DEF KeptInv
<1>1. session[t] = {} /\ \A l \in Lists : drive[t][l] = NoDrive
  BY DEF Init
<1>2. NoDrive.cur = {} /\ NoDrive.kind = "resume"
  BY DEF NoDrive
<1> HIDE DEF NoDrive
<1> QED BY <1>1, <1>2 DEF Copies, Restores, OneSwitch, Leaves

\* Every step keeps the four parts, as long as the events they except are absent.
LEMMA KeptStep == RowInv /\ KeptInv /\ [Next]_vars => KeptInv'
<1> SUFFICES ASSUME RowInv, KeptInv, [Next]_vars,
                    used'["policy"] <= 1, used'["storeFail"] = 0, used'["overlap"] = 0,
                    NEW t \in Tabs, Alone(t)
             PROVE  Copies(t)' /\ Restores(t)' /\ OneSwitch(t)' /\ Leaves(t)'
  BY DEF KeptInv, Alone
<1>1. TypeOK
  BY DEF RowInv, ClaimInv
<1>2. used["storeFail"] = 0 /\ used["overlap"] = 0
  BY <1>1, UsedGrows DEF Events
<1>3. used["policy"] <= 1
  <2>1. used["policy"] \in Nat /\ used'["policy"] \in Nat /\ used["policy"] <= used'["policy"]
    BY <1>1, UsedCounts DEF Events
  <2> QED BY <2>1
<1>4. Copies(t) /\ Restores(t) /\ OneSwitch(t) /\ Leaves(t)
  BY <1>2, <1>3 DEF KeptInv
<1>5. Copies(t)'
  BY <1>4, CopiesKept
<1>6. Restores(t)'
  BY <1>4, RestoresKept
<1>7. OneSwitch(t)'
  BY <1>4, OneSwitchKept
<1>8. Leaves(t)'
  BY <1>4, <1>7, LeavesKept
<1> QED BY <1>5, <1>6, <1>7, <1>8

\* The inductive invariant behind KeptWhenGoingCloudOnly holds in every behaviour.
THEOREM KeptInvariant == Spec => []KeptInv
<1>1. Spec => []RowInv
  BY RowInvariant
<1> QED BY <1>1, KeptInit, KeptStep, PTL DEF Spec

\* While a chat becomes cloud-only beside any number of other list() calls, the
\* only tab of a device keeps every item it queued: on disk, in RAM or in a put
\* under way (transitionChat(), outbox.ts:134-150), unless it switches while one of
\* them is putting a row back.
THEOREM KeptOnSwitch == Spec => []KeptWhenGoingCloudOnly
<1>1. KeptInv => KeptWhenGoingCloudOnly
  BY DEF KeptInv, KeptWhenGoingCloudOnly, Alone, Copies, Copied, Over, Durable
<1> QED BY <1>1, KeptInvariant, PTL
=============================================================================
