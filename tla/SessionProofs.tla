---------------------------- MODULE SessionProofs ----------------------------
(***************************************************************************)
(* Proofs about the session controller, for every set of accounts and      *)
(* every MaxOps and MaxEvents: SessInv is an invariant, and with it the    *)
(* properties of Session.  A step moves one operation, begins one, or      *)
(* moves the first task of the chain; the lemmas of the first sections say *)
(* what that leaves alone, so that an action has to answer for the latest  *)
(* operation only.                                                         *)
(***************************************************************************)
EXTENDS Session, SequenceTheorems, TLAPS

(* The records of the operations and of the tasks.                         *)
Op == [kind : Kinds, pc : Steps, user : Users \cup {0}, sid : Nat]
TaskOf(S) == [seq : S, task : {"reconcile", "wipe"}, step : {"start", "cleared", "wiped"}]

(* Operations are numbered from 1 to the latest one.                       *)
LEMMA Ops ==
    ASSUME ops \in Seq(Op)
    PROVE  /\ Latest \in Nat /\ DOMAIN ops = 1..Latest
           /\ \A s \in DOMAIN ops : ops[s] \in Op
<1>1. Len(ops) \in Nat /\ ops \in [1..Len(ops) -> Op] /\ DOMAIN ops = 1..Len(ops)
  BY LenProperties
<1> QED BY <1>1 DEF Latest

(* What a step of operation s leaves alone.                                *)
Moved(s, pc, sid) ==
    /\ ops' \in Seq(Op) /\ DOMAIN ops' = DOMAIN ops /\ Latest' = Latest
    /\ ops'[s].pc = pc /\ ops'[s].sid = sid
    /\ ops'[s].kind = ops[s].kind /\ ops'[s].user = ops[s].user
    /\ \A n \in DOMAIN ops : n # s => ops'[n] = ops[n]

(* One operation is replaced by another record.                            *)
LEMMA Replaced ==
    ASSUME ops \in Seq(Op), NEW s \in DOMAIN ops, NEW op \in Op, ops' = [ops EXCEPT ![s] = op]
    PROVE  /\ ops' \in Seq(Op) /\ DOMAIN ops' = DOMAIN ops /\ Latest' = Latest
           /\ ops'[s] = op
           /\ \A n \in DOMAIN ops : n # s => ops'[n] = ops[n]
<1>1. DOMAIN ops = 1..Len(ops)
  BY LenProperties
<1>2. /\ ops' \in Seq(Op) /\ Len(ops') = Len(ops)
      /\ \A n \in 1..Len(ops) : ops'[n] = IF n = s THEN op ELSE ops[n]
  BY <1>1, ExceptSeq
<1>3. DOMAIN ops' = 1..Len(ops')
  BY <1>2, LenProperties
<1> QED BY <1>1, <1>2, <1>3 DEF Latest

(* OpGoes() moves one operation.                                           *)
LEMMA Goes ==
    ASSUME ops \in Seq(Op), NEW s \in DOMAIN ops, NEW pc \in Steps, OpGoes(s, pc)
    PROVE  Moved(s, pc, ops[s].sid)
<1> DEFINE op == [ops[s] EXCEPT !.pc = pc]
<1>1. ops[s] \in Op
  BY Ops
<1>2. op \in Op /\ op.pc = pc /\ op.kind = ops[s].kind /\ op.user = ops[s].user /\ op.sid = ops[s].sid
  BY <1>1 DEF Op
<1>3. ops' = [ops EXCEPT ![s] = op]
  BY DEF OpGoes
<1> QED BY <1>2, <1>3, Replaced DEF Moved

(* A sign-in that is answered also learns its server session.              *)
LEMMA Forwards ==
    ASSUME ops \in Seq(Op), NEW s \in DOMAIN ops, NEW pc \in Steps, NEW sid \in Nat,
           ops' = [ops EXCEPT ![s].pc = pc, ![s].sid = sid]
    PROVE  Moved(s, pc, sid)
<1> DEFINE op == [ops[s] EXCEPT !.pc = pc, !.sid = sid]
<1>1. ops[s] \in Op
  BY Ops
<1>2. op \in Op /\ op.pc = pc /\ op.kind = ops[s].kind /\ op.user = ops[s].user /\ op.sid = sid
  BY <1>1 DEF Op
<1>3. ops' = [ops EXCEPT ![s] = op]
  OBVIOUS
<1> HIDE DEF op
<1>4. /\ ops' \in Seq(Op) /\ DOMAIN ops' = DOMAIN ops /\ Latest' = Latest
      /\ ops'[s] = op
      /\ \A n \in DOMAIN ops : n # s => ops'[n] = ops[n]
  BY <1>2, <1>3, Replaced
<1> QED BY <1>2, <1>4 DEF Moved

(* beginTransition() adds an operation that becomes the latest one.        *)
LEMMA Begins ==
    ASSUME ops \in Seq(Op), NEW kind \in Kinds, NEW pc \in Steps, NEW who \in Users \cup {0},
           NEW sid \in Nat, Begin(kind, pc, who, sid)
    PROVE  /\ ops' \in Seq(Op) /\ DOMAIN ops' = 1..Latest' /\ Latest' = Latest + 1
           /\ ops'[Latest'] = [kind |-> kind, pc |-> pc, user |-> who, sid |-> sid]
           /\ \A n \in DOMAIN ops : ops'[n] = ops[n]
<1> DEFINE e == [kind |-> kind, pc |-> pc, user |-> who, sid |-> sid]
<1>1. e \in Op
  BY DEF Op
<1>2. ops' = Append(ops, e)
  BY DEF Begin
<1> HIDE DEF e
<1>3. ops' \in Seq(Op) /\ Len(ops') = Len(ops) + 1 /\ ops'[Len(ops) + 1] = e
      /\ \A n \in 1..Len(ops) : ops'[n] = ops[n]
  BY <1>1, <1>2, AppendProperties
<1>4. DOMAIN ops' = 1..Len(ops') /\ DOMAIN ops = 1..Len(ops)
  BY <1>3, LenProperties
<1> QED BY <1>3, <1>4 DEF Latest, e

(* The tasks of the chain, and the first of them.                          *)
LEMMA Chain ==
    ASSUME NEW S, chain \in Seq(TaskOf(S))
    PROVE  /\ Len(chain) \in Nat /\ DOMAIN chain = 1..Len(chain)
           /\ chain = <<>> <=> Len(chain) = 0
           /\ \A i \in DOMAIN chain :
                 /\ chain[i].seq \in S /\ chain[i].task \in {"reconcile", "wipe"}
                 /\ chain[i].step \in {"start", "cleared", "wiped"}
           /\ chain # <<>> => 1 \in DOMAIN chain /\ Task = chain[1]
<1>1. Len(chain) \in Nat /\ chain \in [1..Len(chain) -> TaskOf(S)] /\ DOMAIN chain = 1..Len(chain)
  BY LenProperties
<1>2. chain = <<>> <=> Len(chain) = 0
  BY EmptySeq
<1>3. chain # <<>> => Task = chain[1]
  BY DEF Task
<1> QED BY <1>1, <1>2, <1>3 DEF TaskOf

(* enqueueLocalData() adds a task that has not started.                    *)
LEMMA Enqueued ==
    ASSUME NEW S, chain \in Seq(TaskOf(S)), NEW s \in S, NEW task \in {"reconcile", "wipe"},
           Enqueue(s, task)
    PROVE  /\ chain' \in Seq(TaskOf(S)) /\ Len(chain') = Len(chain) + 1
           /\ chain'[Len(chain')].seq = s /\ chain'[Len(chain')].task = task
           /\ chain'[Len(chain')].step = "start"
           /\ \A i \in DOMAIN chain : chain'[i] = chain[i]
<1> DEFINE e == [seq |-> s, task |-> task, step |-> "start"]
<1>1. e \in TaskOf(S) /\ e.seq = s /\ e.task = task /\ e.step = "start"
  BY DEF TaskOf
<1>2. chain' = Append(chain, e)
  BY DEF Enqueue
<1> HIDE DEF e
<1>3. /\ chain' \in Seq(TaskOf(S)) /\ Len(chain') = Len(chain) + 1 /\ chain'[Len(chain) + 1] = e
      /\ \A n \in 1..Len(chain) : chain'[n] = chain[n]
  BY <1>1, <1>2, AppendProperties
<1>4. DOMAIN chain = 1..Len(chain)
  BY Chain
<1> QED BY <1>1, <1>3, <1>4

(* A task that has settled leaves the others in their order.               *)
LEMMA Dequeued ==
    ASSUME NEW S, chain \in Seq(TaskOf(S)), chain # <<>>, chain' = Tail(chain)
    PROVE  /\ chain' \in Seq(TaskOf(S)) /\ Len(chain') = Len(chain) - 1
           /\ \A i \in 1..Len(chain') : i + 1 \in 1..Len(chain) /\ chain'[i] = chain[i + 1]
<1>1. /\ chain' \in Seq(TaskOf(S)) /\ Len(chain') = Len(chain) - 1
      /\ \A i \in 1..Len(chain') : chain'[i] = chain[i + 1]
  BY HeadTailProperties
<1>2. Len(chain) \in Nat
  BY Chain
<1> QED BY <1>1, <1>2

(* Only the first task goes on.                                            *)
LEMMA Stepped ==
    ASSUME NEW S, chain \in Seq(TaskOf(S)), chain # <<>>,
           NEW step \in {"start", "cleared", "wiped"}, ChainStep(step)
    PROVE  /\ chain' \in Seq(TaskOf(S)) /\ Len(chain') = Len(chain)
           /\ chain'[1].seq = chain[1].seq /\ chain'[1].task = chain[1].task
           /\ chain'[1].step = step
           /\ \A i \in DOMAIN chain : i # 1 => chain'[i] = chain[i]
<1> DEFINE e == [chain[1] EXCEPT !.step = step]
<1>1. /\ Len(chain) \in Nat /\ DOMAIN chain = 1..Len(chain) /\ 1 \in DOMAIN chain
      /\ chain \in [1..Len(chain) -> TaskOf(S)]
  BY Chain, LenProperties
<1>2. e \in TaskOf(S) /\ e.seq = chain[1].seq /\ e.task = chain[1].task /\ e.step = step
  BY <1>1 DEF TaskOf
<1>3. chain' = [chain EXCEPT ![1] = e]
  BY DEF ChainStep
<1> HIDE DEF e
<1>4. /\ chain' \in Seq(TaskOf(S)) /\ Len(chain') = Len(chain)
      /\ \A n \in 1..Len(chain) : chain'[n] = IF n = 1 THEN e ELSE chain[n]
  BY <1>1, <1>2, <1>3, ExceptSeq
<1> QED BY <1>1, <1>2, <1>4

-----------------------------------------------------------------------------
(* What a step leaves alone.                                               *)

(* The types of what is neither an operation nor a task.                   *)
Fields ==
    /\ user \in Users \cup {0} /\ account \in Seq(Users) /\ revoked \subseteq Sessions
    /\ tokens \in Holder /\ committed \in Holder
    /\ {tokens.access, tokens.refresh, disk} \subseteq Sessions \cup {0}
    /\ owner \in Users \cup {0} /\ rows \subseteq Users /\ plane \in BOOLEAN
    /\ flight \in [pc : {"idle", "sent", "bad"}, sid : Nat, shared : BOOLEAN]
    /\ late \subseteq {"refresh", "restore", "wipe"} /\ left \in 0..MaxEvents

(* The queued operations are those of the chain because the chain is in    *)
(* order.                                                                  *)
LEMMA Typed ==
    ASSUME ops' \in Seq(Op), chain' \in Seq(TaskOf(DOMAIN ops')), Fields', Chained'
    PROVE  TypeOK'
<1>1. \A i \in DOMAIN chain' : chain'[i].seq \in DOMAIN ops'
  <2>1. chain' \in [1..Len(chain') -> TaskOf(DOMAIN ops')] /\ DOMAIN chain' = 1..Len(chain')
    BY LenProperties
  <2> QED BY <2>1 DEF TaskOf
<1>2. {s \in DOMAIN ops' : ops'[s].pc = "queued"} = {chain'[i].seq : i \in DOMAIN chain'}
  BY <1>1 DEF Chained
<1> QED BY <1>2 DEF TypeOK, Fields, Op, TaskOf

(* What TypeOK says of single operations and tasks.                        *)
LEMMA Facts ==
    ASSUME TypeOK
    PROVE  /\ ops \in Seq(Op) /\ chain \in Seq(TaskOf(DOMAIN ops)) /\ Fields
           /\ Latest \in Nat /\ DOMAIN ops = 1..Latest
           /\ \A s \in DOMAIN ops :
                 /\ ops[s].kind \in Kinds /\ ops[s].pc \in Steps
                 /\ ops[s].user \in Users \cup {0} /\ ops[s].sid \in Nat
           /\ Len(chain) \in Nat /\ DOMAIN chain = 1..Len(chain)
           /\ chain = <<>> <=> Len(chain) = 0
           /\ \A i \in DOMAIN chain :
                 /\ chain[i].seq \in DOMAIN ops /\ chain[i].task \in {"reconcile", "wipe"}
                 /\ chain[i].step \in {"start", "cleared", "wiped"}
           /\ chain # <<>> => 1 \in DOMAIN chain /\ Task = chain[1]
<1>1. ops \in Seq(Op) /\ chain \in Seq(TaskOf(DOMAIN ops)) /\ Fields
  BY DEF TypeOK, Fields, Op, TaskOf
<1>2. /\ Latest \in Nat /\ DOMAIN ops = 1..Latest
      /\ \A s \in DOMAIN ops : ops[s] \in Op
  BY <1>1, Ops
<1>3. \A s \in DOMAIN ops :
         /\ ops[s].kind \in Kinds /\ ops[s].pc \in Steps
         /\ ops[s].user \in Users \cup {0} /\ ops[s].sid \in Nat
  BY <1>2 DEF Op
<1> QED BY <1>1, <1>2, <1>3, Chain

(* The server's sessions are only added to.                                *)
Growing ==
    /\ account' \in Seq(Users) /\ Sessions \subseteq Sessions'
    /\ \A t \in Sessions : account'[t] = account[t]

(* A new session is the last one.                                          *)
LEMMA Grown ==
    ASSUME account \in Seq(Users)
    PROVE  /\ DOMAIN account = 1..Len(account) /\ Len(account) \in Nat
           /\ \A t \in Sessions : account[t] \in Users
           /\ UNCHANGED account => Growing
           /\ \A u \in Users : account' = Append(account, u) =>
                 /\ Growing /\ Len(account') \in Sessions'
                 /\ Len(account') \in Nat \ {0} /\ account'[Len(account')] = u
<1>1. /\ Len(account) \in Nat /\ account \in [1..Len(account) -> Users]
      /\ DOMAIN account = 1..Len(account)
  BY LenProperties
<1>2. UNCHANGED account => Growing
  BY <1>1 DEF Growing, Sessions
<1>3. ASSUME NEW u \in Users, account' = Append(account, u)
      PROVE  /\ Growing /\ Len(account') \in Sessions'
             /\ Len(account') \in Nat \ {0} /\ account'[Len(account')] = u
  <2>1. /\ account' \in Seq(Users) /\ Len(account') = Len(account) + 1
        /\ account'[Len(account) + 1] = u
        /\ \A t \in 1..Len(account) : account'[t] = account[t]
    BY <1>3, AppendProperties
  <2>2. DOMAIN account' = 1..Len(account')
    BY <2>1, LenProperties
  <2> QED BY <1>1, <2>1, <2>2 DEF Growing, Sessions
<1> QED BY <1>1, <1>2, <1>3 DEF Sessions

(* A holder with no tokens, and no refresh.                                *)
LEMMA Empty ==
    /\ NoTokens \in Holder /\ NoTokens.access = 0 /\ NoTokens.refresh = 0
    /\ NoFlight \in [pc : {"idle", "sent", "bad"}, sid : Nat, shared : BOOLEAN]
    /\ NoFlight.pc = "idle"
BY DEF NoTokens, NoFlight, Holder, Credential

(* OpGoes() in a state of the invariant.                                   *)
LEMMA Moves ==
    ASSUME SessInv, NEW s \in DOMAIN ops, NEW pc \in Steps, OpGoes(s, pc)
    PROVE  Moved(s, pc, ops[s].sid)
BY Facts, Goes DEF SessInv, Moved

(* Sessions stay known while one operation moves.                          *)
LEMMA KnownKept ==
    ASSUME SessInv, Growing, NEW s \in DOMAIN ops, NEW pc \in Steps,
           NEW sid \in Sessions' \cup {0}, Moved(s, pc, sid),
           ops[s].kind \in {"login", "restore"} => sid # 0 \/ pc \notin Awaiting,
           ops[s].kind \in {"login", "restore"} /\ sid # 0 => account'[sid] = ops[s].user,
           ops[s].kind = "login" => pc \notin {"refreshing", "emit"},
           committed'.access \in Sessions' \cup {0}, committed'.refresh \in Sessions' \cup {0},
           user' # 0 => disk' # 0 /\ account'[disk'] = user', plane' => user' # 0
    PROVE  Known'
<1>1. \A n \in DOMAIN ops : ops'[n].sid \in Sessions' \cup {0}
  BY DEF SessInv, Known, Growing, Moved
<1>2. \A n \in DOMAIN ops : ops'[n].kind \in {"login", "restore"} /\ ops'[n].sid # 0 =>
         account'[ops'[n].sid] = ops'[n].user
  BY DEF SessInv, Known, Growing, Moved
<1>3. \A n \in DOMAIN ops : ops'[n].kind \in {"login", "restore"} =>
         (ops'[n].pc \in Awaiting => ops'[n].sid # 0)
  BY DEF SessInv, Known, Moved
<1>4. \A n \in DOMAIN ops : ops'[n].kind = "login" =>
         ops'[n].pc \notin {"refreshing", "emit"} /\ ops'[n].user # 0
  BY DEF SessInv, Known, Moved
<1>5. DOMAIN ops' = DOMAIN ops
  BY DEF Moved
<1> QED BY <1>1, <1>2, <1>3, <1>4, <1>5 DEF Known

(* A step of another operation leaves the awaited refresh alone.           *)
LEMMA AwaitedKept ==
    ASSUME SessInv, Growing, NEW s \in DOMAIN ops, NEW pc \in Steps \ {"refreshing"},
           NEW sid, Moved(s, pc, sid), ops[s].pc # "refreshing", UNCHANGED flight
    PROVE  Awaited'
BY DEF SessInv, Awaited, Growing, Moved

(* A step of an operation that has no task leaves the chain in order.      *)
LEMMA ChainedKept ==
    ASSUME SessInv, NEW s \in DOMAIN ops, NEW pc \in Steps, NEW sid, Moved(s, pc, sid),
           ops[s].pc # "queued", pc # "queued", UNCHANGED chain
    PROVE  Chained'
<1>1. \A i \in DOMAIN chain : chain[i].seq \in DOMAIN ops /\ chain[i].seq # s
  BY Facts DEF SessInv, Chained
<1>2. \A i \in DOMAIN chain : ops'[chain[i].seq] = ops[chain[i].seq]
  BY <1>1 DEF Moved
<1> QED BY <1>1, <1>2 DEF SessInv, Chained, Moved

(* New server sessions do not change whose credentials are held.           *)
LEMMA IdentifiedKept ==
    ASSUME SessInv, Growing, UNCHANGED <<user, tokens>>, late \subseteq late'
    PROVE  Identified'
<1>1. tokens.access \in Sessions \cup {0} /\ tokens.refresh \in Sessions \cup {0}
  BY Facts DEF SessInv, Fields
<1> QED BY <1>1 DEF SessInv, Identified, Growing

(* New server sessions do not change whose record is stored.               *)
LEMMA IdentityKept ==
    ASSUME SessInv, Growing, UNCHANGED <<user, disk>>
    PROVE  user' # 0 => disk' # 0 /\ account'[disk'] = user'
<1>1. disk \in Sessions \cup {0}
  BY Facts DEF SessInv, Fields
<1> QED BY <1>1 DEF SessInv, Known, Growing

(* The holders name sessions of the server.                                *)
LEMMA CredentialsKept ==
    ASSUME SessInv, Growing, NEW held \in {tokens, committed, NoTokens}
    PROVE  /\ held \in Holder
           /\ held.access \in Sessions' \cup {0} /\ held.refresh \in Sessions' \cup {0}
BY Facts DEF SessInv, Known, Fields, Growing, NoTokens, Holder, Credential

(* An operation ends with nothing else changed: rejected, superseded, or   *)
(* through.                                                                *)
LEMMA Ends ==
    ASSUME SessInv, NEW s \in DOMAIN ops, NEW pc \in Ended, OpGoes(s, pc),
           ops[s].pc \notin {"queued", "refreshing"},
           ~Current(s) \/ ops[s].kind \in {"login", "delete"} \/ ops[s].pc = "emit",
           UNCHANGED <<session, store, flight, late, left>>,
           Growing, revoked' \subseteq Sessions'
    PROVE  SessInv'
<1>1. Moved(s, pc, ops[s].sid) /\ pc \in Steps /\ pc \in {"done", "superseded", "gone"}
  BY Moves DEF Ended, Steps
<1>2. UNCHANGED <<user, tokens, committed, disk, plane, chain, owner, rows, late>>
  BY DEF session, store
<1>3. Chained'
  BY <1>1, <1>2, ChainedKept
<1>4. Known'
  <2>1. /\ ops[s].sid \in Sessions' \cup {0}
        /\ ops[s].kind \in {"login", "restore"} /\ ops[s].sid # 0 =>
              account'[ops[s].sid] = ops[s].user
    BY DEF SessInv, Known, Growing
  <2>2. pc \notin Awaiting
    BY <1>1 DEF Awaiting
  <2>3. plane' => user' # 0
    BY <1>2 DEF SessInv, Known
  <2>4. committed'.access \in Sessions' \cup {0} /\ committed'.refresh \in Sessions' \cup {0}
    BY <1>2, CredentialsKept
  <2> QED BY <1>1, <1>2, <2>1, <2>2, <2>3, <2>4, KnownKept, IdentityKept
<1>5. Awaited'
  BY <1>1, AwaitedKept
<1>6. Still' /\ Reconciled' /\ SignedOut'
  <2>1. Latest > 0 => Latest \in DOMAIN ops
    BY Facts DEF SessInv
  <2>2. Still'
    BY <1>1, <1>2, <2>1 DEF SessInv, Still, Now, Moved
  <2>3. Reconciled'
    BY <1>1, <1>2, <2>1 DEF SessInv, Reconciled, InTime, Now, Moved
  <2>4. SignedOut'
    BY <1>1, <1>2, <2>1 DEF SessInv, SignedOut, Now, Current, Moved
  <2> QED BY <2>2, <2>3, <2>4
<1>7. Identified'
  BY <1>2, IdentifiedKept
<1>8. TypeOK'
  <2>1. Fields'
    BY <1>2, Facts DEF SessInv, Fields, Growing
  <2> QED BY <1>1, <1>2, <1>3, <2>1, Facts, Typed DEF SessInv, Moved
<1> QED BY <1>3, <1>4, <1>5, <1>6, <1>7, <1>8 DEF SessInv

-----------------------------------------------------------------------------
(* Operations that begin.                                                  *)

(* What the beginning of an operation leaves alone.                        *)
Begun(kind, pc, who, sid) ==
    /\ ops' \in Seq(Op) /\ DOMAIN ops' = 1..Latest' /\ Latest' = Latest + 1
    /\ Latest' \notin DOMAIN ops /\ Latest' \in DOMAIN ops' /\ Latest' > 0
    /\ \A n \in DOMAIN ops' : n = Latest' \/ n \in DOMAIN ops
    /\ DOMAIN ops \subseteq DOMAIN ops'
    /\ ops'[Latest'].kind = kind /\ ops'[Latest'].pc = pc
    /\ ops'[Latest'].user = who /\ ops'[Latest'].sid = sid
    /\ \A n \in DOMAIN ops : ops'[n] = ops[n]

(* Begin() in a state of the invariant.                                    *)
LEMMA Starts ==
    ASSUME SessInv, NEW kind \in Kinds, NEW pc \in Steps, NEW who \in Users \cup {0},
           NEW sid \in Nat, Begin(kind, pc, who, sid)
    PROVE  Begun(kind, pc, who, sid)
<1>1. /\ ops' \in Seq(Op) /\ DOMAIN ops' = 1..Latest' /\ Latest' = Latest + 1
      /\ ops'[Latest'] = [kind |-> kind, pc |-> pc, user |-> who, sid |-> sid]
      /\ \A n \in DOMAIN ops : ops'[n] = ops[n]
  BY Facts, Begins DEF SessInv
<1>2. Latest \in Nat /\ DOMAIN ops = 1..Latest
  BY Facts DEF SessInv
<1> QED BY <1>1, <1>2 DEF Begun

(* An operation that has no task and awaits no refresh may always begin.   *)
LEMMA BegunKept ==
    ASSUME SessInv, NEW kind \in {"login", "logout", "wipe", "delete"},
           NEW pc \in {"posted", "flushing"}, kind = "login" => pc = "posted",
           NEW who, kind = "login" => who # 0,
           NEW sid \in Sessions \cup {0}, kind = "login" => sid = 0,
           Begun(kind, pc, who, sid),
           UNCHANGED <<chain, account>>,
           flight' = flight \/ (flight.pc # "sent" /\ flight' = NoFlight),
           committed' \in {committed, NoTokens},
           UNCHANGED <<user, disk>> \/ user' = 0, plane' => user' # 0
    PROVE  Known' /\ Awaited' /\ Chained' /\ chain' \in Seq(TaskOf(DOMAIN ops'))
<1>1. Growing
  BY Facts, Grown DEF SessInv, Fields
<1>2. Known'
  <2>1. \A n \in DOMAIN ops' : ops'[n].sid \in Sessions' \cup {0}
    BY <1>1 DEF SessInv, Known, Growing, Begun
  <2>2. \A n \in DOMAIN ops' : ops'[n].kind \in {"login", "restore"} =>
           /\ ops'[n].sid # 0 => account'[ops'[n].sid] = ops'[n].user
           /\ ops'[n].pc \in Awaiting => ops'[n].sid # 0
    BY DEF SessInv, Known, Begun, Awaiting
  <2>3. \A n \in DOMAIN ops' : ops'[n].kind = "login" =>
           ops'[n].pc \notin {"refreshing", "emit"} /\ ops'[n].user # 0
    BY DEF SessInv, Known, Begun
  <2>4. committed'.access \in Sessions' \cup {0} /\ committed'.refresh \in Sessions' \cup {0}
    BY <1>1, CredentialsKept
  <2>5. user' # 0 => disk' # 0 /\ account'[disk'] = user'
    BY <1>1, IdentityKept
  <2> QED BY <2>1, <2>2, <2>3, <2>4, <2>5 DEF Known
<1>3. Awaited'
  <2>1. flight'.pc = "sent" => flight' = flight
    BY DEF NoFlight
  <2>2. \A n \in DOMAIN ops' : ops'[n].pc = "refreshing" => n \in DOMAIN ops /\ ops'[n] = ops[n]
    BY DEF Begun
  <2>3. \A n \in DOMAIN ops : n \in DOMAIN ops' /\ ops'[n] = ops[n]
    BY DEF Begun
  <2>4. \A n \in DOMAIN ops : ops[n].pc = "refreshing" => flight'.pc = "sent"
    BY DEF SessInv, Awaited
  <2> QED BY <1>1, <2>1, <2>2, <2>3, <2>4 DEF SessInv, Awaited, Growing
<1>4. Chained'
  BY Facts DEF SessInv, Chained, Begun
<1>5. chain' \in Seq(TaskOf(DOMAIN ops'))
  <2>1. TaskOf(DOMAIN ops) \subseteq TaskOf(DOMAIN ops')
    BY DEF TaskOf, Begun
  <2> QED BY <2>1, Facts, SeqMonotonic DEF SessInv
<1> QED BY <1>2, <1>3, <1>4, <1>5

(* A sign-in, a sign-out or a deletion is posted to the server.            *)
LEMMA Posts ==
    ASSUME SessInv, NEW kind \in {"login", "logout", "delete"}, NEW who \in Users \cup {0},
           kind = "login" => who # 0,
           NEW sid \in Sessions \cup {0}, kind = "login" => sid = 0,
           Begin(kind, "posted", who, sid), plane' \in BOOLEAN, plane' => plane,
           UNCHANGED <<user, tokens, committed, disk, store, flight, server, late, left>>
    PROVE  SessInv'
<1>1. Begun(kind, "posted", who, sid)
  <2>1. kind \in Kinds /\ "posted" \in Steps
    BY DEF Kinds, Steps
  <2>2. sid \in Nat
    BY Facts, Grown DEF SessInv, Fields, Sessions
  <2> QED BY <2>1, <2>2, Starts
<1>2. UNCHANGED <<chain, owner, rows, account, revoked>>
  BY DEF store, server
<1>3. Known' /\ Awaited' /\ Chained' /\ chain' \in Seq(TaskOf(DOMAIN ops'))
  <2>1. plane' => user' # 0
    BY DEF SessInv, Known
  <2> QED BY <1>1, <1>2, <2>1, BegunKept
<1>4. \A i \in DOMAIN chain : chain[i].seq # Latest'
  BY <1>1, Facts DEF SessInv, Begun
<1>5. Still' /\ Reconciled' /\ SignedOut'
  <2>1. Now'.kind # "restore" /\ Now'.pc = "posted"
    BY <1>1 DEF Now, Begun
  <2>2. Still'
    BY <1>4, <1>2, <2>1 DEF Still
  <2>3. Reconciled'
    BY <1>4, <1>2, <2>1 DEF SessInv, Reconciled, InTime
  <2>4. SignedOut'
    BY <1>4, <1>2, <2>1 DEF SignedOut
  <2> QED BY <2>2, <2>3, <2>4
<1>6. Identified'
  BY <1>2, Facts, Grown, IdentifiedKept DEF SessInv, Fields
<1>7. TypeOK'
  <2>1. Fields'
    BY <1>2, Facts DEF SessInv, Fields, Sessions
  <2> QED BY <1>1, <1>3, <2>1, Typed DEF Begun
<1> QED BY <1>3, <1>5, <1>6, <1>7 DEF SessInv

(* A wipe without a round trip clears the session when it begins.          *)
LEMMA StartWipeKeeps ==
    ASSUME SessInv, StartWipe, UNCHANGED <<store, server, late, left>>,
           flight' = flight \/ (flight.pc # "sent" /\ flight' = NoFlight)
    PROVE  SessInv'
<1>1. UNCHANGED <<chain, owner, rows, account, revoked>>
  BY DEF store, server
<1>2. Growing
  BY <1>1, Facts, Grown DEF SessInv, Fields
<1>3. flight' \in [pc : {"idle", "sent", "bad"}, sid : Nat, shared : BOOLEAN]
  BY Facts, Empty DEF SessInv, Fields
<1>4. CASE UNCHANGED <<ops, session>>
  <2>1. UNCHANGED <<user, tokens, committed, disk, plane>> /\ Latest' = Latest
    BY <1>4 DEF session, Latest
  <2>2. Awaited'
    BY <1>2, <1>4 DEF SessInv, Awaited, NoFlight, Growing
  <2>3. Known' /\ Chained' /\ Still' /\ Reconciled' /\ SignedOut' /\ Identified'
    BY <1>1, <1>4, <2>1
       DEF SessInv, Known, Chained, Still, Reconciled, SignedOut, Identified, Now, InTime, Sessions
  <2>4. Fields'
    BY <1>1, <1>3, <1>4, <2>1, Facts DEF SessInv, Fields, Sessions
  <2>5. TypeOK'
    BY <1>1, <1>4, <2>3, <2>4, Facts, Typed DEF SessInv
  <2> QED BY <2>2, <2>3, <2>5 DEF SessInv
<1>5. CASE Begin("wipe", "flushing", user, 0) /\ ClearLocal
  <2>1. Begun("wipe", "flushing", user, 0)
    BY <1>5, Facts, Starts DEF SessInv, Kinds, Steps, Fields
  <2>2. user' = 0 /\ tokens' = NoTokens /\ committed' = NoTokens /\ disk' = 0 /\ ~plane'
    BY <1>5 DEF ClearLocal
  <2>3. Known' /\ Awaited' /\ Chained' /\ chain' \in Seq(TaskOf(DOMAIN ops'))
    BY <1>1, <2>1, <2>2, BegunKept
  <2>4. \A i \in DOMAIN chain : chain[i].seq # Latest'
    BY <2>1, Facts DEF SessInv, Begun
  <2>5. Still' /\ Reconciled' /\ SignedOut' /\ Identified'
    BY <1>1, <2>1, <2>2, <2>4
       DEF SessInv, Still, Reconciled, SignedOut, Identified, Now, InTime, Begun
  <2>6. Fields'
    <3>1. left' = left /\ late' = late /\ plane' = FALSE
      BY <1>5 DEF ClearLocal
    <3> QED BY <1>1, <1>3, <2>2, <3>1, Facts, Empty DEF SessInv, Fields, Sessions
  <2>7. TypeOK'
    BY <2>1, <2>3, <2>6, Typed DEF Begun
  <2> QED BY <2>3, <2>5, <2>7 DEF SessInv
<1> QED BY <1>4, <1>5 DEF StartWipe

-----------------------------------------------------------------------------
(* Signing in and out.                                                     *)

(* One lemma per action: a sign-in.                                        *)
LEMMA LoginKeeps == ASSUME SessInv, NEW u \in Users, Login(u) PROVE SessInv'
<1>1. UNCHANGED <<user, tokens, committed, disk, plane>> /\ plane \in BOOLEAN /\ u # 0
  BY Facts, UsersAssumption DEF SessInv, Fields, Login, session
<1>2. plane' \in BOOLEAN /\ (plane' => plane)
  BY <1>1
<1> QED BY <1>1, <1>2, Posts DEF Login

(* A sign-out stops the data plane before it is posted.                    *)
LEMMA LogoutKeeps == ASSUME SessInv, Logout PROVE SessInv'
<1>1. user \in Users \cup {0} /\ tokens.access \in Sessions \cup {0}
  BY Facts DEF SessInv, Fields
<1>2. plane' \in BOOLEAN /\ (plane' => plane)
  BY DEF Logout
<1> QED BY <1>1, <1>2, Posts DEF Logout

(* A deletion leaves the session in place until it is answered.            *)
LEMMA DeleteAccountKeeps == ASSUME SessInv, DeleteAccount PROVE SessInv'
<1>1. /\ user \in Users \cup {0} /\ tokens.access \in Sessions \cup {0}
      /\ UNCHANGED <<user, tokens, committed, disk, plane>> /\ plane \in BOOLEAN
  BY Facts DEF SessInv, Fields, DeleteAccount, session
<1>2. plane' \in BOOLEAN /\ (plane' => plane)
  BY <1>1
<1> QED BY <1>1, <1>2, Posts DEF DeleteAccount

(* A wipe that the page starts.                                            *)
LEMMA WipeLocalDataKeeps == ASSUME SessInv, WipeLocalData PROVE SessInv'
BY StartWipeKeeps DEF WipeLocalData

(* The verdict of a shared refresh starts a wipe.                          *)
LEMMA RefusedKeeps == ASSUME SessInv, Refused PROVE SessInv'
BY StartWipeKeeps DEF Refused

(* The task of an operation that had none is the last of the chain.        *)
LEMMA EnqueueChained ==
    ASSUME SessInv, NEW s \in DOMAIN ops, NEW sid, Moved(s, "queued", sid),
           ops[s].pc # "queued", NEW task \in {"reconcile", "wipe"}, Enqueue(s, task),
           task = "reconcile" => ops[s].kind \in {"login", "restore"},
           task = "wipe" => ops[s].kind # "login"
    PROVE  /\ Chained' /\ chain' \in Seq(TaskOf(DOMAIN ops'))
           /\ Len(chain') = Len(chain) + 1 /\ DOMAIN chain' = 1..Len(chain')
           /\ chain'[Len(chain')].seq = s /\ chain'[Len(chain')].task = task
           /\ chain'[Len(chain')].step = "start"
           /\ \A i \in DOMAIN chain' : i # Len(chain') =>
                 i \in DOMAIN chain /\ chain'[i] = chain[i] /\ chain[i].seq # s
<1>1. /\ chain' \in Seq(TaskOf(DOMAIN ops')) /\ Len(chain') = Len(chain) + 1
      /\ chain'[Len(chain')].seq = s /\ chain'[Len(chain')].task = task
      /\ chain'[Len(chain')].step = "start"
      /\ \A i \in DOMAIN chain : chain'[i] = chain[i]
  BY Facts, Enqueued DEF SessInv, Moved
<1>2. DOMAIN chain' = 1..Len(chain') /\ Len(chain) \in Nat /\ DOMAIN chain = 1..Len(chain)
  BY <1>1, Facts, LenProperties DEF SessInv
<1>3. \A i \in DOMAIN chain : chain[i].seq # s /\ chain[i].seq \in DOMAIN ops
  BY Facts DEF SessInv, Chained
<1>4. \A i \in DOMAIN chain' : i # Len(chain') =>
         i \in DOMAIN chain /\ chain'[i] = chain[i] /\ chain[i].seq # s
  BY <1>1, <1>2, <1>3
<1>5. Chained'
  <2>1. \A i, j \in DOMAIN chain' : chain'[i].seq = chain'[j].seq => i = j
    BY <1>1, <1>4 DEF SessInv, Chained
  <2>2. \A i \in DOMAIN chain' :
          /\ ops'[chain'[i].seq].pc = "queued"
          /\ chain'[i].step # "start" => i = 1
          /\ chain'[i].task = "reconcile" => ops'[chain'[i].seq].kind \in {"login", "restore"}
          /\ chain'[i].task = "wipe" =>
                ops'[chain'[i].seq].kind # "login" /\ chain'[i].step # "wiped"
    BY <1>1, <1>3, <1>4 DEF SessInv, Chained, Moved
  <2>3. \A n \in DOMAIN ops' : ops'[n].pc = "queued" => \E i \in DOMAIN chain' : chain'[i].seq = n
    <3>1. ASSUME NEW n \in DOMAIN ops', ops'[n].pc = "queued", n # s
          PROVE  \E i \in DOMAIN chain' : chain'[i].seq = n
      BY <1>1, <1>2, <3>1 DEF SessInv, Chained, Moved
    <3>2. Len(chain') \in DOMAIN chain'
      BY <1>1, <1>2
    <3> QED BY <1>1, <3>1, <3>2
  <2> QED BY <2>1, <2>2, <2>3 DEF Chained
<1> QED BY <1>1, <1>2, <1>4, <1>5

(* The data plane of the session before stops when the sign-in is adopted. *)
LEMMA LoginAnsweredKeeps ==
    ASSUME SessInv, NEW s \in DOMAIN ops, LoginAnswered(s) PROVE SessInv'
<1>1. ops[s].kind = "login" /\ ops[s].pc = "posted" /\ ops[s].user \in Users
  BY Facts DEF SessInv, Known, LoginAnswered
<1>2. account \in Seq(Users) /\ revoked \subseteq Sessions
  BY Facts DEF SessInv, Fields
<1>3. UNCHANGED account => Growing
  BY <1>2, Grown
<1>4. account' = Append(account, ops[s].user) =>
         /\ Growing /\ Len(account') \in Sessions'
         /\ Len(account') \in Nat \ {0} /\ account'[Len(account')] = ops[s].user
  BY <1>1, <1>2, Grown
<1>5. CASE /\ Current(s) /\ account' = Append(account, ops[s].user)
           /\ ops' = [ops EXCEPT ![s].pc = "queued", ![s].sid = Len(account')]
           /\ plane' = (plane /\ ~(user # 0 \/ committed # NoTokens))
           /\ Enqueue(s, "reconcile")
  <2>1. /\ UNCHANGED <<user, tokens, committed, disk, owner, rows, flight, late, left>>
        /\ revoked' = revoked /\ ~plane'
    BY <1>5 DEF SessInv, Known, LoginAnswered
  <2>2. Moved(s, "queued", Len(account'))
    BY <1>4, <1>5, Facts, Forwards DEF SessInv, Steps
  <2>3. /\ Chained' /\ chain' \in Seq(TaskOf(DOMAIN ops'))
        /\ chain'[Len(chain')].step = "start"
        /\ \A i \in DOMAIN chain' : i # Len(chain') =>
              i \in DOMAIN chain /\ chain'[i] = chain[i] /\ chain[i].seq # s
    BY <1>1, <1>5, <2>2, EnqueueChained
  <2>4. Known'
    <3>1. committed'.access \in Sessions' \cup {0} /\ committed'.refresh \in Sessions' \cup {0}
      BY <1>4, <1>5, <2>1, CredentialsKept
    <3> QED BY <1>1, <1>4, <1>5, <2>1, <2>2, <3>1, KnownKept, IdentityKept DEF Steps
  <2>5. Awaited'
    BY <1>1, <1>4, <1>5, <2>1, <2>2, AwaitedKept DEF Steps
  <2>6. Now'.kind = "login" /\ Now'.pc = "queued" /\ Latest' = s
    BY <1>1, <1>5, <2>2 DEF Now, Moved, Current
  <2>7. Still' /\ SignedOut'
    BY <2>1, <2>6 DEF Still, SignedOut
  <2>8. Reconciled'
    BY <2>1, <2>3, <2>6 DEF SessInv, Reconciled, InTime
  <2>9. Identified'
    BY <1>4, <1>5, <2>1, IdentifiedKept
  <2>10. TypeOK'
    <3>1. Fields'
      BY <1>4, <1>5, <2>1, Facts DEF SessInv, Fields, Growing
    <3> QED BY <2>2, <2>3, <3>1, Typed DEF Moved
  <2> QED BY <2>3, <2>4, <2>5, <2>7, <2>8, <2>9, <2>10 DEF SessInv
<1>6. CASE ~Current(s) /\ account' = Append(account, ops[s].user) /\ OpGoes(s, "superseded")
  BY <1>1, <1>2, <1>4, <1>6, Ends
     DEF LoginAnswered, Ended, session, store, Growing
<1>7. CASE OpGoes(s, "done") /\ UNCHANGED <<account, plane, chain>>
  BY <1>1, <1>2, <1>3, <1>7, Ends
     DEF LoginAnswered, Ended, session, store, Growing
<1> QED BY <1>5, <1>6, <1>7 DEF LoginAnswered

(* Identity, stored record and credentials change in one step.             *)
LEMMA AdoptKeeps == ASSUME SessInv, NEW s \in DOMAIN ops, Adopt(s) PROVE SessInv'
<1>1. ops[s].kind = "login" /\ ops[s].pc = "ready" /\ Growing
      /\ UNCHANGED <<committed, plane, chain, owner, rows, flight, account, revoked, late, left>>
  BY Facts, Grown DEF SessInv, Fields, Adopt, store, server
<1>2. CASE /\ Current(s) /\ OpGoes(s, "flushing")
           /\ tokens' = [access |-> ops[s].sid, refresh |-> ops[s].sid]
           /\ user' = ops[s].user /\ disk' = ops[s].sid
  <2>1. Moved(s, "flushing", ops[s].sid)
    BY <1>2, Moves DEF Steps
  <2>2. /\ ops[s].sid \in Sessions /\ ops[s].sid # 0 /\ account[ops[s].sid] = ops[s].user
        /\ ops[s].user \in Users /\ ops[s].user # 0
    BY <1>1, Facts DEF SessInv, Known, Awaiting
  <2>3. Now = ops[s] /\ Now'.kind = "login" /\ Now'.pc = "flushing" /\ Now'.user = user'
        /\ Latest > 0 /\ Latest' = Latest
    BY <1>1, <1>2, <2>1, Facts DEF SessInv, Now, Current, Moved
  <2>4. ~plane' /\ (late = {} => chain = <<>> /\ owner = Now'.user)
    BY <1>1, <1>2, <2>3 DEF SessInv, Still, Reconciled, InTime
  <2>5. Chained'
    BY <1>1, <2>1, ChainedKept DEF Steps
  <2>6. Known'
    <3>1. committed'.access \in Sessions' \cup {0} /\ committed'.refresh \in Sessions' \cup {0}
      BY <1>1, CredentialsKept
    <3>2. ops[s].sid \in Sessions' /\ account'[ops[s].sid] = ops[s].user
      BY <1>1, <2>2 DEF Growing
    <3> QED BY <1>1, <1>2, <2>1, <2>2, <2>4, <3>1, <3>2, KnownKept DEF Steps
  <2>7. Awaited'
    BY <1>1, <2>1, AwaitedKept DEF Steps
  <2>8. Still' /\ SignedOut'
    BY <2>3, <2>4 DEF Still, SignedOut
  <2>9. Reconciled'
    BY <1>1, <2>3, <2>4, Facts DEF SessInv, Reconciled, InTime
  <2>10. Identified'
    BY <1>1, <1>2, <2>2 DEF Identified
  <2>11. Fields'
    BY <1>1, <1>2, <2>2, Facts DEF SessInv, Fields, Holder, Credential, Sessions
  <2>12. TypeOK'
    BY <1>1, <2>1, <2>5, <2>11, Facts, Typed DEF SessInv, Moved
  <2> QED BY <2>5, <2>6, <2>7, <2>8, <2>9, <2>10, <2>12 DEF SessInv
<1>3. CASE ~Current(s) /\ OpGoes(s, "superseded") /\ UNCHANGED <<tokens, user, disk>>
  <2>1. revoked' \subseteq Sessions'
    BY <1>1, Facts DEF SessInv, Fields, Growing
  <2> QED BY <1>1, <1>3, <2>1, Ends DEF Ended, session, store
<1> QED BY <1>2, <1>3 DEF Adopt

(* The data plane starts when the chain is empty and the cache is the      *)
(* account's.                                                              *)
LEMMA AdoptedKeeps == ASSUME SessInv, NEW s \in DOMAIN ops, Adopted(s) PROVE SessInv'
<1>1. ops[s].kind = "login" /\ ops[s].pc = "flushing" /\ Growing
      /\ UNCHANGED <<user, tokens, disk, chain, owner, rows, flight, account, revoked, late, left>>
  BY Facts, Grown DEF SessInv, Fields, Adopted, store, server
<1>2. CASE Current(s) /\ committed' = tokens /\ plane' = TRUE /\ OpGoes(s, "done")
  <2>1. Moved(s, "done", ops[s].sid)
    BY <1>2, Moves DEF Steps
  <2>2. Now = ops[s] /\ Now'.kind = "login" /\ Now'.pc = "done"
        /\ Latest > 0 /\ Latest' = Latest
    BY <1>1, <1>2, <2>1, Facts DEF SessInv, Now, Current, Moved
  <2>3. user = Now.user /\ user # 0 /\ (late = {} => chain = <<>> /\ owner = user)
    BY <1>1, <1>2, <2>2 DEF SessInv, Known, Still, Reconciled, InTime
  <2>4. Chained'
    BY <1>1, <2>1, ChainedKept DEF Steps
  <2>5. Known'
    <3>1. committed'.access \in Sessions' \cup {0} /\ committed'.refresh \in Sessions' \cup {0}
      BY <1>1, <1>2, CredentialsKept
    <3>2. ops[s].sid \in Sessions' \cup {0} /\ (ops[s].sid # 0 => account'[ops[s].sid] = ops[s].user)
      BY <1>1 DEF SessInv, Known, Growing
    <3> QED BY <1>1, <1>2, <2>1, <2>3, <3>1, <3>2, KnownKept, IdentityKept DEF Steps, Awaiting
  <2>6. Awaited'
    BY <1>1, <2>1, AwaitedKept DEF Steps
  <2>7. Still' /\ SignedOut'
    BY <2>2 DEF Still, SignedOut
  <2>8. Reconciled'
    <3>1. late = {} => chain = <<>> /\ DOMAIN chain = {}
      BY <2>3, Facts DEF SessInv
    <3> QED BY <1>1, <2>2, <2>3, <3>1 DEF SessInv, Reconciled, InTime
  <2>9. Identified'
    BY <1>1, IdentifiedKept
  <2>10. Fields'
    BY <1>1, <1>2, Facts DEF SessInv, Fields, Sessions
  <2>11. TypeOK'
    BY <1>1, <2>1, <2>4, <2>10, Facts, Typed DEF SessInv, Moved
  <2> QED BY <2>4, <2>5, <2>6, <2>7, <2>8, <2>9, <2>11 DEF SessInv
<1>3. CASE ~Current(s) /\ OpGoes(s, "superseded") /\ UNCHANGED <<committed, plane>>
  <2>1. revoked' \subseteq Sessions'
    BY <1>1, Facts DEF SessInv, Fields, Growing
  <2> QED BY <1>1, <1>3, <2>1, Ends DEF Ended, session, store
<1> QED BY <1>2, <1>3 DEF Adopted

(* An answered sign-out clears the session before anything is wiped.       *)
LEMMA SignOutAnsweredKeeps ==
    ASSUME SessInv, NEW s \in DOMAIN ops, SignOutAnswered(s) PROVE SessInv'
<1>1. ops[s].kind \in {"logout", "delete"} /\ ops[s].pc = "posted" /\ Growing
      /\ UNCHANGED <<chain, owner, rows, flight, account, late, left>>
  BY Facts, Grown DEF SessInv, Fields, SignOutAnswered, store
<1>2. PICK executed \in {FALSE, ops[s].sid \notin revoked \cup {0}} :
         /\ revoked' = IF executed THEN revoked \cup {ops[s].sid} ELSE revoked
         /\ IF Current(s) /\ (executed \/ ops[s].kind = "logout")
            THEN ClearLocal /\ OpGoes(s, "flushing")
            ELSE OpGoes(s, IF Current(s) THEN "done" ELSE "superseded") /\ UNCHANGED session
  BY DEF SignOutAnswered
<1>3. revoked' \subseteq Sessions'
  <2>1. executed => ops[s].sid \in Sessions
    BY <1>2 DEF SessInv, Known
  <2>2. revoked \subseteq Sessions
    BY Facts DEF SessInv, Fields
  <2> QED BY <1>1, <1>2, <2>1, <2>2 DEF Growing
<1>4. CASE Current(s) /\ ClearLocal /\ OpGoes(s, "flushing")
  <2>1. Moved(s, "flushing", ops[s].sid)
    BY <1>4, Moves DEF Steps
  <2>2. Now'.kind \in {"logout", "delete"} /\ Now'.pc = "flushing" /\ Latest' = Latest /\ Latest' = s
    BY <1>1, <1>4, <2>1 DEF Now, Current, Moved
  <2>3. user' = 0 /\ tokens' = NoTokens /\ committed' = NoTokens /\ disk' = 0 /\ ~plane'
    BY <1>4 DEF ClearLocal
  <2>4. Chained'
    BY <1>1, <2>1, ChainedKept DEF Steps
  <2>5. Known'
    <3>1. ops[s].sid \in Sessions' \cup {0}
      BY <1>1 DEF SessInv, Known, Growing
    <3>2. committed'.access \in Sessions' \cup {0} /\ committed'.refresh \in Sessions' \cup {0}
      BY <1>1, <2>3, CredentialsKept
    <3> QED BY <1>1, <2>1, <2>3, <3>1, <3>2, KnownKept DEF Steps, Awaiting
  <2>6. Awaited'
    BY <1>1, <2>1, AwaitedKept DEF Steps
  <2>7. \A i \in DOMAIN chain : chain[i].seq # s
    BY <1>1 DEF SessInv, Chained
  <2>8. Still' /\ Identified'
    BY <2>2, <2>3 DEF Still, Identified
  <2>9. SignedOut'
    BY <1>1, <2>2, <2>3, <2>7 DEF SignedOut
  <2>10. Reconciled'
    BY <1>1, <2>2, <2>3, <2>7 DEF SessInv, Reconciled, InTime
  <2>11. Fields'
    <3>1. Sessions' = Sessions /\ plane' = FALSE
      BY <1>1, <1>4 DEF Sessions, ClearLocal
    <3> QED BY <1>1, <1>3, <2>3, <3>1, Facts, Empty DEF SessInv, Fields
  <2>12. TypeOK'
    BY <1>1, <2>1, <2>4, <2>11, Facts, Typed DEF SessInv, Moved
  <2> QED BY <2>4, <2>5, <2>6, <2>8, <2>9, <2>10, <2>12 DEF SessInv
<1>5. CASE OpGoes(s, "superseded") /\ ~Current(s) /\ UNCHANGED session
  BY <1>1, <1>3, <1>5, Ends DEF Ended, session, store
<1>6. CASE OpGoes(s, "done") /\ ops[s].kind = "delete" /\ UNCHANGED session
  BY <1>1, <1>3, <1>6, Ends DEF Ended, session, store
<1> QED BY <1>1, <1>2, <1>4, <1>5, <1>6

(* The wipe of an overtaken sign-out is the one that is late.              *)
LEMMA WipeFlushedKeeps ==
    ASSUME SessInv, NEW s \in DOMAIN ops, WipeFlushed(s) PROVE SessInv'
<1>1. /\ ops[s].kind # "login" /\ ops[s].pc = "flushing" /\ Growing
      /\ OpGoes(s, "queued") /\ Enqueue(s, "wipe")
      /\ UNCHANGED <<user, tokens, committed, disk, plane, owner, rows, flight, account, revoked, left>>
      /\ late \subseteq late'
      /\ ~Current(s) => late' # {}
  BY Facts, Grown DEF SessInv, Fields, WipeFlushed, session, server
<1>2. Moved(s, "queued", ops[s].sid)
  BY <1>1, Moves DEF Steps
<1>3. /\ Chained' /\ chain' \in Seq(TaskOf(DOMAIN ops'))
      /\ Len(chain') = Len(chain) + 1 /\ DOMAIN chain' = 1..Len(chain')
      /\ chain'[Len(chain')].seq = s /\ chain'[Len(chain')].task = "wipe"
      /\ chain'[Len(chain')].step = "start"
      /\ \A i \in DOMAIN chain' : i # Len(chain') =>
            i \in DOMAIN chain /\ chain'[i] = chain[i] /\ chain[i].seq # s
  BY <1>1, <1>2, EnqueueChained
<1>4. Known'
  <2>1. committed'.access \in Sessions' \cup {0} /\ committed'.refresh \in Sessions' \cup {0}
    BY <1>1, CredentialsKept
  <2>2. /\ ops[s].sid \in Sessions' \cup {0}
        /\ ops[s].kind \in {"login", "restore"} =>
              ops[s].sid # 0 /\ account'[ops[s].sid] = ops[s].user
    BY <1>1 DEF SessInv, Known, Growing, Awaiting
  <2>3. plane' => user' # 0
    BY <1>1 DEF SessInv, Known
  <2> QED BY <1>1, <1>2, <2>1, <2>2, <2>3, KnownKept, IdentityKept DEF Steps
<1>5. Awaited'
  BY <1>1, <1>2, AwaitedKept DEF Steps
<1>6. Latest \in Nat /\ Latest' = Latest /\ Latest \in DOMAIN ops /\ Latest > 0
  BY <1>2, Facts DEF SessInv, Moved
<1>7. /\ Now.kind = Now'.kind /\ Now.sid = Now'.sid /\ Now'.user = Now.user
      /\ Current(s) => Now.kind # "login" /\ Now.pc = "flushing" /\ Now'.pc = "queued"
      /\ ~Current(s) => Now' = Now
  BY <1>1, <1>2, <1>6 DEF Moved, Current, Now
<1>8. Still'
  <2>1. CASE Current(s)
    <3>1. ~plane /\ user = 0 /\ Now'.kind # "login" /\ Now'.pc = "queued"
      BY <1>6, <1>7, <2>1 DEF SessInv, Still
    <3>2. \A i \in DOMAIN chain' : chain'[i].seq = Latest' => chain'[i].task = "wipe"
      BY <1>3, <1>6, <2>1 DEF Current
    <3> QED BY <1>1, <3>1, <3>2 DEF Still
  <2>2. CASE ~Current(s)
    BY <1>1, <1>3, <1>6, <1>7, <2>2 DEF SessInv, Still, Current
  <2> QED BY <2>1, <2>2
<1>9. Reconciled'
  <2>1. ASSUME late' = {} PROVE late = {} /\ Current(s) /\ ~plane'
    BY <1>1, <1>6, <1>7, <2>1 DEF SessInv, Still
  <2> QED BY <1>1, <1>3, <1>6, <1>7, <2>1 DEF SessInv, Reconciled, InTime, Current
<1>10. SignedOut'
  <2>1. CASE Current(s)
    BY <1>1, <1>3, <1>6, <1>7, <2>1 DEF SessInv, SignedOut, Current
  <2>2. CASE ~Current(s)
    <3>1. \A i \in DOMAIN chain' : chain'[i].seq = Latest' =>
             i \in DOMAIN chain /\ chain'[i] = chain[i] /\ chain[i].seq = Latest
      BY <1>3, <1>6, <2>2 DEF Current
    <3>2. \A i \in DOMAIN chain' :
             chain'[i].task = "wipe" \/ (i \in DOMAIN chain /\ chain'[i] = chain[i])
      BY <1>3
    <3>3. Now' = Now
      BY <1>7, <2>2
    <3> QED BY <1>1, <1>6, <3>1, <3>2, <3>3 DEF SessInv, SignedOut
  <2> QED BY <2>1, <2>2
<1>11. Identified'
  BY <1>1, IdentifiedKept
<1>12. Fields'
  BY <1>1, Facts DEF SessInv, Fields, Sessions, WipeFlushed
<1>13. TypeOK'
  BY <1>2, <1>3, <1>12, Typed DEF Moved
<1> QED BY <1>3, <1>4, <1>5, <1>8, <1>9, <1>10, <1>11, <1>13 DEF SessInv

(* A wipe settles.                                                         *)
LEMMA WipeEndsKeeps == ASSUME SessInv, NEW s \in DOMAIN ops, WipeEnds(s) PROVE SessInv'
<1>1. /\ ops[s].pc = "emit" /\ UNCHANGED <<session, store, flight, account, revoked, late, left>>
  BY DEF WipeEnds, server
<1>2. Growing /\ revoked' \subseteq Sessions'
  BY <1>1, Facts, Grown DEF SessInv, Fields, Growing
<1>3. PICK pc \in {"done", "superseded"} : OpGoes(s, pc)
  BY DEF WipeEnds
<1> QED BY <1>1, <1>2, <1>3, Ends DEF Ended

-----------------------------------------------------------------------------
(* The tasks of the chain.                                                 *)

(* While a task is due, the data plane of a session that is in time stands *)
(* still.                                                                  *)
LEMMA TaskFacts ==
    ASSUME SessInv, chain # <<>>
    PROVE  /\ 1 \in DOMAIN chain /\ Task = chain[1] /\ Task.seq \in DOMAIN ops
           /\ ops[Task.seq].pc = "queued" /\ ops[Task.seq].user \in Users \cup {0}
           /\ Latest \in DOMAIN ops /\ Latest > 0
           /\ Task.task = "reconcile" =>
                 /\ ops[Task.seq].kind \in {"login", "restore"}
                 /\ ops[Task.seq].user \in Users
           /\ Task.task = "wipe" => ops[Task.seq].kind # "login"
           /\ late = {} => ~plane /\ rows \subseteq {owner} \ {0}
           /\ late = {} /\ Task.step # "start" => rows = {}
<1>1. /\ 1 \in DOMAIN chain /\ Task = chain[1] /\ Task.seq \in DOMAIN ops
      /\ ops[Task.seq].user \in Users \cup {0} /\ ops[Task.seq].sid \in Nat
      /\ Latest \in DOMAIN ops /\ Latest > 0
  BY Facts DEF SessInv
<1>2. /\ ops[Task.seq].pc = "queued"
      /\ Task.task = "reconcile" => ops[Task.seq].kind \in {"login", "restore"}
      /\ Task.task = "wipe" => ops[Task.seq].kind # "login"
  BY <1>1 DEF SessInv, Chained
<1>3. Task.task = "reconcile" => ops[Task.seq].user \in Users
  <2>1. account \in Seq(Users)
    BY Facts DEF SessInv, Fields
  <2> QED BY <1>1, <1>2, <2>1, Grown DEF SessInv, Known, Awaiting
<1>4. /\ late = {} => ~plane /\ rows \subseteq {owner} \ {0}
      /\ late = {} /\ Task.step # "start" => rows = {}
  BY <1>1 DEF SessInv, Reconciled, InTime
<1> QED BY <1>1, <1>2, <1>3, <1>4

(* The chain stays in order when its first task settles.                   *)
LEMMA DequeueChained ==
    ASSUME SessInv, chain # <<>>, NEW pc \in {"ready", "emit"}, TaskEnds(pc)
    PROVE  /\ Moved(Task.seq, pc, ops[Task.seq].sid)
           /\ Chained' /\ chain' \in Seq(TaskOf(DOMAIN ops'))
           /\ Len(chain') = Len(chain) - 1 /\ DOMAIN chain' = 1..Len(chain')
           /\ Len(chain) = 1 => chain' = <<>>
           /\ \A i \in DOMAIN chain' :
                 /\ i + 1 \in DOMAIN chain /\ chain'[i] = chain[i + 1]
                 /\ chain'[i].step = "start" /\ chain'[i].seq # Task.seq
<1>1. Moved(Task.seq, pc, ops[Task.seq].sid)
  BY TaskFacts, Moves DEF TaskEnds, Steps
<1>2. /\ chain' \in Seq(TaskOf(DOMAIN ops')) /\ Len(chain') = Len(chain) - 1
      /\ \A i \in 1..Len(chain') : i + 1 \in 1..Len(chain) /\ chain'[i] = chain[i + 1]
  BY <1>1, Facts, Dequeued DEF SessInv, TaskEnds, Moved
<1>3. /\ DOMAIN chain' = 1..Len(chain') /\ Len(chain) \in Nat /\ DOMAIN chain = 1..Len(chain)
      /\ Len(chain') = 0 => chain' = <<>>
  BY <1>2, Facts, LenProperties, EmptySeq DEF SessInv
<1>4. \A i \in DOMAIN chain' :
         /\ i \in Nat /\ i + 1 \in DOMAIN chain /\ i + 1 # 1 /\ chain'[i] = chain[i + 1]
  BY <1>2, <1>3
<1>5. \A i \in DOMAIN chain' : chain'[i].step = "start" /\ chain'[i].seq # Task.seq
  BY <1>4, TaskFacts DEF SessInv, Chained
<1>6. Chained'
  <2>1. \A i, j \in DOMAIN chain' : chain'[i].seq = chain'[j].seq => i = j
    BY <1>4 DEF SessInv, Chained
  <2>2. \A i \in DOMAIN chain' : chain'[i].seq \in DOMAIN ops /\ ops'[chain'[i].seq] = ops[chain'[i].seq]
    BY <1>1, <1>4, <1>5, Facts DEF SessInv, Moved
  <2>3. \A i \in DOMAIN chain' :
          /\ ops'[chain'[i].seq].pc = "queued"
          /\ chain'[i].step # "start" => i = 1
          /\ chain'[i].task = "reconcile" => ops'[chain'[i].seq].kind \in {"login", "restore"}
          /\ chain'[i].task = "wipe" =>
                ops'[chain'[i].seq].kind # "login" /\ chain'[i].step # "wiped"
    BY <1>4, <1>5, <2>2 DEF SessInv, Chained
  <2>4. ASSUME NEW n \in DOMAIN ops', ops'[n].pc = "queued"
        PROVE  \E i \in DOMAIN chain' : chain'[i].seq = n
    <3>1. n \in DOMAIN ops /\ n # Task.seq /\ ops[n].pc = "queued"
      BY <1>1, <2>4 DEF Moved
    <3>2. PICK j \in DOMAIN chain : chain[j].seq = n
      BY <3>1 DEF SessInv, Chained
    <3>3. j # 1
      BY <3>1, <3>2, TaskFacts
    <3>4. j - 1 \in DOMAIN chain' /\ chain'[j - 1] = chain[j]
      BY <1>2, <1>3, <3>3
    <3> QED BY <3>2, <3>4
  <2> QED BY <2>1, <2>3, <2>4 DEF Chained
<1> QED BY <1>1, <1>2, <1>3, <1>4, <1>5, <1>6

(* The chain stays in order when its first task goes on.                   *)
LEMMA StepChained ==
    ASSUME SessInv, chain # <<>>, NEW step \in {"cleared", "wiped"}, ChainStep(step),
           UNCHANGED ops, step = "wiped" => Task.task = "reconcile"
    PROVE  /\ Chained' /\ chain' \in Seq(TaskOf(DOMAIN ops'))
           /\ Len(chain') = Len(chain) /\ DOMAIN chain' = DOMAIN chain /\ chain' # <<>>
           /\ chain'[1].step = step
           /\ \A i \in DOMAIN chain' :
                 /\ chain'[i].seq = chain[i].seq /\ chain'[i].task = chain[i].task
                 /\ i # 1 => chain'[i] = chain[i]
<1>1. /\ chain' \in Seq(TaskOf(DOMAIN ops')) /\ Len(chain') = Len(chain)
      /\ chain'[1].seq = chain[1].seq /\ chain'[1].task = chain[1].task
      /\ chain'[1].step = step
      /\ \A i \in DOMAIN chain : i # 1 => chain'[i] = chain[i]
  BY Facts, Stepped DEF SessInv
<1>2. DOMAIN chain' = DOMAIN chain /\ chain' # <<>>
  <2>1. /\ Len(chain) \in Nat /\ DOMAIN chain = 1..Len(chain) /\ Len(chain) # 0
        /\ DOMAIN chain' = 1..Len(chain')
    BY <1>1, Facts, LenProperties DEF SessInv
  <2>2. Len(<<>>) = 0
    BY EmptySeq
  <2> QED BY <1>1, <2>1, <2>2
<1>3. \A i \in DOMAIN chain' :
         /\ chain'[i].seq = chain[i].seq /\ chain'[i].task = chain[i].task
         /\ i # 1 => chain'[i] = chain[i]
  BY <1>1, <1>2
<1>4. Chained'
  <2>1. \A i \in DOMAIN chain' :
          /\ ops'[chain'[i].seq].pc = "queued"
          /\ chain'[i].step # "start" => i = 1
          /\ chain'[i].task = "reconcile" => ops'[chain'[i].seq].kind \in {"login", "restore"}
          /\ chain'[i].task = "wipe" =>
                ops'[chain'[i].seq].kind # "login" /\ chain'[i].step # "wiped"
    BY <1>1, <1>2, <1>3, TaskFacts DEF SessInv, Chained
  <2>2. /\ \A i, j \in DOMAIN chain' : chain'[i].seq = chain'[j].seq => i = j
        /\ \A n \in DOMAIN ops' : ops'[n].pc = "queued" =>
              \E i \in DOMAIN chain' : chain'[i].seq = n
    BY <1>2, <1>3 DEF SessInv, Chained
  <2> QED BY <2>1, <2>2 DEF Chained
<1> QED BY <1>1, <1>2, <1>3, <1>4

(* A task that settles changes nothing of the session.                     *)
LEMMA DequeueFrame ==
    ASSUME SessInv, chain # <<>>, NEW pc \in {"ready", "emit"}, TaskEnds(pc),
           pc = "emit" => ops[Task.seq].kind # "login",
           UNCHANGED <<session, flight, server, late, left>>,
           owner' \in Users \cup {0}, rows' = rows
    PROVE  TypeOK' /\ Known' /\ Awaited' /\ Chained' /\ Identified'
<1>1. /\ Moved(Task.seq, pc, ops[Task.seq].sid)
      /\ Chained' /\ chain' \in Seq(TaskOf(DOMAIN ops'))
  BY DequeueChained
<1>2. UNCHANGED <<user, tokens, committed, disk, plane, account, revoked>>
  BY DEF session, server
<1>3. Growing
  BY <1>2, Facts, Grown DEF SessInv, Fields
<1>4. Task.seq \in DOMAIN ops /\ ops[Task.seq].pc = "queued"
  BY TaskFacts
<1>5. Known'
  <2>1. committed'.access \in Sessions' \cup {0} /\ committed'.refresh \in Sessions' \cup {0}
    BY <1>2, <1>3, CredentialsKept
  <2>2. /\ ops[Task.seq].sid \in Sessions' \cup {0}
        /\ ops[Task.seq].kind \in {"login", "restore"} =>
              ops[Task.seq].sid # 0 /\ account'[ops[Task.seq].sid] = ops[Task.seq].user
    BY <1>3, <1>4 DEF SessInv, Known, Growing, Awaiting
  <2>3. plane' => user' # 0
    BY <1>2 DEF SessInv, Known
  <2>4. pc \in Steps /\ (ops[Task.seq].kind = "login" => pc \notin {"refreshing", "emit"})
    BY DEF Steps
  <2>5. user' # 0 => disk' # 0 /\ account'[disk'] = user'
    BY <1>2, <1>3, IdentityKept
  <2> QED BY <1>1, <1>3, <1>4, <2>1, <2>2, <2>3, <2>4, <2>5, KnownKept
<1>6. Awaited'
  BY <1>1, <1>3, <1>4, AwaitedKept DEF Steps
<1>7. Identified'
  BY <1>2, <1>3, IdentifiedKept
<1>8. Fields'
  BY <1>2, Facts DEF SessInv, Fields, Sessions
<1> QED BY <1>1, <1>5, <1>6, <1>7, <1>8, Typed DEF Moved

(* A task that goes on changes nothing of the session.                     *)
LEMMA StepFrame ==
    ASSUME SessInv, chain # <<>>, NEW step \in {"cleared", "wiped"}, ChainStep(step),
           UNCHANGED ops, step = "wiped" => Task.task = "reconcile",
           UNCHANGED <<session, flight, server, late, left>>,
           owner' \in {owner, 0}, rows' \in {rows, {}}
    PROVE  TypeOK' /\ Known' /\ Awaited' /\ Chained' /\ Identified'
<1>1. Chained' /\ chain' \in Seq(TaskOf(DOMAIN ops'))
  BY StepChained
<1>2. UNCHANGED <<user, tokens, committed, disk, plane, account, revoked>>
  BY DEF session, server
<1>3. Known' /\ Awaited' /\ Identified'
  BY <1>2 DEF SessInv, Known, Awaited, Identified, Sessions
<1>4. Fields'
  BY <1>2, Facts DEF SessInv, Fields, Sessions
<1> QED BY <1>1, <1>3, <1>4, Facts, Typed DEF SessInv

(* reconcileOwner() hands the cache over with nobody's rows in it.         *)
LEMMA ReconcileKeeps == ASSUME SessInv, Reconcile PROVE SessInv'
<1> DEFINE u == ops[Task.seq].user
<1>1. /\ chain # <<>> /\ Task.task = "reconcile"
      /\ UNCHANGED <<user, tokens, committed, disk, plane, account, revoked, flight, late, left>>
      /\ UNCHANGED <<session, server>>
  BY DEF Reconcile, session, server
<1>2. /\ 1 \in DOMAIN chain /\ Task = chain[1] /\ Task.seq \in DOMAIN ops
      /\ ops[Task.seq].pc = "queued" /\ u \in Users
      /\ Latest \in DOMAIN ops /\ Latest > 0
      /\ ops[Task.seq].kind \in {"login", "restore"}
      /\ late = {} => ~plane /\ rows \subseteq {owner} \ {0}
      /\ late = {} /\ Task.step # "start" => rows = {}
  BY <1>1, TaskFacts
<1>3. owner \in Users \cup {0}
  BY Facts DEF SessInv, Fields
<1> HIDE DEF u
<1>4. CASE /\ ~Current(Task.seq) /\ TaskEnds("ready") /\ UNCHANGED <<owner, rows>>
  <2>1. TypeOK' /\ Known' /\ Awaited' /\ Chained' /\ Identified'
    BY <1>1, <1>3, <1>4, DequeueFrame
  <2>2. /\ Moved(Task.seq, "ready", ops[Task.seq].sid)
        /\ Len(chain') = Len(chain) - 1 /\ Len(chain) \in Nat
        /\ \A i \in DOMAIN chain' :
              /\ i \in Nat /\ i + 1 \in DOMAIN chain /\ chain'[i] = chain[i + 1]
              /\ chain'[i].step = "start"
    BY <1>1, <1>4, DequeueChained, Facts DEF SessInv
  <2>3. Latest' = Latest /\ Now' = Now
    BY <1>2, <1>4, <2>2 DEF Moved, Current, Now
  <2>4. Still'
    BY <1>1, <2>2, <2>3 DEF SessInv, Still
  <2>5. Reconciled'
    BY <1>1, <1>2, <1>4, <2>2, <2>3, EmptySeq DEF SessInv, Reconciled, InTime
  <2>6. SignedOut'
    BY <1>1, <1>2, <1>4, <2>2, <2>3, Facts DEF SessInv, SignedOut
  <2> QED BY <2>1, <2>4, <2>5, <2>6 DEF SessInv
<1>5. CASE Current(Task.seq) /\ rows' = {} /\ ChainStep("cleared") /\ UNCHANGED <<owner, ops>>
  <2>1. TypeOK' /\ Known' /\ Awaited' /\ Chained' /\ Identified'
    BY <1>1, <1>5, StepFrame
  <2>2. /\ Len(chain') = Len(chain) /\ DOMAIN chain' = DOMAIN chain /\ chain' # <<>>
        /\ chain'[1].step = "cleared"
        /\ \A i \in DOMAIN chain' :
              /\ chain'[i].seq = chain[i].seq /\ chain'[i].task = chain[i].task
              /\ i # 1 => chain'[i] = chain[i]
    BY <1>1, <1>5, StepChained
  <2>3. Latest' = Latest /\ Now' = Now /\ Now.kind \in {"login", "restore"}
    BY <1>2, <1>5 DEF Latest, Now, Current
  <2>4. Still' /\ SignedOut'
    BY <1>1, <2>2, <2>3 DEF SessInv, Still, SignedOut
  <2>5. Reconciled'
    BY <1>1, <1>2, <1>5, <2>2, <2>3 DEF SessInv, Reconciled, InTime
  <2> QED BY <2>1, <2>4, <2>5 DEF SessInv
<1>6. CASE Task.step = "cleared" /\ owner' = 0 /\ ChainStep("wiped") /\ UNCHANGED <<rows, ops>>
  <2>1. TypeOK' /\ Known' /\ Awaited' /\ Chained' /\ Identified'
    BY <1>1, <1>6, StepFrame
  <2>2. /\ Len(chain') = Len(chain) /\ DOMAIN chain' = DOMAIN chain /\ chain' # <<>>
        /\ chain'[1].step = "wiped"
        /\ \A i \in DOMAIN chain' :
              /\ chain'[i].seq = chain[i].seq /\ chain'[i].task = chain[i].task
              /\ i # 1 => chain'[i] = chain[i]
    BY <1>1, <1>6, StepChained
  <2>3. Latest' = Latest /\ Now' = Now
    BY <1>6 DEF Latest, Now
  <2>4. Still'
    BY <1>1, <2>2, <2>3 DEF SessInv, Still
  <2>5. Reconciled'
    BY <1>1, <1>2, <1>6, <2>2, <2>3 DEF SessInv, Reconciled, InTime
  <2>6. SignedOut'
    <3>1. Now.kind \in {"logout", "wipe"} => Now.pc \notin {"emit", "done"}
      BY <1>1, <1>2 DEF SessInv, SignedOut
    <3>2. \A i \in DOMAIN chain' : chain'[i].seq = Latest /\ Now.kind \in {"logout", "wipe"} =>
             i # 1
      BY <1>2, <2>2 DEF Now
    <3> QED BY <1>1, <1>6, <2>2, <2>3, <3>1, <3>2 DEF SessInv, SignedOut
  <2> QED BY <2>1, <2>4, <2>5, <2>6 DEF SessInv
<1>7. CASE /\ Current(Task.seq)
           /\ Task.step = "wiped" \/ (Task.step = "start" /\ ~Foreign(u))
           /\ owner' = u /\ TaskEnds("ready") /\ UNCHANGED rows
  <2>1. TypeOK' /\ Known' /\ Awaited' /\ Chained' /\ Identified'
    BY <1>1, <1>2, <1>7, DequeueFrame
  <2>2. /\ Moved(Task.seq, "ready", ops[Task.seq].sid)
        /\ Len(chain') = Len(chain) - 1 /\ Len(chain) \in Nat
        /\ Len(chain) = 1 => chain' = <<>> /\ DOMAIN chain' = {}
        /\ \A i \in DOMAIN chain' :
              /\ i \in Nat /\ i + 1 \in DOMAIN chain /\ chain'[i] = chain[i + 1]
              /\ chain'[i].step = "start" /\ chain'[i].seq # Task.seq
    BY <1>1, <1>7, DequeueChained, Facts DEF SessInv
  <2>3. /\ Latest' = Latest /\ Latest = Task.seq /\ Now = ops[Task.seq]
        /\ Now'.kind = Now.kind /\ Now'.pc = "ready" /\ Now'.user = u /\ Now'.sid = Now.sid
    BY <1>2, <1>7, <2>2 DEF Moved, Current, Now, u
  <2>4. Still'
    BY <1>1, <1>2, <2>2, <2>3 DEF SessInv, Still
  <2>5. Reconciled'
    <3>1. ASSUME late = {} PROVE chain' = <<>> /\ DOMAIN chain' = {} /\ rows \subseteq {u} \ {0}
      <4>1. Len(chain) = 1
        BY <1>1, <1>2, <2>3, <3>1 DEF SessInv, Reconciled, InTime
      <4>2. rows = {} \/ owner \in {0, u}
        BY <1>2, <1>7, <3>1 DEF Foreign
      <4> QED BY <1>2, <2>2, <3>1, <4>1, <4>2
    <3> QED BY <1>1, <1>2, <1>7, <2>3, <3>1 DEF Reconciled, InTime
  <2>6. SignedOut'
    BY <1>2, <2>3 DEF SignedOut
  <2> QED BY <2>1, <2>4, <2>5, <2>6 DEF SessInv
<1> QED BY <1>4, <1>5, <1>6, <1>7 DEF Reconcile, u

(* The task of a sign-out empties the cache.                               *)
LEMMA WipeKeeps == ASSUME SessInv, Wipe PROVE SessInv'
<1>1. /\ chain # <<>> /\ Task.task = "wipe"
      /\ UNCHANGED <<user, tokens, committed, disk, plane, account, revoked, flight, late, left>>
      /\ UNCHANGED <<session, server>>
  BY DEF Wipe, session, server
<1>2. /\ 1 \in DOMAIN chain /\ Task = chain[1] /\ Task.seq \in DOMAIN ops
      /\ ops[Task.seq].pc = "queued" /\ ops[Task.seq].kind # "login"
      /\ Latest \in DOMAIN ops /\ Latest > 0
      /\ late = {} => ~plane /\ rows \subseteq {owner} \ {0}
      /\ late = {} /\ Task.step # "start" => rows = {}
  BY <1>1, TaskFacts
<1>3. CASE rows' = {} /\ ChainStep("cleared") /\ UNCHANGED <<owner, ops>>
  <2>1. TypeOK' /\ Known' /\ Awaited' /\ Chained' /\ Identified'
    BY <1>1, <1>3, StepFrame
  <2>2. /\ Len(chain') = Len(chain) /\ DOMAIN chain' = DOMAIN chain /\ chain' # <<>>
        /\ chain'[1].step = "cleared"
        /\ \A i \in DOMAIN chain' :
              /\ chain'[i].seq = chain[i].seq /\ chain'[i].task = chain[i].task
              /\ i # 1 => chain'[i] = chain[i]
    BY <1>1, <1>3, StepChained
  <2>3. Latest' = Latest /\ Now' = Now
    BY <1>3 DEF Latest, Now
  <2>4. Still' /\ SignedOut'
    BY <1>1, <1>3, <2>2, <2>3 DEF SessInv, Still, SignedOut
  <2>5. Reconciled'
    BY <1>1, <1>2, <1>3, <2>2, <2>3 DEF SessInv, Reconciled, InTime
  <2> QED BY <2>1, <2>4, <2>5 DEF SessInv
<1>4. CASE Task.step = "cleared" /\ owner' = 0 /\ TaskEnds("emit") /\ UNCHANGED rows
  <2>1. TypeOK' /\ Known' /\ Awaited' /\ Chained' /\ Identified'
    BY <1>1, <1>2, <1>4, DequeueFrame
  <2>2. /\ Moved(Task.seq, "emit", ops[Task.seq].sid)
        /\ Len(chain') = Len(chain) - 1 /\ Len(chain) \in Nat
        /\ \A i \in DOMAIN chain' :
              /\ i \in Nat /\ i + 1 \in DOMAIN chain /\ chain'[i] = chain[i + 1]
              /\ chain'[i].step = "start" /\ chain'[i].seq # Task.seq
    BY <1>1, <1>4, DequeueChained, Facts DEF SessInv
  <2>3. /\ Latest' = Latest /\ Now'.kind = Now.kind /\ Now'.user = Now.user /\ Now'.sid = Now.sid
        /\ Current(Task.seq) => Now.pc = "queued" /\ Now'.pc = "emit" /\ Now.kind # "login"
        /\ ~Current(Task.seq) => Now' = Now
    BY <1>2, <2>2 DEF Moved, Current, Now
  <2>4. Still'
    BY <1>1, <2>2, <2>3 DEF SessInv, Still
  <2>5. Reconciled'
    <3>1. late = {} => rows = {} /\ ~plane
      BY <1>2, <1>4
    <3>2. late = {} => /\ ~(Now'.kind = "login" /\ Now'.pc \in {"ready", "flushing"})
                       /\ ~(Now'.kind = "restore" /\ Now'.pc \in {"ready", "refreshing"})
      BY <1>1, <1>2, <2>3 DEF SessInv, Reconciled, InTime
    <3> QED BY <1>1, <1>2, <1>4, <2>2, <2>3, <3>1, <3>2, EmptySeq DEF SessInv, Reconciled, InTime
  <2>6. SignedOut'
    <3>1. CASE Current(Task.seq)
      BY <1>1, <1>2, <1>4, <2>2, <2>3, <3>1, Facts DEF SessInv, SignedOut, Current
    <3>2. CASE ~Current(Task.seq)
      BY <1>1, <1>2, <1>4, <2>2, <2>3, <3>2, Facts DEF SessInv, SignedOut, Current
    <3> QED BY <3>1, <3>2
  <2> QED BY <2>1, <2>4, <2>5, <2>6 DEF SessInv
<1> QED BY <1>3, <1>4 DEF Wipe

-----------------------------------------------------------------------------
(* The shared refresh.                                                     *)

(* A restore asks for the refresh of the stored record.                    *)
LEMMA RestoreKeeps == ASSUME SessInv, NEW s \in DOMAIN ops, Restore(s) PROVE SessInv'
<1>1. /\ ops[s].kind = "restore" /\ ops[s].pc = "ready" /\ Growing
      /\ UNCHANGED <<user, committed, disk, plane, chain, owner, rows, account, revoked, late, left>>
      /\ UNCHANGED store
  BY Facts, Grown DEF SessInv, Fields, Restore, store, server
<1>2. CASE /\ Current(s) /\ OpGoes(s, "refreshing") /\ flight.pc = "idle"
           /\ StartFlight(FALSE, [access |-> 0, refresh |-> ops[s].sid])
  <2>1. Moved(s, "refreshing", ops[s].sid)
    BY <1>2, Moves DEF Steps
  <2>2. /\ Latest' = Latest /\ Latest > 0 /\ Now = ops[s]
        /\ Now'.kind = "restore" /\ Now'.pc = "refreshing"
        /\ Now'.sid = Now.sid /\ Now'.user = Now.user
    BY <1>1, <1>2, <2>1, Facts DEF SessInv, Moved, Now, Current
  <2>3. /\ ~plane /\ user = 0 /\ disk = ops[s].sid /\ disk # 0 /\ disk \in Sessions
        /\ account[disk] = ops[s].user
    BY <1>1, <2>2 DEF SessInv, Still, Known, Awaiting
  <2>4. /\ tokens' = [access |-> 0, refresh |-> disk]
        /\ flight' = [pc |-> "sent", sid |-> disk, shared |-> FALSE]
    BY <1>2, <2>3 DEF StartFlight
  <2>5. Known'
    BY <1>1, <2>1, <2>3, KnownKept, CredentialsKept DEF Steps, Growing
  <2>6. Awaited'
    <3>1. \A n \in DOMAIN ops : ops[n].pc # "refreshing"
      BY <1>2 DEF SessInv, Awaited
    <3>2. \A n \in DOMAIN ops' : ops'[n].pc = "refreshing" => n = s
      BY <2>1, <3>1 DEF Moved
    <3>3. s \in DOMAIN ops' /\ ops'[s].pc = "refreshing" /\ ops'[s].kind = "restore"
          /\ ops'[s].sid = ops[s].sid
      BY <1>1, <2>1 DEF Moved
    <3>4. flight'.pc = "sent" /\ flight'.sid = ops[s].sid /\ flight'.sid \in Sessions'
      BY <1>1, <2>3, <2>4 DEF Growing
    <3> QED BY <3>2, <3>3, <3>4 DEF Awaited
  <2>7. Chained'
    BY <1>1, <2>1, ChainedKept DEF Steps
  <2>8. Still'
    BY <1>1, <2>2, <2>3 DEF SessInv, Still
  <2>9. Reconciled'
    BY <1>1, <2>2 DEF SessInv, Reconciled, InTime
  <2>10. SignedOut' /\ Identified'
    BY <1>1, <2>2, <2>3 DEF SignedOut, Identified
  <2>11. Fields'
    <3>1. disk \in Nat
      BY Facts, Grown DEF SessInv, Fields, Sessions
    <3>2. tokens' \in Holder /\ {tokens'.access, tokens'.refresh} \subseteq Sessions \cup {0}
      BY <2>3, <2>4, <3>1 DEF Holder, Credential
    <3>3. flight' \in [pc : {"idle", "sent", "bad"}, sid : Nat, shared : BOOLEAN]
      BY <2>4, <3>1
    <3> QED BY <1>1, <3>2, <3>3, Facts DEF SessInv, Fields, Sessions
  <2>12. TypeOK'
    BY <1>1, <2>1, <2>7, <2>11, Facts, Typed DEF SessInv, Moved
  <2> QED BY <2>5, <2>6, <2>7, <2>8, <2>9, <2>10, <2>12 DEF SessInv
<1>3. CASE ~Current(s) /\ OpGoes(s, "superseded") /\ UNCHANGED <<tokens, flight>>
  <2>1. revoked' \subseteq Sessions'
    BY <1>1, Facts DEF SessInv, Fields, Growing
  <2> QED BY <1>1, <1>3, <2>1, Ends DEF Ended, session
<1> QED BY <1>2, <1>3 DEF Restore

(* A step of the refresh alone.                                             *)
LEMMA FlightFrame ==
    ASSUME SessInv, UNCHANGED <<user, committed, disk, plane, ops, chain, owner, rows, account>>,
           left' \in 0..MaxEvents, revoked' \subseteq Sessions, tokens' \in Holder,
           {tokens'.access, tokens'.refresh} \subseteq Sessions \cup {0},
           flight' \in [pc : {"idle", "sent", "bad"}, sid : Nat, shared : BOOLEAN],
           late \subseteq late', late' \subseteq {"refresh", "restore", "wipe"},
           tokens' = tokens \/ user # 0 \/ "refresh" \in late'
    PROVE  TypeOK' /\ Known' /\ Chained' /\ Still' /\ Reconciled' /\ SignedOut'
<1>1. Latest' = Latest /\ Now' = Now /\ (late' = {} => late = {})
  BY DEF Latest, Now
<1>2. Known' /\ Chained' /\ Still' /\ Reconciled'
  BY <1>1 DEF SessInv, Known, Chained, Still, Reconciled, InTime, Sessions
<1>3. SignedOut'
  BY <1>1 DEF SessInv, SignedOut
<1>4. Fields'
  BY Facts DEF SessInv, Fields, Sessions
<1> QED BY <1>2, <1>3, <1>4, Facts, Typed DEF SessInv

(* A background refresh is for the account that is shown.                  *)
LEMMA BackgroundRefreshKeeps == ASSUME SessInv, BackgroundRefresh PROVE SessInv'
<1>1. /\ user # 0 /\ left' = left - 1 /\ left > 0
      /\ UNCHANGED <<user, committed, disk, plane, ops, chain, owner, rows, account, revoked, late>>
  BY DEF BackgroundRefresh, Event, store, server
<1>2. disk # 0 /\ disk \in Sessions /\ account[disk] = user /\ disk \in Nat
  <2>1. disk # 0 /\ account[disk] = user
    BY <1>1 DEF SessInv, Known
  <2>2. disk \in Sessions /\ account \in Seq(Users)
    BY <2>1, Facts DEF SessInv, Fields
  <2>3. disk \in Nat
    BY <2>2, Grown DEF Sessions
  <2> QED BY <2>1, <2>2, <2>3
<1>3. tokens \in Holder /\ {tokens.access, tokens.refresh} \subseteq Sessions \cup {0}
      /\ flight \in [pc : {"idle", "sent", "bad"}, sid : Nat, shared : BOOLEAN]
      /\ late \subseteq {"refresh", "restore", "wipe"} /\ revoked \subseteq Sessions
      /\ left \in 0..MaxEvents
  BY Facts DEF SessInv, Fields
<1>4. left' \in 0..MaxEvents
  BY <1>1, <1>3, BoundAssumption
<1>5. CASE flight.pc = "idle" /\ StartFlight(TRUE, tokens)
  <2>1. /\ tokens' = [tokens EXCEPT !.refresh = disk]
        /\ flight' = [pc |-> "sent", sid |-> disk, shared |-> TRUE]
    BY <1>2, <1>5 DEF StartFlight
  <2>2. tokens' \in Holder /\ tokens'.access = tokens.access /\ tokens'.refresh = disk
    BY <1>2, <1>3, <2>1 DEF Holder, Credential
  <2>3. flight' \in [pc : {"idle", "sent", "bad"}, sid : Nat, shared : BOOLEAN]
    BY <1>2, <2>1
  <2>4. TypeOK' /\ Known' /\ Chained' /\ Still' /\ Reconciled' /\ SignedOut'
    BY <1>1, <1>2, <1>3, <1>4, <2>2, <2>3, FlightFrame
  <2>5. Awaited'
    BY <1>1, <1>2, <1>5, <2>1 DEF SessInv, Awaited, Sessions
  <2>6. Identified'
    BY <1>1, <1>2, <2>2 DEF SessInv, Identified
  <2> QED BY <2>4, <2>5, <2>6 DEF SessInv
<1>6. CASE flight.pc = "sent" /\ flight' = [flight EXCEPT !.shared = TRUE] /\ UNCHANGED tokens
  <2>1. /\ flight' \in [pc : {"idle", "sent", "bad"}, sid : Nat, shared : BOOLEAN]
        /\ flight'.pc = "sent" /\ flight'.sid = flight.sid /\ flight'.shared
    BY <1>3, <1>6
  <2>2. TypeOK' /\ Known' /\ Chained' /\ Still' /\ Reconciled' /\ SignedOut'
    BY <1>1, <1>3, <1>4, <1>6, <2>1, FlightFrame
  <2>3. Awaited' /\ Identified'
    BY <1>1, <1>6, <2>1 DEF SessInv, Awaited, Identified, Sessions
  <2> QED BY <2>2, <2>3 DEF SessInv
<1> QED BY <1>5, <1>6 DEF BackgroundRefresh

(* What an answered refresh writes is of the account it was sent for.      *)
LEMMA HeldIs ==
    ASSUME SessInv, flight.pc = "sent", NEW result \in {"failed", "bad", "ok"}
    PROVE  /\ Held(result) \in Holder
           /\ {Held(result).access, Held(result).refresh} \subseteq Sessions \cup {0}
           /\ result = "ok" =>
                 \A t \in {Held(result).access, Held(result).refresh} \ {0} :
                    account[t] = account[flight.sid]
           /\ result = "bad" => Held(result) = NoTokens
           /\ result = "failed" => Held(result) = tokens
<1>1. /\ tokens \in Holder /\ {tokens.access, tokens.refresh, disk} \subseteq Sessions \cup {0}
      /\ Sessions \subseteq Nat
  BY Facts, Grown DEF SessInv, Fields, Sessions
<1>2. flight.sid \in Sessions
  BY DEF SessInv, Awaited
<1>3. CASE result = "ok"
  <2> DEFINE next == IF disk \notin {0, flight.sid} /\ account[disk] = account[flight.sid]
                     THEN disk ELSE flight.sid
  <2>1. Held(result) = [access |-> flight.sid, refresh |-> next]
    BY <1>3 DEF Held
  <2>2. next \in Sessions /\ account[next] = account[flight.sid]
    BY <1>1, <1>2
  <2> HIDE DEF next
  <2>3. next \in Nat /\ flight.sid \in Nat
    BY <1>1, <1>2, <2>2
  <2>4. /\ Held(result).access = flight.sid /\ Held(result).refresh = next
        /\ Held(result) \in Holder
    BY <2>1, <2>3 DEF Holder, Credential
  <2> QED BY <1>2, <1>3, <2>2, <2>4
<1>4. CASE result = "bad"
  BY <1>4 DEF Held, NoTokens, Holder, Credential
<1>5. CASE result = "failed"
  BY <1>1, <1>5 DEF Held
<1> QED BY <1>3, <1>4, <1>5

(* The answer goes to the restore that waits for it, or to the holder.     *)
LEMMA RefreshAnsweredKeeps == ASSUME SessInv, RefreshAnswered PROVE SessInv'
<1>1. /\ flight.pc = "sent" /\ UNCHANGED <<chain, owner, rows, account, left>> /\ UNCHANGED store
      /\ late' = late \cup (IF flight.shared /\ account[flight.sid] # user THEN {"refresh"} ELSE {})
                      \cup (IF RestoreOvertaken THEN {"restore"} ELSE {})
  BY DEF RefreshAnswered, store
<1>2. PICK result \in {"failed", "bad", "ok"} :
         /\ revoked' = IF result = "bad" THEN revoked \cup {flight.sid} ELSE revoked
         /\ flight' = IF result = "bad" /\ flight.shared
                      THEN [flight EXCEPT !.pc = "bad"] ELSE NoFlight
         /\ \/ \E s \in DOMAIN ops :
                  ops[s].pc = "refreshing" /\ RestoreGoesOn(s, result, Held(result))
            \/ /\ \A s \in DOMAIN ops : ops[s].pc # "refreshing"
               /\ tokens' = Held(result)
               /\ UNCHANGED <<user, committed, disk, plane, ops>>
  BY DEF RefreshAnswered
<1>3. /\ flight.sid \in Sessions /\ Growing
      /\ flight \in [pc : {"idle", "sent", "bad"}, sid : Nat, shared : BOOLEAN]
      /\ late \subseteq {"refresh", "restore", "wipe"} /\ revoked \subseteq Sessions
      /\ left' \in 0..MaxEvents
  BY <1>1, Facts, Grown DEF SessInv, Awaited, Fields
<1>4. /\ flight' \in [pc : {"idle", "sent", "bad"}, sid : Nat, shared : BOOLEAN]
      /\ flight'.pc # "sent" /\ revoked' \subseteq Sessions
      /\ late \subseteq late' /\ late' \subseteq {"refresh", "restore", "wipe"}
  <2>1. NoFlight \in [pc : {"idle", "sent", "bad"}, sid : Nat, shared : BOOLEAN] /\ NoFlight.pc = "idle"
    BY DEF NoFlight
  <2>2. /\ flight' \in [pc : {"idle", "sent", "bad"}, sid : Nat, shared : BOOLEAN]
        /\ flight'.pc # "sent"
    BY <1>2, <1>3, <2>1
  <2>3. revoked' \subseteq Sessions
    BY <1>2, <1>3
  <2>4. late \subseteq late' /\ late' \subseteq {"refresh", "restore", "wipe"}
    BY <1>1, <1>3
  <2> QED BY <2>2, <2>3, <2>4
<1>5. CASE /\ \A s \in DOMAIN ops : ops[s].pc # "refreshing"
           /\ tokens' = Held(result)
           /\ UNCHANGED <<user, committed, disk, plane, ops>>
  <2>1. user # 0 \/ "refresh" \in late'
    <3>1. flight.shared
      BY <1>1, <1>3, <1>5 DEF SessInv, Awaited
    <3>2. account[flight.sid] # 0
      <4>1. account \in Seq(Users)
        BY Facts DEF SessInv, Fields
      <4> QED BY <1>3, <4>1, UsersAssumption DEF Sessions
    <3> QED BY <1>1, <3>1, <3>2
  <2>2. TypeOK' /\ Known' /\ Chained' /\ Still' /\ Reconciled' /\ SignedOut'
    BY <1>1, <1>3, <1>4, <1>5, <2>1, HeldIs, FlightFrame
  <2>3. Awaited'
    BY <1>4, <1>5 DEF Awaited
  <2>4. Identified'
    <3>1. flight.shared
      BY <1>1, <1>3, <1>5 DEF SessInv, Awaited
    <3>2. late' \subseteq {"wipe"} => account[flight.sid] = user
      BY <1>1, <3>1
    <3>3. ASSUME user # 0, late' \subseteq {"wipe"},
                 NEW t \in {tokens'.access, tokens'.refresh} \ {0}
          PROVE  account[t] = user
      <4>1. late \subseteq {"wipe"}
        BY <1>4, <3>3
      <4>2. CASE result = "ok"
        BY <1>1, <1>5, <3>2, <3>3, <4>2, HeldIs
      <4>3. CASE result = "bad"
        BY <1>1, <1>5, <3>3, <4>3, HeldIs DEF NoTokens
      <4>4. CASE result = "failed"
        BY <1>1, <1>5, <3>3, <4>1, <4>4, HeldIs DEF SessInv, Identified
      <4> QED BY <4>2, <4>3, <4>4
    <3> QED BY <1>1, <1>5, <3>3 DEF Identified
  <2> QED BY <2>2, <2>3, <2>4 DEF SessInv
<1>6. ASSUME NEW s \in DOMAIN ops, ops[s].pc = "refreshing", RestoreGoesOn(s, result, Held(result))
      PROVE  SessInv'
  <2>1. /\ ops[s].kind = "restore" /\ flight.sid = ops[s].sid /\ ops[s].sid # 0
        /\ account[ops[s].sid] = ops[s].user /\ ops[s].user \in Users /\ ops[s].user # 0
        /\ \A n \in DOMAIN ops : ops[n].pc = "refreshing" => n = s
    <3>1. account \in Seq(Users)
      BY Facts DEF SessInv, Fields
    <3> QED BY <1>3, <1>6, <3>1, Grown, UsersAssumption DEF SessInv, Awaited, Known, Awaiting
  <2>2. PICK pc \in {"superseded", "flushing", "done"} :
           /\ OpGoes(s, pc)
           /\ pc = "superseded" <=> ~Current(s)
           /\ pc = "superseded" => tokens' = committed /\ UNCHANGED <<user, committed, disk, plane>>
           /\ pc = "flushing" => ClearLocal
           /\ pc = "done" =>
                 /\ tokens' = IF result = "ok" THEN Held(result)
                              ELSE [access |-> 0, refresh |-> ops[s].sid]
                 /\ committed' = tokens' /\ user' = ops[s].user
                 /\ plane' = TRUE /\ UNCHANGED disk
    BY <1>6 DEF RestoreGoesOn, RestoreCommitted
  <2>3. Moved(s, pc, ops[s].sid)
    BY <2>2, Moves DEF Steps
  <2>4. /\ Latest' = Latest /\ Latest > 0 /\ Latest \in DOMAIN ops
        /\ Now'.kind = Now.kind /\ Now'.user = Now.user /\ Now'.sid = Now.sid
        /\ Current(s) => Now = ops[s] /\ Now'.pc = pc
        /\ ~Current(s) => Now' = Now
    BY <2>3, Facts DEF SessInv, Moved, Current, Now
  <2>5. Current(s) =>
           /\ disk = ops[s].sid /\ ~plane /\ user = 0
           /\ late = {} => chain = <<>> /\ owner = ops[s].user
    BY <1>6, <2>1, <2>4 DEF SessInv, Still, Reconciled, InTime
  <2>6. /\ tokens' \in Holder /\ {tokens'.access, tokens'.refresh} \subseteq Sessions \cup {0}
        /\ committed' \in Holder
        /\ committed'.access \in Sessions \cup {0} /\ committed'.refresh \in Sessions \cup {0}
        /\ pc = "done" => \A t \in {tokens'.access, tokens'.refresh} \ {0} : account[t] = ops[s].user
    <3>1. /\ committed \in Holder
          /\ committed.access \in Sessions \cup {0} /\ committed.refresh \in Sessions \cup {0}
      BY Facts DEF SessInv, Known, Fields
    <3>2. CASE pc = "superseded"
      BY <2>2, <3>1, <3>2
    <3>3. CASE pc = "flushing"
      BY <2>2, <3>3 DEF ClearLocal, NoTokens, Holder, Credential
    <3>4. CASE pc = "done" /\ result = "ok"
      BY <1>1, <2>1, <2>2, <3>4, HeldIs
    <3>5. CASE pc = "done" /\ result # "ok"
      <4>1. tokens' = [access |-> 0, refresh |-> ops[s].sid] /\ committed' = tokens'
        BY <2>2, <3>5
      <4>2. ops[s].sid \in Sessions /\ ops[s].sid \in Nat
        BY <1>3, <2>1, Facts DEF SessInv
      <4>3. tokens' \in Holder /\ tokens'.access = 0 /\ tokens'.refresh = ops[s].sid
        BY <4>1, <4>2 DEF Holder, Credential
      <4> QED BY <2>1, <4>1, <4>2, <4>3
    <3> QED BY <3>2, <3>3, <3>4, <3>5
  <2>7. Known'
    <3>1. ops[s].sid \in Sessions' /\ account'[ops[s].sid] = ops[s].user
      BY <1>1, <1>3, <2>1 DEF Sessions
    <3>2. committed'.access \in Sessions' \cup {0} /\ committed'.refresh \in Sessions' \cup {0}
      BY <1>1, <2>6 DEF Sessions
    <3>3. /\ user' # 0 => disk' # 0 /\ account'[disk'] = user'
          /\ plane' => user' # 0
      <4>1. CASE pc = "superseded"
        BY <1>1, <2>2, <4>1 DEF SessInv, Known
      <4>2. CASE pc = "flushing"
        BY <2>2, <4>2 DEF ClearLocal
      <4>3. CASE pc = "done"
        BY <1>1, <2>1, <2>2, <2>5, <4>3
      <4> QED BY <4>1, <4>2, <4>3
    <3> QED BY <1>3, <2>1, <2>3, <3>1, <3>2, <3>3, KnownKept DEF Steps
  <2>8. Awaited'
    BY <1>4, <2>1, <2>3 DEF Awaited, Moved
  <2>9. Chained'
    BY <1>1, <1>6, <2>3, ChainedKept DEF Steps
  <2>10. Still' /\ Reconciled' /\ SignedOut' /\ Identified'
    <3>1. late' = {} => late = {}
      BY <1>4
    <3>2. CASE pc = "superseded"
      <4>1. Still' /\ Reconciled' /\ SignedOut'
        BY <1>1, <2>2, <2>4, <3>1, <3>2 DEF SessInv, Still, Reconciled, SignedOut, InTime
      <4>2. Identified'
        <5>1. ASSUME late' \subseteq {"wipe"}, user # 0
              PROVE  \A t \in {committed.access, committed.refresh} \ {0} : account[t] = user
          BY <1>1, <1>6, <2>2, <3>2, <5>1 DEF RestoreOvertaken
        <5> QED BY <1>1, <2>2, <3>2, <5>1 DEF Identified
      <4> QED BY <4>1, <4>2
    <3>3. CASE pc = "flushing"
      <4>1. ~plane' /\ user' = 0 /\ Now'.kind = "restore" /\ Now'.pc = "flushing"
        BY <2>1, <2>2, <2>4, <3>3 DEF ClearLocal
      <4>2. \A i \in DOMAIN chain : chain[i].seq # s
        BY <1>6 DEF SessInv, Chained
      <4>3. Still' /\ SignedOut' /\ Identified'
        BY <1>1, <2>2, <2>4, <3>3, <4>1, <4>2 DEF Still, SignedOut, Identified, Current
      <4>4. Reconciled'
        BY <1>1, <2>4, <3>1, <4>1 DEF SessInv, Reconciled, InTime
      <4> QED BY <4>3, <4>4
    <3>4. CASE pc = "done"
      <4>1. Now'.kind = "restore" /\ Now'.pc = "done" /\ user' = ops[s].user
        BY <2>1, <2>2, <2>4, <3>4
      <4>2. \A i \in DOMAIN chain : chain[i].seq # s
        BY <1>6 DEF SessInv, Chained
      <4>3. Still' /\ SignedOut' /\ Identified'
        BY <1>1, <2>2, <2>4, <2>6, <3>4, <4>1, <4>2 DEF Still, SignedOut, Identified, Current
      <4>4. Reconciled'
        BY <1>1, <2>2, <2>4, <2>5, <3>1, <3>4, <4>1 DEF SessInv, Reconciled, InTime
      <4> QED BY <4>3, <4>4
    <3> QED BY <3>2, <3>3, <3>4
  <2>11. Fields'
    <3>1. user' \in Users \cup {0} /\ disk' \in Sessions \cup {0} /\ plane' \in BOOLEAN
      BY <2>1, <2>2, Facts DEF SessInv, Fields, ClearLocal
    <3> QED BY <1>1, <1>3, <1>4, <2>6, <3>1, Facts DEF SessInv, Fields, Sessions
  <2>12. TypeOK'
    BY <1>1, <2>3, <2>9, <2>11, Facts, Typed DEF SessInv, Moved
  <2> QED BY <2>7, <2>8, <2>9, <2>10, <2>12 DEF SessInv
<1> QED BY <1>2, <1>5, <1>6

-----------------------------------------------------------------------------
(* Rows, reloads, and the theorems.                                        *)

(* Rows are stored under the account that owns the cache.                  *)
LEMMA SyncKeeps == ASSUME SessInv, Sync PROVE SessInv'
<1>1. /\ plane /\ tokens.access # 0 /\ rows' = rows \cup {account[tokens.access]}
      /\ UNCHANGED <<user, tokens, committed, disk, plane, ops, chain, owner, flight,
                     account, revoked, late, left>>
  BY DEF Sync, session, server
<1>2. user # 0
  BY <1>1 DEF SessInv, Known
<1>3. tokens.access \in Sessions /\ account[tokens.access] \in Users
  BY <1>1, Facts, Grown DEF SessInv, Fields
<1>4. Latest' = Latest /\ Now' = Now
  BY <1>1 DEF Latest, Now
<1>5. Known' /\ Awaited' /\ Chained' /\ Still' /\ Identified'
  BY <1>1, <1>4 DEF SessInv, Known, Awaited, Chained, Still, Identified, Sessions
<1>6. Reconciled'
  <2>1. late = {} =>
           /\ chain = <<>> /\ DOMAIN chain = {} /\ owner = user /\ rows \subseteq {owner} \ {0}
           /\ account[tokens.access] = user
    BY <1>1, <1>2, Facts DEF SessInv, Reconciled, Identified, InTime
  <2> QED BY <1>1, <1>2, <1>4, <2>1 DEF SessInv, Reconciled, InTime
<1>7. SignedOut'
  <2>1. Latest > 0 /\ Now.kind \in {"logout", "wipe"} =>
           /\ Now.pc \notin {"flushing", "queued", "emit", "done"}
           /\ \A i \in DOMAIN chain : chain[i].seq # Latest
    BY <1>1 DEF SessInv, SignedOut, Chained, Now
  <2> QED BY <1>1, <1>4, <2>1 DEF SignedOut
<1>8. Fields'
  BY <1>1, <1>3, Facts DEF SessInv, Fields, Sessions
<1>9. TypeOK'
  BY <1>1, <1>5, <1>8, Facts, Typed DEF SessInv
<1> QED BY <1>5, <1>6, <1>7, <1>9 DEF SessInv

(* A reload keeps the stored record and the cache only.                    *)
LEMMA BootKeeps == ASSUME SessInv, Boot PROVE SessInv'
<1> DEFINE gone == [s \in DOMAIN ops |->
                      [ops[s] EXCEPT !.pc = IF ops[s].pc \in Ended THEN ops[s].pc ELSE "gone"]]
           op == [kind |-> "restore", pc |-> IF disk # 0 THEN "queued" ELSE "done",
                  user |-> IF disk # 0 THEN account[disk] ELSE 0, sid |-> disk]
           task == [seq |-> Len(ops'), task |-> "reconcile", step |-> "start"]
<1>1. /\ left' = left - 1 /\ left > 0 /\ Latest < MaxOps
      /\ user' = 0 /\ tokens' = NoTokens /\ committed' = NoTokens /\ ~plane' /\ plane' = FALSE
      /\ flight' = NoFlight /\ ops' = Append(gone, op)
      /\ chain' = IF disk # 0 THEN <<task>> ELSE <<>>
      /\ UNCHANGED <<disk, owner, rows, account, revoked, late>>
  BY DEF Boot, Event, server
<1>2. /\ disk \in Sessions \cup {0} /\ disk \in Nat
      /\ disk # 0 => disk \in Sessions /\ account[disk] \in Users /\ account[disk] # 0
  <2>1. disk \in Sessions \cup {0} /\ account \in Seq(Users)
    BY Facts DEF SessInv, Fields
  <2>2. DOMAIN account = 1..Len(account) /\ \A t \in Sessions : account[t] \in Users
    BY <2>1, Grown
  <2> QED BY <2>1, <2>2, UsersAssumption DEF Sessions
<1>3. op \in Op
  BY <1>2 DEF Op, Kinds, Steps
<1>4. gone \in Seq(Op) /\ Len(gone) = Latest /\ \A s \in DOMAIN ops : gone[s] \in Op
  <2>1. \A s \in DOMAIN ops : ops[s] \in Op
    BY Facts, Ops DEF SessInv
  <2>2. \A s \in DOMAIN ops : gone[s] \in Op
    BY <2>1 DEF Op, Steps
  <2>3. Latest \in Nat /\ DOMAIN ops = 1..Latest
    BY Facts DEF SessInv
  <2>4. gone \in [1..Latest -> Op]
    BY <2>2, <2>3
  <2> HIDE DEF gone
  <2>5. gone \in Seq(Op)
    BY <2>3, <2>4, SeqDef
  <2> QED BY <2>2, <2>3, <2>4, <2>5, LenProperties
<1>5. \A s \in DOMAIN ops :
         /\ gone[s].pc \in {"done", "superseded", "gone"}
         /\ gone[s].kind = ops[s].kind /\ gone[s].sid = ops[s].sid /\ gone[s].user = ops[s].user
  <2>1. \A s \in DOMAIN ops : ops[s] \in Op
    BY Facts, Ops DEF SessInv
  <2> QED BY <2>1 DEF Op, Ended
<1> HIDE DEF gone
<1>6. /\ ops' \in Seq(Op) /\ Latest' = Latest + 1 /\ ops'[Latest'] = op /\ Latest' > 0
      /\ DOMAIN ops' = 1..Latest' /\ Latest' \in DOMAIN ops' /\ Latest' = Len(ops')
      /\ \A n \in DOMAIN ops' : n = Latest' \/ (n \in DOMAIN ops /\ ops'[n] = gone[n])
  <2>1. /\ ops' \in Seq(Op) /\ Len(ops') = Len(gone) + 1 /\ ops'[Len(gone) + 1] = op
        /\ \A n \in 1..Len(gone) : ops'[n] = gone[n]
    BY <1>1, <1>3, <1>4, AppendProperties
  <2>2. DOMAIN ops' = 1..Len(ops') /\ Latest \in Nat /\ DOMAIN ops = 1..Latest
    BY <2>1, Facts, LenProperties DEF SessInv
  <2> QED BY <1>4, <2>1, <2>2 DEF Latest
<1>7. Now'.kind = "restore" /\ Now'.pc = (IF disk # 0 THEN "queued" ELSE "done")
      /\ Now'.sid = disk /\ Now'.user = (IF disk # 0 THEN account[disk] ELSE 0)
  BY <1>6 DEF Now
<1>8. /\ chain' \in Seq(TaskOf(DOMAIN ops'))
      /\ disk = 0 => DOMAIN chain' = {}
      /\ disk # 0 => DOMAIN chain' = {1} /\ Len(chain') = 1 /\ chain'[1].seq = Latest'
                     /\ chain'[1].task = "reconcile" /\ chain'[1].step = "start"
  <2>1. task \in TaskOf(DOMAIN ops') /\ task.seq = Latest' /\ task.task = "reconcile"
        /\ task.step = "start"
    BY <1>6 DEF TaskOf
  <2> HIDE DEF task
  <2>2. CASE disk = 0
    BY <1>1, <2>2, EmptySeq
  <2>3. CASE disk # 0
    <3>1. chain' = <<task>>
      BY <1>1, <2>3
    <3>2. chain' \in Seq(TaskOf(DOMAIN ops')) /\ Len(chain') = 1 /\ chain'[1] = task
          /\ DOMAIN chain' = {1}
      BY <2>1, <3>1
    <3> QED BY <2>1, <2>3, <3>2
  <2> QED BY <2>2, <2>3
<1>9. Known'
  <2>1. \A n \in DOMAIN ops' :
           /\ ops'[n].sid \in Sessions \cup {0}
           /\ ops'[n].kind \in {"login", "restore"} /\ ops'[n].sid # 0 =>
                 account[ops'[n].sid] = ops'[n].user
           /\ ops'[n].pc \in Awaiting => n = Latest' /\ ops'[n].pc = "queued" /\ ops'[n].sid # 0
           /\ ops'[n].kind = "login" => ops'[n].user # 0 /\ n # Latest'
    <3>1. ASSUME NEW n \in DOMAIN ops', n # Latest'
          PROVE  /\ n \in DOMAIN ops /\ ops'[n].sid = ops[n].sid /\ ops'[n].kind = ops[n].kind
                 /\ ops'[n].user = ops[n].user /\ ops'[n].pc \notin Awaiting
      BY <1>5, <1>6, <3>1 DEF Awaiting
    <3>2. \A n \in DOMAIN ops' : n # Latest' =>
             /\ ops'[n].sid \in Sessions \cup {0}
             /\ ops'[n].kind \in {"login", "restore"} /\ ops'[n].sid # 0 =>
                   account[ops'[n].sid] = ops'[n].user
             /\ ops'[n].kind = "login" => ops'[n].user # 0
      BY <3>1 DEF SessInv, Known
    <3> QED BY <1>2, <1>7, <3>1, <3>2 DEF Now, Awaiting
  <2>2. committed'.access = 0 /\ committed'.refresh = 0 /\ Sessions' = Sessions
    BY <1>1 DEF NoTokens, Sessions
  <2> QED BY <1>1, <2>1, <2>2 DEF Known, Awaiting
<1>10. Awaited'
  <2>1. \A n \in DOMAIN ops' : ops'[n].pc # "refreshing"
    BY <1>5, <1>6, <1>7 DEF Now
  <2> QED BY <1>1, <2>1 DEF Awaited, NoFlight
<1>11. Chained'
  BY <1>5, <1>6, <1>8 DEF Chained
<1>12. Still' /\ SignedOut' /\ Identified'
  BY <1>1, <1>7 DEF Still, SignedOut, Identified
<1>13. Reconciled'
  BY <1>1, <1>7, <1>8 DEF SessInv, Reconciled, InTime
<1>14. Fields'
  <2>1. left \in 0..MaxEvents
    BY Facts DEF SessInv, Fields
  <2>2. left' \in 0..MaxEvents
    BY <1>1, <2>1, BoundAssumption
  <2> QED BY <1>1, <1>2, <2>2, Empty, Facts DEF SessInv, Fields, Sessions
<1>15. TypeOK'
  BY <1>6, <1>8, <1>11, <1>14, Typed
<1> QED BY <1>9, <1>10, <1>11, <1>12, <1>13, <1>15 DEF SessInv

-----------------------------------------------------------------------------
(* The invariant holds when the page is loaded.                            *)
LEMMA InitHolds == Init => SessInv
<1> SUFFICES ASSUME Init PROVE SessInv
  OBVIOUS
<1>1. /\ ops = <<>> /\ chain = <<>> /\ Len(ops) = 0 /\ DOMAIN ops = {} /\ DOMAIN chain = {}
      /\ ops \in Seq(Op) /\ chain \in Seq(TaskOf(DOMAIN ops))
  BY EmptySeq DEF Init
<1>2. Latest = 0
  BY <1>1 DEF Latest
<1>3. account \in Seq(Users) /\ DOMAIN account = {1}
  BY UsersAssumption DEF Init
<1>4. TypeOK
  <2>1. NoTokens \in Holder /\ NoTokens.access = 0 /\ NoTokens.refresh = 0
    BY Empty
  <2>2. NoFlight \in [pc : {"idle", "sent", "bad"}, sid : Nat, shared : BOOLEAN]
    BY Empty
  <2>3. Fields
    <3>1. /\ user = 0 /\ tokens = NoTokens /\ committed = NoTokens /\ disk = 1 /\ plane = FALSE
          /\ owner = LastUser /\ rows = {LastUser} /\ flight = NoFlight
          /\ revoked = {} /\ late = {} /\ left = MaxEvents
      BY DEF Init
    <3>2. LastUser \in Users /\ MaxEvents \in 0..MaxEvents
      BY UsersAssumption, BoundAssumption
    <3> QED BY <1>3, <2>1, <2>2, <3>1, <3>2 DEF Fields, Sessions
  <2>4. {s \in DOMAIN ops : ops[s].pc = "queued"} = {chain[i].seq : i \in DOMAIN chain}
    BY <1>1
  <2> QED BY <1>1, <2>3, <2>4 DEF TypeOK, Fields, Op, TaskOf
<1>5. Known /\ Awaited /\ Chained
  BY <1>1 DEF Init, Known, Awaited, Chained, NoTokens, NoFlight
<1>6. Still /\ Reconciled /\ Identified /\ SignedOut
  BY <1>1, <1>2, UsersAssumption DEF Init, Still, Reconciled, Identified, SignedOut, InTime
<1> QED BY <1>4, <1>5, <1>6 DEF SessInv

(* Nothing happens.                                                        *)
LEMMA StutterKeeps == ASSUME SessInv, UNCHANGED vars PROVE SessInv'
<1>1. UNCHANGED <<user, tokens, committed, disk, plane, ops, chain, owner, rows, flight,
                  account, revoked, late, left>>
  BY DEF vars, session, store, server
<1>2. Latest' = Latest /\ Now' = Now /\ Sessions' = Sessions
  BY <1>1 DEF Latest, Now, Sessions
<1>3. Known' /\ Awaited' /\ Chained'
  BY <1>1, <1>2 DEF SessInv, Known, Awaited, Chained
<1>4. Still' /\ Reconciled' /\ Identified' /\ SignedOut'
  BY <1>1, <1>2 DEF SessInv, Still, Reconciled, Identified, SignedOut, InTime
<1>5. TypeOK'
  <2>1. Fields'
    BY <1>1, <1>2, Facts DEF SessInv, Fields
  <2> QED BY <1>1, <1>3, <2>1, Facts, Typed DEF SessInv
<1> QED BY <1>3, <1>4, <1>5 DEF SessInv

(* Every step keeps the invariant.                                         *)
LEMMA StepKeeps == ASSUME SessInv, [Next]_vars PROVE SessInv'
<1>1. CASE Progress
  <2>1. ASSUME NEW s \in DOMAIN ops, OpStep(s) PROVE SessInv'
    BY <2>1, LoginAnsweredKeeps, AdoptKeeps, AdoptedKeeps, SignOutAnsweredKeeps,
       WipeFlushedKeeps, WipeEndsKeeps, RestoreKeeps DEF OpStep
  <2> QED BY <1>1, <2>1, ReconcileKeeps, WipeKeeps, RefreshAnsweredKeeps, RefusedKeeps DEF Progress
<1>2. CASE \E u \in Users : Login(u)
  BY <1>2, LoginKeeps
<1>3. CASE Logout \/ DeleteAccount \/ WipeLocalData \/ Boot \/ BackgroundRefresh \/ Sync
  BY <1>3, LogoutKeeps, DeleteAccountKeeps, WipeLocalDataKeeps, BootKeeps,
     BackgroundRefreshKeeps, SyncKeeps
<1>4. CASE UNCHANGED vars
  BY <1>4, StutterKeeps
<1> QED BY <1>1, <1>2, <1>3, <1>4 DEF Next

(* SessInv is an invariant, for all accounts and every MaxOps and          *)
(* MaxEvents.                                                              *)
THEOREM SessInvariant == Spec => []SessInv
BY InitHolds, StepKeeps, PTL DEF Spec

(* Every variable keeps its type, and the queued operations are those of   *)
(* localDataChain.                                                         *)
THEOREM TypeCorrect == Spec => []TypeOK
<1>1. SessInv => TypeOK
  BY DEF SessInv
<1> QED BY SessInvariant, <1>1, PTL

(* While the data plane of an account runs, the durable cache is marked as *)
(* its own and holds nothing of another account, unless a wipe or a        *)
(* refresh was late.                                                       *)
THEOREM CacheIsOwned == Spec => []CacheOwned
<1>1. SessInv => CacheOwned
  <2> SUFFICES ASSUME SessInv, plane, late = {} PROVE owner = user /\ rows \subseteq {user}
    BY DEF CacheOwned
  <2> QED BY DEF SessInv, Reconciled, InTime
<1> QED BY SessInvariant, <1>1, PTL

(* When everything has settled, the identity, the stored record and the    *)
(* credentials are one account's, unless a late refresh or an overtaken    *)
(* restore wrote those of another.                                         *)
THEOREM OneAccount == Spec => []OneIdentity
<1>1. SessInv => OneIdentity
  BY DEF SessInv, Known, Identified, OneIdentity
<1> QED BY SessInvariant, <1>1, PTL

(* A sign-out that completed as the latest transition leaves no identity,  *)
(* no record, no owner, no rows and no committed credential, whatever was  *)
(* late, and none in the shared holder unless a refresh was (T-423).       *)
THEOREM NothingLeftBehind == Spec => []SignedOutClean
<1>1. SessInv => SignedOutClean
  BY DEF SessInv, SignedOut, SignedOutClean, Now
<1> QED BY SessInvariant, <1>1, PTL
=============================================================================
