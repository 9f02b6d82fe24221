----------------------------- MODULE Connection -----------------------------
(***************************************************************************)
(* The route to the server: the endpoint manager (endpoints.ts) with the   *)
(* connection manager on top of it (conn_manager.ts), the refresh of        *)
(* /v1/config and the change of the server in the web shell (main.ts), and  *)
(* the native relay engine (reality_transport_controller.ts).              *)
(*                                                                         *)
(* An address is a model value, and a configuration a record that keeps     *)
(* what routing depends on.  The shell builds the connection manager over   *)
(* the wrapped fetch (main.ts:931), so a health probe counts as traffic of  *)
(* the current address.  External: the network, the signature check and    *)
(* the native bridge.  Health records are left out: they decide nothing.    *)
(***************************************************************************)
EXTENDS Naturals, Sequences, SequencesExt

CONSTANTS
    Servers,    \* addresses the user may choose
    Relays,     \* further addresses that a server may advertise
    Owner,      \* the server that answers behind an address
    Configs,    \* answers to /v1/config
    Calls,      \* connect() and recheckDirect() under way at once (a bound)
    Limit,      \* events of each kind (a bound)
    MaxEvents,  \* events in all (a bound)
    None        \* no address, no pin, no configuration

Bases == Servers \cup Relays
Transports == {"direct", "reality"}
Policies == [race : BOOLEAN, threshold : Nat \ {0}]
Lists == [list : {s \in Seq(Bases) : IsInjective(s)}, relays : SUBSET Bases]

ConfigType == [from : Servers, merged : Lists, force : Transports \cup {None}, policy : Policies]
Events == {"reach", "connect", "sync", "toggle", "save"}
ASSUME ConstantsAssumption ==
    /\ None \notin Bases /\ Owner \in [Bases -> Servers] /\ \A s \in Servers : Owner[s] = s
    /\ \A c \in Configs : \A b \in ToSet(c.merged.list) : Owner[b] = c.from
    /\ Limit \in [Events -> Nat] /\ MaxEvents \in Nat /\ Configs \subseteq ConfigType

VARIABLES
    primary, merged, auto,  \* EndpointManager: the chosen address, the advertised ones, auto-failover
    route,                  \* its idx and failures; lastSwitchReason
    policy, force,          \* policy and kill switch in force
    memory,                 \* last known-good address of this network
    call,                   \* connect() or recheckDirect() under way
    loose,                  \* probes nobody waits for
    sync,                   \* the refresh of /v1/config
    save,                   \* the change of the server: serverPort.save()
    engine,                 \* the plan the native engine runs
    build,                  \* whether the build pins a key, and has the native bridge
    up, wire,               \* addresses that answer now; a request on its way
    stray, stuck,           \* history: an answer asked for during a save was taken; a save
                            \* could not stop the engine
    used                    \* events so far

manager == <<primary, merged, auto, route>>
inForce == <<policy, force>>
calls   == <<call, loose, memory>>
native  == <<engine, build>>
world   == <<up, wire>>
history == <<stray, stuck>>
vars == <<manager, inForce, calls, sync, save, native, world, history, used>>

Unadvertised == [list |-> <<>>, relays |-> {}]
Idle == [pc |-> "idle", superseded |-> FALSE, cands |-> <<>>, i |-> 0, base |-> None,
         open |-> FALSE, sticky |-> None, other |-> "pending", otherOpen |-> FALSE]
NoSync == [pc |-> "idle", base |-> None, cfg |-> None, during |-> FALSE,
           cancelled |-> FALSE, prepared |-> FALSE]

Total == FoldFunction(+, 0, used)
Happens(e) ==
    /\ used[e] < Limit[e] /\ Total < MaxEvents
    /\ used' = [used EXCEPT ![e] = @ + 1]

-----------------------------------------------------------------------------
(* EndpointManager.                                                        *)

\* buildList(): the primary, then the advertised addresses, each once.
Listed(p, list) == <<p>> \o RemoveFirst(list, p)
List == Listed(primary, merged.list)
Allowed(b) == b \in ToSet(List)
Current == List[route.at]
TransportOf(b) == IF b \in merged.relays THEN "reality" ELSE "direct"
FirstOf(tr) == SelectInSeq(List, LAMBDA b : TransportOf(b) = tr)
Direct == IF FirstOf("direct") = 0 THEN None ELSE List[FirstOf("direct")]
IndexIn(list, b) == SelectInSeq(list, LAMBDA x : x = b)

\* selectAs(): refuses what is not a candidate, and names the reason of a change.
SelectedAny(r, b, why) ==                                            \* faulty
    [at |-> IndexIn(List, b), failures |-> 0, reason |-> why]
Selected(r, b, why) ==
    LET i == IndexIn(List, b)
    IN  IF i \in {0, r.at} THEN r ELSE [at |-> i, failures |-> 0, reason |-> why]

\* reportNetworkError().
Erred(r) ==
    IF ~auto \/ Len(List) <= 1 THEN r
    ELSE IF r.failures + 1 < policy.threshold THEN [r EXCEPT !.failures = @ + 1]
    ELSE [at |-> (r.at % Len(List)) + 1, failures |-> 0, reason |-> "failover"]

\* createEndpointFetch(): what a request to b does to the streak of the current address.
Reported(r, b) == IF b \in up THEN [r EXCEPT !.failures = 0] ELSE Erred(r)

SetAutoFailover ==
    /\ Happens("toggle")
    /\ auto' = ~auto /\ route' = [route EXCEPT !.failures = 0]
    /\ UNCHANGED <<primary, merged, inForce, calls, sync, save, native, world, history>>

\* Ordinary traffic, one request at a time.
Request ==
    /\ wire = None /\ wire' = Current
    /\ UNCHANGED <<manager, inForce, calls, sync, save, native, up, history, used>>

RequestEnds ==
    /\ wire # None /\ wire' = None
    /\ route' = Reported(route, wire)
    /\ UNCHANGED <<primary, merged, auto, inForce, calls, sync, save, native, up, history, used>>

Reach(b) ==
    /\ Happens("reach")
    /\ up' = IF b \in up THEN up \ {b} ELSE up \cup {b}
    /\ UNCHANGED <<manager, inForce, calls, sync, save, native, wire, history>>

-----------------------------------------------------------------------------
(* ConnectionManager.connect().                                            *)

Pins == force # None /\ FirstOf(force) # 0

\* The part before the first await.
Connect(c) ==
    /\ call[c] = Idle
    /\ \/ Len(List) > 1 /\ Pins
          /\ LET pinned == List[FirstOf(force)]
             IN  /\ route' = Selected(route, pinned, "kill_switch")
                 /\ loose' = [loose EXCEPT ![pinned] = @ + 1]
          /\ UNCHANGED call
       \/ Len(List) > 1 /\ ~Pins /\ auto
          /\ call' = [call EXCEPT ![c] = [Idle EXCEPT !.pc = "memory", !.cands = List, !.base = Direct]]
          /\ UNCHANGED <<route, loose>>
       \/ (Len(List) <= 1 \/ (~Pins /\ ~auto))
          /\ UNCHANGED <<route, loose, call>>

\* The page comes online, or is unlocked.
ConnectStart(c) ==
    /\ Happens("connect") /\ Connect(c)
    /\ UNCHANGED <<primary, merged, auto, inForce, memory, sync, save, native, world, history>>

NeverSuperseded(c) == FALSE                                          \* faulty
Superseded(c) == call[c].superseded
Goes(c, rec) == call' = [call EXCEPT ![c] = rec]
Probes(c, pc, b) == [call[c] EXCEPT !.pc = pc, !.base = b, !.open = Allowed(b)]

\* The next address of the walk, or the end of it.
Walk(c, i) == IF i > Len(call[c].cands) THEN Idle
              ELSE [Probes(c, "walk", call[c].cands[i]) EXCEPT !.i = i]

\* readLastGood() returns: the record may have expired, or be gone from the list.
MemoryRead(c) ==
    /\ call[c].pc = "memory"
    /\ \E sticky \in {None} \cup ({memory} \cap ToSet(List)) :
        Goes(c, IF Superseded(c) THEN Idle
                ELSE IF sticky = None THEN Walk(c, 1)
                ELSE IF policy.race /\ call[c].base \notin {None, sticky}
                THEN [Probes(c, "race", call[c].base) EXCEPT !.sticky = sticky, !.otherOpen = Allowed(sticky)]
                ELSE Probes(c, "sticky", sticky))
    /\ UNCHANGED <<manager, inForce, loose, memory, sync, save, native, world, history, used>>

\* A probe ends: a blocked one never left, any other is seen by the manager first.
Probed(b, open) == IF open THEN Reported(route, b) ELSE route
Alive(c) == call[c].open /\ call[c].base \in up

\* The probe that the call awaits ends, and a newer configuration has come.
ProbeLate(c) ==
    /\ call[c].pc \in {"race", "sticky", "walk", "recheck"} /\ Superseded(c)
    /\ route' = Probed(call[c].base, call[c].open)
    /\ Goes(c, Idle)
    /\ loose' = IF call[c].pc = "race" /\ call[c].other = "pending" /\ call[c].otherOpen
                THEN [loose EXCEPT ![call[c].sticky] = @ + 1] ELSE loose
    /\ UNCHANGED <<primary, merged, auto, inForce, memory, sync, save, native, world, history, used>>

\* It answers: the address is selected and remembered.
ProbeOk(c) ==
    /\ call[c].pc \in {"race", "sticky", "walk", "recheck"} /\ ~Superseded(c) /\ Alive(c)
    /\ route' = Selected(Probed(call[c].base, call[c].open), call[c].base, call[c].pc)
    /\ memory' = call[c].base
    /\ Goes(c, Idle)
    /\ loose' = IF call[c].pc = "race" /\ call[c].other = "pending" /\ call[c].otherOpen
                THEN [loose EXCEPT ![call[c].sticky] = @ + 1] ELSE loose
    /\ UNCHANGED <<primary, merged, auto, inForce, sync, save, native, world, history, used>>

\* It fails: the other runner of the race, the walk, the next of the walk, or none.
ProbeFails(c) ==
    /\ call[c].pc \in {"race", "sticky", "walk", "recheck"} /\ ~Superseded(c) /\ ~Alive(c)
    /\ LET seen == Probed(call[c].base, call[c].open)
           won == call[c].pc = "race" /\ call[c].other = "ok"
       IN  /\ route' = IF won THEN Selected(seen, call[c].sticky, "race") ELSE seen
           /\ memory' = IF won THEN call[c].sticky ELSE memory
           /\ Goes(c, IF won \/ call[c].pc = "recheck" THEN Idle
                      ELSE IF call[c].pc = "race" /\ call[c].other = "pending"
                      THEN [call[c] EXCEPT !.pc = "sticky", !.base = call[c].sticky, !.open = call[c].otherOpen]
                      ELSE IF call[c].pc = "walk" THEN Walk(c, call[c].i + 1)
                      ELSE Walk(c, 1))
    /\ UNCHANGED <<primary, merged, auto, inForce, loose, sync, save, native, world, history, used>>

\* The known-good runner of a race ends before the direct one.
OtherEnds(c) ==
    /\ call[c].pc = "race" /\ call[c].other = "pending"
    /\ route' = Probed(call[c].sticky, call[c].otherOpen)
    /\ Goes(c, [call[c] EXCEPT !.other = IF call[c].otherOpen /\ call[c].sticky \in up THEN "ok" ELSE "failed"])
    /\ UNCHANGED <<primary, merged, auto, inForce, loose, memory, sync, save, native, world, history, used>>

LooseEnds(b) ==
    /\ loose[b] > 0
    /\ loose' = [loose EXCEPT ![b] = @ - 1]
    /\ route' = Reported(route, b)
    /\ UNCHANGED <<primary, merged, auto, inForce, call, memory, sync, save, native, world, history, used>>

RechecksCurrent(c) == Probes(c, "recheck", Current)                  \* faulty
Rechecks(c) == Probes(c, "recheck", Direct)

\* recheckDirect(), every five minutes.
RecheckDirect(c) ==
    /\ call[c] = Idle /\ auto /\ force = None
    /\ TransportOf(Current) # "direct" /\ Direct # None
    /\ Goes(c, Rechecks(c))
    /\ UNCHANGED <<manager, inForce, loose, memory, sync, save, native, world, history, used>>

-----------------------------------------------------------------------------
(* The refresh of /v1/config: runServerConfigSync() and                     *)
(* applyConfigVerified() with prepareRealityConfig().                      *)

Asks(b) == [NoSync EXCEPT !.pc = "asked", !.base = b, !.during = save.pc # "idle"]

\* At boot and every hour, unless one is in flight; cancelServerConfigSync() goes on
\* as soon as that one ends.
SyncStart ==
    /\ sync = NoSync /\ save.pc # "cancel" /\ Happens("sync")
    /\ sync' = Asks(Current)
    /\ UNCHANGED <<manager, inForce, calls, save, native, world, history>>

\* applyUnverified(): every call under way is superseded.
Apply(c) ==
    LET at == IndexIn(Listed(primary, c.merged.list), Current)
    IN  /\ merged' = c.merged /\ policy' = c.policy /\ force' = c.force
        /\ route' = [route EXCEPT !.at = IF at = 0 THEN 1 ELSE at, !.failures = 0]
        /\ call' = [x \in Calls |-> IF call[x] = Idle THEN Idle ELSE [call[x] EXCEPT !.superseded = TRUE]]
        /\ stray' = (sync.during \/ (stray /\ c.from # primary))

\* No answer: the request is sent again to the address that is current now, or given up.
SyncLost ==
    /\ sync.pc = "asked" /\ sync.base \notin up
    /\ route' = Erred(route)
    /\ \/ sync' = NoSync
       \/ sync' = [sync EXCEPT !.base = List[route'.at]]
    /\ UNCHANGED <<primary, merged, auto, inForce, calls, save, native, world, history, used>>

\* The server answers with an error, or after the refresh was cancelled.
SyncRefused ==
    /\ sync.pc = "asked" /\ sync.base \in up
    /\ route' = [route EXCEPT !.failures = 0] /\ sync' = NoSync
    /\ UNCHANGED <<primary, merged, auto, inForce, calls, save, native, world, history, used>>

\* It answers with a configuration, which a build without a key applies at once.
SyncAnswered ==
    /\ sync.pc = "asked" /\ sync.base \in up /\ ~sync.cancelled
    /\ \E c \in Configs :
        /\ c.from = Owner[sync.base]
        /\ IF build.pinned
           THEN /\ sync' = [sync EXCEPT !.pc = "verify", !.cfg = c]
                /\ route' = [route EXCEPT !.failures = 0]
                /\ UNCHANGED <<merged, inForce, call, stray>>
           ELSE Apply(c) /\ sync' = [sync EXCEPT !.pc = "connect"]
    /\ UNCHANGED <<primary, auto, loose, memory, save, native, world, stuck, used>>

\* The plan the engine may be left with, and whether the configuration was accepted.
Left(plan, ok) == [plan |-> plan, ok |-> ok]
Prepare(m) ==
    IF m.relays = {} THEN {Left(None, TRUE)} \cup (IF engine = None THEN {} ELSE {Left(engine, FALSE)})
    ELSE IF ToSet(m.list) \subseteq m.relays \/ ~build.bridge THEN {Left(engine, FALSE)}
    ELSE IF engine = m THEN {Left(engine, TRUE)}
    ELSE {Left(m, TRUE), Left(None, FALSE), Left(engine, FALSE)}

\* The signature verifies, and the engine is changed, in turn with other work on it.
Verified ==
    /\ sync.pc = "verify" /\ ~sync.cancelled
    /\ \E p \in Prepare(sync.cfg.merged) :
        /\ engine' = p.plan /\ sync' = [sync EXCEPT !.pc = "prepare", !.prepared = p.ok]
        /\ stray' = (stray \/ sync.during)
    /\ UNCHANGED <<manager, inForce, calls, save, build, world, stuck, used>>

\* It does not, or a newer ingest has taken over.
VerifyEnds ==
    /\ sync.pc = "verify" /\ sync' = NoSync
    /\ UNCHANGED <<manager, inForce, calls, save, native, world, history, used>>

Prepared ==
    /\ sync.pc = "prepare"
    /\ IF sync.prepared /\ ~sync.cancelled
       THEN Apply(sync.cfg) /\ sync' = [sync EXCEPT !.pc = "connect"]
       ELSE sync' = NoSync /\ UNCHANGED <<merged, route, inForce, call, stray>>
    /\ UNCHANGED <<primary, auto, loose, memory, save, native, world, stuck, used>>

SyncConnect(c) ==
    /\ sync.pc = "connect" /\ sync' = NoSync
    /\ IF sync.cancelled THEN UNCHANGED <<route, loose, call>> ELSE Connect(c)
    /\ UNCHANGED <<primary, merged, auto, inForce, memory, save, native, world, history, used>>

-----------------------------------------------------------------------------
(* serverPort.save(): the user chooses another server.                     *)

SaveStart(s) ==
    /\ save.pc = "idle" /\ Happens("save")
    /\ save' = [pc |-> "cancel", to |-> s]
    /\ sync' = IF sync = NoSync THEN NoSync ELSE [sync EXCEPT !.cancelled = TRUE]
    /\ UNCHANGED <<manager, inForce, calls, native, world, history>>

\* The refresh that was cancelled has ended; the sign-out begins.
SaveQuiet ==
    /\ save.pc = "cancel" /\ sync = NoSync
    /\ save' = [save EXCEPT !.pc = "logout"]
    /\ UNCHANGED <<manager, inForce, calls, sync, native, world, history, used>>

\* The sign-out has ended, and the engine is stopped; a failure ends the save.
SaveStops ==
    /\ save.pc = "logout"
    /\ \/ save' = [save EXCEPT !.pc = "repoint"] /\ engine' = None /\ UNCHANGED stuck
       \/ save' = [save EXCEPT !.pc = "idle"] /\ engine # None /\ stuck' = TRUE /\ UNCHANGED engine
    /\ UNCHANGED <<manager, inForce, calls, sync, build, world, stray, used>>

MirrorsKept == merged                                                \* faulty
MirrorsDropped == Unadvertised

\* setPrimary(), and a refresh unless one is in flight.
SetPrimary ==
    /\ save.pc = "repoint"
    /\ primary' = save.to /\ merged' = MirrorsDropped
    /\ route' = [at |-> 1, failures |-> 0, reason |-> "primary"]
    /\ save' = [save EXCEPT !.pc = "idle"]
    /\ sync' = IF sync = NoSync THEN [Asks(primary') EXCEPT !.during = FALSE] ELSE sync
    /\ UNCHANGED <<auto, inForce, calls, native, world, stray, stuck, used>>

-----------------------------------------------------------------------------
Init ==
    /\ primary \in Servers /\ merged = Unadvertised /\ auto = TRUE
    /\ route = [at |-> 1, failures |-> 0, reason |-> None]
    /\ policy = [race |-> TRUE, threshold |-> 3] /\ force = None
    /\ memory = None /\ call = [c \in Calls |-> Idle] /\ loose = [b \in Bases |-> 0]
    /\ sync = NoSync /\ save = [pc |-> "idle", to |-> primary]
    /\ engine = None /\ build \in {b \in [pinned : BOOLEAN, bridge : BOOLEAN] : b.bridge => b.pinned}
    /\ up = Bases /\ wire = None
    /\ stray = FALSE /\ stuck = FALSE
    /\ used = [e \in Events |-> 0]

CallStep(c) == MemoryRead(c) \/ ProbeLate(c) \/ ProbeOk(c) \/ ProbeFails(c) \/ OtherEnds(c)

Next ==
    \/ SetAutoFailover \/ Request \/ RequestEnds
    \/ \E b \in Bases : Reach(b) \/ LooseEnds(b)
    \/ \E c \in Calls : ConnectStart(c) \/ CallStep(c) \/ RecheckDirect(c) \/ SyncConnect(c)
    \/ SyncStart \/ SyncLost \/ SyncRefused \/ SyncAnswered \/ Verified \/ VerifyEnds \/ Prepared
    \/ (\E s \in Servers : SaveStart(s)) \/ SaveQuiet \/ SaveStops \/ SetPrimary

Spec == Init /\ [][Next]_vars

\* Probes and reads of the store end, and the timer of recheckDirect() fires.
FairSpec == Spec /\ \A c \in Calls : WF_vars(CallStep(c)) /\ WF_vars(RecheckDirect(c))

-----------------------------------------------------------------------------
(* Properties.                                                             *)

Pcs == {"race", "sticky", "walk", "recheck"}
Reasons == {"primary", "failover", "kill_switch", None} \cup Pcs

Routes == [at : 1..Len(List), failures : Nat, reason : Reasons]

CallType == [pc : {"idle", "memory"} \cup Pcs, superseded : BOOLEAN,
             cands : Seq(Bases), i : Nat, base : Bases \cup {None}, open : BOOLEAN,
             sticky : Bases \cup {None}, other : {"pending", "ok", "failed"}, otherOpen : BOOLEAN]

SyncType == [pc : {"idle", "asked", "verify", "prepare", "connect"}, base : Bases \cup {None},
             cfg : Configs \cup {None}, during : BOOLEAN, cancelled : BOOLEAN, prepared : BOOLEAN]

TypeOK ==
    /\ primary \in Servers /\ merged \in Lists /\ auto \in BOOLEAN
    /\ route \in Routes
    /\ policy \in Policies /\ force \in Transports \cup {None}
    /\ memory \in Bases \cup {None}
    /\ call \in [Calls -> CallType] /\ loose \in [Bases -> Nat]
    /\ sync \in SyncType
    /\ save \in [pc : {"idle", "cancel", "logout", "repoint"}, to : Servers]
    /\ engine \in Lists \cup {None} /\ build \in [pinned : BOOLEAN, bridge : BOOLEAN]
    /\ up \subseteq Bases /\ wire \in Bases \cup {None}
    /\ {stray, stuck} \subseteq BOOLEAN /\ used \in [Events -> Nat]

\* Once the operator has pinned a transport and the client is on it, no probe of
\* before the pin takes it off again: only the streak of network errors does, or
\* a newer configuration or server (conn_manager.ts:337-338, 400-402, 422-423).
PinObeyed == [][
    Pins /\ TransportOf(Current) = force /\ route'.at # route.at
      /\ UNCHANGED <<force, merged, primary>> => route'.reason \in {"failover", "kill_switch"}]_vars

\* The advertised addresses come from the server the user chose, whatever refresh
\* was in flight when it was chosen (main.ts:1886, endpoints.ts:306-307), unless
\* that refresh was begun while the change was under way.
OfThisServer == ~stray => \A b \in ToSet(merged.list) : Owner[b] = primary

\* At rest the native engine is off, or routes the addresses in force, unless it
\* could not be stopped (conn_manager.ts:519-521, main.ts:1401-1403).
EngineInForce == sync.pc # "prepare" /\ save.pc = "idle" /\ ~stray /\ ~stuck => engine \in {None, merged}

ConfigInForce == OfThisServer /\ EngineInForce

\* While direct stays reachable, automatic and free of a pin, the client comes back
\* to it whatever takes it away: a race, sticky memory, or a request that left on
\* another address and whose late failure counts against direct
\* (conn_manager.ts:413-428, endpoints.ts:430-431).
Calm == auto /\ force = None /\ Direct # None /\ Direct \in up
DirectRegained == <>[]Calm => []<>(TransportOf(Current) = "direct")

-----------------------------------------------------------------------------
(* The inductive invariant.                                                *)

\* What a call is about to use is there.
Ready(q) ==
    /\ q.pc \in Pcs => q.base \in Bases
    /\ q.pc = "race" => q.sticky \in Bases
    /\ q.pc = "idle" => q = Idle

Carried == \A c \in Calls : Ready(call[c])

\* So is what a refresh is about to use.
Refreshing ==
    /\ sync.pc = "asked" => sync.base \in Bases
    /\ sync.pc \in {"verify", "prepare"} => sync.cfg \in Configs
    /\ sync.pc = "idle" => sync = NoSync

\* A refresh is cancelled while a save waits for it, and one that is in flight
\* later was begun during the save.
Cancelled ==
    /\ sync.cancelled => save.pc = "cancel"
    /\ save.pc = "cancel" => sync = NoSync \/ sync.cancelled
    /\ save.pc \in {"logout", "repoint"} => sync = NoSync \/ sync.during

\* Whoever the refresh asks, or has had an answer from, is the server in force.
AsksThisServer ==
    ~stray /\ ~sync.during /\ ~sync.cancelled =>
        /\ sync.pc = "asked" => Owner[sync.base] = primary
        /\ sync.pc \in {"verify", "prepare"} => sync.cfg.from = primary

\* What the engine runs, at each step of a refresh and of a save.
EngineKept ==
    /\ ~build.pinned => engine = None /\ sync.pc \notin {"verify", "prepare"}
    /\ sync.pc = "prepare" /\ sync.prepared => engine \in {None, sync.cfg.merged}
    /\ sync.pc = "prepare" /\ ~sync.prepared /\ save.pc = "idle" /\ ~stray /\ ~stuck
          => engine \in {None, merged}
    /\ sync.pc = "prepare" => ~sync.during \/ stray
    /\ save.pc = "repoint" /\ ~stray => engine = None

\* A call that may still take the route has nothing to take it from while the
\* transport is pinned.
NotPinned == \A c \in Calls :
    call[c] # Idle /\ ~call[c].superseded /\ Pins => merged = Unadvertised

ConnInv ==
    /\ TypeOK /\ Carried /\ Refreshing /\ Cancelled /\ AsksThisServer /\ EngineKept /\ NotPinned
    /\ OfThisServer /\ EngineInForce
=============================================================================
