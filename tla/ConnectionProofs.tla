-------------------------- MODULE ConnectionProofs --------------------------
(***************************************************************************)
(* Proofs about the route to the server, for every set of servers, relays  *)
(* and configurations and every bound: ConnInv is an invariant, and with   *)
(* it TypeOK, ConfigInForce and PinObeyed.  The list of candidates comes   *)
(* first, then what a call may become, then the refresh of the            *)
(* configuration and the change of the server.                            *)
(***************************************************************************)
EXTENDS Connection, SequenceTheorems, WellFoundedInduction, TLAPS

-----------------------------------------------------------------------------
(* The list of addresses.                                                  *)

\* A set of numbers that is not empty has a least one.
LEMMA Smallest ==
    ASSUME NEW T, T \subseteq Nat, T # {}
    PROVE  Min(T) \in T /\ \A y \in T : Min(T) <= y
<1> DEFINE R == {ss \in Nat \X Nat : ss[1] < ss[2]}
<1>1. IsWellFoundedOn(R, Nat)
  BY NatLessThanWellFounded DEF OpToRel
<1>2. \A x, y \in Nat : <<y, x>> \in R <=> y < x
  OBVIOUS
<1> HIDE DEF R
<1>3. PICK x \in T : \A y \in T : ~(<<y, x>> \in R)
  BY <1>1, WFMin
<1>4. \A y \in T : x <= y
  <2> SUFFICES ASSUME NEW y \in T PROVE x <= y
    OBVIOUS
  <2>1. x \in Nat /\ y \in Nat /\ ~(y < x)
    BY <1>2, <1>3
  <2> QED  BY <2>1
<1>5. \E z \in T : \A y \in T : z <= y
  BY <1>4
<1> QED  BY <1>5 DEF Min

\* indexOf(): the place of an address in a list, or 0.
LEMMA IndexFound ==
    ASSUME NEW S, NEW list \in Seq(S), NEW b
    PROVE  /\ IndexIn(list, b) \in 0..Len(list)
           /\ IndexIn(list, b) # 0 => list[IndexIn(list, b)] = b
           /\ b \in ToSet(list) => IndexIn(list, b) # 0
<1> DEFINE T == {i \in 1..Len(list) : list[i] = b}
<1>1. IndexIn(list, b) = IF T # {} THEN Min(T) ELSE 0
  BY DEF IndexIn, SelectInSeq
<1>2. T \subseteq Nat /\ Len(list) \in Nat
  OBVIOUS
<1>3. T # {} => Min(T) \in T
  <2> HIDE DEF T
  <2> QED  BY <1>2, Smallest
<1>4. b \in ToSet(list) => T # {}
  BY DEF ToSet
<1> QED  BY <1>1, <1>2, <1>3, <1>4

\* The first address that uses a transport, or 0.
LEMMA FirstFound ==
    ASSUME NEW tr, List \in Seq(Bases)
    PROVE  /\ FirstOf(tr) \in 0..Len(List)
           /\ FirstOf(tr) # 0 => TransportOf(List[FirstOf(tr)]) = tr
<1> DEFINE T == {i \in 1..Len(List) : TransportOf(List[i]) = tr}
<1>1. FirstOf(tr) = IF T # {} THEN Min(T) ELSE 0
  BY DEF FirstOf, SelectInSeq
<1>2. T \subseteq Nat /\ Len(List) \in Nat
  OBVIOUS
<1>3. T # {} => Min(T) \in T
  <2> HIDE DEF T
  <2> QED  BY <1>2, Smallest
<1> QED  BY <1>1, <1>2, <1>3

\* RemoveAt(): the places after k move one to the front.
LEMMA Cut ==
    ASSUME NEW S, NEW s \in Seq(S), NEW k \in 1..Len(s)
    PROVE  /\ RemoveAt(s, k) \in Seq(S)
           /\ Len(RemoveAt(s, k)) = Len(s) - 1
           /\ \A i \in 1..Len(s) - 1 : RemoveAt(s, k)[i] = IF i < k THEN s[i] ELSE s[i + 1]
<1> DEFINE u == SubSeq(s, 1, k - 1)
           v == SubSeq(s, k + 1, Len(s))
<1>0. k \in Int /\ Len(s) \in Nat /\ k <= Len(s) /\ k >= 1
  OBVIOUS
<1>1. u \in Seq(S) /\ Len(u) = k - 1 /\ \A i \in 1..k - 1 : u[i] = s[i]
  <2>1. \A i \in 1..k - 1 : s[i] \in S
    BY <1>0
  <2> QED  BY <1>0, <2>1, SubSeqProperties
<1>2. v \in Seq(S) /\ Len(v) = Len(s) - k /\ \A i \in 1..Len(s) - k : v[i] = s[k + i]
  <2>1. \A i \in k + 1..Len(s) : s[i] \in S
    BY <1>0
  <2>2. /\ v \in Seq(S) /\ Len(v) = IF k + 1 <= Len(s) THEN Len(s) - (k + 1) + 1 ELSE 0
        /\ \A i \in 1..Len(s) - (k + 1) + 1 : v[i] = s[(k + 1) + i - 1]
    BY <1>0, <2>1, SubSeqProperties
  <2> HIDE DEF v
  <2> QED  BY <1>0, <2>2
<1>3. RemoveAt(s, k) = u \o v
  BY DEF RemoveAt
<1> HIDE DEF u, v
<1>4. /\ u \o v \in Seq(S) /\ Len(u \o v) = Len(u) + Len(v)
      /\ \A i \in 1..Len(u) + Len(v) :
            (u \o v)[i] = IF i <= Len(u) THEN u[i] ELSE v[i - Len(u)]
  <2>1. u \in Seq(S) /\ v \in Seq(S)
    BY <1>1, <1>2
  <2> QED  BY <2>1, ConcatProperties
<1>5. Len(u) = k - 1 /\ Len(u) + Len(v) = Len(s) - 1
  BY <1>0, <1>1, <1>2
<1>6. \A i \in 1..Len(s) - 1 : (u \o v)[i] = IF i < k THEN s[i] ELSE s[i + 1]
  <2> SUFFICES ASSUME NEW i \in 1..Len(s) - 1
               PROVE  (u \o v)[i] = IF i < k THEN s[i] ELSE s[i + 1]
    OBVIOUS
  <2>1. (u \o v)[i] = IF i <= k - 1 THEN u[i] ELSE v[i - (k - 1)]
    BY <1>4, <1>5
  <2>2. CASE i < k  BY <2>1, <2>2, <1>0, <1>1
  <2>3. CASE i >= k
    <3>1. i - (k - 1) \in 1..Len(s) - k /\ k + (i - (k - 1)) = i + 1 /\ ~(i <= k - 1)
      BY <2>3, <1>0
    <3> QED  BY <2>1, <2>3, <3>1, <1>0, <1>2
  <2>4. i < k \/ i >= k
    BY <1>0
  <2> QED  BY <2>2, <2>3, <2>4
<1> QED  BY <1>3, <1>4, <1>5, <1>6

\* Taking an address out of a list without repetitions leaves one without it.
LEMMA TakenOut ==
    ASSUME NEW S, NEW s \in Seq(S), IsInjective(s), NEW p
    PROVE  /\ RemoveFirst(s, p) \in Seq(S)
           /\ IsInjective(RemoveFirst(s, p))
           /\ ToSet(RemoveFirst(s, p)) = ToSet(s) \ {p}
<1>1. CASE ~\E i \in 1..Len(s) : s[i] = p
  BY <1>1 DEF RemoveFirst, ToSet
<1>2. CASE \E i \in 1..Len(s) : s[i] = p
  <2>1. PICK k \in 1..Len(s) : k = IndexIn(s, p) /\ s[k] = p
    BY <1>2, IndexFound DEF ToSet
  <2>2. RemoveFirst(s, p) = RemoveAt(s, k)
    BY <1>2, <2>1 DEF RemoveFirst, IndexIn
  <2>3. PICK t \in Seq(S) :
          /\ t = RemoveAt(s, k) /\ Len(t) = Len(s) - 1
          /\ \A i \in 1..Len(t) : t[i] = IF i < k THEN s[i] ELSE s[i + 1]
    BY Cut
  <2>4. \A i, j \in 1..Len(s) : s[i] = s[j] => i = j
    BY DEF IsInjective
  <2>5. IsInjective(t)
    BY <2>3, <2>4 DEF IsInjective
  <2>6. ToSet(t) \subseteq ToSet(s) \ {p}
    BY <2>1, <2>3, <2>4 DEF ToSet
  <2>7. ToSet(s) \ {p} \subseteq ToSet(t)
    <3> SUFFICES ASSUME NEW i \in 1..Len(s), s[i] # p
                 PROVE  \E j \in 1..Len(t) : t[j] = s[i]
      BY <2>3 DEF ToSet
    <3>1. CASE i < k  BY <3>1, <2>1, <2>3
    <3>2. CASE i > k
      <4>1. i - 1 \in 1..Len(t) /\ ~(i - 1 < k) /\ (i - 1) + 1 = i
        BY <3>2, <2>1, <2>3
      <4> QED  BY <4>1, <2>3
    <3> QED  BY <2>1, <3>1, <3>2
  <2> QED  BY <2>2, <2>3, <2>5, <2>6, <2>7
<1> QED  BY <1>1, <1>2

\* buildList(): the primary comes first, and no address twice.
LEMMA ListBuilt ==
    ASSUME NEW p \in Bases, NEW list \in Seq(Bases), IsInjective(list)
    PROVE  /\ Listed(p, list) \in Seq(Bases)
           /\ Len(Listed(p, list)) \in Nat \ {0}
           /\ Listed(p, list)[1] = p
           /\ IsInjective(Listed(p, list))
           /\ ToSet(Listed(p, list)) = {p} \cup ToSet(list)
           /\ list = <<>> => Len(Listed(p, list)) = 1
<1> DEFINE r == RemoveFirst(list, p)
           l == <<p>> \o r
<1>1. r \in Seq(Bases) /\ IsInjective(r) /\ ToSet(r) = ToSet(list) \ {p}
  BY TakenOut
<1>2. list = <<>> => r = <<>>
  BY DEF RemoveFirst
<1> HIDE DEF r
<1>3. l \in Seq(Bases) /\ Len(l) = Len(r) + 1 /\ Len(r) \in Nat
  BY <1>1
<1>4. l[1] = p /\ \A i \in 2..Len(l) : l[i] = r[i - 1]
  BY <1>1, <1>3
<1>5. Listed(p, list) = l
  BY DEF Listed, r
<1> HIDE DEF l
<1>6. \A i \in 1..Len(r) : r[i] # p
  <2>1. \A i \in 1..Len(r) : r[i] \in ToSet(r)
    BY <1>1 DEF ToSet
  <2> QED  BY <2>1, <1>1
<1>7. \A i, j \in 1..Len(r) : r[i] = r[j] => i = j
  BY <1>1 DEF IsInjective
<1>8. IsInjective(l)
  <2> SUFFICES ASSUME NEW i \in 1..Len(l), NEW j \in 1..Len(l), l[i] = l[j]
               PROVE  i = j
    BY <1>3 DEF IsInjective
  <2>1. CASE i = 1 /\ j = 1  BY <2>1
  <2>2. CASE i = 1 /\ j # 1  BY <2>2, <1>3, <1>4, <1>6
  <2>3. CASE i # 1 /\ j = 1  BY <2>3, <1>3, <1>4, <1>6
  <2>4. CASE i # 1 /\ j # 1
    <3>1. i - 1 \in 1..Len(r) /\ j - 1 \in 1..Len(r) /\ r[i - 1] = r[j - 1]
      BY <2>4, <1>3, <1>4
    <3> QED  BY <3>1, <1>7
  <2> QED  BY <2>1, <2>2, <2>3, <2>4
<1>9. ToSet(l) = {p} \cup ToSet(r)
  <2>1. ToSet(l) \subseteq {p} \cup ToSet(r)
    <3> SUFFICES ASSUME NEW i \in 1..Len(l)
                 PROVE  l[i] = p \/ \E j \in 1..Len(r) : r[j] = l[i]
      BY <1>1, <1>3 DEF ToSet
    <3>1. CASE i = 1  BY <3>1, <1>4
    <3>2. CASE i # 1
      <4>1. i - 1 \in 1..Len(r) /\ l[i] = r[i - 1]
        BY <3>2, <1>3, <1>4
      <4> QED  BY <4>1
    <3> QED  BY <3>1, <3>2
  <2>2. p \in ToSet(l)
    BY <1>3, <1>4 DEF ToSet
  <2>3. ToSet(r) \subseteq ToSet(l)
    <3> SUFFICES ASSUME NEW i \in 1..Len(r)
                 PROVE  \E j \in 1..Len(l) : l[j] = r[i]
      <4>1. l \in Seq(Bases) /\ r \in Seq(Bases)
        BY <1>1, <1>3
      <4> QED  BY <4>1 DEF ToSet
    <3>1. i + 1 \in 2..Len(l) /\ l[i + 1] = r[(i + 1) - 1] /\ (i + 1) - 1 = i
      BY <1>3, <1>4
    <3> QED  BY <3>1
  <2> QED  BY <2>1, <2>2, <2>3
<1> QED  BY <1>1, <1>2, <1>3, <1>4, <1>5, <1>8, <1>9

\* What routing may assume of the candidates.
Listing(l) == l \in Seq(Bases) /\ Len(l) \in Nat \ {0} /\ IsInjective(l)

\* The candidates in force are a list of addresses without repetitions, the
\* primary among them.
LEMMA ListHere ==
    ASSUME primary \in Servers, merged \in Lists
    PROVE  /\ Listing(List) /\ List[1] = primary
           /\ ToSet(List) = {primary} \cup ToSet(merged.list)
           /\ merged = Unadvertised => Len(List) = 1
<1>1. primary \in Bases /\ merged.list \in Seq(Bases) /\ IsInjective(merged.list)
  BY DEF Bases, Lists
<1>2. merged = Unadvertised => merged.list = <<>>
  BY DEF Unadvertised
<1> QED  BY <1>1, <1>2, ListBuilt DEF List, Listing

-----------------------------------------------------------------------------
(* The route: every change leads to a candidate.                           *)

\* A place in the list holds an address.
LEMMA AtHere ==
    ASSUME Listing(List), NEW i \in 1..Len(List)
    PROVE  List[i] \in Bases
BY ElementOfSeq DEF Listing

\* selectAs() keeps the route among the candidates.
LEMMA SelectedIn ==
    ASSUME Listing(List), NEW r \in Routes, NEW b, NEW why \in Reasons
    PROVE  /\ Selected(r, b, why) \in Routes
           /\ Selected(r, b, why) = r \/ Selected(r, b, why).reason = why
<1>1. IndexIn(List, b) \in 0..Len(List)
  BY IndexFound DEF Listing
<1>2. IndexIn(List, b) \notin {0, r.at} => IndexIn(List, b) \in 1..Len(List)
  BY <1>1 DEF Listing
<1> QED  BY <1>2 DEF Selected, Routes

\* reportNetworkError() does, and names the change a failover.
LEMMA ErredIn ==
    ASSUME Listing(List), policy \in Policies, NEW r \in Routes
    PROVE  /\ Erred(r) \in Routes
           /\ Erred(r).at = r.at \/ Erred(r).reason = "failover"
<1>1. r.at \in 1..Len(List) /\ r.failures \in Nat /\ r.reason \in Reasons
  BY DEF Routes
<1>2. Len(List) > 1 => (r.at % Len(List)) + 1 \in 1..Len(List)
  BY <1>1 DEF Listing
<1>3. [r EXCEPT !.failures = @ + 1] \in Routes
  BY <1>1 DEF Routes
<1>4. Len(List) > 1 =>
        [at |-> (r.at % Len(List)) + 1, failures |-> 0, reason |-> "failover"] \in Routes
  BY <1>2 DEF Routes, Reasons
<1>5. Len(List) <= 1 \/ Len(List) > 1
  BY DEF Listing
<1> QED  BY <1>1, <1>3, <1>4, <1>5 DEF Erred, Routes

\* So does what the fetch wrapper reports.
LEMMA ReportedIn ==
    ASSUME Listing(List), policy \in Policies, NEW r \in Routes, NEW b
    PROVE  /\ Reported(r, b) \in Routes
           /\ Reported(r, b).at = r.at \/ Reported(r, b).reason = "failover"
<1>1. [r EXCEPT !.failures = 0] \in Routes
  BY DEF Routes
<1> QED  BY <1>1, ErredIn DEF Reported, Routes

\* So does a probe that ends.
LEMMA ProbedIn ==
    ASSUME Listing(List), policy \in Policies, route \in Routes, NEW b, NEW open
    PROVE  /\ Probed(b, open) \in Routes
           /\ Probed(b, open).at = route.at \/ Probed(b, open).reason = "failover"
BY ReportedIn DEF Probed

\* The direct address, if there is one, is an address.
LEMMA DirectHere ==
    ASSUME Listing(List)
    PROVE  Direct \in Bases \cup {None}
<1>1. FirstOf("direct") \in 0..Len(List)
  BY FirstFound DEF Listing
<1>2. FirstOf("direct") # 0 => List[FirstOf("direct")] \in Bases
  BY <1>1, AtHere DEF Listing
<1> QED  BY <1>2 DEF Direct

-----------------------------------------------------------------------------
(* The record of a call.                                                   *)

\* What a call may become: well typed, ready, and open to the route only if it
\* was, or if nothing is pinned.
Follows(c, q) ==
    /\ q \in CallType /\ Ready(q)
    /\ q # Idle /\ ~q.superseded => ~Pins \/ (call[c] # Idle /\ ~call[c].superseded)

\* At most one call changes, to such a record.
Moves == UNCHANGED call \/ \E c \in Calls : \E q : Follows(c, q) /\ call' = [call EXCEPT ![c] = q]

\* The record of a call that is over.
LEMMA IdleFollows ==
    ASSUME NEW c
    PROVE  Follows(c, Idle)
BY DEF Follows, CallType, Idle, Ready, Pcs

\* The invariant of a call, one by one.
LEMMA CallHere ==
    ASSUME TypeOK, Carried, NEW c \in Calls
    PROVE  call[c] \in CallType /\ Ready(call[c]) /\ Follows(c, call[c])
BY DEF TypeOK, Carried, Follows

\* A probe that goes out.
LEMMA ProbesFollow ==
    ASSUME TypeOK, Carried, NEW c \in Calls, NEW pc \in {"sticky", "recheck"}, NEW b \in Bases,
           call[c] # Idle \/ ~Pins
    PROVE  Follows(c, Probes(c, pc, b))
<1>1. call[c] \in CallType
  BY CallHere
<1>2. Allowed(b) \in BOOLEAN
  BY DEF Allowed
<1>3. Probes(c, pc, b) \in CallType
  BY <1>1, <1>2 DEF Probes, CallType, Pcs
<1>4. Probes(c, pc, b).pc = pc /\ Probes(c, pc, b).base = b
        /\ Probes(c, pc, b).superseded = call[c].superseded
  BY <1>1 DEF Probes, CallType
<1> QED  BY <1>3, <1>4 DEF Follows, Ready, Pcs

\* The next address of the walk.
LEMMA WalkFollows ==
    ASSUME TypeOK, Carried, NEW c \in Calls, NEW i \in Nat \ {0}, call[c] # Idle
    PROVE  Follows(c, Walk(c, i))
<1>1. call[c] \in CallType
  BY CallHere
<1>2. CASE i > Len(call[c].cands)
  BY <1>2, IdleFollows DEF Walk
<1>3. CASE ~(i > Len(call[c].cands))
  <2>1. call[c].cands[i] \in Bases
    <3>1. call[c].cands \in Seq(Bases)
      BY <1>1 DEF CallType
    <3> QED  BY <3>1, <1>3
  <2>2. Allowed(call[c].cands[i]) \in BOOLEAN
    BY DEF Allowed
  <2> DEFINE q == [Probes(c, "walk", call[c].cands[i]) EXCEPT !.i = i]
  <2>3. q \in CallType
    BY <1>1, <2>1, <2>2 DEF Probes, CallType, Pcs
  <2>4. q.pc = "walk" /\ q.base = call[c].cands[i] /\ q.superseded = call[c].superseded
    BY <1>1 DEF Probes, CallType
  <2>5. Walk(c, i) = q
    BY <1>3 DEF Walk
  <2> HIDE DEF q
  <2> QED  BY <2>1, <2>3, <2>4, <2>5 DEF Follows, Ready, Pcs
<1> QED  BY <1>2, <1>3

-----------------------------------------------------------------------------
(* What a step leaves alone.                                               *)

\* A step that keeps the server and what it advertises keeps the list.
LEMMA ListKept ==
    ASSUME UNCHANGED <<primary, merged>>
    PROVE  List' = List /\ Routes' = Routes
BY DEF List, Listed, Routes

\* A step that also keeps the pin keeps what it means.
LEMMA PinKept ==
    ASSUME UNCHANGED <<primary, merged, force>>
    PROVE  Pins' <=> Pins
BY ListKept DEF Pins, FirstOf, SelectInSeq, TransportOf

\* The types after such a step.
LEMMA TypeKept ==
    ASSUME TypeOK, UNCHANGED <<primary, merged, inForce>>,
           auto' \in BOOLEAN, route' \in Routes, memory' \in Bases \cup {None},
           call' \in [Calls -> CallType], loose' \in [Bases -> Nat],
           sync' \in SyncType, save' \in [pc : {"idle", "cancel", "logout", "repoint"}, to : Servers],
           engine' \in Lists \cup {None}, build' = build, up' \subseteq Bases,
           wire' \in Bases \cup {None}, stray' \in BOOLEAN, stuck' \in BOOLEAN,
           used' \in [Events -> Nat]
    PROVE  TypeOK'
BY ListKept DEF TypeOK, inForce

\* The calls after a step that changes at most one of them.
LEMMA CallsKept ==
    ASSUME TypeOK, Carried, NotPinned, UNCHANGED <<primary, merged, inForce>>, Moves
    PROVE  call' \in [Calls -> CallType] /\ Carried' /\ NotPinned'
<1>1. (Pins' <=> Pins) /\ merged' = merged
  BY PinKept DEF inForce
<1>2. CASE UNCHANGED call
  BY <1>1, <1>2 DEF TypeOK, Carried, NotPinned
<1>3. CASE \E c \in Calls : \E q : Follows(c, q) /\ call' = [call EXCEPT ![c] = q]
  <2>1. PICK c \in Calls : \E q : Follows(c, q) /\ call' = [call EXCEPT ![c] = q]
    BY <1>3
  <2>0. PICK q : Follows(c, q) /\ call' = [call EXCEPT ![c] = q]
    BY <2>1
  <2>2. call \in [Calls -> CallType] /\ q \in CallType
    BY <2>0 DEF TypeOK, Follows
  <2>3. \A d \in Calls : call'[d] = IF d = c THEN q ELSE call[d]
    BY <2>0, <2>2
  <2>4. call' \in [Calls -> CallType]
    BY <2>0, <2>2
  <2>5. Carried'
    BY <2>0, <2>3 DEF Carried, Follows
  <2>6. NotPinned'
    BY <1>1, <2>0, <2>3 DEF NotPinned, Follows
  <2> QED  BY <2>4, <2>5, <2>6
<1> QED  BY <1>2, <1>3 DEF Moves

\* The server's part after a step of a call, of a request or of the world.
LEMMA ServerKept ==
    ASSUME ConnInv, UNCHANGED <<primary, merged, sync, save, native, history>>
    PROVE  /\ Refreshing' /\ Cancelled' /\ AsksThisServer' /\ EngineKept'
           /\ OfThisServer' /\ EngineInForce'
BY DEF ConnInv, Refreshing, Cancelled, AsksThisServer, EngineKept, OfThisServer, EngineInForce,
       native, history

\* Such a step, whole.
LEMMA RouteStep ==
    ASSUME ConnInv, UNCHANGED <<primary, merged, inForce, sync, save, native, history>>,
           auto' \in BOOLEAN, route' \in Routes, memory' \in Bases \cup {None},
           loose' \in [Bases -> Nat], up' \subseteq Bases, wire' \in Bases \cup {None},
           used' \in [Events -> Nat], Moves
    PROVE  ConnInv'
<1>1. call' \in [Calls -> CallType] /\ Carried' /\ NotPinned'
  BY CallsKept DEF ConnInv
<1>2. TypeOK'
  <2>1. /\ sync' \in SyncType /\ engine' \in Lists \cup {None} /\ build' = build
        /\ save' \in [pc : {"idle", "cancel", "logout", "repoint"}, to : Servers]
        /\ stray' \in BOOLEAN /\ stuck' \in BOOLEAN /\ TypeOK
    BY DEF ConnInv, TypeOK, native, history
  <2> QED  BY <1>1, <2>1, TypeKept
<1> QED  BY <1>1, <1>2, ServerKept DEF ConnInv

\* The facts of a state that most steps need.
LEMMA Here ==
    ASSUME ConnInv
    PROVE  /\ TypeOK /\ Carried /\ Listing(List) /\ route \in Routes /\ policy \in Policies
           /\ auto \in BOOLEAN /\ memory \in Bases \cup {None} /\ loose \in [Bases -> Nat]
           /\ up \subseteq Bases /\ wire \in Bases \cup {None} /\ used \in [Events -> Nat]
           /\ call \in [Calls -> CallType]
BY ListHere DEF ConnInv, TypeOK

\* The counters stay counters.
LEMMA HappensIn ==
    ASSUME used \in [Events -> Nat], NEW e \in Events, Happens(e)
    PROVE  used' \in [Events -> Nat]
BY DEF Happens

\* So do the probes nobody waits for.
LEMMA LooseIn ==
    ASSUME loose \in [Bases -> Nat], NEW b \in Bases
    PROVE  /\ [loose EXCEPT ![b] = @ + 1] \in [Bases -> Nat]
           /\ loose[b] > 0 => [loose EXCEPT ![b] = @ - 1] \in [Bases -> Nat]
OBVIOUS

-----------------------------------------------------------------------------
(* Requests and the world.                                                 *)

\* setAutoFailover() resets the streak only.
LEMMA ToggleKeeps ==
    ASSUME ConnInv, SetAutoFailover
    PROVE  ConnInv'
<1>1. route' \in Routes
  BY Here DEF SetAutoFailover, Routes
<1>2. used' \in [Events -> Nat]
  BY Here, HappensIn DEF SetAutoFailover, Events
<1> QED  BY <1>1, <1>2, Here, RouteStep DEF SetAutoFailover, calls, world, Moves

\* A request leaves on the current address, which is a candidate.
LEMMA RequestKeeps ==
    ASSUME ConnInv, Request
    PROVE  ConnInv'
<1>1. Current \in Bases
  BY Here, AtHere DEF Current, Routes
<1> QED  BY <1>1, Here, RouteStep DEF Request, calls, manager, Moves

\* Its end is reported, whatever address it left on.
LEMMA RequestEndsKeeps ==
    ASSUME ConnInv, RequestEnds
    PROVE  ConnInv'
<1>1. route' \in Routes
  BY Here, ReportedIn DEF RequestEnds
<1> QED  BY <1>1, Here, RouteStep DEF RequestEnds, calls, Moves

\* An address comes or goes.
LEMMA ReachKeeps ==
    ASSUME ConnInv, NEW b \in Bases, Reach(b)
    PROVE  ConnInv'
<1>1. up' \subseteq Bases
  BY Here DEF Reach
<1>2. used' \in [Events -> Nat]
  BY Here, HappensIn DEF Reach, Events
<1> QED  BY <1>1, <1>2, Here, RouteStep DEF Reach, calls, manager, Moves

\* A probe nobody waits for ends.
LEMMA LooseEndsKeeps ==
    ASSUME ConnInv, NEW b \in Bases, LooseEnds(b)
    PROVE  ConnInv'
<1>1. route' \in Routes
  BY Here, ReportedIn DEF LooseEnds
<1>2. loose' \in [Bases -> Nat]
  BY Here, LooseIn DEF LooseEnds
<1> QED  BY <1>1, <1>2, Here, RouteStep DEF LooseEnds, world, Moves

-----------------------------------------------------------------------------
(* connect() and recheckDirect().                                          *)

\* The part of connect() before its first await: it pins, or begins a call.
LEMMA ConnectDoes ==
    ASSUME ConnInv, NEW c \in Calls, Connect(c)
    PROVE  /\ route' \in Routes
           /\ route'.at = route.at \/ route'.reason = "kill_switch"
           /\ loose' \in [Bases -> Nat]
           /\ Moves
<1>1. CASE Len(List) > 1 /\ Pins /\ UNCHANGED call
           /\ route' = Selected(route, List[FirstOf(force)], "kill_switch")
           /\ loose' = [loose EXCEPT ![List[FirstOf(force)]] = @ + 1]
  <2>1. FirstOf(force) \in 1..Len(List)
    BY <1>1, Here, FirstFound DEF Pins, Listing
  <2>2. List[FirstOf(force)] \in Bases
    BY <2>1, Here, AtHere
  <2>3. loose' \in [Bases -> Nat]
    BY <1>1, <2>2, Here, LooseIn
  <2>4. /\ route' \in Routes
        /\ route' = route \/ route'.reason = "kill_switch"
    BY <1>1, Here, SelectedIn DEF Reasons
  <2> QED  BY <1>1, <2>3, <2>4 DEF Moves
<1>2. CASE /\ ~Pins /\ UNCHANGED <<route, loose>>
           /\ call' = [call EXCEPT ![c] = [Idle EXCEPT !.pc = "memory", !.cands = List, !.base = Direct]]
  <2> DEFINE q == [Idle EXCEPT !.pc = "memory", !.cands = List, !.base = Direct]
  <2>1. q \in CallType /\ q.pc = "memory"
    BY Here, DirectHere DEF Idle, CallType, Pcs, Listing
  <2>2. Follows(c, q)
    BY <1>2, <2>1 DEF Follows, Ready, Pcs
  <2>3. call' = [call EXCEPT ![c] = q]
    BY <1>2
  <2> HIDE DEF q
  <2> QED  BY <1>2, <2>2, <2>3, Here DEF Moves
<1>3. CASE UNCHANGED <<route, loose, call>>
  BY <1>3, Here DEF Moves
<1> QED  BY <1>1, <1>2, <1>3 DEF Connect

\* connect(), when the page comes online.
LEMMA ConnectStartKeeps ==
    ASSUME ConnInv, NEW c \in Calls, ConnectStart(c)
    PROVE  ConnInv'
<1>1. used' \in [Events -> Nat]
  BY Here, HappensIn DEF ConnectStart, Events
<1>0. Connect(c)
  BY DEF ConnectStart
<1>2. /\ route' \in Routes /\ loose' \in [Bases -> Nat]
      /\ Moves
  BY <1>0, ConnectDoes
<1> QED  BY <1>1, <1>2, Here, RouteStep DEF ConnectStart, world

\* A call whose answers still count while it waits for the store, or a probe.
LEMMA MemoryReadKeeps ==
    ASSUME ConnInv, NEW c \in Calls, MemoryRead(c)
    PROVE  ConnInv'
<1>0. call[c] \in CallType /\ call[c] # Idle /\ call[c].pc = "memory"
  BY Here DEF MemoryRead, Idle
<1>1. PICK sticky \in {None} \cup ({memory} \cap ToSet(List)) :
        Goes(c, IF Superseded(c) THEN Idle
                ELSE IF sticky = None THEN Walk(c, 1)
                ELSE IF policy.race /\ call[c].base \notin {None, sticky}
                THEN [Probes(c, "race", call[c].base) EXCEPT !.sticky = sticky, !.otherOpen = Allowed(sticky)]
                ELSE Probes(c, "sticky", sticky))
  BY DEF MemoryRead
<1>2. sticky # None => sticky \in Bases
  BY <1>1, Here
<1> DEFINE race == [Probes(c, "race", call[c].base) EXCEPT !.sticky = sticky, !.otherOpen = Allowed(sticky)]
<1>3. sticky # None /\ call[c].base # None => Follows(c, race)
  <2> SUFFICES ASSUME sticky # None, call[c].base # None PROVE Follows(c, race)
    OBVIOUS
  <2>1. call[c].base \in Bases
    BY <1>0 DEF CallType
  <2>2. Allowed(call[c].base) \in BOOLEAN /\ Allowed(sticky) \in BOOLEAN
    BY DEF Allowed
  <2>3. race \in CallType
    BY <1>0, <1>2, <2>1, <2>2 DEF Probes, CallType, Pcs
  <2>4. race.pc = "race" /\ race.base = call[c].base /\ race.sticky = sticky
          /\ race.superseded = call[c].superseded
    BY <1>0 DEF Probes, CallType
  <2> HIDE DEF race
  <2> QED  BY <1>0, <1>2, <2>1, <2>3, <2>4 DEF Follows, Ready, Pcs
<1>4. sticky # None => Follows(c, Probes(c, "sticky", sticky))
  BY <1>0, <1>2, Here, ProbesFollow
<1>5. Follows(c, Walk(c, 1)) /\ Follows(c, Idle)
  BY <1>0, Here, WalkFollows, IdleFollows
<1> HIDE DEF race
<1>6. \E q : Follows(c, q) /\ call' = [call EXCEPT ![c] = q]
  BY <1>1, <1>3, <1>4, <1>5 DEF Goes, race
<1> QED  BY <1>6, Here, RouteStep DEF MemoryRead, manager, world, Moves

\* The probe that a race leaves behind.
LEMMA LeftBehind ==
    ASSUME ConnInv, NEW c \in Calls,
           loose' = IF call[c].pc = "race" /\ call[c].other = "pending" /\ call[c].otherOpen
                    THEN [loose EXCEPT ![call[c].sticky] = @ + 1] ELSE loose
    PROVE  loose' \in [Bases -> Nat]
<1>1. call[c].pc = "race" => call[c].sticky \in Bases
  BY Here DEF Carried, Ready
<1> QED  BY <1>1, Here, LooseIn

\* A superseded call ends without a say in the route.
LEMMA ProbeLateKeeps ==
    ASSUME ConnInv, NEW c \in Calls, ProbeLate(c)
    PROVE  ConnInv'
<1>1. route' \in Routes
  BY Here, ProbedIn DEF ProbeLate
<1>2. loose' \in [Bases -> Nat]
  BY LeftBehind DEF ProbeLate
<1>3. Follows(c, Idle) /\ call' = [call EXCEPT ![c] = Idle]
  BY IdleFollows DEF ProbeLate, Goes
<1> QED  BY <1>1, <1>2, <1>3, Here, RouteStep DEF ProbeLate, world, Moves

\* An answer selects its address if that is still a candidate.
LEMMA ProbeOkKeeps ==
    ASSUME ConnInv, NEW c \in Calls, ProbeOk(c)
    PROVE  ConnInv'
<1>1. route' \in Routes
  BY Here, ProbedIn, SelectedIn DEF ProbeOk, Reasons, Pcs
<1>2. loose' \in [Bases -> Nat]
  BY LeftBehind DEF ProbeOk
<1>3. Follows(c, Idle) /\ call' = [call EXCEPT ![c] = Idle]
  BY IdleFollows DEF ProbeOk, Goes
<1>4. memory' \in Bases \cup {None}
  BY Here DEF ProbeOk, CallType
<1> QED  BY <1>1, <1>2, <1>3, <1>4, Here, RouteStep DEF ProbeOk, world, Moves

\* A failure goes on to the next address, or ends the call.
LEMMA ProbeFailsKeeps ==
    ASSUME ConnInv, NEW c \in Calls, ProbeFails(c)
    PROVE  ConnInv'
<1> DEFINE won == call[c].pc = "race" /\ call[c].other = "ok"
           next == IF won \/ call[c].pc = "recheck" THEN Idle
                   ELSE IF call[c].pc = "race" /\ call[c].other = "pending"
                   THEN [call[c] EXCEPT !.pc = "sticky", !.base = call[c].sticky, !.open = call[c].otherOpen]
                   ELSE IF call[c].pc = "walk" THEN Walk(c, call[c].i + 1)
                   ELSE Walk(c, 1)
<1>0. call[c] \in CallType /\ call[c] # Idle /\ (call[c].pc = "race" => call[c].sticky \in Bases)
  BY Here DEF ProbeFails, Idle, Carried, Ready
<1>1. route' \in Routes
  BY Here, ProbedIn, SelectedIn DEF ProbeFails, Reasons, Pcs
<1>2. memory' \in Bases \cup {None}
  BY <1>0, Here DEF ProbeFails
<1>3. Follows(c, Walk(c, 1)) /\ Follows(c, Idle)
  BY <1>0, Here, WalkFollows, IdleFollows
<1>4. Follows(c, Walk(c, call[c].i + 1))
  <2>1. call[c].i + 1 \in Nat \ {0}
    BY <1>0 DEF CallType
  <2> QED  BY <1>0, <2>1, Here, WalkFollows
<1>5. call[c].pc = "race" =>
        Follows(c, [call[c] EXCEPT !.pc = "sticky", !.base = call[c].sticky, !.open = call[c].otherOpen])
  <2> DEFINE q == [call[c] EXCEPT !.pc = "sticky", !.base = call[c].sticky, !.open = call[c].otherOpen]
  <2> SUFFICES ASSUME call[c].pc = "race" PROVE Follows(c, q)
    OBVIOUS
  <2>1. q \in CallType
    BY <1>0 DEF CallType, Pcs
  <2>2. q.pc = "sticky" /\ q.base = call[c].sticky /\ q.superseded = call[c].superseded
    BY <1>0 DEF CallType
  <2> HIDE DEF q
  <2> QED  BY <1>0, <2>1, <2>2 DEF Follows, Ready, Pcs
<1>6. Follows(c, next)
  BY <1>3, <1>4, <1>5
<1>7. call' = [call EXCEPT ![c] = next]
  BY DEF ProbeFails, Goes
<1> HIDE DEF next
<1> QED  BY <1>1, <1>2, <1>6, <1>7, Here, RouteStep DEF ProbeFails, world, Moves

\* The known-good runner of a race ends first.
LEMMA OtherEndsKeeps ==
    ASSUME ConnInv, NEW c \in Calls, OtherEnds(c)
    PROVE  ConnInv'
<1> DEFINE q == [call[c] EXCEPT !.other = IF call[c].otherOpen /\ call[c].sticky \in up THEN "ok" ELSE "failed"]
<1>0. call[c] \in CallType /\ Ready(call[c]) /\ call[c].pc = "race" /\ call[c] # Idle
  BY Here DEF OtherEnds, Idle, Carried
<1>1. route' \in Routes
  BY Here, ProbedIn DEF OtherEnds
<1>2. q \in CallType
  BY <1>0 DEF CallType
<1>3. q.pc = "race" /\ q.base = call[c].base /\ q.sticky = call[c].sticky /\ q.superseded = call[c].superseded
  BY <1>0 DEF CallType
<1>4. call' = [call EXCEPT ![c] = q]
  BY DEF OtherEnds, Goes
<1> HIDE DEF q
<1>5. Follows(c, q)
  BY <1>0, <1>2, <1>3 DEF Follows, Ready, Pcs
<1> QED  BY <1>1, <1>4, <1>5, Here, RouteStep DEF OtherEnds, world, Moves

\* recheckDirect() begins only while nothing is pinned.
LEMMA RecheckDirectKeeps ==
    ASSUME ConnInv, NEW c \in Calls, RecheckDirect(c)
    PROVE  ConnInv'
<1>1. Direct \in Bases /\ ~Pins
  BY Here, DirectHere DEF RecheckDirect, Pins
<1>2. Follows(c, Probes(c, "recheck", Direct))
  BY <1>1, Here, ProbesFollow
<1>3. call' = [call EXCEPT ![c] = Probes(c, "recheck", Direct)]
  BY DEF RecheckDirect, Goes, Rechecks
<1> QED  BY <1>2, <1>3, Here, RouteStep DEF RecheckDirect, manager, world, Moves

\* Every step of a call under way.
LEMMA CallStepKeeps ==
    ASSUME ConnInv, NEW c \in Calls, CallStep(c)
    PROVE  ConnInv'
BY MemoryReadKeeps, ProbeLateKeeps, ProbeOkKeeps, ProbeFailsKeeps, OtherEndsKeeps DEF CallStep

-----------------------------------------------------------------------------
(* The refresh of /v1/config.                                              *)

\* The record of the change of the server.
SaveType == [pc : {"idle", "cancel", "logout", "repoint"}, to : Servers]

\* The records of the refresh, of the save and of the engine.
LEMMA RefreshHere ==
    ASSUME ConnInv
    PROVE  /\ sync \in SyncType /\ save \in SaveType /\ engine \in Lists \cup {None}
           /\ stray \in BOOLEAN /\ stuck \in BOOLEAN /\ primary \in Servers /\ merged \in Lists
           /\ build \in [pinned : BOOLEAN, bridge : BOOLEAN]
BY DEF ConnInv, TypeOK, SaveType

\* The refresh that is not there.
LEMMA NoSyncHere ==
    /\ NoSync \in SyncType /\ NoSync.pc = "idle" /\ ~NoSync.during /\ ~NoSync.cancelled
BY DEF NoSync, SyncType

\* The refresh that has just asked.
LEMMA AsksHere ==
    ASSUME NEW b \in Bases
    PROVE  /\ Asks(b) \in SyncType /\ Asks(b).pc = "asked" /\ Asks(b).base = b
           /\ Asks(b).during = (save.pc # "idle") /\ Asks(b).cancelled = FALSE
BY DEF Asks, NoSync, SyncType

\* Unless a stray answer was taken, the server in force answers for every candidate.
LEMMA OwnedHere ==
    ASSUME ConnInv, ~stray, NEW i \in 1..Len(List)
    PROVE  Owner[List[i]] = primary
<1>1. /\ Listing(List) /\ ToSet(List) = {primary} \cup ToSet(merged.list)
      /\ primary \in Servers
  BY RefreshHere, ListHere
<1>2. List[i] \in ToSet(List)
  BY <1>1 DEF ToSet, Listing
<1>3. List[i] = primary \/ List[i] \in ToSet(merged.list)
  BY <1>1, <1>2
<1> QED  BY <1>1, <1>3, ConstantsAssumption DEF ConnInv, OfThisServer

\* A step of the refresh or of the save that changes no configuration: the calls' part.
LEMMA RefreshStep ==
    ASSUME ConnInv, UNCHANGED <<primary, merged, auto, inForce, call, loose, memory, build, world>>,
           route' \in Routes, sync' \in SyncType, save' \in SaveType,
           engine' \in Lists \cup {None}, stray' \in BOOLEAN, stuck' \in BOOLEAN,
           used' \in [Events -> Nat]
    PROVE  TypeOK' /\ Carried' /\ NotPinned'
<1>1. call' \in [Calls -> CallType] /\ Carried' /\ NotPinned'
  BY CallsKept DEF ConnInv, Moves
<1>2. TypeOK /\ memory' \in Bases \cup {None} /\ loose' \in [Bases -> Nat] /\ up' \subseteq Bases
        /\ wire' \in Bases \cup {None} /\ auto' \in BOOLEAN
  BY DEF ConnInv, TypeOK, world
<1> QED  BY <1>1, <1>2, TypeKept DEF SaveType

\* A refresh asks the current address, which is the server's unless a stray answer was taken.
LEMMA SyncStartKeeps ==
    ASSUME ConnInv, SyncStart
    PROVE  ConnInv'
<1>1. Current \in Bases /\ (~stray => Owner[Current] = primary)
  BY Here, AtHere, OwnedHere DEF Current, Routes
<1>2. /\ sync' \in SyncType /\ sync'.pc = "asked" /\ sync'.base = Current
      /\ sync'.during = (save.pc # "idle") /\ sync'.cancelled = FALSE
  BY <1>1, AsksHere DEF SyncStart
<1>3. used' \in [Events -> Nat]
  BY Here, HappensIn DEF SyncStart, Events
<1>4. TypeOK' /\ Carried' /\ NotPinned'
  BY <1>2, <1>3, Here, RefreshHere, RefreshStep DEF SyncStart, manager, calls, native, history
<1>5. /\ save.pc # "cancel" /\ sync.pc = "idle"
      /\ UNCHANGED <<primary, merged, save, engine, build, stray, stuck>>
  BY NoSyncHere DEF SyncStart, manager, native, history
<1>6. Refreshing' /\ Cancelled' /\ AsksThisServer'
  BY <1>1, <1>2, <1>5, RefreshHere DEF ConnInv, Refreshing, Cancelled, AsksThisServer, SaveType
<1>7. EngineKept' /\ OfThisServer' /\ EngineInForce'
  BY <1>2, <1>5 DEF ConnInv, EngineKept, OfThisServer, EngineInForce
<1> QED  BY <1>4, <1>6, <1>7 DEF ConnInv

\* Without an answer it may ask the next address, which is the server's as well.
LEMMA SyncLostKeeps ==
    ASSUME ConnInv, SyncLost
    PROVE  ConnInv'
<1>1. route' \in Routes
  BY Here, ErredIn DEF SyncLost
<1>2. List' = List /\ List[route'.at] \in Bases /\ (~stray => Owner[List[route'.at]] = primary)
  BY <1>1, Here, AtHere, OwnedHere, ListKept DEF Routes, SyncLost
<1>3. UNCHANGED <<primary, merged, save, engine, build, stray, stuck>> /\ sync.pc = "asked"
  BY DEF SyncLost, native, history
<1>4. CASE sync' = NoSync
  <2>1. TypeOK' /\ Carried' /\ NotPinned'
    BY <1>1, <1>4, Here, RefreshHere, NoSyncHere, RefreshStep DEF SyncLost, calls, native, history, world
  <2>2. Refreshing' /\ Cancelled' /\ AsksThisServer' /\ EngineKept' /\ OfThisServer' /\ EngineInForce'
    BY <1>3, <1>4, NoSyncHere
       DEF ConnInv, Refreshing, Cancelled, AsksThisServer, EngineKept, OfThisServer, EngineInForce
  <2> QED  BY <2>1, <2>2 DEF ConnInv
<1>5. CASE sync' = [sync EXCEPT !.base = List[route'.at]]
  <2>1. /\ sync' \in SyncType /\ sync'.pc = "asked" /\ sync'.base = List[route'.at]
        /\ sync'.during = sync.during /\ sync'.cancelled = sync.cancelled
    BY <1>2, <1>3, <1>5, RefreshHere DEF SyncType
  <2>2. TypeOK' /\ Carried' /\ NotPinned'
    BY <1>1, <2>1, Here, RefreshHere, RefreshStep DEF SyncLost, calls, native, history, world
  <2>3. Refreshing' /\ Cancelled' /\ AsksThisServer'
    BY <1>2, <1>3, <2>1, NoSyncHere DEF ConnInv, Refreshing, Cancelled, AsksThisServer
  <2>4. EngineKept' /\ OfThisServer' /\ EngineInForce'
    BY <1>3, <2>1 DEF ConnInv, EngineKept, OfThisServer, EngineInForce
  <2> QED  BY <2>2, <2>3, <2>4 DEF ConnInv
<1>6. sync' = NoSync \/ sync' = [sync EXCEPT !.base = List[route'.at]]
  BY <1>2 DEF SyncLost
<1> QED  BY <1>4, <1>5, <1>6

\* A refresh that ends with nothing.
LEMMA SyncOver ==
    ASSUME ConnInv, sync' = NoSync, sync.pc # "prepare",
           UNCHANGED <<primary, merged, save, native, history>>
    PROVE  /\ Refreshing' /\ Cancelled' /\ AsksThisServer' /\ EngineKept'
           /\ OfThisServer' /\ EngineInForce'
BY NoSyncHere DEF ConnInv, Refreshing, Cancelled, AsksThisServer, EngineKept, OfThisServer,
                  EngineInForce, native, history

\* An answer that is refused changes nothing.
LEMMA SyncRefusedKeeps ==
    ASSUME ConnInv, SyncRefused
    PROVE  ConnInv'
<1>1. route' \in Routes
  BY Here DEF SyncRefused, Routes
<1>2. TypeOK' /\ Carried' /\ NotPinned'
  BY <1>1, Here, RefreshHere, NoSyncHere, RefreshStep DEF SyncRefused, calls, native, history
<1> QED  BY <1>2, SyncOver DEF SyncRefused, ConnInv

\* Nor does a configuration whose signature does not verify.
LEMMA VerifyEndsKeeps ==
    ASSUME ConnInv, VerifyEnds
    PROVE  ConnInv'
<1>1. TypeOK' /\ Carried' /\ NotPinned'
  BY Here, RefreshHere, NoSyncHere, RefreshStep DEF VerifyEnds, calls, native, history, manager
<1> QED  BY <1>1, SyncOver DEF VerifyEnds, ConnInv, manager

-----------------------------------------------------------------------------
(* A configuration is applied.                                             *)

\* The list that comes into force.
LEMMA ListNext ==
    ASSUME primary' \in Servers, merged' \in Lists
    PROVE  Listing(List')
<1>1. primary' \in Bases /\ merged'.list \in Seq(Bases) /\ IsInjective(merged'.list)
  BY DEF Bases, Lists
<1> QED  BY <1>1, ListBuilt DEF List, Listing

\* What a configuration carries.
LEMMA ConfigHere ==
    ASSUME NEW c \in Configs
    PROVE  /\ c.from \in Servers /\ c.merged \in Lists /\ c.force \in Transports \cup {None}
           /\ c.policy \in Policies /\ \A b \in ToSet(c.merged.list) : Owner[b] = c.from
BY ConstantsAssumption DEF ConfigType

\* applyUnverified(): the route keeps its address if that is still a candidate, and
\* every call under way is superseded.
LEMMA ApplyDoes ==
    ASSUME ConnInv, NEW c \in Configs, Apply(c), primary' = primary
    PROVE  /\ route' \in Routes'
           /\ call' \in [Calls -> CallType] /\ Carried' /\ NotPinned'
<1>1. /\ merged' = c.merged /\ policy' = c.policy /\ force' = c.force
      /\ call' = [x \in Calls |-> IF call[x] = Idle THEN Idle ELSE [call[x] EXCEPT !.superseded = TRUE]]
  BY DEF Apply
<1>2. route' \in Routes'
  <2> DEFINE at == IndexIn(Listed(primary, c.merged.list), Current)
  <2>1. List' = Listed(primary, c.merged.list) /\ Listing(List')
    <3>1. List' = Listed(primary, c.merged.list)
      BY <1>1 DEF List
    <3>2. primary' \in Servers /\ merged' \in Lists
      BY <1>1, RefreshHere, ConfigHere
    <3> QED  BY <3>1, <3>2, ListNext
  <2>2. at \in 0..Len(List')
    BY <2>1, IndexFound DEF Listing
  <2>3. route' = [route EXCEPT !.at = IF at = 0 THEN 1 ELSE at, !.failures = 0]
    BY DEF Apply
  <2> HIDE DEF at
  <2>4. (IF at = 0 THEN 1 ELSE at) \in 1..Len(List')
    BY <2>1, <2>2 DEF Listing
  <2>5. Routes' = [at : 1..Len(List'), failures : Nat, reason : Reasons]
    BY DEF Routes
  <2> QED  BY <2>3, <2>4, <2>5, Here DEF Routes
<1>3. ASSUME NEW x \in Calls
      PROVE  /\ call'[x] \in CallType /\ Ready(call'[x])
             /\ call'[x] = Idle \/ call'[x].superseded
  <2>1. call[x] \in CallType /\ Ready(call[x])
    BY Here DEF Carried
  <2>2. CASE call[x] = Idle
    BY <1>1, <2>1, <2>2
  <2>3. CASE call[x] # Idle
    <3> DEFINE q == [call[x] EXCEPT !.superseded = TRUE]
    <3>1. q \in CallType /\ q.superseded /\ q.pc = call[x].pc /\ q.base = call[x].base
            /\ q.sticky = call[x].sticky
      BY <2>1 DEF CallType
    <3>2. call'[x] = q
      BY <1>1, <2>3
    <3>3. call[x].pc # "idle"
      BY <2>1, <2>3 DEF Ready
    <3> HIDE DEF q
    <3> QED  BY <2>1, <3>1, <3>2, <3>3 DEF Ready
  <2> QED  BY <2>2, <2>3
<1>4. call' \in [Calls -> CallType]
  <2>1. DOMAIN call' = Calls /\ call' = [x \in Calls |-> call'[x]]
    BY <1>1
  <2> QED  BY <1>3, <2>1
<1>5. Carried' /\ NotPinned'
  BY <1>3 DEF Carried, NotPinned
<1> QED  BY <1>2, <1>4, <1>5

\* The whole step, when the configuration is of the server in force, or is marked
\* as one that may not be, and the engine runs what it names or nothing.
LEMMA ApplyKeeps ==
    ASSUME ConnInv, NEW c \in Configs, Apply(c),
           UNCHANGED <<primary, auto, loose, memory, save, native, world, stuck, used>>,
           sync.pc \in {"asked", "prepare"}, sync' = [sync EXCEPT !.pc = "connect"],
           ~stray /\ ~sync.during => c.from = primary,
           engine \in {None, c.merged}, ~build.pinned => engine = None
    PROVE  ConnInv'
<1>1. /\ merged' = c.merged /\ policy' = c.policy /\ force' = c.force
      /\ stray' = (sync.during \/ (stray /\ c.from # primary))
      /\ UNCHANGED <<primary, auto, loose, memory, save, engine, build, up, wire, stuck, used>>
  BY DEF Apply, native, world
<1>2. /\ route' \in Routes' /\ call' \in [Calls -> CallType] /\ Carried' /\ NotPinned'
  BY <1>1, ApplyDoes
<1>3. /\ sync' \in SyncType /\ sync'.pc = "connect" /\ sync'.during = sync.during
      /\ sync'.cancelled = sync.cancelled /\ sync.pc # "idle"
  BY RefreshHere DEF SyncType
<1>4. stray' \in BOOLEAN /\ (~stray' => ~sync.during /\ c.from = primary)
  <2>1. sync.during \in BOOLEAN
    BY RefreshHere DEF SyncType
  <2> QED  BY <1>1, <2>1, RefreshHere
<1>5. TypeOK'
  BY <1>1, <1>2, <1>3, <1>4, ConfigHere DEF ConnInv, TypeOK
<1>6. Refreshing' /\ Cancelled' /\ AsksThisServer'
  <2>1. sync # NoSync
    BY <1>3, NoSyncHere
  <2> QED  BY <1>1, <1>3, <2>1 DEF ConnInv, Refreshing, Cancelled, AsksThisServer
<1>7. OfThisServer'
  BY <1>1, <1>4, ConfigHere DEF OfThisServer
<1>8. EngineKept'
  <2>1. save.pc = "repoint" /\ ~stray' => engine = None
    <3> SUFFICES ASSUME save.pc = "repoint", ~stray' PROVE engine = None
      OBVIOUS
    <3>1. sync # NoSync /\ ~sync.during
      BY <1>3, <1>4, NoSyncHere
    <3> QED  BY <3>1 DEF ConnInv, Cancelled
  <2> QED  BY <1>1, <1>3, <2>1 DEF EngineKept
<1>9. EngineInForce'
  BY <1>1 DEF EngineInForce
<1> QED  BY <1>2, <1>5, <1>6, <1>7, <1>8, <1>9 DEF ConnInv

\* The answer: applied at once by a build without a key, checked by the others.
LEMMA SyncAnsweredKeeps ==
    ASSUME ConnInv, SyncAnswered
    PROVE  ConnInv'
<1>1. PICK c \in Configs :
        /\ c.from = Owner[sync.base]
        /\ IF build.pinned
           THEN /\ sync' = [sync EXCEPT !.pc = "verify", !.cfg = c]
                /\ route' = [route EXCEPT !.failures = 0]
                /\ UNCHANGED <<merged, inForce, call, stray>>
           ELSE Apply(c) /\ sync' = [sync EXCEPT !.pc = "connect"]
  BY DEF SyncAnswered
<1>2. /\ sync.pc = "asked" /\ ~sync.cancelled
      /\ UNCHANGED <<primary, auto, loose, memory, save, native, world, stuck, used>>
  BY DEF SyncAnswered
<1>3. ~stray /\ ~sync.during => c.from = primary
  BY <1>1, <1>2 DEF ConnInv, AsksThisServer
<1>4. CASE build.pinned
  <2>0. sync' = [sync EXCEPT !.pc = "verify", !.cfg = c] /\ route' = [route EXCEPT !.failures = 0]
    BY <1>1, <1>4
  <2>1. /\ sync' \in SyncType /\ sync'.pc = "verify" /\ sync'.cfg = c
        /\ sync'.during = sync.during /\ sync'.cancelled = sync.cancelled
    BY <2>0, RefreshHere DEF SyncType
  <2>2. route' \in Routes
    BY <2>0, Here DEF Routes
  <2>3. UNCHANGED <<primary, merged, save, engine, build, stray, stuck, inForce, call>>
    BY <1>1, <1>2, <1>4 DEF native
  <2>4. TypeOK' /\ Carried' /\ NotPinned'
    BY <1>2, <2>1, <2>2, <2>3, Here, RefreshHere, RefreshStep
  <2>5. Refreshing' /\ Cancelled' /\ AsksThisServer'
    BY <1>2, <1>3, <2>1, <2>3, NoSyncHere DEF ConnInv, Refreshing, Cancelled, AsksThisServer
  <2>6. EngineKept' /\ OfThisServer' /\ EngineInForce'
    BY <1>2, <1>4, <2>1, <2>3 DEF ConnInv, EngineKept, OfThisServer, EngineInForce
  <2> QED  BY <2>4, <2>5, <2>6 DEF ConnInv
<1>5. CASE ~build.pinned
  <2>1. engine = None
    BY <1>5 DEF ConnInv, EngineKept
  <2> QED  BY <1>1, <1>2, <1>3, <1>5, <2>1, ApplyKeeps
<1> QED  BY <1>4, <1>5

\* The plans that the engine may be left with.
LEMMA PrepareHere ==
    ASSUME ConnInv, NEW m \in Lists, NEW p \in Prepare(m)
    PROVE  /\ p.plan \in {None, engine, m} /\ p.ok \in BOOLEAN
           /\ p.ok = TRUE => p.plan \in {None, m}
           /\ p.ok = FALSE => p.plan \in {None, engine}
<1>1. \/ p = Left(None, TRUE) \/ p = Left(None, FALSE) \/ p = Left(engine, FALSE)
      \/ p = Left(m, TRUE)
  BY DEF Prepare
<1>2. CASE p = Left(None, TRUE)  BY <1>2 DEF Left
<1>3. CASE p = Left(None, FALSE)  BY <1>3 DEF Left
<1>4. CASE p = Left(engine, FALSE)  BY <1>4 DEF Left
<1>5. CASE p = Left(m, TRUE)  BY <1>5 DEF Left
<1> QED  BY <1>1, <1>2, <1>3, <1>4, <1>5

\* The engine is left with the plan of the configuration, with its own, or with none.
LEMMA VerifiedKeeps ==
    ASSUME ConnInv, Verified
    PROVE  ConnInv'
<1>1. PICK p \in Prepare(sync.cfg.merged) :
        /\ engine' = p.plan /\ sync' = [sync EXCEPT !.pc = "prepare", !.prepared = p.ok]
        /\ stray' = (stray \/ sync.during)
  BY DEF Verified
<1>2. /\ sync.pc = "verify" /\ ~sync.cancelled /\ sync.cfg \in Configs /\ sync # NoSync
      /\ UNCHANGED <<primary, merged, auto, route, inForce, call, loose, memory, save, build, world, stuck, used>>
  BY NoSyncHere DEF Verified, manager, calls, ConnInv, Refreshing
<1>3. sync.cfg.merged \in Lists
  BY <1>2, ConfigHere
<1>4. /\ p.plan \in {None, engine, sync.cfg.merged} /\ p.ok \in BOOLEAN
      /\ p.ok = TRUE => p.plan \in {None, sync.cfg.merged}
      /\ p.ok = FALSE => p.plan \in {None, engine}
  BY <1>1, <1>3, PrepareHere
<1>5. /\ sync' \in SyncType /\ sync'.pc = "prepare" /\ sync'.cfg = sync.cfg
      /\ sync'.during = sync.during /\ sync'.cancelled = sync.cancelled
      /\ sync'.prepared = p.ok /\ sync.during \in BOOLEAN
  BY <1>1, <1>4, RefreshHere DEF SyncType
<1>6. stray' \in BOOLEAN /\ (~stray' => ~stray /\ ~sync.during)
  BY <1>1, <1>5, RefreshHere
<1>7. TypeOK' /\ Carried' /\ NotPinned'
  BY <1>1, <1>2, <1>3, <1>4, <1>5, <1>6, Here, RefreshHere, RefreshStep
<1>8. Refreshing' /\ Cancelled' /\ AsksThisServer'
  BY <1>2, <1>5, <1>6, NoSyncHere DEF ConnInv, Refreshing, Cancelled, AsksThisServer
<1>9. EngineKept'
  <2>1. save.pc # "cancel" /\ (save.pc = "repoint" => sync.during)
    BY <1>2 DEF ConnInv, Cancelled
  <2>2. sync.pc # "prepare" /\ build.pinned
    BY <1>2 DEF ConnInv, EngineKept
  <2>3. save.pc = "idle" /\ ~stray' /\ ~stuck => engine \in {None, merged}
    BY <1>6, <2>2 DEF ConnInv, EngineInForce
  <2> QED  BY <1>1, <1>2, <1>4, <1>5, <1>6, <2>1, <2>2, <2>3 DEF EngineKept
<1>10. OfThisServer' /\ EngineInForce'
  BY <1>2, <1>5, <1>6 DEF ConnInv, OfThisServer, EngineInForce
<1> QED  BY <1>7, <1>8, <1>9, <1>10 DEF ConnInv

\* A configuration that was prepared comes into force unless a save has cancelled it.
LEMMA PreparedKeeps ==
    ASSUME ConnInv, Prepared
    PROVE  ConnInv'
<1>1. /\ sync.pc = "prepare" /\ sync.cfg \in Configs
      /\ UNCHANGED <<primary, auto, loose, memory, save, native, world, stuck, used>>
  BY DEF Prepared, ConnInv, Refreshing
<1>2. CASE sync.prepared /\ ~sync.cancelled
  <2>1. Apply(sync.cfg) /\ sync' = [sync EXCEPT !.pc = "connect"]
    BY <1>2 DEF Prepared
  <2>2. engine \in {None, sync.cfg.merged} /\ (~build.pinned => engine = None)
    BY <1>1, <1>2 DEF ConnInv, EngineKept
  <2>3. ~stray /\ ~sync.during => sync.cfg.from = primary
    BY <1>1, <1>2 DEF ConnInv, AsksThisServer
  <2> QED  BY <1>1, <2>1, <2>2, <2>3, ApplyKeeps
<1>3. CASE ~(sync.prepared /\ ~sync.cancelled)
  <2>1. sync' = NoSync /\ UNCHANGED <<merged, route, inForce, call, stray>>
    BY <1>3 DEF Prepared
  <2>2. TypeOK' /\ Carried' /\ NotPinned'
    BY <1>1, <2>1, Here, RefreshHere, NoSyncHere, RefreshStep DEF native
  <2>3. UNCHANGED <<primary, merged, save, engine, build, stray, stuck>>
    BY <1>1, <2>1 DEF native
  <2>4. Refreshing' /\ Cancelled' /\ AsksThisServer' /\ EngineKept' /\ OfThisServer'
    BY <1>1, <2>1, <2>3, NoSyncHere
       DEF ConnInv, Refreshing, Cancelled, AsksThisServer, EngineKept, OfThisServer
  <2>5. EngineInForce'
    <3>1. save.pc = "idle" => ~sync.cancelled
      BY DEF ConnInv, Cancelled
    <3>2. save.pc = "idle" /\ ~stray /\ ~stuck => engine \in {None, merged}
      BY <1>1, <1>3, <3>1 DEF ConnInv, EngineKept
    <3> QED  BY <2>3, <3>2 DEF EngineInForce
  <2> QED  BY <2>2, <2>4, <2>5 DEF ConnInv
<1> QED  BY <1>2, <1>3

\* connect() that follows.
LEMMA SyncConnectKeeps ==
    ASSUME ConnInv, NEW c \in Calls, SyncConnect(c)
    PROVE  ConnInv'
<1>1. /\ sync.pc = "connect" /\ sync' = NoSync
      /\ UNCHANGED <<primary, merged, auto, inForce, memory, save, native, world, history, used>>
  BY DEF SyncConnect
<1>2. /\ route' \in Routes /\ loose' \in [Bases -> Nat]
      /\ Moves
  <2>1. CASE sync.cancelled
    BY <2>1, Here DEF SyncConnect, Moves
  <2>2. CASE ~sync.cancelled
    <3>1. Connect(c)
      BY <2>2 DEF SyncConnect
    <3> QED  BY <3>1, ConnectDoes
  <2> QED  BY <2>1, <2>2
<1>3. call' \in [Calls -> CallType] /\ Carried' /\ NotPinned'
  BY <1>1, <1>2, CallsKept DEF ConnInv
<1>4. TypeOK'
  <2>1. TypeOK /\ engine' \in Lists \cup {None} /\ build' = build /\ up' \subseteq Bases
          /\ wire' \in Bases \cup {None} /\ stray' \in BOOLEAN /\ stuck' \in BOOLEAN
    BY <1>1, Here, RefreshHere DEF native, world, history
  <2> QED  BY <1>1, <1>2, <1>3, <2>1, Here, RefreshHere, NoSyncHere, TypeKept DEF SaveType
<1>5. sync.pc # "prepare"
  BY <1>1
<1> QED  BY <1>1, <1>3, <1>4, <1>5, SyncOver DEF ConnInv

-----------------------------------------------------------------------------
(* The change of the server.                                               *)

\* The change of the server cancels the refresh in flight.
LEMMA SaveStartKeeps ==
    ASSUME ConnInv, NEW s \in Servers, SaveStart(s)
    PROVE  ConnInv'
<1>1. /\ save.pc = "idle" /\ save' = [pc |-> "cancel", to |-> s]
      /\ sync' = IF sync = NoSync THEN NoSync ELSE [sync EXCEPT !.cancelled = TRUE]
      /\ UNCHANGED <<primary, merged, auto, route, inForce, call, loose, memory, engine, build, world, stray, stuck>>
  BY DEF SaveStart, manager, calls, native, history
<1>2. /\ sync' \in SyncType /\ sync'.pc = sync.pc /\ sync'.base = sync.base /\ sync'.cfg = sync.cfg
      /\ sync'.during = sync.during /\ (sync'.cancelled <=> sync # NoSync)
      /\ sync'.prepared = sync.prepared
  <2>1. CASE sync = NoSync
    BY <1>1, <2>1, NoSyncHere
  <2>2. CASE sync # NoSync
    BY <1>1, <2>2, RefreshHere DEF SyncType
  <2> QED  BY <2>1, <2>2
<1>3. save' \in SaveType /\ save'.pc = "cancel"
  BY <1>1 DEF SaveType
<1>4. sync = NoSync => sync' = NoSync
  BY <1>1
<1>5. used' \in [Events -> Nat]
  BY Here, HappensIn DEF SaveStart, Events
<1>6. TypeOK' /\ Carried' /\ NotPinned'
  BY <1>1, <1>2, <1>3, <1>5, Here, RefreshHere, RefreshStep
<1>7. Refreshing'
  <2>1. sync.pc = "idle" => sync = NoSync
    BY DEF ConnInv, Refreshing
  <2> QED  BY <1>2, <1>4, <2>1 DEF ConnInv, Refreshing
<1>8. Cancelled' /\ EngineInForce'
  BY <1>2, <1>3, <1>4 DEF Cancelled, EngineInForce
<1>9. AsksThisServer'
  <2>1. ~sync'.cancelled => sync.pc = "idle"
    BY <1>2, NoSyncHere
  <2> QED  BY <1>2, <2>1 DEF AsksThisServer
<1>10. EngineKept' /\ OfThisServer'
  BY <1>1, <1>2, <1>3 DEF ConnInv, EngineKept, OfThisServer
<1> QED  BY <1>6, <1>7, <1>8, <1>9, <1>10 DEF ConnInv

\* Nothing is in flight when the sign-out begins.
LEMMA SaveQuietKeeps ==
    ASSUME ConnInv, SaveQuiet
    PROVE  ConnInv'
<1>1. /\ sync = NoSync /\ save' = [save EXCEPT !.pc = "logout"]
      /\ UNCHANGED <<primary, merged, auto, route, inForce, call, loose, memory, sync, engine, build, world, stray, stuck, used>>
  BY DEF SaveQuiet, manager, calls, native, history
<1>2. save' \in SaveType /\ save'.pc = "logout"
  BY <1>1, RefreshHere DEF SaveType
<1>3. TypeOK' /\ Carried' /\ NotPinned'
  BY <1>1, <1>2, Here, RefreshHere, RefreshStep
<1>4. Refreshing' /\ Cancelled' /\ AsksThisServer' /\ EngineKept' /\ OfThisServer' /\ EngineInForce'
  BY <1>1, <1>2, NoSyncHere
     DEF ConnInv, Refreshing, Cancelled, AsksThisServer, EngineKept, OfThisServer, EngineInForce
<1> QED  BY <1>3, <1>4 DEF ConnInv

\* The engine stops, or the save ends and says so.
LEMMA SaveStopsKeeps ==
    ASSUME ConnInv, SaveStops
    PROVE  ConnInv'
<1>1. /\ save.pc = "logout"
      /\ UNCHANGED <<primary, merged, auto, route, inForce, call, loose, memory, sync, build, world, stray, used>>
  BY DEF SaveStops, manager, calls
<1>2. sync = NoSync \/ sync.during
  BY <1>1 DEF ConnInv, Cancelled
<1>3. ~sync.cancelled
  BY <1>1 DEF ConnInv, Cancelled
<1>4. CASE save' = [save EXCEPT !.pc = "repoint"] /\ engine' = None /\ UNCHANGED stuck
  <2>1. save' \in SaveType /\ save'.pc = "repoint"
    BY <1>4, RefreshHere DEF SaveType
  <2>2. TypeOK' /\ Carried' /\ NotPinned'
    BY <1>1, <1>4, <2>1, Here, RefreshHere, RefreshStep
  <2>3. Refreshing' /\ Cancelled' /\ AsksThisServer' /\ EngineKept' /\ OfThisServer' /\ EngineInForce'
    BY <1>1, <1>2, <1>3, <1>4, <2>1, NoSyncHere
       DEF ConnInv, Refreshing, Cancelled, AsksThisServer, EngineKept, OfThisServer, EngineInForce
  <2> QED  BY <2>2, <2>3 DEF ConnInv
<1>5. CASE save' = [save EXCEPT !.pc = "idle"] /\ stuck' = TRUE /\ UNCHANGED engine
  <2>1. save' \in SaveType /\ save'.pc = "idle"
    BY <1>5, RefreshHere DEF SaveType
  <2>2. TypeOK' /\ Carried' /\ NotPinned'
    BY <1>1, <1>5, <2>1, Here, RefreshHere, RefreshStep
  <2>3. Refreshing' /\ Cancelled' /\ AsksThisServer' /\ EngineKept' /\ OfThisServer' /\ EngineInForce'
    BY <1>1, <1>2, <1>3, <1>5, <2>1, NoSyncHere
       DEF ConnInv, Refreshing, Cancelled, AsksThisServer, EngineKept, OfThisServer, EngineInForce
  <2> QED  BY <2>2, <2>3 DEF ConnInv
<1> QED  BY <1>4, <1>5 DEF SaveStops

\* The new server starts without advertised addresses; a refresh still in flight was begun
\* during the save.
LEMMA SetPrimaryKeeps ==
    ASSUME ConnInv, SetPrimary
    PROVE  ConnInv'
<1>1. /\ save.pc = "repoint" /\ primary' = save.to /\ merged' = Unadvertised
      /\ route' = [at |-> 1, failures |-> 0, reason |-> "primary"]
      /\ save' = [save EXCEPT !.pc = "idle"]
      /\ UNCHANGED <<auto, inForce, call, loose, memory, engine, build, up, wire, stray, stuck, used>>
  BY DEF SetPrimary, MirrorsDropped, calls, native, world
<1>2. /\ save.to \in Servers /\ save' \in SaveType /\ save'.pc = "idle"
  BY <1>1, RefreshHere DEF SaveType
<1>3. Unadvertised \in Lists /\ ToSet(Unadvertised.list) = {}
  BY DEF Unadvertised, Lists, IsInjective, ToSet
<1>4. Listing(List')
  BY <1>1, <1>2, <1>3, ListNext
<1>5. route' \in Routes'
  <2>1. Routes' = [at : 1..Len(List'), failures : Nat, reason : Reasons]
    BY DEF Routes
  <2> QED  BY <1>1, <1>4, <2>1 DEF Listing, Reasons
<1>6. save.to \in Bases
  BY <1>2 DEF Bases
<1>7. ~sync.cancelled /\ (sync # NoSync => sync.during)
  BY <1>1 DEF ConnInv, Cancelled
<1>8. \/ /\ sync = NoSync /\ sync' \in SyncType /\ sync'.pc = "asked" /\ sync'.base = save.to
         /\ sync'.during = FALSE /\ sync'.cancelled = FALSE
      \/ /\ sync # NoSync /\ sync' = sync
  <2>1. CASE sync = NoSync
    <3> DEFINE a == Asks(save.to)
    <3>1. sync' = [a EXCEPT !.during = FALSE]
      BY <1>1, <2>1 DEF SetPrimary
    <3>2. a \in SyncType /\ a.pc = "asked" /\ a.base = save.to /\ a.cancelled = FALSE
      BY <1>6, AsksHere
    <3> HIDE DEF a
    <3> QED  BY <2>1, <3>1, <3>2 DEF SyncType
  <2>2. CASE sync # NoSync
    BY <2>2 DEF SetPrimary
  <2> QED  BY <2>1, <2>2
<1>9. sync' \in SyncType
  BY <1>8, RefreshHere
<1>10. TypeOK'
  BY <1>1, <1>2, <1>3, <1>5, <1>9 DEF ConnInv, TypeOK, SaveType, inForce
<1>11. Carried' /\ NotPinned'
  BY <1>1 DEF ConnInv, Carried, NotPinned
<1>12. Refreshing' /\ Cancelled'
  BY <1>2, <1>6, <1>7, <1>8 DEF ConnInv, Refreshing, Cancelled
<1>13. AsksThisServer'
  BY <1>1, <1>2, <1>7, <1>8, ConstantsAssumption DEF AsksThisServer
<1>14. EngineKept'
  <2>1. ~stray => engine = None
    BY <1>1 DEF ConnInv, EngineKept
  <2>2. CASE sync = NoSync
    BY <1>1, <1>2, <1>8, <2>1, <2>2, NoSyncHere DEF ConnInv, EngineKept
  <2>3. CASE sync # NoSync
    BY <1>1, <1>2, <1>8, <2>1, <2>3 DEF ConnInv, EngineKept
  <2> QED  BY <2>2, <2>3
<1>15. OfThisServer'
  BY <1>1, <1>3 DEF OfThisServer
<1>16. EngineInForce'
  BY <1>1 DEF ConnInv, EngineKept, EngineInForce
<1> QED  BY <1>10, <1>11, <1>12, <1>13, <1>14, <1>15, <1>16 DEF ConnInv

-----------------------------------------------------------------------------
(* The theorems.                                                           *)

\* The program starts there.
LEMMA ConnInit ==
    ASSUME Init
    PROVE  ConnInv
<1>1. Unadvertised \in Lists /\ ToSet(Unadvertised.list) = {}
  BY DEF Unadvertised, Lists, IsInjective, ToSet
<1>2. /\ primary \in Servers /\ merged = Unadvertised
      /\ route = [at |-> 1, failures |-> 0, reason |-> None]
      /\ call = [c \in Calls |-> Idle] /\ sync = NoSync /\ save = [pc |-> "idle", to |-> primary]
      /\ engine = None /\ stray = FALSE /\ stuck = FALSE
  BY DEF Init
<1>3. route \in Routes
  BY <1>1, <1>2, ListHere DEF Listing, Routes, Reasons
<1>4. call \in [Calls -> CallType]
  <2>1. Idle \in CallType
    BY DEF Idle, CallType, Pcs
  <2> QED  BY <1>2, <2>1
<1>5. policy \in Policies /\ loose \in [Bases -> Nat] /\ used \in [Events -> Nat]
        /\ build \in [pinned : BOOLEAN, bridge : BOOLEAN]
  BY DEF Init, Policies
<1>6. TypeOK
  <2>1. force \in Transports \cup {None} /\ memory \in Bases \cup {None} /\ auto \in BOOLEAN
          /\ up \subseteq Bases /\ wire \in Bases \cup {None}
    BY DEF Init
  <2>2. save \in [pc : {"idle", "cancel", "logout", "repoint"}, to : Servers]
    BY <1>2
  <2>3. sync \in SyncType /\ engine \in Lists \cup {None} /\ {stray, stuck} \subseteq BOOLEAN
    BY <1>2, NoSyncHere
  <2> QED  BY <1>1, <1>2, <1>3, <1>4, <1>5, <2>1, <2>2, <2>3 DEF TypeOK
<1>7. Carried /\ NotPinned
  BY <1>2 DEF Carried, NotPinned, Ready, Idle, Pcs
<1>8. Refreshing /\ Cancelled /\ AsksThisServer /\ EngineKept /\ OfThisServer /\ EngineInForce
  BY <1>1, <1>2, NoSyncHere
     DEF Refreshing, Cancelled, AsksThisServer, EngineKept, OfThisServer, EngineInForce
<1> QED  BY <1>6, <1>7, <1>8 DEF ConnInv

\* Every step keeps it.
LEMMA ConnStep ==
    ASSUME ConnInv, [Next]_vars
    PROVE  ConnInv'
<1>1. CASE UNCHANGED vars
  BY <1>1, Here, RouteStep DEF vars, manager, calls, world, Moves
<1>2. CASE Next
  BY <1>2, ToggleKeeps, RequestKeeps, RequestEndsKeeps, ReachKeeps, LooseEndsKeeps,
     ConnectStartKeeps, CallStepKeeps, RecheckDirectKeeps, SyncConnectKeeps, SyncStartKeeps,
     SyncLostKeeps, SyncRefusedKeeps, SyncAnsweredKeeps, VerifiedKeeps, VerifyEndsKeeps,
     PreparedKeeps, SaveStartKeeps, SaveQuietKeeps, SaveStopsKeeps, SetPrimaryKeeps DEF Next
<1> QED  BY <1>1, <1>2

\* The inductive invariant holds in every state.
THEOREM ConnInvariant == Spec => []ConnInv
BY ConnInit, ConnStep, PTL DEF Spec

\* Types: in particular the route always leads to a candidate, whatever list comes
\* into force while a probe or a refresh is under way.
THEOREM TypeCorrect == Spec => []TypeOK
<1>1. ConnInv => TypeOK
  BY DEF ConnInv
<1> QED  BY <1>1, ConnInvariant, PTL

\* The advertised addresses are those of the server in force, and the native engine
\* at rest runs what is in force, over every order of refreshes and changes of the
\* server.
THEOREM InForce == Spec => []ConfigInForce
<1>1. ConnInv => ConfigInForce
  BY DEF ConnInv, ConfigInForce
<1> QED  BY <1>1, ConnInvariant, PTL

-----------------------------------------------------------------------------
(* The pin.                                                                *)

\* What the property asks of a step.
PinStep ==
    Pins /\ TransportOf(Current) = force /\ route'.at # route.at
      /\ UNCHANGED <<force, merged, primary>> => route'.reason \in {"failover", "kill_switch"}

\* A call whose answer still counts finds a list of one while the transport is pinned.
LEMMA OneLeft ==
    ASSUME ConnInv, NEW c \in Calls, call[c] # Idle, ~call[c].superseded, Pins
    PROVE  \A r \in Routes : r.at = 1
<1>1. merged = Unadvertised
  BY DEF ConnInv, NotPinned
<1>2. Len(List) = 1
  BY <1>1, ListHere, RefreshHere
<1> QED  BY <1>2 DEF Routes

\* A configuration that names the same addresses leaves the route where it is.
LEMMA SamePlace ==
    ASSUME ConnInv
    PROVE  IndexIn(List, Current) = route.at
<1>1. Listing(List) /\ route.at \in 1..Len(List)
  BY Here DEF Routes
<1>2. Current \in ToSet(List)
  BY <1>1 DEF Current, ToSet, Listing
<1>3. /\ IndexIn(List, Current) \in 0..Len(List) /\ IndexIn(List, Current) # 0
      /\ List[IndexIn(List, Current)] = Current
  BY <1>1, <1>2, IndexFound DEF Listing
<1> QED  BY <1>1, <1>3 DEF Listing, IsInjective, Current

\* The pin is obeyed by a configuration that comes into force,
LEMMA ApplyObeys ==
    ASSUME ConnInv, NEW c \in Configs, Apply(c), primary' = primary
    PROVE  PinStep
<1> SUFFICES ASSUME merged' = merged PROVE route'.at = route.at
  BY DEF PinStep
<1>1. /\ merged' = c.merged
      /\ route' = [route EXCEPT !.at = IF IndexIn(Listed(primary, c.merged.list), Current) = 0 THEN 1
                                      ELSE IndexIn(Listed(primary, c.merged.list), Current),
                               !.failures = 0]
  BY DEF Apply
<1>2. Listed(primary, c.merged.list) = List
  BY <1>1 DEF List
<1>3. route' = [route EXCEPT !.at = IF route.at = 0 THEN 1 ELSE route.at, !.failures = 0]
  BY <1>1, <1>2, SamePlace
<1> QED  BY <1>3, Here DEF Routes

\* by connect(),
LEMMA ConnectObeys ==
    ASSUME ConnInv, NEW c \in Calls, Connect(c)
    PROVE  PinStep
BY ConnectDoes DEF PinStep

\* by a call under way,
LEMMA CallObeys ==
    ASSUME ConnInv, NEW c \in Calls, CallStep(c), ConnInv'
    PROVE  PinStep
<1>1. CASE MemoryRead(c)
  BY <1>1 DEF MemoryRead, manager, PinStep
<1>2. CASE ProbeLate(c)
  BY <1>2, Here, ProbedIn DEF ProbeLate, PinStep
<1>3. CASE ProbeOk(c) \/ ProbeFails(c)
  <2> SUFFICES ASSUME Pins, UNCHANGED <<force, merged, primary>>
               PROVE  route'.at = route.at
    BY DEF PinStep
  <2>1. call[c] # Idle /\ ~call[c].superseded
    BY <1>3 DEF ProbeOk, ProbeFails, Idle, Superseded
  <2>2. route \in Routes /\ route' \in Routes
    <3>1. route' \in Routes'
      BY DEF ConnInv, TypeOK
    <3> QED  BY <3>1, Here, ListKept
  <2> QED  BY <2>1, <2>2, OneLeft
<1>4. CASE OtherEnds(c)
  BY <1>4, Here, ProbedIn DEF OtherEnds, PinStep
<1> QED  BY <1>1, <1>2, <1>3, <1>4 DEF CallStep

\* and by the change of the server.
LEMMA SetPrimaryObeys ==
    ASSUME ConnInv, SetPrimary
    PROVE  PinStep
<1> SUFFICES ASSUME merged' = merged PROVE route'.at = route.at
  BY DEF PinStep
<1>1. merged = Unadvertised /\ route'.at = 1
  BY DEF SetPrimary, MirrorsDropped
<1>2. Len(List) = 1
  BY <1>1, ListHere, RefreshHere
<1> QED  BY <1>1, <1>2, Here DEF Routes

\* Every other step leaves the route where it is, or fails over.
LEMMA OthersObey ==
    ASSUME ConnInv
    PROVE  /\ SetAutoFailover \/ Request \/ RequestEnds \/ SyncStart \/ SyncLost => PinStep
           /\ SyncRefused \/ SyncAnswered \/ Verified \/ VerifyEnds \/ Prepared => PinStep
           /\ SaveQuiet \/ SaveStops => PinStep
           /\ \A b \in Bases : Reach(b) \/ LooseEnds(b) => PinStep
           /\ \A c \in Calls : RecheckDirect(c) => PinStep
           /\ \A s \in Servers : SaveStart(s) => PinStep
<1>1. route'.at = route.at \/ route'.reason = "failover" => PinStep
  BY DEF PinStep
<1>2. UNCHANGED route => PinStep
  BY <1>1
<1>3. route' = [route EXCEPT !.failures = 0] => PinStep
  BY <1>1, Here DEF Routes
<1>4. Request \/ SyncStart \/ Verified \/ VerifyEnds \/ SaveQuiet \/ SaveStops => PinStep
  BY <1>2 DEF Request, SyncStart, Verified, VerifyEnds, SaveQuiet, SaveStops, manager
<1>5. \A b \in Bases : Reach(b) => PinStep
  BY <1>2 DEF Reach, manager
<1>6. \A c \in Calls : RecheckDirect(c) => PinStep
  BY <1>2 DEF RecheckDirect, manager
<1>7. \A s \in Servers : SaveStart(s) => PinStep
  BY <1>2 DEF SaveStart, manager
<1>8. SetAutoFailover \/ SyncRefused => PinStep
  BY <1>3 DEF SetAutoFailover, SyncRefused
<1>9. RequestEnds => PinStep
  BY <1>1, Here, ReportedIn DEF RequestEnds
<1>10. \A b \in Bases : LooseEnds(b) => PinStep
  BY <1>1, Here, ReportedIn DEF LooseEnds
<1>11. SyncLost => PinStep
  BY <1>1, Here, ErredIn DEF SyncLost
<1>12. SyncAnswered => PinStep
  <2> SUFFICES ASSUME SyncAnswered PROVE PinStep
    OBVIOUS
  <2>1. CASE build.pinned
    BY <2>1, <1>3 DEF SyncAnswered
  <2>2. CASE ~build.pinned
    <3>1. PICK c \in Configs : Apply(c)
      BY <2>2 DEF SyncAnswered
    <3>2. primary' = primary
      BY DEF SyncAnswered
    <3> QED  BY <3>1, <3>2, ApplyObeys
  <2> QED  BY <2>1, <2>2
<1>13. Prepared => PinStep
  <2> SUFFICES ASSUME Prepared PROVE PinStep
    OBVIOUS
  <2>1. CASE sync.prepared /\ ~sync.cancelled
    <3>1. Apply(sync.cfg) /\ primary' = primary /\ sync.cfg \in Configs
      BY <2>1 DEF Prepared, ConnInv, Refreshing
    <3> QED  BY <3>1, ApplyObeys
  <2>2. CASE ~(sync.prepared /\ ~sync.cancelled)
    BY <2>2, <1>2 DEF Prepared
  <2> QED  BY <2>1, <2>2
<1> QED  BY <1>4, <1>5, <1>6, <1>7, <1>8, <1>9, <1>10, <1>11, <1>12, <1>13

\* No probe of before a pin takes the route off the pinned transport: what counts
\* was begun free of the pin, and a configuration that pins supersedes it.
THEOREM PinHolds == Spec => PinObeyed
<1>1. ASSUME ConnInv, ConnInv', [Next]_vars
      PROVE  [PinStep]_vars
  <2>1. CASE UNCHANGED vars
    BY <2>1
  <2>2. CASE Next
    <3>1. \A c \in Calls : ConnectStart(c) => PinStep
      BY <1>1, ConnectObeys DEF ConnectStart
    <3>2. \A c \in Calls : SyncConnect(c) => PinStep
      <4> SUFFICES ASSUME NEW c \in Calls, SyncConnect(c) PROVE PinStep
        OBVIOUS
      <4>1. CASE sync.cancelled
        BY <4>1 DEF SyncConnect, PinStep
      <4>2. CASE ~sync.cancelled
        BY <1>1, <4>2, ConnectObeys DEF SyncConnect
      <4> QED  BY <4>1, <4>2
    <3>3. \A c \in Calls : CallStep(c) => PinStep
      BY <1>1, CallObeys
    <3>4. SetPrimary => PinStep
      BY <1>1, SetPrimaryObeys
    <3>5. /\ SetAutoFailover \/ Request \/ RequestEnds \/ SyncStart \/ SyncLost => PinStep
          /\ SyncRefused \/ SyncAnswered \/ Verified \/ VerifyEnds \/ Prepared => PinStep
          /\ SaveQuiet \/ SaveStops => PinStep
          /\ \A b \in Bases : Reach(b) \/ LooseEnds(b) => PinStep
          /\ \A c \in Calls : RecheckDirect(c) => PinStep
          /\ \A s \in Servers : SaveStart(s) => PinStep
      BY <1>1, OthersObey
    <3> QED  BY <2>2, <3>1, <3>2, <3>3, <3>4, <3>5 DEF Next
  <2> QED  BY <1>1, <2>1, <2>2
<1>2. [][PinStep]_vars => PinObeyed
  BY DEF PinStep, PinObeyed
<1> QED  BY <1>1, <1>2, ConnInvariant, PTL DEF Spec
=============================================================================
