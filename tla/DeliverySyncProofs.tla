-------------------------- MODULE DeliverySyncProofs -------------------------
EXTENDS DeliverySync, WellFoundedInduction, FiniteSetTheorems, TLAPS



-----------------------------------------------------------------------------
(* Induction, and the operators the actions share.                         *)

\* A non-empty set of numbers has a least one.
LEMMA Least ==
    ASSUME NEW S, S \subseteq Nat, S # {}
    PROVE  \E n \in S : \A m \in S : n <= m
<1>1. \E x \in S : \A y \in S : ~ (<<y, x>> \in OpToRel(<, Nat))
  BY NatLessThanWellFounded, WFMin
<1>2. ASSUME NEW x \in S, NEW y \in S, ~ (<<y, x>> \in OpToRel(<, Nat))
      PROVE  x <= y
  BY <1>2 DEF OpToRel
<1> QED
  BY <1>1, <1>2

\* Induction over the numbers, for a set: a property is the set it holds on.
LEMMA SetInduction ==
    ASSUME NEW S, 0 \in S, \A n \in Nat : n \in S => n + 1 \in S
    PROVE  Nat \subseteq S
<1>1. SUFFICES ASSUME Nat \ S # {} PROVE FALSE
  OBVIOUS
<1>2. PICK n \in Nat \ S : \A m \in Nat \ S : n <= m
  BY <1>1, Least
<1>3. n # 0
  OBVIOUS
<1>4. n - 1 \in Nat /\ n - 1 \in S
  BY <1>2, <1>3
<1> QED
  BY <1>4, <1>2

\* What ApplyEach goes through: g[i] is the flow after i events.
Unfolds(g, f, es) ==
    g = [i \in 0..Len(es) |-> IF i = 0 THEN f ELSE ApplyEventNow(g[i - 1], es[i])]

\* ApplyEach applies one event after the other.
LEMMA ApplyEachUnfolds ==
    ASSUME NEW f, NEW T, NEW es \in Seq(T)
    PROVE  \E g : Unfolds(g, f, es) /\ ApplyEach(f, es) = g[Len(es)]
<1> DEFINE Fits(g, n) == g = [i \in 0..n |-> IF i = 0 THEN f ELSE ApplyEventNow(g[i - 1], es[i])]
           P == {n \in Nat : \E g : Fits(g, n)}
<1>1. 0 \in P
  <2> DEFINE g == [i \in 0..0 |-> f]
  <2>1. Fits(g, 0)
    OBVIOUS
  <2> QED
    BY <2>1
<1>2. ASSUME NEW n \in Nat, n \in P PROVE n + 1 \in P
  <2>1. PICK g : Fits(g, n)
    BY <1>2
  <2> DEFINE h == [i \in 0..(n + 1) |-> IF i <= n THEN g[i] ELSE ApplyEventNow(g[n], es[n + 1])]
  <2>2. ASSUME NEW i \in 0..(n + 1)
        PROVE  h[i] = IF i = 0 THEN f ELSE ApplyEventNow(h[i - 1], es[i])
    <3>1. CASE i <= n
      <4>1. h[i] = g[i]
        BY <3>1
      <4>2. i \in 0..n
        BY <3>1
      <4>3. g[i] = IF i = 0 THEN f ELSE ApplyEventNow(g[i - 1], es[i])
        BY <2>1, <4>2
      <4>4. i # 0 => i - 1 \in 0..(n + 1) /\ i - 1 <= n
        BY <3>1
      <4>5. i # 0 => h[i - 1] = g[i - 1]
        BY <4>4
      <4> QED
        BY <4>1, <4>3, <4>5
    <3>2. CASE i = n + 1
      <4>1. h[i] = ApplyEventNow(g[n], es[n + 1])
        BY <3>2
      <4>2. h[i - 1] = g[n]
        BY <3>2
      <4> QED
        BY <4>1, <4>2, <3>2
    <3> QED
      BY <3>1, <3>2
  <2>3. Fits(h, n + 1)
    <3> HIDE DEF h
    <3>1. h = [i \in 0..(n + 1) |-> h[i]]
      BY DEF h
    <3> QED
      BY <3>1, <2>2
  <2>4. \E k : Fits(k, n + 1)
    <3> HIDE DEF h, Fits
    <3> QED
      BY <2>3
  <2>5. n + 1 \in Nat
    OBVIOUS
  <2> HIDE DEF Fits, h
  <2> QED
    BY <2>4, <2>5
<1>3. Len(es) \in P
  <2> HIDE DEF P
  <2> QED
    BY <1>1, <1>2, SetInduction
<1>4. PICK g : Fits(g, Len(es))
  BY <1>3
<1> QED
  BY <1>4 DEF ApplyEach, Unfolds

FlowType1 == [last : Seqs0, queue : Seq(Task), seen : SUBSET Seqs]

\* r is f with the events f.last + 1, ..., r.last delivered: each is seen, and its
\* apply task is queued before a cursor task that counts it.
Extends(f, r) ==
    /\ r \in FlowType1 /\ f.last <= r.last
    /\ r.seen = f.seen \cup (f.last + 1)..r.last
    /\ Len(f.queue) <= Len(r.queue)
    /\ \A i \in 1..Len(f.queue) : r.queue[i] = f.queue[i]
    /\ \A i \in (Len(f.queue) + 1)..Len(r.queue) :
          \E s \in (f.last + 1)..r.last :
             \/ r.queue[i] = ApplyTask(s)
             \/ /\ r.queue[i] = CursorTask(s)
                /\ \A x \in (f.last + 1)..s :
                      \E j \in (Len(f.queue) + 1)..(i - 1) : r.queue[j] = ApplyTask(x)
    /\ \A x \in (f.last + 1)..r.last :
          \E j \in (Len(f.queue) + 1)..Len(r.queue) : r.queue[j] = ApplyTask(x)

\* A flow extends itself.
LEMMA ExtendsSelf ==
    ASSUME NEW f \in FlowType1 PROVE Extends(f, f)
BY DEF Extends, FlowType1, Seqs0

\* The tasks of the queue have their type.
LEMMA TaskTypes ==
    /\ \A s \in Seqs : ApplyTask(s) \in Task
    /\ \A n \in Seqs0 : CursorTask(n) \in Task
    /\ \A k \in Slots : ResetTask(k) \in Task /\ SeedTask(k) \in Task
BY DEF ApplyTask, CursorTask, ResetTask, SeedTask, Task, Seqs, Seqs0

\* Two tasks at the end of a queue.
LEMMA TwoMore ==
    ASSUME NEW T, NEW q \in Seq(T), NEW a \in T, NEW b \in T
    PROVE  /\ q \o <<a, b>> \in Seq(T) /\ Len(q \o <<a, b>>) = Len(q) + 2
           /\ \A i \in 1..Len(q) : (q \o <<a, b>>)[i] = q[i]
           /\ (q \o <<a, b>>)[Len(q) + 1] = a /\ (q \o <<a, b>>)[Len(q) + 2] = b
<1>1. <<a, b>> \in Seq(T) /\ Len(<<a, b>>) = 2 /\ <<a, b>>[1] = a /\ <<a, b>>[2] = b
  OBVIOUS
<1>2. q \o <<a, b>> \in Seq(T) /\ Len(q \o <<a, b>>) = Len(q) + 2
  BY <1>1
<1>3. \A i \in 1..Len(q) : (q \o <<a, b>>)[i] = q[i]
  BY <1>1
<1>4. (q \o <<a, b>>)[Len(q) + 1] = a
  BY <1>1
<1>5. (q \o <<a, b>>)[Len(q) + 2] = b
  BY <1>1
<1> QED
  BY <1>2, <1>3, <1>4, <1>5

\* One more event that follows.
LEMMA ExtendsOnce ==
    ASSUME NEW f \in FlowType1, NEW r, Extends(f, r), NEW s \in Seqs, s <= r.last + 1
    PROVE  Extends(f, ApplyEventNow(r, s)) /\ s <= ApplyEventNow(r, s).last
<1> DEFINE v == ApplyEventNow(r, s)
<1> USE MaxSeqAssumption
<1>0. f.last \in Nat /\ r.last \in Nat /\ r.queue \in Seq(Task) /\ s \in Nat
      /\ Len(f.queue) \in Nat /\ Len(r.queue) \in Nat
  BY DEF Extends, FlowType1, Seqs0, Seqs
<1>1. CASE s <= r.last
  BY <1>1 DEF ApplyEventNow
<1>2. CASE s = r.last + 1
  <2>1. v = [last |-> s, queue |-> r.queue \o <<ApplyTask(s), CursorTask(s)>>,
             seen |-> r.seen \cup {s}]
    BY <1>0, <1>2 DEF ApplyEventNow
  <2> DEFINE n == Len(r.queue)
             m == Len(f.queue)
  <2>2. ApplyTask(s) \in Task /\ CursorTask(s) \in Task
    BY TaskTypes DEF Seqs, Seqs0
  <2>3. /\ v.queue \in Seq(Task) /\ Len(v.queue) = n + 2
        /\ \A i \in 1..n : v.queue[i] = r.queue[i]
        /\ v.queue[n + 1] = ApplyTask(s) /\ v.queue[n + 2] = CursorTask(s)
    BY <1>0, <2>1, <2>2, TwoMore
  <2>4. v.last = s /\ v.seen = r.seen \cup {s} /\ v \in FlowType1
    BY <2>1, <2>3 DEF Extends, FlowType1, Seqs, Seqs0
  <2>41. m <= n /\ m \in Nat /\ n \in Nat /\ \A i \in 1..m : r.queue[i] = f.queue[i]
    BY <1>0 DEF Extends
  <2> HIDE DEF v
  <2>5. v.seen = f.seen \cup (f.last + 1)..v.last
    BY <2>4, <1>0, <1>2 DEF Extends
  <2>6. m <= Len(v.queue) /\ \A i \in 1..m : v.queue[i] = f.queue[i]
    <3> HIDE DEF m, n
    <3> QED BY <2>3, <2>41
  <2>7. \A x \in (f.last + 1)..s : \E j \in (m + 1)..(n + 1) : v.queue[j] = ApplyTask(x)
    <3> TAKE x \in (f.last + 1)..s
    <3>1. CASE x = s
      <4>1. n + 1 \in (m + 1)..(n + 1)
        <5> HIDE DEF m, n
        <5> QED BY <2>41
      <4> QED BY <3>1, <4>1, <2>3
    <3>2. CASE x # s
      <4>1. x \in (f.last + 1)..r.last
        BY <3>2, <1>0, <1>2
      <4>2. PICK j \in (m + 1)..n : r.queue[j] = ApplyTask(x)
        BY <4>1 DEF Extends
      <4>3. j \in (m + 1)..(n + 1) /\ j \in 1..n
        <5> HIDE DEF m, n
        <5> QED BY <2>41
      <4> QED BY <4>2, <4>3, <2>3
    <3> QED BY <3>1, <3>2
  <2>8. ASSUME NEW i \in (m + 1)..(n + 2)
        PROVE  \E y \in (f.last + 1)..v.last :
                 \/ v.queue[i] = ApplyTask(y)
                 \/ /\ v.queue[i] = CursorTask(y)
                    /\ \A x \in (f.last + 1)..y : \E j \in (m + 1)..(i - 1) : v.queue[j] = ApplyTask(x)
    <3>1. CASE i <= n
      <4>1. i \in (m + 1)..n /\ i \in 1..n
        <5> HIDE DEF m, n
        <5> QED BY <3>1, <2>41
      <4>2. PICK y \in (f.last + 1)..r.last :
                 \/ r.queue[i] = ApplyTask(y)
                 \/ /\ r.queue[i] = CursorTask(y)
                    /\ \A x \in (f.last + 1)..y :
                        \E j \in (m + 1)..(i - 1) : r.queue[j] = ApplyTask(x)
        BY <4>1 DEF Extends
      <4>3. \A j \in (m + 1)..(i - 1) : v.queue[j] = r.queue[j]
        <5>1. \A j \in (m + 1)..(i - 1) : j \in 1..n
          <6> HIDE DEF m, n
          <6> QED BY <4>1, <2>41
        <5> QED BY <5>1, <2>3
      <4>4. y \in (f.last + 1)..v.last
        BY <2>4, <1>0, <1>2
      <4> QED BY <4>1, <4>2, <4>3, <4>4, <2>3
    <3>2. CASE i = n + 1
      <4>1. s \in (f.last + 1)..v.last
        BY <2>4, <1>0, <1>2 DEF Extends
      <4> QED BY <3>2, <4>1, <2>3
    <3>3. CASE i = n + 2
      <4>1. s \in (f.last + 1)..v.last
        BY <2>4, <1>0, <1>2 DEF Extends
      <4>2. i - 1 = n + 1
        BY <3>3, <2>41
      <4> QED BY <3>3, <4>1, <4>2, <2>3, <2>7
    <3>4. i <= n \/ i = n + 1 \/ i = n + 2
      <4> HIDE DEF m, n
      <4> QED BY <2>41
    <3> QED
      BY <3>1, <3>2, <3>3, <3>4
  <2>9. \A x \in (f.last + 1)..v.last :
            \E j \in (m + 1)..(n + 2) : v.queue[j] = ApplyTask(x)
    <3>1. (m + 1)..(n + 1) \subseteq (m + 1)..(n + 2)
      <4> HIDE DEF m, n
      <4> QED BY <2>41
    <3> QED BY <2>7, <2>4, <3>1
  <2>10. f.last <= v.last /\ s <= v.last
    BY <2>4, <1>0, <1>2 DEF Extends
  <2>11. Extends(f, v)
    BY <2>3, <2>4, <2>5, <2>6, <2>8, <2>9, <2>10 DEF Extends
  <2> QED BY <2>10, <2>11 DEF v
<1> QED
  BY <1>0, <1>1, <1>2

\* Events each of which follows deliver what there is up to the last of them.
LEMMA ApplyEachExtends ==
    ASSUME NEW f \in FlowType1, NEW es \in Seq(Seqs),
           \A i \in 1..Len(es) : es[i] <= f.last + 1 \/ \E j \in 1..(i - 1) : es[i] = es[j] + 1
    PROVE  /\ Extends(f, ApplyEach(f, es))
           /\ \A i \in 1..Len(es) : es[i] <= ApplyEach(f, es).last
           /\ \/ ApplyEach(f, es).last = f.last
              \/ \E i \in 1..Len(es) : ApplyEach(f, es).last = es[i]
<1>1. PICK g : Unfolds(g, f, es) /\ ApplyEach(f, es) = g[Len(es)]
  BY ApplyEachUnfolds
<1> DEFINE OK(i) == /\ Extends(f, g[i])
                    /\ \A j \in 1..i : es[j] <= g[i].last
                    /\ g[i].last = f.last \/ \E j \in 1..i : g[i].last = es[j]
           P == {i \in Nat : i <= Len(es) => OK(i)}
<1>2. 0 \in P
  <2>1. g[0] = f
    BY <1>1 DEF Unfolds
  <2> QED BY <2>1, ExtendsSelf
<1>3. ASSUME NEW n \in Nat, n \in P PROVE n + 1 \in P
  <2>1. SUFFICES ASSUME n + 1 <= Len(es) PROVE OK(n + 1)
    OBVIOUS
  <2>2. g[n + 1] = ApplyEventNow(g[n], es[n + 1])
    BY <1>1, <2>1 DEF Unfolds
  <2>3. OK(n) /\ es[n + 1] \in Seqs /\ n + 1 \in 1..Len(es)
    BY <1>3, <2>1
  <2>4. f.last \in Nat /\ g[n].last \in Nat /\ f.last <= g[n].last /\ es[n + 1] \in Nat
        /\ \A j \in 1..n : es[j] \in Nat
    <3>1. Seqs \subseteq Nat /\ Seqs0 \subseteq Nat
      BY MaxSeqAssumption DEF Seqs0, Seqs
    <3>2. f.last \in Nat /\ g[n].last \in Nat /\ f.last <= g[n].last /\ es[n + 1] \in Nat
      BY <2>3, <3>1 DEF Extends, FlowType1
    <3>3. \A j \in 1..n : j \in 1..Len(es)
      BY <2>1
    <3>4. \A j \in 1..Len(es) : es[j] \in Seqs
      OBVIOUS
    <3> QED BY <3>1, <3>2, <3>3, <3>4
  <2>5. es[n + 1] <= g[n].last + 1
    <3>1. es[n + 1] <= f.last + 1 \/ \E j \in 1..((n + 1) - 1) : es[n + 1] = es[j] + 1
      BY <2>3
    <3>2. (n + 1) - 1 = n
      OBVIOUS
    <3>3. CASE es[n + 1] <= f.last + 1
      <4> HIDE DEF OK
      <4> QED BY <3>3, <2>4
    <3>4. ASSUME NEW j \in 1..n, es[n + 1] = es[j] + 1 PROVE es[n + 1] <= g[n].last + 1
      <4>1. es[j] <= g[n].last /\ es[j] \in Nat
        BY <2>3, <2>4
      <4> QED BY <3>4, <4>1, <2>4
    <3> QED BY <3>1, <3>2, <3>3, <3>4
  <2>6. Extends(f, g[n + 1]) /\ es[n + 1] <= g[n + 1].last
    BY <2>2, <2>3, <2>5, ExtendsOnce
  <2>7. g[n + 1].last = g[n].last \/ g[n + 1].last = es[n + 1]
    BY <2>2 DEF ApplyEventNow
  <2>8. g[n].last <= g[n + 1].last
    BY <2>2, <2>4 DEF ApplyEventNow
  <2>9. \A j \in 1..(n + 1) : es[j] <= g[n + 1].last
    <3>1. g[n + 1].last \in Nat
      BY <2>7, <2>4
    <3> QED BY <3>1, <2>3, <2>4, <2>6, <2>8
  <2> QED
    BY <2>3, <2>6, <2>7, <2>9
<1>4. Len(es) \in P
  <2> HIDE DEF P
  <2> QED
    BY <1>2, <1>3, SetInduction
<1> QED
  BY <1>1, <1>4

-----------------------------------------------------------------------------
(* Types: the operators the actions share.                                 *)

\* The greater and the lesser of two numbers.
LEMMA MaxMinPair ==
    ASSUME NEW a \in Nat, NEW b \in Nat
    PROVE  /\ Max({a, b}) = IF a >= b THEN a ELSE b
           /\ Min({a, b}) = IF a <= b THEN a ELSE b
<1>1. \A x, y \in {a, b} :
         (\A z \in {a, b} : x >= z) /\ (\A z \in {a, b} : y >= z) => x = y
  OBVIOUS
<1>2. \A x, y \in {a, b} :
         (\A z \in {a, b} : x <= z) /\ (\A z \in {a, b} : y <= z) => x = y
  OBVIOUS
<1>3. \E x \in {a, b} : \A z \in {a, b} : x >= z
  OBVIOUS
<1>4. \E x \in {a, b} : \A z \in {a, b} : x <= z
  OBVIOUS
<1>5. Max({a, b}) \in {a, b} /\ \A z \in {a, b} : Max({a, b}) >= z
  BY <1>3 DEF Max
<1>6. Min({a, b}) \in {a, b} /\ \A z \in {a, b} : Min({a, b}) <= z
  BY <1>4 DEF Min
<1> QED
  BY <1>5, <1>6

\* The numbers the types are built from.
LEMMA NumberTypes ==
    /\ MaxSeq \in Nat /\ Seqs \subseteq Nat /\ Seqs0 \subseteq Nat
    /\ Seqs \subseteq Seqs0 /\ 0 \in Seqs0
    /\ \A n \in Seqs0 : n = 0 \/ n \in Seqs
    /\ \A m \in Seqs0, n \in Nat : (n + 1)..m \subseteq Seqs
BY MaxSeqAssumption DEF Seqs, Seqs0

\* A bounded event leaves the rest of the past alone.
LEMMA HappensType ==
    ASSUME PastType, NEW e \in Events, Happens(e), UNCHANGED <<wiped, gone>>
    PROVE  PastType'
<1>1. used' \in [Events -> Nat]
  BY DEF PastType, Happens
<1>2. \A d \in Events : used'[d] <= Limit[d]
  <2> TAKE d \in Events
  <2>1. used[d] \in Nat /\ Limit[d] \in Nat /\ used[d] <= Limit[d]
    BY LimitAssumption DEF PastType
  <2>2. used'[d] = IF d = e THEN used[d] + 1 ELSE used[d]
    BY DEF PastType, Happens
  <2>3. used[e] < Limit[e]
    BY DEF Happens
  <2> QED
    BY <2>1, <2>2, <2>3
<1> QED
  BY <1>1, <1>2 DEF PastType, gone

\* The tasks by their kinds.
LEMMA TaskKinds ==
    ASSUME NEW q \in Task
    PROVE  /\ q.kind \in {"apply", "cursor", "reset", "seed"}
           /\ q.kind = "apply"  => q.arg \in Seqs  /\ q.step = "start"
           /\ q.kind = "cursor" => q.arg \in Seqs0 /\ q.step \in {"start", "put"}
           /\ q.kind = "reset"  => q.arg \in Slots /\ q.step \in {"start", "cleared", "dirty"}
           /\ q.kind = "seed"   => q.arg \in Slots /\ q.step = "start"
BY DEF Task

\* What is left of a queue.
LEMMA TailFacts ==
    ASSUME NEW T, NEW q \in Seq(T), q # <<>>
    PROVE  /\ Tail(q) \in Seq(T) /\ Len(Tail(q)) = Len(q) - 1 /\ Len(q) \in Nat \ {0}
           /\ \A i \in 1..(Len(q) - 1) : Tail(q)[i] = q[i + 1]
OBVIOUS

\* One more task.
LEMMA AppendFacts ==
    ASSUME NEW T, NEW q \in Seq(T), NEW a \in T
    PROVE  /\ Append(q, a) \in Seq(T) /\ Len(Append(q, a)) = Len(q) + 1 /\ Len(q) \in Nat
           /\ \A i \in 1..Len(q) : Append(q, a)[i] = q[i]
           /\ Append(q, a)[Len(q) + 1] = a
OBVIOUS

\* The first task is done.
LEMMA TaskEndsFlow ==
    ASSUME FlowType, NEW t \in Tabs, queue[t] # <<>>, TaskEnds(t), UNCHANGED <<lastSeq, seen>>
    PROVE  FlowType'
<1>1. Tail(queue[t]) \in Seq(Task)
  BY TailFacts DEF FlowType
<1> QED
  BY <1>1 DEF FlowType, TaskEnds

\* The first task goes on.
LEMMA TaskMovesFacts ==
    ASSUME FlowType, NEW t \in Tabs, NEW step, queue[t] # <<>>, TaskMoves(t, step),
           [queue[t][1] EXCEPT !.step = step] \in Task
    PROVE  /\ queue' \in [Tabs -> Seq(Task)]
           /\ Len(queue'[t]) = Len(queue[t])
           /\ queue'[t][1] = [queue[t][1] EXCEPT !.step = step]
           /\ \A i \in 2..Len(queue[t]) : queue'[t][i] = queue[t][i]
           /\ \A u \in Tabs \ {t} : queue'[u] = queue[u]
<1> DEFINE q == queue[t]
           r == [q EXCEPT ![1] = [@ EXCEPT !.step = step]]
<1>1. q \in Seq(Task) /\ Len(q) \in Nat /\ 1 \in 1..Len(q)
  BY DEF FlowType
<1>2. queue' = [queue EXCEPT ![t] = r]
  BY DEF TaskMoves
<1>3. r \in Seq(Task) /\ Len(r) = Len(q) /\ r[1] = [q[1] EXCEPT !.step = step]
      /\ \A i \in 2..Len(q) : r[i] = q[i]
  BY <1>1
<1>4. queue'[t] = r /\ \A u \in Tabs \ {t} : queue'[u] = queue[u]
  BY <1>2 DEF FlowType
<1> HIDE DEF r
<1>5. queue' \in [Tabs -> Seq(Task)]
  BY <1>2, <1>3 DEF FlowType
<1> QED
  BY <1>3, <1>4, <1>5

\* The values of one tab's flow.
LEMMA FlowTypes ==
    ASSUME FlowType, NEW t \in Tabs
    PROVE  Flow(t) \in FlowType1
BY DEF FlowType, Flow, FlowType1

LEMMA FlowBecomesFacts ==
    ASSUME FlowType, NEW t \in Tabs, NEW f \in FlowType1, FlowBecomes(t, f)
    PROVE  /\ FlowType'
           /\ lastSeq'[t] = f.last /\ queue'[t] = f.queue /\ seen'[t] = f.seen
           /\ \A u \in Tabs \ {t} :
                lastSeq'[u] = lastSeq[u] /\ queue'[u] = queue[u] /\ seen'[u] = seen[u]
<1>1. lastSeq' \in [Tabs -> Seqs0] /\ lastSeq'[t] = f.last
      /\ \A u \in Tabs \ {t} : lastSeq'[u] = lastSeq[u]
  BY DEF FlowType, FlowBecomes, FlowType1
<1>2. queue' \in [Tabs -> Seq(Task)] /\ queue'[t] = f.queue
      /\ \A u \in Tabs \ {t} : queue'[u] = queue[u]
  BY DEF FlowType, FlowBecomes, FlowType1
<1>3. seen' \in [Tabs -> SUBSET Seqs] /\ seen'[t] = f.seen
      /\ \A u \in Tabs \ {t} : seen'[u] = seen[u]
  BY DEF FlowType, FlowBecomes, FlowType1
<1> QED
  BY <1>1, <1>2, <1>3 DEF FlowType

\* An event that is applied, or a newer cursor, leaves a flow.
LEMMA ApplyEventNowType ==
    ASSUME NEW f \in FlowType1, NEW s \in Seqs
    PROVE  ApplyEventNow(f, s) \in FlowType1
<1>1. ApplyTask(s) \in Task /\ CursorTask(s) \in Task
  BY TaskTypes, NumberTypes
<1>2. f.queue \in Seq(Task)
  BY DEF FlowType1
<1>3. f.queue \o <<ApplyTask(s), CursorTask(s)>> \in Seq(Task)
  BY <1>1, <1>2, TwoMore
<1> QED
  BY <1>3, NumberTypes DEF ApplyEventNow, FlowType1

LEMMA ApplyEachType ==
    ASSUME NEW f \in FlowType1, NEW es \in Seq(Seqs)
    PROVE  ApplyEach(f, es) \in FlowType1
<1>1. PICK g : Unfolds(g, f, es) /\ ApplyEach(f, es) = g[Len(es)]
  BY ApplyEachUnfolds
<1> DEFINE P == {i \in Nat : i <= Len(es) => g[i] \in FlowType1}
<1>2. 0 \in P
  BY <1>1 DEF Unfolds
<1>3. ASSUME NEW n \in Nat, n \in P PROVE n + 1 \in P
  <2>1. SUFFICES ASSUME n + 1 <= Len(es) PROVE g[n + 1] \in FlowType1
    OBVIOUS
  <2>2. g[n + 1] = ApplyEventNow(g[n], es[n + 1])
    BY <1>1, <2>1 DEF Unfolds
  <2>3. g[n] \in FlowType1 /\ es[n + 1] \in Seqs
    BY <1>3, <2>1
  <2> QED
    BY <2>2, <2>3, ApplyEventNowType
<1>4. Len(es) \in P
  <2> HIDE DEF P
  <2> QED
    BY <1>2, <1>3, SetInduction
<1> QED
  BY <1>1, <1>4

LEMMA AdvanceToType ==
    ASSUME NEW f \in FlowType1, NEW n \in Seqs0
    PROVE  AdvanceTo(f, n) \in FlowType1
<1>1. f.queue \in Seq(Task) /\ CursorTask(n) \in Task
  BY TaskTypes DEF FlowType1
<1>2. Append(f.queue, CursorTask(n)) \in Seq(Task)
  BY <1>1, AppendFacts
<1> QED
  BY <1>2 DEF AdvanceTo, FlowType1

\* A task for a slot joins the queue.
LEMMA QueueGrows ==
    ASSUME NEW f \in FlowType1, NEW q \in Task
    PROVE  [f EXCEPT !.queue = Append(@, q)] \in FlowType1
<1>1. Append(f.queue, q) \in Seq(Task)
  BY AppendFacts DEF FlowType1
<1> QED
  BY <1>1 DEF FlowType1

\* A poll, an operation, a call and a socket take a new value.
LEMMA PollBecomesType ==
    ASSUME NetType, NEW t \in Tabs, NEW p, NEW qs \in SUBSET Poll, PollBecomes(t, p, qs), UNCHANGED socket
    PROVE  NetType'
BY DEF NetType, PollBecomes

LEMMA OpsFacts ==
    ASSUME EngineType, NEW t \in Tabs, NEW k, NEW o \in Op, ops' = [ops EXCEPT ![t][k] = o]
    PROVE  /\ ops' \in [Tabs -> [Slots -> Op]]
           /\ k \in Slots => ops'[t][k] = o
           /\ \A l \in Slots \ {k} : ops'[t][l] = ops[t][l]
           /\ \A u \in Tabs \ {t} : ops'[u] = ops[u]
<1>1. ops \in [Tabs -> [Slots -> Op]]
  BY DEF EngineType
<1> QED
  BY <1>1

LEMMA BootFacts ==
    ASSUME ShellType, NEW t \in Tabs, NEW k, NEW c \in Call, boot' = [boot EXCEPT ![t][k] = c]
    PROVE  /\ boot' \in [Tabs -> [Slots -> Call]]
           /\ k \in Slots => boot'[t][k] = c
           /\ \A l \in Slots \ {k} : boot'[t][l] = boot[t][l]
           /\ \A u \in Tabs \ {t} : boot'[u] = boot[u]
<1>1. boot \in [Tabs -> [Slots -> Call]]
  BY DEF ShellType
<1> QED
  BY <1>1

LEMMA SocketType ==
    ASSUME NetType, NEW t \in Tabs, NEW s \in Socket, SocketBecomes(t, s)
    PROVE  /\ socket' \in [Tabs -> Socket] /\ socket'[t] = s
           /\ \A u \in Tabs \ {t} : socket'[u] = socket[u]
BY DEF NetType, SocketBecomes

LEMMA ValueTypes ==
    /\ NoCall \in Call /\ NoOp \in Op /\ Down \in Socket
    /\ \A n \in Seqs0 : Ask(n) \in Poll
BY MaxSeqAssumption DEF NoCall, NoOp, Down, Ask, Call, Op, Socket, Poll, Seqs0

LEMMA SupersedeType ==
    ASSUME NEW ps \in SUBSET Poll
    PROVE  Supersede(ps) \in SUBSET Poll
BY DEF Supersede, Poll

LEMMA EnsurePollingType ==
    ASSUME NEW ps \in SUBSET Poll, NEW n \in Seqs0
    PROVE  EnsurePolling(ps, n) \in SUBSET Poll
BY ValueTypes DEF EnsurePolling

\* The shape of what changes in a resync.
LEMMA RoundType ==
    ASSUME EngineType, CacheType, FlowType, NEW t \in Tabs, NEW k \in Slots,
           NEW f \in FlowType1, NEW n \in Seqs0, Round(t, k, f, n)
    PROVE  /\ ops' \in [Tabs -> [Slots -> Op]] /\ FlowType'
           /\ failed' \in [Tabs -> BOOLEAN]
<1> DEFINE q == [f EXCEPT !.queue = Append(@, ResetTask(k))]
<1>1. Resetting(n) \in Op
  BY NumberTypes DEF Op, Resetting
<1>2. ops' = [ops EXCEPT ![t][k] = Resetting(n)] /\ FlowBecomes(t, q)
  BY DEF Round
<1>3. q \in FlowType1
  BY QueueGrows, TaskTypes
<1> HIDE DEF q
<1>4. failed' \in [Tabs -> BOOLEAN]
  BY DEF Round, CacheType
<1> QED
  BY <1>1, <1>2, <1>3, <1>4, OpsFacts, FlowBecomesFacts

LEMMA HandleResyncType ==
    ASSUME EngineType, CacheType, FlowType, NEW t \in Tabs, NEW h \in Seqs0, HandleResync(t, h)
    PROVE  /\ resyncHead' \in [Tabs -> Seqs0]
           /\ ops' \in [Tabs -> [Slots -> Op]] /\ FlowType'
           /\ failed' \in [Tabs -> BOOLEAN]
<1> DEFINE n == Max({resyncHead[t], h})
<1>1. resyncHead[t] \in Seqs0
  BY DEF EngineType
<1>2. n \in Seqs0
  BY <1>1, NumberTypes, MaxMinPair
<1>3. resyncHead' = [resyncHead EXCEPT ![t] = n]
  BY DEF HandleResync
<1>4. resyncHead' \in [Tabs -> Seqs0]
  <2> HIDE DEF n
  <2> QED BY <1>2, <1>3 DEF EngineType
<1>5. CASE ResyncInFlight(t)
  BY <1>4, <1>5 DEF HandleResync, EngineType, CacheType, FlowType, flow
<1>6. CASE ~ResyncInFlight(t)
  <2>1. PICK k \in FreeSlots(t) : Round(t, k, Flow(t), n)
    BY <1>6 DEF HandleResync
  <2>2. k \in Slots
    BY DEF FreeSlots
  <2> HIDE DEF n
  <2> QED BY <1>2, <1>4, <2>1, <2>2, FlowTypes, RoundType
<1> QED
  BY <1>5, <1>6

LEMMA RejectsType ==
    ASSUME EngineType, NEW t \in Tabs, NEW k \in Slots, Rejects(t, k)
    PROVE  ops' \in [Tabs -> [Slots -> Op]]
<1>1. CASE Abandoned(t, k)
  BY <1>1, OpsFacts, ValueTypes DEF Rejects, OpEnds
<1>2. CASE ~Abandoned(t, k)
  <2> DEFINE o == [ops[t][k] EXCEPT !.st = "sleep"]
  <2>1. o \in Op
    <3>1. ops[t][k] \in Op
      BY DEF EngineType
    <3>2. \A x \in Op : [x EXCEPT !.st = "sleep"] \in Op
      BY DEF Op
    <3> QED BY <3>1, <3>2
  <2>2. ops' = [ops EXCEPT ![t][k] = o]
    BY <1>2 DEF Rejects
  <2> HIDE DEF o
  <2> QED BY <2>1, <2>2, OpsFacts
<1> QED
  BY <1>1, <1>2

LEMMA ApplyBatchType ==
    ASSUME EngineType, FlowType, PastType, NEW t \in Tabs, NEW es \in Seq(Seqs), NEW n \in Seqs0,
           ApplyBatch(t, es, n), UNCHANGED <<wiped, late, used>>
    PROVE  FlowType' /\ buffer' \in [Tabs -> Seq(Seqs)] /\ PastType'
<1>1. Flow(t) \in FlowType1
  BY FlowTypes
<1>2. CASE Buffers(t)
  <2>1. AdvanceTo(Flow(t), n) \in FlowType1
    BY <1>1, AdvanceToType
  <2>2. FlowType'
    BY <1>2, <2>1, FlowBecomesFacts DEF ApplyBatch
  <2>3. buffer' \in [Tabs -> Seq(Seqs)]
    <3>1. buffer[t] \o es \in Seq(Seqs)
      BY DEF EngineType
    <3> QED BY <1>2, <3>1 DEF ApplyBatch, EngineType
  <2>4. skipped' \in [Tabs -> SUBSET Seqs]
    <3>1. (lastSeq[t] + 1)..n \subseteq Seqs
      BY NumberTypes DEF FlowType
    <3> QED BY <1>2, <3>1 DEF ApplyBatch, Skips, PastType
  <2> QED BY <2>2, <2>3, <2>4 DEF PastType
<1>3. CASE ~Buffers(t)
  <2>1. AdvanceTo(ApplyEach(Flow(t), es), n) \in FlowType1
    BY <1>1, AdvanceToType, ApplyEachType
  <2>2. FlowType'
    BY <1>3, <2>1, FlowBecomesFacts DEF ApplyBatch
  <2> QED BY <1>3, <2>2 DEF ApplyBatch, EngineType, PastType
<1> QED
  BY <1>2, <1>3

\* stop() leaves nothing of the lifecycle.
LEMMA StopType ==
    ASSUME EngineType, NetType, NEW t \in Tabs, Stop(t)
    PROVE  EngineType' /\ NetType'
<1>1. running' \in [Tabs -> BOOLEAN] /\ resyncHead' \in [Tabs -> Seqs0] /\ buffer' \in [Tabs -> Seq(Seqs)]
  BY NumberTypes DEF Stop, EngineType
<1>2. ops' \in [Tabs -> [Slots -> Op]]
  <2>1. [k \in Slots |-> [ops[t][k] EXCEPT !.cur = FALSE]] \in [Slots -> Op]
    <3>1. ops[t] \in [Slots -> Op]
      BY DEF EngineType
    <3>2. \A o \in Op : [o EXCEPT !.cur = FALSE] \in Op
      BY DEF Op
    <3> QED BY <3>1, <3>2
  <2> QED BY <2>1 DEF Stop, EngineType
<1>3. NetType'
  <2>1. Supersede(polls[t]) \in SUBSET Poll
    BY SupersedeType DEF NetType
  <2> QED BY <2>1, ValueTypes, SocketType DEF Stop, NetType
<1> QED
  BY <1>1, <1>2, <1>3 DEF EngineType

LEMMA StartSyncType ==
    ASSUME ShellType, NEW t \in Tabs, StartSync(t)
    PROVE  syncing' \in [Tabs -> BOOLEAN] /\ boot' \in [Tabs -> [Slots -> Call]]
<1> DEFINE c == [st |-> "prelude", cur |-> TRUE, read |-> 0]
<1>1. c \in Call
  BY NumberTypes DEF Call
<1>2. boot' \in [Tabs -> [Slots -> Call]]
  <2>1. CASE syncing[t]
    BY <2>1 DEF StartSync, ShellType
  <2>2. CASE ~syncing[t]
    <3>1. PICK k \in FreeCalls(t) : boot' = [boot EXCEPT ![t][k] = c]
      BY <2>2 DEF StartSync
    <3> QED BY <1>1, <3>1, BootFacts
  <2> QED BY <2>1, <2>2
<1> QED
  BY <1>2 DEF StartSync, ShellType

LEMMA CallRejectsType ==
    ASSUME ShellType, NEW t \in Tabs, NEW k, CallRejects(t, k), UNCHANGED app
    PROVE  ShellType'
BY BootFacts, ValueTypes DEF CallRejects, CallEnds, ShellType

-----------------------------------------------------------------------------
(* Types: one lemma per action.                                            *)

LEMMA ApplyRunsType ==
    ASSUME TypeOK, NEW t \in Tabs, ApplyRuns(t)
    PROVE  TypeOK'
<1>1. ServerType' /\ ShellType' /\ EngineType' /\ NetType' /\ PastType'
  BY DEF TypeOK, server, shell, engine, net, gone, ServerType, ShellType, EngineType, NetType, PastType, ApplyRuns
<1>2. DiskType'
  <2>1. Arg(t) \in Seqs
    BY TaskKinds DEF ApplyRuns, HeadIs, Arg, TypeOK, FlowType
  <2> QED BY <2>1 DEF ApplyRuns, TypeOK, DiskType
<1>3. CacheType'
  <2>1. Block(t, Arg(t)) => blocked' \in [Tabs -> Seqs0]
    <3>1. queue[t][1] \in Task /\ Arg(t) \in Seqs /\ blocked[t] \in Seqs0
      BY TaskKinds DEF ApplyRuns, HeadIs, Arg, TypeOK, FlowType, CacheType
    <3>2. (IF blocked[t] = 0 THEN Arg(t) ELSE Min({blocked[t], Arg(t)})) \in Seqs0
      BY <3>1, NumberTypes, MaxMinPair
    <3> QED BY <3>2 DEF Block, TypeOK, CacheType
  <2> QED BY <2>1 DEF ApplyRuns, TypeOK, CacheType, shell
<1>4. FlowType'
  BY TaskEndsFlow DEF ApplyRuns, TypeOK, HeadIs
<1> QED
  BY <1>1, <1>2, <1>3, <1>4 DEF TypeOK

LEMMA ApplyFailsType ==
    ASSUME TypeOK, NEW t \in Tabs, ApplyFails(t)
    PROVE  TypeOK'
<1>1. ServerType' /\ DiskType' /\ ShellType' /\ EngineType' /\ NetType'
  BY DEF TypeOK, server, disk, shell, engine, net, ServerType, DiskType, ShellType, EngineType, NetType, ApplyFails
<1>2. CacheType'
  <2>1. Block(t, Arg(t)) => blocked' \in [Tabs -> Seqs0]
    <3>1. queue[t][1] \in Task /\ Arg(t) \in Seqs /\ blocked[t] \in Seqs0
      BY TaskKinds DEF ApplyFails, HeadIs, Arg, TypeOK, FlowType, CacheType
    <3>2. (IF blocked[t] = 0 THEN Arg(t) ELSE Min({blocked[t], Arg(t)})) \in Seqs0
      BY <3>1, NumberTypes, MaxMinPair
    <3> QED BY <3>2 DEF Block, TypeOK, CacheType
  <2> QED BY <2>1 DEF ApplyFails, TypeOK, CacheType, shell
<1>3. FlowType'
  BY TaskEndsFlow DEF ApplyFails, TypeOK, HeadIs
<1>4. PastType'
  BY HappensType DEF ApplyFails, TypeOK, Events, gone
<1> QED
  BY <1>1, <1>2, <1>3, <1>4 DEF TypeOK

LEMMA CursorReadsType ==
    ASSUME TypeOK, NEW t \in Tabs, CursorReads(t)
    PROVE  TypeOK'
<1>1. ServerType' /\ DiskType' /\ ShellType' /\ EngineType' /\ NetType' /\ CacheType' /\ PastType'
  BY DEF TypeOK, server, disk, shell, engine, net, cache, gone, ServerType, DiskType, ShellType, EngineType, NetType, CacheType, PastType, CursorReads
<1>2. FlowType'
  <2>1. CASE TaskEnds(t)
    BY <2>1, TaskEndsFlow DEF CursorReads, TypeOK, HeadIs
  <2>2. CASE TaskMoves(t, "put")
    <3>1. queue[t][1] \in Task /\ queue[t][1].kind = "cursor" /\ queue[t] # <<>>
      BY DEF CursorReads, HeadIs, TypeOK, FlowType
    <3>2. [queue[t][1] EXCEPT !.step = "put"] \in Task
      BY <3>1 DEF Task
    <3>3. queue' \in [Tabs -> Seq(Task)]
      BY <2>2, <3>1, <3>2, TaskMovesFacts DEF TypeOK
    <3> QED BY <3>3 DEF CursorReads, TypeOK, FlowType
  <2> QED BY <2>1, <2>2 DEF CursorReads
<1> QED
  BY <1>1, <1>2 DEF TypeOK

LEMMA CursorPutsType ==
    ASSUME TypeOK, NEW t \in Tabs, CursorPuts(t)
    PROVE  TypeOK'
<1>1. ServerType' /\ ShellType' /\ EngineType' /\ NetType' /\ CacheType' /\ PastType'
  BY DEF TypeOK, server, shell, engine, net, cache, gone, ServerType, ShellType, EngineType, NetType, CacheType, PastType, CursorPuts
<1>2. DiskType'
  <2>1. Arg(t) \in Seqs0
    BY TaskKinds DEF CursorPuts, HeadIs, Arg, TypeOK, FlowType
  <2> QED BY <2>1 DEF CursorPuts, TypeOK, DiskType
<1>3. FlowType'
  BY TaskEndsFlow DEF CursorPuts, TypeOK, HeadIs
<1> QED
  BY <1>1, <1>2, <1>3 DEF TypeOK

LEMMA CursorFailsType ==
    ASSUME TypeOK, NEW t \in Tabs, CursorFails(t)
    PROVE  TypeOK'
<1>1. ServerType' /\ DiskType' /\ ShellType' /\ EngineType' /\ NetType' /\ CacheType'
  BY DEF TypeOK, server, disk, shell, engine, net, cache, ServerType, DiskType, ShellType, EngineType, NetType, CacheType, CursorFails
<1>2. FlowType'
  BY TaskEndsFlow DEF CursorFails, TypeOK
<1>3. PastType'
  BY HappensType DEF CursorFails, TypeOK, Events, gone
<1> QED
  BY <1>1, <1>2, <1>3 DEF TypeOK

LEMMA ResetClearsType ==
    ASSUME TypeOK, NEW t \in Tabs, ResetClears(t)
    PROVE  TypeOK'
<1>1. ServerType' /\ ShellType' /\ EngineType' /\ NetType' /\ CacheType'
  BY DEF TypeOK, server, shell, engine, net, cache, ServerType, ShellType, EngineType, NetType, CacheType, ResetClears
<1>2. DiskType'
  BY DEF ResetClears, TypeOK, DiskType, ServerType
<1>3. FlowType'
  <2>1. queue[t][1] \in Task /\ queue[t][1].kind = "reset" /\ queue[t] # <<>>
    BY DEF ResetClears, HeadIs, TypeOK, FlowType
  <2>2. \A step \in {"cleared", "dirty"} : [queue[t][1] EXCEPT !.step = step] \in Task
    BY <2>1 DEF Task
  <2>3. \A step \in {"cleared", "dirty"} : TaskMoves(t, step) => queue' \in [Tabs -> Seq(Task)]
    BY <2>1, <2>2, TaskMovesFacts DEF TypeOK
  <2> QED BY <2>3 DEF ResetClears, TypeOK, FlowType
<1>4. PastType'
  <2>1. CASE Happens("storeFail") /\ UNCHANGED wiped
    BY <2>1, HappensType DEF ResetClears, TypeOK, Events
  <2>2. CASE wiped' = head /\ UNCHANGED used
    BY <2>2, NumberTypes DEF ResetClears, TypeOK, PastType, ServerType, gone
  <2> QED BY <2>1, <2>2 DEF ResetClears
<1> QED
  BY <1>1, <1>2, <1>3, <1>4 DEF TypeOK

LEMMA ResetDeletesType ==
    ASSUME TypeOK, NEW t \in Tabs, ResetDeletes(t)
    PROVE  TypeOK'
<1>1. ServerType' /\ ShellType' /\ NetType'
  BY DEF TypeOK, server, shell, net, ServerType, ShellType, NetType, ResetDeletes
<1>2. DiskType'
  BY NumberTypes DEF ResetDeletes, TypeOK, DiskType
<1>3. EngineType'
  <2>1. Arg(t) \in Slots
    BY TaskKinds DEF ResetDeletes, HeadIs, Arg, TypeOK, FlowType
  <2>2. ops' \in [Tabs -> [Slots -> Op]]
    <3>1. CASE Rejects(t, Arg(t))
      BY <2>1, <3>1, RejectsType DEF TypeOK
    <3>2. CASE ops' = [ops EXCEPT ![t][Arg(t)] = [@ EXCEPT !.st = "fetch", !.at = head]]
      <4> DEFINE o == [ops[t][Arg(t)] EXCEPT !.st = "fetch", !.at = head]
      <4>1. ops[t][Arg(t)] \in Op /\ head \in Seqs0
        BY <2>1 DEF TypeOK, EngineType, ServerType
      <4>2. o \in Op
        BY <4>1 DEF Op
      <4>3. ops' = [ops EXCEPT ![t][Arg(t)] = o]
        BY <2>1, <3>2 DEF TypeOK, EngineType
      <4> HIDE DEF o
      <4> QED BY <4>2, <4>3, OpsFacts DEF TypeOK
    <3> QED BY <3>1, <3>2 DEF ResetDeletes, ResetEnds
  <2> QED BY <2>2 DEF ResetDeletes, TypeOK, EngineType
<1>4. CacheType'
  <2>1. failed' = failed \/ failed' = [failed EXCEPT ![t] = @ \/ NewestReset(t)]
    BY DEF ResetDeletes, ResetEnds
  <2>2. failed' \in [Tabs -> BOOLEAN]
    BY <2>1 DEF TypeOK, CacheType, NewestReset
  <2>3. blocked' = blocked \/ blocked' = [blocked EXCEPT ![t] = IF NewestReset(t) THEN 0 ELSE @]
    BY DEF ResetDeletes, ResetEnds
  <2>4. blocked' \in [Tabs -> Seqs0]
    BY <2>3, NumberTypes DEF TypeOK, CacheType
  <2> QED BY <2>2, <2>4 DEF CacheType
<1>5. FlowType'
  BY TaskEndsFlow DEF ResetDeletes, ResetEnds, TypeOK, HeadIs
<1>6. PastType'
  <2>1. CASE Happens("storeFail")
    BY <2>1, HappensType DEF ResetDeletes, TypeOK, Events
  <2>2. CASE UNCHANGED used
    BY <2>2 DEF ResetDeletes, TypeOK, PastType, gone
  <2> QED BY <2>1, <2>2 DEF ResetDeletes
<1> QED
  BY <1>1, <1>2, <1>3, <1>4, <1>5, <1>6 DEF TypeOK

LEMMA PreludeEndsType ==
    ASSUME TypeOK, NEW t \in Tabs, NEW k \in Slots, PreludeEnds(t, k)
    PROVE  TypeOK'
<1>1. ServerType' /\ DiskType' /\ EngineType' /\ NetType' /\ CacheType' /\ PastType'
  BY DEF TypeOK, server, disk, engine, net, cache, gone, ServerType, DiskType, EngineType, NetType, CacheType, PastType, PreludeEnds
<1>2. ShellType'
  <2> DEFINE c == [boot[t][k] EXCEPT !.st = "queued"]
  <2>1. boot[t][k] \in Call
    BY DEF TypeOK, ShellType
  <2>2. c \in Call
    BY <2>1 DEF Call
  <2>3. boot' = [boot EXCEPT ![t][k] = c]
    BY DEF PreludeEnds
  <2> HIDE DEF c
  <2> QED BY <2>2, <2>3, BootFacts DEF PreludeEnds, TypeOK, ShellType
<1>3. FlowType'
  <2>1. Append(queue[t], SeedTask(k)) \in Seq(Task)
    BY TaskTypes, AppendFacts DEF TypeOK, FlowType
  <2> QED BY <2>1 DEF PreludeEnds, TypeOK, FlowType
<1> QED
  BY <1>1, <1>2, <1>3 DEF TypeOK

LEMMA PreludeFailsType ==
    ASSUME TypeOK, NEW t \in Tabs, NEW k \in Slots, PreludeFails(t, k)
    PROVE  TypeOK'
<1>1. ServerType' /\ DiskType' /\ EngineType' /\ NetType' /\ CacheType' /\ FlowType'
  BY DEF TypeOK, server, disk, engine, net, cache, flow, ServerType, DiskType, EngineType, NetType, CacheType, FlowType, PreludeFails
<1>2. ShellType'
  BY CallRejectsType DEF PreludeFails, TypeOK
<1>3. PastType'
  <2>1. CASE Happens("storeFail")
    BY <2>1, HappensType DEF PreludeFails, TypeOK, Events
  <2>2. CASE UNCHANGED used
    BY <2>2 DEF PreludeFails, TypeOK, PastType, gone
  <2> QED BY <2>1, <2>2 DEF PreludeFails
<1> QED
  BY <1>1, <1>2, <1>3 DEF TypeOK

LEMMA SeedReadsType ==
    ASSUME TypeOK, NEW t \in Tabs, SeedReads(t)
    PROVE  TypeOK'
<1>1. ServerType' /\ DiskType' /\ EngineType' /\ NetType' /\ CacheType' /\ PastType'
  BY DEF TypeOK, server, disk, engine, net, cache, gone, ServerType, DiskType, EngineType, NetType, CacheType, PastType, SeedReads
<1>2. ShellType'
  <2>1. CASE CallRejects(t, Arg(t))
    BY <2>1, CallRejectsType DEF SeedReads, TypeOK
  <2>2. CASE boot' = [boot EXCEPT ![t][Arg(t)] = [@ EXCEPT !.st = "read", !.read = cursor]] /\ UNCHANGED syncing
    <3> DEFINE c == [boot[t][Arg(t)] EXCEPT !.st = "read", !.read = cursor]
    <3>1. Arg(t) \in Slots /\ cursor \in Seqs0
      BY TaskKinds DEF SeedReads, HeadIs, Arg, TypeOK, FlowType, DiskType
    <3>2. boot[t][Arg(t)] \in Call
      BY <3>1 DEF TypeOK, ShellType
    <3>3. c \in Call
      BY <3>1, <3>2 DEF Call
    <3>4. boot' = [boot EXCEPT ![t][Arg(t)] = c]
      BY <2>2
    <3> HIDE DEF c
    <3> QED BY <2>2, <3>3, <3>4, BootFacts DEF SeedReads, TypeOK, ShellType
  <2> QED BY <2>1, <2>2 DEF SeedReads
<1>3. FlowType'
  BY TaskEndsFlow DEF SeedReads, TypeOK, HeadIs
<1> QED
  BY <1>1, <1>2, <1>3 DEF TypeOK

LEMMA SeedFailsType ==
    ASSUME TypeOK, NEW t \in Tabs, SeedFails(t)
    PROVE  TypeOK'
<1>1. ServerType' /\ DiskType' /\ EngineType' /\ NetType' /\ CacheType'
  BY DEF TypeOK, server, disk, engine, net, cache, ServerType, DiskType, EngineType, NetType, CacheType, SeedFails
<1>2. ShellType'
  BY CallRejectsType DEF SeedFails, TypeOK
<1>3. FlowType'
  BY TaskEndsFlow DEF SeedFails, TypeOK, HeadIs
<1>4. PastType'
  BY HappensType DEF SeedFails, TypeOK, Events, gone
<1> QED
  BY <1>1, <1>2, <1>3, <1>4 DEF TypeOK

LEMMA SeedUsedType ==
    ASSUME TypeOK, NEW t \in Tabs, NEW k \in Slots, SeedUsed(t, k)
    PROVE  TypeOK'
<1>1. ServerType' /\ DiskType' /\ CacheType'
  BY DEF TypeOK, server, disk, cache, ServerType, DiskType, CacheType, SeedUsed
<1>2. ShellType'
  BY BootFacts, ValueTypes DEF SeedUsed, CallEnds, TypeOK, ShellType
<1>3. EngineType'
  BY DEF SeedUsed, TypeOK, EngineType
<1>4. NetType'
  <2>1. EnsurePolling(polls[t], boot[t][k].read) \in SUBSET Poll
    BY EnsurePollingType DEF TypeOK, NetType, ShellType, Call
  <2> QED BY <2>1 DEF SeedUsed, TypeOK, NetType
<1>5. FlowType'
  <2>1. boot[t][k].read \in Seqs0 /\ lastSeq[t] \in Seqs0
    BY DEF TypeOK, ShellType, Call, FlowType
  <2>2. SeedOf(t, boot[t][k].read) \in Seqs0
    BY <2>1, NumberTypes, MaxMinPair DEF SeedOf
  <2>3. 1..boot[t][k].read \subseteq Seqs
    BY <2>1, NumberTypes DEF Seqs, Seqs0
  <2> QED BY <2>2, <2>3 DEF SeedUsed, TypeOK, FlowType
<1>6. PastType'
  <2>1. boot[t][k].read \in Seqs0 /\ lastSeq[t] \in Seqs0
    BY DEF TypeOK, ShellType, Call, FlowType
  <2>2. (lastSeq[t] + 1)..boot[t][k].read \subseteq Seqs
    BY <2>1, NumberTypes
  <2>3. skipped' \in [Tabs -> SUBSET Seqs]
    BY <2>2 DEF SeedUsed, Skips, TypeOK, PastType, gone
  <2>4. late' \in BOOLEAN
    BY DEF SeedUsed, TypeOK, PastType, gone
  <2> QED BY <2>3, <2>4 DEF SeedUsed, TypeOK, PastType
<1> QED
  BY <1>1, <1>2, <1>3, <1>4, <1>5, <1>6 DEF TypeOK

LEMMA LockType ==
    ASSUME TypeOK, NEW t \in Tabs, Lock(t)
    PROVE  TypeOK'
<1>1. ServerType' /\ DiskType' /\ CacheType' /\ FlowType'
  BY DEF TypeOK, server, disk, cache, flow, ServerType, DiskType, CacheType, FlowType, Lock
<1>2. ShellType'
  <2>1. [k \in Slots |-> [boot[t][k] EXCEPT !.cur = FALSE]] \in [Slots -> Call]
    <3>1. boot[t] \in [Slots -> Call]
      BY DEF TypeOK, ShellType
    <3>2. \A c \in Call : [c EXCEPT !.cur = FALSE] \in Call
      BY DEF Call
    <3> QED BY <3>1, <3>2
  <2> QED BY <2>1 DEF Lock, TypeOK, ShellType
<1>3. EngineType'
  BY StopType DEF Lock, TypeOK
<1>4. NetType'
  BY StopType DEF Lock, TypeOK
<1>5. PastType'
  BY HappensType DEF Lock, TypeOK, Events, gone
<1> QED
  BY <1>1, <1>2, <1>3, <1>4, <1>5 DEF TypeOK

LEMMA UnlockType ==
    ASSUME TypeOK, NEW t \in Tabs, Unlock(t)
    PROVE  TypeOK'
<1>1. ServerType' /\ DiskType' /\ EngineType' /\ NetType' /\ CacheType' /\ FlowType' /\ PastType'
  BY DEF TypeOK, server, disk, engine, net, cache, flow, gone, ServerType, DiskType, EngineType, NetType, CacheType, FlowType, PastType, Unlock
<1>2. ShellType'
  BY StartSyncType DEF Unlock, TypeOK, ShellType
<1> QED
  BY <1>1, <1>2 DEF TypeOK

LEMMA OpenType ==
    ASSUME TypeOK, NEW t \in Tabs, Open(t)
    PROVE  TypeOK'
<1>1. ServerType' /\ DiskType' /\ EngineType' /\ NetType' /\ CacheType' /\ FlowType' /\ PastType'
  BY DEF TypeOK, server, disk, engine, net, cache, flow, gone, ServerType, DiskType, EngineType, NetType, CacheType, FlowType, PastType, Open
<1>2. ShellType'
  BY StartSyncType DEF Open, TypeOK, ShellType
<1> QED
  BY <1>1, <1>2 DEF TypeOK

LEMMA CrashType ==
    ASSUME TypeOK, NEW t \in Tabs, Crash(t)
    PROVE  TypeOK'
<1>1. ServerType' /\ DiskType'
  BY DEF TypeOK, server, disk, ServerType, DiskType, Crash
<1>2. ShellType'
  BY ValueTypes DEF Crash, TypeOK, ShellType
<1>3. EngineType'
  BY ValueTypes, NumberTypes DEF Crash, TypeOK, EngineType
<1>4. NetType'
  BY ValueTypes, SocketType DEF Crash, TypeOK, NetType
<1>5. CacheType'
  BY NumberTypes DEF Crash, TypeOK, CacheType
<1>6. FlowType'
  <2>1. [last |-> 0, queue |-> <<>>, seen |-> {}] \in FlowType1
    BY NumberTypes DEF FlowType1
  <2> QED BY <2>1, FlowBecomesFacts DEF Crash, TypeOK
<1>7. PastType'
  BY HappensType DEF Crash, TypeOK, Events, gone
<1> QED
  BY <1>1, <1>2, <1>3, <1>4, <1>5, <1>6, <1>7 DEF TypeOK

LEMMA PublishType ==
    ASSUME TypeOK, Publish
    PROVE  TypeOK'
<1>1. DiskType' /\ ShellType' /\ EngineType' /\ NetType' /\ CacheType' /\ FlowType' /\ PastType'
  BY DEF TypeOK, disk, shell, engine, net, cache, flow, gone, DiskType, ShellType, EngineType, NetType, CacheType, FlowType, PastType, Publish
<1>2. ServerType'
  BY NumberTypes DEF Publish, TypeOK, ServerType, Seqs0
<1> QED
  BY <1>1, <1>2 DEF TypeOK

LEMMA ExpireType ==
    ASSUME TypeOK, Expire
    PROVE  TypeOK'
<1>1. DiskType' /\ ShellType' /\ EngineType' /\ NetType' /\ CacheType' /\ FlowType' /\ PastType'
  BY DEF TypeOK, disk, shell, engine, net, cache, flow, gone, DiskType, ShellType, EngineType, NetType, CacheType, FlowType, PastType, Expire
<1>2. ServerType'
  BY NumberTypes DEF Expire, TypeOK, ServerType
<1> QED
  BY <1>1, <1>2 DEF TypeOK

LEMMA ConnectsType ==
    ASSUME TypeOK, NEW t \in Tabs, Connects(t)
    PROVE  TypeOK'
<1>1. ServerType' /\ DiskType' /\ ShellType' /\ EngineType' /\ CacheType' /\ FlowType'
  BY DEF TypeOK, server, disk, shell, engine, cache, flow, ServerType, DiskType, ShellType, EngineType, CacheType, FlowType, Connects
<1>2. NetType'
  <2>1. [Down EXCEPT !.st = "auth", !.since = lastSeq[t]] \in Socket
    BY ValueTypes DEF TypeOK, FlowType, Socket
  <2> QED BY <2>1, SocketType DEF Connects, TypeOK, NetType
<1>3. PastType'
  BY HappensType DEF Connects, TypeOK, Events, gone
<1> QED
  BY <1>1, <1>2, <1>3 DEF TypeOK

LEMMA ServerGreetsType ==
    ASSUME TypeOK, NEW t \in Tabs, ServerGreets(t)
    PROVE  TypeOK'
<1>1. ServerType' /\ DiskType' /\ ShellType' /\ EngineType' /\ CacheType' /\ FlowType' /\ PastType'
  BY DEF TypeOK, server, disk, shell, engine, cache, flow, gone, ServerType, DiskType, ShellType, EngineType, CacheType, FlowType, PastType, ServerGreets
<1>2. NetType'
  <2> DEFINE s == socket[t]
             r == [s EXCEPT !.st = "hello", !.resync = s.since < low, !.last = head,
                            !.next = 1 + IF s.since < low THEN head ELSE s.since]
  <2>1. s \in Socket /\ head \in Seqs0
    BY DEF TypeOK, NetType, ServerType
  <2>2. \A n \in Seqs0 : 1 + n \in 1..(MaxSeq + 1)
    BY NumberTypes DEF Seqs0
  <2>3. (1 + IF s.since < low THEN head ELSE s.since) \in 1..(MaxSeq + 1)
    BY <2>1, <2>2 DEF Socket
  <2>4. r \in Socket
    <3>1. \A x \in Socket, b \in BOOLEAN, l \in Seqs0, n \in 1..(MaxSeq + 1) :
             [x EXCEPT !.st = "hello", !.resync = b, !.last = l, !.next = n] \in Socket
      BY DEF Socket
    <3>2. (s.since < low) \in BOOLEAN
      OBVIOUS
    <3> QED BY <2>1, <2>3, <3>1, <3>2, Zenon
  <2>5. SocketBecomes(t, r)
    BY DEF ServerGreets
  <2> HIDE DEF r
  <2> QED BY <2>4, <2>5, SocketType DEF ServerGreets, TypeOK, NetType
<1> QED
  BY <1>1, <1>2 DEF TypeOK

LEMMA HelloArrivesType ==
    ASSUME TypeOK, NEW t \in Tabs, HelloArrives(t)
    PROVE  TypeOK'
<1>1. ServerType' /\ DiskType' /\ ShellType' /\ PastType'
  BY DEF TypeOK, server, disk, shell, gone, ServerType, DiskType, ShellType, PastType, HelloArrives
<1>2. EngineType'
  <2>1. ops' \in [Tabs -> [Slots -> Op]] /\ resyncHead' \in [Tabs -> Seqs0]
    <3>1. socket[t].last \in Seqs0
      BY DEF TypeOK, NetType, Socket
    <3>2. CASE HandleResync(t, socket[t].last)
      BY <3>1, <3>2, HandleResyncType DEF TypeOK
    <3> QED BY <3>2 DEF HelloArrives, TypeOK, EngineType
  <2> QED BY <2>1 DEF HelloArrives, TypeOK, EngineType
<1>3. NetType'
  <2>1. [socket[t] EXCEPT !.st = "open"] \in Socket
    BY DEF TypeOK, NetType, Socket
  <2>2. Supersede(polls[t]) \in SUBSET Poll
    BY SupersedeType DEF TypeOK, NetType
  <2> QED BY <2>1, <2>2, SocketType DEF HelloArrives, TypeOK, NetType
<1>4. CacheType'
  <2>1. socket[t].last \in Seqs0
    BY DEF TypeOK, NetType, Socket
  <2>2. CASE HandleResync(t, socket[t].last)
    BY <2>1, <2>2, HandleResyncType DEF HelloArrives, TypeOK, CacheType
  <2> QED BY <2>2 DEF HelloArrives, TypeOK, CacheType
<1>5. FlowType'
  <2>1. socket[t].last \in Seqs0
    BY DEF TypeOK, NetType, Socket
  <2>2. CASE HandleResync(t, socket[t].last)
    BY <2>1, <2>2, HandleResyncType DEF TypeOK
  <2> QED BY <2>2 DEF HelloArrives, TypeOK, FlowType, flow
<1> QED
  BY <1>1, <1>2, <1>3, <1>4, <1>5 DEF TypeOK

LEMMA EventArrivesType ==
    ASSUME TypeOK, NEW t \in Tabs, EventArrives(t)
    PROVE  TypeOK'
<1>1. ServerType' /\ DiskType' /\ ShellType' /\ CacheType'
  BY DEF TypeOK, server, disk, shell, cache, ServerType, DiskType, ShellType, CacheType, EventArrives
<1>2. EngineType'
  <2>1. socket[t] \in Socket /\ head \in Seqs0
    BY DEF TypeOK, NetType, ServerType
  <2>2. socket[t].next \in Seqs
    BY <2>1, NumberTypes DEF EventArrives, Socket, Seqs, Seqs0
  <2>3. <<socket[t].next>> \in Seq(Seqs)
    BY <2>2
  <2>4. ApplyBatch(t, <<socket[t].next>>, 0) /\ UNCHANGED <<wiped, late, used>>
    BY DEF EventArrives
  <2> QED BY <2>3, <2>4, NumberTypes, ApplyBatchType DEF EventArrives, TypeOK, EngineType
<1>3. NetType'
  <2>1. socket[t] \in Socket /\ head \in Seqs0
    BY DEF TypeOK, NetType, ServerType
  <2>2. socket[t].next + 1 \in 1..(MaxSeq + 1)
    BY <2>1, NumberTypes DEF EventArrives, Socket, Seqs0
  <2>3. [socket[t] EXCEPT !.next = @ + 1] \in Socket
    BY <2>1, <2>2 DEF Socket
  <2> QED BY <2>3, SocketType DEF EventArrives, TypeOK, NetType
<1>4. FlowType'
  <2>1. socket[t] \in Socket /\ head \in Seqs0
    BY DEF TypeOK, NetType, ServerType
  <2>2. socket[t].next \in Seqs
    BY <2>1, NumberTypes DEF EventArrives, Socket, Seqs, Seqs0
  <2>3. <<socket[t].next>> \in Seq(Seqs)
    BY <2>2
  <2>4. ApplyBatch(t, <<socket[t].next>>, 0) /\ UNCHANGED <<wiped, late, used>>
    BY DEF EventArrives
  <2> QED BY <2>3, <2>4, NumberTypes, ApplyBatchType DEF TypeOK
<1>5. PastType'
  <2>1. socket[t] \in Socket /\ head \in Seqs0
    BY DEF TypeOK, NetType, ServerType
  <2>2. socket[t].next \in Seqs
    BY <2>1, NumberTypes DEF EventArrives, Socket, Seqs, Seqs0
  <2>3. <<socket[t].next>> \in Seq(Seqs)
    BY <2>2
  <2>4. ApplyBatch(t, <<socket[t].next>>, 0) /\ UNCHANGED <<wiped, late, used>>
    BY DEF EventArrives
  <2> QED BY <2>3, <2>4, NumberTypes, ApplyBatchType DEF TypeOK
<1> QED
  BY <1>1, <1>2, <1>3, <1>4, <1>5 DEF TypeOK

LEMMA SocketDropsType ==
    ASSUME TypeOK, NEW t \in Tabs, SocketDrops(t)
    PROVE  TypeOK'
<1>1. ServerType' /\ DiskType' /\ ShellType' /\ EngineType' /\ CacheType' /\ FlowType'
  BY DEF TypeOK, server, disk, shell, engine, cache, flow, ServerType, DiskType, ShellType, EngineType, CacheType, FlowType, SocketDrops
<1>2. NetType'
  <2>1. EnsurePolling(polls[t], lastSeq[t]) \in SUBSET Poll
    BY EnsurePollingType DEF TypeOK, NetType, FlowType
  <2> QED BY <2>1, ValueTypes, SocketType DEF SocketDrops, TypeOK, NetType
<1>3. PastType'
  BY HappensType DEF SocketDrops, TypeOK, Events, gone
<1> QED
  BY <1>1, <1>2, <1>3 DEF TypeOK

LEMMA RefetchedType ==
    ASSUME TypeOK, NEW t \in Tabs, NEW k \in Slots, Refetched(t, k)
    PROVE  TypeOK'
<1> DEFINE o == ops[t][k]
           f == [Flow(t) EXCEPT !.seen = @ \cup 1..o.at]
<1>1. ServerType' /\ DiskType' /\ ShellType' /\ NetType' /\ PastType' /\ UNCHANGED <<running, blocked>>
  BY DEF TypeOK, server, disk, shell, net, gone, ServerType, DiskType, ShellType, NetType, PastType, Refetched
<1>2. o \in Op
  BY DEF TypeOK, EngineType
<1>3. f \in FlowType1 /\ o.target \in Seqs0
  <2>1. 1..o.at \subseteq Seqs /\ o.target \in Seqs0
    BY <1>2, NumberTypes DEF Op, Seqs, Seqs0
  <2> QED BY <2>1, FlowTypes DEF TypeOK, FlowType1
<1>4. resyncHead[t] \in Seqs0 /\ buffer[t] \in Seq(Seqs)
  BY DEF TypeOK, EngineType
<1>5. \/ OpEnds(t, k) /\ UNCHANGED <<flow, failed, resyncHead, buffer>>
      \/ Round(t, k, f, resyncHead[t]) /\ UNCHANGED <<resyncHead, buffer>>
      \/ /\ FlowBecomes(t, ApplyEach(AdvanceTo(f, o.target), buffer[t]))
         /\ buffer' = [buffer EXCEPT ![t] = <<>>]
         /\ resyncHead' = [resyncHead EXCEPT ![t] = 0]
         /\ OpEnds(t, k) /\ UNCHANGED failed
  BY DEF Refetched
<1> HIDE DEF o, f
<1>6. CASE OpEnds(t, k) /\ UNCHANGED <<flow, failed, resyncHead, buffer>>
  <2>1. ops' \in [Tabs -> [Slots -> Op]]
    BY <1>6, OpsFacts, ValueTypes DEF OpEnds, TypeOK
  <2> QED BY <1>1, <1>6, <2>1 DEF TypeOK, FlowType, CacheType, EngineType, flow
<1>7. CASE Round(t, k, f, resyncHead[t]) /\ UNCHANGED <<resyncHead, buffer>>
  <2>1. ops' \in [Tabs -> [Slots -> Op]] /\ FlowType' /\ failed' \in [Tabs -> BOOLEAN]
    BY <1>3, <1>4, <1>7, RoundType DEF TypeOK
  <2> QED BY <1>1, <1>7, <2>1 DEF TypeOK, EngineType, CacheType
<1>8. CASE /\ FlowBecomes(t, ApplyEach(AdvanceTo(f, o.target), buffer[t]))
           /\ buffer' = [buffer EXCEPT ![t] = <<>>]
           /\ resyncHead' = [resyncHead EXCEPT ![t] = 0]
           /\ OpEnds(t, k) /\ UNCHANGED failed
  <2>1. ApplyEach(AdvanceTo(f, o.target), buffer[t]) \in FlowType1
    BY <1>3, <1>4, AdvanceToType, ApplyEachType
  <2>2. FlowType'
    BY <1>8, <2>1, FlowBecomesFacts DEF TypeOK
  <2>3. ops' \in [Tabs -> [Slots -> Op]]
    BY <1>8, OpsFacts, ValueTypes DEF OpEnds, TypeOK
  <2>4. EngineType'
    <3>1. buffer' \in [Tabs -> Seq(Seqs)] /\ resyncHead' \in [Tabs -> Seqs0]
      BY <1>8, NumberTypes DEF TypeOK, EngineType
    <3> QED BY <1>1, <2>3, <3>1 DEF TypeOK, EngineType
  <2> QED BY <1>1, <1>8, <2>2, <2>4 DEF TypeOK, CacheType
<1> QED
  BY <1>5, <1>6, <1>7, <1>8

LEMMA OpWakesType ==
    ASSUME TypeOK, NEW t \in Tabs, NEW k \in Slots, OpWakes(t, k)
    PROVE  TypeOK'
<1>1. ServerType' /\ DiskType' /\ ShellType' /\ NetType' /\ PastType'
  BY DEF TypeOK, server, disk, shell, net, gone, ServerType, DiskType, ShellType, NetType, PastType, OpWakes
<1>2. EngineType'
  <2>1. CASE OpEnds(t, k)
    BY <2>1, OpsFacts, ValueTypes DEF OpEnds, OpWakes, TypeOK, EngineType
  <2>2. CASE Round(t, k, Flow(t), resyncHead[t])
    BY <2>2, FlowTypes, RoundType DEF OpWakes, TypeOK, EngineType
  <2> QED BY <2>1, <2>2 DEF OpWakes
<1>3. CacheType'
  <2>1. resyncHead[t] \in Seqs0
    BY DEF TypeOK, EngineType
  <2>2. CASE Round(t, k, Flow(t), resyncHead[t])
    BY <2>1, <2>2, FlowTypes, RoundType DEF OpWakes, TypeOK, CacheType
  <2> QED BY <2>2 DEF OpWakes, TypeOK, CacheType
<1>4. FlowType'
  <2>1. resyncHead[t] \in Seqs0
    BY DEF TypeOK, EngineType
  <2>2. CASE Round(t, k, Flow(t), resyncHead[t])
    BY <2>1, <2>2, FlowTypes, RoundType DEF TypeOK
  <2> QED BY <2>2 DEF OpWakes, TypeOK, FlowType, flow
<1> QED
  BY <1>1, <1>2, <1>3, <1>4 DEF TypeOK

LEMMA RefetchFailsType ==
    ASSUME TypeOK, NEW t \in Tabs, NEW k \in Slots, RefetchFails(t, k)
    PROVE  TypeOK'
<1>1. ServerType' /\ DiskType' /\ ShellType' /\ NetType' /\ CacheType' /\ FlowType'
  BY DEF TypeOK, server, disk, shell, net, cache, flow, ServerType, DiskType, ShellType, NetType, CacheType, FlowType, RefetchFails
<1>2. EngineType'
  BY RejectsType DEF RefetchFails, TypeOK, EngineType
<1>3. PastType'
  BY HappensType DEF RefetchFails, TypeOK, Events, gone
<1> QED
  BY <1>1, <1>2, <1>3 DEF TypeOK

LEMMA ServerAnswersType ==
    ASSUME TypeOK, NEW t \in Tabs, NEW p \in polls[t], ServerAnswers(t, p)
    PROVE  TypeOK'
<1>1. ServerType' /\ DiskType' /\ ShellType' /\ EngineType' /\ CacheType' /\ FlowType' /\ PastType'
  BY DEF TypeOK, server, disk, shell, engine, cache, flow, gone, ServerType, DiskType, ShellType, EngineType, CacheType, FlowType, PastType, ServerAnswers
<1>2. NetType'
  <2>1. p \in Poll /\ head \in Seqs0
    BY DEF TypeOK, NetType, ServerType
  <2>2. [p EXCEPT !.st = "answered", !.resync = TRUE, !.upto = head] \in Poll
    BY <2>1 DEF Poll
  <2>3. \A n \in (p.since + 1)..head : [p EXCEPT !.st = "answered", !.upto = n] \in Poll
    <3>1. \A n \in Seqs0 : [p EXCEPT !.st = "answered", !.upto = n] \in Poll
      BY <2>1 DEF Poll
    <3>2. (p.since + 1)..head \subseteq Seqs0
      BY <2>1, NumberTypes DEF Poll
    <3> QED BY <3>1, <3>2
  <2> QED BY <2>2, <2>3, PollBecomesType DEF ServerAnswers, TypeOK
<1> QED
  BY <1>1, <1>2 DEF TypeOK

\* What the server hands out between two events.
Between(m, n) == [i \in 1..(n - m) |-> m + i]

LEMMA BetweenType ==
    ASSUME NEW m \in Seqs0, NEW n \in Seqs0
    PROVE  /\ Between(m, n) \in Seq(Seqs)
           /\ m < n => Len(Between(m, n)) = n - m
           /\ \A i \in 1..Len(Between(m, n)) : Between(m, n)[i] = m + i
<1>1. CASE m < n
  <2>1. n - m \in Nat
    BY <1>1, NumberTypes
  <2>2. \A i \in 1..(n - m) : m + i \in Seqs
    BY NumberTypes DEF Seqs, Seqs0
  <2> QED BY <2>1, <2>2 DEF Between
<1>2. CASE ~ (m < n)
  <2>1. 1..(n - m) = {}
    BY <1>2, NumberTypes
  <2>2. Between(m, n) = <<>>
    BY <2>1 DEF Between
  <2> QED BY <1>2, <2>2
<1> QED
  BY <1>1, <1>2

LEMMA PollReturnsType ==
    ASSUME TypeOK, NEW t \in Tabs, NEW p \in polls[t], PollReturns(t, p)
    PROVE  TypeOK'
<1>1. ServerType' /\ DiskType' /\ ShellType' /\ UNCHANGED <<running, blocked, late, used, wiped, socket>>
  <2>1. UNCHANGED <<server, disk, shell, socket, blocked, late, used, wiped, running>>
    BY DEF PollReturns, ApplyBatch, engine
  <2> QED BY <2>1 DEF TypeOK, server, disk, shell, ServerType, DiskType, ShellType
<1>2. p \in Poll
  BY DEF TypeOK, NetType
<1>3. p.upto \in Seqs0 /\ p.since \in Seqs0
  BY <1>2 DEF Poll
<1>4. CASE Stale(p) /\ PollBecomes(t, p, {}) /\ UNCHANGED <<engine, failed, flow, skipped>>
  <2>1. NetType'
    BY <1>1, <1>4, PollBecomesType DEF TypeOK
  <2> QED BY <1>1, <1>4, <2>1 DEF TypeOK, engine, flow, EngineType, CacheType, FlowType, PastType
<1>5. CASE /\ HandleResync(t, p.upto) /\ PollBecomes(t, p, {[p EXCEPT !.st = "barrier"]})
           /\ UNCHANGED <<running, buffer, skipped>>
  <2>1. [p EXCEPT !.st = "barrier"] \in Poll
    BY <1>2 DEF Poll
  <2>2. NetType'
    BY <1>1, <1>5, <2>1, PollBecomesType DEF TypeOK
  <2>3. /\ resyncHead' \in [Tabs -> Seqs0] /\ ops' \in [Tabs -> [Slots -> Op]] /\ FlowType'
        /\ failed' \in [Tabs -> BOOLEAN]
    BY <1>3, <1>5, HandleResyncType DEF TypeOK
  <2> QED BY <1>1, <1>5, <2>2, <2>3 DEF TypeOK, EngineType, CacheType, PastType
<1>6. CASE /\ ApplyBatch(t, Between(p.since, p.upto), p.upto)
           /\ PollBecomes(t, p, {Ask(lastSeq'[t])})
           /\ UNCHANGED <<running, resyncHead, ops, failed>>
  <2>1. FlowType' /\ buffer' \in [Tabs -> Seq(Seqs)] /\ PastType'
    BY <1>1, <1>3, <1>6, BetweenType, ApplyBatchType DEF TypeOK
  <2>2. Ask(lastSeq'[t]) \in Poll
    BY <2>1, ValueTypes DEF FlowType
  <2>3. NetType'
    BY <1>1, <1>6, <2>2, PollBecomesType DEF TypeOK
  <2> QED BY <1>1, <1>6, <2>1, <2>3 DEF TypeOK, EngineType, CacheType
<1> QED
  BY <1>4, <1>5, <1>6 DEF PollReturns, Between

LEMMA PollFailsType ==
    ASSUME TypeOK, NEW t \in Tabs, NEW p \in polls[t], PollFails(t, p)
    PROVE  TypeOK'
<1>1. ServerType' /\ DiskType' /\ ShellType' /\ EngineType' /\ CacheType' /\ FlowType'
  BY DEF TypeOK, server, disk, shell, engine, cache, flow, ServerType, DiskType, ShellType, EngineType, CacheType, FlowType, PollFails
<1>2. NetType'
  <2>1. [p EXCEPT !.st = "sleep"] \in Poll
    BY DEF TypeOK, NetType, Poll
  <2> QED BY <2>1, PollBecomesType DEF PollFails, TypeOK, net
<1>3. PastType'
  BY HappensType DEF PollFails, TypeOK, Events, gone
<1> QED
  BY <1>1, <1>2, <1>3 DEF TypeOK

LEMMA PollResumesType ==
    ASSUME TypeOK, NEW t \in Tabs, NEW p \in polls[t], PollResumes(t, p)
    PROVE  TypeOK'
<1>1. ServerType' /\ DiskType' /\ ShellType' /\ EngineType' /\ CacheType' /\ FlowType' /\ PastType'
  BY DEF TypeOK, server, disk, shell, engine, cache, flow, gone, ServerType, DiskType, ShellType, EngineType, CacheType, FlowType, PastType, PollResumes
<1>2. NetType'
  <2>1. Ask(lastSeq[t]) \in Poll
    BY ValueTypes DEF TypeOK, FlowType
  <2> QED BY <2>1, PollBecomesType DEF PollResumes, TypeOK, net
<1> QED
  BY <1>1, <1>2 DEF TypeOK


Local(u) == <<app[u], syncing[u], boot[u], running[u], lastSeq[u], socket[u], polls[u],
              ops[u], resyncHead[u], buffer[u], queue[u], failed[u], blocked[u], seen[u], skipped[u]>>

LEMMA ApplyRunsLocal ==
    ASSUME TypeOK, NEW t \in Tabs, ApplyRuns(t), NEW u \in Tabs \ {t}
    PROVE  UNCHANGED Local(u)
BY DEF ApplyRuns, Local, disk, shell, engine, net, cache, flow, gone, TaskEnds, TaskMoves, Block, CallEnds, CallRejects, StartSync, Stop, FlowBecomes, PollBecomes, SocketBecomes, OpEnds, Rejects, ResetEnds, Round, HandleResync, ApplyBatch, Skips,
       TypeOK, ShellType, EngineType, NetType, CacheType, FlowType, PastType

LEMMA ApplyFailsLocal ==
    ASSUME TypeOK, NEW t \in Tabs, ApplyFails(t), NEW u \in Tabs \ {t}
    PROVE  UNCHANGED Local(u)
BY DEF ApplyFails, Local, disk, shell, engine, net, cache, flow, gone, TaskEnds, TaskMoves, Block, CallEnds, CallRejects, StartSync, Stop, FlowBecomes, PollBecomes, SocketBecomes, OpEnds, Rejects, ResetEnds, Round, HandleResync, ApplyBatch, Skips,
       TypeOK, ShellType, EngineType, NetType, CacheType, FlowType, PastType

LEMMA CursorReadsLocal ==
    ASSUME TypeOK, NEW t \in Tabs, CursorReads(t), NEW u \in Tabs \ {t}
    PROVE  UNCHANGED Local(u)
BY DEF CursorReads, Local, disk, shell, engine, net, cache, flow, gone, TaskEnds, TaskMoves, Block, CallEnds, CallRejects, StartSync, Stop, FlowBecomes, PollBecomes, SocketBecomes, OpEnds, Rejects, ResetEnds, Round, HandleResync, ApplyBatch, Skips,
       TypeOK, ShellType, EngineType, NetType, CacheType, FlowType, PastType

LEMMA CursorPutsLocal ==
    ASSUME TypeOK, NEW t \in Tabs, CursorPuts(t), NEW u \in Tabs \ {t}
    PROVE  UNCHANGED Local(u)
BY DEF CursorPuts, Local, disk, shell, engine, net, cache, flow, gone, TaskEnds, TaskMoves, Block, CallEnds, CallRejects, StartSync, Stop, FlowBecomes, PollBecomes, SocketBecomes, OpEnds, Rejects, ResetEnds, Round, HandleResync, ApplyBatch, Skips,
       TypeOK, ShellType, EngineType, NetType, CacheType, FlowType, PastType

LEMMA CursorFailsLocal ==
    ASSUME TypeOK, NEW t \in Tabs, CursorFails(t), NEW u \in Tabs \ {t}
    PROVE  UNCHANGED Local(u)
BY DEF CursorFails, Local, disk, shell, engine, net, cache, flow, gone, TaskEnds, TaskMoves, Block, CallEnds, CallRejects, StartSync, Stop, FlowBecomes, PollBecomes, SocketBecomes, OpEnds, Rejects, ResetEnds, Round, HandleResync, ApplyBatch, Skips,
       TypeOK, ShellType, EngineType, NetType, CacheType, FlowType, PastType

LEMMA ResetClearsLocal ==
    ASSUME TypeOK, NEW t \in Tabs, ResetClears(t), NEW u \in Tabs \ {t}
    PROVE  UNCHANGED Local(u)
BY DEF ResetClears, Local, disk, shell, engine, net, cache, flow, gone, TaskEnds, TaskMoves, Block, CallEnds, CallRejects, StartSync, Stop, FlowBecomes, PollBecomes, SocketBecomes, OpEnds, Rejects, ResetEnds, Round, HandleResync, ApplyBatch, Skips,
       TypeOK, ShellType, EngineType, NetType, CacheType, FlowType, PastType

LEMMA ResetDeletesLocal ==
    ASSUME TypeOK, NEW t \in Tabs, ResetDeletes(t), NEW u \in Tabs \ {t}
    PROVE  UNCHANGED Local(u)
BY DEF ResetDeletes, Local, disk, shell, engine, net, cache, flow, gone, TaskEnds, TaskMoves, Block, CallEnds, CallRejects, StartSync, Stop, FlowBecomes, PollBecomes, SocketBecomes, OpEnds, Rejects, ResetEnds, Round, HandleResync, ApplyBatch, Skips,
       TypeOK, ShellType, EngineType, NetType, CacheType, FlowType, PastType

LEMMA PreludeEndsLocal ==
    ASSUME TypeOK, NEW t \in Tabs, NEW k \in Slots, PreludeEnds(t, k), NEW u \in Tabs \ {t}
    PROVE  UNCHANGED Local(u)
BY DEF PreludeEnds, Local, disk, shell, engine, net, cache, flow, gone, TaskEnds, TaskMoves, Block, CallEnds, CallRejects, StartSync, Stop, FlowBecomes, PollBecomes, SocketBecomes, OpEnds, Rejects, ResetEnds, Round, HandleResync, ApplyBatch, Skips,
       TypeOK, ShellType, EngineType, NetType, CacheType, FlowType, PastType

LEMMA PreludeFailsLocal ==
    ASSUME TypeOK, NEW t \in Tabs, NEW k \in Slots, PreludeFails(t, k), NEW u \in Tabs \ {t}
    PROVE  UNCHANGED Local(u)
BY DEF PreludeFails, Local, disk, shell, engine, net, cache, flow, gone, TaskEnds, TaskMoves, Block, CallEnds, CallRejects, StartSync, Stop, FlowBecomes, PollBecomes, SocketBecomes, OpEnds, Rejects, ResetEnds, Round, HandleResync, ApplyBatch, Skips,
       TypeOK, ShellType, EngineType, NetType, CacheType, FlowType, PastType

LEMMA SeedReadsLocal ==
    ASSUME TypeOK, NEW t \in Tabs, SeedReads(t), NEW u \in Tabs \ {t}
    PROVE  UNCHANGED Local(u)
BY DEF SeedReads, Local, disk, shell, engine, net, cache, flow, gone, TaskEnds, TaskMoves, Block, CallEnds, CallRejects, StartSync, Stop, FlowBecomes, PollBecomes, SocketBecomes, OpEnds, Rejects, ResetEnds, Round, HandleResync, ApplyBatch, Skips,
       TypeOK, ShellType, EngineType, NetType, CacheType, FlowType, PastType

LEMMA SeedFailsLocal ==
    ASSUME TypeOK, NEW t \in Tabs, SeedFails(t), NEW u \in Tabs \ {t}
    PROVE  UNCHANGED Local(u)
BY DEF SeedFails, Local, disk, shell, engine, net, cache, flow, gone, TaskEnds, TaskMoves, Block, CallEnds, CallRejects, StartSync, Stop, FlowBecomes, PollBecomes, SocketBecomes, OpEnds, Rejects, ResetEnds, Round, HandleResync, ApplyBatch, Skips,
       TypeOK, ShellType, EngineType, NetType, CacheType, FlowType, PastType

LEMMA SeedUsedLocal ==
    ASSUME TypeOK, NEW t \in Tabs, NEW k \in Slots, SeedUsed(t, k), NEW u \in Tabs \ {t}
    PROVE  UNCHANGED Local(u)
BY DEF SeedUsed, Local, disk, shell, engine, net, cache, flow, gone, TaskEnds, TaskMoves, Block, CallEnds, CallRejects, StartSync, Stop, FlowBecomes, PollBecomes, SocketBecomes, OpEnds, Rejects, ResetEnds, Round, HandleResync, ApplyBatch, Skips,
       TypeOK, ShellType, EngineType, NetType, CacheType, FlowType, PastType

LEMMA LockLocal ==
    ASSUME TypeOK, NEW t \in Tabs, Lock(t), NEW u \in Tabs \ {t}
    PROVE  UNCHANGED Local(u)
BY DEF Lock, Local, disk, shell, engine, net, cache, flow, gone, TaskEnds, TaskMoves, Block, CallEnds, CallRejects, StartSync, Stop, FlowBecomes, PollBecomes, SocketBecomes, OpEnds, Rejects, ResetEnds, Round, HandleResync, ApplyBatch, Skips,
       TypeOK, ShellType, EngineType, NetType, CacheType, FlowType, PastType

LEMMA UnlockLocal ==
    ASSUME TypeOK, NEW t \in Tabs, Unlock(t), NEW u \in Tabs \ {t}
    PROVE  UNCHANGED Local(u)
BY DEF Unlock, Local, disk, shell, engine, net, cache, flow, gone, TaskEnds, TaskMoves, Block, CallEnds, CallRejects, StartSync, Stop, FlowBecomes, PollBecomes, SocketBecomes, OpEnds, Rejects, ResetEnds, Round, HandleResync, ApplyBatch, Skips,
       TypeOK, ShellType, EngineType, NetType, CacheType, FlowType, PastType

LEMMA OpenLocal ==
    ASSUME TypeOK, NEW t \in Tabs, Open(t), NEW u \in Tabs \ {t}
    PROVE  UNCHANGED Local(u)
BY DEF Open, Local, disk, shell, engine, net, cache, flow, gone, TaskEnds, TaskMoves, Block, CallEnds, CallRejects, StartSync, Stop, FlowBecomes, PollBecomes, SocketBecomes, OpEnds, Rejects, ResetEnds, Round, HandleResync, ApplyBatch, Skips,
       TypeOK, ShellType, EngineType, NetType, CacheType, FlowType, PastType

LEMMA CrashLocal ==
    ASSUME TypeOK, NEW t \in Tabs, Crash(t), NEW u \in Tabs \ {t}
    PROVE  UNCHANGED Local(u)
BY DEF Crash, Local, disk, shell, engine, net, cache, flow, gone, TaskEnds, TaskMoves, Block, CallEnds, CallRejects, StartSync, Stop, FlowBecomes, PollBecomes, SocketBecomes, OpEnds, Rejects, ResetEnds, Round, HandleResync, ApplyBatch, Skips,
       TypeOK, ShellType, EngineType, NetType, CacheType, FlowType, PastType

LEMMA ConnectsLocal ==
    ASSUME TypeOK, NEW t \in Tabs, Connects(t), NEW u \in Tabs \ {t}
    PROVE  UNCHANGED Local(u)
BY DEF Connects, Local, disk, shell, engine, net, cache, flow, gone, TaskEnds, TaskMoves, Block, CallEnds, CallRejects, StartSync, Stop, FlowBecomes, PollBecomes, SocketBecomes, OpEnds, Rejects, ResetEnds, Round, HandleResync, ApplyBatch, Skips,
       TypeOK, ShellType, EngineType, NetType, CacheType, FlowType, PastType

LEMMA ServerGreetsLocal ==
    ASSUME TypeOK, NEW t \in Tabs, ServerGreets(t), NEW u \in Tabs \ {t}
    PROVE  UNCHANGED Local(u)
BY DEF ServerGreets, Local, disk, shell, engine, net, cache, flow, gone, TaskEnds, TaskMoves, Block, CallEnds, CallRejects, StartSync, Stop, FlowBecomes, PollBecomes, SocketBecomes, OpEnds, Rejects, ResetEnds, Round, HandleResync, ApplyBatch, Skips,
       TypeOK, ShellType, EngineType, NetType, CacheType, FlowType, PastType

LEMMA HelloArrivesLocal ==
    ASSUME TypeOK, NEW t \in Tabs, HelloArrives(t), NEW u \in Tabs \ {t}
    PROVE  UNCHANGED Local(u)
BY DEF HelloArrives, Local, disk, shell, engine, net, cache, flow, gone, TaskEnds, TaskMoves, Block, CallEnds, CallRejects, StartSync, Stop, FlowBecomes, PollBecomes, SocketBecomes, OpEnds, Rejects, ResetEnds, Round, HandleResync, ApplyBatch, Skips,
       TypeOK, ShellType, EngineType, NetType, CacheType, FlowType, PastType

LEMMA EventArrivesLocal ==
    ASSUME TypeOK, NEW t \in Tabs, EventArrives(t), NEW u \in Tabs \ {t}
    PROVE  UNCHANGED Local(u)
BY DEF EventArrives, Local, disk, shell, engine, net, cache, flow, gone, TaskEnds, TaskMoves, Block, CallEnds, CallRejects, StartSync, Stop, FlowBecomes, PollBecomes, SocketBecomes, OpEnds, Rejects, ResetEnds, Round, HandleResync, ApplyBatch, Skips,
       TypeOK, ShellType, EngineType, NetType, CacheType, FlowType, PastType

LEMMA SocketDropsLocal ==
    ASSUME TypeOK, NEW t \in Tabs, SocketDrops(t), NEW u \in Tabs \ {t}
    PROVE  UNCHANGED Local(u)
BY DEF SocketDrops, Local, disk, shell, engine, net, cache, flow, gone, TaskEnds, TaskMoves, Block, CallEnds, CallRejects, StartSync, Stop, FlowBecomes, PollBecomes, SocketBecomes, OpEnds, Rejects, ResetEnds, Round, HandleResync, ApplyBatch, Skips,
       TypeOK, ShellType, EngineType, NetType, CacheType, FlowType, PastType

LEMMA RefetchedLocal ==
    ASSUME TypeOK, NEW t \in Tabs, NEW k \in Slots, Refetched(t, k), NEW u \in Tabs \ {t}
    PROVE  UNCHANGED Local(u)
BY DEF Refetched, Local, disk, shell, engine, net, cache, flow, gone, TaskEnds, TaskMoves, Block, CallEnds, CallRejects, StartSync, Stop, FlowBecomes, PollBecomes, SocketBecomes, OpEnds, Rejects, ResetEnds, Round, HandleResync, ApplyBatch, Skips,
       TypeOK, ShellType, EngineType, NetType, CacheType, FlowType, PastType

LEMMA OpWakesLocal ==
    ASSUME TypeOK, NEW t \in Tabs, NEW k \in Slots, OpWakes(t, k), NEW u \in Tabs \ {t}
    PROVE  UNCHANGED Local(u)
BY DEF OpWakes, Local, disk, shell, engine, net, cache, flow, gone, TaskEnds, TaskMoves, Block, CallEnds, CallRejects, StartSync, Stop, FlowBecomes, PollBecomes, SocketBecomes, OpEnds, Rejects, ResetEnds, Round, HandleResync, ApplyBatch, Skips,
       TypeOK, ShellType, EngineType, NetType, CacheType, FlowType, PastType

LEMMA RefetchFailsLocal ==
    ASSUME TypeOK, NEW t \in Tabs, NEW k \in Slots, RefetchFails(t, k), NEW u \in Tabs \ {t}
    PROVE  UNCHANGED Local(u)
BY DEF RefetchFails, Local, disk, shell, engine, net, cache, flow, gone, TaskEnds, TaskMoves, Block, CallEnds, CallRejects, StartSync, Stop, FlowBecomes, PollBecomes, SocketBecomes, OpEnds, Rejects, ResetEnds, Round, HandleResync, ApplyBatch, Skips,
       TypeOK, ShellType, EngineType, NetType, CacheType, FlowType, PastType

LEMMA ServerAnswersLocal ==
    ASSUME TypeOK, NEW t \in Tabs, NEW p \in polls[t], ServerAnswers(t, p), NEW u \in Tabs \ {t}
    PROVE  UNCHANGED Local(u)
BY DEF ServerAnswers, Local, disk, shell, engine, net, cache, flow, gone, TaskEnds, TaskMoves, Block, CallEnds, CallRejects, StartSync, Stop, FlowBecomes, PollBecomes, SocketBecomes, OpEnds, Rejects, ResetEnds, Round, HandleResync, ApplyBatch, Skips,
       TypeOK, ShellType, EngineType, NetType, CacheType, FlowType, PastType

LEMMA PollReturnsLocal ==
    ASSUME TypeOK, NEW t \in Tabs, NEW p \in polls[t], PollReturns(t, p), NEW u \in Tabs \ {t}
    PROVE  UNCHANGED Local(u)
BY DEF PollReturns, Local, disk, shell, engine, net, cache, flow, gone, TaskEnds, TaskMoves, Block, CallEnds, CallRejects, StartSync, Stop, FlowBecomes, PollBecomes, SocketBecomes, OpEnds, Rejects, ResetEnds, Round, HandleResync, ApplyBatch, Skips,
       TypeOK, ShellType, EngineType, NetType, CacheType, FlowType, PastType

LEMMA PollFailsLocal ==
    ASSUME TypeOK, NEW t \in Tabs, NEW p \in polls[t], PollFails(t, p), NEW u \in Tabs \ {t}
    PROVE  UNCHANGED Local(u)
BY DEF PollFails, Local, disk, shell, engine, net, cache, flow, gone, TaskEnds, TaskMoves, Block, CallEnds, CallRejects, StartSync, Stop, FlowBecomes, PollBecomes, SocketBecomes, OpEnds, Rejects, ResetEnds, Round, HandleResync, ApplyBatch, Skips,
       TypeOK, ShellType, EngineType, NetType, CacheType, FlowType, PastType

LEMMA PollResumesLocal ==
    ASSUME TypeOK, NEW t \in Tabs, NEW p \in polls[t], PollResumes(t, p), NEW u \in Tabs \ {t}
    PROVE  UNCHANGED Local(u)
BY DEF PollResumes, Local, disk, shell, engine, net, cache, flow, gone, TaskEnds, TaskMoves, Block, CallEnds, CallRejects, StartSync, Stop, FlowBecomes, PollBecomes, SocketBecomes, OpEnds, Rejects, ResetEnds, Round, HandleResync, ApplyBatch, Skips,
       TypeOK, ShellType, EngineType, NetType, CacheType, FlowType, PastType


-----------------------------------------------------------------------------
(* The invariant behind ViewComplete.  Its parts, by what they depend on.  *)

PubSeq(t)   == lastSeq[t] <= head
PubHead(t)  == resyncHead[t] <= head
PubSock(t)  == socket[t].last <= head /\ socket[t].next <= head + 1
PubOps(t)   == \A k \in Slots : ops[t][k].target <= head /\ ops[t][k].at <= head
PubBoot(t)  == \A k \in Slots : boot[t][k].read <= head
PubPolls(t) == \A p \in polls[t] : p.upto <= head
PubBuf(t)   == \A i \in 1..Len(buffer[t]) : buffer[t][i] <= head
PubQueue(t) == \A i \in 1..Len(queue[t]) :
                  queue[t][i].kind \in {"apply", "cursor"} => queue[t][i].arg <= head

AlApp(t)    == running[t] => app[t] = "unlocked"
AlSock(t)   == socket[t].st # "down" => running[t]
AlPolls(t)  == \A p \in polls[t] : IF p.cur THEN running[t] ELSE p.st = "answered"
AlOps(t)    == (\A k \in CurrentOps(t) : running[t]) /\ \A k, l \in CurrentOps(t) : k = l
AlIdle(t)   == ~ResyncInFlight(t) => resyncHead[t] = 0 /\ buffer[t] = <<>>

\* n follows the event last, or the event newest, or one of the first m in b.
After(n, b, m, last, newest) ==
    n <= last + 1 \/ n <= newest + 1 \/ \E j \in 1..m : n = b[j] + 1

ChBuf(t)    == \A i \in 1..Len(buffer[t]) :
                  After(buffer[t][i], buffer[t], i - 1, lastSeq[t], resyncHead[t])
ChAuth(t)   == socket[t].st = "auth" => socket[t].since <= lastSeq[t]
ChHello(t)  == socket[t].st = "hello" => IF socket[t].resync
                                          THEN socket[t].next = socket[t].last + 1
                                          ELSE socket[t].next <= lastSeq[t] + 1
ChOpen(t)   == socket[t].st = "open" =>
                  After(socket[t].next, buffer[t], Len(buffer[t]), lastSeq[t], resyncHead[t])
ChPolls(t)  == \A p \in polls[t] :
                  /\ p.cur /\ p.st \in {"asked", "answered"} => p.since <= lastSeq[t]
                  /\ p.st = "answered" /\ ~p.resync => p.since < p.upto
ChOps(t)    == \A k \in Slots : ops[t][k].st = "fetch" => ops[t][k].target <= ops[t][k].at

ViewParts(t) ==
    /\ PubSeq(t) /\ PubHead(t) /\ PubSock(t) /\ PubOps(t)
    /\ PubBoot(t) /\ PubPolls(t) /\ PubBuf(t) /\ PubQueue(t)
    /\ AlApp(t) /\ AlSock(t) /\ AlPolls(t) /\ AlOps(t) /\ AlIdle(t)
    /\ ChBuf(t) /\ ChAuth(t) /\ ChHello(t) /\ ChOpen(t) /\ ChPolls(t) /\ ChOps(t)
    /\ ViewOf(t)

\* The parts make up the invariant.
LEMMA ViewInvParts ==
    ViewInv <=> /\ TypeOK /\ cursor <= head /\ wiped <= head
                /\ \A t \in Tabs : ViewParts(t)
<1>1. ASSUME NEW t \in Tabs
      PROVE  Published(t) <=> /\ PubSeq(t) /\ PubHead(t) /\ PubSock(t) /\ PubOps(t)
                              /\ PubBoot(t) /\ PubPolls(t) /\ PubBuf(t) /\ PubQueue(t)
  BY DEF Published, PubSeq, PubHead, PubSock, PubOps, PubBoot, PubPolls, PubBuf, PubQueue
<1>2. ASSUME NEW t \in Tabs
      PROVE  Alive(t) <=> AlApp(t) /\ AlSock(t) /\ AlPolls(t) /\ AlOps(t) /\ AlIdle(t)
  BY DEF Alive, AlApp, AlSock, AlPolls, AlOps, AlIdle
<1>3. ASSUME NEW t \in Tabs
      PROVE  Chained(t) <=> /\ ChBuf(t) /\ ChAuth(t) /\ ChHello(t) /\ ChOpen(t)
                            /\ ChPolls(t) /\ ChOps(t)
  BY DEF Chained, Follows, After, ChBuf, ChAuth, ChHello, ChOpen, ChPolls, ChOps
<1> QED
  BY <1>1, <1>2, <1>3 DEF ViewInv, ViewParts

\* The same of the next state.
LEMMA ViewInvPartsNext ==
    ViewInv' <=> /\ TypeOK' /\ cursor' <= head' /\ wiped' <= head'
                /\ \A t \in Tabs : ViewParts(t)'
<1>1. ASSUME NEW t \in Tabs
      PROVE  Published(t)' <=> /\ PubSeq(t)' /\ PubHead(t)' /\ PubSock(t)' /\ PubOps(t)'
                              /\ PubBoot(t)' /\ PubPolls(t)' /\ PubBuf(t)' /\ PubQueue(t)'
  BY DEF Published, PubSeq, PubHead, PubSock, PubOps, PubBoot, PubPolls, PubBuf, PubQueue
<1>2. ASSUME NEW t \in Tabs
      PROVE  Alive(t)' <=> AlApp(t)' /\ AlSock(t)' /\ AlPolls(t)' /\ AlOps(t)' /\ AlIdle(t)'
  BY DEF Alive, AlApp, AlSock, AlPolls, AlOps, AlIdle
<1>3. ASSUME NEW t \in Tabs
      PROVE  Chained(t)' <=> /\ ChBuf(t)' /\ ChAuth(t)' /\ ChHello(t)' /\ ChOpen(t)'
                            /\ ChPolls(t)' /\ ChOps(t)'
  BY DEF Chained, Follows, After, ChBuf, ChAuth, ChHello, ChOpen, ChPolls, ChOps
<1> QED
  BY <1>1, <1>2, <1>3 DEF ViewInv, ViewParts

\* The values of one tab.
LEMMA LocalTypes ==
    ASSUME TypeOK, NEW t \in Tabs
    PROVE  /\ head \in Seqs0 /\ low \in 0..head /\ cursor \in Seqs0 /\ wiped \in Seqs0
           /\ lastSeq[t] \in Seqs0 /\ resyncHead[t] \in Seqs0 /\ socket[t] \in Socket
           /\ ops[t] \in [Slots -> Op] /\ boot[t] \in [Slots -> Call] /\ polls[t] \in SUBSET Poll
           /\ buffer[t] \in Seq(Seqs) /\ queue[t] \in Seq(Task) /\ running[t] \in BOOLEAN
           /\ app[t] \in {"closed", "locked", "unlocked"} /\ failed[t] \in BOOLEAN
           /\ blocked[t] \in Seqs0 /\ seen[t] \in SUBSET Seqs /\ skipped[t] \in SUBSET Seqs
BY DEF TypeOK, ServerType, DiskType, ShellType, EngineType, NetType, CacheType, FlowType, PastType

\* A tab that the step does not touch.
LEMMA ViewKept ==
    ASSUME TypeOK, NEW u \in Tabs, ViewParts(u), UNCHANGED Local(u), head' \in Nat, head <= head'
    PROVE  ViewParts(u)'
<1>1. head \in Nat
  BY LocalTypes, NumberTypes
<1>2. \A n \in Nat : (n <= head => n <= head') /\ (n <= head + 1 => n <= head' + 1)
  <2>1. \A a, b, n \in Nat : a <= b => (n <= a => n <= b) /\ (n <= a + 1 => n <= b + 1)
    OBVIOUS
  <2> QED BY <1>1, <2>1
<1>3. PubSeq(u)' /\ PubHead(u)'
  BY <1>2, LocalTypes, NumberTypes DEF ViewParts, Local, PubSeq, PubHead
<1>4. PubSock(u)'
  <2>1. socket[u].last \in Nat /\ socket[u].next \in Nat
    <3>1. socket[u] \in Socket
      BY LocalTypes
    <3> QED BY <3>1, NumberTypes DEF Socket, Seqs0
  <2> QED BY <1>2, <2>1 DEF ViewParts, Local, PubSock
<1>5. PubOps(u)'
  <2>1. \A k \in Slots : ops[u][k].target \in Nat /\ ops[u][k].at \in Nat
    BY LocalTypes, NumberTypes DEF Op
  <2> QED BY <1>2, <2>1 DEF ViewParts, Local, PubOps
<1>6. PubBoot(u)'
  <2>1. \A k \in Slots : boot[u][k].read \in Nat
    BY LocalTypes, NumberTypes DEF Call
  <2> QED BY <1>2, <2>1 DEF ViewParts, Local, PubBoot
<1>7. PubPolls(u)'
  <2>1. \A p \in polls[u] : p.upto \in Nat
    BY LocalTypes, NumberTypes DEF Poll
  <2> QED BY <1>2, <2>1 DEF ViewParts, Local, PubPolls
<1>8. PubBuf(u)'
  <2>1. \A i \in 1..Len(buffer[u]) : buffer[u][i] \in Nat
    <3>1. buffer[u] \in Seq(Seqs)
      BY LocalTypes
    <3>2. \A i \in 1..Len(buffer[u]) : buffer[u][i] \in Seqs
      BY <3>1
    <3> QED BY <3>2, NumberTypes
  <2> QED BY <1>2, <2>1 DEF ViewParts, Local, PubBuf
<1>9. PubQueue(u)'
  <2>1. ASSUME NEW i \in 1..Len(queue[u]), queue[u][i].kind \in {"apply", "cursor"}
        PROVE  queue[u][i].arg \in Nat
    <3>1. queue[u][i] \in Task
      BY LocalTypes
    <3> QED BY <2>1, <3>1, TaskKinds, NumberTypes
  <2> QED BY <1>2, <2>1 DEF ViewParts, Local, PubQueue
<1>10. AlApp(u)' /\ AlSock(u)' /\ AlPolls(u)' /\ AlOps(u)' /\ AlIdle(u)'
  BY DEF ViewParts, Local, AlApp, AlSock, AlPolls, AlOps, AlIdle, CurrentOps, ResyncInFlight
<1>11. ChBuf(u)' /\ ChAuth(u)' /\ ChHello(u)' /\ ChOpen(u)' /\ ChPolls(u)' /\ ChOps(u)' /\ ViewOf(u)'
  BY DEF ViewParts, Local, ChBuf, ChAuth, ChHello, ChOpen, ChPolls, ChOps, ViewOf, After
<1> QED
  BY <1>3, <1>4, <1>5, <1>6, <1>7, <1>8, <1>9, <1>10, <1>11 DEF ViewParts

\* The queue after a task has ended, moved or come.
LEMMA PubQueueEnds ==
    ASSUME FlowType, NEW t \in Tabs, PubQueue(t), queue[t] # <<>>, TaskEnds(t), head' = head
    PROVE  PubQueue(t)'
<1>1. queue[t] \in Seq(Task) /\ queue'[t] = Tail(queue[t])
  BY DEF FlowType, TaskEnds
<1> QED
  BY <1>1, TailFacts DEF PubQueue

LEMMA PubQueueMoves ==
    ASSUME FlowType, NEW t \in Tabs, PubQueue(t), queue[t] # <<>>, NEW step, TaskMoves(t, step),
           [queue[t][1] EXCEPT !.step = step] \in Task, head' = head
    PROVE  PubQueue(t)'
<1>1. /\ Len(queue'[t]) = Len(queue[t]) /\ queue'[t][1] = [queue[t][1] EXCEPT !.step = step]
      /\ \A i \in 2..Len(queue[t]) : queue'[t][i] = queue[t][i]
  BY TaskMovesFacts
<1>2. queue[t] \in Seq(Task) /\ queue[t][1] \in Task
  BY DEF FlowType
<1>3. queue'[t][1].kind = queue[t][1].kind /\ queue'[t][1].arg = queue[t][1].arg
  BY <1>1, <1>2 DEF Task
<1>4. \A i \in 1..Len(queue[t]) : i = 1 \/ i \in 2..Len(queue[t])
  BY <1>2
<1> QED
  BY <1>1, <1>3, <1>4 DEF PubQueue

LEMMA PubQueueGrows ==
    ASSUME FlowType, NEW t \in Tabs, PubQueue(t), NEW q \in Task,
           q.kind \in {"apply", "cursor"} => q.arg <= head,
           queue'[t] = Append(queue[t], q), head' = head
    PROVE  PubQueue(t)'
<1>1. queue[t] \in Seq(Task)
  BY DEF FlowType
<1>2. \A i \in 1..(Len(queue[t]) + 1) : i = Len(queue[t]) + 1 \/ i \in 1..Len(queue[t])
  BY <1>1
<1> QED
  BY <1>1, <1>2, AppendFacts DEF PubQueue

\* An operation whose onResync has rejected.
LEMMA RejectsFacts ==
    ASSUME EngineType, NEW t \in Tabs, NEW k \in Slots, Rejects(t, k)
    PROVE  /\ \A l \in Slots \ {k} : ops'[t][l] = ops[t][l]
           /\ \/ ~ops[t][k].cur /\ ops'[t][k] = NoOp
              \/ /\ ops[t][k].cur /\ ops'[t][k].cur /\ ops'[t][k].st = "sleep"
                 /\ ops'[t][k].target = ops[t][k].target /\ ops'[t][k].at = ops[t][k].at
<1>1. CASE Abandoned(t, k)
  BY <1>1, OpsFacts, ValueTypes DEF Rejects, OpEnds, Abandoned
<1>2. CASE ~Abandoned(t, k)
  <2> DEFINE o == [ops[t][k] EXCEPT !.st = "sleep"]
  <2>1. ops[t][k] \in Op
    BY DEF EngineType
  <2>2. o \in Op /\ o.cur = ops[t][k].cur /\ o.st = "sleep"
        /\ o.target = ops[t][k].target /\ o.at = ops[t][k].at
    <3>1. \A x \in Op : LET y == [x EXCEPT !.st = "sleep"]
                        IN  /\ y \in Op /\ y.cur = x.cur /\ y.st = "sleep"
                            /\ y.target = x.target /\ y.at = x.at
      BY DEF Op
    <3> QED BY <2>1, <3>1
  <2>3. ops' = [ops EXCEPT ![t][k] = o]
    BY <1>2 DEF Rejects
  <2> HIDE DEF o
  <2>4. ops'[t][k] = o /\ \A l \in Slots \ {k} : ops'[t][l] = ops[t][l]
    BY <2>2, <2>3, OpsFacts
  <2> QED BY <1>2, <2>2, <2>4 DEF Abandoned
<1> QED
  BY <1>1, <1>2

\* The snapshot of a reset that has cleared the rows is fetched from now on.
LEMMA FetchFacts ==
    ASSUME EngineType, NEW t \in Tabs, NEW k \in Slots, head \in Seqs0,
           ops' = [ops EXCEPT ![t][k] = [@ EXCEPT !.st = "fetch", !.at = head]]
    PROVE  /\ \A l \in Slots \ {k} : ops'[t][l] = ops[t][l]
           /\ ops'[t][k].cur = ops[t][k].cur /\ ops'[t][k].st = "fetch"
           /\ ops'[t][k].target = ops[t][k].target /\ ops'[t][k].at = head
<1> DEFINE o == [ops[t][k] EXCEPT !.st = "fetch", !.at = head]
<1>1. ops[t][k] \in Op
  BY DEF EngineType
<1>2. o \in Op /\ o.cur = ops[t][k].cur /\ o.st = "fetch"
      /\ o.target = ops[t][k].target /\ o.at = head
  <2>1. \A x \in Op, h \in Seqs0 : LET y == [x EXCEPT !.st = "fetch", !.at = h]
                      IN  /\ y \in Op /\ y.cur = x.cur /\ y.st = "fetch"
                          /\ y.target = x.target /\ y.at = h
    BY DEF Op
  <2> QED BY <1>1, <2>1
<1>3. ops' = [ops EXCEPT ![t][k] = o]
  BY DEF EngineType
<1> HIDE DEF o
<1>4. ops'[t][k] = o /\ \A l \in Slots \ {k} : ops'[t][l] = ops[t][l]
  <2>1. ops \in [Tabs -> [Slots -> Op]] /\ k \in Slots /\ t \in Tabs
    BY DEF EngineType
  <2>2. ops'[t] = [ops[t] EXCEPT ![k] = o]
    BY <1>3, <2>1
  <2> QED BY <2>1, <2>2
<1> QED
  BY <1>2, <1>4

\* The numbers among them.
LEMMA LocalNumbers ==
    ASSUME TypeOK, NEW t \in Tabs
    PROVE  /\ head \in Nat /\ low \in Nat /\ low <= head /\ cursor \in Nat /\ wiped \in Nat
           /\ lastSeq[t] \in Nat /\ resyncHead[t] \in Nat /\ blocked[t] \in Nat
           /\ \A k \in Slots : ops[t][k].target \in Nat /\ ops[t][k].at \in Nat /\ boot[t][k].read \in Nat
           /\ socket[t].since \in Nat /\ socket[t].last \in Nat /\ socket[t].next \in Nat
           /\ \A p \in polls[t] : p.since \in Nat /\ p.upto \in Nat
           /\ \A i \in 1..Len(buffer[t]) : buffer[t][i] \in Nat
<1>1. head \in Nat /\ low \in Nat /\ low <= head /\ cursor \in Nat /\ wiped \in Nat
      /\ lastSeq[t] \in Nat /\ resyncHead[t] \in Nat /\ blocked[t] \in Nat
  <2>1. head \in Seqs0 /\ low \in 0..head
    BY LocalTypes
  <2>2. head \in Nat
    BY <2>1, NumberTypes
  <2>3. low \in Nat /\ low <= head
    BY <2>1, <2>2
  <2>4. cursor \in Nat /\ wiped \in Nat
        /\ lastSeq[t] \in Nat /\ resyncHead[t] \in Nat /\ blocked[t] \in Nat
    BY LocalTypes, NumberTypes
  <2> QED BY <2>2, <2>3, <2>4
<1>2. \A k \in Slots : ops[t][k].target \in Nat /\ ops[t][k].at \in Nat /\ boot[t][k].read \in Nat
  <2>1. ops[t] \in [Slots -> Op] /\ boot[t] \in [Slots -> Call]
    BY LocalTypes
  <2> QED BY <2>1, NumberTypes DEF Op, Call
<1>3. socket[t].since \in Nat /\ socket[t].last \in Nat /\ socket[t].next \in Nat
  <2>1. socket[t] \in Socket
    BY LocalTypes
  <2> QED BY <2>1, NumberTypes DEF Socket, Seqs0
<1>4. \A p \in polls[t] : p.since \in Nat /\ p.upto \in Nat
  <2>1. polls[t] \in SUBSET Poll
    BY LocalTypes
  <2> QED BY <2>1, NumberTypes DEF Poll
<1>5. \A i \in 1..Len(buffer[t]) : buffer[t][i] \in Nat
  <2>1. buffer[t] \in Seq(Seqs)
    BY LocalTypes
  <2>2. \A i \in 1..Len(buffer[t]) : buffer[t][i] \in Seqs
    BY <2>1
  <2> QED BY <2>2, NumberTypes
<1> QED
  BY <1>1, <1>2, <1>3, <1>4, <1>5

\* A new value of a call, from a step that neither reads the cursor nor loses it.
LEMMA PubBootKept ==
    ASSUME NEW t \in Tabs, TypeOK, PubBoot(t), cursor <= head, head' = head,
           \A l \in Slots : \/ boot'[t][l].read = boot[t][l].read
                            \/ boot'[t][l].read = 0
                            \/ boot'[t][l].read = cursor
    PROVE  PubBoot(t)'
<1>1. head \in Nat
  BY LocalNumbers
<1>2. \A l \in Slots : boot'[t][l].read <= head
  BY <1>1 DEF PubBoot
<1> QED
  BY <1>2 DEF PubBoot
LEMMA ApplyRunsView ==
    ASSUME TypeOK, TypeOK', NEW t \in Tabs, ViewParts(t), cursor <= head, ApplyRuns(t)
    PROVE  ViewParts(t)'
<1>1. /\ head' = head
      /\ UNCHANGED <<app[t], boot[t], running[t], lastSeq[t], socket[t], polls[t], ops[t], resyncHead[t], buffer[t], seen[t], skipped[t]>>
  BY DEF ApplyRuns, server, disk, shell, engine, net, cache, flow, gone
<1>2. PubSeq(t)' /\ PubHead(t)' /\ PubSock(t)' /\ PubOps(t)' /\ PubBoot(t)' /\ PubPolls(t)' /\ PubBuf(t)' /\ AlApp(t)' /\ AlSock(t)' /\ AlPolls(t)' /\ AlOps(t)' /\ AlIdle(t)' /\ ChBuf(t)' /\ ChAuth(t)' /\ ChHello(t)' /\ ChOpen(t)' /\ ChPolls(t)' /\ ChOps(t)' /\ ViewOf(t)'
  BY <1>1 DEF ViewParts, PubSeq, PubHead, PubSock, PubOps, PubBoot, PubPolls, PubBuf, AlApp, AlSock, AlPolls, AlOps, AlIdle, ChBuf, ChAuth, ChHello, ChOpen, ChPolls, ChOps, ViewOf, After, CurrentOps, ResyncInFlight
<1>30. PubQueue(t)'
  BY <1>1, PubQueueEnds DEF ApplyRuns, ViewParts, TypeOK, HeadIs
<1> QED
  BY <1>2, <1>30 DEF ViewParts

LEMMA ApplyFailsView ==
    ASSUME TypeOK, TypeOK', NEW t \in Tabs, ViewParts(t), cursor <= head, ApplyFails(t)
    PROVE  ViewParts(t)'
<1>1. /\ head' = head
      /\ UNCHANGED <<app[t], boot[t], running[t], lastSeq[t], socket[t], polls[t], ops[t], resyncHead[t], buffer[t], seen[t], skipped[t]>>
  BY DEF ApplyFails, server, disk, shell, engine, net, cache, flow, gone
<1>2. PubSeq(t)' /\ PubHead(t)' /\ PubSock(t)' /\ PubOps(t)' /\ PubBoot(t)' /\ PubPolls(t)' /\ PubBuf(t)' /\ AlApp(t)' /\ AlSock(t)' /\ AlPolls(t)' /\ AlOps(t)' /\ AlIdle(t)' /\ ChBuf(t)' /\ ChAuth(t)' /\ ChHello(t)' /\ ChOpen(t)' /\ ChPolls(t)' /\ ChOps(t)' /\ ViewOf(t)'
  BY <1>1 DEF ViewParts, PubSeq, PubHead, PubSock, PubOps, PubBoot, PubPolls, PubBuf, AlApp, AlSock, AlPolls, AlOps, AlIdle, ChBuf, ChAuth, ChHello, ChOpen, ChPolls, ChOps, ViewOf, After, CurrentOps, ResyncInFlight
<1>30. PubQueue(t)'
  BY <1>1, PubQueueEnds DEF ApplyFails, ViewParts, TypeOK, HeadIs
<1> QED
  BY <1>2, <1>30 DEF ViewParts

LEMMA CursorReadsView ==
    ASSUME TypeOK, TypeOK', NEW t \in Tabs, ViewParts(t), cursor <= head, CursorReads(t)
    PROVE  ViewParts(t)'
<1>1. /\ head' = head
      /\ UNCHANGED <<app[t], boot[t], running[t], lastSeq[t], socket[t], polls[t], ops[t], resyncHead[t], buffer[t], seen[t], skipped[t]>>
  BY DEF CursorReads, server, disk, shell, engine, net, cache, flow, gone
<1>2. PubSeq(t)' /\ PubHead(t)' /\ PubSock(t)' /\ PubOps(t)' /\ PubBoot(t)' /\ PubPolls(t)' /\ PubBuf(t)' /\ AlApp(t)' /\ AlSock(t)' /\ AlPolls(t)' /\ AlOps(t)' /\ AlIdle(t)' /\ ChBuf(t)' /\ ChAuth(t)' /\ ChHello(t)' /\ ChOpen(t)' /\ ChPolls(t)' /\ ChOps(t)' /\ ViewOf(t)'
  BY <1>1 DEF ViewParts, PubSeq, PubHead, PubSock, PubOps, PubBoot, PubPolls, PubBuf, AlApp, AlSock, AlPolls, AlOps, AlIdle, ChBuf, ChAuth, ChHello, ChOpen, ChPolls, ChOps, ViewOf, After, CurrentOps, ResyncInFlight
<1>30. PubQueue(t)'
  <2>1. CASE TaskEnds(t)
    BY <1>1, <2>1, PubQueueEnds DEF CursorReads, ViewParts, TypeOK, HeadIs
  <2>2. CASE TaskMoves(t, "put")
    <3>1. queue[t][1] \in Task /\ queue[t][1].kind = "cursor" /\ queue[t] # <<>>
      BY LocalTypes DEF CursorReads, HeadIs
    <3>2. [queue[t][1] EXCEPT !.step = "put"] \in Task
      BY <3>1 DEF Task
    <3> QED BY <1>1, <2>2, <3>1, <3>2, PubQueueMoves DEF ViewParts, TypeOK
  <2> QED BY <2>1, <2>2 DEF CursorReads
<1> QED
  BY <1>2, <1>30 DEF ViewParts

LEMMA CursorPutsView ==
    ASSUME TypeOK, TypeOK', NEW t \in Tabs, ViewParts(t), cursor <= head, CursorPuts(t)
    PROVE  ViewParts(t)'
<1>1. /\ head' = head
      /\ UNCHANGED <<app[t], boot[t], running[t], lastSeq[t], socket[t], polls[t], ops[t], resyncHead[t], buffer[t], seen[t], skipped[t]>>
  BY DEF CursorPuts, server, disk, shell, engine, net, cache, flow, gone
<1>2. PubSeq(t)' /\ PubHead(t)' /\ PubSock(t)' /\ PubOps(t)' /\ PubBoot(t)' /\ PubPolls(t)' /\ PubBuf(t)' /\ AlApp(t)' /\ AlSock(t)' /\ AlPolls(t)' /\ AlOps(t)' /\ AlIdle(t)' /\ ChBuf(t)' /\ ChAuth(t)' /\ ChHello(t)' /\ ChOpen(t)' /\ ChPolls(t)' /\ ChOps(t)' /\ ViewOf(t)'
  BY <1>1 DEF ViewParts, PubSeq, PubHead, PubSock, PubOps, PubBoot, PubPolls, PubBuf, AlApp, AlSock, AlPolls, AlOps, AlIdle, ChBuf, ChAuth, ChHello, ChOpen, ChPolls, ChOps, ViewOf, After, CurrentOps, ResyncInFlight
<1>30. PubQueue(t)'
  BY <1>1, PubQueueEnds DEF CursorPuts, ViewParts, TypeOK, HeadIs
<1> QED
  BY <1>2, <1>30 DEF ViewParts

LEMMA CursorFailsView ==
    ASSUME TypeOK, TypeOK', NEW t \in Tabs, ViewParts(t), cursor <= head, CursorFails(t)
    PROVE  ViewParts(t)'
<1>1. /\ head' = head
      /\ UNCHANGED <<app[t], boot[t], running[t], lastSeq[t], socket[t], polls[t], ops[t], resyncHead[t], buffer[t], seen[t], skipped[t]>>
  BY DEF CursorFails, server, disk, shell, engine, net, cache, flow, gone
<1>2. PubSeq(t)' /\ PubHead(t)' /\ PubSock(t)' /\ PubOps(t)' /\ PubBoot(t)' /\ PubPolls(t)' /\ PubBuf(t)' /\ AlApp(t)' /\ AlSock(t)' /\ AlPolls(t)' /\ AlOps(t)' /\ AlIdle(t)' /\ ChBuf(t)' /\ ChAuth(t)' /\ ChHello(t)' /\ ChOpen(t)' /\ ChPolls(t)' /\ ChOps(t)' /\ ViewOf(t)'
  BY <1>1 DEF ViewParts, PubSeq, PubHead, PubSock, PubOps, PubBoot, PubPolls, PubBuf, AlApp, AlSock, AlPolls, AlOps, AlIdle, ChBuf, ChAuth, ChHello, ChOpen, ChPolls, ChOps, ViewOf, After, CurrentOps, ResyncInFlight
<1>30. PubQueue(t)'
  BY <1>1, PubQueueEnds DEF CursorFails, ViewParts, TypeOK
<1> QED
  BY <1>2, <1>30 DEF ViewParts

LEMMA ResetClearsView ==
    ASSUME TypeOK, TypeOK', NEW t \in Tabs, ViewParts(t), cursor <= head, ResetClears(t)
    PROVE  ViewParts(t)'
<1>1. /\ head' = head
      /\ UNCHANGED <<app[t], boot[t], running[t], lastSeq[t], socket[t], polls[t], ops[t], resyncHead[t], buffer[t], seen[t], skipped[t]>>
  BY DEF ResetClears, server, disk, shell, engine, net, cache, flow, gone
<1>2. PubSeq(t)' /\ PubHead(t)' /\ PubSock(t)' /\ PubOps(t)' /\ PubBoot(t)' /\ PubPolls(t)' /\ PubBuf(t)' /\ AlApp(t)' /\ AlSock(t)' /\ AlPolls(t)' /\ AlOps(t)' /\ AlIdle(t)' /\ ChBuf(t)' /\ ChAuth(t)' /\ ChHello(t)' /\ ChOpen(t)' /\ ChPolls(t)' /\ ChOps(t)' /\ ViewOf(t)'
  BY <1>1 DEF ViewParts, PubSeq, PubHead, PubSock, PubOps, PubBoot, PubPolls, PubBuf, AlApp, AlSock, AlPolls, AlOps, AlIdle, ChBuf, ChAuth, ChHello, ChOpen, ChPolls, ChOps, ViewOf, After, CurrentOps, ResyncInFlight
<1>30. PubQueue(t)'
  <2>1. queue[t][1] \in Task /\ queue[t][1].kind = "reset" /\ queue[t] # <<>>
    BY LocalTypes DEF ResetClears, HeadIs
  <2>2. \A step \in {"cleared", "dirty"} : [queue[t][1] EXCEPT !.step = step] \in Task
    BY <2>1 DEF Task
  <2> QED BY <1>1, <2>1, <2>2, PubQueueMoves DEF ResetClears, ViewParts, TypeOK
<1> QED
  BY <1>2, <1>30 DEF ViewParts

LEMMA ResetDeletesView ==
    ASSUME TypeOK, TypeOK', NEW t \in Tabs, ViewParts(t), cursor <= head, ResetDeletes(t)
    PROVE  ViewParts(t)'
<1>1. /\ head' = head
      /\ UNCHANGED <<app[t], boot[t], running[t], lastSeq[t], socket[t], polls[t], resyncHead[t], buffer[t], seen[t], skipped[t]>>
  BY DEF ResetDeletes, server, disk, shell, engine, net, cache, flow, gone, ResetEnds, Rejects
<1>2. PubSeq(t)' /\ PubHead(t)' /\ PubSock(t)' /\ PubBoot(t)' /\ PubPolls(t)' /\ PubBuf(t)' /\ AlApp(t)' /\ AlSock(t)' /\ AlPolls(t)' /\ ChBuf(t)' /\ ChAuth(t)' /\ ChHello(t)' /\ ChOpen(t)' /\ ChPolls(t)' /\ ViewOf(t)'
  BY <1>1 DEF ViewParts, PubSeq, PubHead, PubSock, PubBoot, PubPolls, PubBuf, AlApp, AlSock, AlPolls, ChBuf, ChAuth, ChHello, ChOpen, ChPolls, ViewOf, After
<1>3. /\ Arg(t) \in Slots /\ \A l \in Slots \ {Arg(t)} : ops'[t][l] = ops[t][l]
      /\ \/ ops'[t][Arg(t)] = NoOp /\ ~ops[t][Arg(t)].cur
         \/ /\ ops'[t][Arg(t)].cur = ops[t][Arg(t)].cur /\ ops'[t][Arg(t)].target = ops[t][Arg(t)].target
            /\ \/ ops'[t][Arg(t)].st = "sleep" /\ ops'[t][Arg(t)].at = ops[t][Arg(t)].at
               \/ ops'[t][Arg(t)].st = "fetch" /\ ops'[t][Arg(t)].at = head
  <2>1. Arg(t) \in Slots
    BY LocalTypes, TaskKinds DEF ResetDeletes, HeadIs, Arg
  <2>2. CASE Rejects(t, Arg(t))
    BY <2>1, <2>2, RejectsFacts DEF TypeOK
  <2>3. CASE ~Rejects(t, Arg(t))
    <3>1. ops' = [ops EXCEPT ![t][Arg(t)] = [@ EXCEPT !.st = "fetch", !.at = head]]
      BY <2>3 DEF ResetDeletes, ResetEnds
    <3>2. EngineType /\ head \in Seqs0
      BY LocalTypes DEF TypeOK
    <3> QED BY <2>1, <3>1, <3>2, FetchFacts
  <2> QED BY <2>2, <2>3
<1>4. head \in Nat
  BY LocalNumbers
<1>30. PubQueue(t)'
  BY <1>1, PubQueueEnds DEF ResetDeletes, ResetEnds, ViewParts, TypeOK, HeadIs
<1>31. PubOps(t)'
  <2> SUFFICES ASSUME NEW l \in Slots PROVE ops'[t][l].target <= head /\ ops'[t][l].at <= head
    BY <1>1 DEF PubOps
  <2>1. CASE l = Arg(t)
    BY <1>3, <1>4, <2>1 DEF ViewParts, PubOps, NoOp
  <2>2. CASE l # Arg(t)
    BY <1>3, <2>2 DEF ViewParts, PubOps
  <2> QED BY <2>1, <2>2
<1>32. AlOps(t)' /\ AlIdle(t)'
  <2>1. \A l \in Slots : ops'[t][l].cur <=> ops[t][l].cur
    <3>1. ops'[t][Arg(t)].cur <=> ops[t][Arg(t)].cur
      BY <1>3 DEF NoOp
    <3> QED BY <1>3, <3>1
  <2>2. CurrentOps(t)' = CurrentOps(t)
    BY <2>1 DEF CurrentOps
  <2> QED BY <1>1, <2>2 DEF ViewParts, AlOps, AlIdle, ResyncInFlight
<1>33. ChOps(t)'
  <2> SUFFICES ASSUME NEW l \in Slots, ops'[t][l].st = "fetch" PROVE ops'[t][l].target <= ops'[t][l].at
    BY DEF ChOps
  <2>1. CASE l = Arg(t)
    BY <1>3, <1>4, <2>1 DEF ViewParts, PubOps, NoOp
  <2>2. CASE l # Arg(t)
    BY <1>3, <2>2 DEF ViewParts, ChOps
  <2> QED BY <2>1, <2>2
<1> QED
  BY <1>2, <1>30, <1>31, <1>32, <1>33 DEF ViewParts

LEMMA RefetchFailsView ==
    ASSUME TypeOK, TypeOK', NEW t \in Tabs, NEW k \in Slots, ViewParts(t), cursor <= head, RefetchFails(t, k)
    PROVE  ViewParts(t)'
<1>1. /\ head' = head
      /\ UNCHANGED <<app[t], boot[t], running[t], lastSeq[t], socket[t], polls[t], resyncHead[t], buffer[t], queue[t], seen[t], skipped[t]>>
  BY DEF RefetchFails, server, disk, shell, engine, net, cache, flow, gone
<1>2. PubSeq(t)' /\ PubHead(t)' /\ PubSock(t)' /\ PubBoot(t)' /\ PubPolls(t)' /\ PubBuf(t)' /\ PubQueue(t)' /\ AlApp(t)' /\ AlSock(t)' /\ AlPolls(t)' /\ ChBuf(t)' /\ ChAuth(t)' /\ ChHello(t)' /\ ChOpen(t)' /\ ChPolls(t)' /\ ViewOf(t)'
  BY <1>1 DEF ViewParts, PubSeq, PubHead, PubSock, PubBoot, PubPolls, PubBuf, PubQueue, AlApp, AlSock, AlPolls, ChBuf, ChAuth, ChHello, ChOpen, ChPolls, ViewOf, After
<1>3. /\ \A l \in Slots \ {k} : ops'[t][l] = ops[t][l]
      /\ \/ ops'[t][k] = NoOp /\ ~ops[t][k].cur
         \/ /\ ops'[t][k].cur = ops[t][k].cur /\ ops'[t][k].target = ops[t][k].target
            /\ ops'[t][k].st = "sleep" /\ ops'[t][k].at = ops[t][k].at
  BY RejectsFacts DEF RefetchFails, TypeOK
<1>4. head \in Nat
  BY LocalNumbers
<1>30. PubOps(t)'
  <2> SUFFICES ASSUME NEW l \in Slots PROVE ops'[t][l].target <= head /\ ops'[t][l].at <= head
    BY <1>1 DEF PubOps
  <2>1. CASE l = k
    BY <1>3, <1>4, <2>1 DEF ViewParts, PubOps, NoOp
  <2>2. CASE l # k
    BY <1>3, <2>2 DEF ViewParts, PubOps
  <2> QED BY <2>1, <2>2
<1>31. AlOps(t)' /\ AlIdle(t)'
  <2>1. \A l \in Slots : ops'[t][l].cur <=> ops[t][l].cur
    <3>1. ops'[t][k].cur <=> ops[t][k].cur
      BY <1>3 DEF NoOp
    <3> QED BY <1>3, <3>1
  <2>2. CurrentOps(t)' = CurrentOps(t)
    BY <2>1 DEF CurrentOps
  <2> QED BY <1>1, <2>2 DEF ViewParts, AlOps, AlIdle, ResyncInFlight
<1>32. ChOps(t)'
  <2> SUFFICES ASSUME NEW l \in Slots, ops'[t][l].st = "fetch" PROVE ops'[t][l].target <= ops'[t][l].at
    BY DEF ChOps
  <2>1. CASE l = k
    BY <1>3, <1>4, <2>1 DEF ViewParts, PubOps, NoOp
  <2>2. CASE l # k
    BY <1>3, <2>2 DEF ViewParts, ChOps
  <2> QED BY <2>1, <2>2
<1> QED
  BY <1>2, <1>30, <1>31, <1>32 DEF ViewParts

LEMMA PreludeEndsView ==
    ASSUME TypeOK, TypeOK', NEW t \in Tabs, NEW k \in Slots, ViewParts(t), cursor <= head, PreludeEnds(t, k)
    PROVE  ViewParts(t)'
<1>1. /\ head' = head
      /\ UNCHANGED <<app[t], running[t], lastSeq[t], socket[t], polls[t], ops[t], resyncHead[t], buffer[t], seen[t], skipped[t]>>
  BY DEF PreludeEnds, server, disk, shell, engine, net, cache, flow, gone
<1>2. PubSeq(t)' /\ PubHead(t)' /\ PubSock(t)' /\ PubOps(t)' /\ PubPolls(t)' /\ PubBuf(t)' /\ AlApp(t)' /\ AlSock(t)' /\ AlPolls(t)' /\ AlOps(t)' /\ AlIdle(t)' /\ ChBuf(t)' /\ ChAuth(t)' /\ ChHello(t)' /\ ChOpen(t)' /\ ChPolls(t)' /\ ChOps(t)' /\ ViewOf(t)'
  BY <1>1 DEF ViewParts, PubSeq, PubHead, PubSock, PubOps, PubPolls, PubBuf, AlApp, AlSock, AlPolls, AlOps, AlIdle, ChBuf, ChAuth, ChHello, ChOpen, ChPolls, ChOps, ViewOf, After, CurrentOps, ResyncInFlight
<1>30. PubBoot(t)'
  <2>1. \A l \in Slots : \/ boot'[t][l].read = boot[t][l].read
                        \/ boot'[t][l].read = 0
                        \/ boot'[t][l].read = cursor
    BY LocalTypes, BootFacts, ValueTypes DEF PreludeEnds, CallRejects, CallEnds, StartSync, NoCall, TypeOK, ShellType, Call
  <2> QED BY <1>1, <2>1, PubBootKept DEF ViewParts
<1>31. PubQueue(t)'
  <2>1. queue'[t] = Append(queue[t], SeedTask(k))
    BY DEF PreludeEnds, TypeOK, FlowType
  <2>2. SeedTask(k) \in Task /\ SeedTask(k).kind = "seed"
    BY TaskTypes DEF SeedTask
  <2> QED BY <1>1, <2>1, <2>2, PubQueueGrows DEF ViewParts, TypeOK
<1> QED
  BY <1>2, <1>30, <1>31 DEF ViewParts

LEMMA PreludeFailsView ==
    ASSUME TypeOK, TypeOK', NEW t \in Tabs, NEW k \in Slots, ViewParts(t), cursor <= head, PreludeFails(t, k)
    PROVE  ViewParts(t)'
<1>1. /\ head' = head
      /\ UNCHANGED <<app[t], running[t], lastSeq[t], socket[t], polls[t], ops[t], resyncHead[t], buffer[t], queue[t], seen[t], skipped[t]>>
  BY DEF PreludeFails, server, disk, shell, engine, net, cache, flow, gone
<1>2. PubSeq(t)' /\ PubHead(t)' /\ PubSock(t)' /\ PubOps(t)' /\ PubPolls(t)' /\ PubBuf(t)' /\ PubQueue(t)' /\ AlApp(t)' /\ AlSock(t)' /\ AlPolls(t)' /\ AlOps(t)' /\ AlIdle(t)' /\ ChBuf(t)' /\ ChAuth(t)' /\ ChHello(t)' /\ ChOpen(t)' /\ ChPolls(t)' /\ ChOps(t)' /\ ViewOf(t)'
  BY <1>1 DEF ViewParts, PubSeq, PubHead, PubSock, PubOps, PubPolls, PubBuf, PubQueue, AlApp, AlSock, AlPolls, AlOps, AlIdle, ChBuf, ChAuth, ChHello, ChOpen, ChPolls, ChOps, ViewOf, After, CurrentOps, ResyncInFlight
<1>30. PubBoot(t)'
  <2>1. \A l \in Slots : \/ boot'[t][l].read = boot[t][l].read
                        \/ boot'[t][l].read = 0
                        \/ boot'[t][l].read = cursor
    BY LocalTypes, BootFacts, ValueTypes DEF PreludeFails, CallRejects, CallEnds, StartSync, NoCall, TypeOK, ShellType, Call
  <2> QED BY <1>1, <2>1, PubBootKept DEF ViewParts
<1> QED
  BY <1>2, <1>30 DEF ViewParts

LEMMA SeedReadsView ==
    ASSUME TypeOK, TypeOK', NEW t \in Tabs, ViewParts(t), cursor <= head, SeedReads(t)
    PROVE  ViewParts(t)'
<1>1. /\ head' = head
      /\ UNCHANGED <<app[t], running[t], lastSeq[t], socket[t], polls[t], ops[t], resyncHead[t], buffer[t], seen[t], skipped[t]>>
  BY DEF SeedReads, server, disk, shell, engine, net, cache, flow, gone
<1>2. PubSeq(t)' /\ PubHead(t)' /\ PubSock(t)' /\ PubOps(t)' /\ PubPolls(t)' /\ PubBuf(t)' /\ AlApp(t)' /\ AlSock(t)' /\ AlPolls(t)' /\ AlOps(t)' /\ AlIdle(t)' /\ ChBuf(t)' /\ ChAuth(t)' /\ ChHello(t)' /\ ChOpen(t)' /\ ChPolls(t)' /\ ChOps(t)' /\ ViewOf(t)'
  BY <1>1 DEF ViewParts, PubSeq, PubHead, PubSock, PubOps, PubPolls, PubBuf, AlApp, AlSock, AlPolls, AlOps, AlIdle, ChBuf, ChAuth, ChHello, ChOpen, ChPolls, ChOps, ViewOf, After, CurrentOps, ResyncInFlight
<1>30. PubBoot(t)'
  <2>1. Arg(t) \in Slots /\ boot[t] \in [Slots -> Call]
    BY LocalTypes, TaskKinds DEF SeedReads, HeadIs, Arg
  <2>2. CASE CallRejects(t, Arg(t))
    <3>1. \A l \in Slots : boot'[t][l] = boot[t][l] \/ boot'[t][l] = NoCall
      BY <2>1, <2>2, BootFacts, ValueTypes DEF CallRejects, CallEnds, TypeOK
    <3> QED BY <1>1, <3>1, PubBootKept DEF ViewParts, NoCall
  <2>3. CASE boot' = [boot EXCEPT ![t][Arg(t)] = [@ EXCEPT !.st = "read", !.read = cursor]]
    <3> DEFINE c == [boot[t][Arg(t)] EXCEPT !.st = "read", !.read = cursor]
    <3>1. \A x \in Call, n \in Seqs0 : [x EXCEPT !.st = "read", !.read = n] \in Call
                                    /\ [x EXCEPT !.st = "read", !.read = n].read = n
      BY DEF Call
    <3>2. c \in Call /\ c.read = cursor
      BY <2>1, <3>1, LocalTypes
    <3>3. boot' = [boot EXCEPT ![t][Arg(t)] = c]
      BY <2>3
    <3> HIDE DEF c
    <3>4. \A l \in Slots : boot'[t][l] = boot[t][l] \/ boot'[t][l] = c
      BY <2>1, <3>2, <3>3, BootFacts DEF TypeOK
    <3> QED BY <1>1, <3>2, <3>4, PubBootKept DEF ViewParts
  <2> QED BY <2>2, <2>3 DEF SeedReads
<1>31. PubQueue(t)'
  BY <1>1, PubQueueEnds DEF SeedReads, ViewParts, TypeOK, HeadIs
<1> QED
  BY <1>2, <1>30, <1>31 DEF ViewParts

LEMMA SeedFailsView ==
    ASSUME TypeOK, TypeOK', NEW t \in Tabs, ViewParts(t), cursor <= head, SeedFails(t)
    PROVE  ViewParts(t)'
<1>1. /\ head' = head
      /\ UNCHANGED <<app[t], running[t], lastSeq[t], socket[t], polls[t], ops[t], resyncHead[t], buffer[t], seen[t], skipped[t]>>
  BY DEF SeedFails, server, disk, shell, engine, net, cache, flow, gone
<1>2. PubSeq(t)' /\ PubHead(t)' /\ PubSock(t)' /\ PubOps(t)' /\ PubPolls(t)' /\ PubBuf(t)' /\ AlApp(t)' /\ AlSock(t)' /\ AlPolls(t)' /\ AlOps(t)' /\ AlIdle(t)' /\ ChBuf(t)' /\ ChAuth(t)' /\ ChHello(t)' /\ ChOpen(t)' /\ ChPolls(t)' /\ ChOps(t)' /\ ViewOf(t)'
  BY <1>1 DEF ViewParts, PubSeq, PubHead, PubSock, PubOps, PubPolls, PubBuf, AlApp, AlSock, AlPolls, AlOps, AlIdle, ChBuf, ChAuth, ChHello, ChOpen, ChPolls, ChOps, ViewOf, After, CurrentOps, ResyncInFlight
<1>30. PubBoot(t)'
  <2>1. \A l \in Slots : \/ boot'[t][l].read = boot[t][l].read
                        \/ boot'[t][l].read = 0
                        \/ boot'[t][l].read = cursor
    BY LocalTypes, BootFacts, ValueTypes DEF SeedFails, CallRejects, CallEnds, StartSync, NoCall, TypeOK, ShellType, Call
  <2> QED BY <1>1, <2>1, PubBootKept DEF ViewParts
<1>31. PubQueue(t)'
  BY <1>1, PubQueueEnds DEF SeedFails, ViewParts, TypeOK, HeadIs
<1> QED
  BY <1>2, <1>30, <1>31 DEF ViewParts

LEMMA UnlockView ==
    ASSUME TypeOK, TypeOK', NEW t \in Tabs, ViewParts(t), cursor <= head, Unlock(t)
    PROVE  ViewParts(t)'
<1>1. /\ head' = head
      /\ UNCHANGED <<running[t], lastSeq[t], socket[t], polls[t], ops[t], resyncHead[t], buffer[t], queue[t], seen[t], skipped[t]>>
  BY DEF Unlock, server, disk, shell, engine, net, cache, flow, gone
<1>2. PubSeq(t)' /\ PubHead(t)' /\ PubSock(t)' /\ PubOps(t)' /\ PubPolls(t)' /\ PubBuf(t)' /\ PubQueue(t)' /\ AlSock(t)' /\ AlPolls(t)' /\ AlOps(t)' /\ AlIdle(t)' /\ ChBuf(t)' /\ ChAuth(t)' /\ ChHello(t)' /\ ChOpen(t)' /\ ChPolls(t)' /\ ChOps(t)' /\ ViewOf(t)'
  BY <1>1 DEF ViewParts, PubSeq, PubHead, PubSock, PubOps, PubPolls, PubBuf, PubQueue, AlSock, AlPolls, AlOps, AlIdle, ChBuf, ChAuth, ChHello, ChOpen, ChPolls, ChOps, ViewOf, After, CurrentOps, ResyncInFlight
<1>30. PubBoot(t)'
  <2>1. \A l \in Slots : \/ boot'[t][l].read = boot[t][l].read
                        \/ boot'[t][l].read = 0
                        \/ boot'[t][l].read = cursor
    BY LocalTypes, BootFacts, ValueTypes DEF Unlock, CallRejects, CallEnds, StartSync, NoCall, TypeOK, ShellType, Call
  <2> QED BY <1>1, <2>1, PubBootKept DEF ViewParts
<1>31. AlApp(t)'
  BY <1>1 DEF ViewParts, AlApp, Unlock
<1> QED
  BY <1>2, <1>30, <1>31 DEF ViewParts

LEMMA OpenView ==
    ASSUME TypeOK, TypeOK', NEW t \in Tabs, ViewParts(t), cursor <= head, Open(t)
    PROVE  ViewParts(t)'
<1>1. /\ head' = head
      /\ UNCHANGED <<running[t], lastSeq[t], socket[t], polls[t], ops[t], resyncHead[t], buffer[t], queue[t], seen[t], skipped[t]>>
  BY DEF Open, server, disk, shell, engine, net, cache, flow, gone
<1>2. PubSeq(t)' /\ PubHead(t)' /\ PubSock(t)' /\ PubOps(t)' /\ PubPolls(t)' /\ PubBuf(t)' /\ PubQueue(t)' /\ AlSock(t)' /\ AlPolls(t)' /\ AlOps(t)' /\ AlIdle(t)' /\ ChBuf(t)' /\ ChAuth(t)' /\ ChHello(t)' /\ ChOpen(t)' /\ ChPolls(t)' /\ ChOps(t)' /\ ViewOf(t)'
  BY <1>1 DEF ViewParts, PubSeq, PubHead, PubSock, PubOps, PubPolls, PubBuf, PubQueue, AlSock, AlPolls, AlOps, AlIdle, ChBuf, ChAuth, ChHello, ChOpen, ChPolls, ChOps, ViewOf, After, CurrentOps, ResyncInFlight
<1>30. PubBoot(t)'
  <2>1. \A l \in Slots : \/ boot'[t][l].read = boot[t][l].read
                        \/ boot'[t][l].read = 0
                        \/ boot'[t][l].read = cursor
    BY LocalTypes, BootFacts, ValueTypes DEF Open, CallRejects, CallEnds, StartSync, NoCall, TypeOK, ShellType, Call
  <2> QED BY <1>1, <2>1, PubBootKept DEF ViewParts
<1>31. AlApp(t)'
  BY <1>1 DEF ViewParts, AlApp, Open
<1> QED
  BY <1>2, <1>30, <1>31 DEF ViewParts

LEMMA ConnectsView ==
    ASSUME TypeOK, TypeOK', NEW t \in Tabs, ViewParts(t), cursor <= head, Connects(t)
    PROVE  ViewParts(t)'
<1>1. /\ head' = head
      /\ UNCHANGED <<app[t], boot[t], running[t], lastSeq[t], polls[t], ops[t], resyncHead[t], buffer[t], queue[t], seen[t], skipped[t]>>
  BY DEF Connects, server, disk, shell, engine, net, cache, flow, gone
<1>2. PubSeq(t)' /\ PubHead(t)' /\ PubOps(t)' /\ PubBoot(t)' /\ PubPolls(t)' /\ PubBuf(t)' /\ PubQueue(t)' /\ AlApp(t)' /\ AlPolls(t)' /\ AlOps(t)' /\ AlIdle(t)' /\ ChBuf(t)' /\ ChPolls(t)' /\ ChOps(t)' /\ ViewOf(t)'
  BY <1>1 DEF ViewParts, PubSeq, PubHead, PubOps, PubBoot, PubPolls, PubBuf, PubQueue, AlApp, AlPolls, AlOps, AlIdle, ChBuf, ChPolls, ChOps, ViewOf, After, CurrentOps, ResyncInFlight
<1>3. socket'[t] = [Down EXCEPT !.st = "auth", !.since = lastSeq[t]]
  BY LocalTypes, SocketType DEF Connects, SocketBecomes, TypeOK, NetType
<1>4. lastSeq[t] \in Nat /\ head \in Nat /\ low \in Nat /\ low <= head /\ socket[t].since \in Nat
  BY LocalNumbers
<1>30. PubSock(t)'
  BY <1>1, <1>3, <1>4 DEF Down, PubSock
<1>31. AlSock(t)'
  BY <1>1, <1>3 DEF Connects, AlSock
<1>32. ChAuth(t)' /\ ChHello(t)' /\ ChOpen(t)'
  BY <1>1, <1>3, <1>4 DEF Down, ChAuth, ChHello, ChOpen
<1> QED
  BY <1>2, <1>30, <1>31, <1>32 DEF ViewParts

LEMMA ServerGreetsView ==
    ASSUME TypeOK, TypeOK', NEW t \in Tabs, ViewParts(t), cursor <= head, ServerGreets(t)
    PROVE  ViewParts(t)'
<1>1. /\ head' = head
      /\ UNCHANGED <<app[t], boot[t], running[t], lastSeq[t], polls[t], ops[t], resyncHead[t], buffer[t], queue[t], seen[t], skipped[t]>>
  BY DEF ServerGreets, server, disk, shell, engine, net, cache, flow, gone
<1>2. PubSeq(t)' /\ PubHead(t)' /\ PubOps(t)' /\ PubBoot(t)' /\ PubPolls(t)' /\ PubBuf(t)' /\ PubQueue(t)' /\ AlApp(t)' /\ AlPolls(t)' /\ AlOps(t)' /\ AlIdle(t)' /\ ChBuf(t)' /\ ChPolls(t)' /\ ChOps(t)' /\ ViewOf(t)'
  BY <1>1 DEF ViewParts, PubSeq, PubHead, PubOps, PubBoot, PubPolls, PubBuf, PubQueue, AlApp, AlPolls, AlOps, AlIdle, ChBuf, ChPolls, ChOps, ViewOf, After, CurrentOps, ResyncInFlight
<1>3. socket'[t] = [socket[t] EXCEPT !.st = "hello", !.resync = socket[t].since < low, !.last = head,
                 !.next = 1 + IF socket[t].since < low THEN head ELSE socket[t].since]
  BY LocalTypes, SocketType DEF ServerGreets, SocketBecomes, TypeOK, NetType
<1>4. lastSeq[t] \in Nat /\ head \in Nat /\ low \in Nat /\ low <= head /\ socket[t].since \in Nat
  BY LocalNumbers
<1>5. socket[t] \in Socket /\ socket[t].st = "auth"
  BY LocalTypes DEF ServerGreets
<1>6. /\ socket'[t].st = "hello" /\ (socket'[t].resync <=> socket[t].since < low) /\ socket'[t].last = head
      /\ socket'[t].next = 1 + IF socket[t].since < low THEN head ELSE socket[t].since
  BY <1>3, <1>5 DEF Socket
<1>7. socket[t].since <= lastSeq[t] /\ lastSeq[t] <= head
  BY <1>5 DEF ViewParts, ChAuth, PubSeq
<1>30. PubSock(t)'
  BY <1>1, <1>4, <1>6, <1>7 DEF PubSock
<1>31. AlSock(t)'
  BY <1>1, <1>5 DEF ServerGreets, AlSock, ViewParts
<1>32. ChAuth(t)' /\ ChOpen(t)'
  BY <1>6 DEF ChAuth, ChOpen
<1>33. ChHello(t)'
  BY <1>1, <1>4, <1>6, <1>7 DEF ChHello
<1> QED
  BY <1>2, <1>30, <1>31, <1>32, <1>33 DEF ViewParts


-----------------------------------------------------------------------------
(* ViewComplete: the engine goes on, or stops.                             *)

Runs(t) == running[t]

\* A stopped engine has nothing under way.
LEMMA Stopped ==
    ASSUME TypeOK, NEW t \in Tabs, ViewParts(t), ~running[t]
    PROVE  /\ socket[t].st = "down" /\ CurrentOps(t) = {}
           /\ \A p \in polls[t] : ~p.cur /\ p.st = "answered"
           /\ resyncHead[t] = 0 /\ buffer[t] = <<>>
BY DEF ViewParts, AlSock, AlOps, AlPolls, AlIdle, ResyncInFlight

\* What follows still does when the engine has come further.
LEMMA AfterGrows ==
    ASSUME NEW n \in Nat, NEW b, NEW m, NEW last \in Nat, NEW newest \in Nat,
           After(n, b, m, last, newest),
           NEW last1 \in Nat, NEW newest1 \in Nat, last <= last1, newest <= newest1
    PROVE  After(n, b, m, last1, newest1)
BY DEF After

LEMMA SocketKept ==
    ASSUME TypeOK, TypeOK', NEW t \in Tabs, ChAuth(t), ChHello(t), ChOpen(t),
           UNCHANGED <<socket[t], buffer[t]>>,
           lastSeq[t] <= lastSeq'[t], resyncHead[t] <= resyncHead'[t]
    PROVE  ChAuth(t)' /\ ChHello(t)' /\ ChOpen(t)'
<1>1. /\ lastSeq[t] \in Nat /\ resyncHead[t] \in Nat
      /\ socket[t].since \in Nat /\ socket[t].next \in Nat
  BY LocalNumbers
<1>2. lastSeq'[t] \in Nat /\ resyncHead'[t] \in Nat
  <2>1. lastSeq'[t] \in Seqs0 /\ resyncHead'[t] \in Seqs0
    BY DEF TypeOK, FlowType, EngineType
  <2> QED BY <2>1, NumberTypes
<1>3. ChAuth(t)' /\ ChHello(t)'
  BY <1>1, <1>2 DEF ChAuth, ChHello
<1>4. socket[t].st = "open" =>
          After(socket[t].next, buffer[t], Len(buffer[t]), lastSeq'[t], resyncHead'[t])
  BY <1>1, <1>2, AfterGrows DEF ChOpen
<1> QED
  BY <1>3, <1>4 DEF ChOpen

\* The polls when one has come, or taken the place of another.
LEMMA PollsBecome ==
    ASSUME TypeOK, TypeOK', NEW t \in Tabs, PubPolls(t), AlPolls(t), ChPolls(t), NEW q,
           \A r \in polls'[t] : r \in polls[t] \/ r = q,
           head' = head, Runs(t) => Runs(t)', lastSeq[t] <= lastSeq'[t],
           q.upto <= head,
           IF q.cur THEN Runs(t)' ELSE q.st = "answered",
           q.cur /\ q.st \in {"asked", "answered"} => q.since <= lastSeq'[t],
           q.st = "answered" /\ ~q.resync => q.since < q.upto
    PROVE  PubPolls(t)' /\ AlPolls(t)' /\ ChPolls(t)'
<1>1. lastSeq[t] \in Nat /\ \A p \in polls[t] : p.since \in Nat
  BY LocalNumbers
<1>2. lastSeq'[t] \in Nat
  <2>1. lastSeq'[t] \in Seqs0
    BY DEF TypeOK, FlowType
  <2> QED BY <2>1, NumberTypes
<1>3. PubPolls(t)'
  BY DEF PubPolls
<1>4. AlPolls(t)'
  BY DEF AlPolls, Runs
<1>5. \A p \in polls[t] : p.cur /\ p.st \in {"asked", "answered"} => p.since <= lastSeq'[t]
  BY <1>1, <1>2 DEF ChPolls
<1>6. ChPolls(t)'
  BY <1>5 DEF ChPolls
<1> QED
  BY <1>3, <1>4, <1>6

\* A slot has begun a round.
LEMMA RoundFacts ==
    ASSUME TypeOK, NEW t \in Tabs, NEW k \in Slots, NEW f \in FlowType1, NEW n \in Seqs0,
           Round(t, k, f, n)
    PROVE  /\ ops'[t][k] = Resetting(n)
           /\ \A l \in Slots \ {k} : ops'[t][l] = ops[t][l]
           /\ queue'[t] = Append(f.queue, ResetTask(k))
           /\ lastSeq'[t] = f.last /\ seen'[t] = f.seen /\ failed'[t] = FALSE
<1> DEFINE q == [f EXCEPT !.queue = Append(@, ResetTask(k))]
<1>1. Resetting(n) \in Op
  BY NumberTypes DEF Op, Resetting
<1>2. ops' = [ops EXCEPT ![t][k] = Resetting(n)] /\ FlowBecomes(t, q)
  BY DEF Round
<1>3. q \in FlowType1 /\ q.last = f.last /\ q.seen = f.seen /\ q.queue = Append(f.queue, ResetTask(k))
  BY QueueGrows, TaskTypes DEF FlowType1
<1> HIDE DEF q
<1>4. ops'[t][k] = Resetting(n) /\ \A l \in Slots \ {k} : ops'[t][l] = ops[t][l]
  BY <1>1, <1>2, OpsFacts DEF TypeOK
<1>5. lastSeq'[t] = f.last /\ seen'[t] = f.seen /\ queue'[t] = Append(f.queue, ResetTask(k))
  BY <1>2, <1>3, FlowBecomesFacts DEF TypeOK
<1>6. failed'[t] = FALSE
  BY DEF Round, TypeOK, CacheType
<1> QED
  BY <1>4, <1>5, <1>6

LEMMA RoundView ==
    ASSUME TypeOK, TypeOK', NEW t \in Tabs, NEW k \in Slots, NEW n \in Seqs0,
           ViewParts(t), n <= head, ops'[t][k] = Resetting(n),
           \A l \in Slots \ {k} : ops'[t][l] = ops[t][l],
           queue'[t] = Append(queue[t], ResetTask(k)),
           CurrentOps(t) \subseteq {k}, Runs(t), Runs(t)', head' = head
    PROVE  /\ PubOps(t)' /\ PubQueue(t)' /\ AlOps(t)' /\ AlIdle(t)' /\ ChOps(t)'
           /\ ResyncInFlight(t)'
<1>1. ops'[t][k].st = "reset" /\ ops'[t][k].cur /\ ops'[t][k].target = n /\ ops'[t][k].at = 0
  BY DEF Resetting
<1>2. head \in Nat
  BY LocalNumbers
<1>3. PubOps(t)'
  <2> SUFFICES ASSUME NEW l \in Slots PROVE ops'[t][l].target <= head /\ ops'[t][l].at <= head
    BY DEF PubOps
  <2>1. CASE l = k
    BY <1>1, <1>2, <2>1
  <2>2. CASE l # k
    BY <1>1, <2>2 DEF ViewParts, PubOps
  <2> QED BY <2>1, <2>2
<1>4. PubQueue(t)'
  <2>1. ResetTask(k) \in Task /\ ResetTask(k).kind = "reset"
    BY TaskTypes DEF ResetTask
  <2> QED BY <1>1, <2>1, PubQueueGrows DEF ViewParts, TypeOK
<1>5. CurrentOps(t)' = {k}
  BY <1>1 DEF CurrentOps
<1>6. AlOps(t)' /\ ResyncInFlight(t)' /\ AlIdle(t)'
  BY <1>5 DEF AlOps, ResyncInFlight, AlIdle, Runs
<1>7. ChOps(t)'
  <2> SUFFICES ASSUME NEW l \in Slots, ops'[t][l].st = "fetch"
               PROVE  ops'[t][l].target <= ops'[t][l].at
    BY DEF ChOps
  <2>1. l # k
    BY <1>1
  <2> QED BY <1>1, <2>1 DEF ViewParts, ChOps
<1> QED
  BY <1>3, <1>4, <1>6, <1>7

\* A resync signal: the newest head is remembered, and a resync is in flight.
LEMMA HandleResyncView ==
    ASSUME TypeOK, TypeOK', NEW t \in Tabs, ViewParts(t), Runs(t), Runs(t)',
           NEW h \in Seqs0, h <= head, HandleResync(t, h), head' = head
    PROVE  /\ resyncHead[t] <= resyncHead'[t] /\ h <= resyncHead'[t]
           /\ lastSeq'[t] = lastSeq[t] /\ seen'[t] = seen[t]
           /\ PubHead(t)' /\ PubOps(t)' /\ PubQueue(t)' /\ AlOps(t)' /\ AlIdle(t)' /\ ChOps(t)'
           /\ ResyncInFlight(t)'
<1> DEFINE n == Max({resyncHead[t], h})
<1>1. resyncHead[t] \in Nat /\ h \in Nat /\ head \in Nat /\ resyncHead[t] <= head
  BY LocalNumbers, NumberTypes DEF ViewParts, PubHead
<1>2. n \in Seqs0 /\ n <= head /\ resyncHead[t] <= n /\ h <= n
  <2>1. n = IF resyncHead[t] >= h THEN resyncHead[t] ELSE h
    BY <1>1, MaxMinPair
  <2>2. resyncHead[t] \in Seqs0
    BY LocalTypes
  <2> HIDE DEF n
  <2> QED BY <1>1, <2>1, <2>2
<1>3. resyncHead'[t] = n
  BY DEF HandleResync, TypeOK, EngineType
<1>4. CASE ResyncInFlight(t)
  <2>1. UNCHANGED <<ops[t], lastSeq[t], seen[t], queue[t]>>
    BY <1>4 DEF HandleResync, flow
  <2> HIDE DEF n
  <2> QED BY <1>2, <1>3, <1>4, <2>1 DEF ViewParts, PubHead, PubOps, PubQueue, AlOps, AlIdle,
             ChOps, ResyncInFlight, CurrentOps, Runs
<1>5. CASE ~ResyncInFlight(t)
  <2>1. PICK k \in FreeSlots(t) : Round(t, k, Flow(t), n)
    BY <1>5 DEF HandleResync
  <2>2. k \in Slots /\ CurrentOps(t) \subseteq {k}
    BY <1>5 DEF FreeSlots, ResyncInFlight
  <2>3. Flow(t) \in FlowType1 /\ Flow(t).last = lastSeq[t] /\ Flow(t).queue = queue[t]
        /\ Flow(t).seen = seen[t]
    BY FlowTypes DEF Flow, TypeOK
  <2> HIDE DEF n
  <2>4. /\ ops'[t][k] = Resetting(n) /\ \A l \in Slots \ {k} : ops'[t][l] = ops[t][l]
        /\ queue'[t] = Append(queue[t], ResetTask(k))
        /\ lastSeq'[t] = lastSeq[t] /\ seen'[t] = seen[t]
    <3>1. /\ ops'[t][k] = Resetting(n) /\ \A l \in Slots \ {k} : ops'[t][l] = ops[t][l]
          /\ queue'[t] = Append(Flow(t).queue, ResetTask(k))
          /\ lastSeq'[t] = Flow(t).last /\ seen'[t] = Flow(t).seen
      <4>1. k \in Slots /\ n \in Seqs0 /\ Flow(t) \in FlowType1 /\ Round(t, k, Flow(t), n)
        BY <1>2, <2>1, <2>2, <2>3
      <4> QED BY <4>1, RoundFacts
    <3> QED BY <2>3, <3>1
  <2>5. PubOps(t)' /\ PubQueue(t)' /\ AlOps(t)' /\ AlIdle(t)' /\ ChOps(t)' /\ ResyncInFlight(t)'
    BY <1>2, <2>2, <2>4, RoundView
  <2> QED BY <1>2, <1>3, <2>4, <2>5 DEF PubHead
<1> QED
  BY <1>4, <1>5

\* Of the polls, what has been answered is left, and dropped when it comes.
LEMMA SupersedeFacts ==
    ASSUME TypeOK, TypeOK', NEW t \in Tabs, PubPolls(t), ChPolls(t), polls'[t] = Supersede(polls[t]),
           head' = head
    PROVE  PubPolls(t)' /\ AlPolls(t)' /\ ChPolls(t)'
<1>1. ASSUME NEW q \in polls'[t]
      PROVE  /\ ~q.cur /\ q.st = "answered" /\ q.upto <= head
             /\ ~q.resync => q.since < q.upto
  <2>1. PICK p \in polls[t] : p.st = "answered" /\ q = [p EXCEPT !.cur = FALSE]
    BY DEF Supersede
  <2>2. p \in Poll
    BY LocalTypes
  <2>3. ~q.cur /\ q.st = p.st /\ q.upto = p.upto /\ q.since = p.since /\ q.resync = p.resync
    BY <2>1, <2>2 DEF Poll
  <2> QED BY <2>1, <2>2, <2>3 DEF PubPolls, ChPolls
<1> QED
  BY <1>1 DEF PubPolls, AlPolls, ChPolls

\* A flow that extends the tab's has tasks for published events only.
LEMMA PubQueueExtends ==
    ASSUME TypeOK, NEW t \in Tabs, PubQueue(t), NEW f \in FlowType1, NEW r, Extends(f, r),
           \A i \in 1..Len(f.queue) :
              f.queue[i].kind \in {"apply", "cursor"} => f.queue[i].arg <= head,
           r.last <= head, queue'[t] = r.queue, head' = head
    PROVE  PubQueue(t)'
<1> SUFFICES ASSUME NEW i \in 1..Len(r.queue), r.queue[i].kind \in {"apply", "cursor"}
             PROVE  r.queue[i].arg <= head
  BY DEF PubQueue
<1>1. head \in Nat /\ f.last \in Nat /\ r.last \in Nat /\ Len(f.queue) \in Nat
      /\ Len(r.queue) \in Nat
  <2>1. r \in FlowType1 /\ f.last \in Seqs0 /\ r.last \in Seqs0
        /\ f.queue \in Seq(Task) /\ r.queue \in Seq(Task)
    BY DEF Extends, FlowType1
  <2>2. Len(f.queue) \in Nat /\ Len(r.queue) \in Nat
    BY <2>1
  <2> QED BY <2>1, <2>2, LocalNumbers, NumberTypes
<1>2. CASE i \in 1..Len(f.queue)
  BY <1>2 DEF Extends
<1>3. CASE i \notin 1..Len(f.queue)
  <2>1. i \in (Len(f.queue) + 1)..Len(r.queue)
    BY <1>1, <1>3
  <2>2. PICK s \in (f.last + 1)..r.last : r.queue[i] = ApplyTask(s) \/ r.queue[i] = CursorTask(s)
    BY <2>1 DEF Extends
  <2>3. r.queue[i].arg = s
    BY <2>2 DEF ApplyTask, CursorTask
  <2> QED BY <1>1, <2>3
<1> QED
  BY <1>2, <1>3

\* The flow after a newer cursor.
LEMMA AdvanceToFacts ==
    ASSUME NEW f \in FlowType1, NEW n \in Seqs0
    PROVE  LET r == AdvanceTo(f, n) IN
           /\ r \in FlowType1 /\ r.seen = f.seen /\ f.last <= r.last /\ n <= r.last
           /\ \/ n <= f.last /\ r = f
              \/ n > f.last /\ r.last = n /\ r.queue = Append(f.queue, CursorTask(n))
<1>1. AdvanceTo(f, n) \in FlowType1
  BY AdvanceToType
<1>2. f.last \in Nat /\ n \in Nat
  BY NumberTypes DEF FlowType1
<1>3. CASE n <= f.last
  BY <1>1, <1>2, <1>3 DEF AdvanceTo
<1>4. CASE ~(n <= f.last)
  BY <1>1, <1>2, <1>4 DEF AdvanceTo, FlowType1
<1> QED
  BY <1>3, <1>4

\* A batch that follows, on a running engine: what it has brought is applied, or
\* waits in the buffer.
LEMMA ApplyBatchView ==
    ASSUME TypeOK, TypeOK', NEW t \in Tabs, ViewParts(t), Runs(t), Runs(t)', head' = head,
           UNCHANGED <<ops[t], resyncHead[t]>>,
           NEW es \in Seq(Seqs), NEW n \in Seqs0, ApplyBatch(t, es, n),
           n <= head, \A i \in 1..Len(es) : es[i] <= head,
           n = 0 \/ \E i \in 1..Len(es) : es[i] = n,
           \A i \in 1..Len(es) :
              \/ After(es[i], buffer[t], Len(buffer[t]), lastSeq[t], resyncHead[t])
              \/ \E j \in 1..(i - 1) : es[i] = es[j] + 1
    PROVE  /\ lastSeq[t] <= lastSeq'[t]
           /\ PubSeq(t)' /\ PubBuf(t)' /\ PubQueue(t)' /\ AlIdle(t)' /\ ChBuf(t)' /\ ViewOf(t)'
           /\ \A i \in 1..Len(es) :
                 es[i] <= lastSeq'[t] \/ \E j \in 1..Len(buffer'[t]) : es[i] = buffer'[t][j]
           /\ n <= lastSeq'[t]
           /\ \A i \in 1..Len(buffer[t]) : i \in 1..Len(buffer'[t]) /\ buffer'[t][i] = buffer[t][i]
<1> DEFINE f == Flow(t)
           b == buffer[t]
<1>1. f \in FlowType1 /\ f.last = lastSeq[t] /\ f.queue = queue[t] /\ f.seen = seen[t]
  BY FlowTypes DEF Flow, TypeOK
<1>2. /\ lastSeq[t] \in Nat /\ resyncHead[t] \in Nat /\ head \in Nat /\ n \in Nat
      /\ b \in Seq(Seqs) /\ \A i \in 1..Len(b) : b[i] \in Nat
  BY LocalNumbers, LocalTypes, NumberTypes
<1>3. \A i \in 1..Len(es) : es[i] \in Nat /\ es[i] \in Seqs
  <2>1. \A i \in 1..Len(es) : es[i] \in Seqs
    OBVIOUS
  <2> QED BY <2>1, NumberTypes
<1>4. CASE Buffers(t)
  <2> DEFINE r == AdvanceTo(f, n)
  <2>1. /\ buffer'[t] = b \o es /\ FlowBecomes(t, r)
        /\ skipped'[t] = skipped[t] \cup (lastSeq[t] + 1)..n
    BY <1>4 DEF ApplyBatch, Skips, TypeOK, EngineType, PastType
  <2>2. /\ r \in FlowType1 /\ r.seen = seen[t] /\ lastSeq[t] <= r.last /\ n <= r.last
        /\ \/ n <= lastSeq[t] /\ r = f
           \/ n > lastSeq[t] /\ r.last = n /\ r.queue = Append(queue[t], CursorTask(n))
    BY <1>1, AdvanceToFacts
  <2> HIDE DEF r
  <2>3. lastSeq'[t] = r.last /\ queue'[t] = r.queue /\ seen'[t] = seen[t]
    BY <2>1, <2>2, FlowBecomesFacts DEF TypeOK
  <2>4. PubSeq(t)'
    BY <1>1, <2>2, <2>3 DEF ViewParts, PubSeq
  <2>5. PubQueue(t)'
    <3>1. CASE n <= lastSeq[t] /\ r = f
      BY <1>1, <2>3, <3>1 DEF ViewParts, PubQueue
    <3>2. CASE r.queue = Append(queue[t], CursorTask(n))
      <4>1. CursorTask(n) \in Task /\ CursorTask(n).arg = n
        BY TaskTypes DEF CursorTask
      <4> QED BY <2>3, <3>2, <4>1, PubQueueGrows DEF ViewParts, TypeOK
    <3> QED BY <2>2, <3>1, <3>2
  <2> DEFINE c == b \o es
  <2>6. /\ Len(c) = Len(b) + Len(es) /\ Len(b) \in Nat /\ Len(es) \in Nat
        /\ \A i \in 1..Len(b) : c[i] = b[i]
        /\ \A i \in 1..Len(es) : c[Len(b) + i] = es[i]
    BY <1>2
  <2> HIDE DEF c
  <2>7. \A i \in 1..Len(c) : i \in 1..Len(b) \/ \E j \in 1..Len(es) : i = Len(b) + j
    <3> SUFFICES ASSUME NEW i \in 1..Len(c), i \notin 1..Len(b)
                 PROVE  \E j \in 1..Len(es) : i = Len(b) + j
      OBVIOUS
    <3>1. i - Len(b) \in 1..Len(es) /\ i = Len(b) + (i - Len(b))
      BY <2>6
    <3> QED BY <3>1
  <2>8. buffer'[t] = c
    BY <2>1 DEF c
  <2>9. PubBuf(t)'
    <3> SUFFICES ASSUME NEW i \in 1..Len(c) PROVE c[i] <= head
      BY <2>8 DEF PubBuf
    <3>1. \A j \in 1..Len(b) : b[j] <= head
      BY DEF ViewParts, PubBuf
    <3> HIDE DEF b
    <3> QED BY <2>6, <2>7, <3>1
  <2>10. resyncHead'[t] = resyncHead[t] /\ ResyncInFlight(t)'
    BY <1>4 DEF Buffers, ResyncInFlight, CurrentOps
  <2>11. lastSeq'[t] \in Nat /\ lastSeq[t] <= lastSeq'[t]
    BY <2>2, <2>3, NumberTypes DEF FlowType1
  <2>12. ChBuf(t)'
    <3> SUFFICES ASSUME NEW i \in 1..Len(c)
                 PROVE  After(c[i], c, i - 1, lastSeq'[t], resyncHead[t])
      BY <2>8, <2>10 DEF ChBuf
    <3>1. CASE i \in 1..Len(b)
      <4>1. After(b[i], b, i - 1, lastSeq'[t], resyncHead[t])
        <5>1. After(b[i], b, i - 1, lastSeq[t], resyncHead[t])
          BY <3>1 DEF ViewParts, ChBuf
        <5> HIDE DEF b
        <5> QED BY <1>2, <2>11, <3>1, <5>1, AfterGrows
      <4>2. c[i] = b[i] /\ \A j \in 1..(i - 1) : c[j] = b[j]
        BY <2>6, <3>1
      <4> QED BY <4>1, <4>2 DEF After
    <3>2. ASSUME NEW j \in 1..Len(es), i = Len(b) + j
          PROVE  After(c[i], c, i - 1, lastSeq'[t], resyncHead[t])
      <4>1. c[i] = es[j]
        BY <2>6, <3>2
      <4>2. CASE After(es[j], b, Len(b), lastSeq[t], resyncHead[t])
        <5>1. After(es[j], b, Len(b), lastSeq'[t], resyncHead[t])
          BY <1>2, <1>3, <2>11, <4>2, AfterGrows
        <5>2. \A l \in 1..Len(b) : c[l] = b[l] /\ l \in 1..(i - 1)
          <6>1. Len(b) <= i - 1
            BY <2>6, <3>2
          <6>2. \A l \in 1..Len(b) : l \in 1..(i - 1)
            BY <2>6, <6>1
          <6> QED BY <2>6, <6>2
        <5> QED BY <4>1, <5>1, <5>2 DEF After
      <4>3. ASSUME NEW l \in 1..(j - 1), es[j] = es[l] + 1
            PROVE  After(c[i], c, i - 1, lastSeq'[t], resyncHead[t])
        <5>1. c[Len(b) + l] = es[l] /\ Len(b) + l \in 1..(i - 1)
          <6>1. Len(b) + l \in 1..(i - 1) /\ l \in 1..Len(es)
            BY <2>6, <3>2
          <6> QED BY <2>6, <6>1
        <5> QED BY <4>1, <4>3, <5>1 DEF After
      <4> QED BY <4>2, <4>3
    <3> QED BY <2>7, <3>1, <3>2
  <2>13. ViewOf(t)'
    <3>1. 1..lastSeq[t] \subseteq seen[t] \cup skipped[t]
      BY DEF ViewParts, ViewOf, Runs
    <3>2. \A s \in 1..lastSeq'[t] : s \in 1..lastSeq[t] \/ s \in (lastSeq[t] + 1)..n
      BY <1>1, <1>2, <2>2, <2>3
    <3> QED BY <2>1, <2>3, <3>1, <3>2 DEF ViewOf
  <2>14. \A i \in 1..Len(es) : \E j \in 1..Len(c) : es[i] = c[j]
    <3> TAKE i \in 1..Len(es)
    <3>1. Len(b) + i \in 1..Len(c) /\ c[Len(b) + i] = es[i]
      BY <2>6
    <3> QED BY <3>1
  <2>15. \A i \in 1..Len(b) : i \in 1..Len(c) /\ c[i] = b[i]
    BY <2>6
  <2> QED
    BY <2>2, <2>3, <2>4, <2>5, <2>8, <2>9, <2>10, <2>11, <2>12, <2>13, <2>14, <2>15 DEF AlIdle
<1>5. CASE ~Buffers(t)
  <2> DEFINE r == ApplyEach(f, es)
  <2>1. b = <<>> /\ resyncHead[t] = 0
    BY <1>5 DEF Buffers, ViewParts, AlIdle
  <2>2. \A i \in 1..Len(es) : es[i] <= f.last + 1 \/ \E j \in 1..(i - 1) : es[i] = es[j] + 1
    <3> SUFFICES ASSUME NEW i \in 1..Len(es),
                        After(es[i], b, Len(b), lastSeq[t], resyncHead[t])
                 PROVE  es[i] <= f.last + 1
      OBVIOUS
    <3>1. es[i] <= lastSeq[t] + 1 \/ es[i] <= 0 + 1
      BY <2>1 DEF After
    <3> QED BY <1>1, <1>2, <1>3, <3>1
  <2>3. /\ Extends(f, r) /\ \A i \in 1..Len(es) : es[i] <= r.last
        /\ r.last = f.last \/ \E i \in 1..Len(es) : r.last = es[i]
    BY <1>1, <2>2, ApplyEachExtends
  <2> HIDE DEF r
  <2>4. r \in FlowType1 /\ r.last \in Nat /\ f.last <= r.last
        /\ r.seen = f.seen \cup (f.last + 1)..r.last
    BY <2>3, NumberTypes DEF Extends, FlowType1
  <2>5. n <= r.last
    BY <1>2, <2>3, <2>4
  <2>6. AdvanceTo(r, n) = r
    BY <2>5 DEF AdvanceTo
  <2>7. FlowBecomes(t, r) /\ UNCHANGED <<buffer, skipped>>
    BY <1>5, <2>6 DEF ApplyBatch, r
  <2>8. lastSeq'[t] = r.last /\ queue'[t] = r.queue /\ seen'[t] = r.seen
    BY <2>4, <2>7, FlowBecomesFacts DEF TypeOK
  <2>9. r.last <= head
    BY <1>1, <2>3 DEF ViewParts, PubSeq
  <2>10. PubQueue(t)'
    <3>1. \A i \in 1..Len(f.queue) :
              f.queue[i].kind \in {"apply", "cursor"} => f.queue[i].arg <= head
      BY <1>1 DEF ViewParts, PubQueue
    <3>2. PubQueue(t)
      BY DEF ViewParts
    <3> HIDE DEF f
    <3> QED BY <1>1, <2>3, <2>8, <2>9, <3>1, <3>2, PubQueueExtends
  <2>11. PubSeq(t)' /\ PubBuf(t)' /\ AlIdle(t)'
    BY <2>7, <2>8, <2>9 DEF ViewParts, PubSeq, PubBuf, AlIdle, ResyncInFlight, CurrentOps
  <2>12. ChBuf(t)'
    BY <2>1, <2>7 DEF ChBuf
  <2>13. ViewOf(t)'
    <3>1. 1..lastSeq[t] \subseteq seen[t] \cup skipped[t]
      BY DEF ViewParts, ViewOf, Runs
    <3>2. \A s \in 1..r.last : s \in 1..lastSeq[t] \/ s \in (lastSeq[t] + 1)..r.last
      BY <1>2, <2>4
    <3> QED BY <1>1, <2>4, <2>7, <2>8, <3>1, <3>2 DEF ViewOf
  <2> QED
    BY <1>1, <2>1, <2>3, <2>4, <2>5, <2>7, <2>8, <2>10, <2>11, <2>12, <2>13
<1> QED
  BY <1>4, <1>5

\* The actions on polls.
LEMMA PollBecomesFacts ==
    ASSUME NetType, NEW t \in Tabs, NEW p, NEW qs, PollBecomes(t, p, qs)
    PROVE  \A q \in polls'[t] : q \in polls[t] \cup qs
BY DEF NetType, PollBecomes

LEMMA ServerAnswersView ==
    ASSUME TypeOK, TypeOK', NEW t \in Tabs, NEW p \in polls[t], ViewParts(t), cursor <= head,
           ServerAnswers(t, p)
    PROVE  ViewParts(t)'
<1>1. /\ head' = head
      /\ UNCHANGED <<app[t], boot[t], running[t], lastSeq[t], socket[t], ops[t], resyncHead[t],
                     buffer[t], queue[t], seen[t], skipped[t]>>
  BY DEF ServerAnswers, server, disk, shell, engine, cache, flow, gone
<1>2. /\ PubSeq(t)' /\ PubHead(t)' /\ PubSock(t)' /\ PubOps(t)' /\ PubBoot(t)' /\ PubBuf(t)'
      /\ PubQueue(t)' /\ AlApp(t)' /\ AlSock(t)' /\ AlOps(t)' /\ AlIdle(t)' /\ ChBuf(t)'
      /\ ChAuth(t)' /\ ChHello(t)' /\ ChOpen(t)' /\ ChOps(t)' /\ ViewOf(t)'
  BY <1>1 DEF ViewParts, PubSeq, PubHead, PubSock, PubOps, PubBoot, PubBuf, PubQueue, AlApp, AlSock,
     AlOps, AlIdle, ChBuf, ChAuth, ChHello, ChOpen, ChOps, ViewOf, CurrentOps, ResyncInFlight, After
<1>3. p \in Poll /\ head \in Nat /\ p.since \in Nat /\ lastSeq[t] \in Nat
  BY LocalTypes, LocalNumbers
<1>4. p.st = "asked" /\ p.cur /\ running[t] /\ p.since <= lastSeq[t]
  BY DEF ServerAnswers, ViewParts, AlPolls, ChPolls
<1>5. PICK q : /\ PollBecomes(t, p, {q}) /\ q.st = "answered" /\ q.since = p.since /\ q.upto <= head
               /\ q.cur /\ (~q.resync => q.since < q.upto)
  <2>1. ASSUME PollBecomes(t, p, {[p EXCEPT !.st = "answered", !.resync = TRUE, !.upto = head]})
        PROVE  \E q : /\ PollBecomes(t, p, {q}) /\ q.st = "answered" /\ q.since = p.since
                      /\ q.upto <= head /\ q.cur /\ (~q.resync => q.since < q.upto)
    <3> DEFINE q == [p EXCEPT !.st = "answered", !.resync = TRUE, !.upto = head]
    <3>1. q.st = "answered" /\ q.since = p.since /\ q.upto = head /\ q.cur /\ q.resync
      BY <1>3, <1>4 DEF Poll
    <3> HIDE DEF q
    <3>2. PollBecomes(t, p, {q})
      BY <2>1 DEF q
    <3>3. q.upto <= head
      BY <1>3, <3>1
    <3> QED BY <3>1, <3>2, <3>3
  <2>2. ASSUME NEW n \in (p.since + 1)..head,
               PollBecomes(t, p, {[p EXCEPT !.st = "answered", !.upto = n]})
        PROVE  \E q : /\ PollBecomes(t, p, {q}) /\ q.st = "answered" /\ q.since = p.since
                      /\ q.upto <= head /\ q.cur /\ (~q.resync => q.since < q.upto)
    <3> DEFINE q == [p EXCEPT !.st = "answered", !.upto = n]
    <3>1. q.st = "answered" /\ q.since = p.since /\ q.upto = n /\ q.cur
      BY <1>3, <1>4 DEF Poll
    <3> HIDE DEF q
    <3>2. PollBecomes(t, p, {q})
      BY <2>2 DEF q
    <3>3. q.since < q.upto /\ q.upto <= head
      <4>1. \A a, h \in Nat : \A m \in (a + 1)..h : a < m /\ m <= h
        OBVIOUS
      <4> QED BY <1>3, <3>1, <4>1
    <3> QED BY <3>1, <3>2, <3>3
  <2> QED BY <2>1, <2>2 DEF ServerAnswers
<1>6. PubPolls(t)' /\ AlPolls(t)' /\ ChPolls(t)'
  <2>1. \A r \in polls'[t] : r \in polls[t] \/ r = q
    BY <1>5, PollBecomesFacts DEF TypeOK
  <2>2. PubPolls(t) /\ AlPolls(t) /\ ChPolls(t)
    BY DEF ViewParts
  <2>3. /\ q.upto <= head
        /\ IF q.cur THEN Runs(t)' ELSE q.st = "answered"
        /\ q.cur /\ q.st \in {"asked", "answered"} => q.since <= lastSeq'[t]
        /\ q.st = "answered" /\ ~q.resync => q.since < q.upto
    BY <1>1, <1>4, <1>5 DEF Runs
  <2>4. Runs(t)' /\ lastSeq[t] <= lastSeq'[t]
    BY <1>1, <1>3, <1>4 DEF Runs
  <2> QED BY <1>1, <2>1, <2>2, <2>3, <2>4, PollsBecome
<1> QED
  BY <1>2, <1>6 DEF ViewParts

\* A loop that goes round asks from what has been received.
LEMMA AsksOn ==
    ASSUME TypeOK, TypeOK', NEW t \in Tabs, PubPolls(t), AlPolls(t), ChPolls(t),
           \A q \in polls'[t] : q \in polls[t] \cup {Ask(lastSeq'[t])},
           head' = head, Runs(t)', lastSeq[t] <= lastSeq'[t]
    PROVE  PubPolls(t)' /\ AlPolls(t)' /\ ChPolls(t)'
<1> DEFINE q == Ask(lastSeq'[t])
<1>1. lastSeq'[t] \in Nat /\ head \in Nat
  <2>1. lastSeq'[t] \in Seqs0
    BY DEF TypeOK, FlowType
  <2> QED BY <2>1, NumberTypes, LocalNumbers
<1>2. q.cur /\ q.st = "asked" /\ q.since = lastSeq'[t] /\ q.upto = 0
  BY DEF Ask
<1> HIDE DEF q
<1>3. \A r \in polls'[t] : r \in polls[t] \/ r = q
  BY DEF q
<1>4. /\ q.upto <= head
      /\ IF q.cur THEN Runs(t)' ELSE q.st = "answered"
      /\ q.cur /\ q.st \in {"asked", "answered"} => q.since <= lastSeq'[t]
      /\ q.st = "answered" /\ ~q.resync => q.since < q.upto
  BY <1>1, <1>2
<1> QED
  BY <1>3, <1>4, PollsBecome

LEMMA PollFailsView ==
    ASSUME TypeOK, TypeOK', NEW t \in Tabs, NEW p \in polls[t], ViewParts(t), cursor <= head,
           PollFails(t, p)
    PROVE  ViewParts(t)'
<1>1. /\ head' = head
      /\ UNCHANGED <<app[t], boot[t], running[t], lastSeq[t], socket[t], ops[t], resyncHead[t],
                     buffer[t], queue[t], seen[t], skipped[t]>>
  BY DEF PollFails, server, disk, shell, engine, cache, flow, gone
<1>2. /\ PubSeq(t)' /\ PubHead(t)' /\ PubSock(t)' /\ PubOps(t)' /\ PubBoot(t)' /\ PubBuf(t)'
      /\ PubQueue(t)' /\ AlApp(t)' /\ AlSock(t)' /\ AlOps(t)' /\ AlIdle(t)' /\ ChBuf(t)'
      /\ ChAuth(t)' /\ ChHello(t)' /\ ChOpen(t)' /\ ChOps(t)' /\ ViewOf(t)'
  BY <1>1 DEF ViewParts, PubSeq, PubHead, PubSock, PubOps, PubBoot, PubBuf, PubQueue, AlApp, AlSock,
     AlOps, AlIdle, ChBuf, ChAuth, ChHello, ChOpen, ChOps, ViewOf, CurrentOps, ResyncInFlight, After
<1> DEFINE q == [p EXCEPT !.st = "sleep"]
<1>3. p \in Poll /\ p.cur /\ running[t] /\ p.upto <= head /\ lastSeq[t] \in Nat
  BY LocalTypes, LocalNumbers DEF PollFails, ViewParts, AlPolls, PubPolls
<1>4. q.cur /\ q.st = "sleep" /\ q.upto = p.upto
  BY <1>3 DEF Poll
<1>5. PollBecomes(t, p, {q})
  BY DEF PollFails
<1> HIDE DEF q
<1>6. PubPolls(t)' /\ AlPolls(t)' /\ ChPolls(t)'
  <2>1. \A r \in polls'[t] : r \in polls[t] \/ r = q
    BY <1>5, PollBecomesFacts DEF TypeOK
  <2>2. PubPolls(t) /\ AlPolls(t) /\ ChPolls(t)
    BY DEF ViewParts
  <2>3. /\ q.upto <= head
        /\ IF q.cur THEN Runs(t)' ELSE q.st = "answered"
        /\ q.cur /\ q.st \in {"asked", "answered"} => q.since <= lastSeq'[t]
        /\ q.st = "answered" /\ ~q.resync => q.since < q.upto
    BY <1>1, <1>3, <1>4 DEF Runs
  <2>4. Runs(t)' /\ lastSeq[t] <= lastSeq'[t]
    BY <1>1, <1>3 DEF Runs
  <2> QED BY <1>1, <2>1, <2>2, <2>3, <2>4, PollsBecome
<1> QED
  BY <1>2, <1>6 DEF ViewParts

LEMMA PollResumesView ==
    ASSUME TypeOK, TypeOK', NEW t \in Tabs, NEW p \in polls[t], ViewParts(t), cursor <= head,
           PollResumes(t, p)
    PROVE  ViewParts(t)'
<1>1. /\ head' = head
      /\ UNCHANGED <<app[t], boot[t], running[t], lastSeq[t], socket[t], ops[t], resyncHead[t],
                     buffer[t], queue[t], seen[t], skipped[t]>>
  BY DEF PollResumes, server, disk, shell, engine, cache, flow, gone
<1>2. /\ PubSeq(t)' /\ PubHead(t)' /\ PubSock(t)' /\ PubOps(t)' /\ PubBoot(t)' /\ PubBuf(t)'
      /\ PubQueue(t)' /\ AlApp(t)' /\ AlSock(t)' /\ AlOps(t)' /\ AlIdle(t)' /\ ChBuf(t)'
      /\ ChAuth(t)' /\ ChHello(t)' /\ ChOpen(t)' /\ ChOps(t)' /\ ViewOf(t)'
  BY <1>1 DEF ViewParts, PubSeq, PubHead, PubSock, PubOps, PubBoot, PubBuf, PubQueue, AlApp, AlSock,
     AlOps, AlIdle, ChBuf, ChAuth, ChHello, ChOpen, ChOps, ViewOf, CurrentOps, ResyncInFlight, After
<1>3. running[t] /\ lastSeq[t] \in Nat
  BY LocalNumbers DEF PollResumes, ViewParts, AlPolls
<1>4. \A q \in polls'[t] : q \in polls[t] \cup {Ask(lastSeq[t])}
  BY PollBecomesFacts DEF PollResumes, TypeOK
<1>5. PubPolls(t) /\ AlPolls(t) /\ ChPolls(t)
  BY DEF ViewParts
<1>6. PubPolls(t)' /\ AlPolls(t)' /\ ChPolls(t)'
  <2>1. Runs(t)' /\ lastSeq[t] <= lastSeq'[t]
    BY <1>1, <1>3 DEF Runs
  <2>2. \A q \in polls'[t] : q \in polls[t] \cup {Ask(lastSeq'[t])}
    BY <1>1, <1>4
  <2> QED BY <1>1, <1>5, <2>1, <2>2, AsksOn
<1> QED
  BY <1>2, <1>6 DEF ViewParts

\* An answer whose cursor falls outside the window, or one with events.
\* What the engine gets from a poll: consecutive events, and the first one follows.
LEMMA PollBatch ==
    ASSUME TypeOK, NEW t \in Tabs, NEW p \in polls[t], p.since <= lastSeq[t], p.since < p.upto,
           p.upto <= head
    PROVE  LET es == Between(p.since, p.upto) IN
           /\ es \in Seq(Seqs) /\ \A i \in 1..Len(es) : es[i] <= head
           /\ \E i \in 1..Len(es) : es[i] = p.upto
           /\ \A i \in 1..Len(es) :
                 \/ After(es[i], buffer[t], Len(buffer[t]), lastSeq[t], resyncHead[t])
                 \/ \E j \in 1..(i - 1) : es[i] = es[j] + 1
<1> DEFINE es == Between(p.since, p.upto)
<1>1. p.upto \in Seqs0 /\ p.since \in Seqs0
  <2>1. p \in Poll
    BY LocalTypes
  <2> QED BY <2>1 DEF Poll
<1>2. /\ lastSeq[t] \in Nat /\ resyncHead[t] \in Nat /\ head \in Nat /\ p.since \in Nat /\ p.upto \in Nat
  BY LocalNumbers
<1>3. /\ es \in Seq(Seqs) /\ Len(es) = p.upto - p.since
      /\ \A i \in 1..Len(es) : es[i] = p.since + i
  BY <1>1, BetweenType
<1> HIDE DEF es
<1>4. \A i \in 1..Len(es) : es[i] <= head
  BY <1>2, <1>3
<1>5. \E i \in 1..Len(es) : es[i] = p.upto
  <2>1. p.upto - p.since \in 1..Len(es) /\ p.since + (p.upto - p.since) = p.upto
    BY <1>2, <1>3
  <2>2. es[p.upto - p.since] = p.since + (p.upto - p.since)
    BY <1>3, <2>1
  <2> QED BY <2>1, <2>2
<1>6. \A i \in 1..Len(es) :
            \/ After(es[i], buffer[t], Len(buffer[t]), lastSeq[t], resyncHead[t])
            \/ \E j \in 1..(i - 1) : es[i] = es[j] + 1
  <2> TAKE i \in 1..Len(es)
  <2>1. CASE i = 1
    <3>1. es[i] = p.since + 1
      BY <1>3, <2>1
    <3> QED BY <1>2, <3>1 DEF After
  <2>2. CASE i # 1
    <3>1. Len(es) \in Nat
      BY <1>3
    <3>2. i - 1 \in 1..(i - 1) /\ i - 1 \in 1..Len(es)
      BY <2>2, <3>1
    <3>3. es[i] = p.since + i /\ es[i - 1] = p.since + (i - 1)
      BY <1>3, <3>2
    <3>4. es[i] = es[i - 1] + 1
      <4>1. \A a \in Nat : a + i = (a + (i - 1)) + 1
        BY <3>1
      <4> QED BY <1>2, <3>3, <4>1
    <3> QED BY <3>2, <3>4
  <2> QED BY <2>1, <2>2
<1> QED
  BY <1>3, <1>4, <1>5, <1>6 DEF es

LEMMA PollReturnsView ==
    ASSUME TypeOK, TypeOK', NEW t \in Tabs, NEW p \in polls[t], ViewParts(t), cursor <= head,
           PollReturns(t, p)
    PROVE  ViewParts(t)'
<1>1. head' = head /\ UNCHANGED <<app[t], boot[t], running[t], socket[t]>>
  <2>1. UNCHANGED <<server, disk, shell, socket, running>>
    BY DEF PollReturns, ApplyBatch, engine
  <2> QED BY <2>1 DEF server, shell
<1>2. p \in Poll /\ p.upto \in Seqs0 /\ p.since \in Seqs0 /\ p.upto <= head
  <2>1. p \in Poll
    BY LocalTypes
  <2> QED BY <2>1 DEF Poll, ViewParts, PubPolls
<1>3. /\ lastSeq[t] \in Nat /\ resyncHead[t] \in Nat /\ head \in Nat /\ p.since \in Nat /\ p.upto \in Nat
      /\ socket[t].next \in Nat
  BY LocalNumbers
<1>4. PubBoot(t)' /\ PubSock(t)' /\ AlApp(t)' /\ AlSock(t)'
  BY <1>1 DEF ViewParts, PubBoot, PubSock, AlApp, AlSock
<1>5. PubPolls(t) /\ AlPolls(t) /\ ChPolls(t)
  BY DEF ViewParts
<1>6. CASE /\ Stale(p) /\ PollBecomes(t, p, {})
           /\ UNCHANGED <<engine, failed, flow, skipped>>
  <2>1. UNCHANGED <<ops[t], resyncHead[t], buffer[t], queue[t], lastSeq[t], seen[t], skipped[t]>>
    BY <1>6 DEF engine, flow
  <2>2. /\ PubSeq(t)' /\ PubHead(t)' /\ PubOps(t)' /\ PubBuf(t)' /\ PubQueue(t)' /\ AlOps(t)' /\ AlIdle(t)'
        /\ ChBuf(t)' /\ ChAuth(t)' /\ ChHello(t)' /\ ChOpen(t)' /\ ChOps(t)' /\ ViewOf(t)'
    BY <1>1, <2>1 DEF ViewParts, PubSeq, PubHead, PubOps, PubBuf, PubQueue, AlOps, AlIdle, ChBuf,
       ChAuth, ChHello, ChOpen, ChOps, ViewOf, CurrentOps, ResyncInFlight, After
  <2>3. \A q \in polls'[t] : q \in polls[t]
    BY <1>6, PollBecomesFacts DEF TypeOK
  <2>4. PubPolls(t)' /\ AlPolls(t)' /\ ChPolls(t)'
    BY <1>1, <1>5, <2>1, <2>3 DEF PubPolls, AlPolls, ChPolls
  <2> QED BY <1>4, <2>2, <2>4 DEF ViewParts
<1>7. CASE /\ ~Stale(p) /\ HandleResync(t, p.upto) /\ PollBecomes(t, p, {[p EXCEPT !.st = "barrier"]})
           /\ UNCHANGED <<running, buffer, skipped>>
  <2>1. running[t] /\ p.cur
    BY <1>5, <1>7 DEF Stale, AlPolls
  <2>2. Runs(t) /\ Runs(t)'
    BY <1>1, <2>1 DEF Runs
  <2>3. /\ resyncHead[t] <= resyncHead'[t] /\ p.upto <= resyncHead'[t]
        /\ lastSeq'[t] = lastSeq[t] /\ seen'[t] = seen[t]
        /\ PubHead(t)' /\ PubOps(t)' /\ PubQueue(t)' /\ AlOps(t)' /\ AlIdle(t)' /\ ChOps(t)'
    BY <1>1, <1>2, <1>7, <2>2, HandleResyncView
  <2>4. buffer'[t] = buffer[t] /\ skipped'[t] = skipped[t]
    BY <1>7
  <2>5. resyncHead'[t] \in Nat
    BY LocalTypes, NumberTypes DEF TypeOK, EngineType
  <2>6. ChAuth(t)' /\ ChHello(t)' /\ ChOpen(t)'
    BY <1>1, <1>3, <2>3, <2>4, SocketKept DEF ViewParts
  <2>7. ChBuf(t)'
    <3> SUFFICES ASSUME NEW i \in 1..Len(buffer[t])
                 PROVE  After(buffer[t][i], buffer[t], i - 1, lastSeq[t], resyncHead'[t])
      BY <2>3, <2>4 DEF ChBuf
    <3>1. After(buffer[t][i], buffer[t], i - 1, lastSeq[t], resyncHead[t])
      BY DEF ViewParts, ChBuf
    <3>2. buffer[t][i] \in Nat
      BY LocalNumbers
    <3> QED BY <1>3, <2>3, <2>5, <3>1, <3>2, AfterGrows
  <2>8. PubSeq(t)' /\ PubBuf(t)' /\ ViewOf(t)'
    BY <1>1, <2>3, <2>4 DEF ViewParts, PubSeq, PubBuf, ViewOf
  <2>9. PubPolls(t)' /\ AlPolls(t)' /\ ChPolls(t)'
    <3> DEFINE q == [p EXCEPT !.st = "barrier"]
    <3>1. q.st = "barrier" /\ q.cur /\ q.upto = p.upto
      BY <1>2, <2>1 DEF Poll
    <3>2. PollBecomes(t, p, {q})
      BY <1>7
    <3> HIDE DEF q
    <3>3. \A r \in polls'[t] : r \in polls[t] \/ r = q
      BY <3>2, PollBecomesFacts DEF TypeOK
    <3>4. /\ q.upto <= head
          /\ IF q.cur THEN Runs(t)' ELSE q.st = "answered"
          /\ q.cur /\ q.st \in {"asked", "answered"} => q.since <= lastSeq'[t]
          /\ q.st = "answered" /\ ~q.resync => q.since < q.upto
      BY <1>1, <1>2, <2>2, <3>1
    <3>5. lastSeq[t] <= lastSeq'[t]
      BY <1>3, <2>3
    <3> QED BY <1>1, <1>5, <2>2, <3>3, <3>4, <3>5, PollsBecome
  <2> QED BY <1>4, <2>3, <2>6, <2>7, <2>8, <2>9 DEF ViewParts
<1>8. CASE /\ ~Stale(p) /\ ~p.resync /\ ApplyBatch(t, Between(p.since, p.upto), p.upto)
           /\ PollBecomes(t, p, {Ask(lastSeq'[t])})
           /\ UNCHANGED <<running, resyncHead, ops, failed>>
  <2> DEFINE es == Between(p.since, p.upto)
  <2>1. running[t] /\ p.cur /\ p.since <= lastSeq[t] /\ p.since < p.upto
    BY <1>5, <1>8 DEF Stale, AlPolls, ChPolls, PollReturns
  <2>2. Runs(t) /\ Runs(t)'
    BY <1>1, <2>1 DEF Runs
  <2>3. UNCHANGED <<ops[t], resyncHead[t]>>
    BY <1>8
  <2>4. ApplyBatch(t, es, p.upto)
    BY <1>8
  <2>5. /\ es \in Seq(Seqs) /\ \A i \in 1..Len(es) : es[i] <= head
        /\ \E i \in 1..Len(es) : es[i] = p.upto
        /\ \A i \in 1..Len(es) :
              \/ After(es[i], buffer[t], Len(buffer[t]), lastSeq[t], resyncHead[t])
              \/ \E j \in 1..(i - 1) : es[i] = es[j] + 1
    BY <1>2, <2>1, PollBatch
  <2> HIDE DEF es
  <2>9. /\ lastSeq[t] <= lastSeq'[t]
        /\ PubSeq(t)' /\ PubBuf(t)' /\ PubQueue(t)' /\ AlIdle(t)' /\ ChBuf(t)' /\ ViewOf(t)'
        /\ \A i \in 1..Len(buffer[t]) : i \in 1..Len(buffer'[t]) /\ buffer'[t][i] = buffer[t][i]
    BY <1>1, <1>2, <2>2, <2>3, <2>4, <2>5, ApplyBatchView
  <2>10. lastSeq'[t] \in Nat
    BY NumberTypes DEF TypeOK, FlowType
  <2>11. ChAuth(t)' /\ ChHello(t)'
    <3>1. socket[t].since \in Nat /\ socket[t].next \in Nat
      BY LocalNumbers
    <3> QED BY <1>1, <1>3, <2>9, <2>10, <3>1 DEF ViewParts, ChAuth, ChHello
  <2>12. ChOpen(t)'
    <3> SUFFICES ASSUME socket[t].st = "open"
                 PROVE  After(socket[t].next, buffer'[t], Len(buffer'[t]), lastSeq'[t], resyncHead[t])
      BY <1>1, <2>3 DEF ChOpen
    <3>1. After(socket[t].next, buffer[t], Len(buffer[t]), lastSeq'[t], resyncHead[t])
      BY <1>3, <2>9, <2>10, AfterGrows DEF ViewParts, ChOpen
    <3> QED BY <2>9, <3>1 DEF After
  <2>13. PubHead(t)' /\ PubOps(t)' /\ AlOps(t)' /\ ChOps(t)'
    BY <1>1, <2>3 DEF ViewParts, PubHead, PubOps, AlOps, ChOps, CurrentOps
  <2>14. PubPolls(t)' /\ AlPolls(t)' /\ ChPolls(t)'
    <3>1. \A q \in polls'[t] : q \in polls[t] \cup {Ask(lastSeq'[t])}
      BY <1>8, PollBecomesFacts DEF TypeOK
    <3> QED BY <1>1, <1>5, <2>2, <2>9, <3>1, AsksOn
  <2> QED BY <1>4, <2>9, <2>11, <2>12, <2>13, <2>14 DEF ViewParts
<1> QED
  BY <1>6, <1>7, <1>8 DEF PollReturns, Between

\* A seed reaches an engine that has stopped, or one that another call has started.
LEMMA SeedUsedView ==
    ASSUME TypeOK, TypeOK', NEW t \in Tabs, NEW k \in Slots, ViewParts(t), cursor <= head,
           SeedUsed(t, k)
    PROVE  ViewParts(t)'
<1> DEFINE n == boot[t][k].read
<1>1. /\ head' = head
      /\ UNCHANGED <<app[t], socket[t], ops[t], resyncHead[t], buffer[t], queue[t]>>
  BY DEF SeedUsed, server, disk
<1>2. /\ PubHead(t)' /\ PubSock(t)' /\ PubOps(t)' /\ PubBuf(t)' /\ PubQueue(t)' /\ AlIdle(t)' /\ ChOps(t)'
  BY <1>1 DEF ViewParts, PubHead, PubSock, PubOps, PubBuf, PubQueue, AlIdle, ChOps,
     CurrentOps, ResyncInFlight
<1>3. PubBoot(t)'
  <2>1. \A l \in Slots : boot'[t][l].read = boot[t][l].read \/ boot'[t][l].read = 0
    BY BootFacts, ValueTypes DEF SeedUsed, CallEnds, NoCall, TypeOK
  <2> QED BY <1>1, <2>1, PubBootKept DEF ViewParts
<1>4. /\ n \in Nat /\ n <= head /\ head \in Nat /\ lastSeq[t] \in Nat /\ lastSeq[t] <= head
      /\ n \in Seqs0
  BY LocalNumbers, LocalTypes DEF ViewParts, PubBoot, PubSeq, Call
<1>5. lastSeq'[t] = SeedOf(t, n)
  BY DEF SeedUsed, TypeOK, FlowType
<1>6. CASE ~running[t]
  <2>1. lastSeq'[t] = n
    BY <1>5, <1>6 DEF SeedOf
  <2>2. /\ socket[t].st = "down" /\ CurrentOps(t) = {}
        /\ \A p \in polls[t] : ~p.cur /\ p.st = "answered"
        /\ resyncHead[t] = 0 /\ buffer[t] = <<>>
    BY <1>6, Stopped
  <2>3. PubSeq(t)' /\ AlSock(t)' /\ AlOps(t)' /\ ChBuf(t)' /\ ChAuth(t)' /\ ChHello(t)' /\ ChOpen(t)'
    BY <1>1, <1>4, <2>1, <2>2 DEF PubSeq, AlSock, AlOps, ChBuf, ChAuth, ChHello, ChOpen, CurrentOps
  <2>4. CASE Locked(t)
    <3>1. UNCHANGED <<running[t], polls[t]>>
      BY <2>4 DEF SeedUsed
    <3> QED BY <1>1, <1>2, <1>3, <1>6, <2>2, <2>3, <3>1
            DEF ViewParts, PubPolls, AlApp, AlPolls, ChPolls, ViewOf
  <2>5. CASE ~Locked(t)
    <3>1. running'[t] /\ seen'[t] = 1..n /\ polls'[t] = EnsurePolling(polls[t], n)
      BY <1>6, <2>5 DEF SeedUsed, TypeOK, EngineType, FlowType, NetType
    <3>2. polls'[t] = polls[t] \cup {Ask(n)}
      BY <2>2, <3>1 DEF EnsurePolling, PollActive
    <3>3. PubPolls(t)' /\ AlPolls(t)' /\ ChPolls(t)'
      <4> DEFINE q == Ask(n)
      <4>1. q.cur /\ q.st = "asked" /\ q.since = n /\ q.upto = 0
        BY DEF Ask
      <4>2. \A p \in polls'[t] : p \in polls[t] \/ p = q
        BY <3>2
      <4> HIDE DEF q
      <4>3. PubPolls(t)'
        BY <1>1, <1>4, <4>1, <4>2 DEF ViewParts, PubPolls
      <4>4. AlPolls(t)'
        BY <2>2, <3>1, <4>1, <4>2 DEF AlPolls
      <4>5. \A p \in polls[t] : p.st = "answered" /\ ~p.resync => p.since < p.upto
        BY DEF ViewParts, ChPolls
      <4>6. ChPolls(t)'
        BY <1>4, <2>1, <2>2, <4>1, <4>2, <4>5 DEF ChPolls
      <4> QED BY <4>3, <4>4, <4>6
    <3>4. AlApp(t)' /\ ViewOf(t)'
      BY <1>1, <2>1, <2>5, <3>1 DEF AlApp, ViewOf, Locked
    <3> QED BY <1>2, <1>3, <2>3, <3>3, <3>4 DEF ViewParts
  <2> QED BY <2>4, <2>5
<1>7. CASE running[t]
  <2>1. ~Locked(t)
    BY <1>7 DEF ViewParts, AlApp, Locked
  <2>2. /\ running'[t] /\ UNCHANGED <<seen[t], polls[t]>>
        /\ skipped'[t] = skipped[t] \cup (lastSeq[t] + 1)..n
    BY <1>7, <2>1 DEF SeedUsed, Skips, TypeOK, EngineType, PastType
  <2>3. /\ lastSeq[t] <= lastSeq'[t] /\ lastSeq'[t] <= head /\ lastSeq'[t] \in Nat
        /\ lastSeq'[t] = lastSeq[t] \/ lastSeq'[t] = n
    <3>1. lastSeq'[t] = IF lastSeq[t] >= n THEN lastSeq[t] ELSE n
      BY <1>4, <1>5, <1>7, MaxMinPair DEF SeedOf
    <3> QED BY <1>4, <3>1
  <2>4. PubSeq(t)' /\ PubPolls(t)' /\ AlApp(t)' /\ AlSock(t)' /\ AlPolls(t)' /\ AlOps(t)'
    BY <1>1, <1>7, <2>2, <2>3
       DEF ViewParts, PubSeq, PubPolls, AlApp, AlSock, AlPolls, AlOps, CurrentOps
  <2>5. ChAuth(t)' /\ ChHello(t)' /\ ChOpen(t)'
    <3>1. resyncHead[t] <= resyncHead'[t]
      BY <1>1, LocalNumbers
    <3> QED BY <1>1, <2>3, <3>1, SocketKept DEF ViewParts
  <2>6. ChBuf(t)'
    <3> SUFFICES ASSUME NEW i \in 1..Len(buffer[t])
                 PROVE  After(buffer[t][i], buffer[t], i - 1, lastSeq'[t], resyncHead[t])
      BY <1>1 DEF ChBuf
    <3>1. After(buffer[t][i], buffer[t], i - 1, lastSeq[t], resyncHead[t])
      BY DEF ViewParts, ChBuf
    <3>2. buffer[t][i] \in Nat /\ resyncHead[t] \in Nat
      BY LocalNumbers
    <3> QED BY <1>4, <2>3, <3>1, <3>2, AfterGrows
  <2>7. ChPolls(t)'
    <3>1. \A p \in polls[t] : p.since \in Nat
      BY LocalNumbers
    <3> QED BY <1>4, <2>2, <2>3, <3>1 DEF ViewParts, ChPolls
  <2>8. ViewOf(t)'
    <3>1. 1..lastSeq[t] \subseteq seen[t] \cup skipped[t]
      BY <1>7 DEF ViewParts, ViewOf
    <3>2. \A s \in 1..lastSeq'[t] : s \in 1..lastSeq[t] \/ s \in (lastSeq[t] + 1)..n
      BY <1>4, <2>3
    <3> QED BY <2>2, <3>1, <3>2 DEF ViewOf
  <2> QED BY <1>2, <1>3, <2>4, <2>5, <2>6, <2>7, <2>8 DEF ViewParts
<1> QED
  BY <1>6, <1>7

\* The engine stops: with the page, or because it is locked.
LEMMA LockView ==
    ASSUME TypeOK, TypeOK', NEW t \in Tabs, ViewParts(t), cursor <= head, Lock(t)
    PROVE  ViewParts(t)'
<1>1. head' = head /\ UNCHANGED <<lastSeq[t], queue[t], seen[t], skipped[t]>>
  BY DEF Lock, server, disk, flow, gone
<1>2. PubSeq(t)' /\ PubQueue(t)'
  BY <1>1 DEF ViewParts, PubSeq, PubQueue
<1>3. ~running'[t] /\ resyncHead'[t] = 0 /\ buffer'[t] = <<>> /\ socket'[t] = Down
  BY ValueTypes, SocketType DEF Lock, Stop, TypeOK, EngineType
<1>4. /\ PubHead(t)' /\ PubSock(t)' /\ PubBuf(t)' /\ AlApp(t)' /\ AlSock(t)' /\ AlIdle(t)'
      /\ ChBuf(t)' /\ ChAuth(t)' /\ ChHello(t)' /\ ChOpen(t)' /\ ViewOf(t)'
  BY <1>1, <1>3, LocalNumbers DEF PubHead, PubSock, PubBuf, AlApp, AlSock, AlIdle, Down, ChBuf,
     ChAuth, ChHello, ChOpen, ViewOf
<1>5. PubBoot(t)'
  <2>1. \A l \in Slots : boot'[t][l].read = boot[t][l].read
    <3>1. boot'[t] = [l \in Slots |-> [boot[t][l] EXCEPT !.cur = FALSE]]
      BY DEF Lock, TypeOK, ShellType
    <3>2. \A c \in Call : [c EXCEPT !.cur = FALSE].read = c.read
      BY DEF Call
    <3> QED BY <3>1, <3>2, LocalTypes
  <2> QED BY <1>1, <2>1, PubBootKept DEF ViewParts
<1>6. \A l \in Slots : /\ ~ops'[t][l].cur /\ ops'[t][l].st = ops[t][l].st
                       /\ ops'[t][l].target = ops[t][l].target /\ ops'[t][l].at = ops[t][l].at
  <2>1. ops'[t] = [l \in Slots |-> [ops[t][l] EXCEPT !.cur = FALSE]]
    BY DEF Lock, Stop, TypeOK, EngineType
  <2>2. \A o \in Op : LET r == [o EXCEPT !.cur = FALSE]
                      IN  ~r.cur /\ r.st = o.st /\ r.target = o.target /\ r.at = o.at
    BY DEF Op
  <2>3. \A l \in Slots : ops[t][l] \in Op /\ ops'[t][l] = [ops[t][l] EXCEPT !.cur = FALSE]
    BY <2>1, LocalTypes
  <2> QED BY <2>2, <2>3
<1>7. PubOps(t)' /\ AlOps(t)' /\ ChOps(t)'
  BY <1>1, <1>6 DEF ViewParts, PubOps, AlOps, ChOps, CurrentOps
<1>8. PubPolls(t)' /\ AlPolls(t)' /\ ChPolls(t)'
  <2>1. polls'[t] = Supersede(polls[t])
    BY DEF Lock, Stop, TypeOK, NetType
  <2> QED BY <1>1, <2>1, SupersedeFacts DEF ViewParts
<1> QED
  BY <1>2, <1>4, <1>5, <1>7, <1>8 DEF ViewParts

LEMMA CrashView ==
    ASSUME TypeOK, TypeOK', NEW t \in Tabs, ViewParts(t), cursor <= head, Crash(t)
    PROVE  ViewParts(t)'
<1>1. head' = head
  BY DEF Crash, server
<1>2. lastSeq'[t] = 0 /\ queue'[t] = <<>> /\ seen'[t] = {}
  BY DEF Crash, FlowBecomes, TypeOK, FlowType
<1>3. /\ ~running'[t] /\ resyncHead'[t] = 0 /\ buffer'[t] = <<>> /\ socket'[t] = Down
      /\ polls'[t] = {}
  BY ValueTypes, SocketType DEF Crash, TypeOK, EngineType, NetType
<1>4. /\ PubSeq(t)' /\ PubQueue(t)' /\ PubHead(t)' /\ PubSock(t)' /\ PubBuf(t)' /\ PubPolls(t)'
      /\ AlApp(t)' /\ AlSock(t)' /\ AlIdle(t)' /\ AlPolls(t)'
      /\ ChBuf(t)' /\ ChAuth(t)' /\ ChHello(t)' /\ ChOpen(t)' /\ ChPolls(t)' /\ ViewOf(t)'
  BY <1>1, <1>2, <1>3, LocalNumbers DEF PubSeq, PubQueue, PubHead, PubSock, PubBuf, PubPolls, AlApp,
     AlSock, AlIdle, AlPolls, Down, ChBuf, ChAuth, ChHello, ChOpen, ChPolls, ViewOf
<1>5. \A l \in Slots : boot'[t][l] = NoCall /\ ops'[t][l] = NoOp
  BY DEF Crash, TypeOK, ShellType, EngineType
<1>6. PubBoot(t)' /\ PubOps(t)' /\ AlOps(t)' /\ ChOps(t)'
  BY <1>1, <1>5, LocalNumbers DEF PubBoot, PubOps, AlOps, ChOps, CurrentOps, NoCall, NoOp
<1> QED
  BY <1>4, <1>6 DEF ViewParts

\* What follows goes on following when the engine comes further.
LEMMA BufferFollows ==
    ASSUME TypeOK, TypeOK', NEW t \in Tabs, ChBuf(t), buffer'[t] = buffer[t],
           lastSeq[t] <= lastSeq'[t], resyncHead[t] <= resyncHead'[t]
    PROVE  ChBuf(t)'
<1> SUFFICES ASSUME NEW i \in 1..Len(buffer[t])
             PROVE  After(buffer[t][i], buffer[t], i - 1, lastSeq'[t], resyncHead'[t])
  BY DEF ChBuf
<1>1. After(buffer[t][i], buffer[t], i - 1, lastSeq[t], resyncHead[t])
  BY DEF ChBuf
<1>2. buffer[t][i] \in Nat /\ resyncHead[t] \in Nat /\ lastSeq[t] \in Nat
  BY LocalNumbers
<1>3. lastSeq'[t] \in Seqs0 /\ resyncHead'[t] \in Seqs0
  BY DEF TypeOK, FlowType, EngineType
<1> QED BY <1>1, <1>2, <1>3, NumberTypes, AfterGrows

LEMMA PollsFollow ==
    ASSUME TypeOK, TypeOK', NEW t \in Tabs, ChPolls(t), polls'[t] = polls[t],
           lastSeq[t] <= lastSeq'[t]
    PROVE  ChPolls(t)'
<1>1. lastSeq[t] \in Nat /\ \A p \in polls[t] : p.since \in Nat
  BY LocalNumbers
<1>2. lastSeq'[t] \in Nat
  BY NumberTypes DEF TypeOK, FlowType
<1> QED BY <1>1, <1>2 DEF ChPolls

\* The actions on the socket.
LEMMA HelloArrivesView ==
    ASSUME TypeOK, TypeOK', NEW t \in Tabs, ViewParts(t), cursor <= head, HelloArrives(t)
    PROVE  ViewParts(t)'
<1>1. /\ head' = head
      /\ UNCHANGED <<app[t], boot[t], running[t], buffer[t], skipped[t]>>
  BY DEF HelloArrives, server, disk, shell, gone
<1>2. /\ socket[t] \in Socket /\ socket[t].st = "hello"
      /\ polls'[t] = Supersede(polls[t])
  BY LocalTypes DEF HelloArrives, TypeOK, NetType
<1>3. /\ socket'[t].st = "open" /\ socket'[t].last = socket[t].last
      /\ socket'[t].next = socket[t].next
  <2>1. \A s \in Socket : LET r == [s EXCEPT !.st = "open"]
                          IN  r \in Socket /\ r.st = "open" /\ r.last = s.last /\ r.next = s.next
    BY DEF Socket
  <2> DEFINE r == [socket[t] EXCEPT !.st = "open"]
  <2>2. r \in Socket /\ r.st = "open" /\ r.last = socket[t].last /\ r.next = socket[t].next
    BY <1>2, <2>1
  <2>3. SocketBecomes(t, r)
    BY DEF HelloArrives
  <2> HIDE DEF r
  <2>4. socket'[t] = r
    BY <2>2, <2>3, SocketType DEF TypeOK
  <2> QED BY <2>2, <2>4
<1>4. running[t]
  BY <1>2 DEF ViewParts, AlSock
<1>5. /\ PubSock(t)' /\ PubBoot(t)' /\ PubBuf(t)' /\ AlApp(t)' /\ AlSock(t)' /\ ChAuth(t)' /\ ChHello(t)'
  BY <1>1, <1>3, <1>4 DEF ViewParts, PubSock, PubBoot, PubBuf, AlApp, AlSock, ChAuth, ChHello
<1>6. PubPolls(t)' /\ AlPolls(t)' /\ ChPolls(t)'
  BY <1>1, <1>2, SupersedeFacts DEF ViewParts
<1>7. /\ socket[t].last \in Nat /\ socket[t].next \in Nat /\ resyncHead[t] \in Nat /\ lastSeq[t] \in Nat
      /\ socket[t].last <= head
  BY LocalNumbers DEF ViewParts, PubSock
<1>8. CASE socket[t].resync
  <2>1. HandleResync(t, socket[t].last) /\ socket[t].last \in Seqs0
    BY <1>2, <1>8 DEF HelloArrives, Socket
  <2>2. Runs(t) /\ Runs(t)'
    BY <1>1, <1>4 DEF Runs
  <2>3. /\ resyncHead[t] <= resyncHead'[t] /\ socket[t].last <= resyncHead'[t]
        /\ lastSeq'[t] = lastSeq[t] /\ seen'[t] = seen[t]
        /\ PubHead(t)' /\ PubOps(t)' /\ PubQueue(t)' /\ AlOps(t)' /\ AlIdle(t)' /\ ChOps(t)'
    BY <1>1, <1>7, <2>1, <2>2, HandleResyncView
  <2>4. resyncHead'[t] \in Nat
    BY NumberTypes DEF TypeOK, EngineType
  <2>5. ChOpen(t)'
    <3>1. socket[t].next = socket[t].last + 1
      BY <1>2, <1>8 DEF ViewParts, ChHello
    <3>2. socket'[t].next <= resyncHead'[t] + 1
      BY <1>3, <1>7, <2>3, <2>4, <3>1
    <3> QED BY <3>2 DEF ChOpen, After
  <2>6. ChBuf(t)'
    BY <1>1, <1>7, <2>3, BufferFollows DEF ViewParts
  <2>7. PubSeq(t)' /\ ViewOf(t)'
    BY <1>1, <2>3 DEF ViewParts, PubSeq, ViewOf
  <2> QED BY <1>5, <1>6, <2>3, <2>5, <2>6, <2>7 DEF ViewParts
<1>9. CASE ~socket[t].resync
  <2>1. UNCHANGED <<ops[t], resyncHead[t], lastSeq[t], queue[t], seen[t]>>
    BY <1>9 DEF HelloArrives, flow
  <2>2. /\ PubSeq(t)' /\ PubHead(t)' /\ PubOps(t)' /\ PubQueue(t)' /\ AlOps(t)' /\ AlIdle(t)'
        /\ ChBuf(t)' /\ ChOps(t)' /\ ViewOf(t)'
    BY <1>1, <2>1 DEF ViewParts, PubSeq, PubHead, PubOps, PubQueue, AlOps, AlIdle, ChBuf, ChOps,
       ViewOf, CurrentOps, ResyncInFlight
  <2>3. ChOpen(t)'
    BY <1>2, <1>3, <1>9, <2>1 DEF ViewParts, ChHello, ChOpen, After
  <2> QED BY <1>5, <1>6, <2>2, <2>3 DEF ViewParts
<1> QED
  BY <1>8, <1>9

\* What the engine gets from the socket: an event that follows.
LEMMA EventBatch ==
    ASSUME TypeOK, NEW t \in Tabs, ChOpen(t), socket[t].st = "open", socket[t].next <= head
    PROVE  LET es == <<socket[t].next>> IN
           /\ es \in Seq(Seqs) /\ Len(es) = 1 /\ es[1] = socket[t].next
           /\ \A i \in 1..Len(es) : es[i] <= head
           /\ \A i \in 1..Len(es) :
                 \/ After(es[i], buffer[t], Len(buffer[t]), lastSeq[t], resyncHead[t])
                 \/ \E j \in 1..(i - 1) : es[i] = es[j] + 1
<1> DEFINE es == <<socket[t].next>>
<1>1. socket[t].next \in Seqs
  <2>1. head \in Nat /\ head <= MaxSeq /\ MaxSeq \in Nat
    BY LocalNumbers, LocalTypes, NumberTypes DEF Seqs0
  <2>2. socket[t].next \in 1..(MaxSeq + 1)
    BY LocalTypes DEF Socket
  <2> QED BY <2>1, <2>2 DEF Seqs
<1>2. es \in Seq(Seqs) /\ Len(es) = 1 /\ es[1] = socket[t].next
  BY <1>1
<1>3. \A i \in 1..Len(es) : i = 1
  BY <1>2
<1> HIDE DEF es
<1>4. \A i \in 1..Len(es) : es[i] <= head /\ After(es[i], buffer[t], Len(buffer[t]), lastSeq[t], resyncHead[t])
  BY <1>2, <1>3 DEF ChOpen
<1> QED
  BY <1>2, <1>4 DEF es

LEMMA EventArrivesView ==
    ASSUME TypeOK, TypeOK', NEW t \in Tabs, ViewParts(t), cursor <= head, EventArrives(t)
    PROVE  ViewParts(t)'
<1>1. /\ head' = head
      /\ UNCHANGED <<app[t], boot[t], running[t], ops[t], resyncHead[t], polls[t]>>
  BY DEF EventArrives, server, disk, shell
<1>2. socket[t] \in Socket /\ socket[t].st = "open" /\ socket[t].next <= head
  BY LocalTypes DEF EventArrives
<1>3. /\ socket[t].last \in Nat /\ socket[t].next \in Nat /\ resyncHead[t] \in Nat /\ lastSeq[t] \in Nat
      /\ head \in Nat /\ head <= MaxSeq /\ MaxSeq \in Nat
  BY LocalNumbers, LocalTypes, NumberTypes DEF Seqs0
<1>4. running[t]
  BY <1>2 DEF ViewParts, AlSock
<1>5. /\ socket'[t].st = "open" /\ socket'[t].last = socket[t].last
      /\ socket'[t].next = socket[t].next + 1
  <2>1. \A s \in Socket : LET r == [s EXCEPT !.next = @ + 1]
                          IN  r.st = s.st /\ r.last = s.last /\ r.next = s.next + 1
    BY DEF Socket
  <2>2. socket'[t] = [socket[t] EXCEPT !.next = @ + 1]
    BY DEF EventArrives, SocketBecomes, TypeOK, NetType
  <2> QED BY <1>2, <2>1, <2>2
<1>6. /\ PubSock(t)' /\ PubHead(t)' /\ PubOps(t)' /\ PubBoot(t)' /\ PubPolls(t)' /\ AlApp(t)' /\ AlSock(t)'
      /\ AlPolls(t)' /\ AlOps(t)' /\ ChAuth(t)' /\ ChHello(t)' /\ ChOps(t)'
  BY <1>1, <1>2, <1>3, <1>4, <1>5 DEF ViewParts, PubSock, PubHead, PubOps, PubBoot, PubPolls,
     AlApp, AlSock, AlPolls, AlOps, CurrentOps, ChAuth, ChHello, ChOps
<1> DEFINE es == <<socket[t].next>>
<1>7. /\ es \in Seq(Seqs) /\ Len(es) = 1 /\ es[1] = socket[t].next
      /\ \A i \in 1..Len(es) : es[i] <= head
      /\ \A i \in 1..Len(es) :
            \/ After(es[i], buffer[t], Len(buffer[t]), lastSeq[t], resyncHead[t])
            \/ \E j \in 1..(i - 1) : es[i] = es[j] + 1
  BY <1>2, EventBatch DEF ViewParts
<1>8. ApplyBatch(t, es, 0)
  BY DEF EventArrives
<1> HIDE DEF es
<1>9. /\ lastSeq[t] <= lastSeq'[t]
      /\ PubSeq(t)' /\ PubBuf(t)' /\ PubQueue(t)' /\ AlIdle(t)' /\ ChBuf(t)' /\ ViewOf(t)'
      /\ \A i \in 1..Len(es) :
            es[i] <= lastSeq'[t] \/ \E j \in 1..Len(buffer'[t]) : es[i] = buffer'[t][j]
  <2>1. Runs(t) /\ Runs(t)'
    BY <1>1, <1>4 DEF Runs
  <2>2. 0 \in Seqs0 /\ 0 <= head
    BY <1>3, NumberTypes
  <2>3. UNCHANGED <<ops[t], resyncHead[t]>> /\ head' = head
    BY <1>1
  <2> QED BY <1>7, <1>8, <2>1, <2>2, <2>3, ApplyBatchView
<1>10. ChPolls(t)'
  BY <1>1, <1>9, PollsFollow DEF ViewParts
<1>11. ChOpen(t)'
  <2>1. lastSeq'[t] \in Nat
    BY NumberTypes DEF TypeOK, FlowType
  <2>2. \/ socket[t].next <= lastSeq'[t]
        \/ \E j \in 1..Len(buffer'[t]) : socket[t].next = buffer'[t][j]
    BY <1>7, <1>9
  <2>3. socket[t].next <= lastSeq'[t] => socket[t].next + 1 <= lastSeq'[t] + 1
    BY <1>3, <2>1
  <2> QED BY <1>5, <2>2, <2>3 DEF ChOpen, After
<1> QED
  BY <1>6, <1>9, <1>10, <1>11 DEF ViewParts

LEMMA SocketDropsView ==
    ASSUME TypeOK, TypeOK', NEW t \in Tabs, ViewParts(t), cursor <= head, SocketDrops(t)
    PROVE  ViewParts(t)'
<1>1. /\ head' = head
      /\ UNCHANGED <<app[t], boot[t], running[t], lastSeq[t], ops[t], resyncHead[t],
                     buffer[t], queue[t], seen[t], skipped[t]>>
  BY DEF SocketDrops, server, disk, shell, engine, cache, flow, gone
<1>2. socket'[t] = Down
  BY ValueTypes, SocketType DEF SocketDrops, TypeOK
<1>3. running[t]
  BY DEF SocketDrops, ViewParts, AlSock
<1>4. /\ PubSeq(t)' /\ PubHead(t)' /\ PubSock(t)' /\ PubOps(t)' /\ PubBoot(t)' /\ PubBuf(t)'
      /\ PubQueue(t)' /\ AlApp(t)' /\ AlSock(t)' /\ AlOps(t)' /\ AlIdle(t)' /\ ChBuf(t)'
      /\ ChAuth(t)' /\ ChHello(t)' /\ ChOpen(t)' /\ ChOps(t)' /\ ViewOf(t)'
  <2>1. PubSock(t)' /\ AlSock(t)' /\ ChAuth(t)' /\ ChHello(t)' /\ ChOpen(t)'
    BY <1>1, <1>2, LocalNumbers DEF PubSock, AlSock, ChAuth, ChHello, ChOpen, Down
  <2>2. /\ PubSeq(t)' /\ PubHead(t)' /\ PubOps(t)' /\ PubBoot(t)' /\ PubBuf(t)' /\ PubQueue(t)'
        /\ AlApp(t)' /\ AlOps(t)' /\ AlIdle(t)' /\ ChBuf(t)' /\ ChOps(t)' /\ ViewOf(t)'
    BY <1>1 DEF ViewParts, PubSeq, PubHead, PubOps, PubBoot, PubBuf, PubQueue, AlApp, AlOps,
       AlIdle, ChBuf, ChOps, ViewOf, CurrentOps, ResyncInFlight, After
  <2> QED BY <2>1, <2>2
<1>5. PubPolls(t)' /\ AlPolls(t)' /\ ChPolls(t)'
  <2>1. polls'[t] = EnsurePolling(polls[t], lastSeq[t])
    BY DEF SocketDrops, TypeOK, NetType
  <2>2. \A q \in polls'[t] : q \in polls[t] \cup {Ask(lastSeq'[t])}
    BY <1>1, <2>1 DEF EnsurePolling
  <2>3. Runs(t)' /\ lastSeq[t] <= lastSeq'[t]
    BY <1>1, <1>3, LocalNumbers DEF Runs
  <2>4. PubPolls(t) /\ AlPolls(t) /\ ChPolls(t)
    BY DEF ViewParts
  <2> QED BY <1>1, <2>2, <2>3, <2>4, AsksOn
<1> QED
  BY <1>4, <1>5 DEF ViewParts

\* The actions on resync operations.
LEMMA OpEndsFacts ==
    ASSUME EngineType, NEW t \in Tabs, NEW k \in Slots, OpEnds(t, k)
    PROVE  ops'[t][k] = NoOp /\ \A l \in Slots \ {k} : ops'[t][l] = ops[t][l]
BY OpsFacts, ValueTypes DEF OpEnds

LEMMA AbandonedView ==
    ASSUME TypeOK, TypeOK', NEW t \in Tabs, NEW k \in Slots, ViewParts(t), cursor <= head,
           Abandoned(t, k), OpEnds(t, k), head' = head,
           UNCHANGED <<app[t], boot[t], running[t], lastSeq[t], socket[t], polls[t], resyncHead[t],
                       buffer[t], queue[t], seen[t], skipped[t]>>
    PROVE  ViewParts(t)'
<1>1. ops'[t][k] = NoOp /\ \A l \in Slots \ {k} : ops'[t][l] = ops[t][l]
  BY OpEndsFacts DEF TypeOK
<1>2. /\ PubSeq(t)' /\ PubHead(t)' /\ PubSock(t)' /\ PubBoot(t)' /\ PubPolls(t)' /\ PubBuf(t)'
      /\ PubQueue(t)' /\ AlApp(t)' /\ AlSock(t)' /\ AlPolls(t)' /\ ChBuf(t)'
      /\ ChAuth(t)' /\ ChHello(t)' /\ ChOpen(t)' /\ ChPolls(t)' /\ ViewOf(t)'
  BY DEF ViewParts, PubSeq, PubHead, PubSock, PubBoot, PubPolls, PubBuf, PubQueue, AlApp, AlSock,
     AlPolls, ChBuf, ChAuth, ChHello, ChOpen, ChPolls, ViewOf, After
<1>3. CurrentOps(t)' = CurrentOps(t)
  BY <1>1 DEF Abandoned, CurrentOps, NoOp
<1>4. AlOps(t)' /\ AlIdle(t)'
  BY <1>3 DEF ViewParts, AlOps, AlIdle, ResyncInFlight
<1>5. PubOps(t)' /\ ChOps(t)'
  <2>1. head \in Nat
    BY LocalNumbers
  <2>2. ops'[t][k].target = 0 /\ ops'[t][k].at = 0
    BY <1>1 DEF NoOp
  <2>3. ASSUME NEW l \in Slots
        PROVE  /\ ops'[t][l].target <= head /\ ops'[t][l].at <= head
               /\ ops'[t][l].st = "fetch" => ops'[t][l].target <= ops'[t][l].at
    <3>1. CASE l = k
      BY <2>1, <2>2, <3>1
    <3>2. CASE l # k
      BY <1>1, <3>2 DEF ViewParts, PubOps, ChOps
    <3> QED BY <3>1, <3>2
  <2> QED BY <2>3 DEF PubOps, ChOps
<1> QED
  BY <1>2, <1>4, <1>5 DEF ViewParts

\* A current operation begins another round, with what the engine has seen so far.
LEMMA NextRoundView ==
    ASSUME TypeOK, TypeOK', NEW t \in Tabs, NEW k \in Slots, ViewParts(t), cursor <= head,
           ~Abandoned(t, k), NEW f \in FlowType1, Round(t, k, f, resyncHead[t]),
           f.last = lastSeq[t], f.queue = queue[t], seen[t] \subseteq f.seen, head' = head,
           UNCHANGED <<app[t], boot[t], running[t], socket[t], polls[t], resyncHead[t],
                       buffer[t], skipped[t]>>
    PROVE  ViewParts(t)'
<1>1. resyncHead[t] \in Seqs0 /\ resyncHead[t] <= head
  BY LocalTypes DEF ViewParts, PubHead
<1>2. /\ ops'[t][k] = Resetting(resyncHead[t])
      /\ \A l \in Slots \ {k} : ops'[t][l] = ops[t][l]
      /\ queue'[t] = Append(queue[t], ResetTask(k))
      /\ lastSeq'[t] = lastSeq[t] /\ seen[t] \subseteq seen'[t]
  BY <1>1, RoundFacts
<1>3. k \in CurrentOps(t)
  BY DEF Abandoned, CurrentOps
<1>4. Runs(t) /\ Runs(t)' /\ CurrentOps(t) \subseteq {k}
  BY <1>3 DEF ViewParts, AlOps, Runs
<1>5. PubOps(t)' /\ PubQueue(t)' /\ AlOps(t)' /\ AlIdle(t)' /\ ChOps(t)'
  BY <1>1, <1>2, <1>4, RoundView
<1>6. /\ PubSeq(t)' /\ PubHead(t)' /\ PubSock(t)' /\ PubBoot(t)' /\ PubPolls(t)' /\ PubBuf(t)'
      /\ AlApp(t)' /\ AlSock(t)' /\ AlPolls(t)' /\ ChBuf(t)'
      /\ ChAuth(t)' /\ ChHello(t)' /\ ChOpen(t)' /\ ChPolls(t)' /\ ViewOf(t)'
  BY <1>2 DEF ViewParts, PubSeq, PubHead, PubSock, PubBoot, PubPolls, PubBuf, AlApp, AlSock,
     AlPolls, ChBuf, ChAuth, ChHello, ChOpen, ChPolls, ViewOf, After
<1> QED
  BY <1>5, <1>6 DEF ViewParts

LEMMA OpWakesView ==
    ASSUME TypeOK, TypeOK', NEW t \in Tabs, NEW k \in Slots, ViewParts(t), cursor <= head,
           OpWakes(t, k)
    PROVE  ViewParts(t)'
<1>1. /\ head' = head
      /\ UNCHANGED <<app[t], boot[t], running[t], socket[t], polls[t], resyncHead[t], buffer[t],
                     skipped[t]>>
  BY DEF OpWakes, server, disk, shell, net, gone
<1>2. CASE Abandoned(t, k) /\ OpEnds(t, k) /\ UNCHANGED flow
  <2>1. UNCHANGED <<lastSeq[t], queue[t], seen[t]>>
    BY <1>2 DEF flow
  <2> QED BY <1>1, <1>2, <2>1, AbandonedView
<1>3. CASE ~Abandoned(t, k) /\ Round(t, k, Flow(t), resyncHead[t])
  <2> DEFINE f == Flow(t)
  <2>1. f \in FlowType1 /\ f.last = lastSeq[t] /\ f.queue = queue[t] /\ f.seen = seen[t]
    BY FlowTypes DEF Flow, TypeOK
  <2>2. Round(t, k, f, resyncHead[t]) /\ ~Abandoned(t, k)
    BY <1>3
  <2> HIDE DEF f
  <2>3. seen[t] \subseteq f.seen
    BY <2>1
  <2> QED BY <1>1, <2>1, <2>2, <2>3, NextRoundView
<1> QED
  BY <1>2, <1>3 DEF OpWakes

\* The snapshot has been fetched, and the buffer is applied on top of it.
LEMMA SnapshotView ==
    ASSUME TypeOK, TypeOK', NEW t \in Tabs, NEW k \in Slots, ViewParts(t), cursor <= head,
           NEW f \in FlowType1, f.last = lastSeq[t], f.queue = queue[t],
           f.seen = seen[t] \cup 1..ops[t][k].at,
           ~Abandoned(t, k), ops[t][k].st = "fetch", ops[t][k].target = resyncHead[t],
           FlowBecomes(t, ApplyEach(AdvanceTo(f, resyncHead[t]), buffer[t])),
           buffer'[t] = <<>>, resyncHead'[t] = 0, OpEnds(t, k), head' = head,
           UNCHANGED <<app[t], boot[t], running[t], socket[t], polls[t], skipped[t]>>
    PROVE  ViewParts(t)'
<1> DEFINE n == resyncHead[t]
           b == buffer[t]
           g == AdvanceTo(f, n)
           r == ApplyEach(g, b)
<1>1. /\ lastSeq[t] \in Nat /\ n \in Nat /\ n \in Seqs0 /\ head \in Nat
      /\ b \in Seq(Seqs) /\ \A i \in 1..Len(b) : b[i] \in Nat
      /\ ops[t][k].at \in Nat /\ socket[t].since \in Nat /\ socket[t].next \in Nat
  BY LocalNumbers, LocalTypes
<1>2. /\ lastSeq[t] <= head /\ n <= head /\ n <= ops[t][k].at
      /\ \A i \in 1..Len(b) : b[i] <= head
  BY DEF ViewParts, PubSeq, PubHead, PubBuf, ChOps
<1>3. k \in CurrentOps(t)
  BY DEF Abandoned, CurrentOps
<1>4. Runs(t) /\ Runs(t)' /\ CurrentOps(t) \subseteq {k}
  BY <1>3 DEF ViewParts, AlOps, Runs
<1>5. /\ g \in FlowType1 /\ g.seen = f.seen /\ lastSeq[t] <= g.last /\ n <= g.last
      /\ \/ n <= lastSeq[t] /\ g = f
         \/ n > lastSeq[t] /\ g.last = n /\ g.queue = Append(queue[t], CursorTask(n))
  BY <1>1, AdvanceToFacts
<1> HIDE DEF g
<1>6. g.last \in Nat /\ g.last <= head
  BY <1>1, <1>2, <1>5, NumberTypes DEF FlowType1
<1>7. \A i \in 1..Len(b) : b[i] <= g.last + 1 \/ \E j \in 1..(i - 1) : b[i] = b[j] + 1
  <2> SUFFICES ASSUME NEW i \in 1..Len(b), b[i] <= lastSeq[t] + 1 \/ b[i] <= n + 1
               PROVE  b[i] <= g.last + 1
    BY DEF ViewParts, ChBuf, After
  <2>1. b[i] \in Nat
    BY <1>1
  <2> HIDE DEF b, n
  <2> QED BY <1>1, <1>5, <1>6, <2>1
<1>8. /\ Extends(g, r) /\ \A i \in 1..Len(b) : b[i] <= r.last
      /\ r.last = g.last \/ \E i \in 1..Len(b) : r.last = b[i]
  BY <1>1, <1>5, <1>7, ApplyEachExtends
<1>9. FlowBecomes(t, r)
  BY DEF g
<1> HIDE DEF r
<1>10. r \in FlowType1 /\ r.last \in Nat /\ g.last <= r.last
       /\ r.seen = g.seen \cup (g.last + 1)..r.last
  BY <1>8, NumberTypes DEF Extends, FlowType1
<1>11. lastSeq'[t] = r.last /\ queue'[t] = r.queue /\ seen'[t] = r.seen
  BY <1>9, <1>10, FlowBecomesFacts DEF TypeOK
<1>12. r.last <= head /\ lastSeq[t] <= lastSeq'[t] /\ n <= lastSeq'[t] /\ lastSeq'[t] \in Nat
  BY <1>1, <1>2, <1>5, <1>6, <1>8, <1>10, <1>11
<1>13. PubSeq(t)' /\ PubHead(t)' /\ PubBuf(t)' /\ ChBuf(t)' /\ AlIdle(t)'
  BY <1>1, <1>11, <1>12 DEF PubSeq, PubHead, PubBuf, ChBuf, AlIdle
<1>14. PubQueue(t)'
  <2>1. PubQueue(t)
    BY DEF ViewParts
  <2>2. \A i \in 1..Len(g.queue) :
            g.queue[i].kind \in {"apply", "cursor"} => g.queue[i].arg <= head
    <3>1. CASE g.queue = queue[t]
      BY <2>1, <3>1 DEF PubQueue
    <3>2. CASE g.queue = Append(queue[t], CursorTask(n))
      <4>1. queue[t] \in Seq(Task) /\ CursorTask(n) \in Task /\ CursorTask(n).arg = n
        BY <1>1, LocalTypes, TaskTypes DEF CursorTask
      <4>2. \A i \in 1..(Len(queue[t]) + 1) : i = Len(queue[t]) + 1 \/ i \in 1..Len(queue[t])
        BY <4>1
      <4> HIDE DEF n
      <4> QED BY <1>2, <2>1, <3>2, <4>1, <4>2, AppendFacts DEF PubQueue
    <3> QED BY <1>5, <3>1, <3>2
  <2> QED BY <1>5, <1>8, <1>11, <1>12, <2>1, <2>2, PubQueueExtends
<1>15. ops'[t][k] = NoOp /\ \A l \in Slots \ {k} : ops'[t][l] = ops[t][l]
  BY OpEndsFacts DEF TypeOK
<1>16. CurrentOps(t)' = {}
  BY <1>4, <1>15 DEF CurrentOps, NoOp
<1>17. PubOps(t)' /\ ChOps(t)' /\ AlOps(t)'
  BY <1>1, <1>15, <1>16 DEF ViewParts, PubOps, ChOps, AlOps, NoOp
<1>18. PubSock(t)' /\ PubBoot(t)' /\ PubPolls(t)' /\ AlApp(t)' /\ AlSock(t)' /\ AlPolls(t)'
  BY DEF ViewParts, PubSock, PubBoot, PubPolls, AlApp, AlSock, AlPolls
<1>19. ChPolls(t)'
  BY <1>12, PollsFollow DEF ViewParts
<1>20. ChAuth(t)' /\ ChHello(t)'
  BY <1>1, <1>12 DEF ViewParts, ChAuth, ChHello
<1>21. ChOpen(t)'
  <2> SUFFICES ASSUME socket[t].st = "open"
               PROVE  socket[t].next <= lastSeq'[t] + 1
    BY DEF ChOpen, After
  <2>1. \/ socket[t].next <= lastSeq[t] + 1 \/ socket[t].next <= n + 1
        \/ \E j \in 1..Len(b) : socket[t].next = b[j] + 1
    BY DEF ViewParts, ChOpen, After
  <2>2. \A j \in 1..Len(b) : b[j] \in Nat /\ b[j] <= lastSeq'[t]
    BY <1>1, <1>8, <1>11
  <2>3. ASSUME NEW m \in Nat, m <= lastSeq'[t], socket[t].next <= m + 1
        PROVE  socket[t].next <= lastSeq'[t] + 1
    BY <1>1, <1>12, <2>3
  <2>4. \A j \in 1..Len(b) : socket[t].next = b[j] + 1 => socket[t].next <= b[j] + 1
    BY <1>1
  <2> HIDE DEF b, n
  <2> QED BY <1>1, <1>12, <2>1, <2>2, <2>3, <2>4
<1>22. ViewOf(t)'
  <2>1. 1..lastSeq[t] \subseteq seen[t] \cup skipped[t]
    BY <1>4 DEF ViewParts, ViewOf, Runs
  <2>2. \A s \in 1..g.last : s \in 1..lastSeq[t] \/ s \in 1..ops[t][k].at
    BY <1>1, <1>2, <1>5, <1>6
  <2>3. 1..g.last \subseteq g.seen \cup skipped[t]
    BY <1>5, <2>1, <2>2
  <2>4. \A s \in 1..r.last : s \in 1..g.last \/ s \in (g.last + 1)..r.last
    BY <1>6, <1>10
  <2> QED BY <1>10, <1>11, <2>3, <2>4 DEF ViewOf
<1> QED
  BY <1>13, <1>14, <1>17, <1>18, <1>19, <1>20, <1>21, <1>22 DEF ViewParts

LEMMA RefetchedView ==
    ASSUME TypeOK, TypeOK', NEW t \in Tabs, NEW k \in Slots, ViewParts(t), cursor <= head,
           Refetched(t, k)
    PROVE  ViewParts(t)'
<1> DEFINE f == [Flow(t) EXCEPT !.seen = @ \cup 1..ops[t][k].at]
<1>1. /\ head' = head
      /\ UNCHANGED <<app[t], boot[t], running[t], socket[t], polls[t], skipped[t]>>
  BY DEF Refetched, server, disk, shell, net, gone
<1>2. /\ f \in FlowType1 /\ f.last = lastSeq[t] /\ f.queue = queue[t]
      /\ f.seen = seen[t] \cup 1..ops[t][k].at
  <2>1. ops[t][k] \in Op
    BY LocalTypes
  <2>2. 1..ops[t][k].at \subseteq Seqs
    BY <2>1, NumberTypes DEF Op, Seqs, Seqs0
  <2> QED BY <2>2, FlowTypes DEF Flow, TypeOK, FlowType1
<1>3. \/ Abandoned(t, k) /\ OpEnds(t, k) /\ UNCHANGED <<flow, failed, resyncHead, buffer>>
      \/ ~Abandoned(t, k) /\ Round(t, k, f, resyncHead[t]) /\ UNCHANGED <<resyncHead, buffer>>
      \/ /\ ~Abandoned(t, k) /\ ops[t][k].target = resyncHead[t]
         /\ FlowBecomes(t, ApplyEach(AdvanceTo(f, resyncHead[t]), buffer[t]))
         /\ buffer' = [buffer EXCEPT ![t] = <<>>]
         /\ resyncHead' = [resyncHead EXCEPT ![t] = 0]
         /\ OpEnds(t, k)
  BY DEF Refetched, Superseded
<1>4. ops[t][k].st = "fetch"
  BY DEF Refetched
<1> HIDE DEF f
<1>5. CASE Abandoned(t, k) /\ OpEnds(t, k) /\ UNCHANGED <<flow, failed, resyncHead, buffer>>
  <2>1. UNCHANGED <<lastSeq[t], queue[t], seen[t], resyncHead[t], buffer[t]>>
    BY <1>5 DEF flow
  <2> QED BY <1>1, <1>5, <2>1, AbandonedView
<1>6. CASE ~Abandoned(t, k) /\ Round(t, k, f, resyncHead[t]) /\ UNCHANGED <<resyncHead, buffer>>
  <2>1. UNCHANGED <<resyncHead[t], buffer[t]>> /\ seen[t] \subseteq f.seen
    BY <1>2, <1>6
  <2> QED BY <1>1, <1>2, <1>6, <2>1, NextRoundView
<1>7. CASE /\ ~Abandoned(t, k) /\ ops[t][k].target = resyncHead[t]
           /\ FlowBecomes(t, ApplyEach(AdvanceTo(f, resyncHead[t]), buffer[t]))
           /\ buffer' = [buffer EXCEPT ![t] = <<>>]
           /\ resyncHead' = [resyncHead EXCEPT ![t] = 0]
           /\ OpEnds(t, k)
  <2>1. buffer'[t] = <<>> /\ resyncHead'[t] = 0
    BY <1>7 DEF TypeOK, EngineType
  <2> QED BY <1>1, <1>2, <1>4, <1>7, <2>1, SnapshotView
<1> QED
  BY <1>3, <1>5, <1>6, <1>7

-----------------------------------------------------------------------------
(* The theorems about types and about the screens.                         *)

\* No step leaves the types: the initial state has them, and every step keeps them.
LEMMA TypeStep ==
    ASSUME TypeOK, [Next]_vars
    PROVE  TypeOK'
<1>1. CASE Next
  <2>1. CASE Publish
    BY <2>1, PublishType
  <2>2. CASE Expire
    BY <2>2, ExpireType
  <2>3. ASSUME NEW t \in Tabs, CacheStep(t) PROVE TypeOK'
    BY <2>3, ApplyRunsType, CursorReadsType, CursorPutsType, ResetClearsType, ResetDeletesType,
       SeedReadsType DEF CacheStep
  <2>4. ASSUME NEW t \in Tabs, StoreFails(t) PROVE TypeOK'
    BY <2>4, ApplyFailsType, CursorFailsType, SeedFailsType DEF StoreFails
  <2>5. ASSUME NEW t \in Tabs, BootStep(t) PROVE TypeOK'
    BY <2>5, PreludeEndsType, PreludeFailsType, SeedUsedType DEF BootStep
  <2>6. ASSUME NEW t \in Tabs, Connects(t) \/ SocketStep(t) \/ SocketDrops(t) PROVE TypeOK'
    BY <2>6, ConnectsType, ServerGreetsType, HelloArrivesType, EventArrivesType, SocketDropsType
       DEF SocketStep
  <2>7. ASSUME NEW t \in Tabs, NEW k \in Slots, OpStep(t, k) \/ RefetchFails(t, k) PROVE TypeOK'
    BY <2>7, RefetchedType, OpWakesType, RefetchFailsType DEF OpStep
  <2>8. ASSUME NEW t \in Tabs, NEW p \in polls[t], PollStep(t, p) \/ PollFails(t, p) PROVE TypeOK'
    BY <2>8, ServerAnswersType, PollReturnsType, PollResumesType, PollFailsType DEF PollStep
  <2>9. ASSUME NEW t \in Tabs, Open(t) \/ Lock(t) \/ Unlock(t) \/ Crash(t) PROVE TypeOK'
    BY <2>9, OpenType, LockType, UnlockType, CrashType
  <2> QED BY <1>1, <2>1, <2>2, <2>3, <2>4, <2>5, <2>6, <2>7, <2>8, <2>9 DEF Next
<1>2. CASE UNCHANGED vars
  BY <1>2 DEF vars, TypeOK, ServerType, DiskType, ShellType, EngineType, NetType, CacheType, FlowType,
     PastType, server, disk, shell, engine, net, cache, flow, gone
<1> QED
  BY <1>1, <1>2

LEMMA InitType ==
    Init => TypeOK
<1> SUFFICES ASSUME Init PROVE TypeOK
  OBVIOUS
<1>1. ServerType /\ DiskType /\ ShellType /\ CacheType
  BY NumberTypes, ValueTypes DEF Init, ServerType, DiskType, ShellType, CacheType
<1>2. EngineType /\ NetType /\ FlowType
  BY NumberTypes, ValueTypes DEF Init, EngineType, NetType, FlowType
<1>3. PastType
  <2>1. \A e \in Events : 0 <= Limit[e]
    BY LimitAssumption
  <2> QED BY <2>1, NumberTypes DEF Init, PastType
<1> QED
  BY <1>1, <1>2, <1>3 DEF TypeOK

\* The types of the model hold in every reachable state, for any number of tabs,
\* any log and any bound on the environment.
THEOREM TypeCorrect ==
    Spec => []TypeOK
<1>1. Init => TypeOK
  BY InitType
<1>2. TypeOK /\ [Next]_vars => TypeOK'
  BY TypeStep
<1> QED
  BY <1>1, <1>2, PTL DEF Spec

\* A step of one tab: its own parts are proved, those of the others are kept.
LEMMA TabView ==
    ASSUME TypeOK, NEW t \in Tabs, \A u \in Tabs : ViewParts(u), head' \in Nat, head <= head',
           \A u \in Tabs \ {t} : UNCHANGED Local(u), ViewParts(t)'
    PROVE  \A u \in Tabs : ViewParts(u)'
<1> TAKE u \in Tabs
<1>1. CASE u = t
  BY <1>1
<1>2. CASE u # t
  <2>1. u \in Tabs \ {t} /\ ViewParts(u)
    BY <1>2
  <2>2. UNCHANGED Local(u)
    BY <2>1
  <2> QED BY <2>1, <2>2, ViewKept
<1> QED
  BY <1>1, <1>2

\* What the step of a tab may do to the disk, and to the server.
DiskEffect(t) ==
    /\ head' = head
    /\ wiped' = wiped \/ wiped' = head
    /\ \/ cursor' = cursor \/ cursor' = 0
       \/ HeadIs(t, "cursor", "put") /\ cursor' = Arg(t)

LEMMA DiskEffects ==
    ASSUME Next, ~Publish, ~Expire
    PROVE  \E t \in Tabs : DiskEffect(t)
<1>1. ASSUME NEW t \in Tabs,
             ApplyRuns(t) \/ CursorReads(t) \/ CursorPuts(t) \/ ResetClears(t) \/ ResetDeletes(t)
             \/ SeedReads(t) \/ ApplyFails(t) \/ CursorFails(t) \/ SeedFails(t)
      PROVE  DiskEffect(t)
  <2>1. CASE ApplyRuns(t)
    BY <2>1 DEF ApplyRuns, DiskEffect, server, disk
  <2>2. CASE CursorReads(t)
    BY <2>2 DEF CursorReads, DiskEffect, server, disk
  <2>3. CASE CursorPuts(t)
    BY <2>3 DEF CursorPuts, DiskEffect, server, disk
  <2>4. CASE ResetClears(t)
    BY <2>4 DEF ResetClears, DiskEffect, server, disk
  <2>5. CASE ResetDeletes(t)
    BY <2>5 DEF ResetDeletes, DiskEffect, server, disk
  <2>6. CASE SeedReads(t)
    BY <2>6 DEF SeedReads, DiskEffect, server, disk
  <2>7. CASE ApplyFails(t)
    BY <2>7 DEF ApplyFails, DiskEffect, server, disk
  <2>8. CASE CursorFails(t)
    BY <2>8 DEF CursorFails, DiskEffect, server, disk
  <2>9. CASE SeedFails(t)
    BY <2>9 DEF SeedFails, DiskEffect, server, disk
  <2> QED BY <1>1, <2>1, <2>2, <2>3, <2>4, <2>5, <2>6, <2>7, <2>8, <2>9
<1>2. ASSUME NEW t \in Tabs, NEW k \in Slots,
             PreludeEnds(t, k) \/ PreludeFails(t, k) \/ SeedUsed(t, k) \/ Refetched(t, k) \/ OpWakes(t, k)
             \/ RefetchFails(t, k)
      PROVE  DiskEffect(t)
  <2>1. CASE PreludeEnds(t, k)
    BY <2>1 DEF PreludeEnds, DiskEffect, server, disk
  <2>2. CASE PreludeFails(t, k)
    BY <2>2 DEF PreludeFails, DiskEffect, server, disk
  <2>3. CASE SeedUsed(t, k)
    BY <2>3 DEF SeedUsed, DiskEffect, server, disk
  <2>4. CASE Refetched(t, k)
    BY <2>4 DEF Refetched, DiskEffect, server, disk
  <2>5. CASE OpWakes(t, k)
    BY <2>5 DEF OpWakes, DiskEffect, server, disk
  <2>6. CASE RefetchFails(t, k)
    BY <2>6 DEF RefetchFails, DiskEffect, server, disk
  <2> QED BY <1>2, <2>1, <2>2, <2>3, <2>4, <2>5, <2>6
<1>3. ASSUME NEW t \in Tabs, NEW p \in polls[t],
             ServerAnswers(t, p) \/ PollReturns(t, p) \/ PollResumes(t, p) \/ PollFails(t, p)
      PROVE  DiskEffect(t)
  <2>1. CASE ServerAnswers(t, p)
    BY <2>1 DEF ServerAnswers, DiskEffect, server, disk
  <2>2. CASE PollReturns(t, p)
    BY <2>2 DEF PollReturns, DiskEffect, server, disk
  <2>3. CASE PollResumes(t, p)
    BY <2>3 DEF PollResumes, DiskEffect, server, disk
  <2>4. CASE PollFails(t, p)
    BY <2>4 DEF PollFails, DiskEffect, server, disk
  <2> QED BY <1>3, <2>1, <2>2, <2>3, <2>4
<1>4. ASSUME NEW t \in Tabs,
             Connects(t) \/ ServerGreets(t) \/ HelloArrives(t) \/ EventArrives(t) \/ SocketDrops(t)
             \/ Open(t) \/ Lock(t) \/ Unlock(t) \/ Crash(t)
      PROVE  DiskEffect(t)
  <2>1. CASE Connects(t)
    BY <2>1 DEF Connects, DiskEffect, server, disk
  <2>2. CASE ServerGreets(t)
    BY <2>2 DEF ServerGreets, DiskEffect, server, disk
  <2>3. CASE HelloArrives(t)
    BY <2>3 DEF HelloArrives, DiskEffect, server, disk
  <2>4. CASE EventArrives(t)
    BY <2>4 DEF EventArrives, DiskEffect, server, disk
  <2>5. CASE SocketDrops(t)
    BY <2>5 DEF SocketDrops, DiskEffect, server, disk
  <2>6. CASE Open(t)
    BY <2>6 DEF Open, DiskEffect, server, disk
  <2>7. CASE Lock(t)
    BY <2>7 DEF Lock, DiskEffect, server, disk
  <2>8. CASE Unlock(t)
    BY <2>8 DEF Unlock, DiskEffect, server, disk
  <2>9. CASE Crash(t)
    BY <2>9 DEF Crash, DiskEffect, server, disk
  <2> QED BY <1>4, <2>1, <2>2, <2>3, <2>4, <2>5, <2>6, <2>7, <2>8, <2>9
<1> QED
  BY <1>1, <1>2, <1>3, <1>4 DEF Next, CacheStep, StoreFails, BootStep, SocketStep, OpStep, PollStep

\* The durable cursor and the last wipe stay behind the server.
LEMMA DiskStep ==
    ASSUME TypeOK, TypeOK', Next, cursor <= head, wiped <= head, \A t \in Tabs : ViewParts(t)
    PROVE  cursor' <= head' /\ wiped' <= head' /\ head \in Nat /\ head' \in Nat /\ head <= head'
<1>1. head \in Nat /\ head' \in Nat /\ cursor \in Nat /\ wiped \in Nat
  <2>1. head \in Seqs0 /\ cursor \in Seqs0 /\ wiped \in Seqs0 /\ head' \in Seqs0
    BY DEF TypeOK, ServerType, DiskType, PastType
  <2> QED BY <2>1, NumberTypes
<1>2. CASE Publish \/ Expire
  <2>1. head <= head' /\ cursor' = cursor /\ wiped' = wiped
    BY <1>1, <1>2 DEF Publish, Expire, disk
  <2> QED BY <1>1, <2>1
<1>3. ASSUME NEW t \in Tabs, DiskEffect(t)
      PROVE  cursor' <= head' /\ wiped' <= head' /\ head <= head'
  <2>1. ASSUME HeadIs(t, "cursor", "put") PROVE Arg(t) <= head
    <3>1. queue[t] \in Seq(Task) /\ queue[t] # <<>> /\ queue[t][1].kind = "cursor"
      BY <2>1, LocalTypes DEF HeadIs
    <3>2. 1 \in 1..Len(queue[t])
      BY <3>1
    <3> QED BY <3>1, <3>2 DEF Arg, ViewParts, PubQueue
  <2> QED BY <1>1, <1>3, <2>1 DEF DiskEffect
<1> QED
  BY <1>1, <1>2, <1>3, DiskEffects

\* The inductive step, by the tab that takes it.
LEMMA ViewStep ==
    ASSUME ViewInv, [Next]_vars
    PROVE  ViewInv'
<1>1. TypeOK /\ TypeOK' /\ cursor <= head /\ wiped <= head /\ \A t \in Tabs : ViewParts(t)
  BY ViewInvParts, TypeStep
<1>2. CASE Next
  <2>1. cursor' <= head' /\ wiped' <= head' /\ head \in Nat /\ head' \in Nat /\ head <= head'
    BY <1>1, <1>2, DiskStep
  <2>2. ASSUME Publish \/ Expire, NEW u \in Tabs PROVE ViewParts(u)'
    <3>1. UNCHANGED Local(u)
      BY <2>2 DEF Publish, Expire, Local, shell, engine, net, cache, flow, gone
    <3> QED BY <1>1, <2>1, <3>1, ViewKept
  <2>3. ASSUME NEW t \in Tabs, \A u \in Tabs \ {t} : UNCHANGED Local(u), ViewParts(t)'
        PROVE  \A u \in Tabs : ViewParts(u)'
    BY <1>1, <2>1, <2>3, TabView
  <2>4. ASSUME NEW t \in Tabs, CacheStep(t) \/ StoreFails(t)
        PROVE  (\A u \in Tabs \ {t} : UNCHANGED Local(u)) /\ ViewParts(t)'
    <3>1. ViewParts(t)
      BY <1>1
    <3>2. CASE ApplyRuns(t)
      BY <1>1, <3>1, <3>2, ApplyRunsLocal, ApplyRunsView
    <3>3. CASE CursorReads(t)
      BY <1>1, <3>1, <3>3, CursorReadsLocal, CursorReadsView
    <3>4. CASE CursorPuts(t)
      BY <1>1, <3>1, <3>4, CursorPutsLocal, CursorPutsView
    <3>5. CASE ResetClears(t)
      BY <1>1, <3>1, <3>5, ResetClearsLocal, ResetClearsView
    <3>6. CASE ResetDeletes(t)
      BY <1>1, <3>1, <3>6, ResetDeletesLocal, ResetDeletesView
    <3>7. CASE SeedReads(t)
      BY <1>1, <3>1, <3>7, SeedReadsLocal, SeedReadsView
    <3>8. CASE ApplyFails(t)
      BY <1>1, <3>1, <3>8, ApplyFailsLocal, ApplyFailsView
    <3>9. CASE CursorFails(t)
      BY <1>1, <3>1, <3>9, CursorFailsLocal, CursorFailsView
    <3>10. CASE SeedFails(t)
      BY <1>1, <3>1, <3>10, SeedFailsLocal, SeedFailsView
    <3> QED BY <2>4, <3>2, <3>3, <3>4, <3>5, <3>6, <3>7, <3>8, <3>9, <3>10 DEF CacheStep, StoreFails
  <2>5. ASSUME NEW t \in Tabs, NEW k \in Slots,
               \/ PreludeEnds(t, k) \/ PreludeFails(t, k) \/ SeedUsed(t, k)
               \/ OpStep(t, k) \/ RefetchFails(t, k)
        PROVE  (\A u \in Tabs \ {t} : UNCHANGED Local(u)) /\ ViewParts(t)'
    <3>1. ViewParts(t)
      BY <1>1
    <3>2. CASE PreludeEnds(t, k)
      BY <1>1, <3>1, <3>2, PreludeEndsLocal, PreludeEndsView
    <3>3. CASE PreludeFails(t, k)
      BY <1>1, <3>1, <3>3, PreludeFailsLocal, PreludeFailsView
    <3>4. CASE SeedUsed(t, k)
      BY <1>1, <3>1, <3>4, SeedUsedLocal, SeedUsedView
    <3>5. CASE Refetched(t, k)
      BY <1>1, <3>1, <3>5, RefetchedLocal, RefetchedView
    <3>6. CASE OpWakes(t, k)
      BY <1>1, <3>1, <3>6, OpWakesLocal, OpWakesView
    <3>7. CASE RefetchFails(t, k)
      BY <1>1, <3>1, <3>7, RefetchFailsLocal, RefetchFailsView
    <3> QED BY <2>5, <3>2, <3>3, <3>4, <3>5, <3>6, <3>7 DEF OpStep
  <2>6. ASSUME NEW t \in Tabs, NEW p \in polls[t], PollStep(t, p) \/ PollFails(t, p)
        PROVE  (\A u \in Tabs \ {t} : UNCHANGED Local(u)) /\ ViewParts(t)'
    <3>1. ViewParts(t)
      BY <1>1
    <3>2. CASE ServerAnswers(t, p)
      BY <1>1, <3>1, <3>2, ServerAnswersLocal, ServerAnswersView
    <3>3. CASE PollReturns(t, p)
      BY <1>1, <3>1, <3>3, PollReturnsLocal, PollReturnsView
    <3>4. CASE PollResumes(t, p)
      BY <1>1, <3>1, <3>4, PollResumesLocal, PollResumesView
    <3>5. CASE PollFails(t, p)
      BY <1>1, <3>1, <3>5, PollFailsLocal, PollFailsView
    <3> QED BY <2>6, <3>2, <3>3, <3>4, <3>5 DEF PollStep
  <2>7. ASSUME NEW t \in Tabs,
               \/ Connects(t) \/ SocketStep(t) \/ SocketDrops(t)
               \/ Open(t) \/ Lock(t) \/ Unlock(t) \/ Crash(t)
        PROVE  (\A u \in Tabs \ {t} : UNCHANGED Local(u)) /\ ViewParts(t)'
    <3>1. ViewParts(t)
      BY <1>1
    <3>2. CASE Connects(t)
      BY <1>1, <3>1, <3>2, ConnectsLocal, ConnectsView
    <3>3. CASE ServerGreets(t)
      BY <1>1, <3>1, <3>3, ServerGreetsLocal, ServerGreetsView
    <3>4. CASE HelloArrives(t)
      BY <1>1, <3>1, <3>4, HelloArrivesLocal, HelloArrivesView
    <3>5. CASE EventArrives(t)
      BY <1>1, <3>1, <3>5, EventArrivesLocal, EventArrivesView
    <3>6. CASE SocketDrops(t)
      BY <1>1, <3>1, <3>6, SocketDropsLocal, SocketDropsView
    <3>7. CASE Open(t)
      BY <1>1, <3>1, <3>7, OpenLocal, OpenView
    <3>8. CASE Lock(t)
      BY <1>1, <3>1, <3>8, LockLocal, LockView
    <3>9. CASE Unlock(t)
      BY <1>1, <3>1, <3>9, UnlockLocal, UnlockView
    <3>10. CASE Crash(t)
      BY <1>1, <3>1, <3>10, CrashLocal, CrashView
    <3> QED BY <2>7, <3>2, <3>3, <3>4, <3>5, <3>6, <3>7, <3>8, <3>9, <3>10 DEF SocketStep
  <2>8. \A t \in Tabs : ViewParts(t)'
    <3>1. CASE Publish \/ Expire
      BY <2>2, <3>1
    <3>2. ASSUME NEW t \in Tabs,
                 \/ CacheStep(t) \/ StoreFails(t) \/ BootStep(t)
                 \/ Connects(t) \/ SocketStep(t) \/ SocketDrops(t)
                 \/ \E k \in Slots : OpStep(t, k) \/ RefetchFails(t, k)
                 \/ \E p \in polls[t] : PollStep(t, p) \/ PollFails(t, p)
                 \/ Open(t) \/ Lock(t) \/ Unlock(t) \/ Crash(t)
          PROVE  \A u \in Tabs : ViewParts(u)'
      <4>1. (\A u \in Tabs \ {t} : UNCHANGED Local(u)) /\ ViewParts(t)'
        BY <2>4, <2>5, <2>6, <2>7, <3>2 DEF BootStep
      <4> QED BY <2>3, <4>1
    <3> QED BY <1>2, <3>1, <3>2 DEF Next
  <2> QED BY <1>1, <2>1, <2>8, ViewInvPartsNext
<1>3. CASE UNCHANGED vars
  <2>1. cursor' = cursor /\ wiped' = wiped /\ head' = head /\ \A u \in Tabs : UNCHANGED Local(u)
    BY <1>3 DEF vars, server, disk, shell, engine, net, cache, flow, gone, Local
  <2>2. ASSUME NEW u \in Tabs PROVE ViewParts(u)'
    BY <1>1, <2>1, LocalNumbers, ViewKept
  <2> QED BY <1>1, <2>1, <2>2, ViewInvPartsNext
<1> QED
  BY <1>2, <1>3

LEMMA InitView ==
    Init => ViewInv
<1> SUFFICES ASSUME Init PROVE ViewInv
  OBVIOUS
<1>1. TypeOK /\ cursor <= head /\ wiped <= head
  BY InitType DEF Init
<1>2. ASSUME NEW t \in Tabs PROVE ViewParts(t)
  <2>1. \A k \in Slots : ops[t][k] = NoOp /\ boot[t][k] = NoCall
    BY DEF Init
  <2>2. /\ socket[t] = Down /\ polls[t] = {} /\ buffer[t] = <<>> /\ queue[t] = <<>> /\ ~running[t]
        /\ lastSeq[t] = 0 /\ resyncHead[t] = 0 /\ head = 0
    BY DEF Init
  <2>3. PubOps(t) /\ PubBoot(t) /\ AlOps(t) /\ ChOps(t)
    BY <2>1, <2>2 DEF PubOps, PubBoot, AlOps, ChOps, NoOp, NoCall, CurrentOps
  <2>4. /\ PubSeq(t) /\ PubHead(t) /\ PubSock(t) /\ PubPolls(t) /\ PubBuf(t) /\ PubQueue(t)
        /\ AlApp(t) /\ AlSock(t) /\ AlPolls(t) /\ AlIdle(t)
        /\ ChBuf(t) /\ ChAuth(t) /\ ChHello(t) /\ ChOpen(t) /\ ChPolls(t) /\ ViewOf(t)
    BY <2>2 DEF PubSeq, PubHead, PubSock, PubPolls, PubBuf, PubQueue, AlApp, AlSock, AlPolls, AlIdle,
       ChBuf, ChAuth, ChHello, ChOpen, ChPolls, ViewOf, Down
  <2> QED BY <2>3, <2>4 DEF ViewParts
<1> QED
  BY <1>1, <1>2, ViewInvParts

\* Nothing runs ahead of the server, only a running engine has a live transport,
\* and whatever is to come follows what has come: on every reachable state.
THEOREM ViewInvariant ==
    Spec => []ViewInv
<1>1. Init => ViewInv
  BY InitView
<1>2. ViewInv /\ [Next]_vars => ViewInv'
  BY ViewStep
<1> QED
  BY <1>1, <1>2, PTL DEF Spec

\* Every event that a running engine counts as received has reached the screens,
\* unless it has been skipped, and recorded so, by a poll that answered during a
\* resync or by a late start.
THEOREM Complete ==
    Spec => []ViewComplete
<1>1. ViewInv => ViewComplete
  BY DEF ViewInv, ViewComplete, ViewOf
<1> QED
  BY <1>1, ViewInvariant, PTL

-----------------------------------------------------------------------------
(* The invariant behind CursorSound.                                       *)

Calm(t) == ResetLast(t) /\ Ready(t) /\ Behind(t) /\ Swept(t)
Safe(s) == Folded(s) \/ Excused(s)
Sound   == (\A t \in Tabs : Vouched(t)) /\ \A s \in 1..cursor : Safe(s)

Failing(t) == failed[t]

LEMMA CacheInvParts ==
    CacheInv <=> /\ ViewInv
                 /\ \A t \in Tabs : TaskShape(t)
                 /\ ~late => \A t \in Tabs : Calm(t)
                 /\ ~late /\ Sole => Sound
BY DEF CacheInv, Calm, Sound, Safe

LEMMA CacheInvPartsNext ==
    CacheInv' <=> /\ ViewInv'
                  /\ \A t \in Tabs : TaskShape(t)'
                  /\ ~late' => \A t \in Tabs : Calm(t)'
                  /\ ~late' /\ Sole' => Sound'
BY DEF CacheInv, Calm, Sound, Safe

\* A queue has lost its first d tasks, or none: the others have kept their kind,
\* their argument and, but for a first one that goes on, their step.
Carried(t, d) ==
    /\ d \in 0..1 /\ d <= Len(queue[t]) /\ Len(queue'[t]) = Len(queue[t]) - d
    /\ \A i \in 1..Len(queue'[t]) :
          /\ i + d \in 1..Len(queue[t])
          /\ queue'[t][i].kind = queue[t][i + d].kind
          /\ queue'[t][i].arg = queue[t][i + d].arg
          /\ i >= 2 \/ d = 1 => queue'[t][i].step = queue[t][i + d].step

LEMMA QueueLen ==
    ASSUME TypeOK, NEW t \in Tabs
    PROVE  Len(queue[t]) \in Nat /\ \A i \in 1..Len(queue[t]) : queue[t][i] \in Task
<1>1. queue[t] \in Seq(Task)
  BY LocalTypes
<1> QED BY <1>1

LEMMA CarriedSame ==
    ASSUME TypeOK, NEW t \in Tabs, queue'[t] = queue[t]
    PROVE  Carried(t, 0)
<1>1. Len(queue[t]) \in Nat
  BY QueueLen
<1> QED BY <1>1 DEF Carried

LEMMA CarriedTail ==
    ASSUME TypeOK, NEW t \in Tabs, queue[t] # <<>>, TaskEnds(t)
    PROVE  Carried(t, 1) /\ 1 \in 1..Len(queue[t])
<1>1. queue[t] \in Seq(Task) /\ queue'[t] = Tail(queue[t])
  BY LocalTypes DEF TaskEnds, TypeOK, FlowType
<1>2. /\ Len(Tail(queue[t])) = Len(queue[t]) - 1 /\ Len(queue[t]) \in Nat \ {0}
      /\ \A i \in 1..(Len(queue[t]) - 1) : Tail(queue[t])[i] = queue[t][i + 1]
  BY <1>1, TailFacts
<1>3. \A i \in 1..(Len(queue[t]) - 1) : i + 1 \in 1..Len(queue[t])
  BY <1>2
<1> QED BY <1>1, <1>2, <1>3 DEF Carried

LEMMA CarriedMove ==
    ASSUME TypeOK, NEW t \in Tabs, queue[t] # <<>>, NEW step, TaskMoves(t, step),
           [queue[t][1] EXCEPT !.step = step] \in Task
    PROVE  /\ Carried(t, 0) /\ 1 \in 1..Len(queue[t])
           /\ queue'[t][1].step = step
<1>1. /\ Len(queue'[t]) = Len(queue[t]) /\ queue'[t][1] = [queue[t][1] EXCEPT !.step = step]
      /\ \A i \in 2..Len(queue[t]) : queue'[t][i] = queue[t][i]
  BY TaskMovesFacts DEF TypeOK
<1>2. Len(queue[t]) \in Nat \ {0} /\ queue[t][1] \in Task
  <2>1. queue[t] \in Seq(Task)
    BY LocalTypes
  <2> QED BY <2>1
<1>3. /\ queue'[t][1].kind = queue[t][1].kind /\ queue'[t][1].arg = queue[t][1].arg
      /\ queue'[t][1].step = step
  BY <1>1, <1>2 DEF Task
<1>4. \A i \in 1..Len(queue[t]) : i + 0 = i /\ ((i = 1 /\ ~(i >= 2)) \/ i \in 2..Len(queue[t]))
  BY <1>2
<1>5. ASSUME NEW i \in 1..Len(queue'[t])
      PROVE  /\ i + 0 \in 1..Len(queue[t])
             /\ queue'[t][i].kind = queue[t][i + 0].kind
             /\ queue'[t][i].arg = queue[t][i + 0].arg
             /\ i >= 2 \/ 0 = 1 => queue'[t][i].step = queue[t][i + 0].step
  <2>1. i \in 1..Len(queue[t])
    BY <1>1
  <2>2. i + 0 = i /\ ((i = 1 /\ ~(i >= 2)) \/ i \in 2..Len(queue[t]))
    BY <1>4, <2>1
  <2> QED BY <1>1, <1>3, <2>1, <2>2
<1>6. /\ 0 \in 0..1 /\ 0 <= Len(queue[t]) /\ Len(queue'[t]) = Len(queue[t]) - 0
      /\ 1 \in 1..Len(queue[t])
  BY <1>1, <1>2
<1> QED BY <1>3, <1>5, <1>6 DEF Carried

\* Where the tasks of a kind have come from, and where they have gone.
LEMMA CarriedTasks ==
    ASSUME TypeOK, NEW t \in Tabs, NEW d, Carried(t, d), NEW kind
    PROVE  /\ \A i \in TasksOf(t, kind)' :
                 /\ i \in Nat \ {0} /\ i + d \in TasksOf(t, kind) /\ i + d \in Nat /\ i + d > d
                 /\ queue'[t][i].arg = queue[t][i + d].arg
           /\ \A i \in TasksOf(t, kind) : i > d =>
                 /\ i - d \in TasksOf(t, kind)'
                 /\ queue'[t][i - d].arg = queue[t][i].arg
           /\ d \in {0, 1}
<1>1. Len(queue[t]) \in Nat /\ d \in {0, 1} /\ Len(queue'[t]) = Len(queue[t]) - d /\ d <= Len(queue[t])
  BY QueueLen DEF Carried
<1>2. ASSUME NEW i \in TasksOf(t, kind)'
      PROVE  /\ i \in Nat \ {0} /\ i + d \in TasksOf(t, kind) /\ i + d \in Nat /\ i + d > d
             /\ queue'[t][i].arg = queue[t][i + d].arg
  <2>1. i \in 1..Len(queue'[t]) /\ queue'[t][i].kind = kind
    BY DEF TasksOf
  <2>2. i \in Nat \ {0}
    BY <1>1, <2>1
  <2>3. /\ i + d \in 1..Len(queue[t]) /\ queue'[t][i].kind = queue[t][i + d].kind
        /\ queue'[t][i].arg = queue[t][i + d].arg
    BY <2>1 DEF Carried
  <2>4. i + d \in Nat /\ i + d > d
    BY <1>1, <2>2
  <2> QED BY <2>1, <2>2, <2>3, <2>4 DEF TasksOf
<1>3. ASSUME NEW i \in TasksOf(t, kind), i > d
      PROVE  i - d \in TasksOf(t, kind)' /\ queue'[t][i - d].arg = queue[t][i].arg
  <2>1. i \in 1..Len(queue[t]) /\ queue[t][i].kind = kind
    BY DEF TasksOf
  <2>2. i - d \in 1..Len(queue'[t]) /\ (i - d) + d = i
    BY <1>1, <1>3, <2>1
  <2>3. queue'[t][i - d].kind = kind /\ queue'[t][i - d].arg = queue[t][i].arg
    BY <2>1, <2>2 DEF Carried
  <2> QED BY <2>2, <2>3 DEF TasksOf
<1> QED BY <1>1, <1>2, <1>3

LEMMA ShapeCarried ==
    ASSUME TypeOK, NEW t \in Tabs, NEW d, TaskShape(t), Carried(t, d),
           \A i \in TasksOf(t, "reset") : i > d => ops'[t][queue[t][i].arg].st = "reset",
           \A i \in TasksOf(t, "seed") : i > d => boot'[t][queue[t][i].arg].st = "queued"
    PROVE  TaskShape(t)'
<1>1. \A i \in TasksOf(t, "reset")' : ops'[t][queue'[t][i].arg].st = "reset"
  BY CarriedTasks
<1>2. \A i \in TasksOf(t, "seed")' : boot'[t][queue'[t][i].arg].st = "queued"
  BY CarriedTasks
<1>3. ASSUME NEW kind \in {"reset", "seed"}, NEW i \in TasksOf(t, kind)', NEW j \in TasksOf(t, kind)',
             queue'[t][i].arg = queue'[t][j].arg
      PROVE  i = j
  <2>1. /\ i \in Nat /\ j \in Nat /\ d \in {0, 1}
        /\ i + d \in TasksOf(t, kind) /\ queue'[t][i].arg = queue[t][i + d].arg
        /\ j + d \in TasksOf(t, kind) /\ queue'[t][j].arg = queue[t][j + d].arg
    BY CarriedTasks
  <2>2. i + d = j + d
    BY <1>3, <2>1 DEF TaskShape
  <2> QED BY <2>1, <2>2
<1>4. \A i \in 2..Len(queue'[t]) : queue'[t][i].step = "start"
  <2> TAKE i \in 2..Len(queue'[t])
  <2>1. Len(queue[t]) \in Nat /\ d \in {0, 1} /\ Len(queue'[t]) = Len(queue[t]) - d
    BY QueueLen DEF Carried
  <2>2. i \in 1..Len(queue'[t]) /\ i >= 2 /\ i + d \in 2..Len(queue[t])
    BY <2>1
  <2> QED BY <2>2 DEF Carried, TaskShape
<1> QED
  BY <1>1, <1>2, <1>3, <1>4 DEF TaskShape

LEMMA ResetLastCarried ==
    ASSUME TypeOK, NEW t \in Tabs, NEW d, ResetLast(t), Carried(t, d),
           \A i \in TasksOf(t, "reset") : i > d /\ Runs(t)' => ops'[t][queue[t][i].arg].cur,
           \A k \in CurrentOps(t)' : ops'[t][k].st # "reset" => TasksOf(t, "apply") = {},
           Failing(t)' => TasksOf(t, "apply") = {},
           Failing(t)' /\ Runs(t)' => \E k \in CurrentOps(t)' : ops'[t][k].st = "sleep"
    PROVE  ResetLast(t)'
<1>1. \A i, j \in TasksOf(t, "reset")' : i = j
  <2> TAKE i, j \in TasksOf(t, "reset")'
  <2>1. i \in Nat /\ j \in Nat /\ d \in {0, 1} /\ i + d \in TasksOf(t, "reset") /\ j + d \in TasksOf(t, "reset")
    BY CarriedTasks
  <2>2. i + d = j + d
    BY <2>1 DEF ResetLast
  <2> QED BY <2>1, <2>2
<1>2. \A i \in TasksOf(t, "reset")', j \in TasksOf(t, "apply")' : j < i
  <2> TAKE i \in TasksOf(t, "reset")', j \in TasksOf(t, "apply")'
  <2>1. i \in Nat /\ j \in Nat /\ d \in {0, 1} /\ i + d \in TasksOf(t, "reset") /\ j + d \in TasksOf(t, "apply")
    BY CarriedTasks
  <2>2. j + d < i + d
    BY <2>1 DEF ResetLast
  <2> QED BY <2>1, <2>2
<1>3. \A i \in TasksOf(t, "reset")' : Runs(t)' => ops'[t][queue'[t][i].arg].cur
  BY CarriedTasks
<1>4. TasksOf(t, "apply") = {} => TasksOf(t, "apply")' = {}
  BY CarriedTasks
<1> QED
  BY <1>1, <1>2, <1>3, <1>4 DEF ResetLast, Runs, Failing

LEMMA ReadyCarried ==
    ASSUME TypeOK, NEW t \in Tabs, NEW d, Ready(t), Carried(t, d),
           \A k \in Slots : boot'[t][k].cur /\ ~Runs(t)' =>
              /\ boot[t][k].cur /\ ~Runs(t)
              /\ boot'[t][k].st = "read" =>
                    ~Failing(t)' /\ \A i \in 1..Len(queue[t]) : i > d => i \in TasksOf(t, "seed")
    PROVE  Ready(t)'
<1> SUFFICES ASSUME NEW k \in Slots, boot'[t][k].cur, ~Runs(t)'
             PROVE  /\ \A i \in TasksOf(t, "seed")' : queue'[t][i].arg = k =>
                          (i + 1)..Len(queue'[t]) \subseteq TasksOf(t, "seed")'
                    /\ boot'[t][k].st = "read" =>
                          ~Failing(t)' /\ 1..Len(queue'[t]) \subseteq TasksOf(t, "seed")'
  BY DEF Ready, Runs, Failing
<1>1. boot[t][k].cur /\ ~Runs(t)
  OBVIOUS
<1>2. Len(queue[t]) \in Nat /\ d \in {0, 1} /\ Len(queue'[t]) = Len(queue[t]) - d
  BY QueueLen DEF Carried
<1>3. ASSUME NEW i \in TasksOf(t, "seed")', queue'[t][i].arg = k,
             NEW j \in (i + 1)..Len(queue'[t])
      PROVE  j \in TasksOf(t, "seed")'
  <2>1. i \in Nat /\ i + d \in TasksOf(t, "seed") /\ queue[t][i + d].arg = k
    BY <1>3, CarriedTasks
  <2>2. ((i + d) + 1)..Len(queue[t]) \subseteq TasksOf(t, "seed")
    BY <1>1, <2>1 DEF Ready, Runs
  <2>3. j + d \in ((i + d) + 1)..Len(queue[t]) /\ j + d > d /\ (j + d) - d = j
    BY <1>2, <2>1
  <2>4. j + d \in TasksOf(t, "seed")
    BY <2>2, <2>3
  <2> QED BY <2>3, <2>4, CarriedTasks
<1>4. ASSUME boot'[t][k].st = "read", NEW j \in 1..Len(queue'[t])
      PROVE  j \in TasksOf(t, "seed")'
  <2>1. j + d \in 1..Len(queue[t]) /\ j + d > d /\ (j + d) - d = j
    BY <1>2
  <2>2. j + d \in TasksOf(t, "seed")
    BY <1>4, <2>1
  <2> QED BY <2>1, <2>2, CarriedTasks
<1> QED
  BY <1>3, <1>4

LEMMA BehindCarried ==
    ASSUME TypeOK, TypeOK', NEW t \in Tabs, NEW d, Behind(t), Carried(t, d),
           Runs(t)' => Runs(t) /\ lastSeq[t] <= lastSeq'[t],
           Single /\ Runs(t)' => cursor' <= lastSeq'[t],
           \A k \in Slots : Single /\ boot'[t][k].cur /\ ~Runs(t)' /\ boot'[t][k].st = "read" =>
              boot'[t][k].read = cursor'
    PROVE  Behind(t)'
<1>1. ASSUME Runs(t)', NEW j \in TasksOf(t, "cursor")' PROVE queue'[t][j].arg <= lastSeq'[t]
  <2>1. j + d \in TasksOf(t, "cursor") /\ queue'[t][j].arg = queue[t][j + d].arg
    BY CarriedTasks
  <2>2. queue[t][j + d].arg <= lastSeq[t] /\ lastSeq[t] <= lastSeq'[t]
    BY <1>1, <2>1 DEF Behind, Runs
  <2>3. queue[t][j + d].arg \in Nat
    <3>1. queue[t][j + d] \in Task /\ queue[t][j + d].kind = "cursor"
      BY <2>1, QueueLen DEF TasksOf
    <3> QED BY <3>1, TaskKinds, NumberTypes
  <2>4. lastSeq[t] \in Nat /\ lastSeq'[t] \in Nat
    BY NumberTypes DEF TypeOK, FlowType
  <2> QED BY <2>1, <2>2, <2>3, <2>4
<1>2. /\ Single /\ Runs(t)' => cursor' <= lastSeq'[t]
      /\ Single => \A k \in Slots : boot'[t][k].cur /\ ~Runs(t)' /\ boot'[t][k].st = "read" =>
            boot'[t][k].read = cursor'
  OBVIOUS
<1> QED
  BY <1>1, <1>2 DEF Behind, Runs, Single

\* No reset has cleared the rows, and no snapshot is being fetched.
LEMMA SweptNothing ==
    ASSUME NEW t \in Tabs,
           \A i \in TasksOf(t, "reset")' : queue'[t][i].step # "cleared",
           \A k \in CurrentOps(t)' : ops'[t][k].st # "fetch"
    PROVE  Swept(t)'
BY DEF Swept

LEMMA SweptCarried ==
    ASSUME TypeOK, TypeOK', NEW t \in Tabs, NEW d, Swept(t), Carried(t, d),
           \A i \in TasksOf(t, "reset") : i > d =>
              /\ ops'[t][queue[t][i].arg].target = ops[t][queue[t][i].arg].target
              /\ queue'[t][i - d].step = "cleared" => queue[t][i].step = "cleared",
           \A k \in CurrentOps(t)' : ops'[t][k].st = "fetch" =>
              k \in CurrentOps(t) /\ ops[t][k].st = "fetch" /\ ops'[t][k].target = ops[t][k].target,
           wiped' = wiped, rows = {} => rows' = {},
           Runs(t)' => Runs(t) /\ lastSeq'[t] = lastSeq[t],
           \A s : Excused(s) => Excused(s)'
    PROVE  Swept(t)'
<1>1. ASSUME NEW i \in TasksOf(t, "reset")', queue'[t][i].step = "cleared"
      PROVE  /\ ops'[t][queue'[t][i].arg].target <= wiped'
             /\ Single => rows' = {}
             /\ \A j \in TasksOf(t, "cursor")' : \A s \in 1..queue'[t][j].arg : s <= wiped' \/ Excused(s)'
             /\ Runs(t)' => \A s \in 1..lastSeq'[t] : s <= wiped' \/ Excused(s)'
  <2>1. /\ i \in Nat /\ d \in {0, 1} /\ i + d \in TasksOf(t, "reset") /\ i + d > d /\ i + d \in Nat
        /\ queue'[t][i].arg = queue[t][i + d].arg
    BY CarriedTasks
  <2>2. (i + d) - d = i
    BY <2>1
  <2>3. queue[t][i + d].step = "cleared"
        /\ ops'[t][queue'[t][i].arg].target = ops[t][queue[t][i + d].arg].target
    BY <1>1, <2>1, <2>2
  <2>4. /\ ops[t][queue[t][i + d].arg].target <= wiped
        /\ Single => rows = {}
        /\ \A j \in TasksOf(t, "cursor") : \A s \in 1..queue[t][j].arg : s <= wiped \/ Excused(s)
        /\ Runs(t) => \A s \in 1..lastSeq[t] : s <= wiped \/ Excused(s)
    BY <2>1, <2>3 DEF Swept, Runs
  <2>5. \A j \in TasksOf(t, "cursor")' : \A s \in 1..queue'[t][j].arg : s <= wiped' \/ Excused(s)'
    <3> TAKE j \in TasksOf(t, "cursor")'
    <3>1. j + d \in TasksOf(t, "cursor") /\ queue'[t][j].arg = queue[t][j + d].arg
      BY CarriedTasks
    <3> QED BY <2>4, <3>1
  <2>6. Runs(t)' => \A s \in 1..lastSeq'[t] : s <= wiped' \/ Excused(s)'
    BY <2>4
  <2> QED BY <2>3, <2>4, <2>5, <2>6
<1>2. ASSUME NEW k \in CurrentOps(t)', ops'[t][k].st = "fetch"
      PROVE  ops'[t][k].target <= wiped' /\ (Single => rows' = {})
  BY <1>2 DEF Swept
<1> QED
  BY <1>1, <1>2 DEF Swept, Runs, Single

\* What is safe stays so while the queue only loses tasks.
LEMMA SafeCarried ==
    ASSUME TypeOK, NEW t \in Tabs, NEW d, Carried(t, d),
           \A u \in Tabs \ {t} : queue'[u] = queue[u] /\ skipped'[u] = skipped[u],
           skipped[t] \subseteq skipped'[t], wiped' = wiped, rows \subseteq rows',
           \A r \in rows' : r \in rows \/ \E i \in TasksOf(t, "apply") : queue[t][i].arg = r
    PROVE  \A s : Safe(s) => Safe(s)'
<1> SUFFICES ASSUME NEW s, Safe(s) PROVE Safe(s)'
  OBVIOUS
<1>1. CASE Excused(s)
  BY <1>1 DEF Excused, Safe
<1>2. CASE s \in rows
  BY <1>2 DEF Safe, Folded
<1>3. CASE /\ s <= wiped /\ \A r \in rows : r > s
           /\ \A u \in Tabs : \A i \in TasksOf(u, "apply") : queue[u][i].arg > s
  <2>1. \A r \in rows' : r > s
    BY <1>3
  <2>2. ASSUME NEW u \in Tabs, NEW i \in TasksOf(u, "apply")' PROVE queue'[u][i].arg > s
    <3>1. CASE u = t
      <4>1. i + d \in TasksOf(t, "apply") /\ queue'[t][i].arg = queue[t][i + d].arg
        BY <3>1, CarriedTasks
      <4> QED BY <1>3, <3>1, <4>1
    <3>2. CASE u # t
      <4>1. queue'[u] = queue[u] /\ i \in TasksOf(u, "apply")
        BY <3>2 DEF TasksOf
      <4> QED BY <1>3, <4>1
    <3> QED BY <3>1, <3>2
  <2> QED BY <1>3, <2>1, <2>2 DEF Safe, Folded
<1> QED
  BY <1>1, <1>2, <1>3 DEF Safe, Folded

VouTask(t) == \A j \in TasksOf(t, "cursor") : \A s \in 1..queue[t][j].arg : Covered(t, s, j)
VouPut(t)  == \A j \in TasksOf(t, "cursor") : queue[t][j].step = "put" =>
                 blocked[t] = 0 \/ queue[t][j].arg < blocked[t]
VouLast(t) == Runs(t) => \A s \in 1..lastSeq[t] : Covered(t, s, Len(queue[t]) + 1)
VouRead(t) == \A k \in Slots : boot[t][k].st = "read" =>
                 \A s \in 1..boot[t][k].read : wiped = 0 => Safe(s)

LEMMA VouchedParts ==
    ASSUME NEW t \in Tabs
    PROVE  /\ Vouched(t) <=> VouTask(t) /\ VouPut(t) /\ VouLast(t) /\ VouRead(t)
           /\ Vouched(t)' <=> VouTask(t)' /\ VouPut(t)' /\ VouLast(t)' /\ VouRead(t)'
<1>1. Vouched(t) <=> VouTask(t) /\ VouPut(t) /\ VouLast(t) /\ VouRead(t)
  BY DEF Vouched, VouTask, VouPut, VouLast, VouRead, Runs, Safe
<1>2. Vouched(t)' <=> VouTask(t)' /\ VouPut(t)' /\ VouLast(t)' /\ VouRead(t)'
  BY DEF Vouched, VouTask, VouPut, VouLast, VouRead, Runs, Safe
<1> QED BY <1>1, <1>2

LEMMA CoveredCarried ==
    ASSUME TypeOK, TypeOK', NEW t \in Tabs, NEW d, Carried(t, d), NEW s \in Nat,
           Safe(s) => Safe(s)',
           d = 1 /\ queue[t][1].kind = "apply" /\ queue[t][1].arg = s =>
              Safe(s)' \/ (0 < blocked'[t] /\ blocked'[t] <= s),
           0 < blocked[t] => 0 < blocked'[t] /\ blocked'[t] <= blocked[t],
           NEW j \in Nat, Covered(t, s, j + d)
    PROVE  Covered(t, s, j)'
<1>1. CASE Safe(s)
  BY <1>1 DEF Covered, Safe
<1>2. CASE 0 < blocked[t] /\ blocked[t] <= s
  <2>1. blocked[t] \in Nat /\ blocked'[t] \in Nat
    BY NumberTypes DEF TypeOK, CacheType
  <2> QED BY <1>2, <2>1 DEF Covered
<1>3. ASSUME NEW i \in TasksOf(t, "apply"), i < j + d, queue[t][i].arg = s
      PROVE  Covered(t, s, j)'
  <2>1. i \in 1..Len(queue[t]) /\ queue[t][i].kind = "apply" /\ Len(queue[t]) \in Nat
    BY QueueLen DEF TasksOf
  <2>2. d \in {0, 1}
    BY CarriedTasks
  <2>3. CASE i > d
    <3>1. i - d \in TasksOf(t, "apply")' /\ queue'[t][i - d].arg = s
      BY <1>3, <2>3, CarriedTasks
    <3>2. i - d < j
      BY <1>3, <2>1, <2>2
    <3> QED BY <3>1, <3>2 DEF Covered
  <2>4. CASE ~(i > d)
    <3>1. d = 1 /\ i = 1
      BY <2>1, <2>2, <2>4
    <3>2. Safe(s)' \/ (0 < blocked'[t] /\ blocked'[t] <= s)
      BY <1>3, <2>1, <3>1
    <3> QED BY <3>2 DEF Covered, Safe
  <2> QED BY <2>3, <2>4
<1> QED
  BY <1>1, <1>2, <1>3 DEF Covered, Safe

LEMMA TaskArg ==
    ASSUME TypeOK, NEW t \in Tabs, PubQueue(t), NEW j \in TasksOf(t, "cursor")
    PROVE  queue[t][j].arg \in Nat /\ queue[t][j].arg <= head /\ j \in Nat
<1>1. j \in 1..Len(queue[t]) /\ queue[t][j] \in Task /\ queue[t][j].kind = "cursor" /\ Len(queue[t]) \in Nat
  BY QueueLen DEF TasksOf
<1>2. queue[t][j].arg \in Nat
  BY <1>1, TaskKinds, NumberTypes
<1> QED BY <1>1, <1>2 DEF PubQueue

LEMMA VouTaskCarried ==
    ASSUME TypeOK, TypeOK', NEW t \in Tabs, NEW d, PubQueue(t), VouTask(t), Carried(t, d),
           \A s \in 1..head : Safe(s) => Safe(s)',
           \A s : d = 1 /\ queue[t][1].kind = "apply" /\ queue[t][1].arg = s =>
              Safe(s)' \/ (0 < blocked'[t] /\ blocked'[t] <= s),
           0 < blocked[t] => 0 < blocked'[t] /\ blocked'[t] <= blocked[t]
    PROVE  VouTask(t)'
<1> SUFFICES ASSUME NEW j \in TasksOf(t, "cursor")', NEW s \in 1..queue'[t][j].arg
             PROVE  Covered(t, s, j)'
  BY DEF VouTask
<1>1. j \in Nat /\ j + d \in TasksOf(t, "cursor") /\ queue'[t][j].arg = queue[t][j + d].arg
  BY CarriedTasks
<1>2. queue[t][j + d].arg \in Nat /\ queue[t][j + d].arg <= head /\ head \in Nat
  BY <1>1, TaskArg, LocalNumbers
<1>3. s \in 1..head /\ s \in Nat
  BY <1>1, <1>2
<1>4. Covered(t, s, j + d)
  BY <1>1 DEF VouTask
<1>5. Safe(s) => Safe(s)'
  BY <1>3
<1>6. d = 1 /\ queue[t][1].kind = "apply" /\ queue[t][1].arg = s =>
         Safe(s)' \/ (0 < blocked'[t] /\ blocked'[t] <= s)
  OBVIOUS
<1>7. j \in Nat /\ s \in Nat
  BY <1>1, <1>3
<1> QED
  BY <1>4, <1>5, <1>6, <1>7, CoveredCarried

LEMMA VouLastCarried ==
    ASSUME TypeOK, TypeOK', NEW t \in Tabs, NEW d, PubSeq(t), VouLast(t), Carried(t, d),
           \A s \in 1..head : Safe(s) => Safe(s)',
           \A s : d = 1 /\ queue[t][1].kind = "apply" /\ queue[t][1].arg = s =>
              Safe(s)' \/ (0 < blocked'[t] /\ blocked'[t] <= s),
           0 < blocked[t] => 0 < blocked'[t] /\ blocked'[t] <= blocked[t],
           Runs(t)' => Runs(t) /\ lastSeq'[t] = lastSeq[t]
    PROVE  VouLast(t)'
<1> SUFFICES ASSUME Runs(t)', NEW s \in 1..lastSeq[t]
             PROVE  Covered(t, s, Len(queue[t]) + 1)'
  BY DEF VouLast
<1>1. lastSeq[t] \in Nat /\ lastSeq[t] <= head /\ head \in Nat
  BY LocalNumbers DEF PubSeq
<1>2. s \in 1..head /\ s \in Nat
  BY <1>1
<1>3. /\ Len(queue[t]) \in Nat /\ d \in {0, 1} /\ Len(queue'[t]) = Len(queue[t]) - d
      /\ d <= Len(queue[t])
  BY QueueLen DEF Carried
<1>4. Len(queue'[t]) + 1 \in Nat /\ (Len(queue'[t]) + 1) + d = Len(queue[t]) + 1
  BY <1>3
<1>5. Covered(t, s, (Len(queue'[t]) + 1) + d)
  BY <1>4 DEF VouLast
<1>6. Safe(s) => Safe(s)'
  BY <1>2
<1>7. d = 1 /\ queue[t][1].kind = "apply" /\ queue[t][1].arg = s =>
         Safe(s)' \/ (0 < blocked'[t] /\ blocked'[t] <= s)
  OBVIOUS
<1> QED
  BY <1>2, <1>4, <1>5, <1>6, <1>7, CoveredCarried

\* A tab that the step does not touch.
LEMMA Elsewhere ==
    ASSUME TypeOK, TypeOK', NEW t \in Tabs, NEW u \in Tabs \ {t}, UNCHANGED Local(u),
           wiped <= wiped', \A s : Excused(s) => Excused(s)'
    PROVE  /\ TaskShape(u) => TaskShape(u)'
           /\ Calm(u) => Calm(u)'
<1>1. ~Single
  BY DEF Single
<1>2. TaskShape(u) => TaskShape(u)'
  BY DEF TaskShape, TasksOf, Local
<1>3. ResetLast(u) => ResetLast(u)'
  BY DEF ResetLast, TasksOf, CurrentOps, Local
<1>4. Ready(u) => Ready(u)'
  BY DEF Ready, TasksOf, Local
<1>5. Behind(u) => Behind(u)'
  BY <1>1 DEF Behind, TasksOf, Local, Single
<1>6. ASSUME Swept(u) PROVE Swept(u)'
  <2>1. wiped \in Nat /\ wiped' \in Nat
    BY NumberTypes DEF TypeOK, PastType
  <2>2. \A n \in Nat : n <= wiped => n <= wiped'
    BY <2>1
  <2>3. \A k \in Slots : ops[u][k].target \in Nat
    BY LocalTypes, NumberTypes DEF Op
  <2>4. ASSUME NEW i \in TasksOf(u, "reset")', queue'[u][i].step = "cleared"
        PROVE  /\ ops'[u][queue'[u][i].arg].target <= wiped'
               /\ \A j \in TasksOf(u, "cursor")' : \A s \in 1..queue'[u][j].arg : s <= wiped' \/ Excused(s)'
               /\ Runs(u)' => \A s \in 1..lastSeq'[u] : s <= wiped' \/ Excused(s)'
    <3>1. /\ i \in TasksOf(u, "reset") /\ queue[u][i].step = "cleared"
          /\ TasksOf(u, "cursor")' = TasksOf(u, "cursor") /\ queue'[u] = queue[u]
          /\ ops'[u] = ops[u] /\ lastSeq'[u] = lastSeq[u] /\ Runs(u)' = Runs(u)
      BY <2>4 DEF TasksOf, Local, Runs
    <3>2. /\ ops[u][queue[u][i].arg].target <= wiped
          /\ \A j \in TasksOf(u, "cursor") : \A s \in 1..queue[u][j].arg : s <= wiped \/ Excused(s)
          /\ Runs(u) => \A s \in 1..lastSeq[u] : s <= wiped \/ Excused(s)
      BY <1>6, <3>1 DEF Swept, Runs
    <3>3. queue[u][i].arg \in Slots
      <4>1. queue[u][i] \in Task /\ queue[u][i].kind = "reset"
        BY <3>1, QueueLen DEF TasksOf
      <4> QED BY <4>1, TaskKinds
    <3>4. ops'[u][queue'[u][i].arg].target <= wiped'
      BY <2>2, <2>3, <3>1, <3>2, <3>3
    <3>5. \A j \in TasksOf(u, "cursor")' : \A s \in 1..queue'[u][j].arg : s <= wiped' \/ Excused(s)'
      <4> TAKE j \in TasksOf(u, "cursor")'
      <4> TAKE s \in 1..queue'[u][j].arg
      <4>1. s <= wiped \/ Excused(s)
        BY <3>1, <3>2
      <4>2. s \in Nat
        <5>1. queue[u][j] \in Task /\ queue[u][j].kind = "cursor"
          BY <3>1, QueueLen DEF TasksOf
        <5>2. queue[u][j].arg \in Nat
          BY <5>1, TaskKinds, NumberTypes
        <5> QED BY <3>1, <5>2
      <4> QED BY <4>1, <4>2, <2>2
    <3>6. Runs(u)' => \A s \in 1..lastSeq'[u] : s <= wiped' \/ Excused(s)'
      <4> SUFFICES ASSUME Runs(u)', NEW s \in 1..lastSeq'[u] PROVE s <= wiped' \/ Excused(s)'
        OBVIOUS
      <4>1. s <= wiped \/ Excused(s)
        BY <3>1, <3>2
      <4>2. lastSeq[u] \in Nat /\ s \in 1..lastSeq[u]
        BY <3>1, LocalTypes, NumberTypes
      <4> QED BY <4>1, <4>2, <2>2
    <3> QED BY <3>4, <3>5, <3>6
  <2>5. ASSUME NEW k \in CurrentOps(u)', ops'[u][k].st = "fetch"
        PROVE  ops'[u][k].target <= wiped'
    <3>1. k \in CurrentOps(u) /\ ops'[u] = ops[u] /\ k \in Slots
      BY DEF CurrentOps, Local
    <3>2. ops[u][k].target <= wiped
      BY <1>6, <2>5, <3>1 DEF Swept
    <3> QED BY <2>2, <2>3, <3>1, <3>2
  <2> QED BY <1>1, <2>4, <2>5 DEF Swept, Runs, Single
<1> QED
  BY <1>2, <1>3, <1>4, <1>5, <1>6 DEF Calm

LEMMA VouchedElsewhere ==
    ASSUME TypeOK, NEW u \in Tabs, UNCHANGED Local(u), PubQueue(u), PubSeq(u), PubBoot(u),
           \A s \in 1..head : Safe(s) => Safe(s)', wiped' = 0 => wiped = 0
    PROVE  Vouched(u) => Vouched(u)'
<1>1. head \in Nat /\ lastSeq[u] \in Nat /\ lastSeq[u] <= head
  BY LocalNumbers DEF PubSeq
<1>2. ASSUME NEW s \in 1..head, NEW j, Covered(u, s, j) PROVE Covered(u, s, j)'
  <2>1. TasksOf(u, "apply")' = TasksOf(u, "apply") /\ queue'[u] = queue[u] /\ blocked'[u] = blocked[u]
    BY DEF TasksOf, Local
  <2>2. Safe(s) => Safe(s)'
    OBVIOUS
  <2> QED BY <1>2, <2>1, <2>2 DEF Covered, Safe
<1>3. VouTask(u) => VouTask(u)'
  <2> SUFFICES ASSUME VouTask(u), NEW j \in TasksOf(u, "cursor"), NEW s \in 1..queue[u][j].arg
               PROVE  Covered(u, s, j)'
    BY DEF VouTask, TasksOf, Local
  <2>1. queue[u][j].arg \in Nat /\ queue[u][j].arg <= head
    BY TaskArg
  <2>2. s \in 1..head
    BY <1>1, <2>1
  <2>3. Covered(u, s, j)
    BY DEF VouTask
  <2> QED BY <2>2, <2>3, <1>2
<1>4. VouPut(u) => VouPut(u)'
  BY DEF VouPut, TasksOf, Local
<1>5. VouLast(u) => VouLast(u)'
  <2> SUFFICES ASSUME VouLast(u), Runs(u), NEW s \in 1..lastSeq[u]
               PROVE  Covered(u, s, Len(queue[u]) + 1)'
    BY DEF VouLast, Local, Runs
  <2>1. s \in 1..head
    BY <1>1
  <2>2. Covered(u, s, Len(queue[u]) + 1)
    BY DEF VouLast
  <2>3. \A j : Covered(u, s, j) => Covered(u, s, j)'
    BY <1>2, <2>1
  <2>4. Len(queue[u])' = Len(queue[u])
    BY DEF Local
  <2> QED BY <2>2, <2>3, <2>4
<1>6. VouRead(u) => VouRead(u)'
  <2> SUFFICES ASSUME VouRead(u), NEW k \in Slots, boot[u][k].st = "read",
                      NEW s \in 1..boot[u][k].read, wiped' = 0
               PROVE  Safe(s)'
    BY DEF VouRead, Local
  <2>1. boot[u][k].read \in Nat /\ boot[u][k].read <= head
    BY LocalTypes, NumberTypes DEF Call, PubBoot
  <2>2. s \in 1..head
    BY <1>1, <2>1
  <2>3. Safe(s)
    BY DEF VouRead
  <2> QED BY <2>2, <2>3
<1> QED
  BY <1>3, <1>4, <1>5, <1>6, VouchedParts

\* With several tabs, Sole says that the rows have never been cleared.
LEMMA SafeApart ==
    ASSUME TypeOK, TypeOK', ~Single, Sole', wiped <= wiped', rows \subseteq rows' \/ wiped' = head,
           \A s : Excused(s) => Excused(s)'
    PROVE  \A s \in 1..head : Safe(s) => Safe(s)'
<1>1. wiped' = 0 /\ wiped \in Nat /\ head \in Nat /\ wiped = 0
  BY NumberTypes DEF Sole, Single, TypeOK, PastType, ServerType
<1>2. CASE wiped' = head
  BY <1>1, <1>2
<1>3. ASSUME rows \subseteq rows', NEW s \in 1..head, Safe(s) PROVE Safe(s)'
  <2>1. ~(s <= wiped)
    BY <1>1
  <2> QED BY <1>3, <2>1 DEF Safe, Folded
<1> QED
  BY <1>2, <1>3

Lagging == late

\* The invariant is kept when it is kept for the tab that moves.
LEMMA CacheKept ==
    ASSUME CacheInv, ViewInv', NEW t \in Tabs, \A u \in Tabs \ {t} : UNCHANGED Local(u),
           wiped <= wiped', Lagging => Lagging', skipped[t] \subseteq skipped'[t],
           rows \subseteq rows' \/ wiped' = head,
           TaskShape(t)',
           ~Lagging' => Calm(t)',
           ~Lagging' /\ Sole' => Vouched(t)' /\ \A s \in 1..cursor' : Safe(s)'
    PROVE  CacheInv'
<1>1. /\ ViewInv /\ \A u \in Tabs : TaskShape(u)
      /\ ~Lagging => \A u \in Tabs : Calm(u)
      /\ ~Lagging /\ Sole => Sound
  BY CacheInvParts DEF Lagging
<1>2. TypeOK /\ TypeOK' /\ (\A u \in Tabs : ViewParts(u))
  BY <1>1, ViewInvParts DEF ViewInv
<1>3. ASSUME NEW s, Excused(s) PROVE Excused(s)'
  <2>1. PICK u \in Tabs : s \in skipped[u]
    BY <1>3 DEF Excused
  <2>2. u # t => skipped'[u] = skipped[u]
    BY DEF Local
  <2> QED BY <2>1, <2>2 DEF Excused
<1>4. \A u \in Tabs : TaskShape(u)'
  BY <1>1, <1>2, <1>3, Elsewhere
<1>5. ~Lagging' => \A u \in Tabs : Calm(u)'
  BY <1>1, <1>2, <1>3, Elsewhere
<1>6. ASSUME ~Lagging', Sole' PROVE Sound'
  <2>1. wiped' = 0 => wiped = 0
    BY <1>2, NumberTypes DEF TypeOK, PastType
  <2>2. Sound
    BY <1>1, <1>6, <2>1 DEF Sole, Single
  <2>3. ASSUME NEW u \in Tabs PROVE Vouched(u)'
    <3>1. CASE u = t
      BY <1>6, <3>1
    <3>2. CASE u # t
      <4>1. ~Single
        BY <3>2 DEF Single
      <4>2. \A s \in 1..head : Safe(s) => Safe(s)'
        BY <4>1, <1>2, <1>3, <1>6, SafeApart
      <4>3. PubQueue(u) /\ PubSeq(u) /\ PubBoot(u) /\ Vouched(u)
        BY <1>2, <2>2 DEF ViewParts, Sound
      <4>4. UNCHANGED Local(u)
        BY <3>2
      <4> QED BY <1>2, <2>1, <4>2, <4>3, <4>4, VouchedElsewhere
    <3> QED BY <3>1, <3>2
  <2> QED BY <1>6, <2>3 DEF Sound
<1> QED
  BY <1>4, <1>5, <1>6, CacheInvPartsNext DEF Lagging

\* A step that leaves alone what the invariant speaks of.
LEMMA CacheSame ==
    ASSUME CacheInv, ViewInv',
           UNCHANGED <<queue, lastSeq, running, failed, blocked, boot, ops, rows, cursor, wiped, gone>>
    PROVE  CacheInv'
<1>1. \A t \in Tabs : TaskShape(t)' = TaskShape(t)
  BY DEF TaskShape, TasksOf
<1>2. \A t \in Tabs : ResetLast(t)' = ResetLast(t)
  BY DEF ResetLast, TasksOf, CurrentOps
<1>3. \A t \in Tabs : Ready(t)' = Ready(t)
  BY DEF Ready, TasksOf
<1>4. \A t \in Tabs : Behind(t)' = Behind(t)
  BY DEF Behind, TasksOf, Single
<1>5. \A s : Excused(s)' = Excused(s)
  BY DEF Excused, gone
<1>6. \A s : Folded(s)' = Folded(s)
  BY DEF Folded, TasksOf
<1>7. \A t \in Tabs : Swept(t)' = Swept(t)
  BY <1>5 DEF Swept, TasksOf, CurrentOps, Single
<1>8. \A t \in Tabs : Vouched(t)' = Vouched(t)
  <2>1. \A t, s, j : Covered(t, s, j)' = Covered(t, s, j)
    BY <1>5, <1>6 DEF Covered, TasksOf
  <2> QED BY <1>5, <1>6, <2>1 DEF Vouched, TasksOf
<1>9. late' = late /\ Sole' = Sole /\ cursor' = cursor
  BY DEF gone, Sole, Single
<1> QED
  BY <1>1, <1>2, <1>3, <1>4, <1>5, <1>6, <1>7, <1>8, <1>9 DEF CacheInv

\* What the invariant says of one tab.
LEMMA CacheGives ==
    ASSUME CacheInv, NEW t \in Tabs
    PROVE  /\ TypeOK /\ ViewParts(t) /\ TaskShape(t)
           /\ ~Lagging => ResetLast(t) /\ Ready(t) /\ Behind(t) /\ Swept(t)
           /\ ~Lagging /\ Sole => Vouched(t) /\ \A s \in 1..cursor : Safe(s)
<1>1. /\ ViewInv /\ TaskShape(t) /\ (~Lagging => Calm(t)) /\ (~Lagging /\ Sole => Sound)
  BY CacheInvParts DEF Lagging
<1>2. TypeOK /\ ViewParts(t)
  BY <1>1, ViewInvParts
<1> QED
  BY <1>1, <1>2 DEF Calm, Sound

LEMMA VouchedSame ==
    ASSUME NEW t \in Tabs,
           UNCHANGED <<queue, lastSeq, running, blocked, boot, rows, wiped, gone>>
    PROVE  Vouched(t)' = Vouched(t) /\ \A s : Safe(s)' = Safe(s)
<1>5. \A s : Excused(s)' = Excused(s)
  BY DEF Excused, gone
<1>6. \A s : Folded(s)' = Folded(s)
  BY DEF Folded, TasksOf
<1>7. \A s, j : Covered(t, s, j)' = Covered(t, s, j)
  BY <1>5, <1>6 DEF Covered, TasksOf
<1> QED BY <1>5, <1>6, <1>7 DEF Vouched, Safe, TasksOf

\* The argument of a reset or a seed in the queue.
LEMMA SlotArg ==
    ASSUME TypeOK, NEW t \in Tabs, NEW kind, kind = "reset" \/ kind = "seed", NEW i \in TasksOf(t, kind)
    PROVE  queue[t][i].arg \in Slots /\ i \in Nat /\ i >= 1
<1>1. i \in 1..Len(queue[t]) /\ queue[t][i] \in Task /\ queue[t][i].kind = kind /\ Len(queue[t]) \in Nat
  BY QueueLen DEF TasksOf
<1> QED BY <1>1, TaskKinds

\* A resync operation ends, or goes to sleep, while its reset is not queued.
LEMMA OpCache ==
    ASSUME CacheInv, ViewInv', NEW t \in Tabs, NEW k \in Slots,
           UNCHANGED <<queue, lastSeq, running, failed, blocked, boot, rows, cursor, wiped, gone>>,
           \A u \in Tabs \ {t} : UNCHANGED Local(u),
           ops[t][k].st # "reset",
           \A l \in Slots \ {k} : ops'[t][l] = ops[t][l],
           ops'[t][k].st = "none" \/ ops'[t][k].st = "sleep",
           ops'[t][k].cur <=> ops[t][k].cur,
           ops[t][k].cur => ops'[t][k].st = "sleep"
    PROVE  CacheInv'
<1>1. /\ TypeOK /\ ViewParts(t) /\ TaskShape(t)
      /\ ~Lagging => ResetLast(t) /\ Ready(t) /\ Behind(t) /\ Swept(t)
      /\ ~Lagging /\ Sole => Vouched(t) /\ \A s \in 1..cursor : Safe(s)
  BY CacheGives
<1>2. /\ \A kind : TasksOf(t, kind)' = TasksOf(t, kind)
      /\ queue'[t] = queue[t] /\ Runs(t)' = Runs(t) /\ Failing(t)' = Failing(t)
      /\ boot' = boot /\ skipped' = skipped /\ Lagging' = Lagging
      /\ \A s : Excused(s)' = Excused(s)
  BY DEF TasksOf, Runs, Failing, gone, Lagging, Excused
<1>3. CurrentOps(t)' = CurrentOps(t)
  BY DEF CurrentOps
<1>4. \A i \in TasksOf(t, "reset") : queue[t][i].arg \in Slots \ {k}
  BY <1>1, SlotArg DEF TaskShape
<1>5. \A i \in TasksOf(t, "reset") : ops'[t][queue[t][i].arg] = ops[t][queue[t][i].arg]
  BY <1>4
<1>6. TaskShape(t)'
  BY <1>1, <1>2, <1>5 DEF TaskShape
<1>7. ASSUME ResetLast(t) PROVE ResetLast(t)'
  <2>1. \A i \in TasksOf(t, "reset") : Runs(t) => ops'[t][queue[t][i].arg].cur
    BY <1>5, <1>7 DEF ResetLast, Runs
  <2>2. \A l \in CurrentOps(t) : ops'[t][l].st # "reset" => TasksOf(t, "apply") = {}
    BY <1>7 DEF ResetLast, CurrentOps
  <2>3. \A l \in CurrentOps(t) : ops[t][l].st = "sleep" => ops'[t][l].st = "sleep"
    BY DEF CurrentOps
  <2>4. Failing(t) /\ Runs(t) => \E l \in CurrentOps(t) : ops'[t][l].st = "sleep"
    BY <1>7, <2>3 DEF ResetLast, Runs, Failing
  <2> QED BY <1>2, <1>3, <1>7, <2>1, <2>2, <2>4 DEF ResetLast, Runs, Failing
<1>8. Ready(t) => Ready(t)'
  BY <1>2 DEF Ready
<1>9. Behind(t) => Behind(t)'
  BY <1>2 DEF Behind, Single
<1>10. ASSUME Swept(t) PROVE Swept(t)'
  <2>1. \A l \in CurrentOps(t) : ops'[t][l].st = "fetch" => ops'[t][l] = ops[t][l]
    BY DEF CurrentOps
  <2> QED BY <1>2, <1>3, <1>5, <1>10, <2>1 DEF Swept, Single
<1>11. Vouched(t)' = Vouched(t) /\ \A s : Safe(s)' = Safe(s)
  BY VouchedSame
<1>12. Sole' = Sole /\ (~Lagging' => Calm(t)')
  BY <1>1, <1>2, <1>7, <1>8, <1>9, <1>10 DEF Sole, Single, Calm
<1>13. wiped <= wiped' /\ rows \subseteq rows' /\ skipped[t] \subseteq skipped'[t] /\ (Lagging => Lagging')
  BY <1>1, <1>2, LocalNumbers
<1>14. ~Lagging' /\ Sole' => Vouched(t)' /\ \A s \in 1..cursor' : Safe(s)'
  BY <1>1, <1>2, <1>11, <1>12
<1> QED
  BY <1>6, <1>12, <1>13, <1>14, CacheKept

\* A queue has grown: what was there is still there.
Grown(t) ==
    /\ Len(queue[t]) <= Len(queue'[t])
    /\ \A i \in 1..Len(queue[t]) : queue'[t][i] = queue[t][i]
    /\ \A i \in (Len(queue[t]) + 1)..Len(queue'[t]) : queue'[t][i].step = "start"

LEMMA GrownTasks ==
    ASSUME TypeOK, TypeOK', NEW t \in Tabs, Grown(t), NEW kind
    PROVE  /\ Len(queue[t]) \in Nat /\ Len(queue'[t]) \in Nat
           /\ \A i \in TasksOf(t, kind) :
                 i \in TasksOf(t, kind)' /\ queue'[t][i] = queue[t][i] /\ i \in Nat /\ i <= Len(queue[t])
           /\ \A i \in TasksOf(t, kind)' :
                 /\ i \in Nat
                 /\ \/ i \in TasksOf(t, kind) /\ queue'[t][i] = queue[t][i]
                    \/ i \in (Len(queue[t]) + 1)..Len(queue'[t])
<1>1. Len(queue[t]) \in Nat /\ Len(queue'[t]) \in Nat
  <2>1. queue'[t] \in Seq(Task)
    BY DEF TypeOK, FlowType
  <2> QED BY <2>1, QueueLen
<1>2. ASSUME NEW i \in TasksOf(t, kind)
      PROVE  i \in TasksOf(t, kind)' /\ queue'[t][i] = queue[t][i] /\ i \in Nat /\ i <= Len(queue[t])
  <2>1. i \in 1..Len(queue[t]) /\ queue[t][i].kind = kind
    BY DEF TasksOf
  <2>2. i \in 1..Len(queue'[t])
    BY <1>1, <2>1 DEF Grown
  <2> QED BY <1>1, <2>1, <2>2 DEF Grown, TasksOf
<1>3. ASSUME NEW i \in TasksOf(t, kind)'
      PROVE  /\ i \in Nat
             /\ \/ i \in TasksOf(t, kind) /\ queue'[t][i] = queue[t][i]
                \/ i \in (Len(queue[t]) + 1)..Len(queue'[t])
  <2>1. i \in 1..Len(queue'[t]) /\ queue'[t][i].kind = kind
    BY DEF TasksOf
  <2>2. i \in Nat /\ (i \in 1..Len(queue[t]) \/ i \in (Len(queue[t]) + 1)..Len(queue'[t]))
    BY <1>1, <2>1
  <2>3. i \in 1..Len(queue[t]) => i \in TasksOf(t, kind) /\ queue'[t][i] = queue[t][i]
    BY <2>1 DEF Grown, TasksOf
  <2> QED BY <2>2, <2>3
<1> QED BY <1>1, <1>2, <1>3

LEMMA ShapeGrown ==
    ASSUME TypeOK, TypeOK', NEW t \in Tabs, TaskShape(t), Grown(t),
           \A i \in TasksOf(t, "reset") : ops'[t][queue[t][i].arg].st = "reset",
           \A i \in TasksOf(t, "seed") : boot'[t][queue[t][i].arg].st = "queued",
           \A i \in (Len(queue[t]) + 1)..Len(queue'[t]) :
              /\ queue'[t][i].kind = "reset" =>
                    ops'[t][queue'[t][i].arg].st = "reset"
                    /\ \A j \in TasksOf(t, "reset")' : queue'[t][i].arg = queue'[t][j].arg => i = j
              /\ queue'[t][i].kind = "seed" =>
                    boot'[t][queue'[t][i].arg].st = "queued"
                    /\ \A j \in TasksOf(t, "seed")' : queue'[t][i].arg = queue'[t][j].arg => i = j
    PROVE  TaskShape(t)'
<1>1. \A i \in TasksOf(t, "reset")' : ops'[t][queue'[t][i].arg].st = "reset"
  <2> TAKE i \in TasksOf(t, "reset")'
  <2>1. queue'[t][i].kind = "reset"
    BY DEF TasksOf
  <2> QED BY <2>1, GrownTasks
<1>2. \A i \in TasksOf(t, "seed")' : boot'[t][queue'[t][i].arg].st = "queued"
  <2> TAKE i \in TasksOf(t, "seed")'
  <2>1. queue'[t][i].kind = "seed"
    BY DEF TasksOf
  <2> QED BY <2>1, GrownTasks
<1>3. ASSUME NEW kind \in {"reset", "seed"}, NEW i \in TasksOf(t, kind)', NEW j \in TasksOf(t, kind)',
             queue'[t][i].arg = queue'[t][j].arg
      PROVE  i = j
  <2>1. queue'[t][i].kind = kind /\ queue'[t][j].kind = kind
    BY DEF TasksOf
  <2>2. \/ i \in TasksOf(t, kind) /\ queue'[t][i] = queue[t][i]
        \/ i \in (Len(queue[t]) + 1)..Len(queue'[t])
    BY GrownTasks
  <2>3. \/ j \in TasksOf(t, kind) /\ queue'[t][j] = queue[t][j]
        \/ j \in (Len(queue[t]) + 1)..Len(queue'[t])
    BY GrownTasks
  <2>4. CASE i \in TasksOf(t, kind) /\ queue'[t][i] = queue[t][i]
             /\ j \in TasksOf(t, kind) /\ queue'[t][j] = queue[t][j]
    BY <1>3, <2>4 DEF TaskShape
  <2>5. CASE i \in (Len(queue[t]) + 1)..Len(queue'[t])
    <3>1. CASE kind = "reset"
      BY <1>3, <2>1, <2>5, <3>1
    <3>2. CASE kind = "seed"
      BY <1>3, <2>1, <2>5, <3>2
    <3> QED BY <3>1, <3>2
  <2>6. CASE j \in (Len(queue[t]) + 1)..Len(queue'[t])
    <3>1. CASE kind = "reset"
      BY <1>3, <2>1, <2>6, <3>1
    <3>2. CASE kind = "seed"
      BY <1>3, <2>1, <2>6, <3>2
    <3> QED BY <3>1, <3>2
  <2> QED BY <2>2, <2>3, <2>4, <2>5, <2>6
<1>4. \A i \in 2..Len(queue'[t]) : queue'[t][i].step = "start"
  <2> TAKE i \in 2..Len(queue'[t])
  <2>1. Len(queue[t]) \in Nat /\ Len(queue'[t]) \in Nat
    BY GrownTasks
  <2>2. \/ i \in 2..Len(queue[t]) /\ i \in 1..Len(queue[t])
        \/ i \in (Len(queue[t]) + 1)..Len(queue'[t])
    BY <2>1
  <2> QED BY <2>2 DEF Grown, TaskShape
<1> QED
  BY <1>1, <1>2, <1>3, <1>4 DEF TaskShape

\* No task of this kind has come.
LEMMA GrownNone ==
    ASSUME TypeOK, TypeOK', NEW t \in Tabs, Grown(t), NEW kind,
           \A i \in (Len(queue[t]) + 1)..Len(queue'[t]) : queue'[t][i].kind # kind
    PROVE  /\ TasksOf(t, kind)' = TasksOf(t, kind)
           /\ \A i \in TasksOf(t, kind) : queue'[t][i] = queue[t][i]
<1>1. \A i \in TasksOf(t, kind) : i \in TasksOf(t, kind)' /\ queue'[t][i] = queue[t][i]
  BY GrownTasks
<1>2. ASSUME NEW i \in TasksOf(t, kind)' PROVE i \in TasksOf(t, kind)
  <2>1. queue'[t][i].kind = kind
    BY DEF TasksOf
  <2> QED BY <2>1, GrownTasks
<1> QED BY <1>1, <1>2

LEMMA SafeGrown ==
    ASSUME TypeOK, TypeOK', NEW t \in Tabs, Grown(t),
           \A u \in Tabs \ {t} : UNCHANGED Local(u), rows' = rows, wiped' = wiped,
           skipped[t] \subseteq skipped'[t], NEW s, Safe(s),
           \A i \in (Len(queue[t]) + 1)..Len(queue'[t]) :
              queue'[t][i].kind = "apply" => queue'[t][i].arg > s
    PROVE  Safe(s)'
<1>1. CASE Excused(s)
  <2>1. PICK u \in Tabs : s \in skipped[u]
    BY <1>1 DEF Excused
  <2>2. u # t => skipped'[u] = skipped[u]
    BY DEF Local
  <2> QED BY <2>1, <2>2 DEF Excused, Safe
<1>2. CASE s \in rows
  BY <1>2 DEF Safe, Folded
<1>3. CASE /\ s <= wiped /\ \A r \in rows : r > s
           /\ \A u \in Tabs : \A i \in TasksOf(u, "apply") : queue[u][i].arg > s
  <2>1. ASSUME NEW u \in Tabs, NEW i \in TasksOf(u, "apply")' PROVE queue'[u][i].arg > s
    <3>1. CASE u = t
      <4>1. i \in TasksOf(t, "apply")' /\ queue'[t][i].kind = "apply"
        BY <3>1 DEF TasksOf
      <4>2. \/ i \in TasksOf(t, "apply") /\ queue'[t][i] = queue[t][i]
            \/ i \in (Len(queue[t]) + 1)..Len(queue'[t])
        BY <4>1, GrownTasks
      <4> QED BY <1>3, <3>1, <4>1, <4>2
    <3>2. CASE u # t
      <4>1. queue'[u] = queue[u] /\ i \in TasksOf(u, "apply")
        BY <3>2 DEF TasksOf, Local
      <4> QED BY <1>3, <4>1
    <3> QED BY <3>1, <3>2
  <2> QED BY <1>3, <2>1 DEF Safe, Folded
<1> QED
  BY <1>1, <1>2, <1>3 DEF Safe, Folded

\* While the rows have never been cleared, what is safe stays so.
LEMMA SafeUnwiped ==
    ASSUME wiped = 0, rows \subseteq rows', NEW t \in Tabs, skipped[t] \subseteq skipped'[t],
           \A u \in Tabs \ {t} : UNCHANGED Local(u)
    PROVE  \A s \in Nat \ {0} : Safe(s) => Safe(s)'
<1> SUFFICES ASSUME NEW s \in Nat \ {0}, Safe(s) PROVE Safe(s)'
  OBVIOUS
<1>1. CASE Excused(s)
  <2>1. PICK u \in Tabs : s \in skipped[u]
    BY <1>1 DEF Excused
  <2>2. u # t => skipped'[u] = skipped[u]
    BY DEF Local
  <2> QED BY <2>1, <2>2 DEF Excused, Safe
<1>2. CASE s \in rows
  BY <1>2 DEF Safe, Folded
<1>3. ~(s <= wiped)
  OBVIOUS
<1> QED
  BY <1>1, <1>2, <1>3 DEF Safe, Folded

LEMMA CoveredGrown ==
    ASSUME TypeOK, TypeOK', NEW t \in Tabs, Grown(t), blocked'[t] = blocked[t],
           NEW s, Safe(s) => Safe(s)',
           NEW j \in Nat, NEW l \in Nat, j <= l, Covered(t, s, j)
    PROVE  Covered(t, s, l)'
<1>1. CASE Safe(s)
  BY <1>1 DEF Covered, Safe
<1>2. CASE 0 < blocked[t] /\ blocked[t] <= s
  BY <1>2 DEF Covered
<1>3. ASSUME NEW i \in TasksOf(t, "apply"), i < j, queue[t][i].arg = s
      PROVE  Covered(t, s, l)'
  <2>1. i \in TasksOf(t, "apply")' /\ queue'[t][i] = queue[t][i] /\ i \in Nat
    BY GrownTasks
  <2>2. i < l
    BY <1>3, <2>1
  <2> QED BY <1>3, <2>1, <2>2 DEF Covered
<1> QED
  BY <1>1, <1>2, <1>3 DEF Covered, Safe

LEMMA VouchedGrown ==
    ASSUME TypeOK, TypeOK', NEW t \in Tabs, Grown(t), Vouched(t), blocked'[t] = blocked[t],
           wiped' = wiped, rows \subseteq rows', skipped[t] \subseteq skipped'[t],
           \A u \in Tabs \ {t} : UNCHANGED Local(u),
           \A j \in TasksOf(t, "cursor") : \A s \in 1..queue[t][j].arg : Safe(s) => Safe(s)',
           \A j \in (Len(queue[t]) + 1)..Len(queue'[t]) : queue'[t][j].kind = "cursor" =>
              \A s \in 1..queue'[t][j].arg : Covered(t, s, j)',
           Runs(t)' => \A s \in 1..lastSeq'[t] : Covered(t, s, Len(queue[t]) + 1)',
           \A k \in Slots : boot'[t][k].st = "read" =>
              boot[t][k].st = "read" /\ boot'[t][k].read = boot[t][k].read
    PROVE  Vouched(t)'
<1>1. VouTask(t)'
  <2> SUFFICES ASSUME NEW j \in TasksOf(t, "cursor")', NEW s \in 1..queue'[t][j].arg
               PROVE  Covered(t, s, j)'
    BY DEF VouTask
  <2>1. j \in Nat /\ queue'[t][j].kind = "cursor"
    BY GrownTasks DEF TasksOf
  <2>2. \/ j \in TasksOf(t, "cursor") /\ queue'[t][j] = queue[t][j]
        \/ j \in (Len(queue[t]) + 1)..Len(queue'[t])
    BY GrownTasks
  <2>3. CASE j \in TasksOf(t, "cursor") /\ queue'[t][j] = queue[t][j]
    <3>1. Covered(t, s, j)
      BY <2>3, VouchedParts DEF VouTask
    <3>2. Safe(s) => Safe(s)'
      BY <2>3
    <3> QED BY <2>1, <3>1, <3>2, CoveredGrown
  <2>4. CASE j \in (Len(queue[t]) + 1)..Len(queue'[t])
    BY <2>1, <2>4
  <2> QED BY <2>2, <2>3, <2>4
<1>2. VouPut(t)'
  <2> SUFFICES ASSUME NEW j \in TasksOf(t, "cursor")', queue'[t][j].step = "put"
               PROVE  blocked[t] = 0 \/ queue'[t][j].arg < blocked[t]
    BY DEF VouPut
  <2>1. j \in TasksOf(t, "cursor") /\ queue'[t][j] = queue[t][j]
    BY GrownTasks DEF Grown
  <2> QED BY <2>1, VouchedParts DEF VouPut
<1>3. VouLast(t)'
  <2> SUFFICES ASSUME Runs(t)', NEW s \in 1..lastSeq'[t] PROVE Covered(t, s, Len(queue[t]) + 1)'
    BY DEF VouLast
  <2> QED OBVIOUS
<1>4. VouRead(t)'
  <2> SUFFICES ASSUME NEW k \in Slots, boot'[t][k].st = "read",
                      NEW s \in 1..boot'[t][k].read, wiped' = 0
               PROVE  Safe(s)'
    BY DEF VouRead
  <2>1. boot[t][k].st = "read" /\ boot'[t][k].read = boot[t][k].read /\ wiped = 0
    OBVIOUS
  <2>2. Safe(s)
    BY <2>1, VouchedParts DEF VouRead
  <2>3. s \in Nat \ {0}
    BY <2>1, LocalNumbers
  <2> QED BY <2>1, <2>2, <2>3, SafeUnwiped
<1> QED
  BY <1>1, <1>2, <1>3, <1>4, VouchedParts

\* A round of a resync begins: its reset is queued behind every event.
LEMMA RoundCache ==
    ASSUME CacheInv, ViewInv', NEW t \in Tabs, NEW k \in Slots, NEW n \in Seqs0,
           ops'[t][k] = Resetting(n), \A l \in Slots \ {k} : ops'[t][l] = ops[t][l],
           queue'[t] = Append(queue[t], ResetTask(k)), lastSeq'[t] = lastSeq[t], failed'[t] = FALSE,
           CurrentOps(t) \subseteq {k}, ops[t][k].st # "reset", Runs(t), Runs(t)',
           UNCHANGED <<boot, disk, blocked, wiped, gone>>,
           \A u \in Tabs \ {t} : UNCHANGED Local(u)
    PROVE  CacheInv'
<1>1. /\ TypeOK /\ ViewParts(t) /\ TaskShape(t)
      /\ ~Lagging => ResetLast(t) /\ Ready(t) /\ Behind(t) /\ Swept(t)
      /\ ~Lagging /\ Sole => Vouched(t) /\ \A s \in 1..cursor : Safe(s)
  BY CacheGives
<1>2. TypeOK'
  BY ViewInvPartsNext
<1> DEFINE q == queue[t]
           m == Len(queue[t])
<1>3. /\ Len(queue'[t]) = m + 1 /\ m \in Nat /\ queue'[t][m + 1] = ResetTask(k)
      /\ \A i \in 1..m : queue'[t][i] = queue[t][i]
  <2>1. queue[t] \in Seq(Task) /\ ResetTask(k) \in Task
    BY <1>1, LocalTypes, TaskTypes
  <2> QED BY <2>1, AppendFacts
<1>4. /\ \A i \in (m + 1)..Len(queue'[t]) : i = m + 1
      /\ \A i \in (m + 1)..Len(queue'[t]) :
            /\ queue'[t][i].kind = "reset" /\ queue'[t][i].arg = k /\ queue'[t][i].step = "start"
  <2>1. \A i \in (m + 1)..Len(queue'[t]) : i = m + 1
    BY <1>3
  <2> QED BY <1>3, <2>1 DEF ResetTask
<1>5. Grown(t)
  BY <1>3, <1>4 DEF Grown
<1>6. /\ TasksOf(t, "apply")' = TasksOf(t, "apply")
      /\ TasksOf(t, "cursor")' = TasksOf(t, "cursor")
      /\ \A i \in TasksOf(t, "apply") : queue'[t][i] = queue[t][i] /\ i \in Nat /\ i <= m
      /\ \A i \in TasksOf(t, "cursor") : queue'[t][i] = queue[t][i]
  BY <1>1, <1>2, <1>4, <1>5, GrownNone, GrownTasks
<1>7. \A i \in TasksOf(t, "reset") :
         queue[t][i].arg # k /\ queue[t][i].arg \in Slots /\ ops[t][queue[t][i].arg].st = "reset"
  BY <1>1, SlotArg DEF TaskShape
<1>8. TaskShape(t)'
  <2>1. \A i \in TasksOf(t, "reset") : ops'[t][queue[t][i].arg].st = "reset"
    BY <1>7
  <2>2. \A i \in TasksOf(t, "seed") : boot'[t][queue[t][i].arg].st = "queued"
    BY <1>1 DEF TaskShape
  <2>3. ASSUME NEW i \in (m + 1)..Len(queue'[t])
        PROVE  /\ ops'[t][queue'[t][i].arg].st = "reset"
               /\ \A j \in TasksOf(t, "reset")' : queue'[t][i].arg = queue'[t][j].arg => i = j
    <3>1. ops'[t][queue'[t][i].arg].st = "reset"
      BY <1>4 DEF Resetting
    <3>2. ASSUME NEW j \in TasksOf(t, "reset")', queue'[t][i].arg = queue'[t][j].arg PROVE i = j
      <4>1. ~(j \in TasksOf(t, "reset") /\ queue'[t][j] = queue[t][j])
        BY <1>4, <1>7, <3>2
      <4>2. j \in (m + 1)..Len(queue'[t])
        BY <1>1, <1>2, <1>5, <4>1, GrownTasks
      <4> QED BY <1>4, <4>2
    <3> QED BY <3>1, <3>2
  <2>4. \A i \in (m + 1)..Len(queue'[t]) : queue'[t][i].kind # "seed"
    BY <1>4
  <2> QED BY <1>1, <1>2, <1>5, <2>1, <2>2, <2>3, <2>4, ShapeGrown
<1>9. /\ CurrentOps(t)' = {k} /\ ops'[t][k].st = "reset" /\ ops'[t][k].cur /\ ~Failing(t)'
      /\ \A s : Excused(s)' = Excused(s)
  BY DEF CurrentOps, Resetting, Failing, Excused, gone
<1>10. ASSUME ~Lagging PROVE TasksOf(t, "reset") = {} /\ \A i \in TasksOf(t, "reset")' : i = m + 1
  <2>1. ASSUME NEW i \in TasksOf(t, "reset") PROVE FALSE
    <3>1. ops[t][queue[t][i].arg].cur
      BY <1>1, <1>10 DEF ResetLast, Runs
    <3> QED BY <1>7, <3>1 DEF CurrentOps
  <2> QED BY <2>1, <1>1, <1>2, <1>4, <1>5, GrownTasks
<1>11. ASSUME ~Lagging PROVE Calm(t)'
  <2>1. \A i \in TasksOf(t, "reset")' : i = m + 1 /\ queue'[t][i] = ResetTask(k)
    BY <1>3, <1>10, <1>11
  <2>2. ResetLast(t)'
    <3>1. \A i, j \in TasksOf(t, "reset")' : i = j
      BY <2>1
    <3>2. \A i \in TasksOf(t, "reset")', j \in TasksOf(t, "apply")' : j < i
      BY <1>3, <1>6, <2>1
    <3>3. \A i \in TasksOf(t, "reset")' : ops'[t][queue'[t][i].arg].cur
      BY <1>9, <2>1 DEF ResetTask
    <3> QED BY <1>9, <3>1, <3>2, <3>3 DEF ResetLast, Failing
  <2>3. Ready(t)'
    BY DEF Ready, Runs
  <2>4. Behind(t)'
    <3>1. /\ \A j \in TasksOf(t, "cursor") : queue[t][j].arg <= lastSeq[t]
          /\ Single => cursor <= lastSeq[t]
      BY <1>1, <1>11 DEF Behind, Runs
    <3> QED BY <1>6, <3>1 DEF Behind, Runs, Single, disk
  <2>5. Swept(t)'
    <3>1. \A i \in TasksOf(t, "reset")' : queue'[t][i].step # "cleared"
      BY <2>1 DEF ResetTask
    <3>2. \A l \in CurrentOps(t)' : ops'[t][l].st # "fetch"
      BY <1>9
    <3> QED BY <3>1, <3>2, SweptNothing
  <2> QED BY <2>2, <2>3, <2>4, <2>5 DEF Calm
<1>12. ASSUME NEW s, Safe(s) PROVE Safe(s)'
  <2>1. rows' = rows /\ wiped' = wiped /\ skipped[t] \subseteq skipped'[t]
    BY DEF disk, gone
  <2>2. \A i \in (Len(queue[t]) + 1)..Len(queue'[t]) :
              queue'[t][i].kind = "apply" => queue'[t][i].arg > s
    BY <1>4
  <2> QED BY <1>1, <1>2, <1>5, <1>12, <2>1, <2>2, SafeGrown
<1>13. ASSUME ~Lagging, Sole PROVE Vouched(t)' /\ \A s \in 1..cursor' : Safe(s)'
  <2>1. Vouched(t) /\ (\A s \in 1..cursor : Safe(s)) /\ cursor' = cursor
    BY <1>1, <1>13 DEF disk
  <2>2. ASSUME NEW s \in 1..lastSeq'[t] PROVE Covered(t, s, Len(queue[t]) + 1)'
    <3>1. Covered(t, s, m + 1)
      BY <2>1, VouchedParts DEF VouLast
    <3>2. Safe(s) => Safe(s)'
      BY <1>12
    <3>3. m + 1 \in Nat /\ Len(queue'[t]) + 1 \in Nat /\ m + 1 <= Len(queue'[t]) + 1
      BY <1>3
    <3>4. blocked'[t] = blocked[t]
      OBVIOUS
    <3>5. \A l \in Nat : l = Len(queue'[t]) + 1 => Covered(t, s, l)'
      <4> HIDE DEF m
      <4> QED BY <1>1, <1>2, <1>5, <3>1, <3>2, <3>3, <3>4, CoveredGrown
    <3> QED BY <3>3, <3>5
  <2>3. /\ blocked'[t] = blocked[t] /\ wiped' = wiped /\ rows \subseteq rows'
        /\ skipped[t] \subseteq skipped'[t]
    BY DEF disk, gone
  <2>4. \A j \in (Len(queue[t]) + 1)..Len(queue'[t]) : queue'[t][j].kind # "cursor"
    BY <1>4
  <2>5. \A j \in TasksOf(t, "cursor") : \A s \in 1..queue[t][j].arg : Safe(s) => Safe(s)'
    BY <1>12
  <2>6. Vouched(t)'
    BY <1>1, <1>2, <1>5, <2>1, <2>2, <2>3, <2>4, <2>5, VouchedGrown
  <2> QED BY <1>12, <2>1, <2>6
<1>14. wiped <= wiped' /\ rows \subseteq rows' /\ skipped[t] \subseteq skipped'[t] /\ Lagging' = Lagging /\ Sole' = Sole
  BY <1>1, LocalNumbers DEF disk, gone, Sole, Single, Lagging
<1> QED
  BY <1>8, <1>11, <1>13, <1>14, CacheKept

\* What a flow that extends the tab's leaves in the queue: g is the tab's flow,
\* with one more cursor task if the cursor has gone ahead.
LEMMA FlowFacts ==
    ASSUME TypeOK, TypeOK', NEW t \in Tabs, NEW g \in FlowType1, NEW r, Extends(g, r),
           queue'[t] = r.queue, lastSeq'[t] = r.last, lastSeq[t] <= g.last,
           \/ g.queue = queue[t]
           \/ g.queue = Append(queue[t], CursorTask(g.last))
    PROVE  /\ Grown(t)
           /\ lastSeq[t] \in Nat /\ g.last \in Nat /\ lastSeq'[t] \in Nat /\ g.last <= lastSeq'[t]
           /\ \A i \in (Len(queue[t]) + 1)..Len(queue'[t]) :
                 \/ queue'[t][i].kind = "apply" /\ queue'[t][i].arg \in Nat
                    /\ queue'[t][i].arg > g.last /\ r # g
                 \/ /\ queue'[t][i].kind = "cursor"
                    /\ queue'[t][i].arg \in Nat /\ queue'[t][i].arg <= lastSeq'[t]
                    /\ \A s \in (g.last + 1)..queue'[t][i].arg :
                          \E x \in TasksOf(t, "apply")' : x < i /\ queue'[t][x].arg = s
           /\ \A s \in (g.last + 1)..lastSeq'[t] :
                 \E x \in TasksOf(t, "apply")' : x < Len(queue'[t]) + 1 /\ queue'[t][x].arg = s
<1> DEFINE m == Len(queue[t])
           h == Len(g.queue)
           n == Len(r.queue)
<1>1. /\ m \in Nat /\ h \in Nat /\ n \in Nat /\ h <= n
      /\ g.last \in Nat /\ r.last \in Nat /\ g.last <= r.last /\ lastSeq[t] \in Nat
  <2>1. g.queue \in Seq(Task) /\ r.queue \in Seq(Task) /\ g.last \in Seqs0 /\ r.last \in Seqs0
    BY DEF Extends, FlowType1
  <2>2. h \in Nat /\ n \in Nat
    BY <2>1
  <2> QED BY <2>1, <2>2, QueueLen, LocalNumbers, NumberTypes DEF Extends
<1>2. /\ h = m \/ h = m + 1
      /\ m <= h
      /\ \A i \in 1..m : g.queue[i] = queue[t][i]
      /\ \A i \in (m + 1)..h : g.queue[i] = CursorTask(g.last)
  <2>1. CASE g.queue = queue[t]
    BY <1>1, <2>1
  <2>2. CASE g.queue = Append(queue[t], CursorTask(g.last))
    <3>1. queue[t] \in Seq(Task) /\ CursorTask(g.last) \in Task
      BY LocalTypes, TaskTypes DEF FlowType1
    <3>2. /\ h = m + 1 /\ g.queue[m + 1] = CursorTask(g.last)
          /\ \A i \in 1..m : g.queue[i] = queue[t][i]
      BY <2>2, <3>1, AppendFacts
    <3>3. \A i \in (m + 1)..h : i = m + 1
      BY <1>1, <3>2
    <3> HIDE DEF m, h
    <3> QED BY <1>1, <3>2, <3>3
  <2> QED BY <2>1, <2>2
<1> HIDE DEF m, h, n
<1>3. Len(queue[t]) = m /\ Len(queue'[t]) = n
  BY DEF m, n
<1>4. \A i \in 1..h : r.queue[i] = g.queue[i]
  BY DEF Extends, h
<1>5. \A s \in (g.last + 1)..r.last : \E j \in (h + 1)..n : r.queue[j] = ApplyTask(s)
  BY DEF Extends, h, n
<1>6. ASSUME NEW i \in (m + 1)..n
      PROVE  \/ i \in (m + 1)..h /\ r.queue[i] = CursorTask(g.last)
             \/ /\ i \in (h + 1)..n
                /\ \E s \in (g.last + 1)..r.last :
                     \/ r.queue[i] = ApplyTask(s)
                     \/ /\ r.queue[i] = CursorTask(s)
                        /\ \A x \in (g.last + 1)..s : \E j \in (h + 1)..(i - 1) : r.queue[j] = ApplyTask(x)
  <2>1. i \in (m + 1)..h \/ i \in (h + 1)..n
    BY <1>1, <1>2
  <2>2. CASE i \in (m + 1)..h
    <3>1. i \in 1..h
      BY <1>1, <1>2, <2>2
    <3> QED BY <1>2, <1>4, <2>2, <3>1
  <2>3. CASE i \in (h + 1)..n
    BY <2>3 DEF Extends, h, n
  <2> QED BY <2>1, <2>2, <2>3
<1>7. ASSUME NEW j \in (h + 1)..n, NEW s, r.queue[j] = ApplyTask(s)
      PROVE  j \in TasksOf(t, "apply")' /\ queue'[t][j].arg = s
  <2>1. j \in 1..Len(queue'[t])
    BY <1>1, <1>3
  <2> QED BY <1>7, <2>1 DEF TasksOf, ApplyTask
<1>8. Grown(t)
  <2>1. m <= n
    BY <1>1, <1>2
  <2>2. \A i \in 1..m : queue'[t][i] = queue[t][i]
    <3>1. \A i \in 1..m : i \in 1..h
      BY <1>1, <1>2
    <3> QED BY <1>2, <1>4, <3>1
  <2>3. \A i \in (m + 1)..n : queue'[t][i].step = "start"
    <3> TAKE i \in (m + 1)..n
    <3>1. \A s : ApplyTask(s).step = "start" /\ CursorTask(s).step = "start"
      BY DEF ApplyTask, CursorTask
    <3>2. \E s : r.queue[i] = ApplyTask(s) \/ r.queue[i] = CursorTask(s)
      BY <1>6
    <3> QED BY <3>1, <3>2
  <2> QED BY <1>3, <2>1, <2>2, <2>3 DEF Grown
<1>9. ASSUME NEW s \in (g.last + 1)..lastSeq'[t]
      PROVE  \E x \in TasksOf(t, "apply")' : x < n + 1 /\ queue'[t][x].arg = s
  <2>1. PICK j \in (h + 1)..n : r.queue[j] = ApplyTask(s)
    BY <1>5
  <2>2. j < n + 1
    BY <1>1
  <2> QED BY <1>7, <2>1, <2>2
<1>10. ASSUME NEW i \in (m + 1)..n
       PROVE  \/ queue'[t][i].kind = "apply" /\ queue'[t][i].arg \in Nat
                 /\ queue'[t][i].arg > g.last /\ r # g
              \/ /\ queue'[t][i].kind = "cursor"
                 /\ queue'[t][i].arg \in Nat /\ queue'[t][i].arg <= lastSeq'[t]
                 /\ \A s \in (g.last + 1)..queue'[t][i].arg :
                       \E x \in TasksOf(t, "apply")' : x < i /\ queue'[t][x].arg = s
  <2>1. CASE r.queue[i] = CursorTask(g.last)
    <3>1. queue'[t][i].kind = "cursor" /\ queue'[t][i].arg = g.last
      BY <2>1 DEF CursorTask
    <3>2. \A s \in (g.last + 1)..g.last : FALSE
      BY <1>1
    <3> QED BY <1>1, <3>1, <3>2
  <2>2. ASSUME NEW s \in (g.last + 1)..r.last, r.queue[i] = ApplyTask(s)
        PROVE  /\ queue'[t][i].kind = "apply" /\ queue'[t][i].arg \in Nat
               /\ queue'[t][i].arg > g.last /\ r # g
    <3>1. queue'[t][i].kind = "apply" /\ queue'[t][i].arg = s
      BY <2>2 DEF ApplyTask
    <3>2. s \in Nat /\ s > g.last /\ r.last > g.last
      BY <1>1
    <3> QED BY <1>1, <3>1, <3>2
  <2>3. ASSUME NEW y \in (g.last + 1)..r.last, r.queue[i] = CursorTask(y), i \in (h + 1)..n,
               \A x \in (g.last + 1)..y : \E j \in (h + 1)..(i - 1) : r.queue[j] = ApplyTask(x)
        PROVE  /\ queue'[t][i].kind = "cursor"
               /\ queue'[t][i].arg \in Nat /\ queue'[t][i].arg <= lastSeq'[t]
               /\ \A s \in (g.last + 1)..queue'[t][i].arg :
                       \E x \in TasksOf(t, "apply")' : x < i /\ queue'[t][x].arg = s
    <3>1. queue'[t][i].kind = "cursor" /\ queue'[t][i].arg = y
      BY <2>3 DEF CursorTask
    <3>2. y \in Nat /\ y <= r.last
      BY <1>1
    <3>3. ASSUME NEW s \in (g.last + 1)..y
          PROVE  \E x \in TasksOf(t, "apply")' : x < i /\ queue'[t][x].arg = s
      <4>1. PICK j \in (h + 1)..(i - 1) : r.queue[j] = ApplyTask(s)
        BY <2>3
      <4>2. j \in (h + 1)..n /\ j < i
        BY <1>1, <2>3
      <4> QED BY <1>7, <4>1, <4>2
    <3> QED BY <3>1, <3>2, <3>3
  <2> QED BY <1>6, <2>1, <2>2, <2>3
<1> QED
  BY <1>1, <1>3, <1>8, <1>9, <1>10

\* The new tasks of a flow are of two kinds only.
LEMMA FlowKinds ==
    ASSUME TypeOK, TypeOK', NEW t \in Tabs, Grown(t), NEW kind, kind # "cursor", kind # "apply",
           \A i \in (Len(queue[t]) + 1)..Len(queue'[t]) :
              queue'[t][i].kind = "apply" \/ queue'[t][i].kind = "cursor"
    PROVE  /\ TasksOf(t, kind)' = TasksOf(t, kind)
           /\ \A i \in TasksOf(t, kind) : queue'[t][i] = queue[t][i]
<1>1. \A i \in (Len(queue[t]) + 1)..Len(queue'[t]) : queue'[t][i].kind # kind
  OBVIOUS
<1> QED BY <1>1, GrownNone

\* Events are delivered, or the cursor goes ahead over events that are safe.
LEMMA FlowCache ==
    ASSUME CacheInv, ViewInv', NEW t \in Tabs, Runs(t), Runs(t)',
           UNCHANGED <<boot, disk, blocked, wiped>>, Lagging' = Lagging, skipped[t] \subseteq skipped'[t],
           \A u \in Tabs \ {t} : UNCHANGED Local(u),
           NEW g \in FlowType1, NEW r, Extends(g, r),
           queue'[t] = r.queue, lastSeq'[t] = r.last, lastSeq[t] <= g.last,
           \/ g.queue = queue[t]
           \/ g.queue = Append(queue[t], CursorTask(g.last)),
           ~Lagging /\ Sole => \A s \in (lastSeq[t] + 1)..g.last : Safe(s)',
           \A i \in TasksOf(t, "reset") : ops'[t][queue[t][i].arg].st = "reset",
           ~Lagging => ResetLast(t)' /\ Swept(t)'
    PROVE  CacheInv'
<1>1. /\ TypeOK /\ ViewParts(t) /\ TaskShape(t)
      /\ ~Lagging => ResetLast(t) /\ Ready(t) /\ Behind(t) /\ Swept(t)
      /\ ~Lagging /\ Sole => Vouched(t) /\ \A s \in 1..cursor : Safe(s)
  BY CacheGives
<1>2. TypeOK'
  BY ViewInvPartsNext
<1>3. /\ Grown(t)
      /\ lastSeq[t] \in Nat /\ g.last \in Nat /\ lastSeq'[t] \in Nat /\ g.last <= lastSeq'[t]
      /\ \A i \in (Len(queue[t]) + 1)..Len(queue'[t]) :
            \/ queue'[t][i].kind = "apply" /\ queue'[t][i].arg \in Nat
               /\ queue'[t][i].arg > g.last
            \/ /\ queue'[t][i].kind = "cursor"
               /\ queue'[t][i].arg \in Nat /\ queue'[t][i].arg <= lastSeq'[t]
               /\ \A s \in (g.last + 1)..queue'[t][i].arg :
                     \E x \in TasksOf(t, "apply")' : x < i /\ queue'[t][x].arg = s
      /\ \A s \in (g.last + 1)..lastSeq'[t] :
            \E x \in TasksOf(t, "apply")' : x < Len(queue'[t]) + 1 /\ queue'[t][x].arg = s
  BY <1>1, <1>2, FlowFacts
<1>4. Len(queue[t]) \in Nat /\ Len(queue'[t]) \in Nat /\ Len(queue[t]) <= Len(queue'[t])
  BY <1>1, <1>2, <1>3, GrownTasks DEF Grown
<1>5. TaskShape(t)'
  <2>1. \A i \in TasksOf(t, "seed") : boot'[t][queue[t][i].arg].st = "queued"
    BY <1>1 DEF TaskShape
  <2>2. \A i \in (Len(queue[t]) + 1)..Len(queue'[t]) :
           queue'[t][i].kind # "reset" /\ queue'[t][i].kind # "seed"
    BY <1>3
  <2> QED BY <1>1, <1>2, <1>3, <2>1, <2>2, ShapeGrown
<1>6. rows' = rows /\ cursor' = cursor /\ wiped' = wiped /\ blocked'[t] = blocked[t] /\ boot'[t] = boot[t]
  BY DEF disk
<1>7. ASSUME ~Lagging PROVE Calm(t)'
  <2>1. Ready(t)'
    BY DEF Ready, Runs
  <2>2. /\ \A j \in TasksOf(t, "cursor") : queue[t][j].arg <= lastSeq[t] /\ queue[t][j].arg \in Nat
        /\ Single => cursor <= lastSeq[t]
    BY <1>1, <1>7, TaskArg DEF Behind, Runs, ViewParts
  <2>3. ASSUME NEW j \in TasksOf(t, "cursor")' PROVE queue'[t][j].arg <= lastSeq'[t]
    <3>1. \/ j \in TasksOf(t, "cursor") /\ queue'[t][j] = queue[t][j]
          \/ j \in (Len(queue[t]) + 1)..Len(queue'[t])
      BY <1>1, <1>2, <1>3, GrownTasks
    <3>2. CASE j \in TasksOf(t, "cursor") /\ queue'[t][j] = queue[t][j]
      BY <1>3, <2>2, <3>2
    <3>3. CASE j \in (Len(queue[t]) + 1)..Len(queue'[t])
      <4>1. queue'[t][j].kind = "cursor"
        BY DEF TasksOf
      <4> QED BY <1>3, <3>3, <4>1
    <3> QED BY <3>1, <3>2, <3>3
  <2>4. Single => cursor' <= lastSeq'[t]
    BY <1>1, <1>3, <1>6, <2>2, LocalNumbers
  <2>5. Behind(t)'
    BY <2>3, <2>4 DEF Behind, Runs, Single
  <2> QED BY <1>7, <2>1, <2>5 DEF Calm
<1>8. ASSUME NEW s \in Nat, s <= lastSeq[t], Safe(s) PROVE Safe(s)'
  <2>1. ASSUME NEW i \in (Len(queue[t]) + 1)..Len(queue'[t]), queue'[t][i].kind = "apply"
        PROVE  queue'[t][i].arg > s
    <3>1. queue'[t][i].arg \in Nat /\ queue'[t][i].arg > g.last
      BY <1>3, <2>1
    <3>2. s <= g.last /\ g.last \in Nat
      BY <1>3, <1>8
    <3> QED BY <3>1, <3>2
  <2> QED BY <1>1, <1>2, <1>3, <1>6, <1>8, <2>1, SafeGrown
<1>9. ASSUME ~Lagging, Sole PROVE Vouched(t)' /\ \A s \in 1..cursor' : Safe(s)'
  <2>1. /\ Vouched(t) /\ VouLast(t) /\ (\A s \in 1..cursor : Safe(s))
        /\ \A s \in (lastSeq[t] + 1)..g.last : Safe(s)'
    BY <1>1, <1>9, VouchedParts
  <2>2. ASSUME NEW s \in Nat, 1 <= s, s <= g.last, NEW l \in Nat, Len(queue[t]) + 1 <= l
        PROVE  Covered(t, s, l)'
    <3>1. CASE s <= lastSeq[t]
      <4>1. Covered(t, s, Len(queue[t]) + 1)
        BY <1>3, <2>1, <2>2, <3>1 DEF VouLast
      <4>2. Safe(s) => Safe(s)'
        BY <1>8, <3>1
      <4>3. Len(queue[t]) + 1 \in Nat
        BY <1>4
      <4> QED BY <1>1, <1>2, <1>3, <1>6, <2>2, <4>1, <4>2, <4>3, CoveredGrown
    <3>2. CASE ~(s <= lastSeq[t])
      <4>1. s \in (lastSeq[t] + 1)..g.last
        BY <1>3, <2>2, <3>2
      <4> QED BY <2>1, <4>1 DEF Covered, Safe
    <3> QED BY <3>1, <3>2
  <2>3. ASSUME NEW j \in (Len(queue[t]) + 1)..Len(queue'[t]), queue'[t][j].kind = "cursor",
               NEW s \in 1..queue'[t][j].arg
        PROVE  Covered(t, s, j)'
    <3>1. /\ queue'[t][j].arg \in Nat
          /\ \A x \in (g.last + 1)..queue'[t][j].arg :
                     \E y \in TasksOf(t, "apply")' : y < j /\ queue'[t][y].arg = x
      BY <1>3, <2>3
    <3>2. s \in Nat /\ 1 <= s /\ j \in Nat /\ Len(queue[t]) + 1 <= j
      BY <1>4, <3>1
    <3>3. CASE s <= g.last
      BY <2>2, <3>2, <3>3
    <3>4. CASE ~(s <= g.last)
      <4>1. s \in (g.last + 1)..queue'[t][j].arg
        BY <1>3, <3>1, <3>2, <3>4
      <4>2. \E y \in TasksOf(t, "apply")' : y < j /\ queue'[t][y].arg = s
        BY <3>1, <4>1
      <4> QED BY <4>2 DEF Covered
    <3> QED BY <3>3, <3>4
  <2>4. ASSUME NEW s \in 1..lastSeq'[t] PROVE Covered(t, s, Len(queue[t]) + 1)'
    <3>1. s \in Nat /\ 1 <= s /\ Len(queue'[t]) + 1 \in Nat /\ Len(queue[t]) + 1 <= Len(queue'[t]) + 1
      BY <1>3, <1>4
    <3>2. CASE s <= g.last
      <4>1. \A l \in Nat : l = Len(queue'[t]) + 1 => Covered(t, s, l)'
        BY <2>2, <3>1, <3>2
      <4> QED BY <3>1, <4>1
    <3>3. CASE ~(s <= g.last)
      <4>1. s \in (g.last + 1)..lastSeq'[t]
        BY <1>3, <3>1, <3>3
      <4> QED BY <1>3, <4>1 DEF Covered
    <3> QED BY <3>2, <3>3
  <2>5. ASSUME NEW j \in TasksOf(t, "cursor"), NEW s \in 1..queue[t][j].arg PROVE Safe(s) => Safe(s)'
    <3>1. queue[t][j].arg \in Nat /\ queue[t][j].arg <= lastSeq[t]
      BY <1>1, <1>9, TaskArg DEF Behind, Runs, ViewParts
    <3>2. s \in Nat /\ s <= lastSeq[t]
      BY <1>3, <3>1
    <3> QED BY <1>8, <3>2
  <2>6. \A k \in Slots : boot'[t][k].st = "read" =>
              boot[t][k].st = "read" /\ boot'[t][k].read = boot[t][k].read
    BY <1>6
  <2>7. Vouched(t)'
    <3>1. \A j \in (Len(queue[t]) + 1)..Len(queue'[t]) : queue'[t][j].kind = "cursor" =>
              \A s \in 1..queue'[t][j].arg : Covered(t, s, j)'
      BY <2>3
    <3>2. rows \subseteq rows'
      BY <1>6
    <3> QED BY <1>1, <1>2, <1>3, <1>6, <2>1, <2>4, <2>5, <2>6, <3>1, <3>2, VouchedGrown
  <2>8. ASSUME NEW s \in 1..cursor PROVE Safe(s)'
    <3>1. Safe(s) /\ s \in Nat \ {0} /\ cursor \in Nat
      BY <1>1, <2>1, LocalNumbers
    <3>2. CASE Single
      <4>1. s <= lastSeq[t]
        <5>1. cursor <= lastSeq[t]
          BY <1>1, <1>9, <3>2 DEF Behind, Runs
        <5> QED BY <1>3, <3>1, <5>1
      <4> QED BY <1>8, <3>1, <4>1
    <3>3. CASE ~Single
      <4>1. wiped = 0
        BY <1>9, <3>3 DEF Sole
      <4> QED BY <1>6, <3>1, <4>1, SafeUnwiped
    <3> QED BY <3>2, <3>3
  <2> QED BY <1>6, <2>7, <2>8
<1>10. wiped <= wiped' /\ rows \subseteq rows' /\ Sole' = Sole
  BY <1>1, <1>6, LocalNumbers DEF Sole, Single
<1> QED
  BY <1>5, <1>7, <1>9, <1>10, CacheKept

\* Events are delivered while there is neither a resync nor a reset.
LEMMA FlowQuiet ==
    ASSUME TypeOK, TypeOK', NEW t \in Tabs, Grown(t),
           \A i \in (Len(queue[t]) + 1)..Len(queue'[t]) :
              queue'[t][i].kind = "apply" \/ queue'[t][i].kind = "cursor",
           TasksOf(t, "reset") = {}, CurrentOps(t)' = {}, ~Failing(t)'
    PROVE  ResetLast(t)' /\ Swept(t)'
<1>1. TasksOf(t, "reset")' = {}
  BY FlowKinds
<1> QED BY <1>1 DEF ResetLast, Swept, Failing

\* The cursor goes ahead over events that are skipped.
LEMMA FlowSkips ==
    ASSUME TypeOK, TypeOK', NEW t \in Tabs, Grown(t), ResetLast(t), Swept(t), Behind(t),
           \A i \in (Len(queue[t]) + 1)..Len(queue'[t]) :
              queue'[t][i].kind = "cursor" /\ queue'[t][i].arg \in Nat /\ queue'[t][i].arg <= lastSeq'[t],
           ops'[t] = ops[t], Failing(t)' = Failing(t), Runs(t), Runs(t)', wiped' = wiped, rows' = rows,
           \A s : Excused(s) => Excused(s)',
           \A s \in (lastSeq[t] + 1)..lastSeq'[t] : Excused(s)'
    PROVE  ResetLast(t)' /\ Swept(t)'
<1>1. /\ TasksOf(t, "reset")' = TasksOf(t, "reset")
      /\ TasksOf(t, "apply")' = TasksOf(t, "apply")
      /\ \A i \in TasksOf(t, "reset") : queue'[t][i] = queue[t][i]
  BY GrownNone
<1>2. CurrentOps(t)' = CurrentOps(t)
  BY DEF CurrentOps
<1>3. ResetLast(t)'
  BY <1>1, <1>2 DEF ResetLast, Failing, Runs
<1>4. lastSeq[t] \in Nat /\ lastSeq'[t] \in Nat /\ wiped \in Nat
  <2>1. lastSeq'[t] \in Seqs0
    BY DEF TypeOK, FlowType
  <2> QED BY <2>1, LocalNumbers, NumberTypes
<1>5. ASSUME NEW i \in TasksOf(t, "reset"), queue[t][i].step = "cleared"
      PROVE  /\ \A s \in 1..lastSeq'[t] : s <= wiped \/ Excused(s)'
             /\ \A j \in TasksOf(t, "cursor")' : \A s \in 1..queue'[t][j].arg : s <= wiped \/ Excused(s)'
  <2>1. /\ \A j \in TasksOf(t, "cursor") : \A s \in 1..queue[t][j].arg : s <= wiped \/ Excused(s)
        /\ \A s \in 1..lastSeq[t] : s <= wiped \/ Excused(s)
    BY <1>5 DEF Swept, Runs
  <2>2. ASSUME NEW s \in Nat, 1 <= s, s <= lastSeq'[t] PROVE s <= wiped \/ Excused(s)'
    <3>1. s \in 1..lastSeq[t] \/ s \in (lastSeq[t] + 1)..lastSeq'[t]
      BY <1>4, <2>2
    <3> QED BY <2>1, <3>1
  <2>3. \A s \in 1..lastSeq'[t] : s <= wiped \/ Excused(s)'
    BY <1>4, <2>2
  <2>4. ASSUME NEW j \in TasksOf(t, "cursor")', NEW s \in 1..queue'[t][j].arg
        PROVE  s <= wiped \/ Excused(s)'
    <3>1. \/ j \in TasksOf(t, "cursor") /\ queue'[t][j] = queue[t][j]
          \/ j \in (Len(queue[t]) + 1)..Len(queue'[t])
      BY GrownTasks
    <3>2. CASE j \in TasksOf(t, "cursor") /\ queue'[t][j] = queue[t][j]
      BY <2>1, <3>2
    <3>3. CASE j \in (Len(queue[t]) + 1)..Len(queue'[t])
      <4>1. queue'[t][j].arg \in Nat /\ queue'[t][j].arg <= lastSeq'[t]
        BY <3>3
      <4>2. s \in Nat /\ 1 <= s /\ s <= lastSeq'[t]
        BY <1>4, <4>1
      <4> QED BY <2>2, <4>2
    <3> QED BY <3>1, <3>2, <3>3
  <2> QED BY <2>3, <2>4
<1>6. \A i \in TasksOf(t, "reset") : queue[t][i].step = "cleared" =>
         ops[t][queue[t][i].arg].target <= wiped /\ (Single => rows = {})
  BY DEF Swept
<1>7. Swept(t)'
  BY <1>1, <1>2, <1>5, <1>6 DEF Swept, Single
<1> QED BY <1>3, <1>7

\* A batch reaches a running engine.
LEMMA BatchCache ==
    ASSUME CacheInv, ViewInv', NEW t \in Tabs, Runs(t), Runs(t)',
           UNCHANGED <<boot, disk, blocked, wiped, failed, ops>>, Lagging' = Lagging,
           \A u \in Tabs \ {t} : UNCHANGED Local(u),
           NEW es \in Seq(Seqs), NEW n \in Seqs0, ApplyBatch(t, es, n),
           n = 0 \/ \E i \in 1..Len(es) : es[i] = n,
           \A i \in 1..Len(es) :
              \/ After(es[i], buffer[t], Len(buffer[t]), lastSeq[t], resyncHead[t])
              \/ \E j \in 1..(i - 1) : es[i] = es[j] + 1
    PROVE  CacheInv'
<1>1. /\ TypeOK /\ ViewParts(t) /\ TaskShape(t)
      /\ ~Lagging => ResetLast(t) /\ Ready(t) /\ Behind(t) /\ Swept(t)
  BY CacheGives
<1>2. TypeOK'
  BY ViewInvPartsNext
<1> DEFINE f == Flow(t)
           b == buffer[t]
<1>3. f \in FlowType1 /\ f.last = lastSeq[t] /\ f.queue = queue[t]
  BY <1>1, FlowTypes DEF Flow, TypeOK
<1>4. lastSeq[t] \in Nat /\ resyncHead[t] \in Nat /\ n \in Nat
  BY <1>1, LocalNumbers, NumberTypes
<1>5. \A i \in TasksOf(t, "reset") : ops'[t][queue[t][i].arg].st = "reset"
  BY <1>1 DEF TaskShape
<1>6. CASE Buffers(t)
  <2> DEFINE r == AdvanceTo(f, n)
  <2>1. FlowBecomes(t, r) /\ skipped'[t] = skipped[t] \cup (lastSeq[t] + 1)..n
    BY <1>1, <1>6 DEF ApplyBatch, Skips, TypeOK, PastType
  <2>2. /\ r \in FlowType1 /\ lastSeq[t] <= r.last
        /\ \/ n <= lastSeq[t] /\ r = f
           \/ n > lastSeq[t] /\ r.last = n /\ r.queue = Append(queue[t], CursorTask(n))
    BY <1>3, AdvanceToFacts
  <2> HIDE DEF r
  <2>3. lastSeq'[t] = r.last /\ queue'[t] = r.queue
    BY <1>1, <2>1, <2>2, FlowBecomesFacts DEF TypeOK
  <2>4. Extends(r, r) /\ (r.queue = queue[t] \/ r.queue = Append(queue[t], CursorTask(r.last)))
    BY <1>3, <2>2, ExtendsSelf
  <2>5. \A s \in (lastSeq[t] + 1)..r.last : Excused(s)'
    <3>1. \A s \in (lastSeq[t] + 1)..r.last : s \in skipped'[t]
      BY <1>3, <1>4, <2>1, <2>2
    <3> QED BY <3>1 DEF Excused
  <2>6. \A s : Excused(s) => Excused(s)'
    <3> SUFFICES ASSUME NEW s, NEW u \in Tabs, s \in skipped[u] PROVE s \in skipped'[u]
      BY DEF Excused
    <3>1. u # t => skipped'[u] = skipped[u]
      BY DEF Local
    <3> QED BY <2>1, <3>1
  <2>7. /\ Grown(t)
        /\ \A i \in (Len(queue[t]) + 1)..Len(queue'[t]) :
              queue'[t][i].kind = "cursor" /\ queue'[t][i].arg \in Nat /\ queue'[t][i].arg <= lastSeq'[t]
    BY <1>1, <1>2, <2>2, <2>3, <2>4, FlowFacts
  <2>8. ops'[t] = ops[t] /\ Failing(t)' = Failing(t) /\ wiped' = wiped /\ rows' = rows
    BY DEF Failing, disk
  <2>9. ~Lagging => ResetLast(t)' /\ Swept(t)'
    <3> SUFFICES ASSUME ~Lagging PROVE ResetLast(t)' /\ Swept(t)'
      OBVIOUS
    <3>1. ResetLast(t) /\ Swept(t) /\ Behind(t)
      BY <1>1
    <3> QED BY <1>1, <1>2, <2>3, <2>5, <2>6, <2>7, <2>8, <3>1, FlowSkips
  <2>10. skipped[t] \subseteq skipped'[t] /\ \A s \in (lastSeq[t] + 1)..r.last : Safe(s)'
    BY <2>1, <2>5 DEF Safe
  <2> QED BY <1>5, <2>2, <2>3, <2>4, <2>9, <2>10, FlowCache
<1>7. CASE ~Buffers(t)
  <2> DEFINE r == ApplyEach(f, es)
  <2>1. b = <<>> /\ resyncHead[t] = 0 /\ CurrentOps(t) = {}
    BY <1>1, <1>7 DEF Buffers, ViewParts, AlIdle, ResyncInFlight
  <2>2. \A i \in 1..Len(es) : es[i] \in Nat
    <3>1. \A i \in 1..Len(es) : es[i] \in Seqs
      OBVIOUS
    <3> QED BY <3>1, NumberTypes
  <2>3. \A i \in 1..Len(es) : es[i] <= f.last + 1 \/ \E j \in 1..(i - 1) : es[i] = es[j] + 1
    <3> SUFFICES ASSUME NEW i \in 1..Len(es),
                        After(es[i], b, Len(b), lastSeq[t], resyncHead[t])
                 PROVE  es[i] <= f.last + 1
      OBVIOUS
    <3>1. es[i] <= lastSeq[t] + 1 \/ es[i] <= 0 + 1
      BY <2>1 DEF After
    <3> QED BY <1>3, <1>4, <2>2, <3>1
  <2>4. Extends(f, r) /\ \A i \in 1..Len(es) : es[i] <= r.last
    BY <1>3, <2>3, ApplyEachExtends
  <2> HIDE DEF r
  <2>5. r \in FlowType1 /\ r.last \in Nat /\ f.last <= r.last
    BY <2>4, NumberTypes DEF Extends, FlowType1
  <2>6. AdvanceTo(r, n) = r
    <3>1. n <= r.last
      BY <1>4, <2>4, <2>5
    <3> QED BY <3>1 DEF AdvanceTo
  <2>7. FlowBecomes(t, r) /\ skipped' = skipped
    BY <1>7, <2>6 DEF ApplyBatch, r
  <2>8. lastSeq'[t] = r.last /\ queue'[t] = r.queue
    BY <1>1, <2>5, <2>7, FlowBecomesFacts DEF TypeOK
  <2>9. lastSeq[t] <= f.last /\ \A s \in (lastSeq[t] + 1)..f.last : FALSE
    BY <1>3, <1>4
  <2>10. /\ Grown(t)
         /\ \A i \in (Len(queue[t]) + 1)..Len(queue'[t]) :
               queue'[t][i].kind = "apply" \/ queue'[t][i].kind = "cursor"
    BY <1>1, <1>2, <1>3, <2>4, <2>8, <2>9, FlowFacts
  <2>11. ASSUME ~Lagging PROVE ResetLast(t)' /\ Swept(t)'
    <3>1. TasksOf(t, "reset") = {}
      <4> SUFFICES ASSUME NEW i \in TasksOf(t, "reset") PROVE FALSE
        OBVIOUS
      <4>1. ops[t][queue[t][i].arg].cur /\ queue[t][i].arg \in Slots
        BY <1>1, <2>11, SlotArg DEF ResetLast, Runs
      <4> QED BY <2>1, <4>1 DEF CurrentOps
    <3>2. ~Failing(t)
      BY <1>1, <2>1, <2>11 DEF ResetLast, Runs, Failing
    <3>3. ~Failing(t)' /\ CurrentOps(t)' = {}
      BY <2>1, <3>2 DEF Failing, CurrentOps
    <3> QED BY <1>1, <1>2, <2>10, <3>1, <3>3, FlowQuiet
  <2>12. skipped[t] \subseteq skipped'[t] /\ f.queue = queue[t]
    BY <1>3, <2>7
  <2> HIDE DEF f
  <2> QED BY <1>3, <1>5, <2>4, <2>8, <2>9, <2>11, <2>12, FlowCache
<1> QED
  BY <1>6, <1>7

LEMMA EventArrivesCache ==
    ASSUME CacheInv, ViewInv', NEW t \in Tabs, EventArrives(t)
    PROVE  CacheInv'
<1>1. TypeOK /\ ViewParts(t)
  BY CacheGives
<1>2. \A u \in Tabs \ {t} : UNCHANGED Local(u)
  BY <1>1, EventArrivesLocal
<1>3. /\ UNCHANGED <<boot, disk, blocked, wiped, failed, ops>> /\ Lagging' = Lagging
      /\ running' = running
  BY DEF EventArrives, shell, cache, Lagging
<1>4. socket[t].st = "open" /\ socket[t].next <= head
  BY DEF EventArrives
<1>5. Runs(t) /\ Runs(t)'
  BY <1>1, <1>3, <1>4 DEF ViewParts, AlSock, Runs
<1> DEFINE es == <<socket[t].next>>
<1>6. /\ es \in Seq(Seqs)
      /\ \A i \in 1..Len(es) :
            \/ After(es[i], buffer[t], Len(buffer[t]), lastSeq[t], resyncHead[t])
            \/ \E j \in 1..(i - 1) : es[i] = es[j] + 1
  BY <1>1, <1>4, EventBatch DEF ViewParts
<1>7. ApplyBatch(t, es, 0) /\ 0 \in Seqs0
  BY NumberTypes DEF EventArrives
<1> HIDE DEF es
<1> QED BY <1>2, <1>3, <1>5, <1>6, <1>7, BatchCache

\* A resync signal reaches a running engine.
LEMMA HandleResyncCache ==
    ASSUME CacheInv, ViewInv', NEW t \in Tabs, Runs(t), Runs(t)',
           NEW h \in Seqs0, HandleResync(t, h),
           UNCHANGED <<running, boot, disk, blocked, wiped, gone>>,
           \A u \in Tabs \ {t} : UNCHANGED Local(u)
    PROVE  CacheInv'
<1>1. TypeOK
  BY CacheGives
<1>2. CASE ResyncInFlight(t)
  <2>1. UNCHANGED <<queue, lastSeq, running, failed, blocked, boot, ops, rows, cursor, wiped, gone>>
    BY <1>2 DEF HandleResync, flow, disk
  <2> QED BY <2>1, CacheSame
<1>3. CASE ~ResyncInFlight(t)
  <2> DEFINE n == Max({resyncHead[t], h})
  <2>1. PICK k \in FreeSlots(t) : Round(t, k, Flow(t), n)
    BY <1>3 DEF HandleResync
  <2>2. k \in Slots /\ CurrentOps(t) \subseteq {k} /\ ops[t][k].st # "reset"
    BY <1>3 DEF FreeSlots, ResyncInFlight
  <2>3. n \in Seqs0
    <3>1. resyncHead[t] \in Seqs0 /\ resyncHead[t] \in Nat /\ h \in Nat
      BY <1>1, LocalTypes, NumberTypes
    <3>2. n = IF resyncHead[t] >= h THEN resyncHead[t] ELSE h
      BY <3>1, MaxMinPair
    <3> HIDE DEF n
    <3> QED BY <3>1, <3>2
  <2>4. Flow(t) \in FlowType1 /\ Flow(t).last = lastSeq[t] /\ Flow(t).queue = queue[t]
    BY <1>1, FlowTypes DEF Flow, TypeOK
  <2> HIDE DEF n
  <2>5. /\ ops'[t][k] = Resetting(n) /\ \A l \in Slots \ {k} : ops'[t][l] = ops[t][l]
        /\ queue'[t] = Append(Flow(t).queue, ResetTask(k))
        /\ lastSeq'[t] = Flow(t).last /\ failed'[t] = FALSE
    BY <1>1, <2>1, <2>2, <2>3, <2>4, RoundFacts
  <2>6. queue'[t] = Append(queue[t], ResetTask(k)) /\ lastSeq'[t] = lastSeq[t]
    BY <2>4, <2>5
  <2> QED BY <2>2, <2>3, <2>5, <2>6, RoundCache
<1> QED
  BY <1>2, <1>3

LEMMA HelloArrivesCache ==
    ASSUME CacheInv, ViewInv', NEW t \in Tabs, HelloArrives(t)
    PROVE  CacheInv'
<1>1. TypeOK /\ ViewParts(t)
  BY CacheGives
<1>2. \A u \in Tabs \ {t} : UNCHANGED Local(u)
  BY <1>1, HelloArrivesLocal
<1>3. UNCHANGED <<running, boot, disk, blocked, wiped, gone>>
  BY DEF HelloArrives, shell
<1>4. socket[t].st = "hello" /\ socket[t].last \in Seqs0
  BY <1>1, LocalTypes DEF HelloArrives, Socket
<1>5. Runs(t) /\ Runs(t)'
  BY <1>1, <1>3, <1>4 DEF ViewParts, AlSock, Runs
<1>6. CASE HandleResync(t, socket[t].last)
  BY <1>2, <1>3, <1>4, <1>5, <1>6, HandleResyncCache
<1>7. CASE UNCHANGED <<ops, resyncHead, failed, flow>>
  <2>1. UNCHANGED <<queue, lastSeq, running, failed, blocked, boot, ops, rows, cursor, wiped, gone>>
    BY <1>3, <1>7 DEF flow, disk
  <2> QED BY <2>1, CacheSame
<1> QED
  BY <1>6, <1>7 DEF HelloArrives

LEMMA PollReturnsCache ==
    ASSUME CacheInv, ViewInv', NEW t \in Tabs, NEW p \in polls[t], PollReturns(t, p)
    PROVE  CacheInv'
<1>1. TypeOK /\ ViewParts(t)
  BY CacheGives
<1>2. \A u \in Tabs \ {t} : UNCHANGED Local(u)
  BY <1>1, PollReturnsLocal
<1>3. UNCHANGED <<running, boot, disk, blocked, wiped, late>> /\ Lagging' = Lagging
  BY DEF PollReturns, shell, engine, Lagging
<1>4. p \in Poll /\ p.upto \in Seqs0
  BY <1>1, LocalTypes DEF Poll
<1>5. CASE Stale(p) /\ UNCHANGED <<engine, failed, flow, skipped>>
  <2>1. UNCHANGED <<queue, lastSeq, running, failed, blocked, boot, ops, rows, cursor, wiped, gone>>
    BY <1>3, <1>5 DEF flow, disk, engine, gone
  <2> QED BY <2>1, CacheSame
<1>6. ~Stale(p) => Runs(t) /\ Runs(t)'
  BY <1>1, <1>3 DEF ViewParts, AlPolls, Runs, Stale
<1>7. CASE ~Stale(p) /\ HandleResync(t, p.upto) /\ UNCHANGED skipped
  <2>1. UNCHANGED <<running, boot, disk, blocked, wiped, gone>>
    BY <1>3, <1>7 DEF gone
  <2> QED BY <1>2, <1>4, <1>6, <1>7, <2>1, HandleResyncCache
<1>8. CASE /\ ~Stale(p) /\ ~p.resync /\ ApplyBatch(t, Between(p.since, p.upto), p.upto)
           /\ UNCHANGED <<running, resyncHead, ops, failed>>
  <2> DEFINE es == Between(p.since, p.upto)
  <2>1. p.cur /\ p.since <= lastSeq[t] /\ p.since < p.upto /\ p.upto <= head
    BY <1>1, <1>8 DEF Stale, ViewParts, ChPolls, PubPolls, PollReturns
  <2>2. /\ es \in Seq(Seqs)
        /\ \E i \in 1..Len(es) : es[i] = p.upto
        /\ \A i \in 1..Len(es) :
              \/ After(es[i], buffer[t], Len(buffer[t]), lastSeq[t], resyncHead[t])
              \/ \E j \in 1..(i - 1) : es[i] = es[j] + 1
    BY <1>1, <2>1, PollBatch
  <2>3. ApplyBatch(t, es, p.upto) /\ UNCHANGED <<boot, disk, blocked, wiped, failed, ops>>
    BY <1>3, <1>8
  <2> HIDE DEF es
  <2> QED BY <1>2, <1>3, <1>4, <1>6, <1>8, <2>2, <2>3, BatchCache
<1> QED
  BY <1>5, <1>7, <1>8 DEF PollReturns, Between

\* Steps of the server, the net and the socket that the cache does not see.
LEMMA NetCache ==
    ASSUME CacheInv, ViewInv',
           \/ Publish \/ Expire
           \/ \E t \in Tabs : \/ Connects(t) \/ ServerGreets(t) \/ SocketDrops(t)
                              \/ \E p \in polls[t] : ServerAnswers(t, p) \/ PollFails(t, p) \/ PollResumes(t, p)
    PROVE  CacheInv'
<1> DEFINE Unseen == UNCHANGED <<queue, lastSeq, running, failed, blocked, boot, ops, rows, cursor, wiped, gone>>
<1>3. ASSUME NEW t \in Tabs, Connects(t) PROVE Unseen
  BY <1>3 DEF Connects, disk, shell, engine, cache, flow
<1>4. ASSUME NEW t \in Tabs, ServerGreets(t) PROVE Unseen
  BY <1>4 DEF ServerGreets, disk, shell, engine, cache, flow
<1>5. ASSUME NEW t \in Tabs, SocketDrops(t) PROVE Unseen
  BY <1>5 DEF SocketDrops, disk, shell, engine, cache, flow
<1>6. ASSUME NEW t \in Tabs, NEW p \in polls[t], ServerAnswers(t, p) PROVE Unseen
  BY <1>6 DEF ServerAnswers, disk, shell, engine, cache, flow
<1>7. ASSUME NEW t \in Tabs, NEW p \in polls[t], PollFails(t, p) PROVE Unseen
  BY <1>7 DEF PollFails, disk, shell, engine, cache, flow
<1>8. ASSUME NEW t \in Tabs, NEW p \in polls[t], PollResumes(t, p) PROVE Unseen
  BY <1>8 DEF PollResumes, disk, shell, engine, cache, flow
<1>9. Publish => Unseen
  BY DEF Publish, disk, shell, engine, cache, flow
<1>10. Expire => Unseen
  BY DEF Expire, disk, shell, engine, cache, flow
<1>11. Unseen
  <2> HIDE DEF Unseen
  <2> QED BY <1>3, <1>4, <1>5, <1>6, <1>7, <1>8, <1>9, <1>10
<1> QED
  BY <1>11, CacheSame

LEMMA RefetchFailsCache ==
    ASSUME CacheInv, ViewInv', NEW t \in Tabs, NEW k \in Slots, RefetchFails(t, k)
    PROVE  CacheInv'
<1>1. TypeOK
  BY CacheGives
<1>2. \A u \in Tabs \ {t} : UNCHANGED Local(u)
  BY <1>1, RefetchFailsLocal
<1>3. UNCHANGED <<queue, lastSeq, running, failed, blocked, boot, rows, cursor, wiped, gone>>
  BY DEF RefetchFails, disk, shell, cache, flow
<1>4. /\ \A l \in Slots \ {k} : ops'[t][l] = ops[t][l]
      /\ \/ ~ops[t][k].cur /\ ops'[t][k] = NoOp
         \/ ops[t][k].cur /\ ops'[t][k].cur /\ ops'[t][k].st = "sleep"
  BY <1>1, RejectsFacts DEF RefetchFails, TypeOK
<1>5. /\ ops[t][k].st # "reset"
      /\ ops'[t][k].st = "none" \/ ops'[t][k].st = "sleep"
      /\ ops'[t][k].cur <=> ops[t][k].cur
      /\ ops[t][k].cur => ops'[t][k].st = "sleep"
  BY <1>4 DEF RefetchFails, NoOp
<1> QED
  BY <1>2, <1>3, <1>4, <1>5, OpCache

\* An operation of an earlier lifecycle ends.
LEMMA AbandonedCache ==
    ASSUME CacheInv, ViewInv', NEW t \in Tabs, NEW k \in Slots,
           Abandoned(t, k), OpEnds(t, k), ops[t][k].st # "reset",
           UNCHANGED <<queue, lastSeq, running, failed, blocked, boot, rows, cursor, wiped, gone>>,
           \A u \in Tabs \ {t} : UNCHANGED Local(u)
    PROVE  CacheInv'
<1>1. TypeOK
  BY CacheGives
<1>2. ops'[t][k] = NoOp /\ \A l \in Slots \ {k} : ops'[t][l] = ops[t][l]
  BY <1>1, OpEndsFacts DEF TypeOK
<1>3. /\ ops'[t][k].st = "none" \/ ops'[t][k].st = "sleep"
      /\ ops'[t][k].cur <=> ops[t][k].cur
      /\ ops[t][k].cur => ops'[t][k].st = "sleep"
  BY <1>2 DEF NoOp, Abandoned
<1> QED
  BY <1>2, <1>3, OpCache

\* A current operation begins another round.
LEMMA NextRoundCache ==
    ASSUME CacheInv, ViewInv', NEW t \in Tabs, NEW k \in Slots, ~Abandoned(t, k),
           ops[t][k].st # "reset", NEW f \in FlowType1, f.last = lastSeq[t], f.queue = queue[t],
           Round(t, k, f, resyncHead[t]),
           UNCHANGED <<running, boot, disk, blocked, wiped, gone>>,
           \A u \in Tabs \ {t} : UNCHANGED Local(u)
    PROVE  CacheInv'
<1>1. TypeOK /\ ViewParts(t)
  BY CacheGives
<1>2. resyncHead[t] \in Seqs0
  BY <1>1, LocalTypes
<1>3. /\ ops'[t][k] = Resetting(resyncHead[t]) /\ \A l \in Slots \ {k} : ops'[t][l] = ops[t][l]
      /\ queue'[t] = Append(queue[t], ResetTask(k)) /\ lastSeq'[t] = lastSeq[t] /\ failed'[t] = FALSE
  BY <1>1, <1>2, RoundFacts
<1>4. k \in CurrentOps(t)
  BY DEF Abandoned, CurrentOps
<1>5. Runs(t) /\ Runs(t)' /\ CurrentOps(t) \subseteq {k}
  BY <1>1, <1>4 DEF ViewParts, AlOps, Runs
<1> QED
  BY <1>2, <1>3, <1>5, RoundCache

LEMMA OpWakesCache ==
    ASSUME CacheInv, ViewInv', NEW t \in Tabs, NEW k \in Slots, OpWakes(t, k)
    PROVE  CacheInv'
<1>1. TypeOK
  BY CacheGives
<1>2. \A u \in Tabs \ {t} : UNCHANGED Local(u)
  BY <1>1, OpWakesLocal
<1>3. ops[t][k].st # "reset" /\ UNCHANGED <<running, boot, disk, blocked, wiped, gone>>
  BY DEF OpWakes, shell
<1>4. CASE Abandoned(t, k) /\ OpEnds(t, k) /\ UNCHANGED <<flow, failed>>
  <2>1. UNCHANGED <<queue, lastSeq, running, failed, blocked, boot, rows, cursor, wiped, gone>>
    BY <1>3, <1>4 DEF flow, disk
  <2> QED BY <1>2, <1>3, <1>4, <2>1, AbandonedCache
<1>5. CASE ~Abandoned(t, k) /\ Round(t, k, Flow(t), resyncHead[t])
  <2> DEFINE f == Flow(t)
  <2>1. f \in FlowType1 /\ f.last = lastSeq[t] /\ f.queue = queue[t]
    BY <1>1, FlowTypes DEF Flow, TypeOK
  <2>2. Round(t, k, f, resyncHead[t]) /\ ~Abandoned(t, k)
    BY <1>5
  <2> HIDE DEF f
  <2> QED BY <1>2, <1>3, <2>1, <2>2, NextRoundCache
<1> QED
  BY <1>4, <1>5 DEF OpWakes

\* The snapshot is complete: the cursor goes over what its reset has cleared, and
\* the buffered events follow.
LEMMA SnapshotCache ==
    ASSUME CacheInv, ViewInv', NEW t \in Tabs, NEW k \in Slots,
           NEW f \in FlowType1, f.last = lastSeq[t], f.queue = queue[t],
           ~Abandoned(t, k), ops[t][k].st = "fetch", ops[t][k].target = resyncHead[t],
           FlowBecomes(t, ApplyEach(AdvanceTo(f, resyncHead[t]), buffer[t])), OpEnds(t, k),
           UNCHANGED <<running, boot, disk, failed, blocked, wiped, gone>>,
           \A u \in Tabs \ {t} : UNCHANGED Local(u)
    PROVE  CacheInv'
<1> DEFINE n == resyncHead[t]
           b == buffer[t]
           g == AdvanceTo(f, n)
           r == ApplyEach(g, b)
<1>1. /\ TypeOK /\ ViewParts(t) /\ TaskShape(t)
      /\ ~Lagging => ResetLast(t) /\ Ready(t) /\ Behind(t) /\ Swept(t)
  BY CacheGives
<1>2. TypeOK'
  BY ViewInvPartsNext
<1>3. /\ lastSeq[t] \in Nat /\ n \in Nat /\ n \in Seqs0 /\ wiped \in Nat
      /\ b \in Seq(Seqs) /\ \A i \in 1..Len(b) : b[i] \in Nat
  BY <1>1, LocalNumbers, LocalTypes
<1>4. k \in CurrentOps(t)
  BY DEF Abandoned, CurrentOps
<1>5. Runs(t) /\ Runs(t)' /\ CurrentOps(t) \subseteq {k}
  BY <1>1, <1>4 DEF ViewParts, AlOps, Runs
<1>6. /\ g \in FlowType1 /\ lastSeq[t] <= g.last /\ n <= g.last
      /\ \/ n <= lastSeq[t] /\ g = f
         \/ n > lastSeq[t] /\ g.last = n /\ g.queue = Append(queue[t], CursorTask(n))
  BY <1>3, AdvanceToFacts
<1> HIDE DEF g
<1>7. g.last \in Nat
  BY <1>6, NumberTypes DEF FlowType1
<1>8. \A i \in 1..Len(b) : b[i] <= g.last + 1 \/ \E j \in 1..(i - 1) : b[i] = b[j] + 1
  <2> SUFFICES ASSUME NEW i \in 1..Len(b), b[i] <= lastSeq[t] + 1 \/ b[i] <= n + 1
               PROVE  b[i] <= g.last + 1
    BY <1>1 DEF ViewParts, ChBuf, After
  <2>1. b[i] \in Nat
    BY <1>3
  <2> HIDE DEF b, n
  <2> QED BY <1>3, <1>6, <1>7, <2>1
<1>9. Extends(g, r)
  BY <1>3, <1>6, <1>8, ApplyEachExtends
<1>10. FlowBecomes(t, r)
  BY DEF g
<1> HIDE DEF r
<1>11. r \in FlowType1
  BY <1>9 DEF Extends
<1>12. lastSeq'[t] = r.last /\ queue'[t] = r.queue
  BY <1>1, <1>10, <1>11, FlowBecomesFacts DEF TypeOK
<1>13. ops'[t][k] = NoOp /\ \A l \in Slots \ {k} : ops'[t][l] = ops[t][l]
  BY <1>1, OpEndsFacts DEF TypeOK
<1>14. CurrentOps(t)' = {}
  BY <1>5, <1>13 DEF CurrentOps, NoOp
<1>15. g.queue = queue[t] \/ g.queue = Append(queue[t], CursorTask(g.last))
  BY <1>6
<1>16. /\ Grown(t)
       /\ \A i \in (Len(queue[t]) + 1)..Len(queue'[t]) :
             \/ queue'[t][i].kind = "apply" /\ queue'[t][i].arg \in Nat /\ queue'[t][i].arg > g.last
             \/ queue'[t][i].kind = "cursor"
  BY <1>1, <1>2, <1>6, <1>9, <1>12, <1>15, FlowFacts
<1>17. \A i \in TasksOf(t, "reset") : ops'[t][queue[t][i].arg].st = "reset"
  BY <1>1, <1>13, SlotArg DEF TaskShape
<1>18. ASSUME ~Lagging PROVE ResetLast(t)' /\ Swept(t)' /\ TasksOf(t, "apply") = {}
  <2>1. ASSUME NEW i \in TasksOf(t, "reset") PROVE FALSE
    <3>1. ops[t][queue[t][i].arg].cur /\ queue[t][i].arg \in Slots /\ ops[t][queue[t][i].arg].st = "reset"
      BY <1>1, <1>5, <1>18, SlotArg DEF ResetLast, Runs, TaskShape
    <3> QED BY <1>5, <3>1 DEF CurrentOps
  <2>2. ~Failing(t)
    BY <1>1, <1>5, <1>18 DEF ResetLast, Runs, Failing
  <2>3. ~Failing(t)'
    BY <2>2 DEF Failing
  <2>4. TasksOf(t, "apply") = {}
    BY <1>1, <1>4, <1>18 DEF ResetLast
  <2> QED BY <1>1, <1>2, <1>14, <1>16, <2>1, <2>3, <2>4, FlowQuiet
<1>19. ASSUME ~Lagging, Sole, NEW s \in (lastSeq[t] + 1)..g.last PROVE Safe(s)'
  <2>1. n > lastSeq[t] /\ g.last = n
    <3>1. g # f
      BY <1>3
    <3> QED BY <1>6, <3>1
  <2>2. n <= wiped /\ (Single => rows = {})
    BY <1>1, <1>4, <1>19 DEF Swept
  <2>3. s \in Nat /\ s <= wiped /\ s <= g.last
    BY <1>3, <2>1, <2>2
  <2>4. Single
    BY <1>3, <1>19, <2>1, <2>2 DEF Sole
  <2>5. rows' = {} /\ wiped' = wiped
    BY <2>2, <2>4 DEF disk
  <2>6. ASSUME NEW u \in Tabs, NEW i \in TasksOf(u, "apply")' PROVE queue'[u][i].arg > s
    <3>1. u = t
      BY <2>4 DEF Single
    <3>2. i \in TasksOf(t, "apply")' /\ queue'[t][i].kind = "apply"
      BY <3>1 DEF TasksOf
    <3>3. i \in (Len(queue[t]) + 1)..Len(queue'[t])
      BY <1>1, <1>2, <1>16, <1>18, <1>19, <3>2, GrownTasks
    <3>4. queue'[t][i].arg \in Nat /\ queue'[t][i].arg > g.last
      BY <1>16, <3>2, <3>3
    <3> QED BY <1>7, <2>3, <3>1, <3>4
  <2> QED BY <2>3, <2>5, <2>6 DEF Safe, Folded
<1>20. Lagging' = Lagging /\ skipped[t] \subseteq skipped'[t] /\ UNCHANGED <<boot, disk, blocked, wiped>>
  BY DEF gone, Lagging
<1> QED
  BY <1>5, <1>6, <1>9, <1>12, <1>15, <1>17, <1>18, <1>19, <1>20, FlowCache

LEMMA RefetchedCache ==
    ASSUME CacheInv, ViewInv', NEW t \in Tabs, NEW k \in Slots, Refetched(t, k)
    PROVE  CacheInv'
<1> DEFINE f == [Flow(t) EXCEPT !.seen = @ \cup 1..ops[t][k].at]
<1>1. TypeOK
  BY CacheGives
<1>2. \A u \in Tabs \ {t} : UNCHANGED Local(u)
  BY <1>1, RefetchedLocal
<1>3. f \in FlowType1 /\ f.last = lastSeq[t] /\ f.queue = queue[t]
  <2>1. ops[t][k] \in Op
    BY <1>1, LocalTypes
  <2>2. 1..ops[t][k].at \subseteq Seqs
    BY <2>1, NumberTypes DEF Op, Seqs, Seqs0
  <2> QED BY <1>1, <2>2, FlowTypes DEF Flow, TypeOK, FlowType1
<1>4. /\ \/ Abandoned(t, k) /\ OpEnds(t, k) /\ UNCHANGED <<flow, failed>>
         \/ ~Abandoned(t, k) /\ Round(t, k, f, resyncHead[t])
         \/ /\ ~Abandoned(t, k) /\ ops[t][k].target = resyncHead[t]
            /\ FlowBecomes(t, ApplyEach(AdvanceTo(f, resyncHead[t]), buffer[t]))
            /\ OpEnds(t, k) /\ UNCHANGED failed
      /\ ops[t][k].st = "fetch"
      /\ UNCHANGED <<running, boot, disk, blocked, wiped, gone>>
  BY DEF Refetched, Superseded, shell
<1> HIDE DEF f
<1>5. CASE Abandoned(t, k) /\ OpEnds(t, k) /\ UNCHANGED <<flow, failed>>
  <2>1. UNCHANGED <<queue, lastSeq, running, failed, blocked, boot, rows, cursor, wiped, gone>>
    BY <1>4, <1>5 DEF flow, disk
  <2> QED BY <1>2, <1>4, <1>5, <2>1, AbandonedCache
<1>6. CASE ~Abandoned(t, k) /\ Round(t, k, f, resyncHead[t])
  BY <1>2, <1>3, <1>4, <1>6, NextRoundCache
<1>7. CASE /\ ~Abandoned(t, k) /\ ops[t][k].target = resyncHead[t]
           /\ FlowBecomes(t, ApplyEach(AdvanceTo(f, resyncHead[t]), buffer[t]))
           /\ OpEnds(t, k) /\ UNCHANGED failed
  <2>1. UNCHANGED <<running, boot, disk, failed, blocked, wiped, gone>>
    BY <1>4, <1>7
  <2> QED BY <1>2, <1>3, <1>4, <1>7, <2>1, SnapshotCache
<1> QED
  BY <1>4, <1>5, <1>6, <1>7

\* Only the first task of a queue has ever begun.
LEMMA NoneBegun ==
    ASSUME TypeOK, NEW t \in Tabs, Carried(t, 1), TaskShape(t)
    PROVE  /\ \A i \in 1..Len(queue'[t]) : queue'[t][i].step = "start"
           /\ VouPut(t)'
           /\ \A i \in TasksOf(t, "reset")' : queue'[t][i].step # "cleared"
<1>1. Len(queue[t]) \in Nat /\ Len(queue'[t]) = Len(queue[t]) - 1
  BY QueueLen DEF Carried
<1>2. ASSUME NEW i \in 1..Len(queue'[t]) PROVE queue'[t][i].step = "start"
  <2>1. i + 1 \in 2..Len(queue[t]) /\ queue'[t][i].step = queue[t][i + 1].step
    BY <1>1 DEF Carried
  <2> QED BY <2>1 DEF TaskShape
<1> QED
  BY <1>2 DEF VouPut, TasksOf

\* A step of the queue that leaves the engine and the seeds alone: the cursor may
\* become what a task has promised.
LEMMA DoneCache ==
    ASSUME CacheInv, ViewInv', NEW t \in Tabs, NEW d, Carried(t, d),
           UNCHANGED <<lastSeq, running, failed, boot, ops, wiped, gone>>,
           \/ cursor' = cursor
           \/ /\ 1 \in 1..Len(queue[t]) /\ queue[t][1].kind = "cursor"
              /\ queue[t][1].step = "put" /\ cursor' = queue[t][1].arg,
           \A u \in Tabs \ {t} : UNCHANGED Local(u),
           rows \subseteq rows',
           \A r \in rows' : r \in rows \/ \E i \in TasksOf(t, "apply") : queue[t][i].arg = r,
           \A s : d = 1 /\ queue[t][1].kind = "apply" /\ queue[t][1].arg = s =>
              s \in rows' \/ (0 < blocked'[t] /\ blocked'[t] <= s) \/ Failing(t),
           0 < blocked[t] => 0 < blocked'[t] /\ blocked'[t] <= blocked[t],
           ~Lagging /\ Sole => VouPut(t)',
           ~Lagging => Swept(t)'
    PROVE  CacheInv'
<1>1. /\ TypeOK /\ ViewParts(t) /\ TaskShape(t)
      /\ ~Lagging => ResetLast(t) /\ Ready(t) /\ Behind(t) /\ Swept(t)
      /\ ~Lagging /\ Sole => Vouched(t) /\ \A s \in 1..cursor : Safe(s)
  BY CacheGives
<1>2. TypeOK'
  BY ViewInvPartsNext
<1>3. /\ ops' = ops /\ boot' = boot /\ skipped' = skipped /\ Lagging' = Lagging /\ lastSeq' = lastSeq
      /\ wiped' = wiped /\ Runs(t)' = Runs(t) /\ Failing(t)' = Failing(t)
      /\ CurrentOps(t)' = CurrentOps(t) /\ Sole' = Sole
  BY DEF gone, Lagging, Runs, Failing, CurrentOps, Sole, Single
<1>31. \/ cursor' = cursor
       \/ 1 \in TasksOf(t, "cursor") /\ queue[t][1].step = "put" /\ cursor' = queue[t][1].arg
  BY DEF TasksOf
<1>4. TaskShape(t)'
  <2>1. \A i \in TasksOf(t, "reset") : i > d => ops'[t][queue[t][i].arg].st = "reset"
    BY <1>1, <1>3 DEF TaskShape
  <2>2. \A i \in TasksOf(t, "seed") : i > d => boot'[t][queue[t][i].arg].st = "queued"
    BY <1>1, <1>3 DEF TaskShape
  <2> QED BY <1>1, <2>1, <2>2, ShapeCarried
<1>5. ASSUME ~Lagging PROVE Calm(t)'
  <2>1. ResetLast(t) /\ Ready(t) /\ Behind(t)
    BY <1>1, <1>5
  <2>2. ResetLast(t)'
    <3>1. \A i \in TasksOf(t, "reset") : i > d /\ Runs(t)' => ops'[t][queue[t][i].arg].cur
      BY <1>3, <2>1 DEF ResetLast, Runs
    <3>2. \A k \in CurrentOps(t)' : ops'[t][k].st # "reset" => TasksOf(t, "apply") = {}
      BY <1>3, <2>1 DEF ResetLast
    <3>3. Failing(t)' => TasksOf(t, "apply") = {}
      BY <1>3, <2>1 DEF ResetLast, Failing
    <3>4. Failing(t)' /\ Runs(t)' => \E k \in CurrentOps(t)' : ops'[t][k].st = "sleep"
      BY <1>3, <2>1 DEF ResetLast, Failing, Runs
    <3> QED BY <1>1, <2>1, <3>1, <3>2, <3>3, <3>4, ResetLastCarried
  <2>3. Ready(t)'
    <3> SUFFICES ASSUME NEW k \in Slots, boot'[t][k].cur, ~Runs(t)'
                 PROVE  /\ boot[t][k].cur /\ ~Runs(t)
                        /\ boot'[t][k].st = "read" =>
                              ~Failing(t)' /\ \A i \in 1..Len(queue[t]) : i > d => i \in TasksOf(t, "seed")
      BY <1>1, <2>1, ReadyCarried
    <3>1. boot[t][k].cur /\ ~Runs(t) /\ boot'[t][k].st = boot[t][k].st
      BY <1>3
    <3>2. boot[t][k].st = "read" => ~Failing(t) /\ 1..Len(queue[t]) \subseteq TasksOf(t, "seed")
      BY <2>1, <3>1 DEF Ready, Runs, Failing
    <3> QED BY <1>3, <3>1, <3>2
  <2>4. Behind(t)'
    <3>1. Runs(t)' => Runs(t) /\ lastSeq[t] <= lastSeq'[t]
      BY <1>1, <1>3, LocalNumbers
    <3>2. Single /\ Runs(t)' => cursor' <= lastSeq'[t]
      BY <1>3, <1>31, <2>1 DEF Behind, Runs
    <3>3. ASSUME NEW k \in Slots, Single, boot'[t][k].cur, ~Runs(t)', boot'[t][k].st = "read"
          PROVE  boot'[t][k].read = cursor'
      <4>1. boot[t][k].cur /\ ~Runs(t) /\ boot[t][k].st = "read"
        BY <1>3, <3>3
      <4>2. boot[t][k].read = cursor /\ 1..Len(queue[t]) \subseteq TasksOf(t, "seed")
        BY <2>1, <3>3, <4>1 DEF Behind, Ready, Runs
      <4>3. cursor' = cursor
        BY <4>2 DEF TasksOf
      <4> QED BY <1>3, <4>2, <4>3
    <3> QED BY <1>1, <1>2, <2>1, <3>1, <3>2, <3>3, BehindCarried
  <2> QED BY <1>5, <2>2, <2>3, <2>4 DEF Calm
<1>6. \A s : Safe(s) => Safe(s)'
  <2>1. \A u \in Tabs \ {t} : queue'[u] = queue[u] /\ skipped'[u] = skipped[u]
    BY DEF Local
  <2>2. skipped[t] \subseteq skipped'[t] /\ wiped' = wiped
    BY <1>3
  <2> QED BY <1>1, <2>1, <2>2, SafeCarried
<1>7. ASSUME ~Lagging, Sole PROVE Vouched(t)' /\ \A s \in 1..cursor' : Safe(s)'
  <2>1. VouTask(t) /\ VouLast(t) /\ VouRead(t) /\ \A s \in 1..cursor : Safe(s)
    BY <1>1, <1>7, VouchedParts
  <2>2. \A s : d = 1 /\ queue[t][1].kind = "apply" /\ queue[t][1].arg = s =>
              Safe(s)' \/ (0 < blocked'[t] /\ blocked'[t] <= s)
    <3> SUFFICES ASSUME NEW s, d = 1, queue[t][1].kind = "apply", queue[t][1].arg = s,
                        ~(0 < blocked'[t] /\ blocked'[t] <= s)
                 PROVE  Safe(s)'
      OBVIOUS
    <3>1. 1 \in TasksOf(t, "apply")
      <4>1. Len(queue[t]) \in Nat /\ 1 <= Len(queue[t])
        BY <1>1, QueueLen DEF Carried
      <4> QED BY <4>1 DEF TasksOf
    <3>2. ~Failing(t)
      BY <1>1, <1>7, <3>1 DEF ResetLast, Failing
    <3>3. s \in rows'
      BY <3>2
    <3> QED BY <3>3 DEF Safe, Folded
  <2>3. PubQueue(t) /\ PubSeq(t)
    BY <1>1 DEF ViewParts
  <2>4. \A s \in 1..head : Safe(s) => Safe(s)'
    BY <1>6
  <2>5. VouTask(t)'
    BY <1>1, <1>2, <2>1, <2>2, <2>3, <2>4, VouTaskCarried
  <2>6. VouLast(t)'
    <3>1. Runs(t)' => Runs(t) /\ lastSeq'[t] = lastSeq[t]
      BY <1>3
    <3> QED BY <1>1, <1>2, <2>1, <2>2, <2>3, <2>4, <3>1, VouLastCarried
  <2>7. VouRead(t)'
    BY <1>3, <1>6, <2>1 DEF VouRead
  <2>8. VouPut(t)'
    BY <1>7
  <2>9. \A s \in 1..cursor' : Safe(s)'
    <3>1. CASE cursor' = cursor
      BY <1>6, <2>1, <3>1
    <3>2. CASE 1 \in TasksOf(t, "cursor") /\ queue[t][1].step = "put" /\ cursor' = queue[t][1].arg
      <4> SUFFICES ASSUME NEW s \in 1..queue[t][1].arg PROVE Safe(s)
        BY <1>6, <3>2
      <4>1. Covered(t, s, 1)
        BY <2>1, <3>2 DEF VouTask
      <4>2. blocked[t] = 0 \/ queue[t][1].arg < blocked[t]
        BY <1>1, <1>7, <3>2, VouchedParts DEF VouPut
      <4>3. blocked[t] \in Nat /\ queue[t][1].arg \in Nat
        BY <1>1, <2>3, <3>2, LocalNumbers, TaskArg
      <4>4. ~(0 < blocked[t] /\ blocked[t] <= s)
        BY <4>2, <4>3
      <4>5. \A i \in TasksOf(t, "apply") : ~(i < 1)
        <5>1. Len(queue[t]) \in Nat
          BY <1>1, QueueLen
        <5> QED BY <5>1 DEF TasksOf
      <4> QED BY <4>1, <4>4, <4>5 DEF Covered, Safe
    <3> QED BY <1>31, <3>1, <3>2
  <2> QED BY <2>5, <2>6, <2>7, <2>8, <2>9, VouchedParts
<1>8. wiped <= wiped' /\ skipped[t] \subseteq skipped'[t]
  BY <1>1, <1>3, LocalNumbers
<1> QED
  BY <1>3, <1>4, <1>5, <1>7, <1>8, CacheKept

\* An event's transaction is through, or it is not.
LEMMA ApplyCache ==
    ASSUME CacheInv, ViewInv', NEW t \in Tabs, ApplyRuns(t) \/ ApplyFails(t)
    PROVE  CacheInv'
<1>1. /\ TypeOK /\ TaskShape(t) /\ ViewParts(t)
      /\ ~Lagging => ResetLast(t) /\ Ready(t) /\ Behind(t) /\ Swept(t)
  BY CacheGives
<1>2. \A u \in Tabs \ {t} : UNCHANGED Local(u)
  BY <1>1, ApplyRunsLocal, ApplyFailsLocal
<1>3. /\ queue[t] # <<>> /\ queue[t][1].kind = "apply" /\ TaskEnds(t)
      /\ UNCHANGED <<lastSeq, running, failed, boot, ops, cursor, wiped, gone>>
      /\ \/ failed[t] /\ UNCHANGED <<rows, blocked>>
         \/ Block(t, Arg(t)) /\ UNCHANGED rows
         \/ rows' = rows \cup {Arg(t)} /\ UNCHANGED blocked
  BY DEF ApplyRuns, ApplyFails, HeadIs, shell, engine, disk
<1>4. Carried(t, 1) /\ 1 \in 1..Len(queue[t])
  BY <1>1, <1>3, CarriedTail
<1>5. 1 \in TasksOf(t, "apply") /\ Arg(t) = queue[t][1].arg /\ Arg(t) \in Nat \ {0}
  <2>1. queue[t][1] \in Task
    BY <1>1, <1>4, QueueLen
  <2>2. Arg(t) \in Seqs
    BY <1>3, <2>1, TaskKinds DEF Arg
  <2> QED BY <1>3, <1>4, <2>2, MaxSeqAssumption DEF TasksOf, Arg, Seqs
<1>6. blocked[t] \in Nat
  BY <1>1, LocalNumbers
<1>7. ASSUME Block(t, Arg(t))
      PROVE  /\ 0 < blocked'[t] /\ blocked'[t] <= Arg(t)
             /\ 0 < blocked[t] => blocked'[t] <= blocked[t]
  <2>1. blocked'[t] = IF blocked[t] = 0 THEN Arg(t) ELSE Min({blocked[t], Arg(t)})
    BY <1>1, <1>7 DEF Block, TypeOK, CacheType
  <2>2. Min({blocked[t], Arg(t)}) = IF blocked[t] <= Arg(t) THEN blocked[t] ELSE Arg(t)
    BY <1>5, <1>6, MaxMinPair
  <2> HIDE DEF Arg
  <2> QED BY <1>5, <1>6, <2>1, <2>2
<1>8. /\ rows \subseteq rows'
      /\ \A r \in rows' : r \in rows \/ \E i \in TasksOf(t, "apply") : queue[t][i].arg = r
  BY <1>3, <1>5
<1>9. \A s : 1 = 1 /\ queue[t][1].kind = "apply" /\ queue[t][1].arg = s =>
              s \in rows' \/ (0 < blocked'[t] /\ blocked'[t] <= s) \/ Failing(t)
  BY <1>3, <1>5, <1>7 DEF Failing
<1>10. 0 < blocked[t] => 0 < blocked'[t] /\ blocked'[t] <= blocked[t]
  BY <1>3, <1>6, <1>7
<1>11. VouPut(t)' /\ \A i \in TasksOf(t, "reset")' : queue'[t][i].step # "cleared"
  BY <1>1, <1>4, NoneBegun
<1>12. ~Lagging => Swept(t)'
  <2> SUFFICES ASSUME ~Lagging PROVE Swept(t)'
    OBVIOUS
  <2>1. \A k \in CurrentOps(t) : ops[t][k].st = "reset"
    BY <1>1, <1>5 DEF ResetLast
  <2>2. \A k \in CurrentOps(t)' : ops'[t][k].st # "fetch"
    BY <1>3, <2>1 DEF CurrentOps
  <2> QED BY <1>11, <2>2, SweptNothing
<1> QED
  BY <1>2, <1>3, <1>4, <1>8, <1>9, <1>10, <1>11, <1>12, DoneCache

LEMMA SweptDone ==
    ASSUME TypeOK, TypeOK', NEW t \in Tabs, NEW d, Carried(t, d), Swept(t),
           UNCHANGED <<lastSeq, running, ops, rows, wiped, gone>>,
           d = 1 \/ queue[t][1].kind # "reset"
    PROVE  Swept(t)'
<1>1. ASSUME NEW i \in TasksOf(t, "reset"), i > d
      PROVE  queue'[t][i - d].step = queue[t][i].step
  <2>1. /\ Len(queue[t]) \in Nat /\ d \in {0, 1} /\ Len(queue'[t]) = Len(queue[t]) - d
        /\ i \in 1..Len(queue[t]) /\ queue[t][i].kind = "reset"
    BY QueueLen DEF Carried, TasksOf
  <2>2. i - d \in 1..Len(queue'[t]) /\ (i - d) + d = i
    BY <1>1, <2>1
  <2>3. d = 1 \/ i - d >= 2
    BY <2>1
  <2> QED BY <2>2, <2>3 DEF Carried
<1>2. \A k \in CurrentOps(t)' : k \in CurrentOps(t)
  BY DEF CurrentOps
<1>3. \A s : Excused(s) => Excused(s)'
  BY DEF Excused, gone
<1>4. Runs(t)' => Runs(t) /\ lastSeq'[t] = lastSeq[t]
  BY DEF Runs
<1> QED
  BY <1>1, <1>2, <1>3, <1>4, SweptCarried

\* The cursor is read, and refused or not; or it is written.
LEMMA CursorCache ==
    ASSUME CacheInv, ViewInv', NEW t \in Tabs, CursorReads(t) \/ CursorPuts(t) \/ CursorFails(t)
    PROVE  CacheInv'
<1>1. /\ TypeOK /\ TaskShape(t)
      /\ ~Lagging => ResetLast(t) /\ Ready(t) /\ Behind(t) /\ Swept(t)
  BY CacheGives
<1>2. TypeOK'
  BY ViewInvPartsNext
<1>3. \A u \in Tabs \ {t} : UNCHANGED Local(u)
  BY <1>1, CursorReadsLocal, CursorPutsLocal, CursorFailsLocal
<1>4. /\ queue[t] # <<>> /\ queue[t][1].kind = "cursor" /\ queue[t][1].kind # "apply"
      /\ UNCHANGED <<lastSeq, running, failed, blocked, boot, ops, rows, wiped, gone>>
  BY DEF CursorReads, CursorPuts, CursorFails, HeadIs, shell, engine, disk, cache
<1>5. blocked' = blocked /\ (0 < blocked[t] => 0 < blocked'[t] /\ blocked'[t] <= blocked[t])
  BY <1>1, <1>4, LocalNumbers
<1>6. queue[t] \in Seq(Task) /\ 1 \in 1..Len(queue[t]) /\ queue[t][1] \in Task
  BY <1>1, <1>4, LocalTypes
<1>7. CASE TaskEnds(t) /\ (cursor' = cursor \/ (queue[t][1].step = "put" /\ cursor' = queue[t][1].arg))
  <2>1. Carried(t, 1)
    BY <1>1, <1>4, <1>7, CarriedTail
  <2>2. VouPut(t)'
    BY <1>1, <2>1, NoneBegun
  <2>3. ~Lagging => Swept(t)'
    BY <1>1, <1>2, <1>4, <2>1, SweptDone
  <2>4. \A s : 1 = 1 /\ queue[t][1].kind = "apply" /\ queue[t][1].arg = s =>
              s \in rows' \/ (0 < blocked'[t] /\ blocked'[t] <= s) \/ Failing(t)
    BY <1>4
  <2>5. \/ cursor' = cursor
        \/ /\ 1 \in 1..Len(queue[t]) /\ queue[t][1].kind = "cursor"
           /\ queue[t][1].step = "put" /\ cursor' = queue[t][1].arg
    BY <1>4, <1>6, <1>7
  <2>6. rows \subseteq rows' /\ \A r \in rows' : r \in rows
    BY <1>4
  <2> QED BY <1>3, <1>4, <1>5, <2>1, <2>2, <2>3, <2>4, <2>5, <2>6, DoneCache
<1>8. CASE TaskMoves(t, "put") /\ cursor' = cursor /\ ~Withheld(t, Arg(t))
  <2>1. [queue[t][1] EXCEPT !.step = "put"] \in Task
    BY <1>4, <1>6 DEF Task
  <2>2. Carried(t, 0) /\ queue'[t][1].step = "put"
    BY <1>1, <1>4, <1>8, <2>1, CarriedMove
  <2>3. VouPut(t)'
    <3> SUFFICES ASSUME NEW j \in TasksOf(t, "cursor")', queue'[t][j].step = "put"
                 PROVE  blocked[t] = 0 \/ queue'[t][j].arg < blocked[t]
      BY <1>4 DEF VouPut
    <3>1. /\ j \in Nat \ {0} /\ j + 0 \in TasksOf(t, "cursor")
          /\ queue'[t][j].arg = queue[t][j + 0].arg
      BY <1>1, <2>2, CarriedTasks
    <3>2. j = 1
      <4> SUFFICES ASSUME j # 1 PROVE FALSE
        OBVIOUS
      <4>1. j >= 2 /\ j + 0 = j /\ j \in 1..Len(queue'[t]) /\ Len(queue[t]) \in Nat
            /\ Len(queue'[t]) = Len(queue[t])
        BY <1>1, <2>2, <3>1, QueueLen DEF TasksOf, Carried
      <4>2. queue'[t][j].step = queue[t][j + 0].step
        BY <2>2, <4>1 DEF Carried
      <4>3. j \in 2..Len(queue[t])
        BY <4>1
      <4> QED BY <1>1, <4>1, <4>2, <4>3 DEF TaskShape
    <3>3. queue'[t][1].arg = Arg(t)
      BY <3>1, <3>2 DEF Arg
    <3>4. blocked[t] \in Nat /\ Arg(t) \in Nat
      BY <1>1, <1>4, <1>6, LocalNumbers, TaskKinds, NumberTypes DEF Arg
    <3> HIDE DEF Arg
    <3> QED BY <1>8, <3>2, <3>3, <3>4 DEF Withheld
  <2>4. ~Lagging => Swept(t)'
    BY <1>1, <1>2, <1>4, <2>2, SweptDone
  <2>5. \A s : 0 = 1 /\ queue[t][1].kind = "apply" /\ queue[t][1].arg = s =>
              s \in rows' \/ (0 < blocked'[t] /\ blocked'[t] <= s) \/ Failing(t)
    BY <1>4
  <2>6. rows \subseteq rows' /\ \A r \in rows' : r \in rows
    BY <1>4
  <2> QED BY <1>3, <1>4, <1>5, <1>8, <2>2, <2>3, <2>4, <2>5, <2>6, DoneCache
<1>9. \/ TaskEnds(t) /\ (cursor' = cursor \/ (queue[t][1].step = "put" /\ cursor' = queue[t][1].arg))
      \/ TaskMoves(t, "put") /\ cursor' = cursor /\ ~Withheld(t, Arg(t))
  <2>1. CASE CursorReads(t)
    <3>1. cursor' = cursor
      BY <2>1 DEF CursorReads, disk
    <3>2. TaskEnds(t) \/ (TaskMoves(t, "put") /\ ~Withheld(t, Arg(t)))
      BY <2>1 DEF CursorReads
    <3> QED BY <3>1, <3>2
  <2>2. CASE CursorPuts(t)
    <3>1. TaskEnds(t) /\ queue[t][1].step = "put"
      BY <2>2 DEF CursorPuts, HeadIs
    <3>2. cursor' = cursor \/ cursor' = queue[t][1].arg
      BY <2>2 DEF CursorPuts, Arg
    <3> QED BY <3>1, <3>2
  <2>3. CASE CursorFails(t)
    <3>1. TaskEnds(t) /\ cursor' = cursor
      BY <2>3 DEF CursorFails, disk
    <3> QED BY <3>1
  <2> QED BY <2>1, <2>2, <2>3
<1> QED
  BY <1>7, <1>8, <1>9

\* A first task that goes on, and is no cursor, leaves no cursor in its write.
LEMMA NoPut ==
    ASSUME TypeOK, NEW t \in Tabs, Carried(t, 0), TaskShape(t), queue[t][1].kind # "cursor"
    PROVE  VouPut(t)'
<1> SUFFICES ASSUME NEW j \in TasksOf(t, "cursor")', queue'[t][j].step = "put" PROVE FALSE
  BY DEF VouPut
<1>1. Len(queue[t]) \in Nat /\ Len(queue'[t]) = Len(queue[t])
  BY QueueLen DEF Carried
<1>2. j \in 1..Len(queue'[t]) /\ queue'[t][j].kind = "cursor" /\ j + 0 = j
  BY <1>1 DEF TasksOf
<1>3. queue[t][j].kind = "cursor" /\ (j >= 2 => queue'[t][j].step = queue[t][j].step)
  BY <1>2 DEF Carried
<1>4. j \in 2..Len(queue[t])
  <2>1. j # 1
    BY <1>3
  <2> QED BY <1>1, <1>2, <2>1
<1>5. queue[t][j].step = "start" /\ queue'[t][j].step = queue[t][j].step
  BY <1>1, <1>3, <1>4 DEF TaskShape
<1> QED
  BY <1>5

\* The rows cannot be cleared: the cursor goes, and nothing else.
LEMMA ResetDirtyCache ==
    ASSUME CacheInv, ViewInv', NEW t \in Tabs, HeadIs(t, "reset", "start"), TaskMoves(t, "dirty"),
           UNCHANGED <<disk, shell, engine, cache, lastSeq, wiped, gone>>,
           \A u \in Tabs \ {t} : UNCHANGED Local(u)
    PROVE  CacheInv'
<1>1. /\ TypeOK /\ TaskShape(t)
      /\ ~Lagging => ResetLast(t) /\ Ready(t) /\ Behind(t) /\ Swept(t)
  BY CacheGives
<1>2. TypeOK'
  BY ViewInvPartsNext
<1>3. /\ queue[t] # <<>> /\ queue[t][1].kind = "reset"
      /\ UNCHANGED <<lastSeq, running, failed, blocked, boot, ops, rows, cursor, wiped, gone>>
  BY DEF HeadIs, disk, shell, engine, cache
<1>4. queue[t] \in Seq(Task) /\ queue[t][1] \in Task
  <2>1. queue[t] \in Seq(Task)
    BY <1>1, LocalTypes
  <2> QED BY <1>3, <2>1
<1>5. [queue[t][1] EXCEPT !.step = "dirty"] \in Task
  BY <1>3, <1>4 DEF Task
<1>6. Carried(t, 0) /\ queue'[t][1].step = "dirty"
  BY <1>1, <1>3, <1>5, CarriedMove
<1>7. VouPut(t)'
  BY <1>1, <1>3, <1>6, NoPut
<1>8. ASSUME ~Lagging PROVE Swept(t)'
  <2>1. ASSUME NEW i \in TasksOf(t, "reset"), i > 0, queue'[t][i - 0].step = "cleared"
        PROVE  queue[t][i].step = "cleared"
    <3>1. /\ i \in 1..Len(queue[t]) /\ Len(queue[t]) \in Nat /\ Len(queue'[t]) = Len(queue[t])
          /\ i - 0 = i /\ i + 0 = i
      BY <1>1, <1>6, QueueLen DEF TasksOf, Carried
    <3>2. i # 1
      BY <1>6, <2>1, <3>1
    <3>3. i >= 2 /\ i \in 1..Len(queue'[t])
      BY <3>1, <3>2
    <3>4. queue'[t][i].step = queue[t][i + 0].step
      BY <1>6, <3>3 DEF Carried
    <3> QED BY <2>1, <3>1, <3>4
  <2>2. \A k \in CurrentOps(t)' : k \in CurrentOps(t)
    BY <1>3 DEF CurrentOps
  <2>3. \A s : Excused(s) => Excused(s)'
    BY <1>3 DEF Excused, gone
  <2>4. Runs(t)' => Runs(t) /\ lastSeq'[t] = lastSeq[t]
    BY <1>3 DEF Runs
  <2> QED BY <1>1, <1>2, <1>3, <1>6, <1>8, <2>1, <2>2, <2>3, <2>4, SweptCarried
<1>9. /\ rows \subseteq rows' /\ \A r \in rows' : r \in rows
      /\ 0 < blocked[t] => 0 < blocked'[t] /\ blocked'[t] <= blocked[t]
  BY <1>1, <1>3, LocalNumbers
<1>10. \A s : 0 = 1 /\ queue[t][1].kind = "apply" /\ queue[t][1].arg = s =>
              s \in rows' \/ (0 < blocked'[t] /\ blocked'[t] <= s) \/ Failing(t)
  BY <1>3
<1> QED
  BY <1>3, <1>6, <1>7, <1>8, <1>9, <1>10, DoneCache

\* The rows are cleared: whatever the tab knows of is gone with everything older.
LEMMA ResetClearedCache ==
    ASSUME CacheInv, ViewInv', NEW t \in Tabs, HeadIs(t, "reset", "start"), TaskMoves(t, "cleared"),
           rows' = {}, wiped' = head,
           UNCHANGED <<cursor, shell, engine, cache, lastSeq, gone>>,
           \A u \in Tabs \ {t} : UNCHANGED Local(u)
    PROVE  CacheInv'
<1>1. /\ TypeOK /\ ViewParts(t) /\ TaskShape(t)
      /\ ~Lagging => ResetLast(t) /\ Ready(t) /\ Behind(t) /\ Swept(t)
  BY CacheGives
<1>2. TypeOK' /\ cursor <= head /\ wiped <= head
  BY ViewInvPartsNext, ViewInvParts DEF CacheInv
<1>3. /\ queue[t] # <<>> /\ queue[t][1].kind = "reset"
      /\ UNCHANGED <<lastSeq, running, failed, blocked, boot, ops, cursor, gone>>
  BY DEF HeadIs, shell, engine, cache
<1>4. queue[t] \in Seq(Task) /\ queue[t][1] \in Task
  <2>1. queue[t] \in Seq(Task)
    BY <1>1, LocalTypes
  <2> QED BY <1>3, <2>1
<1>5. [queue[t][1] EXCEPT !.step = "cleared"] \in Task
  BY <1>3, <1>4 DEF Task
<1>6. Carried(t, 0) /\ 1 \in TasksOf(t, "reset")
  BY <1>1, <1>3, <1>5, CarriedMove DEF TasksOf
<1>7. /\ ops' = ops /\ boot' = boot /\ skipped' = skipped /\ Lagging' = Lagging /\ lastSeq' = lastSeq
      /\ Runs(t)' = Runs(t) /\ Failing(t)' = Failing(t) /\ CurrentOps(t)' = CurrentOps(t)
  BY <1>3 DEF gone, Lagging, Runs, Failing, CurrentOps
<1>8. TaskShape(t)'
  BY <1>1, <1>6, <1>7, ShapeCarried DEF TaskShape
<1>9. head \in Nat /\ lastSeq[t] \in Nat /\ lastSeq[t] <= head /\ cursor \in Nat
      /\ \A k \in Slots : /\ ops[t][k].target <= head
                          /\ boot[t][k].read \in Nat /\ boot[t][k].read <= head
  BY <1>1, LocalNumbers DEF ViewParts, PubSeq, PubOps, PubBoot
<1>10. ASSUME NEW j \in TasksOf(t, "cursor")', NEW s \in 1..queue'[t][j].arg
       PROVE  s \in 1..head
  <2>1. j + 0 \in TasksOf(t, "cursor") /\ queue'[t][j].arg = queue[t][j + 0].arg
    BY <1>1, <1>6, CarriedTasks
  <2>2. queue[t][j + 0].arg \in Nat /\ queue[t][j + 0].arg <= head
    BY <1>1, <2>1, TaskArg DEF ViewParts
  <2> QED BY <1>9, <2>1, <2>2
<1>11. \A s \in 1..lastSeq'[t] : s \in 1..head
  BY <1>7, <1>9
<1>12. ASSUME ~Lagging PROVE Calm(t)'
  <2>1. ResetLast(t) /\ Ready(t) /\ Behind(t)
    BY <1>1, <1>12
  <2>2. ResetLast(t)'
    <3>1. \A i \in TasksOf(t, "reset") : i > 0 /\ Runs(t)' => ops'[t][queue[t][i].arg].cur
      BY <1>7, <2>1 DEF ResetLast, Runs
    <3>2. \A k \in CurrentOps(t)' : ops'[t][k].st # "reset" => TasksOf(t, "apply") = {}
      BY <1>7, <2>1 DEF ResetLast
    <3>3. Failing(t)' => TasksOf(t, "apply") = {}
      BY <1>7, <2>1 DEF ResetLast, Failing
    <3>4. Failing(t)' /\ Runs(t)' => \E k \in CurrentOps(t)' : ops'[t][k].st = "sleep"
      BY <1>7, <2>1 DEF ResetLast, Failing, Runs
    <3> QED BY <1>1, <1>6, <2>1, <3>1, <3>2, <3>3, <3>4, ResetLastCarried
  <2>3. Ready(t)'
    <3> SUFFICES ASSUME NEW k \in Slots, boot'[t][k].cur, ~Runs(t)'
                 PROVE  /\ boot[t][k].cur /\ ~Runs(t)
                        /\ boot'[t][k].st = "read" =>
                              ~Failing(t)' /\ \A i \in 1..Len(queue[t]) : i > 0 => i \in TasksOf(t, "seed")
      BY <1>1, <1>6, <2>1, ReadyCarried
    <3>1. boot[t][k].cur /\ ~Runs(t) /\ boot'[t][k].st = boot[t][k].st
      BY <1>7
    <3>2. boot[t][k].st = "read" => ~Failing(t) /\ 1..Len(queue[t]) \subseteq TasksOf(t, "seed")
      BY <2>1, <3>1 DEF Ready, Runs, Failing
    <3> QED BY <1>7, <3>1, <3>2
  <2>4. Behind(t)'
    <3>1. Runs(t)' => Runs(t) /\ lastSeq[t] <= lastSeq'[t]
      BY <1>7, <1>9
    <3>2. Single /\ Runs(t)' => cursor' <= lastSeq'[t]
      BY <1>3, <1>7, <2>1 DEF Behind, Runs
    <3>3. \A k \in Slots : Single /\ boot'[t][k].cur /\ ~Runs(t)' /\ boot'[t][k].st = "read" =>
              boot'[t][k].read = cursor'
      BY <1>3, <1>7, <2>1 DEF Behind, Runs
    <3> QED BY <1>1, <1>2, <1>6, <2>1, <3>1, <3>2, <3>3, BehindCarried
  <2>5. Swept(t)'
    <3>1. ASSUME NEW i \in TasksOf(t, "reset")' PROVE ops'[t][queue'[t][i].arg].target <= wiped'
      <4>1. i + 0 \in TasksOf(t, "reset") /\ queue'[t][i].arg = queue[t][i + 0].arg
        BY <1>1, <1>6, CarriedTasks
      <4>2. queue[t][i + 0].arg \in Slots
        BY <1>1, <4>1, SlotArg
      <4> QED BY <1>7, <1>9, <4>1, <4>2
    <3>2. \A j \in TasksOf(t, "cursor")' : \A s \in 1..queue'[t][j].arg : s <= wiped'
      BY <1>9, <1>10
    <3>3. \A s \in 1..lastSeq'[t] : s <= wiped'
      BY <1>9, <1>11
    <3>4. \A k \in CurrentOps(t)' : ops'[t][k].target <= wiped'
      BY <1>7, <1>9 DEF CurrentOps
    <3> QED BY <3>1, <3>2, <3>3, <3>4 DEF Swept
  <2> QED BY <2>2, <2>3, <2>4, <2>5 DEF Calm
<1>13. ASSUME ~Lagging, Sole' PROVE Vouched(t)' /\ \A s \in 1..cursor' : Safe(s)'
  <2>1. TasksOf(t, "apply")' = {}
    <3>1. \A j \in TasksOf(t, "apply") : j < 1
      BY <1>1, <1>6, <1>13 DEF ResetLast
    <3>2. TasksOf(t, "apply") = {}
      <4>1. Len(queue[t]) \in Nat
        BY <1>1, QueueLen
      <4> QED BY <3>1, <4>1 DEF TasksOf
    <3> QED BY <1>1, <1>6, <3>2, CarriedTasks
  <2>2. ASSUME NEW s \in 1..head PROVE Safe(s)'
    <3>1. wiped' # 0 /\ s <= wiped'
      BY <1>9
    <3>2. Single
      BY <1>13, <3>1 DEF Sole, Single
    <3>3. \A u \in Tabs : TasksOf(u, "apply")' = {}
      BY <2>1, <3>2 DEF Single
    <3> QED BY <3>1, <3>3 DEF Safe, Folded
  <2>3. VouTask(t)'
    BY <1>10, <2>2 DEF VouTask, Covered, Safe
  <2>4. VouPut(t)'
    BY <1>1, <1>3, <1>6, NoPut
  <2>5. VouLast(t)'
    BY <1>11, <2>2 DEF VouLast, Covered, Safe
  <2>6. VouRead(t)'
    BY <1>7, <1>9, <2>2 DEF VouRead
  <2>7. \A s \in 1..cursor' : Safe(s)'
    BY <1>2, <1>3, <1>9, <2>2
  <2> QED BY <2>3, <2>4, <2>5, <2>6, <2>7, VouchedParts
<1>14. wiped <= wiped' /\ skipped[t] \subseteq skipped'[t]
  BY <1>2, <1>7
<1> QED
  BY <1>7, <1>8, <1>12, <1>13, <1>14, CacheKept

LEMMA ResetClearsCache ==
    ASSUME CacheInv, ViewInv', NEW t \in Tabs, ResetClears(t)
    PROVE  CacheInv'
<1>1. \A u \in Tabs \ {t} : UNCHANGED Local(u)
  BY CacheGives, ResetClearsLocal
<1>2. CASE TaskMoves(t, "cleared") /\ rows' = {} /\ wiped' = head
  BY <1>1, <1>2, ResetClearedCache DEF ResetClears
<1>3. CASE TaskMoves(t, "dirty") /\ UNCHANGED <<rows, wiped>>
  <2>1. HeadIs(t, "reset", "start") /\ UNCHANGED <<disk, shell, engine, cache, lastSeq, wiped, gone>>
    BY <1>3 DEF ResetClears, disk
  <2> QED BY <1>1, <1>3, <2>1, ResetDirtyCache
<1> QED
  BY <1>2, <1>3 DEF ResetClears

\* What a reset that ends leaves in the queue, and of the other operations.
LEMMA ResetGone ==
    ASSUME TypeOK, NEW t \in Tabs, NEW k, queue[t] # <<>>, queue[t][1].kind = "reset", k = queue[t][1].arg,
           TaskEnds(t), TaskShape(t), boot' = boot,
           \A l \in Slots \ {k} : ops'[t][l] = ops[t][l]
    PROVE  /\ Carried(t, 1) /\ 1 \in TasksOf(t, "reset") /\ k \in Slots /\ TaskShape(t)'
           /\ ops[t][k].st = "reset"
           /\ ResetLast(t) => /\ TasksOf(t, "apply") = {} /\ TasksOf(t, "apply")' = {}
                              /\ \A i \in TasksOf(t, "reset") : ~(i > 1)
                              /\ TasksOf(t, "reset")' = {}
                              /\ Runs(t) => ops[t][k].cur
<1>1. Carried(t, 1) /\ 1 \in TasksOf(t, "reset") /\ Len(queue[t]) \in Nat
  BY CarriedTail, QueueLen DEF TasksOf
<1>2. k \in Slots /\ ops[t][k].st = "reset"
  BY <1>1, SlotArg DEF TaskShape
<1>3. TaskShape(t)'
  <2>1. ASSUME NEW i \in TasksOf(t, "reset"), i > 1 PROVE ops'[t][queue[t][i].arg].st = "reset"
    <3>1. i # 1 /\ queue[t][i].arg # k
      BY <1>1, <2>1 DEF TaskShape
    <3>2. queue[t][i].arg \in Slots /\ ops[t][queue[t][i].arg].st = "reset"
      BY SlotArg DEF TaskShape
    <3> QED BY <3>1, <3>2
  <2>2. \A i \in TasksOf(t, "seed") : i > 1 => boot'[t][queue[t][i].arg].st = "queued"
    BY DEF TaskShape
  <2> QED BY <1>1, <2>1, <2>2, ShapeCarried
<1>4. ASSUME ResetLast(t)
      PROVE  /\ TasksOf(t, "apply") = {} /\ TasksOf(t, "apply")' = {}
             /\ \A i \in TasksOf(t, "reset") : ~(i > 1)
             /\ TasksOf(t, "reset")' = {}
             /\ Runs(t) => ops[t][k].cur
  <2>1. \A j \in TasksOf(t, "apply") : j < 1
    BY <1>1, <1>4 DEF ResetLast
  <2>2. TasksOf(t, "apply") = {}
    BY <2>1, <1>1 DEF TasksOf
  <2>3. \A i \in TasksOf(t, "reset") : i = 1
    BY <1>1, <1>4 DEF ResetLast
  <2>4. ASSUME NEW i \in TasksOf(t, "reset")' PROVE FALSE
    <3>1. i + 1 \in TasksOf(t, "reset") /\ i \in Nat \ {0}
      BY <1>1, CarriedTasks
    <3>2. i + 1 = 1
      BY <2>3, <3>1
    <3> QED BY <3>1, <3>2
  <2>5. TasksOf(t, "apply")' = {}
    BY <1>1, <2>2, CarriedTasks
  <2>6. Runs(t) => ops[t][k].cur
    BY <1>1, <1>4 DEF ResetLast, Runs
  <2> QED BY <2>2, <2>3, <2>4, <2>5, <2>6
<1> QED
  BY <1>1, <1>2, <1>3, <1>4

\* No start that counts has its cursor while a reset is in the queue.
LEMMA ReadyGone ==
    ASSUME TypeOK, NEW t \in Tabs, Carried(t, 1), 1 \in TasksOf(t, "reset"), Ready(t),
           boot' = boot, running' = running
    PROVE  /\ Ready(t)'
           /\ \A k \in Slots : boot[t][k].cur /\ ~Runs(t) => boot[t][k].st # "read"
<1>1. ASSUME NEW k \in Slots, boot[t][k].cur, ~Runs(t) PROVE boot[t][k].st # "read"
  <2>1. boot[t][k].st = "read" => 1..Len(queue[t]) \subseteq TasksOf(t, "seed")
    BY <1>1 DEF Ready, Runs
  <2> QED BY <2>1 DEF TasksOf
<1>2. Ready(t)'
  <2>1. \A k \in Slots : boot'[t][k].cur /\ ~Runs(t)' =>
           /\ boot[t][k].cur /\ ~Runs(t)
           /\ boot'[t][k].st = "read" =>
                 ~Failing(t)' /\ \A i \in 1..Len(queue[t]) : i > 1 => i \in TasksOf(t, "seed")
    BY <1>1 DEF Runs
  <2> QED BY <2>1, ReadyCarried
<1> QED
  BY <1>1, <1>2

\* The reset has failed: nothing is cached until a later one succeeds.
LEMMA ResetFailedCache ==
    ASSUME CacheInv, ViewInv', NEW t \in Tabs, NEW k, queue[t] # <<>>, queue[t][1].kind = "reset",
           k = queue[t][1].arg, TaskEnds(t), Rejects(t, k), cursor' = cursor \/ cursor' = 0,
           UNCHANGED <<blocked, rows, shell, running, lastSeq, wiped, gone>>,
           \A u \in Tabs \ {t} : UNCHANGED Local(u)
    PROVE  CacheInv'
<1>1. /\ TypeOK /\ ViewParts(t) /\ TaskShape(t)
      /\ ~Lagging => ResetLast(t) /\ Ready(t) /\ Behind(t) /\ Swept(t)
      /\ ~Lagging /\ Sole => Vouched(t) /\ \A s \in 1..cursor : Safe(s)
  BY CacheGives
<1>2. TypeOK'
  BY ViewInvPartsNext
<1>3. k \in Slots
  <2>1. 1 \in TasksOf(t, "reset")
    <3>1. 1 \in 1..Len(queue[t])
      BY <1>1, CarriedTail
    <3> QED BY <3>1 DEF TasksOf
  <2> QED BY <1>1, <2>1, SlotArg
<1>4. /\ \A l \in Slots \ {k} : ops'[t][l] = ops[t][l]
      /\ \/ ~ops[t][k].cur /\ ops'[t][k] = NoOp
         \/ ops[t][k].cur /\ ops'[t][k].cur /\ ops'[t][k].st = "sleep"
  BY <1>1, <1>3, RejectsFacts DEF TypeOK
<1>5. boot' = boot /\ skipped' = skipped /\ Lagging' = Lagging /\ Runs(t)' = Runs(t) /\ Sole' = Sole
  BY DEF shell, gone, Lagging, Runs, Sole, Single
<1>6. /\ Carried(t, 1) /\ 1 \in TasksOf(t, "reset") /\ TaskShape(t)' /\ ops[t][k].st = "reset"
      /\ ResetLast(t) => /\ TasksOf(t, "apply") = {} /\ TasksOf(t, "apply")' = {}
                         /\ \A i \in TasksOf(t, "reset") : ~(i > 1)
                         /\ TasksOf(t, "reset")' = {}
                         /\ Runs(t) => ops[t][k].cur
  BY <1>1, <1>4, <1>5, ResetGone
<1>7. lastSeq[t] \in Nat /\ cursor \in Nat /\ blocked[t] \in Nat /\ wiped \in Nat
  BY <1>1, LocalNumbers
<1>8. ASSUME ~Lagging PROVE Calm(t)'
  <2>1. ResetLast(t) /\ Ready(t) /\ Behind(t) /\ Swept(t)
    BY <1>1, <1>8
  <2>2. ResetLast(t)'
    <3>1. Runs(t)' => k \in CurrentOps(t)' /\ ops'[t][k].st = "sleep"
      BY <1>3, <1>4, <1>5, <1>6, <2>1 DEF CurrentOps
    <3> QED BY <1>6, <2>1, <3>1 DEF ResetLast, Runs
  <2>3. Ready(t)' /\ \A l \in Slots : boot[t][l].cur /\ ~Runs(t) => boot[t][l].st # "read"
    BY <1>1, <1>5, <1>6, <2>1, ReadyGone
  <2>4. Behind(t)'
    <3>1. Runs(t)' => Runs(t) /\ lastSeq[t] <= lastSeq'[t]
      BY <1>5, <1>7
    <3>2. Single /\ Runs(t) => cursor <= lastSeq[t]
      BY <2>1 DEF Behind, Runs
    <3>3. Single /\ Runs(t)' => cursor' <= lastSeq'[t]
      BY <1>5, <1>7, <3>2
    <3>4. \A l \in Slots : Single /\ boot'[t][l].cur /\ ~Runs(t)' /\ boot'[t][l].st = "read" =>
              boot'[t][l].read = cursor'
      BY <1>5, <2>3
    <3> QED BY <1>1, <1>2, <1>6, <2>1, <3>1, <3>3, <3>4, BehindCarried
  <2>5. Swept(t)'
    <3>1. ASSUME NEW l \in CurrentOps(t)', ops'[t][l].st = "fetch"
          PROVE  l \in CurrentOps(t) /\ ops[t][l].st = "fetch" /\ ops'[t][l].target = ops[t][l].target
      <4>1. l # k
        BY <1>4, <3>1 DEF CurrentOps, NoOp
      <4> QED BY <1>4, <3>1, <4>1 DEF CurrentOps
    <3>2. \A s : Excused(s) => Excused(s)'
      BY <1>5 DEF Excused
    <3>3. Runs(t)' => Runs(t) /\ lastSeq'[t] = lastSeq[t]
      BY <1>5
    <3> QED BY <1>1, <1>2, <1>6, <2>1, <3>1, <3>2, <3>3, SweptCarried
  <2> QED BY <2>2, <2>3, <2>4, <2>5 DEF Calm
<1>9. \A s : Safe(s) => Safe(s)'
  <2>1. \A u \in Tabs \ {t} : queue'[u] = queue[u] /\ skipped'[u] = skipped[u]
    BY DEF Local
  <2>2. skipped[t] \subseteq skipped'[t] /\ rows \subseteq rows' /\ \A r \in rows' : r \in rows
    BY <1>5
  <2> QED BY <1>1, <1>6, <2>1, <2>2, SafeCarried
<1>10. ASSUME ~Lagging, Sole PROVE Vouched(t)' /\ \A s \in 1..cursor' : Safe(s)'
  <2>1. VouTask(t) /\ VouLast(t) /\ VouRead(t) /\ \A s \in 1..cursor : Safe(s)
    BY <1>1, <1>10, VouchedParts
  <2>2. \A s : 1 = 1 /\ queue[t][1].kind = "apply" /\ queue[t][1].arg = s =>
              Safe(s)' \/ (0 < blocked'[t] /\ blocked'[t] <= s)
    OBVIOUS
  <2>3. PubQueue(t) /\ PubSeq(t)
    BY <1>1 DEF ViewParts
  <2>4. 0 < blocked[t] => 0 < blocked'[t] /\ blocked'[t] <= blocked[t]
    BY <1>7
  <2>5. VouTask(t)'
    BY <1>1, <1>2, <1>6, <1>9, <2>1, <2>2, <2>3, <2>4, VouTaskCarried
  <2>6. VouLast(t)'
    <3>1. Runs(t)' => Runs(t) /\ lastSeq'[t] = lastSeq[t]
      BY <1>5
    <3> QED BY <1>1, <1>2, <1>6, <1>9, <2>1, <2>2, <2>3, <2>4, <3>1, VouLastCarried
  <2>7. VouRead(t)'
    BY <1>5, <1>9, <2>1 DEF VouRead
  <2>8. VouPut(t)'
    BY <1>1, <1>6, NoneBegun
  <2>9. \A s \in 1..cursor' : Safe(s)'
    BY <1>7, <1>9, <2>1
  <2> QED BY <2>5, <2>6, <2>7, <2>8, <2>9, VouchedParts
<1>11. wiped <= wiped' /\ skipped[t] \subseteq skipped'[t] /\ rows \subseteq rows'
  BY <1>5, <1>7
<1> QED
  BY <1>5, <1>6, <1>8, <1>10, <1>11, CacheKept

\* The reset is through: what it has swept away needs no cursor task.
LEMMA ResetDoneCache ==
    ASSUME CacheInv, ViewInv', NEW t \in Tabs, NEW k, queue[t] # <<>>, queue[t][1].kind = "reset",
           queue[t][1].step = "cleared", k = queue[t][1].arg, TaskEnds(t), cursor' = 0,
           ops' = [ops EXCEPT ![t][k] = [@ EXCEPT !.st = "fetch", !.at = head]],
           UNCHANGED <<failed, rows, shell, running, lastSeq, wiped, gone>>,
           \A u \in Tabs \ {t} : UNCHANGED Local(u)
    PROVE  CacheInv'
<1>1. /\ TypeOK /\ ViewParts(t) /\ TaskShape(t)
      /\ ~Lagging => ResetLast(t) /\ Ready(t) /\ Behind(t) /\ Swept(t)
      /\ ~Lagging /\ Sole => Vouched(t) /\ \A s \in 1..cursor : Safe(s)
  BY CacheGives
<1>2. TypeOK'
  BY ViewInvPartsNext
<1>3. k \in Slots
  <2>1. 1 \in TasksOf(t, "reset")
    <3>1. 1 \in 1..Len(queue[t])
      BY <1>1, CarriedTail
    <3> QED BY <3>1 DEF TasksOf
  <2> QED BY <1>1, <2>1, SlotArg
<1>4. /\ \A l \in Slots \ {k} : ops'[t][l] = ops[t][l]
      /\ ops'[t][k].cur = ops[t][k].cur /\ ops'[t][k].st = "fetch"
      /\ ops'[t][k].target = ops[t][k].target
  <2>1. EngineType /\ head \in Seqs0
    BY <1>1, LocalTypes DEF TypeOK
  <2>2. ops' = [ops EXCEPT ![t][k] = [@ EXCEPT !.st = "fetch", !.at = head]]
    OBVIOUS
  <2> QED BY <1>3, <2>1, <2>2, FetchFacts
<1>5. /\ boot' = boot /\ skipped' = skipped /\ Lagging' = Lagging /\ Runs(t)' = Runs(t) /\ Sole' = Sole
      /\ Failing(t)' = Failing(t) /\ \A s : Excused(s)' = Excused(s)
  BY DEF shell, gone, Lagging, Runs, Sole, Single, Failing, Excused
<1>6. /\ Carried(t, 1) /\ 1 \in TasksOf(t, "reset") /\ TaskShape(t)' /\ ops[t][k].st = "reset"
      /\ ResetLast(t) => /\ TasksOf(t, "apply") = {} /\ TasksOf(t, "apply")' = {}
                         /\ \A i \in TasksOf(t, "reset") : ~(i > 1)
                         /\ TasksOf(t, "reset")' = {}
                         /\ Runs(t) => ops[t][k].cur
  BY <1>1, <1>4, <1>5, ResetGone
<1>7. lastSeq[t] \in Nat /\ cursor \in Nat /\ wiped \in Nat
  BY <1>1, LocalNumbers
<1>8. ASSUME ~Lagging PROVE Calm(t)'
  <2>1. ResetLast(t) /\ Ready(t) /\ Behind(t) /\ Swept(t)
    BY <1>1, <1>8
  <2>2. ResetLast(t)'
    <3>1. ASSUME Failing(t), Runs(t) PROVE \E l \in CurrentOps(t)' : ops'[t][l].st = "sleep"
      <4>1. PICK l \in CurrentOps(t) : ops[t][l].st = "sleep"
        BY <2>1, <3>1 DEF ResetLast, Failing, Runs
      <4>2. l # k
        BY <1>6, <4>1
      <4> QED BY <1>4, <4>1, <4>2 DEF CurrentOps
    <3> QED BY <1>5, <1>6, <2>1, <3>1 DEF ResetLast, Runs, Failing
  <2>3. Ready(t)' /\ \A l \in Slots : boot[t][l].cur /\ ~Runs(t) => boot[t][l].st # "read"
    BY <1>1, <1>5, <1>6, <2>1, ReadyGone
  <2>4. Behind(t)'
    <3>1. Runs(t)' => Runs(t) /\ lastSeq[t] <= lastSeq'[t]
      BY <1>5, <1>7
    <3>2. Single /\ Runs(t)' => cursor' <= lastSeq'[t]
      BY <1>7
    <3>3. \A l \in Slots : Single /\ boot'[t][l].cur /\ ~Runs(t)' /\ boot'[t][l].st = "read" =>
              boot'[t][l].read = cursor'
      BY <1>5, <2>3
    <3> QED BY <1>1, <1>2, <1>6, <2>1, <3>1, <3>2, <3>3, BehindCarried
  <2>5. Swept(t)'
    <3>1. ASSUME NEW l \in CurrentOps(t)', ops'[t][l].st = "fetch"
          PROVE  ops'[t][l].target <= wiped' /\ (Single => rows' = {})
      <4>1. CASE l = k
        BY <1>4, <1>6, <2>1, <4>1 DEF Swept
      <4>2. CASE l # k
        <5>1. l \in CurrentOps(t) /\ ops[t][l].st = "fetch" /\ ops'[t][l].target = ops[t][l].target
          BY <1>4, <3>1, <4>2 DEF CurrentOps
        <5> QED BY <2>1, <5>1 DEF Swept
      <4> QED BY <4>1, <4>2
    <3> QED BY <1>6, <2>1, <3>1 DEF Swept, Single
  <2> QED BY <2>2, <2>3, <2>4, <2>5 DEF Calm
<1>9. \A s : Safe(s) => Safe(s)'
  <2>1. \A u \in Tabs \ {t} : queue'[u] = queue[u] /\ skipped'[u] = skipped[u]
    BY DEF Local
  <2>2. skipped[t] \subseteq skipped'[t] /\ rows \subseteq rows' /\ \A r \in rows' : r \in rows
    BY <1>5
  <2> QED BY <1>1, <1>6, <2>1, <2>2, SafeCarried
<1>10. ASSUME ~Lagging, Sole PROVE Vouched(t)' /\ \A s \in 1..cursor' : Safe(s)'
  <2>1. /\ Single => rows = {}
        /\ \A j \in TasksOf(t, "cursor") : \A s \in 1..queue[t][j].arg : s <= wiped \/ Excused(s)
        /\ Runs(t) => \A s \in 1..lastSeq[t] : s <= wiped \/ Excused(s)
    BY <1>1, <1>6, <1>10 DEF Swept, Runs
  <2>2. ASSUME NEW s \in Nat \ {0}, s <= wiped \/ Excused(s) PROVE Safe(s)'
    <3>1. CASE Excused(s)
      BY <1>5, <3>1 DEF Safe
    <3>2. CASE s <= wiped
      <4>1. wiped # 0
        BY <1>7, <3>2
      <4>2. Single /\ rows' = {} /\ wiped' = wiped
        BY <1>10, <2>1, <4>1 DEF Sole, Single
      <4>3. \A u \in Tabs : TasksOf(u, "apply")' = {}
        BY <1>1, <1>6, <1>10, <4>2 DEF Single
      <4> QED BY <3>2, <4>2, <4>3 DEF Safe, Folded
    <3> QED BY <2>2, <3>1, <3>2
  <2>3. VouTask(t)'
    <3> SUFFICES ASSUME NEW j \in TasksOf(t, "cursor")', NEW s \in 1..queue'[t][j].arg PROVE Safe(s)'
      BY DEF VouTask, Covered, Safe
    <3>1. j + 1 \in TasksOf(t, "cursor") /\ queue'[t][j].arg = queue[t][j + 1].arg
      BY <1>1, <1>6, CarriedTasks
    <3>2. queue[t][j + 1].arg \in Nat
      BY <1>1, <3>1, TaskArg DEF ViewParts
    <3>3. s \in Nat \ {0} /\ (s <= wiped \/ Excused(s))
      BY <2>1, <3>1, <3>2
    <3> QED BY <2>2, <3>3
  <2>4. VouLast(t)'
    <3> SUFFICES ASSUME Runs(t), NEW s \in 1..lastSeq[t] PROVE Safe(s)'
      BY <1>5 DEF VouLast, Covered, Safe
    <3>1. s \in Nat \ {0} /\ (s <= wiped \/ Excused(s))
      BY <1>7, <2>1
    <3> QED BY <2>2, <3>1
  <2>5. VouRead(t)'
    BY <1>1, <1>5, <1>9, <1>10, VouchedParts DEF VouRead
  <2>6. VouPut(t)'
    BY <1>1, <1>6, NoneBegun
  <2> QED BY <2>3, <2>4, <2>5, <2>6, VouchedParts
<1>11. wiped <= wiped' /\ skipped[t] \subseteq skipped'[t] /\ rows \subseteq rows'
  BY <1>5, <1>7
<1> QED
  BY <1>5, <1>6, <1>8, <1>10, <1>11, CacheKept

LEMMA ResetDeletesCache ==
    ASSUME CacheInv, ViewInv', NEW t \in Tabs, ResetDeletes(t)
    PROVE  CacheInv'
<1>1. \A u \in Tabs \ {t} : UNCHANGED Local(u)
  BY CacheGives, ResetDeletesLocal
<1>2. /\ queue[t] # <<>> /\ queue[t][1].kind = "reset" /\ TaskEnds(t)
      /\ UNCHANGED <<rows, shell, running, lastSeq, wiped, gone>>
      /\ cursor' = 0 \/ cursor' = cursor
  BY DEF ResetDeletes, HeadIs, ResetEnds
<1>3. CASE HeadIs(t, "reset", "cleared") /\ cursor' = 0 /\ ResetEnds(t, TRUE)
  <2>1. /\ queue[t][1].step = "cleared" /\ UNCHANGED failed
        /\ ops' = [ops EXCEPT ![t][queue[t][1].arg] = [@ EXCEPT !.st = "fetch", !.at = head]]
    BY <1>3 DEF HeadIs, ResetEnds, Arg
  <2> QED BY <1>1, <1>2, <1>3, <2>1, ResetDoneCache
<1>4. CASE ResetEnds(t, FALSE)
  <2>1. Rejects(t, queue[t][1].arg) /\ UNCHANGED blocked
    BY <1>4 DEF ResetEnds, Arg
  <2> QED BY <1>1, <1>2, <2>1, ResetFailedCache
<1>5. \/ HeadIs(t, "reset", "cleared") /\ cursor' = 0 /\ ResetEnds(t, TRUE)
      \/ ResetEnds(t, FALSE)
  BY DEF ResetDeletes, HeadIs, ResetEnds
<1> QED
  BY <1>3, <1>4, <1>5

\* A queue that loses its first task, or nothing, keeps the steps of the others.
LEMMA StepCarried ==
    ASSUME TypeOK, NEW t \in Tabs, NEW d, Carried(t, d), d = 1 \/ queue' = queue,
           NEW i \in 1..Len(queue[t]), i > d
    PROVE  queue'[t][i - d].step = queue[t][i].step
<1>1. Len(queue[t]) \in Nat /\ d \in {0, 1} /\ Len(queue'[t]) = Len(queue[t]) - d
  BY QueueLen DEF Carried
<1>2. CASE d = 1
  <2>1. i - d \in 1..Len(queue'[t]) /\ (i - d) + d = i
    BY <1>1
  <2> QED BY <1>2, <2>1 DEF Carried
<1>3. CASE d = 0
  <2>1. i - d = i /\ queue' = queue
    BY <1>1, <1>3
  <2> QED BY <2>1
<1> QED
  BY <1>1, <1>2, <1>3

\* A call of startSync gets the cursor, or it ends without having started.
LEMMA CallCache ==
    ASSUME CacheInv, ViewInv', NEW t \in Tabs, NEW k \in Slots, NEW d, Carried(t, d),
           \A l \in Slots \ {k} : boot'[t][l] = boot[t][l],
           d = 1 => 1 \in TasksOf(t, "seed") /\ queue[t][1].arg = k,
           d = 0 => queue' = queue /\ boot[t][k].st # "queued",
           \/ boot'[t][k] = NoCall
           \/ /\ d = 1 /\ boot'[t][k].st = "read" /\ boot'[t][k].read = cursor /\ ~Failing(t)
              /\ boot'[t][k].cur => boot[t][k].cur,
           UNCHANGED <<running, failed, blocked, ops, disk, wiped, gone>>,
           lastSeq' = lastSeq \/ ~Runs(t),
           \A u \in Tabs \ {t} : UNCHANGED Local(u)
    PROVE  CacheInv'
<1>1. /\ TypeOK /\ ViewParts(t) /\ TaskShape(t)
      /\ ~Lagging => ResetLast(t) /\ Ready(t) /\ Behind(t) /\ Swept(t)
      /\ ~Lagging /\ Sole => Vouched(t) /\ \A s \in 1..cursor : Safe(s)
  BY CacheGives
<1>2. TypeOK'
  BY ViewInvPartsNext
<1>3. /\ ops' = ops /\ skipped' = skipped /\ Lagging' = Lagging /\ rows' = rows /\ cursor' = cursor
      /\ blocked' = blocked
      /\ wiped' = wiped /\ Runs(t)' = Runs(t) /\ Failing(t)' = Failing(t)
      /\ CurrentOps(t)' = CurrentOps(t) /\ Sole' = Sole /\ \A s : Excused(s)' = Excused(s)
  BY DEF disk, gone, Lagging, Runs, Failing, CurrentOps, Sole, Single, Excused
<1>4. lastSeq[t] \in Nat /\ (Runs(t)' => Runs(t) /\ lastSeq'[t] = lastSeq[t])
  BY <1>1, <1>3, LocalNumbers
<1>5. TaskShape(t)'
  <2>1. ASSUME NEW i \in TasksOf(t, "seed"), i > d PROVE boot'[t][queue[t][i].arg].st = "queued"
    <3>1. d \in {0, 1}
      BY <1>1, CarriedTasks
    <3>2. queue[t][i].arg \in Slots /\ boot[t][queue[t][i].arg].st = "queued"
      BY <1>1, SlotArg DEF TaskShape
    <3>3. queue[t][i].arg # k
      <4>1. CASE d = 1
        BY <1>1, <2>1, <4>1 DEF TaskShape
      <4>2. CASE d = 0
        BY <3>2, <4>2
      <4> QED BY <3>1, <4>1, <4>2
    <3> QED BY <3>2, <3>3
  <2>2. \A i \in TasksOf(t, "reset") : i > d => ops'[t][queue[t][i].arg].st = "reset"
    BY <1>1, <1>3 DEF TaskShape
  <2> QED BY <1>1, <2>1, <2>2, ShapeCarried
<1>6. ASSUME ~Lagging PROVE Calm(t)'
  <2>1. ResetLast(t) /\ Ready(t) /\ Behind(t) /\ Swept(t)
    BY <1>1, <1>6
  <2>2. ResetLast(t)'
    <3>1. \A i \in TasksOf(t, "reset") : i > d /\ Runs(t)' => ops'[t][queue[t][i].arg].cur
      BY <1>3, <2>1 DEF ResetLast, Runs
    <3>2. \A l \in CurrentOps(t)' : ops'[t][l].st # "reset" => TasksOf(t, "apply") = {}
      BY <1>3, <2>1 DEF ResetLast
    <3>3. Failing(t)' => TasksOf(t, "apply") = {}
      BY <1>3, <2>1 DEF ResetLast, Failing
    <3>4. Failing(t)' /\ Runs(t)' => \E l \in CurrentOps(t)' : ops'[t][l].st = "sleep"
      BY <1>3, <2>1 DEF ResetLast, Failing, Runs
    <3> QED BY <1>1, <2>1, <3>1, <3>2, <3>3, <3>4, ResetLastCarried
  <2>3. Ready(t)'
    <3> SUFFICES ASSUME NEW l \in Slots, boot'[t][l].cur, ~Runs(t)'
                 PROVE  /\ boot[t][l].cur /\ ~Runs(t)
                        /\ boot'[t][l].st = "read" =>
                              ~Failing(t)' /\ \A i \in 1..Len(queue[t]) : i > d => i \in TasksOf(t, "seed")
      BY <1>1, <2>1, ReadyCarried
    <3>1. CASE l # k
      <4>1. boot[t][l].cur /\ ~Runs(t) /\ boot'[t][l].st = boot[t][l].st
        BY <1>3, <3>1
      <4>2. boot[t][l].st = "read" => ~Failing(t) /\ 1..Len(queue[t]) \subseteq TasksOf(t, "seed")
        BY <2>1, <4>1 DEF Ready, Runs, Failing
      <4> QED BY <1>3, <4>1, <4>2
    <3>2. CASE l = k
      <4>1. d = 1 /\ boot[t][k].cur /\ ~Failing(t) /\ ~Runs(t)
        BY <1>3, <3>2 DEF NoCall
      <4>2. (1 + 1)..Len(queue[t]) \subseteq TasksOf(t, "seed")
        BY <2>1, <4>1 DEF Ready, Runs
      <4>3. Len(queue[t]) \in Nat
        BY <1>1, QueueLen
      <4>4. \A i \in 1..Len(queue[t]) : i > 1 => i \in (1 + 1)..Len(queue[t])
        BY <4>3
      <4>5. \A i \in 1..Len(queue[t]) : i > d => i \in TasksOf(t, "seed")
        BY <4>1, <4>2, <4>4
      <4> QED BY <1>3, <3>2, <4>1, <4>5
    <3> QED BY <3>1, <3>2
  <2>4. Behind(t)'
    <3>1. Runs(t)' => Runs(t) /\ lastSeq[t] <= lastSeq'[t]
      BY <1>4
    <3>2. Single /\ Runs(t)' => cursor' <= lastSeq'[t]
      BY <1>3, <1>4, <2>1 DEF Behind, Runs
    <3>3. \A l \in Slots : Single /\ boot'[t][l].cur /\ ~Runs(t)' /\ boot'[t][l].st = "read" =>
              boot'[t][l].read = cursor'
      <4> TAKE l \in Slots
      <4>1. CASE l = k
        BY <1>3, <4>1 DEF NoCall
      <4>2. CASE l # k
        BY <1>3, <2>1, <4>2 DEF Behind, Runs
      <4> QED BY <4>1, <4>2
    <3> QED BY <1>1, <1>2, <2>1, <3>1, <3>2, <3>3, BehindCarried
  <2>5. Swept(t)'
    <3>1. \A i \in TasksOf(t, "reset") : i > d => queue'[t][i - d].step = queue[t][i].step
      <4>1. d = 1 \/ queue' = queue
        BY <1>1, CarriedTasks
      <4>2. \A i \in 1..Len(queue[t]) : i > d => queue'[t][i - d].step = queue[t][i].step
        BY <1>1, <4>1, StepCarried
      <4> QED BY <4>2 DEF TasksOf
    <3> QED BY <1>1, <1>2, <1>3, <1>4, <2>1, <3>1, SweptCarried
  <2> QED BY <1>6, <2>2, <2>3, <2>4, <2>5 DEF Calm
<1>7. \A s : Safe(s) => Safe(s)'
  <2>1. \A u \in Tabs \ {t} : queue'[u] = queue[u] /\ skipped'[u] = skipped[u]
    BY DEF Local
  <2>2. skipped[t] \subseteq skipped'[t] /\ rows \subseteq rows' /\ \A r \in rows' : r \in rows
    BY <1>3
  <2> QED BY <1>1, <1>3, <2>1, <2>2, SafeCarried
<1>8. ASSUME ~Lagging, Sole PROVE Vouched(t)' /\ \A s \in 1..cursor' : Safe(s)'
  <2>1. VouTask(t) /\ VouLast(t) /\ VouRead(t) /\ VouPut(t) /\ \A s \in 1..cursor : Safe(s)
    BY <1>1, <1>8, VouchedParts
  <2>2. \A s : d = 1 /\ queue[t][1].kind = "apply" /\ queue[t][1].arg = s =>
              Safe(s)' \/ (0 < blocked'[t] /\ blocked'[t] <= s)
    BY DEF TasksOf
  <2>3. PubQueue(t) /\ PubSeq(t)
    BY <1>1 DEF ViewParts
  <2>4. 0 < blocked[t] => 0 < blocked'[t] /\ blocked'[t] <= blocked[t]
    BY <1>1, <1>3, LocalNumbers
  <2>5. VouTask(t)'
    BY <1>1, <1>2, <1>7, <2>1, <2>2, <2>3, <2>4, VouTaskCarried
  <2>6. VouLast(t)'
    BY <1>1, <1>2, <1>4, <1>7, <2>1, <2>2, <2>3, <2>4, VouLastCarried
  <2>7. VouRead(t)'
    <3> SUFFICES ASSUME NEW l \in Slots, boot'[t][l].st = "read", NEW s \in 1..boot'[t][l].read, wiped = 0
                 PROVE  Safe(s)
      BY <1>3, <1>7 DEF VouRead
    <3>1. CASE l = k
      BY <2>1, <3>1 DEF NoCall
    <3>2. CASE l # k
      BY <2>1, <3>2 DEF VouRead
    <3> QED BY <3>1, <3>2
  <2>8. VouPut(t)'
    <3>1. CASE d = 1
      BY <1>1, <3>1, NoneBegun
    <3>2. CASE d = 0
      BY <1>3, <2>1, <3>2 DEF VouPut, TasksOf
    <3> QED BY <1>1, <3>1, <3>2, CarriedTasks
  <2>9. \A s \in 1..cursor' : Safe(s)'
    BY <1>3, <1>7, <2>1
  <2> QED BY <2>5, <2>6, <2>7, <2>8, <2>9, VouchedParts
<1>9. wiped <= wiped' /\ skipped[t] \subseteq skipped'[t] /\ rows \subseteq rows'
  BY <1>1, <1>3, LocalNumbers
<1> QED
  BY <1>3, <1>5, <1>6, <1>8, <1>9, CacheKept

LEMMA PreludeFailsCache ==
    ASSUME CacheInv, ViewInv', NEW t \in Tabs, NEW k \in Slots, PreludeFails(t, k)
    PROVE  CacheInv'
<1>1. TypeOK
  BY CacheGives
<1>2. \A u \in Tabs \ {t} : UNCHANGED Local(u)
  BY <1>1, PreludeFailsLocal
<1>3. boot'[t][k] = NoCall /\ \A l \in Slots \ {k} : boot'[t][l] = boot[t][l]
  BY <1>1, BootFacts, ValueTypes DEF PreludeFails, CallRejects, CallEnds, TypeOK
<1>4. /\ queue' = queue /\ lastSeq' = lastSeq /\ boot[t][k].st # "queued"
      /\ UNCHANGED <<running, failed, blocked, ops, disk, wiped, gone>>
  BY DEF PreludeFails, flow, engine, cache
<1>5. Carried(t, 0)
  BY <1>1, <1>4, CarriedSame
<1> QED
  BY <1>2, <1>3, <1>4, <1>5, CallCache

LEMMA SeedReadsCache ==
    ASSUME CacheInv, ViewInv', NEW t \in Tabs, SeedReads(t) \/ SeedFails(t)
    PROVE  CacheInv'
<1> DEFINE k == Arg(t)
<1>1. TypeOK
  BY CacheGives
<1>2. \A u \in Tabs \ {t} : UNCHANGED Local(u)
  BY <1>1, SeedReadsLocal, SeedFailsLocal
<1>3. /\ queue[t] # <<>> /\ queue[t][1].kind = "seed" /\ TaskEnds(t) /\ queue[t][1].arg = k
      /\ UNCHANGED <<lastSeq, running, failed, blocked, ops, disk, wiped, gone>>
  BY DEF SeedReads, SeedFails, HeadIs, engine, cache, Arg
<1>4. Carried(t, 1) /\ 1 \in TasksOf(t, "seed")
  BY <1>1, <1>3, CarriedTail DEF TasksOf
<1>5. k \in Slots
  BY <1>1, <1>3, <1>4, SlotArg
<1>6. \/ CallEnds(t, k)
      \/ ~Failing(t) /\ boot' = [boot EXCEPT ![t][k] = [@ EXCEPT !.st = "read", !.read = cursor]]
  BY DEF SeedReads, SeedFails, CallRejects, Failing
<1> HIDE DEF k
<1>7. /\ \A l \in Slots \ {k} : boot'[t][l] = boot[t][l]
      /\ \/ boot'[t][k] = NoCall
         \/ /\ boot'[t][k].st = "read" /\ boot'[t][k].read = cursor /\ ~Failing(t)
            /\ boot'[t][k].cur => boot[t][k].cur
  <2>1. CASE CallEnds(t, k)
    BY <1>1, <1>5, <2>1, BootFacts, ValueTypes DEF CallEnds, TypeOK
  <2>2. CASE ~Failing(t) /\ boot' = [boot EXCEPT ![t][k] = [@ EXCEPT !.st = "read", !.read = cursor]]
    <3> DEFINE c == [boot[t][k] EXCEPT !.st = "read", !.read = cursor]
    <3>1. boot[t][k] \in Call /\ cursor \in Seqs0
      BY <1>1, <1>5, LocalTypes
    <3>2. c \in Call /\ c.st = "read" /\ c.read = cursor /\ c.cur = boot[t][k].cur
      <4>1. \A x \in Call, h \in Seqs0 : LET y == [x EXCEPT !.st = "read", !.read = h]
                                         IN  y \in Call /\ y.st = "read" /\ y.read = h /\ y.cur = x.cur
        BY DEF Call
      <4> QED BY <3>1, <4>1
    <3>3. boot' = [boot EXCEPT ![t][k] = c]
      BY <2>2, <1>1, <1>5 DEF TypeOK, ShellType
    <3> HIDE DEF c
    <3>4. boot'[t][k] = c /\ \A l \in Slots \ {k} : boot'[t][l] = boot[t][l]
      BY <1>1, <1>5, <3>2, <3>3, BootFacts DEF TypeOK
    <3> QED BY <2>2, <3>2, <3>4
  <2> QED BY <1>6, <2>1, <2>2
<1> QED
  BY <1>2, <1>3, <1>4, <1>5, <1>7, CallCache

\* A call of startSync queues behind the cache for its cursor.
LEMMA PreludeEndsCache ==
    ASSUME CacheInv, ViewInv', NEW t \in Tabs, NEW k \in Slots, PreludeEnds(t, k)
    PROVE  CacheInv'
<1> DEFINE m == Len(queue[t])
<1>1. /\ TypeOK /\ ViewParts(t) /\ TaskShape(t)
      /\ ~Lagging => ResetLast(t) /\ Ready(t) /\ Behind(t) /\ Swept(t)
      /\ ~Lagging /\ Sole => Vouched(t) /\ \A s \in 1..cursor : Safe(s)
  BY CacheGives
<1>2. TypeOK' /\ \A u \in Tabs \ {t} : UNCHANGED Local(u)
  BY <1>1, ViewInvPartsNext, PreludeEndsLocal
<1>3. /\ boot[t][k].st = "prelude" /\ queue'[t] = Append(queue[t], SeedTask(k))
      /\ UNCHANGED <<lastSeq, running, failed, blocked, ops, rows, cursor, wiped, gone>>
  BY <1>1 DEF PreludeEnds, engine, cache, disk, TypeOK, FlowType
<1>4. /\ \A l \in Slots \ {k} : boot'[t][l] = boot[t][l]
      /\ boot'[t][k].st = "queued" /\ boot'[t][k].cur = boot[t][k].cur
  <2> DEFINE c == [boot[t][k] EXCEPT !.st = "queued"]
  <2>1. c \in Call /\ c.st = "queued" /\ c.cur = boot[t][k].cur
    <3>1. \A x \in Call : LET y == [x EXCEPT !.st = "queued"]
                          IN  y \in Call /\ y.st = "queued" /\ y.cur = x.cur
      BY DEF Call
    <3>2. boot[t][k] \in Call
      BY <1>1, LocalTypes
    <3> QED BY <3>1, <3>2
  <2>2. boot' = [boot EXCEPT ![t][k] = c]
    BY <1>1 DEF PreludeEnds, TypeOK, ShellType
  <2> HIDE DEF c
  <2>3. boot'[t][k] = c /\ \A l \in Slots \ {k} : boot'[t][l] = boot[t][l]
    BY <1>1, <2>1, <2>2, BootFacts DEF TypeOK
  <2> QED BY <2>1, <2>3
<1>5. /\ Len(queue'[t]) = m + 1 /\ m \in Nat /\ queue'[t][m + 1] = SeedTask(k)
      /\ \A i \in 1..m : queue'[t][i] = queue[t][i]
  <2>1. queue[t] \in Seq(Task) /\ SeedTask(k) \in Task
    BY <1>1, LocalTypes, TaskTypes
  <2> QED BY <1>3, <2>1, AppendFacts
<1>6. /\ \A i \in (m + 1)..Len(queue'[t]) : i = m + 1
      /\ \A i \in (m + 1)..Len(queue'[t]) :
            /\ queue'[t][i].kind = "seed" /\ queue'[t][i].arg = k /\ queue'[t][i].step = "start"
  <2>1. \A i \in (m + 1)..Len(queue'[t]) : i = m + 1
    BY <1>5
  <2> QED BY <1>5, <2>1 DEF SeedTask
<1>7. Grown(t)
  BY <1>5, <1>6 DEF Grown
<1>8. \A kind : kind # "seed" =>
         /\ TasksOf(t, kind)' = TasksOf(t, kind)
         /\ \A i \in TasksOf(t, kind) : queue'[t][i] = queue[t][i]
  BY <1>1, <1>2, <1>6, <1>7, GrownNone
<1>9. \A i \in TasksOf(t, "seed") :
         queue[t][i].arg # k /\ queue[t][i].arg \in Slots /\ boot[t][queue[t][i].arg].st = "queued"
  BY <1>1, <1>3, SlotArg DEF TaskShape
<1>10. TaskShape(t)'
  <2>1. \A i \in TasksOf(t, "seed") : boot'[t][queue[t][i].arg].st = "queued"
    BY <1>4, <1>9
  <2>2. \A i \in TasksOf(t, "reset") : ops'[t][queue[t][i].arg].st = "reset"
    BY <1>1, <1>3 DEF TaskShape
  <2>3. ASSUME NEW i \in (m + 1)..Len(queue'[t])
        PROVE  /\ boot'[t][queue'[t][i].arg].st = "queued"
               /\ \A j \in TasksOf(t, "seed")' : queue'[t][i].arg = queue'[t][j].arg => i = j
    <3>1. boot'[t][queue'[t][i].arg].st = "queued"
      BY <1>4, <1>6
    <3>2. ASSUME NEW j \in TasksOf(t, "seed")', queue'[t][i].arg = queue'[t][j].arg PROVE i = j
      <4>1. ~(j \in TasksOf(t, "seed") /\ queue'[t][j] = queue[t][j])
        BY <1>6, <1>9, <3>2
      <4>2. j \in (m + 1)..Len(queue'[t])
        BY <1>1, <1>2, <1>7, <4>1, GrownTasks
      <4> QED BY <1>6, <4>2
    <3> QED BY <3>1, <3>2
  <2>4. \A i \in (m + 1)..Len(queue'[t]) : queue'[t][i].kind # "reset"
    BY <1>6
  <2> QED BY <1>1, <1>2, <1>7, <2>1, <2>2, <2>3, <2>4, ShapeGrown
<1>11. /\ Runs(t)' = Runs(t) /\ Failing(t)' = Failing(t) /\ CurrentOps(t)' = CurrentOps(t)
       /\ ops' = ops /\ cursor' = cursor /\ wiped' = wiped /\ rows' = rows /\ lastSeq' = lastSeq
       /\ Lagging' = Lagging /\ Sole' = Sole /\ blocked' = blocked /\ skipped' = skipped
       /\ \A s : Excused(s)' = Excused(s)
  BY <1>3 DEF Runs, Failing, CurrentOps, Lagging, Sole, Single, gone, Excused
<1>12. ASSUME ~Lagging PROVE Calm(t)'
  <2>1. ResetLast(t) /\ Ready(t) /\ Behind(t) /\ Swept(t)
    BY <1>1, <1>12
  <2>2. ResetLast(t)'
    BY <1>8, <1>11, <2>1 DEF ResetLast, Runs, Failing
  <2>3. Ready(t)'
    <3> SUFFICES ASSUME NEW l \in Slots, boot'[t][l].cur, ~Runs(t)'
                 PROVE  /\ \A i \in TasksOf(t, "seed")' : queue'[t][i].arg = l =>
                              (i + 1)..Len(queue'[t]) \subseteq TasksOf(t, "seed")'
                        /\ boot'[t][l].st = "read" =>
                              ~Failing(t)' /\ 1..Len(queue'[t]) \subseteq TasksOf(t, "seed")'
      BY DEF Ready, Runs, Failing
    <3>1. boot[t][l].cur /\ ~Runs(t)
      BY <1>4, <1>11
    <3>2. /\ \A i \in TasksOf(t, "seed") :
                queue[t][i].arg = l => (i + 1)..m \subseteq TasksOf(t, "seed")
          /\ boot[t][l].st = "read" => ~Failing(t) /\ 1..m \subseteq TasksOf(t, "seed")
      BY <2>1, <3>1 DEF Ready, Runs, Failing
    <3>3. \A i \in TasksOf(t, "seed") : i \in TasksOf(t, "seed")'
      BY <1>1, <1>2, <1>7, GrownTasks
    <3>4. m + 1 \in TasksOf(t, "seed")'
      BY <1>5, <1>6 DEF TasksOf
    <3>5. ASSUME NEW i \in TasksOf(t, "seed")', queue'[t][i].arg = l, NEW j \in (i + 1)..Len(queue'[t])
          PROVE  j \in TasksOf(t, "seed")'
      <4>1. i \in Nat /\ (\/ i \in TasksOf(t, "seed") /\ queue'[t][i] = queue[t][i]
                          \/ i \in (m + 1)..Len(queue'[t]))
        BY <1>1, <1>2, <1>7, GrownTasks
      <4>2. CASE j = m + 1
        BY <3>4, <4>2
      <4>3. CASE j # m + 1
        <5>1. j \in (i + 1)..m
          <6> HIDE DEF m
          <6> QED BY <1>5, <3>5, <4>1, <4>3
        <5>2. ~(i \in (m + 1)..Len(queue'[t]))
          <6> HIDE DEF m
          <6> QED BY <1>5, <4>1, <5>1
        <5>3. i \in TasksOf(t, "seed") /\ queue[t][i].arg = l
          BY <3>5, <4>1, <5>2
        <5> QED BY <3>2, <3>3, <5>1, <5>3
      <4> QED BY <4>2, <4>3
    <3>6. ASSUME boot'[t][l].st = "read"
          PROVE  ~Failing(t)' /\ \A j \in 1..Len(queue'[t]) : j \in TasksOf(t, "seed")'
      <4>1. l # k /\ boot[t][l].st = "read"
        BY <1>4, <3>6
      <4>2. ~Failing(t) /\ \A j \in 1..m : j \in TasksOf(t, "seed")'
        BY <3>2, <3>3, <4>1
      <4>3. \A j \in 1..Len(queue'[t]) : j \in 1..m \/ j = m + 1
        <5> HIDE DEF m
        <5> QED BY <1>5
      <4> QED BY <1>11, <3>4, <4>2, <4>3
    <3> QED BY <3>5, <3>6
  <2>4. Behind(t)'
    <3>1. \A l \in Slots : boot'[t][l].cur /\ boot'[t][l].st = "read" =>
             boot[t][l].cur /\ boot[t][l].st = "read" /\ boot'[t][l].read = boot[t][l].read
      BY <1>4
    <3> QED BY <1>8, <1>11, <2>1, <3>1 DEF Behind, Runs, Single
  <2>5. Swept(t)'
    BY <1>8, <1>11, <2>1 DEF Swept, Runs, Single
  <2> QED BY <2>2, <2>3, <2>4, <2>5 DEF Calm
<1>13. ASSUME NEW s, Safe(s) PROVE Safe(s)'
  <2>1. rows' = rows /\ wiped' = wiped /\ skipped[t] \subseteq skipped'[t]
    BY <1>11
  <2>2. \A i \in (Len(queue[t]) + 1)..Len(queue'[t]) :
              queue'[t][i].kind = "apply" => queue'[t][i].arg > s
    BY <1>6
  <2> QED BY <1>1, <1>2, <1>7, <1>13, <2>1, <2>2, SafeGrown
<1>14. ASSUME ~Lagging, Sole PROVE Vouched(t)' /\ \A s \in 1..cursor' : Safe(s)'
  <2>1. Vouched(t) /\ (\A s \in 1..cursor : Safe(s)) /\ cursor' = cursor
    BY <1>1, <1>11, <1>14
  <2>2. ASSUME Runs(t)', NEW s \in 1..lastSeq'[t] PROVE Covered(t, s, Len(queue[t]) + 1)'
    <3>1. Covered(t, s, m + 1)
      BY <1>11, <2>1, <2>2, VouchedParts DEF VouLast
    <3>2. Safe(s) => Safe(s)'
      BY <1>13
    <3>3. m + 1 \in Nat /\ Len(queue'[t]) + 1 \in Nat /\ m + 1 <= Len(queue'[t]) + 1
      BY <1>5
    <3>4. blocked'[t] = blocked[t]
      BY <1>11
    <3>5. \A l \in Nat : l = Len(queue'[t]) + 1 => Covered(t, s, l)'
      <4> HIDE DEF m
      <4> QED BY <1>1, <1>2, <1>7, <3>1, <3>2, <3>3, <3>4, CoveredGrown
    <3> QED BY <3>3, <3>5
  <2>3. /\ blocked'[t] = blocked[t] /\ wiped' = wiped /\ rows \subseteq rows'
        /\ skipped[t] \subseteq skipped'[t]
    BY <1>11
  <2>4. \A j \in (Len(queue[t]) + 1)..Len(queue'[t]) : queue'[t][j].kind # "cursor"
    BY <1>6
  <2>5. \A j \in TasksOf(t, "cursor") : \A s \in 1..queue[t][j].arg : Safe(s) => Safe(s)'
    BY <1>13
  <2>6. \A l \in Slots : boot'[t][l].st = "read" =>
           boot[t][l].st = "read" /\ boot'[t][l].read = boot[t][l].read
    BY <1>4
  <2>7. Vouched(t)'
    BY <1>1, <1>2, <1>7, <2>1, <2>2, <2>3, <2>4, <2>5, <2>6, VouchedGrown
  <2> QED BY <1>13, <2>1, <2>7
<1>15. wiped <= wiped' /\ rows \subseteq rows' /\ skipped[t] \subseteq skipped'[t]
  BY <1>1, <1>11, LocalNumbers
<1> QED
  BY <1>2, <1>10, <1>11, <1>12, <1>14, <1>15, CacheKept

\* A cursor that reaches a running engine: what it passes over is skipped.
LEMMA SeedOverCache ==
    ASSUME CacheInv, ViewInv', NEW t \in Tabs, NEW k \in Slots, boot[t][k].st = "read",
           boot'[t][k] = NoCall, \A l \in Slots \ {k} : boot'[t][l] = boot[t][l],
           Runs(t), lastSeq'[t] = Max({lastSeq[t], boot[t][k].read}),
           skipped'[t] = skipped[t] \cup (lastSeq[t] + 1)..boot[t][k].read, late' = late, queue' = queue,
           running'[t] = TRUE, UNCHANGED <<failed, blocked, ops, rows, cursor, wiped>>,
           \A u \in Tabs \ {t} : UNCHANGED Local(u)
    PROVE  CacheInv'
<1> DEFINE n == boot[t][k].read
<1>1. /\ TypeOK /\ ViewParts(t) /\ TaskShape(t)
      /\ ~Lagging => ResetLast(t) /\ Ready(t) /\ Behind(t) /\ Swept(t)
      /\ ~Lagging /\ Sole => Vouched(t) /\ \A s \in 1..cursor : Safe(s)
  BY CacheGives
<1>2. TypeOK' /\ Carried(t, 0)
  BY <1>1, ViewInvPartsNext, CarriedSame
<1>3. lastSeq[t] \in Nat /\ n \in Nat /\ cursor \in Nat /\ wiped \in Nat /\ blocked[t] \in Nat
  BY <1>1, LocalNumbers
<1>4. /\ lastSeq'[t] \in Nat /\ lastSeq[t] <= lastSeq'[t]
      /\ \A s \in 1..lastSeq'[t] : s \in 1..lastSeq[t] \/ s \in skipped'[t]
  <2>1. lastSeq'[t] = IF n <= lastSeq[t] THEN lastSeq[t] ELSE n
    BY <1>3, MaxMinPair
  <2>2. \A s \in (lastSeq[t] + 1)..n : s \in skipped'[t]
    OBVIOUS
  <2>3. ASSUME NEW a \in Nat, NEW b \in Nat, NEW c, c = IF b <= a THEN a ELSE b
        PROVE  c \in Nat /\ a <= c /\ \A s \in 1..c : s \in 1..a \/ s \in (a + 1)..b
    BY <2>3
  <2>4. /\ lastSeq'[t] \in Nat /\ lastSeq[t] <= lastSeq'[t]
        /\ \A s \in 1..lastSeq'[t] : s \in 1..lastSeq[t] \/ s \in (lastSeq[t] + 1)..n
    BY <1>3, <2>1, <2>3
  <2> QED BY <2>2, <2>4
<1>5. /\ Runs(t)' /\ Failing(t)' = Failing(t) /\ CurrentOps(t)' = CurrentOps(t) /\ Lagging' = Lagging
      /\ Sole' = Sole /\ \A kind : TasksOf(t, kind)' = TasksOf(t, kind)
  BY DEF Runs, Failing, CurrentOps, Lagging, Sole, Single, TasksOf
<1>6. TaskShape(t)'
  <2>1. \A i \in TasksOf(t, "seed") : boot'[t][queue[t][i].arg].st = "queued"
    <3> TAKE i \in TasksOf(t, "seed")
    <3>1. queue[t][i].arg \in Slots /\ boot[t][queue[t][i].arg].st = "queued"
      BY <1>1, SlotArg DEF TaskShape
    <3> QED BY <3>1
  <2> QED BY <1>1, <1>5, <2>1 DEF TaskShape
<1>7. ASSUME NEW s, Excused(s) PROVE Excused(s)'
  <2>1. PICK u \in Tabs : s \in skipped[u]
    BY <1>7 DEF Excused
  <2>2. u # t => skipped'[u] = skipped[u]
    BY DEF Local
  <2> QED BY <2>1, <2>2 DEF Excused
<1>8. ASSUME ~Lagging PROVE Calm(t)'
  <2>1. ResetLast(t) /\ Behind(t) /\ Swept(t)
    BY <1>1, <1>8
  <2>2. ResetLast(t)'
    BY <1>5, <2>1 DEF ResetLast, Runs, Failing
  <2>3. Ready(t)'
    BY <1>5 DEF Ready, Runs
  <2>4. Behind(t)'
    <3>1. Single => cursor <= lastSeq[t]
      BY <2>1 DEF Behind, Runs
    <3>2. Single => cursor' <= lastSeq'[t]
      BY <1>3, <1>4, <3>1
    <3> QED BY <1>1, <1>2, <1>4, <1>5, <2>1, <3>2, BehindCarried
  <2>5. Swept(t)'
    <3>1. ASSUME NEW i \in TasksOf(t, "reset"), queue[t][i].step = "cleared"
          PROVE  /\ ops'[t][queue[t][i].arg].target <= wiped
                 /\ Single => rows = {}
                 /\ \A j \in TasksOf(t, "cursor") : \A s \in 1..queue[t][j].arg : s <= wiped \/ Excused(s)'
                 /\ \A s \in 1..lastSeq'[t] : s <= wiped \/ Excused(s)'
      <4>1. /\ ops[t][queue[t][i].arg].target <= wiped
            /\ Single => rows = {}
            /\ \A j \in TasksOf(t, "cursor") : \A s \in 1..queue[t][j].arg : s <= wiped \/ Excused(s)
            /\ \A s \in 1..lastSeq[t] : s <= wiped \/ Excused(s)
        BY <2>1, <3>1 DEF Swept, Runs
      <4>2. \A s \in 1..lastSeq'[t] : s <= wiped \/ Excused(s)'
        BY <1>4, <1>7, <4>1 DEF Excused
      <4> QED BY <1>7, <4>1, <4>2
    <3>2. \A l \in CurrentOps(t) : ops'[t][l].st = "fetch" =>
             ops'[t][l].target <= wiped /\ (Single => rows = {})
      BY <2>1 DEF Swept
    <3> QED BY <1>5, <3>1, <3>2 DEF Swept, Single
  <2> QED BY <2>2, <2>3, <2>4, <2>5 DEF Calm
<1>9. \A s : Safe(s) => Safe(s)'
  <2>1. \A u \in Tabs \ {t} : queue'[u] = queue[u] /\ skipped'[u] = skipped[u]
    BY DEF Local
  <2>2. skipped[t] \subseteq skipped'[t] /\ rows \subseteq rows' /\ \A r \in rows' : r \in rows
    OBVIOUS
  <2> QED BY <1>1, <1>2, <2>1, <2>2, SafeCarried
<1>10. ASSUME ~Lagging, Sole PROVE Vouched(t)' /\ \A s \in 1..cursor' : Safe(s)'
  <2>1. VouTask(t) /\ VouLast(t) /\ VouRead(t) /\ VouPut(t) /\ \A s \in 1..cursor : Safe(s)
    BY <1>1, <1>10, VouchedParts
  <2>2. PubQueue(t) /\ PubSeq(t)
    BY <1>1 DEF ViewParts
  <2>3. 0 < blocked[t] => 0 < blocked'[t] /\ blocked'[t] <= blocked[t]
    BY <1>3
  <2>4. VouTask(t)'
    BY <1>1, <1>2, <1>9, <2>1, <2>2, <2>3, VouTaskCarried
  <2>5. VouLast(t)'
    <3> SUFFICES ASSUME NEW s \in 1..lastSeq'[t] PROVE Covered(t, s, Len(queue[t]) + 1)'
      BY DEF VouLast
    <3>1. CASE s \in skipped'[t]
      BY <3>1 DEF Covered, Excused
    <3>2. CASE s \in 1..lastSeq[t]
      <4>1. Covered(t, s, Len(queue[t]) + 1)
        BY <2>1, <3>2 DEF VouLast
      <4>2. \A j : Covered(t, s, j) => Covered(t, s, j)'
        BY <1>5, <1>9 DEF Covered, Safe
      <4>3. Len(queue[t])' = Len(queue[t])
        OBVIOUS
      <4> QED BY <4>1, <4>2, <4>3
    <3> QED BY <1>4, <3>1, <3>2
  <2>6. VouRead(t)'
    <3>1. \A l \in Slots : boot'[t][l].st = "read" => boot'[t][l] = boot[t][l]
      BY DEF NoCall
    <3> QED BY <1>9, <2>1, <3>1 DEF VouRead
  <2>7. VouPut(t)'
    BY <1>5, <2>1 DEF VouPut
  <2>8. \A s \in 1..cursor' : Safe(s)'
    BY <1>9, <2>1
  <2> QED BY <2>4, <2>5, <2>6, <2>7, <2>8, VouchedParts
<1>11. wiped <= wiped' /\ skipped[t] \subseteq skipped'[t] /\ rows \subseteq rows'
  BY <1>3
<1> QED
  BY <1>5, <1>6, <1>8, <1>10, <1>11, CacheKept

\* The engine starts with the cursor that was read, which is still the one on disk
\* unless the start is late.
LEMMA SeedStartsCache ==
    ASSUME CacheInv, ViewInv', NEW t \in Tabs, NEW k \in Slots, boot[t][k].st = "read",
           boot'[t][k] = NoCall, \A l \in Slots \ {k} : boot'[t][l] = boot[t][l],
           ~Runs(t), lastSeq'[t] = boot[t][k].read, skipped' = skipped,
           late' = (late \/ (~boot[t][k].cur /\ Outdated(t, boot[t][k].read))), queue' = queue,
           running'[t] = TRUE, UNCHANGED <<failed, blocked, ops, rows, cursor, wiped>>,
           \A u \in Tabs \ {t} : UNCHANGED Local(u)
    PROVE  CacheInv'
<1> DEFINE n == boot[t][k].read
<1>1. /\ TypeOK /\ ViewParts(t) /\ TaskShape(t)
      /\ ~Lagging => ResetLast(t) /\ Ready(t) /\ Behind(t) /\ Swept(t)
      /\ ~Lagging /\ Sole => Vouched(t) /\ \A s \in 1..cursor : Safe(s)
  BY CacheGives
<1>2. TypeOK' /\ Carried(t, 0)
  BY <1>1, ViewInvPartsNext, CarriedSame
<1>3. n \in Nat /\ cursor \in Nat /\ wiped \in Nat
  BY <1>1, LocalNumbers
<1>4. CurrentOps(t)' = {}
  <2>1. CurrentOps(t) = {}
    BY <1>1, Stopped DEF Runs
  <2> QED BY <2>1 DEF CurrentOps
<1>5. Failing(t)' = Failing(t) /\ (Lagging => Lagging') /\ Sole' = Sole
      /\ \A kind : TasksOf(t, kind)' = TasksOf(t, kind)
  BY DEF Failing, Lagging, Sole, Single, TasksOf
<1>6. TaskShape(t)'
  <2>1. \A i \in TasksOf(t, "seed") : boot'[t][queue[t][i].arg].st = "queued"
    <3> TAKE i \in TasksOf(t, "seed")
    <3>1. queue[t][i].arg \in Slots /\ boot[t][queue[t][i].arg].st = "queued"
      BY <1>1, SlotArg DEF TaskShape
    <3> QED BY <3>1
  <2> QED BY <1>1, <1>5, <2>1 DEF TaskShape
<1>7. ASSUME ~Lagging'
      PROVE  /\ ~Lagging /\ ~Failing(t) /\ \A i \in 1..Len(queue[t]) : queue[t][i].kind = "seed"
             /\ Single => n = cursor
  <2>1. ~Lagging
    BY <1>5, <1>7
  <2>2. CASE boot[t][k].cur
    BY <1>1, <2>1, <2>2 DEF Ready, Behind, Runs, Failing, TasksOf
  <2>3. CASE ~boot[t][k].cur
    <3>1. ~Outdated(t, n)
      BY <1>7, <2>3 DEF Lagging
    <3> QED BY <2>1, <3>1 DEF Outdated, Failing
  <2> QED BY <2>2, <2>3
<1>8. ASSUME ~Lagging' PROVE Calm(t)'
  <2>1. TasksOf(t, "reset")' = {} /\ TasksOf(t, "apply")' = {} /\ TasksOf(t, "cursor")' = {}
    BY <1>5, <1>7, <1>8 DEF TasksOf
  <2>2. ResetLast(t)'
    BY <1>4, <1>5, <1>7, <1>8, <2>1 DEF ResetLast, Failing
  <2>3. Ready(t)'
    BY DEF Ready
  <2>4. Behind(t)'
    <3>1. Single => cursor' <= lastSeq'[t]
      BY <1>3, <1>7, <1>8
    <3> QED BY <2>1, <3>1 DEF Behind, Single
  <2>5. Swept(t)'
    BY <1>4, <2>1, SweptNothing
  <2> QED BY <2>2, <2>3, <2>4, <2>5 DEF Calm
<1>9. \A s : Safe(s) => Safe(s)'
  <2>1. \A u \in Tabs \ {t} : queue'[u] = queue[u] /\ skipped'[u] = skipped[u]
    BY DEF Local
  <2>2. skipped[t] \subseteq skipped'[t] /\ rows \subseteq rows' /\ \A r \in rows' : r \in rows
    OBVIOUS
  <2> QED BY <1>1, <1>2, <2>1, <2>2, SafeCarried
<1>10. ASSUME ~Lagging', Sole PROVE Vouched(t)' /\ \A s \in 1..cursor' : Safe(s)'
  <2>1. VouRead(t) /\ \A s \in 1..cursor : Safe(s)
    BY <1>1, <1>7, <1>10, VouchedParts
  <2>2. TasksOf(t, "cursor")' = {}
    BY <1>5, <1>7, <1>10 DEF TasksOf
  <2>3. VouTask(t)' /\ VouPut(t)'
    BY <2>2 DEF VouTask, VouPut
  <2>4. VouLast(t)'
    <3> SUFFICES ASSUME NEW s \in 1..n PROVE Safe(s)
      BY <1>9 DEF VouLast, Covered, Safe
    <3>1. CASE Single
      BY <1>7, <1>10, <2>1, <3>1
    <3>2. CASE wiped = 0
      BY <2>1, <3>2 DEF VouRead
    <3> QED BY <1>10, <3>1, <3>2 DEF Sole
  <2>5. VouRead(t)'
    <3>1. \A l \in Slots : boot'[t][l].st = "read" => boot'[t][l] = boot[t][l]
      BY DEF NoCall
    <3> QED BY <1>9, <2>1, <3>1 DEF VouRead
  <2>6. \A s \in 1..cursor' : Safe(s)'
    BY <1>9, <2>1
  <2> QED BY <2>3, <2>4, <2>5, <2>6, VouchedParts
<1>11. wiped <= wiped' /\ skipped[t] \subseteq skipped'[t] /\ rows \subseteq rows'
  BY <1>3
<1> QED
  BY <1>5, <1>6, <1>8, <1>10, <1>11, CacheKept

LEMMA SeedUsedCache ==
    ASSUME CacheInv, ViewInv', NEW t \in Tabs, NEW k \in Slots, SeedUsed(t, k)
    PROVE  CacheInv'
<1> DEFINE n == boot[t][k].read
<1>1. TypeOK /\ ViewParts(t)
  BY CacheGives
<1>2. \A u \in Tabs \ {t} : UNCHANGED Local(u)
  BY <1>1, SeedUsedLocal
<1>3. boot'[t][k] = NoCall /\ \A l \in Slots \ {k} : boot'[t][l] = boot[t][l]
  BY <1>1, BootFacts, ValueTypes DEF SeedUsed, CallEnds, TypeOK
<1>4. /\ boot[t][k].st = "read" /\ queue' = queue
      /\ UNCHANGED <<disk, failed, blocked, ops, rows, cursor, wiped>>
  BY DEF SeedUsed, cache, disk
<1>5. lastSeq'[t] = IF running[t] THEN Max({lastSeq[t], n}) ELSE n
  BY <1>1 DEF SeedUsed, SeedOf, TypeOK, FlowType
<1>6. CASE Locked(t)
  <2>1. ~Runs(t)
    BY <1>1, <1>6 DEF ViewParts, AlApp, Locked, Runs
  <2>2. UNCHANGED <<running, gone>>
    BY <1>6 DEF SeedUsed
  <2>3. Carried(t, 0)
    BY <1>1, <1>4, CarriedSame
  <2> QED BY <1>2, <1>3, <1>4, <2>1, <2>2, <2>3, CallCache
<1>7. CASE ~Locked(t)
  <2>1. running'[t] = TRUE
    BY <1>1, <1>7 DEF SeedUsed, TypeOK, EngineType
  <2>2. CASE Runs(t)
    <3>1. skipped'[t] = skipped[t] \cup (lastSeq[t] + 1)..n /\ late' = late
      BY <1>1, <1>7, <2>2 DEF SeedUsed, Skips, Runs, TypeOK, PastType
    <3>2. lastSeq'[t] = Max({lastSeq[t], n})
      BY <1>5, <2>2 DEF Runs
    <3> QED BY <1>2, <1>3, <1>4, <2>1, <2>2, <3>1, <3>2, SeedOverCache
  <2>3. CASE ~Runs(t)
    <3>1. skipped' = skipped /\ late' = (late \/ (~boot[t][k].cur /\ Outdated(t, n)))
      BY <1>7, <2>3 DEF SeedUsed, Runs
    <3>2. lastSeq'[t] = n
      BY <1>5, <2>3 DEF Runs
    <3> QED BY <1>2, <1>3, <1>4, <2>1, <2>3, <3>1, <3>2, SeedStartsCache
  <2> QED BY <2>2, <2>3
<1> QED
  BY <1>6, <1>7

\* A lock stops the engine, and its operations and starts no longer count.
LEMMA LockCache ==
    ASSUME CacheInv, ViewInv', NEW t \in Tabs, Lock(t)
    PROVE  CacheInv'
<1>1. /\ TypeOK /\ ViewParts(t) /\ TaskShape(t)
      /\ ~Lagging => ResetLast(t) /\ Ready(t) /\ Behind(t) /\ Swept(t)
      /\ ~Lagging /\ Sole => Vouched(t) /\ \A s \in 1..cursor : Safe(s)
  BY CacheGives
<1>2. \A u \in Tabs \ {t} : UNCHANGED Local(u)
  BY <1>1, LockLocal
<1>3. UNCHANGED <<queue, lastSeq, failed, blocked, rows, cursor, wiped, gone>>
  BY DEF Lock, disk, cache, flow
<1>4. ~Runs(t)'
  BY <1>1 DEF Lock, Stop, Runs, TypeOK, EngineType
<1>5. \A l \in Slots : ~boot'[t][l].cur /\ boot'[t][l].st = boot[t][l].st /\ boot'[t][l].read = boot[t][l].read
  <2>1. boot'[t] = [l \in Slots |-> [boot[t][l] EXCEPT !.cur = FALSE]]
    BY <1>1 DEF Lock, TypeOK, ShellType
  <2>2. \A c \in Call : LET r == [c EXCEPT !.cur = FALSE]
                        IN  ~r.cur /\ r.st = c.st /\ r.read = c.read
    BY DEF Call
  <2>3. \A l \in Slots : boot[t][l] \in Call /\ boot'[t][l] = [boot[t][l] EXCEPT !.cur = FALSE]
    BY <1>1, <2>1, LocalTypes
  <2> QED BY <2>2, <2>3
<1>6. \A l \in Slots : ~ops'[t][l].cur /\ ops'[t][l].st = ops[t][l].st /\ ops'[t][l].target = ops[t][l].target
  <2>1. ops'[t] = [l \in Slots |-> [ops[t][l] EXCEPT !.cur = FALSE]]
    BY <1>1 DEF Lock, Stop, TypeOK, EngineType
  <2>2. \A o \in Op : LET r == [o EXCEPT !.cur = FALSE]
                      IN  ~r.cur /\ r.st = o.st /\ r.target = o.target
    BY DEF Op
  <2>3. \A l \in Slots : ops[t][l] \in Op /\ ops'[t][l] = [ops[t][l] EXCEPT !.cur = FALSE]
    BY <1>1, <2>1, LocalTypes
  <2> QED BY <2>2, <2>3
<1>7. /\ Failing(t)' = Failing(t) /\ CurrentOps(t)' = {} /\ Lagging' = Lagging /\ Sole' = Sole
      /\ \A kind : TasksOf(t, kind)' = TasksOf(t, kind)
      /\ \A s : Excused(s)' = Excused(s)
  BY <1>3, <1>6 DEF Failing, CurrentOps, Lagging, Sole, Single, TasksOf, gone, Excused
<1>8. /\ \A i \in TasksOf(t, "reset") : queue[t][i].arg \in Slots
      /\ \A i \in TasksOf(t, "seed") : queue[t][i].arg \in Slots
  BY <1>1, SlotArg
<1>9. TaskShape(t)'
  BY <1>1, <1>3, <1>5, <1>6, <1>7, <1>8 DEF TaskShape
<1>10. ASSUME ~Lagging PROVE Calm(t)'
  <2>1. ResetLast(t) /\ Swept(t)
    BY <1>1, <1>10
  <2>2. ResetLast(t)'
    BY <1>4, <1>7, <2>1 DEF ResetLast, Runs, Failing
  <2>3. Ready(t)' /\ Behind(t)'
    BY <1>4, <1>5 DEF Ready, Behind, Runs
  <2>4. Swept(t)'
    BY <1>3, <1>4, <1>6, <1>7, <1>8, <2>1 DEF Swept, Runs, Single
  <2> QED BY <2>2, <2>3, <2>4 DEF Calm
<1>11. \A s : Safe(s)' = Safe(s)
  <2>1. \A s : Folded(s)' = Folded(s)
    BY <1>3 DEF Folded, TasksOf
  <2> QED BY <1>7, <2>1 DEF Safe
<1>12. ASSUME ~Lagging, Sole PROVE Vouched(t)' /\ \A s \in 1..cursor' : Safe(s)'
  <2>1. VouTask(t) /\ VouPut(t) /\ VouRead(t) /\ \A s \in 1..cursor : Safe(s)
    BY <1>1, <1>12, VouchedParts
  <2>2. \A s, j : Covered(t, s, j)' = Covered(t, s, j)
    BY <1>3, <1>7, <1>11 DEF Covered, Safe
  <2>3. VouTask(t)' /\ VouPut(t)'
    BY <1>3, <1>7, <2>1, <2>2 DEF VouTask, VouPut
  <2>4. VouLast(t)' /\ VouRead(t)'
    BY <1>3, <1>4, <1>5, <1>11, <2>1 DEF VouLast, VouRead
  <2> QED BY <1>3, <1>11, <2>1, <2>3, <2>4, VouchedParts
<1>13. wiped <= wiped' /\ skipped[t] \subseteq skipped'[t] /\ rows \subseteq rows'
  BY <1>1, <1>3, LocalNumbers DEF gone
<1> QED
  BY <1>2, <1>7, <1>9, <1>10, <1>12, <1>13, CacheKept

\* A page opens, or is unlocked: a call of startSync begins.
LEMMA StartsCache ==
    ASSUME CacheInv, ViewInv', NEW t \in Tabs, Open(t) \/ Unlock(t)
    PROVE  CacheInv'
<1>1. /\ TypeOK /\ ViewParts(t) /\ TaskShape(t)
      /\ ~Lagging => ResetLast(t) /\ Ready(t) /\ Behind(t) /\ Swept(t)
      /\ ~Lagging /\ Sole => Vouched(t) /\ \A s \in 1..cursor : Safe(s)
  BY CacheGives
<1>2. \A u \in Tabs \ {t} : UNCHANGED Local(u)
  BY <1>1, OpenLocal, UnlockLocal
<1>3. StartSync(t) /\ UNCHANGED <<queue, lastSeq, running, ops, failed, blocked, rows, cursor, wiped, gone>>
  BY DEF Open, Unlock, disk, engine, cache, flow
<1>4. \A l \in Slots : \/ boot'[t][l] = boot[t][l]
                       \/ boot[t][l].st = "none" /\ boot'[t][l].st = "prelude"
  <2>1. CASE syncing[t]
    BY <1>3, <2>1 DEF StartSync
  <2>2. CASE ~syncing[t]
    <3> DEFINE c == [st |-> "prelude", cur |-> TRUE, read |-> 0]
    <3>1. PICK k \in FreeCalls(t) : boot' = [boot EXCEPT ![t][k] = c]
      BY <1>3, <2>2 DEF StartSync
    <3>2. k \in Slots /\ boot[t][k].st = "none" /\ c \in Call /\ c.st = "prelude"
      BY NumberTypes DEF FreeCalls, Call
    <3> HIDE DEF c
    <3>3. boot'[t][k] = c /\ \A l \in Slots \ {k} : boot'[t][l] = boot[t][l]
      BY <1>1, <3>1, <3>2, BootFacts DEF TypeOK
    <3> QED BY <3>2, <3>3
  <2> QED BY <2>1, <2>2
<1>5. \A l \in Slots : boot'[t][l].st = "read" \/ boot[t][l].st = "queued" => boot'[t][l] = boot[t][l]
  BY <1>4
<1>6. /\ Runs(t)' = Runs(t) /\ Failing(t)' = Failing(t) /\ CurrentOps(t)' = CurrentOps(t)
      /\ ops' = ops /\ Lagging' = Lagging /\ Sole' = Sole
      /\ \A kind : TasksOf(t, kind)' = TasksOf(t, kind)
      /\ \A s : Excused(s)' = Excused(s)
  BY <1>3 DEF Runs, Failing, CurrentOps, Lagging, Sole, Single, TasksOf, gone, Excused
<1>7. \A i \in TasksOf(t, "seed") :
         queue[t][i].arg \in Slots /\ boot[t][queue[t][i].arg].st = "queued"
         /\ boot'[t][queue[t][i].arg] = boot[t][queue[t][i].arg]
  BY <1>1, <1>5, SlotArg DEF TaskShape
<1>8. TaskShape(t)'
  BY <1>1, <1>3, <1>6, <1>7 DEF TaskShape
<1>9. ASSUME ~Lagging PROVE Calm(t)'
  <2>1. ResetLast(t) /\ Ready(t) /\ Behind(t) /\ Swept(t)
    BY <1>1, <1>9
  <2>2. ResetLast(t)'
    BY <1>3, <1>6, <2>1 DEF ResetLast, Runs, Failing
  <2>3. Ready(t)'
    <3> SUFFICES ASSUME NEW k \in Slots, boot'[t][k].cur, ~Runs(t)
                 PROVE  /\ \A i \in TasksOf(t, "seed") : queue[t][i].arg = k =>
                              (i + 1)..Len(queue[t]) \subseteq TasksOf(t, "seed")
                        /\ boot'[t][k].st = "read" =>
                              ~Failing(t) /\ 1..Len(queue[t]) \subseteq TasksOf(t, "seed")
      BY <1>3, <1>6 DEF Ready, Runs, Failing
    <3>1. CASE boot'[t][k] = boot[t][k]
      BY <2>1, <3>1 DEF Ready, Runs, Failing
    <3>2. CASE boot[t][k].st = "none" /\ boot'[t][k].st = "prelude"
      BY <1>7, <3>2
    <3> QED BY <1>4, <3>1, <3>2
  <2>4. Behind(t)'
    BY <1>3, <1>5, <1>6, <2>1 DEF Behind, Runs, Single
  <2>5. Swept(t)'
    BY <1>3, <1>6, <2>1 DEF Swept, Runs, Single
  <2> QED BY <2>2, <2>3, <2>4, <2>5 DEF Calm
<1>10. \A s : Safe(s)' = Safe(s)
  <2>1. \A s : Folded(s)' = Folded(s)
    BY <1>3 DEF Folded, TasksOf
  <2> QED BY <1>6, <2>1 DEF Safe
<1>11. ASSUME ~Lagging, Sole PROVE Vouched(t)' /\ \A s \in 1..cursor' : Safe(s)'
  <2>1. VouTask(t) /\ VouPut(t) /\ VouLast(t) /\ VouRead(t) /\ \A s \in 1..cursor : Safe(s)
    BY <1>1, <1>11, VouchedParts
  <2>2. \A s, j : Covered(t, s, j)' = Covered(t, s, j)
    BY <1>3, <1>6, <1>10 DEF Covered, Safe
  <2>3. VouTask(t)' /\ VouPut(t)'
    BY <1>3, <1>6, <2>1, <2>2 DEF VouTask, VouPut
  <2>4. VouLast(t)'
    BY <1>3, <1>6, <2>1, <2>2 DEF VouLast
  <2>5. VouRead(t)'
    BY <1>3, <1>5, <1>10, <2>1 DEF VouRead
  <2> QED BY <1>3, <1>10, <2>1, <2>3, <2>4, <2>5, VouchedParts
<1>12. wiped <= wiped' /\ skipped[t] \subseteq skipped'[t] /\ rows \subseteq rows'
  BY <1>1, <1>3, LocalNumbers DEF gone
<1> QED
  BY <1>2, <1>6, <1>8, <1>9, <1>11, <1>12, CacheKept

\* A page that goes away promises nothing, and what is on disk stays.
LEMMA CrashCache ==
    ASSUME CacheInv, ViewInv', NEW t \in Tabs, Crash(t)
    PROVE  CacheInv'
<1>1. /\ TypeOK /\ ViewParts(t) /\ TaskShape(t)
      /\ ~Lagging /\ Sole => Vouched(t) /\ \A s \in 1..cursor : Safe(s)
  BY CacheGives
<1>2. \A u \in Tabs \ {t} : UNCHANGED Local(u)
  BY <1>1, CrashLocal
<1>3. UNCHANGED <<rows, cursor, wiped, gone>>
  BY DEF Crash, disk
<1>4. queue'[t] = <<>> /\ ~Runs(t)' /\ ~Failing(t)'
  BY <1>1 DEF Crash, FlowBecomes, Runs, Failing, TypeOK, FlowType, EngineType, CacheType
<1>5. \A l \in Slots : boot'[t][l] = NoCall /\ ops'[t][l] = NoOp
  BY <1>1 DEF Crash, TypeOK, ShellType, EngineType
<1>6. /\ \A kind : TasksOf(t, kind)' = {}
      /\ CurrentOps(t)' = {} /\ Lagging' = Lagging /\ Sole' = Sole
      /\ \A l \in Slots : ~boot'[t][l].cur /\ boot'[t][l].st # "read"
      /\ \A s : Excused(s)' = Excused(s)
  BY <1>3, <1>4, <1>5 DEF TasksOf, CurrentOps, NoOp, NoCall, Lagging, Sole, Single, gone, Excused
<1>7. TaskShape(t)'
  BY <1>4, <1>6 DEF TaskShape
<1>8. Calm(t)'
  <2>1. ResetLast(t)'
    BY <1>4, <1>6 DEF ResetLast, Failing
  <2>2. Ready(t)' /\ Behind(t)'
    BY <1>4, <1>6 DEF Ready, Behind, Runs
  <2>3. Swept(t)'
    BY <1>6, SweptNothing
  <2> QED BY <2>1, <2>2, <2>3 DEF Calm
<1>9. ASSUME NEW s, Safe(s) PROVE Safe(s)'
  <2>1. \A u \in Tabs : \A i \in TasksOf(u, "apply")' : i \in TasksOf(u, "apply") /\ queue'[u][i] = queue[u][i]
    <3> TAKE u \in Tabs
    <3>1. CASE u = t
      BY <1>6, <3>1
    <3>2. CASE u # t
      BY <1>2, <3>2 DEF TasksOf, Local
    <3> QED BY <3>1, <3>2
  <2>2. Folded(s) => Folded(s)'
    BY <1>3, <2>1 DEF Folded
  <2> QED BY <1>6, <1>9, <2>2 DEF Safe
<1>10. ASSUME ~Lagging, Sole PROVE Vouched(t)' /\ \A s \in 1..cursor' : Safe(s)'
  <2>1. VouTask(t)' /\ VouPut(t)' /\ VouLast(t)' /\ VouRead(t)'
    BY <1>4, <1>6 DEF VouTask, VouPut, VouLast, VouRead
  <2> QED BY <1>1, <1>3, <1>9, <1>10, <2>1, VouchedParts
<1>11. wiped <= wiped' /\ skipped[t] \subseteq skipped'[t] /\ rows \subseteq rows'
  BY <1>1, <1>3, LocalNumbers DEF gone
<1> QED
  BY <1>2, <1>6, <1>7, <1>8, <1>10, <1>11, CacheKept

\* Every step of the system keeps what the cache promises.
LEMMA CacheStepInv ==
    ASSUME CacheInv, [Next]_vars
    PROVE  CacheInv'
<1>1. ViewInv /\ ViewInv'
  BY CacheInvParts, ViewStep
<1>2. CASE UNCHANGED vars
  <2>1. UNCHANGED <<queue, lastSeq, running, failed, blocked, boot, ops, rows, cursor, wiped, gone>>
    BY <1>2 DEF vars, disk, shell, engine, cache, flow
  <2> QED BY <1>1, <2>1, CacheSame
<1>3. CASE Publish \/ Expire
  BY <1>1, <1>3, NetCache
<1>4. ASSUME NEW t \in Tabs,
             \/ CacheStep(t) \/ StoreFails(t) \/ BootStep(t)
             \/ Connects(t) \/ SocketStep(t) \/ SocketDrops(t)
             \/ \E k \in Slots : OpStep(t, k) \/ RefetchFails(t, k)
             \/ \E p \in polls[t] : PollStep(t, p) \/ PollFails(t, p)
             \/ Open(t) \/ Lock(t) \/ Unlock(t) \/ Crash(t)
      PROVE  CacheInv'
  <2>1. CASE CacheStep(t)
    BY <1>1, <2>1, ApplyCache, CursorCache, ResetClearsCache, ResetDeletesCache, SeedReadsCache
       DEF CacheStep
  <2>2. CASE StoreFails(t)
    BY <1>1, <2>2, ApplyCache, CursorCache, SeedReadsCache DEF StoreFails
  <2>3. CASE BootStep(t)
    BY <1>1, <2>3, PreludeEndsCache, PreludeFailsCache, SeedUsedCache DEF BootStep
  <2>4. CASE Connects(t) \/ SocketDrops(t)
    BY <1>1, <2>4, NetCache
  <2>5. CASE SocketStep(t)
    BY <1>1, <2>5, NetCache, HelloArrivesCache, EventArrivesCache DEF SocketStep
  <2>6. CASE \E k \in Slots : OpStep(t, k) \/ RefetchFails(t, k)
    BY <1>1, <2>6, RefetchedCache, OpWakesCache, RefetchFailsCache DEF OpStep
  <2>7. CASE \E p \in polls[t] : PollStep(t, p) \/ PollFails(t, p)
    BY <1>1, <2>7, NetCache, PollReturnsCache DEF PollStep
  <2>8. CASE Open(t) \/ Lock(t) \/ Unlock(t) \/ Crash(t)
    BY <1>1, <2>8, StartsCache, LockCache, CrashCache
  <2> QED BY <1>4, <2>1, <2>2, <2>3, <2>4, <2>5, <2>6, <2>7, <2>8
<1> QED
  BY <1>2, <1>3, <1>4 DEF Next

LEMMA InitCache ==
    Init => CacheInv
<1> SUFFICES ASSUME Init PROVE CacheInv
  OBVIOUS
<1>1. ViewInv
  BY InitView
<1>2. /\ cursor = 0 /\ wiped = 0
      /\ \A t \in Tabs : /\ queue[t] = <<>> /\ lastSeq[t] = 0 /\ ~Runs(t) /\ ~Failing(t)
                         /\ \A k \in Slots : ops[t][k] = NoOp /\ boot[t][k] = NoCall
  BY DEF Init, Runs, Failing
<1>3. \A t \in Tabs : CurrentOps(t) = {} /\ \A kind : TasksOf(t, kind) = {}
  BY <1>2 DEF CurrentOps, NoOp, TasksOf
<1>4. \A t \in Tabs : TaskShape(t)
  BY <1>2, <1>3 DEF TaskShape
<1>5. \A t \in Tabs : ResetLast(t) /\ Ready(t)
  BY <1>2, <1>3 DEF ResetLast, Ready, Runs, Failing, NoCall
<1>6. \A t \in Tabs : Behind(t) /\ Swept(t)
  BY <1>2, <1>3 DEF Behind, Swept, Runs, NoCall
<1>7. \A t \in Tabs : Vouched(t)
  BY <1>2, <1>3 DEF Vouched, Runs, NoCall
<1> QED
  BY <1>1, <1>2, <1>4, <1>5, <1>6, <1>7 DEF CacheInv

\* What the engines, their tasks and their resyncs may rely on about the cache, on
\* every reachable state: a reset stays behind the events it would lose, and every
\* cursor that is on its way to the disk is covered by the rows or by tasks ahead.
THEOREM CacheInvariant ==
    Spec => []CacheInv
<1>1. Init => CacheInv
  BY InitCache
<1>2. CacheInv /\ [Next]_vars => CacheInv'
  BY CacheStepInv
<1> QED
  BY <1>1, <1>2, PTL DEF Spec

\* The durable cursor never passes an event that a restart would then miss: while
\* nothing was wiped, or for a single tab, and but for events recorded as skipped.
THEOREM CursorVouches ==
    Spec => []CursorSound
<1>1. CacheInv => CursorSound
  <2> SUFFICES ASSUME CacheInv, ~late, Sole, NEW s \in 1..cursor \ UNION Range(skipped)
               PROVE  s \in rows \/ (s <= wiped /\ \A r \in rows : r > s)
    BY DEF CursorSound
  <2>1. TypeOK
    BY DEF CacheInv, ViewInv
  <2>2. \A t \in Tabs : s \notin skipped[t]
    BY <2>1 DEF TypeOK, PastType, Range
  <2>3. ~Excused(s)
    BY <2>2 DEF Excused
  <2>4. Folded(s)
    BY <2>3 DEF CacheInv
  <2> QED BY <2>4 DEF Folded
<1> QED
  BY <1>1, CacheInvariant, PTL
=============================================================================
