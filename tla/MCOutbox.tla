------------------------------ MODULE MCOutbox ------------------------------
(* Model values and bounds for the runs of Outbox. *)
EXTENDS Outbox, TLC

CONSTANTS t1, t2, m1, m2, d1, c1, l1, l2

OneTab  == {t1}
TwoTabs == {t1, t2}

NoItems    == {}
OneMessage == {m1}
TwoMessages == {m1, m2}
OneDelete  == {d1}

OneList  == {l1}
TwoLists == {l1, l2}
Symm  == Permutations(TwoTabs) \cup Permutations(TwoLists)
Alike == Permutations(TwoMessages) \cup Permutations(TwoLists)

OneChat  == {c1}
NoChats  == {}
InOneChat == [i \in Items |-> c1]

Nothing == [e \in Events |-> 0]
Stops   == [Nothing EXCEPT !["pause"] = 1, !["crash"] = 1]
UndoEvents  == [Stops EXCEPT !["cancel"] = 1, !["online"] = 1, !["storeFail"] = 1]
OrderEvents == [Stops EXCEPT !["fail"] = 1, !["online"] = 1, !["storeFail"] = 1]
MixedEvents == [OrderEvents EXCEPT !["pause"] = 2, !["flush"] = 1, !["policy"] = 2, !["overlap"] = 2, !["retry"] = 1]
SettleEvents == [Stops EXCEPT !["fail"] = 1, !["online"] = 1]

Never(es) == \A e \in es : used'[e] = 0
OneStop == Never({"pause"}) \/ Never({"crash"})

\* A lock and a crash, or a failed request with one of them.
Settling == OneStop \/ Never({"fail"})

\* Several list() calls of a tab at once.
Busy(t, l) == drive'[t][l].pc # "idle"
Beside(t) == \E l, m \in Lists : l # m /\ Busy(t, l) /\ Busy(t, m)

\* With a delete: a crash or a store failure.  Several lists at once only without
\* both, and while nothing runs in the other tab.
Quiet(t) == \A i \in Items : job'[t][i].pc = "idle" /\ call'[t][i].pc = "idle"
UndoMixes ==
    /\ Never({"crash"}) \/ Never({"storeFail"})
    /\ \A t \in Tabs : Beside(t) =>
          /\ Never({"crash", "storeFail"})
          /\ \A u \in Tabs \ {t}, l \in Lists : Quiet(u) /\ ~Busy(u, l)

\* With messages: failing requests; a failing store; a change of policy with a
\* failure and a retry, or without; one that is taken back, with a flush; each
\* with a lock or a crash.
MessageMixes == OneStop /\
    \/ Never({"policy", "flush", "retry", "storeFail"})
    \/ Never({"policy", "flush", "retry", "fail"})
    \/ used'["policy"] <= 1 /\ Never({"pause", "crash", "storeFail", "flush"})
    \/ used'["policy"] <= 1 /\ Never({"storeFail", "fail", "flush", "retry"})
    \/ Never({"pause", "crash", "storeFail", "fail", "retry"})
\* Several lists at once only beside a change of policy or a flush with one
\* message, or after locks.
Under(kind) == \E t \in Tabs, l \in Lists : drive'[t][l].kind = kind
OrderMixes ==
    /\ MessageMixes
    /\ used'["pause"] <= 1 \/ Never(Events \ {"pause"})
    /\ (\E t \in Tabs : Beside(t)) =>
          \/ Len(born') <= 1 /\ (Under("policy") \/ Under("flush")) /\ Never({"crash", "storeFail"})
          \/ Never(Events \ {"pause"}) /\ ~Under("online")
=============================================================================
