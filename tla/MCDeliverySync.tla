-------------------------- MODULE MCDeliverySync ---------------------------
(* Model values and bounds for the runs of DeliverySync. *)
EXTENDS DeliverySync, TLC

CONSTANTS t1, t2

OneTab  == {t1}
TwoTabs == {t1, t2}

Nothing     == [e \in Events |-> 0]
CacheEvents == [e \in Events |-> 1]
LiveEvents  == [[e \in Events |-> 1] EXCEPT !["crash"] = 0, !["storeFail"] = 0]
=============================================================================
