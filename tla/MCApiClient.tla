----------------------------- MODULE MCApiClient -----------------------------
(* Model values and bounds for the run of ApiClient. *)
EXTENDS ApiClient, TLC

CONSTANTS t1, t2

TwoTabs == {t1, t2}
=============================================================================
