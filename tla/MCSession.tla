------------------------------ MODULE MCSession ------------------------------
(* Values for the runs of Session: two accounts. *)
EXTENDS Session

TwoUsers == {1, 2}
=============================================================================
