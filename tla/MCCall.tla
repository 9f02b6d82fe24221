------------------------------- MODULE MCCall -------------------------------
(* Model values and bounds for the runs of Call. *)
EXTENDS Call

CONSTANTS a, b

Two == {a, b}
=============================================================================
