------------------------------ MODULE MCWsClient ------------------------------
(* Model values and bounds for the runs of WsClient. *)
EXTENDS WsClient

CONSTANTS s1, s2, s3

TwoSockets   == {s1, s2}
ThreeSockets == {s1, s2, s3}

OnceEach == [e \in Events |-> 1]
=============================================================================
