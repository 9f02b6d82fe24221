---------------------------- MODULE MCConnection ----------------------------
(* Model values, configurations and bounds for the run of Connection. *)
EXTENDS Connection

CONSTANTS home, other, relay, c1, c2

TwoServers == {home, other}
OneRelay == {relay}
TwoCalls == {c1, c2}
HomeRelay == [b \in {home, other, relay} |-> IF b = other THEN other ELSE home]

Relayed == [from |-> home, merged |-> [list |-> <<home, relay>>, relays |-> {relay}], force |-> None,
            policy |-> [race |-> TRUE, threshold |-> 1]]
Plain   == [from |-> other, merged |-> [list |-> <<other>>, relays |-> {}], force |-> None,
            policy |-> [race |-> FALSE, threshold |-> 3]]
SomeConfigs == {Relayed, [Relayed EXCEPT !.force = "reality"], Plain}

SomeEvents == [[e \in Events |-> 1] EXCEPT !["sync"] = 3]
=============================================================================
