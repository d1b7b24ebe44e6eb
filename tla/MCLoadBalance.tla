--------------------------- MODULE MCLoadBalance -----------------------------
(* Two outbounds for TCP, none for UDP, and two calls. *)
EXTENDS LoadBalance, TLC

CONSTANTS a, b, d1, d2, tcp, udp

Outbounds == {a, b}
ListOrder == (a :> 1) @@ (b :> 2)
TwoCalls == {d1, d2}
OneCall == {d1}
TwoKeys == {tcp, udp}
NetworkSupport == (tcp :> {a, b}) @@ (udp :> {})
HashOrder == (tcp :> ListOrder) @@ (udp :> ((a :> 2) @@ (b :> 1)))
AllStrategies == {"round-robin", "consistent-hashing", "sticky-sessions"}
RoundRobin == {"round-robin"}
==============================================================================
