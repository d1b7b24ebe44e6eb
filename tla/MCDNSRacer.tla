---------------------------- MODULE MCDNSRacer -------------------------------
(* Small races; the .cfg files choose the racer and its servers. *)
EXTENDS DNSRacer

CONSTANTS p1, p2, f1

OnePrimary == {p1}
TwoPrimaries == {p1, p2}
NoServer == {}
OneFallback == {f1}
==============================================================================
