------------------------------ MODULE MCRouter ------------------------------
(***************************************************************************)
(* Configurations with an IPv4 range of two usable addresses, with an IPv6 *)
(* range of one and with one too small for its first address, and rules    *)
(* that sniff twice, resolve, override and select.  Domains, callers and   *)
(* goroutines are interchangeable.                                         *)
(***************************************************************************)
EXTENDS Router, TLC

MCFamily == {"inet4", "inet6"}
MCAddress == 0..6
MCFamilyOf == [a \in MCAddress |-> IF a < 4 THEN "inet4" ELSE "inet6"]
MCOptions == {[inet4 |-> 0..3, inet6 |-> {}], [inet4 |-> {}, inet6 |-> 4..6],
              [inet4 |-> {}, inet6 |-> {4}]}

MCRules ==
    << [on |-> "any", action |-> "sniff", names |-> "all", networks |-> {"tcp", "udp"}],
       [on |-> "protocol", action |-> "hijack-dns"],
       [on |-> "any", action |-> "sniff", names |-> "all", networks |-> {"tcp", "udp"}],
       [on |-> "domain", action |-> "resolve", fallbackToFinal |-> TRUE],
       [on |-> "address", action |-> "route-options", override |-> TRUE],
       [on |-> "protocol", action |-> "reject"],
       [on |-> "domain", action |-> "route", override |-> FALSE] >>

MCDNSRules ==
    << [action |-> "route-options", limit |-> FALSE, disableCache |-> TRUE],
       [action |-> "route", servers |-> {"fake"}, fallbacks |-> {"a"}, limit |-> FALSE,
        disableCache |-> FALSE],
       [action |-> "route", servers |-> {"a"}, fallbacks |-> {"b"}, limit |-> TRUE,
        disableCache |-> FALSE],
       [action |-> "predefined", limit |-> FALSE, success |-> TRUE],
       [action |-> "route", servers |-> {"a", "b", "gone"}, fallbacks |-> {}, limit |-> FALSE,
        disableCache |-> FALSE],
       [action |-> "predefined", limit |-> TRUE, success |-> FALSE],
       [action |-> "reject", limit |-> FALSE] >>

Symmetry == Permutations(Domain) \cup Permutations(Creator) \cup Permutations(Writer)
=============================================================================
