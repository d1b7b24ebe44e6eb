---------------------------- MODULE MCDNSClient ------------------------------
(* A few requests for one question, two servers and two subnets. *)
EXTENDS DNSClient

CONSTANTS r1, r2, r3, q1, t1, t2, s1, none

Requests == {r1, r2, r3}
OneQuestion == {q1}
TwoTransports == {t1, t2}
TwoSubnets == {none, s1}

Call(t, s, c, d, p) ==
    [question |-> q1, transport |-> t, subnet |-> s, checked |-> c,
     disableCache |-> d, parent |-> p]

\* The global cache: callers with an address limit, callers with a client
\* subnet, and a server whose address is resolved through the other one.
GlobalCalls ==
    {Call(t1, none, TRUE, FALSE, NoReq), Call(t2, s1, FALSE, FALSE, NoReq),
     Call(t2, none, FALSE, FALSE, r1)}

\* The independent cache: two servers, two subnets, a query that does not use
\* the cache.
IndependentCalls ==
    {Call(t1, s, FALSE, FALSE, NoReq) : s \in TwoSubnets}
        \cup {Call(t2, none, TRUE, FALSE, NoReq), Call(t1, none, FALSE, TRUE, NoReq)}

\* A server whose address is resolved through itself.
LoopingCalls ==
    {Call(t1, none, FALSE, FALSE, NoReq), Call(t1, none, FALSE, FALSE, r1)}
==============================================================================
