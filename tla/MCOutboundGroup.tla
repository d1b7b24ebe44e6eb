-------------------------- MODULE MCOutboundGroup ----------------------------
(* Two outbounds, of which the second carries TCP only, or one for TCP; two connections. *)
EXTENDS OutboundGroup, TLC

CONSTANTS a, b, c1, c2, u1, u2

Outbounds == {a, b}
ListOrder == (a :> 1) @@ (b :> 2)
NetworkSupport == {("tcp" :> {a, b}) @@ ("udp" :> {a}), ("tcp" :> {a}) @@ ("udp" :> {})}
TwoConns == {c1, c2}
OneExternal == {{c1}}
TcpAndAny == {(c1 :> "tcp") @@ (c2 :> n) : n \in {"tcp", "udp"}}
TwoCallers == {u1, u2}
AllKinds == {"fallback", "urltest", "selector"}
Fallback == {"fallback"}
DelaySet == {20, 90}
==============================================================================
