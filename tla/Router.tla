------------------------------- MODULE Router -------------------------------
(***************************************************************************)
(* The rules an inbound connection goes through (matchRule, actionSniff    *)
(* and actionResolve of src/route/route.go, PeekStream of                  *)
(* src/common/sniff/sniff.go), in front of the FakeIP store that turns a   *)
(* fake destination back into a domain, and of the DNS router, whose       *)
(* reverse mapping may know the name of another one.                       *)
(*                                                                         *)
(* One connection at a time, since connections share nothing but the       *)
(* store; and the store stands still while one is matched, since the rules *)
(* do not read it again, so that their steps commute with the store's.     *)
(* Queries of the DNS router, which resolve actions, dialers and DNS       *)
(* clients make, come before the first address is allocated, for the same  *)
(* reason: they and the store read nothing of each other.                  *)
(*                                                                         *)
(* The payload is the numbers 1, 2, ... of the segments or packets in the  *)
(* order they were sent; how many of them sniffing reads and what it makes *)
(* of them is chosen freely.  A rule's conditions are reduced to what the  *)
(* actions before it may change.  Left out: the deprecated inbound         *)
(* options and destination override of sniffing, ports that are never      *)
(* sniffed, process lookup, detours, PreMatch and options of a route other *)
(* than an address override.                                               *)
(***************************************************************************)
EXTENDS FakeIP, DNSRouter

S == INSTANCE SequencesExt

CONSTANTS
    rules,          \* the configured rules
    MaxArrival,     \* bound on the addresses allocated, and on the starts of the
                    \* program, when a connection arrives
    MaxPayload,     \* bound on the segments or packets sniffing reads
    NoFake          \* a destination that is no FakeIP address

Condition == {"any", "domain", "address", "protocol"}
Rule == [on : Condition, action : {"sniff"}, names : STRING,
         networks : SUBSET {"tcp", "udp"}]
        \cup [on : Condition, action : {"resolve"}, fallbackToFinal : BOOLEAN]
        \cup [on : Condition, action : {"route", "route-options"}, override : BOOLEAN]
        \cup [on : Condition, action : {"reject", "hijack-dns"}]

ASSUME RouterAssumption ==
    /\ rules \in Seq(Rule)
    /\ MaxPayload \in Nat /\ MaxArrival \in Nat
    /\ NoFake \notin Domain

VARIABLE conn       \* the connection and its metadata

routerVars == <<fakeIPVars, dnsVars, conn>>

NoConn == [pc |-> "none"]

NewConn(network, destination, named) ==
    [pc |-> "match", network |-> network, destination |-> destination, rule |-> 1,
     named |-> named,           \* Domain is known, by sniffing or reverse mapping
     resolved |-> FALSE,        \* DestinationAddresses of this destination
     protocol |-> FALSE,        \* Protocol is known
     names |-> "none", sniffError |-> "nil",
     read |-> 0,                \* payload taken from the inbound connection
     buffers |-> <<>>,          \* what was kept of it
     again |-> FALSE]           \* history: sniffing went over it a second time

RouterInit == Init /\ DNSInit /\ conn = NoConn

Current == rules[conn.rule]
Matching == conn.pc = "match" /\ conn.rule <= Len(rules)

Match(r) ==
    CASE r.on = "any" -> TRUE
      [] r.on = "domain" -> conn.destination \in Domain \/ conn.named
      [] r.on = "address" -> conn.destination \notin Domain \/ conn.resolved
      [] r.on = "protocol" -> conn.protocol

\* The next rule, with the metadata the action leaves.
Proceed(c) == conn' = [c EXCEPT !.rule = conn.rule + 1]

\* matchRule returns: the verdict is a selected rule, none, or an error.
Verdict(v) == conn' = [conn EXCEPT !.pc = v]

-----------------------------------------------------------------------------
\* No address is being created.
StoreQuiet ==
    phase = "running" /\ starts <= MaxArrival /\ \A p \in Creator : creator[p] = Idle

\* A fake destination is looked up; without a record the connection fails.  For
\* another one the DNS router may remember the name it was the answer for
\* (LookupReverseMapping).
Arrive(network, a) ==
    /\ conn.pc = "none" /\ StoreQuiet /\ Len(order) <= MaxArrival
    /\ query = NoQuery /\ dnsCache = "none" /\ pollution = {}
    /\ IF a = NoFake \/ ~Contains(options, a)
       THEN \E named \in {FALSE, reverseMapping # {}} : conn' = NewConn(network, NoFake, named)
       ELSE /\ FakeIPLoad(a) # NoDomain
            /\ conn' = NewConn(network, FakeIPLoad(a), FALSE)
    /\ UNCHANGED <<fakeIPVars, dnsVars>>

RuleSkipped ==
    /\ Matching /\ ~Match(Current)
    /\ Proceed(conn)
    /\ UNCHANGED <<fakeIPVars, dnsVars>>

\* The protocol is known, the sniffers are for the other network, or the same
\* ones have failed before.
SniffUseless ==
    \/ conn.protocol
    \/ conn.network \notin Current.networks
    \/ conn.names = Current.names /\ conn.sniffError = "other"

SniffSkipped ==
    /\ Matching /\ Match(Current) /\ Current.action = "sniff" /\ SniffUseless
    /\ Proceed(conn)
    /\ UNCHANGED <<fakeIPVars, dnsVars>>

Sniffs(network) ==
    /\ Matching /\ Match(Current) /\ Current.action = "sniff" /\ ~SniffUseless
    /\ conn.network = network

Payload(n) == [i \in 1..n |-> conn.read + i]

\* Mutant: what was read is kept only if the protocol was recognised.
MutantKept(n, err) == IF n > 0 /\ err = "nil" THEN <<Payload(n)>> ELSE <<>>

Kept(n, err) == IF n > 0 THEN <<Payload(n)>> ELSE <<>>

\* A protocol that is recognised may come with a domain name.
Named(recognised) == IF recognised THEN {conn.named, TRUE} ELSE {conn.named}

\* PeekStream reads n times while the sniffers ask for more.  Without any data
\* it fails; a later read that fails leaves their request as the error.
SniffStream(n, err) ==
    /\ Sniffs("tcp") /\ conn.read + n <= MaxPayload
    /\ n = 0 => err = "other"
    /\ \E named \in Named(err = "nil") :
       Proceed([conn EXCEPT !.names = Current.names, !.sniffError = err, !.named = named,
                  !.protocol = (err = "nil"), !.read = conn.read + n,
                  !.buffers = conn.buffers \o Kept(n, err),
                  !.again = conn.again \/ (n > 0 /\ conn.buffers # <<>>)])
    /\ UNCHANGED <<fakeIPVars, dnsVars>>

\* The packets already captured settle it.
SniffCaptured(err) ==
    /\ Sniffs("udp") /\ conn.buffers # <<>>
    /\ \E named \in Named(err = "nil") :
       Proceed([conn EXCEPT !.names = Current.names, !.sniffError = err, !.named = named,
                  !.protocol = (err = "nil")])
    /\ UNCHANGED <<fakeIPVars, dnsVars>>

\* The packets captured ask for more, and n more are read: the last one
\* settles it, or the read after it times out and changes no metadata.  The
\* captured ones are returned with the new ones, and appended to themselves.
SniffPackets(n, err, timedOut) ==
    /\ Sniffs("udp") /\ conn.read + n <= MaxPayload
    /\ n = 0 => timedOut
    /\ timedOut => err = IF n > 0 \/ conn.buffers # <<>> THEN "more" ELSE conn.sniffError
    /\ ~timedOut => err # "more"
    /\ \E named \in Named(~timedOut /\ err = "nil") :
       Proceed([conn EXCEPT !.named = named,
                  !.names = IF n > 0 \/ conn.buffers # <<>> THEN Current.names ELSE conn.names,
                  !.sniffError = err,
                  !.protocol = ~timedOut /\ err = "nil", !.read = conn.read + n,
                  !.buffers = conn.buffers \o conn.buffers \o [i \in 1..n |-> <<conn.read + i>>],
                  !.again = conn.again \/ conn.buffers # <<>>])
    /\ UNCHANGED <<fakeIPVars, dnsVars>>

\* Reading a packet fails, or the context ends.
SniffFails ==
    /\ Sniffs("udp")
    /\ Verdict("error")
    /\ UNCHANGED <<fakeIPVars, dnsVars>>

Resolve ==
    /\ Matching /\ Match(Current) /\ Current.action = "resolve"
    /\ Proceed([conn EXCEPT !.resolved = @ \/ conn.destination \in Domain])
    /\ UNCHANGED <<fakeIPVars, dnsVars>>

\* A lookup that fails ends the match: at the default outbound with
\* fallback_to_final, unless the context ended or the server does not exist.
ResolveFails ==
    /\ Matching /\ Match(Current) /\ Current.action = "resolve"
    /\ conn.destination \in Domain
    /\ \/ Current.fallbackToFinal /\ conn' = [conn EXCEPT !.pc = "default", !.resolved = FALSE]
       \/ Verdict("error")
    /\ UNCHANGED <<fakeIPVars, dnsVars>>

\* An override replaces the destination and forgets its addresses.
Overridden(c) == IF Current.override THEN [c EXCEPT !.destination = NoFake, !.resolved = FALSE] ELSE c

RouteOptions ==
    /\ Matching /\ Match(Current) /\ Current.action = "route-options"
    /\ Proceed(Overridden(conn))
    /\ UNCHANGED <<fakeIPVars, dnsVars>>

Selected ==
    /\ Matching /\ Match(Current) /\ Current.action \in {"route", "reject", "hijack-dns"}
    /\ conn' = [IF Current.action = "route" THEN Overridden(conn) ELSE conn
                EXCEPT !.pc = Current.action]
    /\ UNCHANGED <<fakeIPVars, dnsVars>>

NoneSelected ==
    /\ conn.pc = "match" /\ conn.rule > Len(rules)
    /\ Verdict("default")
    /\ UNCHANGED <<fakeIPVars, dnsVars>>

\* The connection goes on to its outbound, or is closed.
Leave ==
    /\ conn.pc \notin {"none", "match"}
    /\ conn' = NoConn
    /\ UNCHANGED <<fakeIPVars, dnsVars>>

\* The buffers in the order they will be read.  Each one is put in front of the
\* connection, the last one outermost; the packets for hijack-dns are passed as they
\* are.
PassedOn(c) == c.network = "udp" /\ c.pc = "hijack-dns"
Delivered == IF PassedOn(conn) THEN conn.buffers ELSE S!Reverse(conn.buffers)

\* The store's steps, and the DNS router's.
StoreGoesOn ==
    /\ conn.pc = "none"
    /\ query = NoQuery /\ dnsCache = "none" /\ reverseMapping = {} /\ pollution = {}
    /\ FakeIPNext
    /\ UNCHANGED <<dnsVars, conn>>

DNSGoesOn ==
    /\ conn.pc = "none" /\ StoreQuiet /\ order = <<>>
    /\ DNSNext
    /\ UNCHANGED <<fakeIPVars, conn>>

RouterNext ==
    \/ StoreGoesOn \/ DNSGoesOn
    \/ \E network \in {"tcp", "udp"}, a \in Address \cup {NoFake} : Arrive(network, a)
    \/ RuleSkipped \/ SniffSkipped \/ SniffFails
    \/ \E n \in 0..MaxPayload, err \in {"nil", "more", "other"} :
          SniffStream(n, err) \/ \E timedOut \in BOOLEAN : SniffPackets(n, err, timedOut)
    \/ \E err \in {"nil", "other"} : SniffCaptured(err)
    \/ Resolve \/ ResolveFails \/ RouteOptions \/ Selected \/ NoneSelected \/ Leave

RouterSpec == RouterInit /\ [][RouterNext]_routerVars

-----------------------------------------------------------------------------
\* Of a list of parts: one of them has a unit; a part holds units that follow one
\* another; one holds only units sent before those of another.
Holds(parts, u) == \E k \in 1..Len(parts) : \E j \in 1..Len(parts[k]) : parts[k][j] = u
Consecutive(part) == \A j \in 1..Len(part) : part[j] = part[1] + (j - 1)
Before(p, q) == \A i \in 1..Len(p), j \in 1..Len(q) : p[i] < q[j]

\* Sniffing takes nothing away from a connection that goes on: the outbound, or the
\* DNS handler, reads every segment and every packet that was looked at, whatever
\* the rules.  What order they come in, and how often, depends on how the router has
\* kept them:
\*  - the parts of a stream are each read whole, but the last one first, so that a
\*    stream of which two sniff actions have kept a part comes in the wrong order;
\*  - unless sniffing went over it a second time, a stream has one part, all that
\*    was read, and packets are read once: in the order they came for hijack-dns,
\*    last one first otherwise;
\*  - packets that a second action found incomplete are doubled.
\* (route.go:116-121, 134-136, 233, 244-246, 457-461, 611, 661.)
ReplayedWhole ==
    conn.pc \in {"route", "default", "hijack-dns"} =>
        /\ \A u \in 1..conn.read : Holds(Delivered, u)
        /\ conn.network = "tcp" =>
              /\ \A k \in 1..Len(Delivered) : Consecutive(Delivered[k])
              /\ \A k, l \in 1..Len(Delivered) : k < l => Before(Delivered[l], Delivered[k])
        /\ ~conn.again =>
              Delivered = IF conn.network = "tcp"
                          THEN IF conn.read = 0 THEN <<>> ELSE <<[i \in 1..conn.read |-> i]>>
                          ELSE [i \in 1..conn.read |->
                                  <<IF PassedOn(conn) THEN i ELSE conn.read + 1 - i>>]

\* The lists of sniffers of the configured rules, and none before the first.
SniffNames == {"none"} \cup {rules[i].names : i \in {j \in 1..Len(rules) : rules[j].action = "sniff"}}

\* What was kept of a connection: all that was read and nothing else, of a stream in
\* parts that follow one another; if it was not sniffed twice, one buffer of a stream,
\* one for each packet.
PayloadInv(c) ==
    /\ \A u \in 1..c.read : Holds(c.buffers, u)
    /\ \A k \in 1..Len(c.buffers) : \A j \in 1..Len(c.buffers[k]) : c.buffers[k][j] <= c.read
    /\ c.network = "tcp" =>
          /\ \A k \in 1..Len(c.buffers) : Consecutive(c.buffers[k])
          /\ \A k, l \in 1..Len(c.buffers) : k < l => Before(c.buffers[k], c.buffers[l])
    /\ ~c.again => c.buffers = IF c.network = "udp" THEN [i \in 1..c.read |-> <<i>>]
                              ELSE IF c.read = 0 THEN <<>>
                              ELSE <<[i \in 1..c.read |-> i]>>

ConnInv ==
    /\ conn \in {NoConn} \cup
          [pc : {"match", "route", "reject", "hijack-dns", "default", "error"},
           network : {"tcp", "udp"}, destination : Domain \cup {NoFake},
           rule : 1..(Len(rules) + 1), named : BOOLEAN, resolved : BOOLEAN,
           protocol : BOOLEAN, names : SniffNames, sniffError : {"nil", "more", "other"},
           read : 0..MaxPayload, buffers : Seq(Seq(Nat)), again : BOOLEAN]
    /\ conn # NoConn => PayloadInv(conn)

\* What every step of the store, of the DNS router's rule loop and of the router's
\* rules preserves (store.go:34-110, fakeip.go:43-210, router.go:192-637,
\* route.go:277-720).
RouterIInv == FakeIPIInv /\ OrderInv /\ DNSIInv /\ ConnInv
=============================================================================
