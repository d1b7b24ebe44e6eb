------------------------------ MODULE DNSRouter ------------------------------
(***************************************************************************)
(* The DNS router's rule loop (Exchange, Lookup and matchDNS of            *)
(* src/dns/router.go) around the races of DNSRace, with what the queries   *)
(* of one name leave behind for each other: the client's global cache      *)
(* (independent_cache is off) and the reverse mapping.                     *)
(*                                                                         *)
(* One query at a time; what concurrent ones do to each other is in        *)
(* DNSClient.  An answer is "fake" (from the FakeIP server), "in" or "out" *)
(* (real addresses within or outside the address limit that the limited    *)
(* rules share), "negative" (an error code) or "predefined".  Which rules  *)
(* match is chosen with the query, since conditions see more than its      *)
(* name.  Strategies, client subnets and TTLs, which the options also      *)
(* carry, are left out.                                                    *)
(***************************************************************************)
EXTENDS Naturals, Sequences, FiniteSets

CONSTANTS
    dnsRules,           \* the configured rules
    Server,             \* the servers that exist
    FakeServer,         \* those of type fakeip
    DefaultServer,
    upstreamTimeout     \* 0: none, and no fallback servers either

DNSRule == [action : {"route"}, servers : SUBSET STRING, fallbacks : SUBSET STRING,
            limit : BOOLEAN, disableCache : BOOLEAN]
           \cup [action : {"route-options"}, limit : BOOLEAN, disableCache : BOOLEAN]
           \cup [action : {"reject"}, limit : BOOLEAN]
           \cup [action : {"predefined"}, limit : BOOLEAN, success : BOOLEAN]

\* The manager refuses a FakeIP server as the default one.
ASSUME DNSRouterAssumption ==
    /\ dnsRules \in Seq(DNSRule)
    /\ Server \subseteq STRING /\ IsFiniteSet(Server) /\ FakeServer \subseteq Server
    /\ DefaultServer \in Server \ FakeServer
    /\ upstreamTimeout \in Nat

VARIABLES
    query,              \* the query under way
    dnsCache,           \* the cached answer to its question, or "none"
    reverseMapping,     \* kinds of addresses the name is remembered for
    pollution           \* history: the cached answer was stored without the check
                        \* of a rule; a query named the FakeIP server itself

dnsVars == <<query, dnsCache, reverseMapping, pollution>>

RuleIndex == 1..Len(dnsRules)
NoQuery == [pc |-> "idle"]

DNSInit ==
    /\ query = NoQuery
    /\ dnsCache = "none"
    /\ reverseMapping = {}
    /\ pollution = {}

-----------------------------------------------------------------------------
\* matchDNS.  Lookups are not answered by FakeIP servers.
Usable(tags) == {s \in tags \cap Server : query.op = "exchange" \/ s \notin FakeServer}

\* A rule with an address limit is for address queries only.
Considered(i) == i \in query.matched /\ (dnsRules[i].limit => query.address)

Returned(i) ==
    /\ Considered(i)
    /\ \/ dnsRules[i].action \in {"reject", "predefined"}
       \/ dnsRules[i].action = "route" /\ Usable(dnsRules[i].servers) # {}

\* The next rule, 0 standing for the default server.
NextRule ==
    LET ahead == {i \in RuleIndex : i > query.rule /\ Returned(i)}
    IN  IF ahead = {} THEN 0 ELSE CHOOSE i \in ahead : \A j \in ahead : i <= j

\* Options of the route-options rules passed since the last race.
OptionsDisableCache(i) ==
    \E j \in RuleIndex : /\ j > query.rule /\ (i = 0 \/ j < i)
                         /\ Considered(j)
                         /\ dnsRules[j].action = "route-options" /\ dnsRules[j].disableCache

HasFakeIP(i) == (dnsRules[i].servers \cup dnsRules[i].fallbacks) \cap FakeServer # {}

\* Mutant: a FakeIP server among others does not disable the cache.
MutantDisableCache(i) ==
    \/ OptionsDisableCache(i)
    \/ i # 0 /\ dnsRules[i].disableCache

DisableCache(i) ==
    \/ OptionsDisableCache(i)
    \/ i # 0 /\ (HasFakeIP(i) \/ dnsRules[i].disableCache)

-----------------------------------------------------------------------------
\* Exchange or Lookup is called; with a transport of its own it passes the rules.
NewQuery(op, matched, address, transport) ==
    [pc |-> IF transport = "" THEN "match" ELSE "race",
     op |-> op, matched |-> matched, address |-> address,
     rule |-> 0,                \* ruleIndex; 0 before the first and after the last
     explicit |-> transport # "",
     servers |-> IF transport = "" THEN {} ELSE {transport},
     caching |-> IF transport = "" THEN {} ELSE {transport},   \* servers asked through the cache
     limit |-> FALSE,           \* withAddressLimit
     answer |-> "none", err |-> "nil",
     skipped |-> {}]            \* history: rules whose result sent it on, and that result

\* The conditions of rules after one that always ends the query are not looked at.
Ask(op, matched, address, transport) ==
    /\ query.pc = "idle"
    /\ op = "lookup" => address
    /\ \A i \in matched : dnsRules[i].action \in {"reject", "predefined"} /\ ~dnsRules[i].limit =>
          \A j \in matched : j <= i
    /\ query' = NewQuery(op, matched, address, transport)
    /\ UNCHANGED <<dnsCache, reverseMapping, pollution>>

\* The race over a rule's servers, or over the default one.  Several primary
\* servers do not use the global cache, and neither do fallback servers.
RaceStarts ==
    LET i == NextRule
        primary == IF i = 0 THEN {DefaultServer} ELSE Usable(dnsRules[i].servers)
        fallback == IF i = 0 \/ upstreamTimeout = 0 THEN {} ELSE Usable(dnsRules[i].fallbacks)
    IN  /\ query.pc = "match"
        /\ i # 0 => dnsRules[i].action = "route"
        /\ query' = [query EXCEPT
              !.pc = "race", !.rule = i, !.servers = primary \cup fallback,
              !.caching = IF DisableCache(i) \/ Cardinality(primary) > 1 THEN {} ELSE primary,
              !.limit = i # 0 /\ dnsRules[i].limit]
        /\ UNCHANGED <<dnsCache, reverseMapping, pollution>>

\* A reject rule ends the query; Exchange answers with an error code, or drops it.
Rejects ==
    /\ query.pc = "match" /\ NextRule # 0 /\ dnsRules[NextRule].action = "reject"
    /\ \/ query' = [query EXCEPT !.pc = "done", !.rule = NextRule, !.answer = "none", !.err = "rule"]
       \/ /\ query.op = "exchange"
          /\ query' = [query EXCEPT !.pc = "done", !.rule = NextRule, !.answer = "negative", !.err = "nil"]
    /\ UNCHANGED <<dnsCache, reverseMapping, pollution>>

\* Exchange returns the predefined response as it is.  Lookup takes its addresses
\* and leaves err as the rules before have left it.
Predefined ==
    LET success == dnsRules[NextRule].success
        lookupAnswer == IF success THEN "predefined" ELSE query.answer
        lookupErr == IF success THEN query.err ELSE "rcode"
    IN  /\ query.pc = "match" /\ NextRule # 0 /\ dnsRules[NextRule].action = "predefined"
        /\ query' = [query EXCEPT !.pc = "done", !.rule = NextRule,
              !.answer = IF query.op = "exchange" THEN "predefined" ELSE lookupAnswer,
              !.err = IF query.op = "exchange" THEN "nil" ELSE lookupErr]
        /\ UNCHANGED <<dnsCache, reverseMapping, pollution>>

-----------------------------------------------------------------------------
\* The end of a race.

\* What a server answers by itself and the response check lets pass.
Fresh(s) ==
    IF s \in FakeServer THEN {"fake"} ELSE IF query.limit THEN {"in"} ELSE {"in", "out", "negative"}

\* What was stored without the check that the rules would have made.
Bypass(k) ==
    IF k = "fake" /\ query.explicit THEN {"fake", "explicit"}
    ELSE IF k \in {"out", "negative"} /\ ~query.limit THEN {"unchecked"} ELSE {}

\* The cache was looked into and is empty.
Stores(k) ==
    /\ dnsCache = "none"
    /\ dnsCache' = k
    /\ pollution' = pollution \cup Bypass(k)

StoresNothing == UNCHANGED <<dnsCache, pollution>>

\* Mutant: Exchange goes on to the next rule after a failure too.
MutantGoesOn(result) == query.limit

\* The loop goes on after a rejection; Lookup does so after any error.
GoesOn(result) == query.limit /\ (query.op = "lookup" \/ result = "rejected")

\* err # "nil": the race returned no answer.
Unanswered(result) ==
    /\ query' = IF GoesOn(result)
                THEN [query EXCEPT !.pc = "match", !.err = result, !.servers = {}, !.caching = {},
                         !.limit = FALSE, !.skipped = @ \cup {<<query.rule, result>>}]
                ELSE [query EXCEPT !.pc = "done", !.err = result]
    /\ UNCHANGED reverseMapping

\* Answer k of server s: an error code is an answer for Exchange, an error for
\* Lookup.  Exchange remembers the addresses that are not a FakeIP server's.
Answered(s, k) ==
    IF query.op = "lookup" /\ k = "negative" THEN Unanswered("rcode")
    ELSE /\ query' = [query EXCEPT !.pc = "done", !.answer = k, !.err = "nil"]
         /\ reverseMapping' = IF query.op = "exchange" /\ s \notin FakeServer /\ k # "negative"
                              THEN reverseMapping \cup {IF k = "fake" THEN "fake" ELSE "real"}
                              ELSE reverseMapping

\* A cached answer is not checked again.
CacheAnswers(s) ==
    /\ query.pc = "race" /\ s \in query.caching /\ dnsCache # "none"
    /\ Answered(s, dnsCache)
    /\ StoresNothing

\* A fallback server wins while the primary one may have stored its answer, too.
\* Of the error codes only NXDOMAIN is stored.
ServerAnswers(s, k) ==
    /\ query.pc = "race" /\ s \in query.servers /\ k \in Fresh(s)
    /\ Answered(s, k)
    /\ \/ s \in query.caching /\ Stores(k)
       \/ (s \in query.caching => k = "negative") /\ StoresNothing
       \/ s \notin query.caching /\ \E p \in query.caching : \E l \in Fresh(p) : Stores(l)

RaceFails(result) ==
    /\ query.pc = "race"
    /\ result = "rejected" => query.limit
    /\ Unanswered(result)
    /\ StoresNothing

QueryReturns ==
    /\ query.pc = "done"
    /\ query' = NoQuery
    /\ UNCHANGED <<dnsCache, reverseMapping, pollution>>

\* The entry expires, or ClearCache is called.
CacheExpires ==
    /\ query.pc = "idle" /\ dnsCache # "none"
    /\ dnsCache' = "none"
    /\ pollution' = pollution \cap {"explicit"}
    /\ UNCHANGED <<query, reverseMapping>>

MappingExpires ==
    /\ query.pc = "idle" /\ reverseMapping # {}
    /\ reverseMapping' = {}
    /\ UNCHANGED <<query, dnsCache, pollution>>

DNSNext ==
    \/ \E op \in {"exchange", "lookup"}, address \in BOOLEAN :
          \/ \E matched \in SUBSET RuleIndex : Ask(op, matched, address, "")
          \/ \E transport \in Server : Ask(op, {}, address, transport)
    \/ RaceStarts \/ Rejects \/ Predefined
    \/ \E s \in Server : CacheAnswers(s) \/ \E k \in {"fake", "in", "out", "negative"} : ServerAnswers(s, k)
    \/ \E result \in {"rejected", "failed"} : RaceFails(result)
    \/ QueryReturns \/ CacheExpires \/ MappingExpires

-----------------------------------------------------------------------------
\* The result is that of the first rule that applies to the query, except that
\* rules with an address limit are passed over when their servers' answers were
\* rejected - for a lookup also when they failed; and a query that has an answer
\* has no error.  The exception is a lookup that ends at a predefined answer after
\* such a rule: it returns the addresses with the error of the earlier rule
\* (router.go:376-471, 548-577, 626-637).
FirstRuleAnswers ==
    query.pc = "done" /\ ~query.explicit =>
        /\ \A i \in RuleIndex : Returned(i) /\ (query.rule = 0 \/ i < query.rule) =>
              /\ dnsRules[i].limit
              /\ \E why \in {"rejected"} \cup (IF query.op = "lookup" THEN {"failed", "rcode"} ELSE {}) :
                    <<i, why>> \in query.skipped
        /\ \A skip \in query.skipped : Returned(skip[1])
        /\ query.answer # "none" /\ query.err # "nil" =>
              /\ query.op = "lookup" /\ query.skipped # {}
              /\ dnsRules[query.rule].action = "predefined"

\* Queries of a name do not spoil each other's answers: a lookup, whose addresses
\* are dialled, never gets a fake one and the reverse mapping never holds one,
\* although clients are given fake addresses for the same name; and what a rule
\* with an address limit answers is within it.  Two ways around remain: a query
\* that names the FakeIP server itself (resolve or domain_resolver) caches what it
\* gets, and an answer cached by a rule without limit is not checked again
\* (router.go:192-233, 435-444, 477-488, client.go:249-254).
AnswerAllowed ==
    /\ query.pc = "done" /\ query.op = "lookup" /\ ~query.explicit /\ query.answer = "fake" =>
          "fake" \in pollution
    /\ "fake" \in reverseMapping => "explicit" \in pollution
    /\ query.pc = "done" /\ query.limit /\ query.answer \in {"out", "negative"} =>
          "unchecked" \in pollution

-----------------------------------------------------------------------------
\* The inductive invariant.

Result == {"rejected", "failed", "rcode"}

DNSTypeOK ==
    /\ query \in {NoQuery} \cup
          [pc : {"match", "race", "done"}, op : {"exchange", "lookup"},
           matched : SUBSET RuleIndex, address : BOOLEAN, rule : RuleIndex \cup {0},
           explicit : BOOLEAN, servers : SUBSET Server, caching : SUBSET Server,
           limit : BOOLEAN, answer : {"none", "fake", "in", "out", "negative", "predefined"},
           err : {"nil", "rule"} \cup Result, skipped : SUBSET (RuleIndex \X Result)]
    /\ dnsCache \in {"none", "fake", "in", "out", "negative"}
    /\ reverseMapping \subseteq {"fake", "real"}
    /\ pollution \subseteq {"fake", "explicit", "unchecked"}

\* Rule i is behind the query: before the rule it is at, or also that one while
\* it looks for the next.
Passed(i) == IF query.pc = "match" THEN i <= query.rule ELSE query.rule = 0 \/ i < query.rule

\* A rule that applies to the query and is behind it was left for a reason.
Excused(i) ==
    /\ dnsRules[i].limit
    /\ \E why \in {"rejected"} \cup (IF query.op = "lookup" THEN {"failed", "rcode"} ELSE {}) :
          <<i, why>> \in query.skipped

QueryInv ==
    query # NoQuery =>
        /\ ~query.explicit => query.caching \cap FakeServer = {}
        /\ ~query.explicit /\ query.op = "lookup" => query.servers \cap FakeServer = {}
        /\ query.pc = "match" => ~query.limit /\ ~query.explicit
        /\ query.pc # "done" => query.answer = "none" /\ (query.err = "nil" \/ query.skipped # {})
        /\ query.answer # "none" /\ query.err # "nil" =>
              /\ query.op = "lookup" /\ query.skipped # {}
              /\ dnsRules[query.rule].action = "predefined"
        /\ query.limit => /\ ~query.explicit /\ query.rule # 0
                          /\ dnsRules[query.rule].limit /\ Returned(query.rule)
        /\ ~query.explicit => \A i \in RuleIndex : Returned(i) /\ Passed(i) => Excused(i)
        /\ \A skip \in query.skipped : Returned(skip[1])

\* Only a query that names the FakeIP server caches a fake address, and only one
\* without a limit an answer that was not checked.
CacheInv ==
    /\ dnsCache = "fake" => {"fake", "explicit"} \subseteq pollution
    /\ dnsCache \in {"out", "negative"} => "unchecked" \in pollution

DNSIInv == DNSTypeOK /\ QueryInv /\ CacheInv /\ AnswerAllowed
==============================================================================
