---------------------------- MODULE RouterProofs ----------------------------
(***************************************************************************)
(* The router, the DNS router's rule loop and the FakeIP store keep their  *)
(* invariant for any rules, servers, ranges and domains, any amount of     *)
(* payload and any number of callers and goroutines.                       *)
(***************************************************************************)
EXTENDS Router, FakeIPProofs

\* A step of the router is a step of the store, or leaves the store alone.
LEMMA RouterStepsStore ==
    ASSUME [RouterNext]_routerVars PROVE [FakeIPNext]_fakeIPVars
<1>1. CASE StoreGoesOn
  BY <1>1 DEF StoreGoesOn
<1>2. CASE DNSGoesOn
  BY <1>2 DEF DNSGoesOn
<1>3. ASSUME NEW network, NEW a, Arrive(network, a) PROVE UNCHANGED fakeIPVars
  BY <1>3 DEF Arrive
<1>4. CASE RuleSkipped \/ SniffSkipped \/ SniffFails
  BY <1>4 DEF RuleSkipped, SniffSkipped, SniffFails
<1>5. ASSUME NEW n, NEW err, SniffStream(n, err) PROVE UNCHANGED fakeIPVars
  BY <1>5 DEF SniffStream
<1>6. ASSUME NEW n, NEW err, NEW timedOut, SniffPackets(n, err, timedOut)
      PROVE  UNCHANGED fakeIPVars
  BY <1>6 DEF SniffPackets
<1>7. ASSUME NEW err, SniffCaptured(err) PROVE UNCHANGED fakeIPVars
  BY <1>7 DEF SniffCaptured
<1>8. CASE Resolve \/ ResolveFails \/ RouteOptions \/ Selected \/ NoneSelected \/ Leave
  BY <1>8 DEF Resolve, ResolveFails, RouteOptions, Selected, NoneSelected, Leave
<1>9. CASE UNCHANGED routerVars
  BY <1>9 DEF routerVars
<1> QED BY <1>1, <1>2, <1>3, <1>4, <1>5, <1>6, <1>7, <1>8, <1>9 DEF RouterNext

\* The same of the DNS router's rule loop.
LEMMA RouterStepsDNS ==
    ASSUME [RouterNext]_routerVars PROVE [DNSNext]_dnsVars
<1>1. CASE StoreGoesOn
  BY <1>1 DEF StoreGoesOn
<1>2. CASE DNSGoesOn
  BY <1>2 DEF DNSGoesOn
<1>3. ASSUME NEW network, NEW a, Arrive(network, a) PROVE UNCHANGED dnsVars
  BY <1>3 DEF Arrive
<1>4. CASE RuleSkipped \/ SniffSkipped \/ SniffFails
  BY <1>4 DEF RuleSkipped, SniffSkipped, SniffFails
<1>5. ASSUME NEW n, NEW err, SniffStream(n, err) PROVE UNCHANGED dnsVars
  BY <1>5 DEF SniffStream
<1>6. ASSUME NEW n, NEW err, NEW timedOut, SniffPackets(n, err, timedOut)
      PROVE  UNCHANGED dnsVars
  BY <1>6 DEF SniffPackets
<1>7. ASSUME NEW err, SniffCaptured(err) PROVE UNCHANGED dnsVars
  BY <1>7 DEF SniffCaptured
<1>8. CASE Resolve \/ ResolveFails \/ RouteOptions \/ Selected \/ NoneSelected \/ Leave
  BY <1>8 DEF Resolve, ResolveFails, RouteOptions, Selected, NoneSelected, Leave
<1>9. CASE UNCHANGED routerVars
  BY <1>9 DEF routerVars
<1> QED BY <1>1, <1>2, <1>3, <1>4, <1>5, <1>6, <1>7, <1>8, <1>9 DEF RouterNext

-----------------------------------------------------------------------------
\* The DNS router's rule loop.

QueryRecord ==
    [pc : {"match", "race", "done"}, op : {"exchange", "lookup"},
     matched : SUBSET RuleIndex, address : BOOLEAN, rule : RuleIndex \cup {0},
     explicit : BOOLEAN, servers : SUBSET Server, caching : SUBSET Server,
     limit : BOOLEAN, answer : {"none", "fake", "in", "out", "negative", "predefined"},
     err : {"nil", "rule"} \cup Result, skipped : SUBSET (RuleIndex \X Result)]

LEMMA RuleNumbers == \A i \in RuleIndex : i \in Nat /\ ~(i <= 0)
<1>1. Len(dnsRules) \in Nat
  BY DNSRouterAssumption
<1> QED BY <1>1 DEF RuleIndex

LEMMA QueryTyped ==
    ASSUME DNSTypeOK, query.pc # "idle" PROVE query \in QueryRecord /\ query # NoQuery
<1>1. query \in {NoQuery} \cup QueryRecord
  BY DEF DNSTypeOK, QueryRecord
<1>2. query # NoQuery
  BY DEF NoQuery
<1> QED BY <1>1, <1>2

LEMMA QueryPc ==
    ASSUME query \in QueryRecord PROVE query # NoQuery
  BY DEF QueryRecord, NoQuery

\* Which rules apply is settled when the query is made.
LEMMA ReturnedFrame ==
    ASSUME query'.op = query.op, query'.matched = query.matched, query'.address = query.address
    PROVE  \A i : Returned(i)' <=> Returned(i)
  BY DEF Returned, Considered, Usable

\* matchDNS finds the first of the rules ahead that applies.
LEMMA NextRuleIsFirst ==
    ASSUME query \in QueryRecord
    PROVE  /\ NextRule \in RuleIndex \cup {0}
           /\ NextRule # 0 => NextRule > query.rule /\ Returned(NextRule)
           /\ \A i \in RuleIndex : i > query.rule /\ Returned(i) => NextRule # 0 /\ NextRule <= i
<1> DEFINE ahead == {i \in RuleIndex : i > query.rule /\ Returned(i)}
<1>1. NextRule = IF ahead = {} THEN 0 ELSE CHOOSE i \in ahead : \A j \in ahead : i <= j
  BY DEF NextRule
<1>2. ahead \in SUBSET Nat /\ ahead \subseteq RuleIndex /\ 0 \notin ahead
  BY DNSRouterAssumption DEF RuleIndex
<1>3. ahead = {} => NextRule = 0
  BY <1>1
<1>4. \A i \in ahead : i > query.rule /\ Returned(i)
  OBVIOUS
<1>5. \A i \in RuleIndex : i > query.rule /\ Returned(i) => i \in ahead
  OBVIOUS
<1> HIDE DEF ahead
<1>6. ahead # {} => NextRule \in ahead /\ \A j \in ahead : NextRule <= j
  BY <1>1, <1>2, LeastNatural
<1> QED BY <1>2, <1>3, <1>4, <1>5, <1>6

\* A rule that is ahead of the query becomes its rule; none of those between
\* applies, so that what is behind it is what was behind it before.
LEMMA PassedBefore ==
    ASSUME query \in QueryRecord, query' \in QueryRecord, query.pc = "match", query'.pc # "match",
           query'.rule = NextRule, query'.op = query.op, query'.matched = query.matched,
           query'.address = query.address
    PROVE  \A i \in RuleIndex : Returned(i)' /\ Passed(i)' => Returned(i) /\ Passed(i)
<1> SUFFICES ASSUME NEW i \in RuleIndex, Returned(i)', Passed(i)' PROVE Returned(i) /\ Passed(i)
  OBVIOUS
<1>1. Returned(i)
  BY ReturnedFrame
<1>2. NextRule = 0 \/ i < NextRule
  BY DEF Passed
<1>3. ~(i > query.rule)
  <2>1. i \in Nat /\ NextRule \in Nat
    BY NextRuleIsFirst, DNSRouterAssumption DEF RuleIndex
  <2> QED BY <1>1, <1>2, <2>1, NextRuleIsFirst
<1>4. i <= query.rule
  <2>1. i \in Nat /\ query.rule \in Nat
    BY DNSRouterAssumption DEF RuleIndex, QueryRecord
  <2> QED BY <1>3, <2>1
<1> QED BY <1>1, <1>4 DEF Passed

LEMMA ExcusedFrame ==
    ASSUME query'.op = query.op, query.skipped \subseteq query'.skipped, NEW i, Excused(i)
    PROVE  Excused(i)'
  BY DEF Excused

-----------------------------------------------------------------------------
LEMMA AskStep ==
    ASSUME DNSIInv, NEW op \in {"exchange", "lookup"}, NEW matched \in SUBSET RuleIndex,
           NEW address \in BOOLEAN, NEW transport \in Server \cup {""},
           Ask(op, matched, address, transport)
    PROVE  DNSIInv'
<1> USE DEF DNSIInv
<1>1. /\ query' = NewQuery(op, matched, address, transport)
      /\ UNCHANGED <<dnsCache, reverseMapping, pollution>>
  BY DEF Ask
<1>2. query' \in QueryRecord
  BY <1>1 DEF NewQuery, QueryRecord
<1>3. DNSTypeOK'
  BY <1>1, <1>2 DEF DNSTypeOK, QueryRecord
<1>4. /\ query'.pc = "match" => transport = ""
      /\ query'.pc # "done" /\ query'.rule = 0 /\ query'.limit = FALSE
      /\ query'.explicit = (transport # "")
      /\ transport = "" => query'.pc = "match" /\ query'.servers = {} /\ query'.caching = {}
      /\ query'.answer = "none" /\ query'.err = "nil" /\ query'.skipped = {}
  BY <1>1 DEF NewQuery
<1>5. ASSUME transport = "", NEW i \in RuleIndex, Passed(i)' PROVE FALSE
  <2>1. query'.pc = "match" /\ query'.rule = 0
    BY <1>4, <1>5
  <2>2. i <= query'.rule
    BY <1>5, <2>1 DEF Passed
  <2> QED BY <2>1, <2>2, RuleNumbers
<1>6. QueryInv'
  BY <1>4, <1>5 DEF QueryInv
<1>7. CacheInv' /\ AnswerAllowed'
  BY <1>1, <1>4 DEF CacheInv, AnswerAllowed
<1> QED BY <1>3, <1>6, <1>7

LEMMA RaceStartsStep ==
    ASSUME DNSIInv, RaceStarts PROVE DNSIInv'
<1> USE DEF DNSIInv
<1> DEFINE next == NextRule
           primary == IF next = 0 THEN {DefaultServer} ELSE Usable(dnsRules[next].servers)
           fallback == IF next = 0 \/ upstreamTimeout = 0 THEN {} ELSE Usable(dnsRules[next].fallbacks)
           cached == IF DisableCache(next) \/ Cardinality(primary) > 1 THEN {} ELSE primary
<1>1. /\ query.pc = "match"
      /\ query' = [query EXCEPT !.pc = "race", !.rule = next, !.servers = primary \cup fallback,
                      !.caching = cached, !.limit = next # 0 /\ dnsRules[next].limit]
      /\ UNCHANGED <<dnsCache, reverseMapping, pollution>>
  BY DEF RaceStarts
<1>2. query \in QueryRecord /\ query # NoQuery
  BY <1>1, QueryTyped
<1>3. /\ next \in RuleIndex \cup {0}
      /\ next # 0 => Returned(next)
  BY <1>2, NextRuleIsFirst
<1>4. next # 0 => dnsRules[next].limit \in BOOLEAN
  BY <1>3, DNSRouterAssumption DEF RuleIndex, DNSRule
<1>5. primary \subseteq Server /\ fallback \subseteq Server /\ cached \subseteq Server
  BY DNSRouterAssumption DEF Usable
<1>6. query.op = "lookup" => (primary \cup fallback) \cap FakeServer = {}
  BY DNSRouterAssumption DEF Usable
<1>7. cached \cap FakeServer = {}
  <2>1. CASE next = 0
    BY <2>1, DNSRouterAssumption
  <2>2. CASE next # 0 /\ ~DisableCache(next)
    BY <2>2 DEF DisableCache, HasFakeIP, Usable
  <2>3. CASE DisableCache(next)
    BY <2>3
  <2> QED BY <2>1, <2>2, <2>3
<1> HIDE DEF primary, fallback, cached
<1>8. query' \in QueryRecord
  <2>1. (next # 0 /\ dnsRules[next].limit) \in BOOLEAN
    BY <1>4
  <2> HIDE DEF next
  <2> QED BY <1>1, <1>2, <1>3, <1>5, <2>1 DEF QueryRecord
<1>9. /\ query'.pc = "race" /\ query'.rule = next /\ query'.servers = primary \cup fallback
      /\ query'.caching = cached /\ (query'.limit <=> next # 0 /\ dnsRules[next].limit)
      /\ query'.op = query.op /\ query'.matched = query.matched /\ query'.address = query.address
      /\ query'.explicit = query.explicit /\ query'.answer = query.answer /\ query'.err = query.err
      /\ query'.skipped = query.skipped
  BY <1>1, <1>2 DEF QueryRecord
<1>10. DNSTypeOK'
  BY <1>1, <1>8 DEF DNSTypeOK, QueryRecord
<1>11. \A i \in RuleIndex : Returned(i)' /\ Passed(i)' => Excused(i)'
  BY <1>1, <1>2, <1>8, <1>9, PassedBefore, ExcusedFrame DEF QueryInv
<1>12. \A i : Returned(i)' <=> Returned(i)
  BY <1>9, ReturnedFrame
<1> HIDE DEF next
<1>13. QueryInv'
  BY <1>1, <1>2, <1>3, <1>6, <1>7, <1>9, <1>11, <1>12 DEF QueryInv
<1>14. CacheInv' /\ AnswerAllowed'
  BY <1>1, <1>9 DEF CacheInv, AnswerAllowed
<1> QED BY <1>10, <1>13, <1>14

\* A rule ends the query.
LEMMA RuleEndsStep ==
    ASSUME DNSIInv, query.pc = "match", NextRule # 0,
           NEW answer \in {"none", "negative", "predefined"},
           NEW err \in {"nil", "rule"} \cup Result,
           query' = [query EXCEPT !.pc = "done", !.rule = NextRule, !.answer = answer, !.err = err],
           answer # "none" /\ err # "nil" =>
               query.op = "lookup" /\ query.skipped # {} /\ dnsRules[NextRule].action = "predefined",
           UNCHANGED <<dnsCache, reverseMapping, pollution>>
    PROVE  DNSIInv'
<1> USE DEF DNSIInv
<1>1. query \in QueryRecord /\ query # NoQuery
  BY QueryTyped
<1>2. NextRule \in RuleIndex
  BY <1>1, NextRuleIsFirst
<1>3. query' \in QueryRecord
  BY <1>1, <1>2 DEF QueryRecord
<1>4. /\ query'.pc = "done" /\ query'.rule = NextRule /\ query'.answer = answer /\ query'.err = err
      /\ query'.op = query.op /\ query'.matched = query.matched /\ query'.address = query.address
      /\ query'.explicit = query.explicit /\ query'.skipped = query.skipped
      /\ query'.servers = query.servers /\ query'.caching = query.caching
      /\ query'.limit = query.limit
  BY <1>1 DEF QueryRecord
<1>5. DNSTypeOK'
  BY <1>3 DEF DNSTypeOK, QueryRecord
<1>6. \A i \in RuleIndex : Returned(i)' /\ Passed(i)' => Excused(i)'
  BY <1>1, <1>3, <1>4, PassedBefore, ExcusedFrame DEF QueryInv
<1>7. \A i : Returned(i)' <=> Returned(i)
  BY <1>4, ReturnedFrame
<1>8. ~query.limit /\ ~query.explicit
  BY <1>1 DEF QueryInv
<1>9. QueryInv'
  BY <1>1, <1>4, <1>6, <1>7, <1>8 DEF QueryInv
<1>10. CacheInv' /\ AnswerAllowed'
  BY <1>4, <1>8 DEF CacheInv, AnswerAllowed
<1> QED BY <1>5, <1>9, <1>10

LEMMA RejectsStep ==
    ASSUME DNSIInv, Rejects PROVE DNSIInv'
<1>1. /\ query.pc = "match" /\ NextRule # 0
      /\ UNCHANGED <<dnsCache, reverseMapping, pollution>>
  BY DEF Rejects
<1>2. CASE query' = [query EXCEPT !.pc = "done", !.rule = NextRule, !.answer = "none", !.err = "rule"]
  BY <1>1, <1>2, RuleEndsStep
<1>3. CASE query' = [query EXCEPT !.pc = "done", !.rule = NextRule, !.answer = "negative", !.err = "nil"]
  BY <1>1, <1>3, RuleEndsStep
<1> QED BY <1>2, <1>3 DEF Rejects

LEMMA PredefinedStep ==
    ASSUME DNSIInv, Predefined PROVE DNSIInv'
<1> DEFINE success == dnsRules[NextRule].success
           answer == IF query.op = "exchange" THEN "predefined"
                     ELSE IF success THEN "predefined" ELSE query.answer
           err == IF query.op = "exchange" THEN "nil" ELSE IF success THEN query.err ELSE "rcode"
<1>1. /\ query.pc = "match" /\ NextRule # 0 /\ dnsRules[NextRule].action = "predefined"
      /\ query' = [query EXCEPT !.pc = "done", !.rule = NextRule, !.answer = answer, !.err = err]
      /\ UNCHANGED <<dnsCache, reverseMapping, pollution>>
  BY DEF Predefined
<1>2. query \in QueryRecord /\ query # NoQuery
  BY <1>1, QueryTyped DEF DNSIInv
<1>3. query.answer = "none" /\ (query.err = "nil" \/ query.skipped # {})
  BY <1>1, <1>2 DEF DNSIInv, QueryInv
<1>4. query.op \in {"exchange", "lookup"} /\ query.err \in {"nil", "rule"} \cup Result
  BY <1>2 DEF QueryRecord
<1>5. /\ answer \in {"none", "negative", "predefined"}
      /\ err \in {"nil", "rule"} \cup Result
      /\ answer # "none" /\ err # "nil" => query.op = "lookup" /\ query.skipped # {}
  BY <1>3, <1>4 DEF Result
<1> HIDE DEF answer, err
<1> QED BY <1>1, <1>5, RuleEndsStep

\* The end of a race changes neither the rule nor what the query has passed.
LEMMA EndKeepsRules ==
    ASSUME query.pc = "race", query'.pc = "done", query'.rule = query.rule,
           query'.op = query.op, query'.matched = query.matched, query'.address = query.address,
           query'.skipped = query.skipped
    PROVE  \A i : /\ Returned(i)' <=> Returned(i)
                  /\ Passed(i)' <=> Passed(i)
                  /\ Excused(i)' <=> Excused(i)
  BY ReturnedFrame DEF Passed, Excused

\* The race of the query ends without an answer.
LEMMA UnansweredStep ==
    ASSUME DNSIInv, query.pc = "race", NEW result \in Result, Unanswered(result),
           CacheInv', dnsCache' \in {"none", "fake", "in", "out", "negative"},
           pollution \subseteq pollution', pollution' \subseteq {"fake", "explicit", "unchecked"}
    PROVE  DNSIInv'
<1> USE DEF DNSIInv
<1>1. query \in QueryRecord /\ query # NoQuery
  BY QueryTyped
<1>2. query.answer = "none"
  BY <1>1 DEF QueryInv
<1>3. UNCHANGED reverseMapping
  BY DEF Unanswered
<1>4. CASE GoesOn(result)
  <2>1. query' = [query EXCEPT !.pc = "match", !.err = result, !.servers = {}, !.caching = {},
                     !.limit = FALSE, !.skipped = query.skipped \cup {<<query.rule, result>>}]
    BY <1>4 DEF Unanswered
  <2>2. query.limit /\ (query.op = "lookup" \/ result = "rejected")
    BY <1>4 DEF GoesOn
  <2>3. /\ ~query.explicit /\ query.rule # 0
        /\ dnsRules[query.rule].limit /\ Returned(query.rule)
    BY <1>1, <2>2 DEF QueryInv
  <2>4. query.rule \in RuleIndex
    BY <1>1, <2>3 DEF QueryRecord
  <2>5. query' \in QueryRecord
    <3>1. query.skipped \cup {<<query.rule, result>>} \in SUBSET (RuleIndex \X Result)
      BY <1>1, <2>4 DEF QueryRecord
    <3> QED BY <1>1, <2>1, <3>1 DEF QueryRecord
  <2>6. /\ query'.pc = "match" /\ query'.rule = query.rule /\ query'.answer = query.answer
        /\ query'.op = query.op /\ query'.matched = query.matched /\ query'.address = query.address
        /\ query'.explicit = query.explicit /\ query'.limit = FALSE
        /\ query'.skipped = query.skipped \cup {<<query.rule, result>>}
        /\ query'.servers = {} /\ query'.caching = {}
    BY <1>1, <2>1 DEF QueryRecord
  <2>7. DNSTypeOK'
    BY <1>3, <2>5 DEF DNSTypeOK, QueryRecord
  <2>8. \A i : Returned(i)' <=> Returned(i)
    BY <2>6, ReturnedFrame
  <2>9. ASSUME NEW i \in RuleIndex, Returned(i)', Passed(i)'
        PROVE  Excused(i)'
    <3>1. CASE i = query.rule
      <4>1. result \in {"rejected"} \cup (IF query.op = "lookup" THEN {"failed", "rcode"} ELSE {})
        BY <2>2 DEF Result
      <4> QED BY <2>3, <2>6, <3>1, <4>1 DEF Excused
    <3>2. CASE i # query.rule
      <4>1. i <= query.rule /\ i \in Nat /\ query.rule \in Nat
        BY <2>4, <2>6, <2>9, RuleNumbers DEF Passed
      <4>2. Passed(i)
        BY <3>2, <4>1 DEF Passed
      <4>3. Excused(i)
        BY <1>1, <2>3, <2>8, <2>9, <4>2 DEF QueryInv
      <4> QED BY <2>6, <4>3, ExcusedFrame
    <3> QED BY <3>1, <3>2
  <2>10. \A skip \in query'.skipped : Returned(skip[1])'
    <3>1. \A skip \in query.skipped : Returned(skip[1])
      BY <1>1 DEF QueryInv
    <3>2. Returned(<<query.rule, result>>[1])
      BY <2>3
    <3> QED BY <2>6, <2>8, <3>1, <3>2
  <2>11. QueryInv'
    BY <1>2, <2>3, <2>6, <2>9, <2>10 DEF QueryInv
  <2>12. AnswerAllowed'
    BY <1>3, <2>6 DEF AnswerAllowed
  <2> QED BY <2>7, <2>11, <2>12
<1>5. CASE ~GoesOn(result)
  <2>1. query' = [query EXCEPT !.pc = "done", !.err = result]
    BY <1>5 DEF Unanswered
  <2>2. query' \in QueryRecord
    BY <1>1, <2>1 DEF QueryRecord
  <2>3. /\ query'.pc = "done" /\ query'.rule = query.rule /\ query'.answer = query.answer
        /\ query'.op = query.op /\ query'.matched = query.matched /\ query'.address = query.address
        /\ query'.explicit = query.explicit /\ query'.limit = query.limit
        /\ query'.skipped = query.skipped
        /\ query'.servers = query.servers /\ query'.caching = query.caching
    BY <1>1, <2>1 DEF QueryRecord
  <2>4. DNSTypeOK'
    BY <1>3, <2>2 DEF DNSTypeOK, QueryRecord
  <2>5. QueryInv'
    BY <1>1, <1>2, <2>3, EndKeepsRules DEF QueryInv
  <2>6. AnswerAllowed'
    BY <1>2, <1>3, <2>3 DEF AnswerAllowed
  <2> QED BY <2>4, <2>5, <2>6
<1> QED BY <1>4, <1>5

\* It ends with answer k of server s: one that s may give, or the cached one.
LEMMA AnsweredStep ==
    ASSUME DNSIInv, query.pc = "race", NEW s \in Server,
           NEW k \in {"fake", "in", "out", "negative"}, Answered(s, k),
           (s \in query.servers /\ k \in Fresh(s)) \/ k = dnsCache,
           CacheInv', dnsCache' \in {"none", "fake", "in", "out", "negative"},
           pollution \subseteq pollution', pollution' \subseteq {"fake", "explicit", "unchecked"}
    PROVE  DNSIInv'
<1> USE DEF DNSIInv
<1>1. query \in QueryRecord /\ query # NoQuery
  BY QueryTyped
<1>2. CASE query.op = "lookup" /\ k = "negative"
  <2>1. Unanswered("rcode")
    BY <1>2 DEF Answered
  <2> QED BY <2>1, UnansweredStep DEF Result
<1>3. CASE ~(query.op = "lookup" /\ k = "negative")
  <2>1. /\ query' = [query EXCEPT !.pc = "done", !.answer = k, !.err = "nil"]
        /\ reverseMapping' = IF query.op = "exchange" /\ s \notin FakeServer /\ k # "negative"
                             THEN reverseMapping \cup {IF k = "fake" THEN "fake" ELSE "real"}
                             ELSE reverseMapping
    BY <1>3 DEF Answered
  <2>2. query' \in QueryRecord
    BY <1>1, <2>1 DEF QueryRecord
  <2>3. /\ query'.pc = "done" /\ query'.rule = query.rule /\ query'.answer = k /\ query'.err = "nil"
        /\ query'.op = query.op /\ query'.matched = query.matched /\ query'.address = query.address
        /\ query'.explicit = query.explicit /\ query'.limit = query.limit
        /\ query'.skipped = query.skipped
        /\ query'.servers = query.servers /\ query'.caching = query.caching
    BY <1>1, <2>1 DEF QueryRecord
  <2>4. DNSTypeOK'
    <3>1. reverseMapping' \subseteq {"fake", "real"}
      BY <2>1 DEF DNSTypeOK
    <3> QED BY <2>2, <3>1 DEF DNSTypeOK, QueryRecord
  <2>5. QueryInv'
    BY <1>1, <2>3, EndKeepsRules DEF QueryInv
  <2>6. k = dnsCache => (k = "fake" => {"fake", "explicit"} \subseteq pollution)
                        /\ (k \in {"out", "negative"} => "unchecked" \in pollution)
    BY DEF CacheInv
  <2>7. AnswerAllowed'
    <3>1. query.op = "lookup" /\ ~query.explicit /\ k = "fake" => "fake" \in pollution'
      <4>1. CASE s \in query.servers /\ k \in Fresh(s)
        BY <1>1, <4>1 DEF Fresh, QueryInv
      <4>2. CASE k = dnsCache
        BY <2>6, <4>2
      <4> QED BY <4>1, <4>2
    <3>2. query.op = "exchange" /\ s \notin FakeServer /\ k = "fake" => "explicit" \in pollution'
      <4>1. CASE s \in query.servers /\ k \in Fresh(s)
        BY <4>1 DEF Fresh
      <4>2. CASE k = dnsCache
        BY <2>6, <4>2
      <4> QED BY <4>1, <4>2
    <3>3. query.limit /\ k \in {"out", "negative"} => "unchecked" \in pollution'
      <4>1. CASE s \in query.servers /\ k \in Fresh(s)
        BY <4>1 DEF Fresh
      <4>2. CASE k = dnsCache
        BY <2>6, <4>2
      <4> QED BY <4>1, <4>2
    <3>4. "fake" \in reverseMapping' => "explicit" \in pollution'
      BY <2>1, <3>2 DEF AnswerAllowed
    <3> QED BY <2>3, <3>1, <3>3, <3>4 DEF AnswerAllowed
  <2> QED BY <2>4, <2>5, <2>7
<1> QED BY <1>2, <1>3

LEMMA QueryFrame ==
    ASSUME QueryInv, UNCHANGED query PROVE QueryInv'
  BY DEF QueryInv, Returned, Considered, Usable, Passed, Excused

\* What a server of the cache may answer is stored with what it went around.
LEMMA StoresStep ==
    ASSUME DNSIInv, query.pc = "race", NEW s \in query.caching, NEW k \in Fresh(s), Stores(k)
    PROVE  /\ CacheInv' /\ dnsCache' \in {"none", "fake", "in", "out", "negative"}
           /\ pollution \subseteq pollution' /\ pollution' \subseteq {"fake", "explicit", "unchecked"}
<1> USE DEF DNSIInv
<1>1. query \in QueryRecord /\ query # NoQuery
  BY QueryTyped
<1>2. dnsCache' = k /\ pollution' = pollution \cup Bypass(k)
  BY DEF Stores
<1>3. k \in {"fake", "in", "out", "negative"}
  BY DEF Fresh
<1>4. k = "fake" => query.explicit
  BY <1>1 DEF Fresh, QueryInv
<1>5. k \in {"out", "negative"} => ~query.limit
  BY DEF Fresh
<1>6. Bypass(k) \subseteq {"fake", "explicit", "unchecked"}
  BY DEF Bypass
<1>7. CacheInv'
  BY <1>2, <1>4, <1>5 DEF CacheInv, Bypass
<1> QED BY <1>2, <1>3, <1>6, <1>7 DEF DNSTypeOK

LEMMA StoresNothingStep ==
    ASSUME DNSIInv, StoresNothing
    PROVE  /\ CacheInv' /\ dnsCache' \in {"none", "fake", "in", "out", "negative"}
           /\ pollution \subseteq pollution' /\ pollution' \subseteq {"fake", "explicit", "unchecked"}
  BY DEF DNSIInv, StoresNothing, CacheInv, DNSTypeOK

LEMMA CacheAnswersStep ==
    ASSUME DNSIInv, NEW s \in Server, CacheAnswers(s) PROVE DNSIInv'
<1>1. /\ query.pc = "race" /\ dnsCache # "none"
      /\ Answered(s, dnsCache) /\ StoresNothing
  BY DEF CacheAnswers
<1>2. dnsCache \in {"fake", "in", "out", "negative"}
  BY <1>1 DEF DNSIInv, DNSTypeOK
<1> QED BY <1>1, <1>2, StoresNothingStep, AnsweredStep

LEMMA ServerAnswersStep ==
    ASSUME DNSIInv, NEW s \in Server, NEW k \in {"fake", "in", "out", "negative"},
           ServerAnswers(s, k)
    PROVE  DNSIInv'
<1>1. /\ query.pc = "race" /\ s \in query.servers /\ k \in Fresh(s)
      /\ Answered(s, k)
  BY DEF ServerAnswers
<1>2. /\ CacheInv' /\ dnsCache' \in {"none", "fake", "in", "out", "negative"}
      /\ pollution \subseteq pollution' /\ pollution' \subseteq {"fake", "explicit", "unchecked"}
  <2>1. CASE s \in query.caching /\ Stores(k)
    BY <1>1, <2>1, StoresStep
  <2>2. CASE StoresNothing
    BY <2>2, StoresNothingStep
  <2>3. CASE \E p \in query.caching : \E l \in Fresh(p) : Stores(l)
    <3>1. PICK p \in query.caching : \E l \in Fresh(p) : Stores(l)
      BY <2>3
    <3>2. PICK l \in Fresh(p) : Stores(l)
      BY <3>1
    <3> QED BY <1>1, <3>2, StoresStep
  <2> QED BY <2>1, <2>2, <2>3 DEF ServerAnswers
<1> QED BY <1>1, <1>2, AnsweredStep

\* Every step of the rule loop keeps its invariant: rules are left only for a
\* reason, and fake or unchecked answers reach the cache only by the two ways
\* around (router.go:192-233, 376-471, 548-637, client.go:249-254).
THEOREM DNSInductive ==
    ASSUME DNSIInv, [DNSNext]_dnsVars PROVE DNSIInv'
<1>1. ASSUME NEW op \in {"exchange", "lookup"}, NEW address \in BOOLEAN,
             NEW matched \in SUBSET RuleIndex, Ask(op, matched, address, "")
      PROVE  DNSIInv'
  BY <1>1, AskStep
<1>2. ASSUME NEW op \in {"exchange", "lookup"}, NEW address \in BOOLEAN,
             NEW transport \in Server, Ask(op, {}, address, transport)
      PROVE  DNSIInv'
  <2>1. {} \in SUBSET RuleIndex
    OBVIOUS
  <2> QED BY <1>2, <2>1, AskStep
<1>3. CASE RaceStarts
  BY <1>3, RaceStartsStep
<1>4. CASE Rejects
  BY <1>4, RejectsStep
<1>5. CASE Predefined
  BY <1>5, PredefinedStep
<1>6. ASSUME NEW s \in Server, CacheAnswers(s) PROVE DNSIInv'
  BY <1>6, CacheAnswersStep
<1>7. ASSUME NEW s \in Server, NEW k \in {"fake", "in", "out", "negative"}, ServerAnswers(s, k)
      PROVE  DNSIInv'
  BY <1>7, ServerAnswersStep
<1>8. ASSUME NEW result \in {"rejected", "failed"}, RaceFails(result) PROVE DNSIInv'
  <2>1. query.pc = "race" /\ Unanswered(result) /\ StoresNothing
    BY <1>8 DEF RaceFails
  <2> QED BY <2>1, StoresNothingStep, UnansweredStep DEF Result
<1>9. CASE QueryReturns
  <2>1. query' = NoQuery /\ UNCHANGED <<dnsCache, reverseMapping, pollution>>
    BY <1>9 DEF QueryReturns
  <2>2. query'.pc # "done"
    BY <2>1 DEF NoQuery
  <2>3. DNSTypeOK' /\ QueryInv' /\ CacheInv'
    BY <2>1 DEF DNSIInv, DNSTypeOK, QueryInv, CacheInv
  <2>4. AnswerAllowed'
    BY <2>1, <2>2 DEF DNSIInv, AnswerAllowed
  <2> QED BY <2>3, <2>4 DEF DNSIInv
<1>10. CASE CacheExpires
  <2>1. /\ query.pc = "idle" /\ dnsCache' = "none" /\ pollution' = pollution \cap {"explicit"}
        /\ UNCHANGED <<query, reverseMapping>>
    BY <1>10 DEF CacheExpires
  <2>2. QueryInv'
    BY <2>1, QueryFrame DEF DNSIInv
  <2>3. DNSTypeOK' /\ CacheInv'
    BY <2>1 DEF DNSIInv, DNSTypeOK, CacheInv
  <2>4. AnswerAllowed'
    BY <2>1 DEF DNSIInv, AnswerAllowed
  <2> QED BY <2>2, <2>3, <2>4 DEF DNSIInv
<1>11. CASE MappingExpires
  <2>1. /\ query.pc = "idle" /\ reverseMapping' = {} /\ UNCHANGED <<query, dnsCache, pollution>>
    BY <1>11 DEF MappingExpires
  <2>2. QueryInv'
    BY <2>1, QueryFrame DEF DNSIInv
  <2>3. DNSTypeOK' /\ CacheInv' /\ AnswerAllowed'
    BY <2>1 DEF DNSIInv, DNSTypeOK, CacheInv, AnswerAllowed
  <2> QED BY <2>2, <2>3 DEF DNSIInv
<1>12. CASE UNCHANGED dnsVars
  <2>1. UNCHANGED <<query, dnsCache, reverseMapping, pollution>>
    BY <1>12 DEF dnsVars
  <2>2. QueryInv'
    BY <2>1, QueryFrame DEF DNSIInv
  <2>3. DNSTypeOK' /\ CacheInv' /\ AnswerAllowed'
    BY <2>1 DEF DNSIInv, DNSTypeOK, CacheInv, AnswerAllowed
  <2> QED BY <2>2, <2>3 DEF DNSIInv
<1> QED BY <1>1, <1>2, <1>3, <1>4, <1>5, <1>6, <1>7, <1>8, <1>9, <1>10, <1>11, <1>12 DEF DNSNext

LEMMA DNSInitial ==
    ASSUME DNSInit PROVE DNSIInv
<1> USE DEF DNSInit
<1>1. query.pc # "done"
  BY DEF NoQuery
<1> QED BY <1>1 DEF DNSIInv, DNSTypeOK, QueryInv, CacheInv, AnswerAllowed

-----------------------------------------------------------------------------
\* The router's rules.

ConnRecord ==
    [pc : {"match", "route", "reject", "hijack-dns", "default", "error"},
     network : {"tcp", "udp"}, destination : Domain \cup {NoFake},
     rule : 1..(Len(rules) + 1), named : BOOLEAN, resolved : BOOLEAN,
     protocol : BOOLEAN, names : SniffNames, sniffError : {"nil", "more", "other"},
     read : 0..MaxPayload, buffers : Seq(Seq(Nat)), again : BOOLEAN]

\* What is kept of a connection of which n segments or packets were read once.
KeptOnce(network, n) ==
    IF network = "udp" THEN [i \in 1..n |-> <<i>>]
    ELSE IF n = 0 THEN <<>> ELSE <<[i \in 1..n |-> i]>>

\* PayloadInv without what a connection that was not sniffed twice has kept.
PartsGood(network, n, parts) ==
    /\ \A u \in 1..n : Holds(parts, u)
    /\ \A k \in 1..Len(parts) : \A j \in 1..Len(parts[k]) : parts[k][j] <= n
    /\ network = "tcp" =>
          /\ \A k \in 1..Len(parts) : Consecutive(parts[k])
          /\ \A k, l \in 1..Len(parts) : k < l => Before(parts[k], parts[l])

LEMMA ConnTyped ==
    ASSUME ConnInv, conn.pc # "none"
    PROVE  /\ conn \in ConnRecord
           /\ PartsGood(conn.network, conn.read, conn.buffers)
           /\ ~conn.again => conn.buffers = KeptOnce(conn.network, conn.read)
<1>1. conn \in {NoConn} \cup ConnRecord
  BY DEF ConnInv, ConnRecord
<1>2. conn # NoConn
  BY DEF NoConn
<1>3. PayloadInv(conn)
  BY <1>2 DEF ConnInv
<1> QED BY <1>1, <1>2, <1>3 DEF PayloadInv, PartsGood, KeptOnce

LEMMA ConnKept ==
    ASSUME conn' \in ConnRecord, PartsGood(conn'.network, conn'.read, conn'.buffers),
           ~conn'.again => conn'.buffers = KeptOnce(conn'.network, conn'.read)
    PROVE  ConnInv'
<1>1. PayloadInv(conn')
  BY DEF PayloadInv, PartsGood, KeptOnce
<1> QED BY <1>1 DEF ConnInv, ConnRecord

\* A step of the rules that leaves the payload alone.
LEMMA PayloadUntouched ==
    ASSUME ConnInv, conn.pc # "none", conn' \in ConnRecord,
           conn'.network = conn.network, conn'.read = conn.read, conn'.buffers = conn.buffers,
           conn'.again = conn.again
    PROVE  ConnInv'
  BY ConnTyped, ConnKept

\* Parts appended to parts.
LEMMA Concat ==
    ASSUME NEW a \in Seq(Seq(Nat)), NEW b \in Seq(Seq(Nat))
    PROVE  /\ a \o b \in Seq(Seq(Nat)) /\ Len(a \o b) = Len(a) + Len(b)
           /\ \A k \in 1..Len(a) : k \in 1..Len(a \o b) /\ (a \o b)[k] = a[k]
           /\ \A k \in 1..Len(b) : /\ Len(a) + k \in 1..Len(a \o b)
                                   /\ (a \o b)[Len(a) + k] = b[k]
           /\ \A k \in 1..Len(a \o b) : \/ k \in 1..Len(a)
                                        \/ k - Len(a) \in 1..Len(b) /\ (a \o b)[k] = b[k - Len(a)]
  OBVIOUS

LEMMA HoldsConcat ==
    ASSUME NEW a \in Seq(Seq(Nat)), NEW b \in Seq(Seq(Nat)), NEW u, Holds(a, u) \/ Holds(b, u)
    PROVE  Holds(a \o b, u)
<1>1. CASE Holds(a, u)
  <2>1. PICK k \in 1..Len(a) : \E j \in 1..Len(a[k]) : a[k][j] = u
    BY <1>1 DEF Holds
  <2>2. k \in 1..Len(a \o b) /\ (a \o b)[k] = a[k]
    BY Concat
  <2> QED BY <2>1, <2>2 DEF Holds
<1>2. CASE Holds(b, u)
  <2>1. PICK k \in 1..Len(b) : \E j \in 1..Len(b[k]) : b[k][j] = u
    BY <1>2 DEF Holds
  <2>2. Len(a) + k \in 1..Len(a \o b) /\ (a \o b)[Len(a) + k] = b[k]
    BY Concat
  <2> QED BY <2>1, <2>2 DEF Holds
<1> QED BY <1>1, <1>2

\* One more part of a stream.
LEMMA StreamGrows ==
    ASSUME NEW m \in Nat, NEW n \in Nat, n > 0, NEW parts \in Seq(Seq(Nat)),
           PartsGood("tcp", m, parts), NEW part \in Seq(Nat), Len(part) = n,
           \A i \in 1..n : part[i] = m + i
    PROVE  PartsGood("tcp", m + n, parts \o <<part>>)
<1> DEFINE one == <<part>>
           all == parts \o one
<1>1. one \in Seq(Seq(Nat)) /\ Len(one) = 1 /\ one[1] = part
  OBVIOUS
<1> HIDE DEF one
<1>2. /\ Len(all) = Len(parts) + 1 /\ Len(parts) \in Nat
      /\ \A k \in 1..Len(parts) : all[k] = parts[k] /\ parts[k] \in Seq(Nat)
      /\ all[Len(parts) + 1] = part
  <2>5. Len(all) = Len(parts) + Len(one)
    BY <1>1, Concat
  <2>1. Len(all) = Len(parts) + 1 /\ Len(parts) \in Nat
    <3> HIDE DEF all
    <3> QED BY <1>1, <2>5
  <2>2. \A k \in 1..Len(parts) : all[k] = parts[k] /\ parts[k] \in Seq(Nat)
    BY <1>1, Concat
  <2>3. 1 \in 1..Len(one)
    BY <1>1
  <2>4. all[Len(parts) + 1] = one[1]
    BY <1>1, <2>3, Concat
  <2> QED BY <1>1, <2>1, <2>2, <2>4
<1>3. ASSUME NEW u \in 1..(m + n) PROVE Holds(all, u)
  <2>1. CASE u <= m
    BY <1>1, <2>1, HoldsConcat DEF PartsGood
  <2>2. CASE u > m
    <3>1. u - m \in 1..Len(part) /\ part[u - m] = u
      BY <2>2
    <3>2. Holds(one, u)
      BY <1>1, <3>1 DEF Holds
    <3> QED BY <1>1, <3>2, HoldsConcat
  <2> QED BY <2>1, <2>2
<1> HIDE DEF all
<1>4. \A k \in 1..Len(all) : k \in 1..Len(parts) \/ k = Len(parts) + 1
  BY <1>2
<1>5. \A k \in 1..Len(parts) : \A j \in 1..Len(parts[k]) : parts[k][j] \in Nat /\ parts[k][j] <= m
  BY <1>2 DEF PartsGood
<1>6. ASSUME NEW k \in 1..Len(all), NEW j \in 1..Len(all[k]) PROVE all[k][j] <= m + n
  <2>1. CASE k \in 1..Len(parts)
    <3>1. all[k] = parts[k]
      BY <1>2, <2>1
    <3>2. parts[k][j] \in Nat /\ parts[k][j] <= m
      BY <1>5, <2>1, <3>1
    <3> QED BY <3>1, <3>2
  <2>2. CASE k = Len(parts) + 1
    <3>1. all[k] = part /\ j \in 1..n
      BY <1>2, <2>2
    <3> QED BY <3>1
  <2> QED BY <1>4, <2>1, <2>2
<1>7. ASSUME NEW k \in 1..Len(all) PROVE Consecutive(all[k])
  <2>1. Consecutive(part)
    BY DEF Consecutive
  <2> QED BY <1>2, <1>4, <2>1 DEF PartsGood
<1>8. ASSUME NEW k \in 1..Len(all), NEW l \in 1..Len(all), k < l PROVE Before(all[k], all[l])
  <2>1. k \in 1..Len(parts)
    BY <1>2, <1>4, <1>8
  <2>2. CASE l \in 1..Len(parts)
    BY <1>2, <1>8, <2>1, <2>2 DEF PartsGood
  <2>3. CASE l = Len(parts) + 1
    <3>1. all[l] = part /\ all[k] = parts[k]
      BY <1>2, <2>1, <2>3
    <3>2. ASSUME NEW i \in 1..Len(parts[k]), NEW j \in 1..n PROVE parts[k][i] < part[j]
      <4>1. parts[k][i] \in Nat /\ parts[k][i] <= m
        BY <1>5, <2>1
      <4>2. part[j] = m + j /\ m < m + j
        OBVIOUS
      <4> HIDE DEF all
      <4> QED BY <4>1, <4>2, SMTT(30)
    <3> QED BY <3>1, <3>2 DEF Before
  <2> QED BY <1>4, <2>2, <2>3
<1> QED BY <1>3, <1>6, <1>7, <1>8 DEF PartsGood, all, one

\* More packets, after those that were captured and once more those.
LEMMA PacketsGrow ==
    ASSUME NEW m \in Nat, NEW n \in Nat, NEW parts \in Seq(Seq(Nat)),
           PartsGood("udp", m, parts), NEW more \in Seq(Seq(Nat)), Len(more) = n,
           \A i \in 1..n : more[i] = <<m + i>>
    PROVE  PartsGood("udp", m + n, parts \o parts \o more)
<1> DEFINE twice == parts \o parts
<1>1. twice \in Seq(Seq(Nat))
  OBVIOUS
<1>2. ASSUME NEW k \in 1..Len(twice) PROVE \E i \in 1..Len(parts) : twice[k] = parts[i]
  <2>1. CASE k \in 1..Len(parts)
    <3>1. twice[k] = parts[k]
      BY <2>1, Concat
    <3> QED BY <2>1, <3>1
  <2>2. CASE ~(k \in 1..Len(parts))
    <3>1. k - Len(parts) \in 1..Len(parts) /\ twice[k] = parts[k - Len(parts)]
      BY <2>2, Concat
    <3> QED BY <3>1
  <2> QED BY <2>1, <2>2
<1>3. \A u \in 1..m : Holds(twice, u)
  BY HoldsConcat DEF PartsGood
<1> HIDE DEF twice
<1>4. ASSUME NEW u \in 1..(m + n) PROVE Holds(twice \o more, u)
  <2>1. CASE u <= m
    BY <1>1, <1>3, <2>1, HoldsConcat
  <2>2. CASE u > m
    <3>1. u - m \in 1..Len(more) /\ more[u - m] = <<u>>
      BY <2>2
    <3>2. Holds(more, u)
      <4>1. Len(<<u>>) = 1 /\ <<u>>[1] = u /\ 1 \in 1..1
        OBVIOUS
      <4> QED BY <3>1, <4>1 DEF Holds
    <3> QED BY <1>1, <3>2, HoldsConcat
  <2> QED BY <2>1, <2>2
<1>5. ASSUME NEW k \in 1..Len(twice \o more), NEW j \in 1..Len((twice \o more)[k])
      PROVE  (twice \o more)[k][j] <= m + n
  <2>1. CASE k \in 1..Len(twice)
    <3>3. (twice \o more)[k] = twice[k]
      BY <1>1, <2>1, Concat
    <3>1. PICK i \in 1..Len(parts) : (twice \o more)[k] = parts[i]
      BY <1>2, <2>1, <3>3
    <3>2. parts[i][j] \in Nat /\ parts[i][j] <= m
      BY <3>1 DEF PartsGood
    <3> QED BY <3>1, <3>2
  <2>2. CASE ~(k \in 1..Len(twice))
    <3>1. k - Len(twice) \in 1..n /\ (twice \o more)[k] = more[k - Len(twice)]
      BY <1>1, <2>2, Concat
    <3>2. (twice \o more)[k] = <<m + (k - Len(twice))>>
      BY <3>1
    <3>3. j = 1 /\ (twice \o more)[k][j] = m + (k - Len(twice))
      BY <3>2
    <3> QED BY <3>1, <3>3
  <2> QED BY <2>1, <2>2
<1> QED BY <1>4, <1>5 DEF PartsGood, twice

LEMMA ConnFrame ==
    ASSUME ConnInv, UNCHANGED conn PROVE ConnInv'
  BY DEF ConnInv

\* The rule a connection is at, and the one after it.
LEMMA RuleTyped ==
    ASSUME conn \in ConnRecord, Matching
    PROVE  /\ Current \in Rule /\ conn.rule + 1 \in 1..(Len(rules) + 1)
           /\ Current.action = "sniff" => Current.names \in SniffNames
<1>1. Len(rules) \in Nat /\ rules \in Seq(Rule)
  BY RouterAssumption
<1>2. conn.rule \in 1..Len(rules)
  BY <1>1 DEF Matching, ConnRecord
<1>3. Current \in Rule
  BY <1>1, <1>2 DEF Current
<1>4. Current.action = "sniff" => Current.names \in SniffNames
  BY <1>2 DEF Current, SniffNames
<1> QED BY <1>1, <1>2, <1>3, <1>4

LEMMA ArriveStep ==
    ASSUME FakeIPIInv, NEW network \in {"tcp", "udp"}, NEW a \in Address \cup {NoFake},
           Arrive(network, a)
    PROVE  ConnInv'
<1>1. \E destination \in Domain \cup {NoFake}, named \in BOOLEAN :
          conn' = NewConn(network, destination, named)
  <2>1. CASE a = NoFake \/ ~Contains(options, a)
    <3>1. PICK named \in {FALSE, reverseMapping # {}} : conn' = NewConn(network, NoFake, named)
      BY <2>1 DEF Arrive
    <3>2. named \in BOOLEAN
      OBVIOUS
    <3> QED BY <3>1, <3>2
  <2>2. CASE ~(a = NoFake \/ ~Contains(options, a))
    <3>1. FakeIPLoad(a) # NoDomain /\ conn' = NewConn(network, FakeIPLoad(a), FALSE)
      BY <2>2 DEF Arrive
    <3>2. FakeIPLoad(a) \in Domain
      BY <2>2, <3>1 DEF FakeIPIInv, FakeIPTypeOK, FakeIPLoad
    <3> QED BY <3>1, <3>2
  <2> QED BY <2>1, <2>2
<1>2. PICK destination \in Domain \cup {NoFake}, named \in BOOLEAN :
          conn' = NewConn(network, destination, named)
  BY <1>1
<1>3. Len(rules) \in Nat /\ 1 \in 1..(Len(rules) + 1) /\ 0 \in 0..MaxPayload
  BY RouterAssumption
<1>4. conn' \in ConnRecord
  <2>1. <<>> \in Seq(Seq(Nat))
    OBVIOUS
  <2>2. "none" \in SniffNames
    BY DEF SniffNames
  <2> QED BY <1>2, <1>3, <2>1, <2>2 DEF NewConn, ConnRecord
<1>5. conn'.buffers = <<>> /\ conn'.read = 0
  BY <1>2 DEF NewConn
<1>6. conn'.buffers = KeptOnce(conn'.network, conn'.read)
  BY <1>5 DEF KeptOnce
<1>7. PartsGood(conn'.network, conn'.read, conn'.buffers)
  BY <1>5 DEF PartsGood
<1> QED BY <1>4, <1>6, <1>7, ConnKept

\* A first read of a stream keeps one buffer, of packets one for each.
LEMMA SniffStreamStep ==
    ASSUME ConnInv, NEW n \in 0..MaxPayload, NEW err \in {"nil", "more", "other"}, SniffStream(n, err)
    PROVE  ConnInv'
<1>1. conn.pc # "none" /\ Matching /\ conn.network = "tcp" /\ conn.read + n <= MaxPayload
      /\ Current.action = "sniff"
  BY DEF SniffStream, Sniffs, Matching
<1>2. /\ conn \in ConnRecord
      /\ PartsGood(conn.network, conn.read, conn.buffers)
      /\ ~conn.again => conn.buffers = KeptOnce(conn.network, conn.read)
  BY <1>1, ConnTyped
<1>3. conn.rule + 1 \in 1..(Len(rules) + 1) /\ Current.names \in SniffNames
  BY <1>1, <1>2, RuleTyped
<1>4. PICK named \in Named(err = "nil") :
        Proceed([conn EXCEPT !.names = Current.names, !.sniffError = err, !.named = named,
                  !.protocol = (err = "nil"), !.read = conn.read + n,
                  !.buffers = conn.buffers \o Kept(n, err),
                  !.again = conn.again \/ (n > 0 /\ conn.buffers # <<>>)])
  BY DEF SniffStream
<1>5. named \in BOOLEAN
  BY <1>2 DEF Named, ConnRecord
<1>6. MaxPayload \in Nat /\ n \in Nat /\ conn.read \in Nat /\ conn.buffers \in Seq(Seq(Nat))
  BY <1>2, RouterAssumption DEF ConnRecord
<1>7. conn.read + n \in 0..MaxPayload
  BY <1>1, <1>6
<1>8. Payload(n) \in Seq(Nat) /\ Kept(n, err) \in Seq(Seq(Nat))
  BY <1>6 DEF Payload, Kept
<1>9. conn.buffers \o Kept(n, err) \in Seq(Seq(Nat))
  BY <1>6, <1>8
<1>10. (conn.again \/ (n > 0 /\ conn.buffers # <<>>)) \in BOOLEAN /\ (err = "nil") \in BOOLEAN
  BY <1>2 DEF ConnRecord
<1>11. conn' \in ConnRecord
  BY <1>2, <1>3, <1>4, <1>5, <1>7, <1>9, <1>10 DEF Proceed, ConnRecord
<1>12. /\ conn'.network = conn.network /\ conn'.read = conn.read + n
       /\ conn'.buffers = conn.buffers \o Kept(n, err)
       /\ conn'.again = (conn.again \/ (n > 0 /\ conn.buffers # <<>>))
  BY <1>2, <1>4 DEF Proceed, ConnRecord
<1>13. ASSUME ~conn'.again PROVE conn'.buffers = KeptOnce(conn'.network, conn'.read)
  <2>1. ~conn.again /\ (n = 0 \/ conn.buffers = <<>>)
    <3>1. ~conn.again /\ (~(n > 0) \/ conn.buffers = <<>>)
      BY <1>12, <1>13
    <3>2. ~(n > 0) => n = 0
      BY <1>6
    <3> QED BY <3>1, <3>2
  <2>2. conn.buffers = IF conn.read = 0 THEN <<>> ELSE <<[i \in 1..conn.read |-> i]>>
    BY <1>1, <1>2, <2>1 DEF KeptOnce
  <2>3. CASE n = 0
    <3>1. Kept(n, err) = <<>>
      BY <2>3 DEF Kept
    <3>2. conn'.buffers = conn.buffers /\ conn'.read = conn.read
      BY <1>6, <1>12, <2>3, <3>1
    <3> QED BY <1>2, <1>12, <2>1, <3>2
  <2>4. CASE n > 0 /\ conn.buffers = <<>>
    <3>1. conn.read = 0
      <4>1. <<[i \in 1..conn.read |-> i]>> # <<>>
        BY Len(<<[i \in 1..conn.read |-> i]>>) = 1, Len(<<>>) = 0
      <4> QED BY <2>2, <2>4, <4>1
    <3>2. Payload(n) = [i \in 1..n |-> i]
      BY <1>6, <3>1 DEF Payload
    <3>3. Kept(n, err) = <<[i \in 1..n |-> i]>>
      BY <2>4, <3>2 DEF Kept
    <3>4. conn'.buffers = <<[i \in 1..n |-> i]>>
      BY <1>8, <1>12, <2>4, <3>3
    <3>5. conn'.read = n /\ n # 0 /\ conn'.network = "tcp"
      BY <1>1, <1>6, <1>12, <2>4, <3>1
    <3> QED BY <3>4, <3>5 DEF KeptOnce
  <2> QED BY <1>6, <2>1, <2>3, <2>4
<1>14. PartsGood(conn'.network, conn'.read, conn'.buffers)
  <2>1. CASE n = 0
    <3>1. Kept(n, err) = <<>>
      BY <2>1 DEF Kept
    <3>2. conn'.buffers = conn.buffers /\ conn'.read = conn.read
      BY <1>6, <1>12, <2>1, <3>1
    <3> QED BY <1>2, <1>12, <3>2
  <2>2. CASE n > 0
    <3>1. Kept(n, err) = <<Payload(n)>>
      BY <2>2 DEF Kept
    <3>2. Len(Payload(n)) = n /\ \A i \in 1..n : Payload(n)[i] = conn.read + i
      BY <1>6 DEF Payload
    <3> HIDE DEF Payload
    <3> QED BY <1>1, <1>2, <1>6, <1>8, <1>12, <2>2, <3>1, <3>2, StreamGrows
  <2> QED BY <1>6, <2>1, <2>2
<1> QED BY <1>11, <1>13, <1>14, ConnKept

LEMMA SniffPacketsStep ==
    ASSUME ConnInv, NEW n \in 0..MaxPayload, NEW err \in {"nil", "more", "other"},
           NEW timedOut \in BOOLEAN, SniffPackets(n, err, timedOut)
    PROVE  ConnInv'
<1> DEFINE more == [i \in 1..n |-> <<conn.read + i>>]
           kept == conn.buffers \o conn.buffers \o more
           protocol == ~timedOut /\ err = "nil"
           again == conn.again \/ conn.buffers # <<>>
           names == IF n > 0 \/ conn.buffers # <<>> THEN Current.names ELSE conn.names
<1>1. conn.pc # "none" /\ Matching /\ conn.network = "udp" /\ conn.read + n <= MaxPayload
      /\ Current.action = "sniff"
  BY DEF SniffPackets, Sniffs, Matching
<1>2. /\ conn \in ConnRecord
      /\ PartsGood(conn.network, conn.read, conn.buffers)
      /\ ~conn.again => conn.buffers = KeptOnce(conn.network, conn.read)
  BY <1>1, ConnTyped
<1>3. conn.rule + 1 \in 1..(Len(rules) + 1) /\ names \in SniffNames
  BY <1>1, <1>2, RuleTyped DEF ConnRecord
<1>4. PICK named \in Named(~timedOut /\ err = "nil") :
        Proceed([conn EXCEPT !.named = named, !.names = names, !.sniffError = err,
                  !.protocol = protocol, !.read = conn.read + n,
                  !.buffers = kept, !.again = again])
  BY DEF SniffPackets
<1>5. named \in BOOLEAN
  BY <1>2 DEF Named, ConnRecord
<1>6. MaxPayload \in Nat /\ n \in Nat /\ conn.read \in Nat /\ conn.buffers \in Seq(Seq(Nat))
  BY <1>2, RouterAssumption DEF ConnRecord
<1>7. conn.read + n \in 0..MaxPayload
  BY <1>1, <1>6
<1>8. more \in Seq(Seq(Nat))
  <2>1. \A i \in 1..n : <<conn.read + i>> \in Seq(Nat)
    BY <1>6
  <2> QED BY <1>6, <2>1
<1>9. kept \in Seq(Seq(Nat))
  BY <1>6, <1>8
<1>10. again \in BOOLEAN /\ protocol \in BOOLEAN
  BY <1>2 DEF ConnRecord
<1> HIDE DEF kept, names, protocol, again
<1>11. conn' \in ConnRecord
  BY <1>2, <1>3, <1>4, <1>5, <1>7, <1>9, <1>10 DEF Proceed, ConnRecord
<1>12. /\ conn'.network = conn.network /\ conn'.read = conn.read + n
       /\ conn'.buffers = kept
       /\ conn'.again = again
  BY <1>2, <1>4 DEF Proceed, ConnRecord
<1>13. ASSUME ~conn'.again PROVE conn'.buffers = KeptOnce(conn'.network, conn'.read)
  <2>1. ~conn.again /\ conn.buffers = <<>>
    BY <1>12, <1>13 DEF again
  <2>2. conn.buffers = [i \in 1..conn.read |-> <<i>>]
    BY <1>1, <1>2, <2>1 DEF KeptOnce
  <2>3. conn.read = 0
    <3>1. Len([i \in 1..conn.read |-> <<i>>]) = conn.read
      BY <1>6
    <3>2. Len(<<>>) = 0
      OBVIOUS
    <3> HIDE DEF more
    <3> QED BY <2>1, <2>2, <3>1, <3>2
  <2>4. more = [i \in 1..n |-> <<i>>]
    BY <1>6, <2>3
  <2>5. kept = more
    <3> HIDE DEF more
    <3>1. <<>> \o <<>> = <<>> /\ <<>> \o more = more
      BY <1>8
    <3> QED BY <2>1, <3>1 DEF kept
  <2>6. conn'.read = n /\ conn'.network = "udp"
    BY <1>1, <1>6, <1>12, <2>3
  <2> QED BY <1>12, <2>4, <2>5, <2>6 DEF KeptOnce
<1>14. PartsGood(conn'.network, conn'.read, conn'.buffers)
  <2>1. Len(more) = n /\ \A i \in 1..n : more[i] = <<conn.read + i>>
    BY <1>6
  <2> HIDE DEF more
  <2> QED BY <1>1, <1>2, <1>6, <1>8, <1>12, <2>1, PacketsGrow DEF kept
<1> QED BY <1>11, <1>13, <1>14, ConnKept

LEMMA SniffCapturedStep ==
    ASSUME ConnInv, NEW err \in {"nil", "other"}, SniffCaptured(err) PROVE ConnInv'
<1>1. conn.pc # "none" /\ Matching /\ Current.action = "sniff"
  BY DEF SniffCaptured, Sniffs, Matching
<1>2. conn \in ConnRecord
  BY <1>1, ConnTyped
<1>3. conn.rule + 1 \in 1..(Len(rules) + 1) /\ Current.names \in SniffNames
  BY <1>1, <1>2, RuleTyped
<1>4. PICK named \in Named(err = "nil") :
        Proceed([conn EXCEPT !.names = Current.names, !.sniffError = err, !.named = named,
                  !.protocol = (err = "nil")])
  BY DEF SniffCaptured
<1>5. named \in BOOLEAN /\ (err = "nil") \in BOOLEAN
  BY <1>2 DEF Named, ConnRecord
<1>6. conn' \in ConnRecord
  BY <1>2, <1>3, <1>4, <1>5 DEF Proceed, ConnRecord
<1>7. /\ conn'.network = conn.network /\ conn'.read = conn.read /\ conn'.buffers = conn.buffers
      /\ conn'.again = conn.again
  BY <1>2, <1>4 DEF Proceed, ConnRecord
<1> QED BY <1>1, <1>6, <1>7, PayloadUntouched

\* The actions that read nothing.
LEMMA OtherRulesStep ==
    ASSUME ConnInv, \/ RuleSkipped \/ SniffSkipped \/ SniffFails \/ Resolve \/ ResolveFails
                    \/ RouteOptions \/ Selected \/ NoneSelected
    PROVE  ConnInv'
<1>1. conn.pc = "match"
  BY DEF RuleSkipped, SniffSkipped, SniffFails, Resolve, ResolveFails, RouteOptions, Selected,
         NoneSelected, Matching, Sniffs
<1>2. conn \in ConnRecord
  BY <1>1, ConnTyped
<1>3. ASSUME NEW v \in {"error", "default"}, Verdict(v) PROVE ConnInv'
  <2>1. conn' = [conn EXCEPT !.pc = v]
    BY <1>3 DEF Verdict
  <2>2. conn' \in ConnRecord
    BY <1>2, <2>1 DEF ConnRecord
  <2> QED BY <1>1, <1>2, <2>1, <2>2, PayloadUntouched DEF ConnRecord
<1>4. ASSUME NEW c \in ConnRecord, Matching, Proceed(c), c.network = conn.network,
             c.read = conn.read, c.buffers = conn.buffers, c.again = conn.again
      PROVE  ConnInv'
  <2>1. conn.rule + 1 \in 1..(Len(rules) + 1)
    BY <1>2, <1>4, RuleTyped
  <2>2. conn' = [c EXCEPT !.rule = conn.rule + 1]
    BY <1>4 DEF Proceed
  <2>3. conn' \in ConnRecord
    BY <2>1, <2>2 DEF ConnRecord
  <2>4. /\ conn'.network = c.network /\ conn'.read = c.read /\ conn'.buffers = c.buffers
        /\ conn'.again = c.again
    BY <2>2 DEF ConnRecord
  <2> QED BY <1>1, <1>4, <2>3, <2>4, PayloadUntouched
<1>5. /\ Overridden(conn) \in ConnRecord
      /\ Overridden(conn).network = conn.network /\ Overridden(conn).read = conn.read
      /\ Overridden(conn).buffers = conn.buffers /\ Overridden(conn).again = conn.again
  BY <1>2 DEF Overridden, ConnRecord
<1>6. CASE RuleSkipped \/ SniffSkipped
  <2>1. Matching /\ Proceed(conn)
    BY <1>6 DEF RuleSkipped, SniffSkipped
  <2> QED BY <1>2, <1>4, <2>1
<1>7. CASE SniffFails
  BY <1>3, <1>7 DEF SniffFails
<1>8. CASE Resolve
  <2> DEFINE c == [conn EXCEPT !.resolved = conn.resolved \/ conn.destination \in Domain]
  <2>1. Matching /\ Proceed(c)
    BY <1>8 DEF Resolve
  <2>2. (conn.resolved \/ conn.destination \in Domain) \in BOOLEAN
    BY <1>2 DEF ConnRecord
  <2>3. c \in ConnRecord /\ c.network = conn.network /\ c.read = conn.read
        /\ c.buffers = conn.buffers /\ c.again = conn.again
    BY <1>2, <2>2 DEF ConnRecord
  <2> HIDE DEF c
  <2> QED BY <1>4, <2>1, <2>3
<1>9. CASE ResolveFails
  <2>1. CASE conn' = [conn EXCEPT !.pc = "default", !.resolved = FALSE]
    <3>1. conn' \in ConnRecord
      BY <1>2, <2>1 DEF ConnRecord
    <3>2. /\ conn'.network = conn.network /\ conn'.read = conn.read
          /\ conn'.buffers = conn.buffers /\ conn'.again = conn.again
      BY <1>2, <2>1 DEF ConnRecord
    <3> QED BY <1>1, <3>1, <3>2, PayloadUntouched
  <2>2. CASE Verdict("error")
    BY <1>3, <2>2
  <2> QED BY <1>9, <2>1, <2>2 DEF ResolveFails
<1>10. CASE RouteOptions
  <2>1. Matching /\ Proceed(Overridden(conn))
    BY <1>10 DEF RouteOptions
  <2> QED BY <1>4, <1>5, <2>1
<1>11. CASE Selected
  <2> DEFINE c == IF Current.action = "route" THEN Overridden(conn) ELSE conn
  <2>1. c \in ConnRecord /\ c.network = conn.network /\ c.read = conn.read
        /\ c.buffers = conn.buffers /\ c.again = conn.again
    BY <1>2, <1>5
  <2>2. conn' = [c EXCEPT !.pc = Current.action] /\ Current.action \in {"route", "reject", "hijack-dns"}
    BY <1>11 DEF Selected
  <2> HIDE DEF c
  <2>3. conn' \in ConnRecord
    BY <2>1, <2>2 DEF ConnRecord
  <2>4. /\ conn'.network = c.network /\ conn'.read = c.read /\ conn'.buffers = c.buffers
        /\ conn'.again = c.again
    BY <2>1, <2>2 DEF ConnRecord
  <2> QED BY <1>1, <2>1, <2>3, <2>4, PayloadUntouched
<1>12. CASE NoneSelected
  BY <1>3, <1>12 DEF NoneSelected
<1> QED BY <1>6, <1>7, <1>8, <1>9, <1>10, <1>11, <1>12

\* A connection that was not sniffed twice keeps what was read of it in order.
LEMMA ConnInductive ==
    ASSUME FakeIPIInv, ConnInv, [RouterNext]_routerVars PROVE ConnInv'
<1>1. CASE StoreGoesOn \/ DNSGoesOn
  BY <1>1, ConnFrame DEF StoreGoesOn, DNSGoesOn
<1>2. ASSUME NEW network \in {"tcp", "udp"}, NEW a \in Address \cup {NoFake}, Arrive(network, a)
      PROVE  ConnInv'
  BY <1>2, ArriveStep
<1>3. ASSUME NEW n \in 0..MaxPayload, NEW err \in {"nil", "more", "other"}, SniffStream(n, err)
      PROVE  ConnInv'
  BY <1>3, SniffStreamStep
<1>4. ASSUME NEW n \in 0..MaxPayload, NEW err \in {"nil", "more", "other"},
             NEW timedOut \in BOOLEAN, SniffPackets(n, err, timedOut)
      PROVE  ConnInv'
  BY <1>4, SniffPacketsStep
<1>5. ASSUME NEW err \in {"nil", "other"}, SniffCaptured(err) PROVE ConnInv'
  BY <1>5, SniffCapturedStep
<1>6. CASE \/ RuleSkipped \/ SniffSkipped \/ SniffFails \/ Resolve \/ ResolveFails
           \/ RouteOptions \/ Selected \/ NoneSelected
  BY <1>6, OtherRulesStep
<1>7. CASE Leave
  BY <1>7 DEF Leave, ConnInv
<1>8. CASE UNCHANGED routerVars
  BY <1>8, ConnFrame DEF routerVars
<1> QED BY <1>1, <1>2, <1>3, <1>4, <1>5, <1>6, <1>7, <1>8 DEF RouterNext

-----------------------------------------------------------------------------
\* What is put in front of the connection.

LEMMA Reversed ==
    ASSUME NEW b \in Seq(Seq(Nat))
    PROVE  /\ S!Reverse(b) \in Seq(Seq(Nat)) /\ Len(S!Reverse(b)) = Len(b)
           /\ \A k \in 1..Len(b) : /\ Len(b) + 1 - k \in 1..Len(b)
                                   /\ S!Reverse(b)[k] = b[Len(b) + 1 - k]
                                   /\ S!Reverse(b)[Len(b) + 1 - k] = b[k]
<1>1. Len(b) \in Nat
  OBVIOUS
<1>2. \A k \in 1..Len(b) : Len(b) + 1 - k \in 1..Len(b) /\ Len(b) - k + 1 = Len(b) + 1 - k
  BY <1>1
<1>3. S!Reverse(b) = [i \in 1..Len(b) |-> b[(Len(b) - i) + 1]]
  BY DEF S!Reverse
<1>4. \A k \in 1..Len(b) : b[(Len(b) - k) + 1] \in Seq(Nat)
  BY <1>1, <1>2
<1>5. S!Reverse(b) \in Seq(Seq(Nat)) /\ Len(S!Reverse(b)) = Len(b)
  BY <1>1, <1>3, <1>4
<1>6. \A k \in 1..Len(b) : S!Reverse(b)[k] = b[Len(b) + 1 - k]
  BY <1>2, <1>3
<1>7. \A k \in 1..Len(b) : Len(b) + 1 - (Len(b) + 1 - k) = k
  BY <1>1
<1>8. \A k \in 1..Len(b) : S!Reverse(b)[Len(b) + 1 - k] = b[k]
  BY <1>2, <1>6, <1>7
<1> QED BY <1>2, <1>5, <1>6, <1>8

\* What was kept is what will be read; a stream's parts the other way round.
LEMMA DeliveredWhole ==
    ASSUME ConnInv PROVE ReplayedWhole
<1> SUFFICES ASSUME conn.pc \in {"route", "default", "hijack-dns"}
             PROVE  /\ \A u \in 1..conn.read : Holds(Delivered, u)
                    /\ conn.network = "tcp" =>
                          /\ \A k \in 1..Len(Delivered) : Consecutive(Delivered[k])
                          /\ \A k, l \in 1..Len(Delivered) :
                                k < l => Before(Delivered[l], Delivered[k])
                    /\ ~conn.again =>
                          Delivered = IF conn.network = "tcp"
                                      THEN IF conn.read = 0 THEN <<>>
                                           ELSE <<[i \in 1..conn.read |-> i]>>
                                      ELSE [i \in 1..conn.read |->
                                              <<IF PassedOn(conn) THEN i ELSE conn.read + 1 - i>>]
  BY DEF ReplayedWhole
<1> DEFINE n == conn.read
           b == conn.buffers
           r == S!Reverse(b)
<1>1. /\ conn \in ConnRecord /\ PartsGood(conn.network, n, b)
      /\ ~conn.again => b = KeptOnce(conn.network, n)
  BY ConnTyped
<1>2. conn.network \in {"tcp", "udp"} /\ n \in Nat /\ b \in Seq(Seq(Nat)) /\ Len(b) \in Nat
  BY <1>1, RouterAssumption DEF ConnRecord
<1>3. /\ PassedOn(conn) => Delivered = b /\ conn.network = "udp"
      /\ ~PassedOn(conn) => Delivered = r
  BY DEF Delivered, PassedOn
<1>4. /\ r \in Seq(Seq(Nat)) /\ Len(r) = Len(b)
      /\ \A k \in 1..Len(b) : /\ Len(b) + 1 - k \in 1..Len(b)
                              /\ r[k] = b[Len(b) + 1 - k]
                              /\ r[Len(b) + 1 - k] = b[k]
  BY <1>2, Reversed
<1> HIDE DEF n, b, r
<1>5. ASSUME NEW u \in 1..n PROVE Holds(Delivered, u)
  <2>1. PICK k \in 1..Len(b) : \E j \in 1..Len(b[k]) : b[k][j] = u
    BY <1>1 DEF PartsGood, Holds
  <2>3. Len(b) + 1 - k \in 1..Len(r) /\ r[Len(b) + 1 - k] = b[k]
    BY <1>4
  <2>2. Holds(b, u) /\ Holds(r, u)
    BY <2>1, <2>3 DEF Holds
  <2> QED BY <1>3, <2>2
<1>6. ASSUME conn.network = "tcp"
      PROVE  /\ \A k \in 1..Len(Delivered) : Consecutive(Delivered[k])
             /\ \A k, l \in 1..Len(Delivered) : k < l => Before(Delivered[l], Delivered[k])
  <2>1. Delivered = r
    BY <1>3, <1>6
  <2>2. \A k \in 1..Len(r) : Consecutive(r[k])
    BY <1>1, <1>4, <1>6 DEF PartsGood
  <2>3. ASSUME NEW k \in 1..Len(r), NEW l \in 1..Len(r), k < l PROVE Before(r[l], r[k])
    <3>1. Len(b) + 1 - l < Len(b) + 1 - k
      BY <1>2, <1>4, <2>3
    <3>2. Before(b[Len(b) + 1 - l], b[Len(b) + 1 - k])
      BY <1>1, <1>4, <1>6, <3>1 DEF PartsGood
    <3> QED BY <1>4, <3>2
  <2> QED BY <2>1, <2>2, <2>3
<1>7. ASSUME ~conn.again, conn.network = "tcp"
      PROVE  Delivered = IF n = 0 THEN <<>> ELSE <<[i \in 1..n |-> i]>>
  <2>1. Delivered = r
    BY <1>3, <1>7
  <2>2. CASE n = 0
    <3>1. Len(r) = 0
      BY <1>1, <1>4, <1>7, <2>2 DEF KeptOnce
    <3> QED BY <1>4, <2>1, <2>2, <3>1
  <2>3. CASE n # 0
    <3> DEFINE whole == [i \in 1..n |-> i]
    <3>1. whole \in Seq(Nat)
      BY <1>2
    <3> HIDE DEF whole
    <3>2. b = <<whole>>
      BY <1>1, <1>7, <2>3 DEF KeptOnce, whole
    <3>3. Len(r) = 1 /\ r[1] = whole
      BY <1>4, <3>1, <3>2
    <3>4. r = <<whole>>
      BY <1>4, <3>1, <3>3
    <3> QED BY <2>1, <2>3, <3>4 DEF whole
  <2> QED BY <2>2, <2>3
<1>8. ASSUME ~conn.again, conn.network = "udp"
      PROVE  Delivered = [i \in 1..n |-> <<IF PassedOn(conn) THEN i ELSE n + 1 - i>>]
  <2>1. b = [i \in 1..n |-> <<i>>]
    BY <1>1, <1>8 DEF KeptOnce
  <2>2. CASE PassedOn(conn)
    BY <1>3, <2>1, <2>2
  <2>3. CASE ~PassedOn(conn)
    <3>1. Len(b) = n
      BY <1>2, <2>1
    <3>2. \A i \in 1..n : r[i] = <<n + 1 - i>>
      BY <1>2, <1>4, <2>1, <3>1
    <3>4. r = [i \in 1..n |-> r[i]]
      BY <1>4, <3>1
    <3>3. r = [i \in 1..n |-> <<n + 1 - i>>]
      BY <3>2, <3>4
    <3> QED BY <1>3, <2>3, <3>3
  <2> QED BY <2>2, <2>3
<1> QED BY <1>2, <1>5, <1>6, <1>7, <1>8 DEF n

\* What the rule loop keeps says that the first rule answers.
LEMMA LoopAnswers ==
    ASSUME DNSIInv PROVE FirstRuleAnswers
<1> SUFFICES ASSUME query.pc = "done", ~query.explicit PROVE FirstRuleAnswers
  BY DEF FirstRuleAnswers
<1>1. query # NoQuery
  BY QueryTyped DEF DNSIInv
<1>2. \A i \in RuleIndex : Returned(i) /\ (query.rule = 0 \/ i < query.rule) => Excused(i)
  BY <1>1 DEF DNSIInv, QueryInv, Passed
<1>3. \A skip \in query.skipped : Returned(skip[1])
  BY <1>1 DEF DNSIInv, QueryInv
<1>4. query.answer # "none" /\ query.err # "nil" =>
              /\ query.op = "lookup" /\ query.skipped # {}
              /\ dnsRules[query.rule].action = "predefined"
  BY <1>1 DEF DNSIInv, QueryInv
<1> QED BY <1>2, <1>3, <1>4 DEF FirstRuleAnswers, Excused

-----------------------------------------------------------------------------
\* The inductive invariant holds at all times: the store's records agree in both
\* directions and have goroutines that write them, addresses are allocated in
\* turn, DNS rules are left only for a reason, and a connection keeps what was
\* read of it (store.go:34-110, fakeip.go:43-210, router.go:192-637,
\* route.go:277-720).
THEOREM Invariant == RouterSpec => []RouterIInv
<1>1. ASSUME RouterInit PROVE RouterIInv
  <2>1. FakeIPIInv /\ DNSIInv
    BY <1>1, FakeIPInitial, DNSInitial DEF RouterInit
  <2>2. OrderInv
    BY <1>1 DEF RouterInit, Init, OrderInv
  <2>3. ConnInv
    BY <1>1 DEF RouterInit, ConnInv
  <2> QED BY <2>1, <2>2, <2>3 DEF RouterIInv
<1>2. ASSUME RouterIInv, [RouterNext]_routerVars PROVE RouterIInv'
  <2>1. [FakeIPNext]_fakeIPVars /\ [DNSNext]_dnsVars
    BY <1>2, RouterStepsStore, RouterStepsDNS
  <2>2. FakeIPIInv' /\ OrderInv'
    BY <1>2, <2>1, FakeIPInductive, OrderInductive DEF RouterIInv
  <2>3. DNSIInv'
    BY <1>2, <2>1, DNSInductive DEF RouterIInv
  <2>4. ConnInv'
    BY <1>2, ConnInductive DEF RouterIInv
  <2> QED BY <2>2, <2>3, <2>4 DEF RouterIInv
<1> QED BY <1>1, <1>2, PTL DEF RouterSpec

\* A connection to a fake address is one to the domain the address was last
\* answered for, whatever the order of writes, flushes, crashes and restarts
\* (store.go:85-126, fakeip.go:99-148).
THEOREM MapsBack == RouterSpec => []AddressMapsBack
<1>1. RouterIInv => AddressMapsBack
  BY DEF RouterIInv, FakeIPIInv
<1> QED BY <1>1, Invariant, PTL

\* An address that is answered lies in the configured range, so that the router
\* knows it for a fake one, unless a reset was rolled back or the range is too small
\* for its first address (store.go:34-58, 85-110, fakeip.go:182-194).
THEOREM AnswersWithinRange == RouterSpec => []WithinRange
<1>1. RouterIInv => WithinRange
  BY DEF RouterIInv, FakeIPIInv, RangeInv, WithinRange, Assignable, Contains, TooSmall
<1> QED BY <1>1, Invariant, PTL

\* Ranges of any size are gone through from end to end before an address is
\* allocated a second time, across restarts (store.go:34-58, 85-110).
THEOREM AllocatedInTurn == RouterSpec => []NoEarlyReuse
<1>1. RouterIInv => NoEarlyReuse
  BY WholeTurn DEF RouterIInv
<1> QED BY <1>1, Invariant, PTL

\* With any list of rules the result of a query is that of the first one that
\* applies, but for those passed over for their address limit
\* (router.go:376-471, 548-577, 626-637).
THEOREM FirstRule == RouterSpec => []FirstRuleAnswers
<1>1. RouterIInv => FirstRuleAnswers
  BY LoopAnswers DEF RouterIInv
<1> QED BY <1>1, Invariant, PTL

\* Fake addresses stay away from lookups and the reverse mapping, and unchecked
\* answers from rules with an address limit, but for the two ways around
\* (router.go:192-233, 435-444, 477-488, client.go:249-254).
THEOREM AnswersApart == RouterSpec => []AnswerAllowed
<1>1. RouterIInv => AnswerAllowed
  BY DEF RouterIInv, DNSIInv
<1> QED BY <1>1, Invariant, PTL

\* What sniffing has read of a connection that goes on is read again, all of it, for
\* any rules: a stream part by part, the last part first, packets last one first, or
\* as they came for hijack-dns; a stream in order and a packet once unless sniffing
\* went over them a second time (route.go:116-121, 134-136, 233, 244-246, 457-461,
\* 611, 661).
THEOREM PayloadReplayed == RouterSpec => []ReplayedWhole
<1>1. RouterIInv => ReplayedWhole
  BY DeliveredWhole DEF RouterIInv
<1> QED BY <1>1, Invariant, PTL
=============================================================================
