------------------------------ MODULE DNSRacer -------------------------------
(***************************************************************************)
(* The four racers of src/dns/router.go: exchangeRacer, lookupRacer and    *)
(* their hedged forms, called from Router.Exchange and Router.Lookup.      *)
(*                                                                         *)
(* One goroutine per server sends its query and offers the result on an    *)
(* unbuffered channel; the caller collects the results.  In the hedged     *)
(* form the fallback goroutines wait until a timer goroutine closes        *)
(* fallbackStart.  Time is kept as the phases the code tells apart:        *)
(*   0  before upstreamTimeout                                             *)
(*   1  after upstreamTimeout, within fallbackGrace                        *)
(*   2  after upstreamTimeout + fallbackGrace                              *)
(* A query's result is one of the kinds the collector tells apart; what    *)
(* client.Exchange does inside is the subject of DNSClient.                *)
(***************************************************************************)
EXTENDS Naturals, FiniteSets

CONSTANTS
    Primary,             \* goroutines of the rule's servers
    Fallback,            \* goroutines of the rule's fallback servers
    Exchange,            \* TRUE: exchange*Racer, FALSE: lookup*Racer
    HasUpstreamTimeout,  \* upstreamTimeout > 0
    HasGrace,            \* fallbackGrace > 0
    WithAddressLimit,    \* the rule checks the addresses of a response
    Deaf                 \* goroutines whose transport may ignore its context

ASSUME RacerAssumption ==
    /\ IsFiniteSet(Primary) /\ IsFiniteSet(Fallback)
    /\ Primary \cap Fallback = {}
    /\ "noquery" \notin Primary \cup Fallback
    /\ {Exchange, HasUpstreamTimeout, HasGrace, WithAddressLimit} \subseteq BOOLEAN

VARIABLES
    phase,            \* time, as above
    cancelled,        \* the context given to Router.Exchange/Lookup is done
    queryCancelled,   \* queryCancel was called
    fallbackStart,    \* the channel fallbackStart is closed
    pc,               \* where each goroutine is
    res,              \* the result each goroutine obtained
    got,              \* goroutines whose result the collector received
    i,                \* the collector's loop counter
    saved,            \* fallbackTransport / fallbackAddrs: first kept result
    allRejected,
    allRejectedOnly,
    outcome           \* what the racer returned, Pending while it runs

collector == <<got, i, saved, allRejected, allRejectedOnly, outcome>>
vars == <<phase, cancelled, queryCancelled, fallbackStart, pc, res, collector>>

Hedged == HasUpstreamTimeout /\ Fallback # {}
Query == IF Hedged THEN Primary \cup Fallback ELSE Primary
total == Cardinality(Query)

NoQuery == "noquery"
NoAnswer == "noanswer"

\* Rejections come from the address limit only (a non-NOERROR message can still
\* come out of the cache).  A lookup turns every failure into an error.
Kinds ==
    {"noerror", "error", "ctxError"}
        \cup (IF Exchange THEN {"rcode"} ELSE {})
        \cup (IF Exchange /\ WithAddressLimit THEN {"rejected", "rejectedCached"} ELSE {})

Pending == [kind |-> "pending", from |-> NoQuery]
Result(q) == [kind |-> "result", from |-> q]
Failure(k) == [kind |-> k, from |-> NoQuery]

Outcomes ==
    [kind : {"pending", "rejectedCached", "rejected", "errors", "ctxError"},
     from : {NoQuery}] \cup [kind : {"result"}, from : Query]

-----------------------------------------------------------------------------
\* Contexts.  Without fallback servers the router wraps the caller's context
\* with the upstream timeout; with them only the primaries get a deadline.
\* Mutant: the race without fallback servers gets no deadline.
MutantCtxDone == cancelled
CtxDone == cancelled \/ (HasUpstreamTimeout /\ ~Hedged /\ phase >= 1)
QueryCtxDone == queryCancelled \/ CtxDone
\* Mutant: primaryTimeout without the grace window.
MutantPrimaryCtxDone == QueryCtxDone \/ (Hedged /\ phase >= 1)
PrimaryCtxDone == QueryCtxDone \/ (Hedged /\ phase = 2)

Init ==
    /\ phase = 0
    /\ cancelled = FALSE
    /\ queryCancelled = FALSE
    /\ fallbackStart = FALSE
    /\ pc = [q \in Query |-> IF q \in Primary THEN "query" ELSE "wait"]
    /\ res = [q \in Query |-> NoAnswer]
    /\ got = {}
    /\ i = 0
    /\ saved = NoQuery
    /\ allRejected = TRUE
    /\ allRejectedOnly = TRUE
    /\ outcome = Pending

-----------------------------------------------------------------------------
\* The environment: time passes, the caller's context ends.
TimePasses ==
    /\ HasUpstreamTimeout
    /\ phase < 2
    /\ phase' = IF phase = 0 /\ HasGrace THEN 1 ELSE 2
    /\ UNCHANGED <<cancelled, queryCancelled, fallbackStart, pc, res, collector>>

CallerCancels ==
    /\ ~cancelled
    /\ cancelled' = TRUE
    /\ UNCHANGED <<phase, queryCancelled, fallbackStart, pc, res, collector>>

\* The timer goroutine closes fallbackStart on the timer or on queryCtx.
CloseFallbackStart ==
    /\ Hedged
    /\ ~fallbackStart
    /\ phase >= 1 \/ QueryCtxDone
    /\ fallbackStart' = TRUE
    /\ UNCHANGED <<phase, cancelled, queryCancelled, pc, res, collector>>

-----------------------------------------------------------------------------
\* Query goroutines.
Goto(q, label) == pc' = [pc EXCEPT ![q] = label]

\* Mutant: the fallback goroutine watches primaryCtx instead of queryCtx.
MutantFallbackWake(q) ==
    /\ pc[q] = "wait"
    /\ \/ fallbackStart /\ Goto(q, "check")
       \/ PrimaryCtxDone /\ Goto(q, "done")
    /\ UNCHANGED <<phase, cancelled, queryCancelled, fallbackStart, res, collector>>

\* A fallback goroutine's first select: fallbackStart, or queryCtx.Done.
FallbackWake(q) ==
    /\ pc[q] = "wait"
    /\ \/ fallbackStart /\ Goto(q, "check")
       \/ QueryCtxDone /\ Goto(q, "done")
    /\ UNCHANGED <<phase, cancelled, queryCancelled, fallbackStart, res, collector>>

\* Mutant: no second look at the context after fallbackStart.
MutantFallbackCheck(q) ==
    /\ pc[q] = "check"
    /\ Goto(q, "query")
    /\ UNCHANGED <<phase, cancelled, queryCancelled, fallbackStart, res, collector>>

\* It looks at queryCtx.Err() once more before it queries.
FallbackCheck(q) ==
    /\ pc[q] = "check"
    /\ Goto(q, IF QueryCtxDone THEN "done" ELSE "query")
    /\ UNCHANGED <<phase, cancelled, queryCancelled, fallbackStart, res, collector>>

\* client.Exchange or client.Lookup returns.  A primary is ended by its
\* context only when that is done; a fallback has a timeout of its own.
Answer(q, k) ==
    /\ pc[q] = "query"
    /\ k = "ctxError" => q \in Fallback \/ PrimaryCtxDone
    /\ res' = [res EXCEPT ![q] = k]
    /\ Goto(q, "send")
    /\ UNCHANGED <<phase, cancelled, queryCancelled, fallbackStart, collector>>

\* Mutant: the send has no "returned" alternative and blocks for ever.
MutantGiveUp(q) == FALSE

\* The second select, when the racer has returned: the result is dropped.
GiveUp(q) ==
    /\ pc[q] = "send"
    /\ outcome # Pending
    /\ Goto(q, "done")
    /\ UNCHANGED <<phase, cancelled, queryCancelled, fallbackStart, res, collector>>

-----------------------------------------------------------------------------
\* The collector.  Returning runs the deferred queryCancel and closes
\* returned, which outcome # Pending stands for.
Return(o) ==
    /\ outcome' = o
    /\ queryCancelled' = TRUE

Keepable == IF Exchange THEN {"noerror", "rcode"} ELSE Kinds

\* Mutant: the last answer is kept instead of the first.
MutantReceive(q) ==
    /\ outcome = Pending
    /\ i < total
    /\ pc[q] = "send"
    /\ Goto(q, "done")
    /\ got' = got \cup {q}
    /\ i' = i + 1
    /\ saved' = IF res[q] \in Keepable THEN q ELSE saved
    /\ UNCHANGED <<phase, cancelled, fallbackStart, res>>

Receive(q) ==
    /\ outcome = Pending
    /\ i < total
    /\ pc[q] = "send"
    /\ Goto(q, "done")
    /\ got' = got \cup {q}
    /\ i' = i + 1
    /\ saved' = IF saved = NoQuery /\ res[q] \in Keepable THEN q ELSE saved
    /\ UNCHANGED <<phase, cancelled, fallbackStart, res>>

ReceiveNoError(q) ==
    /\ res[q] = "noerror"
    /\ Receive(q)
    /\ Return(Result(q))
    /\ UNCHANGED <<allRejected, allRejectedOnly>>

\* Mutant: a fresh rejection does not clear allRejectedOnly.
MutantReceiveOther(q) ==
    /\ res[q] # "noerror"
    /\ Receive(q)
    /\ allRejected' = (allRejected /\ res[q] \in {"rcode", "rejected", "rejectedCached"})
    /\ allRejectedOnly' = (allRejectedOnly /\ res[q] \in {"rcode", "rejected", "rejectedCached"})
    /\ UNCHANGED <<queryCancelled, outcome>>

ReceiveOther(q) ==
    /\ res[q] # "noerror"
    /\ Receive(q)
    /\ allRejected' = (allRejected /\ res[q] \in {"rcode", "rejected", "rejectedCached"})
    /\ allRejectedOnly' = (allRejectedOnly /\ res[q] \in {"rcode", "rejectedCached"})
    /\ UNCHANGED <<queryCancelled, outcome>>

CollectorCtxDone ==
    /\ outcome = Pending
    /\ i < total
    /\ CtxDone
    /\ Return(IF saved # NoQuery THEN Result(saved) ELSE Failure("ctxError"))
    /\ UNCHANGED <<phase, cancelled, fallbackStart, pc, res,
                   got, i, saved, allRejected, allRejectedOnly>>

Verdict ==
    IF Exchange /\ allRejectedOnly THEN Failure("rejectedCached")
    ELSE IF Exchange /\ allRejected THEN Failure("rejected")
    ELSE Failure("errors")

CollectorDone ==
    /\ outcome = Pending
    /\ i = total
    /\ Return(IF saved # NoQuery THEN Result(saved) ELSE Verdict)
    /\ UNCHANGED <<phase, cancelled, fallbackStart, pc, res,
                   got, i, saved, allRejected, allRejectedOnly>>

-----------------------------------------------------------------------------
Next ==
    \/ TimePasses
    \/ CallerCancels
    \/ CloseFallbackStart
    \/ CollectorCtxDone
    \/ CollectorDone
    \/ \E q \in Query :
          \/ FallbackWake(q)
          \/ FallbackCheck(q)
          \/ \E k \in Kinds : Answer(q, k)
          \/ GiveUp(q)
          \/ ReceiveNoError(q)
          \/ ReceiveOther(q)

Spec == Init /\ [][Next]_vars

\* Time passes and the Go scheduler runs every goroutine that can run.
SchedulerFairness ==
    /\ WF_vars(TimePasses)
    /\ WF_vars(CloseFallbackStart)
    /\ WF_vars(CollectorCtxDone \/ CollectorDone
               \/ \E q \in Query : ReceiveNoError(q) \/ ReceiveOther(q))
    /\ \A q \in Query : WF_vars(FallbackWake(q) \/ FallbackCheck(q) \/ GiveUp(q))

\* A query ends: its context has a deadline, and client.Exchange sets its own
\* timeout when there is none.  The TCP and TLS transports look at the context
\* only while they dial: once the query is written they wait for the server.
\* Nothing obliges the caller to cancel.
QueryFairness == \A q \in Query \ Deaf : WF_vars(\E k \in Kinds : Answer(q, k))

FairSpec == Spec /\ SchedulerFairness /\ QueryFairness

-----------------------------------------------------------------------------
TypeOK ==
    /\ phase \in 0..2
    /\ cancelled \in BOOLEAN
    /\ queryCancelled \in BOOLEAN
    /\ fallbackStart \in BOOLEAN
    /\ pc \in [Query -> {"wait", "check", "query", "send", "done"}]
    /\ res \in [Query -> Kinds \cup {NoAnswer}]
    /\ got \in SUBSET Query
    /\ i \in 0..total
    /\ saved \in Query \cup {NoQuery}
    /\ allRejected \in BOOLEAN
    /\ allRejectedOnly \in BOOLEAN
    /\ outcome \in Outcomes

\* A fallback server is queried only once the upstream timeout has passed, even
\* though the timer goroutine also opens fallbackStart when the race is over
\* or cancelled (router.go:660-668, 698-707).
FallbackAfterTimeout ==
    \A q \in Query \ Primary :
        pc[q] \in {"query", "send"} \/ res[q] # NoAnswer => phase >= 1

\* A primary server keeps its grace window: as long as the race runs and the
\* caller waits, its query is cut off only after upstreamTimeout +
\* fallbackGrace, while the fallbacks are already running (router.go:655-659).
GraceKept ==
    Hedged /\ outcome = Pending /\ ~cancelled =>
        \A q \in Primary : res[q] = "ctxError" => phase = 2

\* "Rejected" and "rejected (cached)" make the router try the next rule: the
\* racer reports them only when every server, fallbacks included, answered
\* with a rejection, and "cached" only when each of them was a cached one
\* (router.go:765-789).
RejectionUnanimous ==
    /\ outcome.kind = "rejectedCached" =>
          \A q \in Query : q \in got /\ res[q] = "rejectedCached"
    /\ outcome.kind = "rejected" =>
          /\ \A q \in Query : q \in got /\ res[q] \in {"rejected", "rejectedCached"}
          /\ \E q \in Query : res[q] = "rejected"

\* The racer always returns: no result it waits for is withheld, although a
\* fallback goroutine that finds the race cancelled sends none
\* (router.go:698-707, 733-741).
RaceReturns == <>(outcome # Pending)

\* No goroutine of a race outlives it: query goroutines and the timer goroutine
\* all end, whatever the order of return and answers (router.go:644, 691-694).
NoGoroutineLeak ==
    <>[](/\ \A q \in Query : pc[q] = "done"
         /\ Hedged => fallbackStart)

\* The racer implements the race its callers rely on.
Race == INSTANCE DNSRace WITH
            answer <- [q \in Query |-> IF q \in got THEN res[q] ELSE NoAnswer],
            first <- saved,
            ctxDone <- CtxDone

RaceSpec == Race!Spec

-----------------------------------------------------------------------------
\* Why the properties hold, as an inductive invariant.

\* A goroutine has a result exactly from the moment its query ended, and it
\* has handed it over when the collector counts it.
GoroutineInv ==
    /\ \A q \in Query : pc[q] \in {"wait", "check", "query"} => res[q] = NoAnswer
    /\ \A q \in Query : pc[q] = "send" => res[q] # NoAnswer
    /\ \A q \in got : pc[q] = "done" /\ res[q] # NoAnswer
    /\ i = Cardinality(got)

\* While the race runs, the collector's variables summarise what it received.
CollectorInv ==
    /\ saved # NoQuery => saved \in got /\ res[saved] \in Keepable
    /\ outcome = Pending =>
          /\ ~queryCancelled
          /\ saved = NoQuery => \A q \in got : res[q] \notin Keepable
          /\ \A q \in got : res[q] # "noerror"
          /\ allRejected <=>
                \A q \in got : res[q] \in {"rcode", "rejected", "rejectedCached"}
          /\ allRejectedOnly <=> \A q \in got : res[q] \in {"rcode", "rejectedCached"}

\* fallbackStart opens early only when the race is over or cancelled.
TimerInv ==
    /\ fallbackStart => phase >= 1 \/ QueryCtxDone
    /\ \A q \in Query : pc[q] = "check" => fallbackStart
    /\ \A q \in Query \ Primary : pc[q] = "query" => phase >= 1

IInv ==
    /\ TypeOK
    /\ GoroutineInv
    /\ CollectorInv
    /\ TimerInv
    /\ FallbackAfterTimeout
    /\ GraceKept
    /\ RejectionUnanimous
==============================================================================
