------------------------------- MODULE DNSRace -------------------------------
(***************************************************************************)
(* What a DNS race promises to its caller (README section 2.3): queries    *)
(* answer one by one, the first NOERROR answer ends the race at once, and  *)
(* without one the race ends when every query has answered or when the     *)
(* caller's context is done.  Goroutines, channels, timers and the         *)
(* collector's bookkeeping are absent: DNSRacer implements this module.    *)
(***************************************************************************)
CONSTANTS
    Query,      \* the queries of the race, one per raced server
    Exchange    \* TRUE: a message exchange, FALSE: an address lookup

VARIABLES
    answer,     \* what each query has answered so far
    first,      \* the first query whose answer is worth keeping
    ctxDone,    \* is the caller's context done?
    outcome     \* what the race returned

vars == <<answer, first, ctxDone, outcome>>

NoQuery == "noquery"
NoAnswer == "noanswer"

Kinds == {"noerror", "rcode", "rejected", "rejectedCached", "error", "ctxError"}
Keepable == IF Exchange THEN {"noerror", "rcode"} ELSE Kinds

Pending == [kind |-> "pending", from |-> NoQuery]
Result(q) == [kind |-> "result", from |-> q]
Failure(k) == [kind |-> k, from |-> NoQuery]

Answered(k) == {q \in Query : answer[q] = k}

\* The verdict on a race without a kept answer in which every query answered.
Verdict ==
    IF ~Exchange THEN Failure("errors")
    ELSE IF Query \subseteq Answered("rejectedCached") THEN Failure("rejectedCached")
    ELSE IF Query \subseteq Answered("rejectedCached") \cup Answered("rejected")
         THEN Failure("rejected")
         ELSE Failure("errors")

Init ==
    /\ answer = [q \in Query |-> NoAnswer]
    /\ first = NoQuery
    /\ ctxDone \in BOOLEAN
    /\ outcome = Pending

Deliver(q, k) ==
    /\ outcome = Pending
    /\ answer[q] = NoAnswer
    /\ answer' = [answer EXCEPT ![q] = k]
    /\ first' = IF first = NoQuery /\ k \in Keepable THEN q ELSE first
    /\ outcome' = IF k = "noerror" THEN Result(q) ELSE Pending
    /\ UNCHANGED ctxDone

Expire ==
    /\ ~ctxDone
    /\ ctxDone' = TRUE
    /\ UNCHANGED <<answer, first, outcome>>

Abandon ==
    /\ outcome = Pending
    /\ ctxDone
    /\ outcome' = IF first # NoQuery THEN Result(first) ELSE Failure("ctxError")
    /\ UNCHANGED <<answer, first, ctxDone>>

Settle ==
    /\ outcome = Pending
    /\ \A q \in Query : answer[q] # NoAnswer
    /\ outcome' = IF first # NoQuery THEN Result(first) ELSE Verdict
    /\ UNCHANGED <<answer, first, ctxDone>>

Next ==
    \/ \E q \in Query, k \in Kinds : Deliver(q, k)
    \/ Expire
    \/ Abandon
    \/ Settle

Spec == Init /\ [][Next]_vars
==============================================================================
