---------------------------- MODULE HealthChecker ----------------------------
(***************************************************************************)
(* The life of a group's periodic check (healthChecker of                  *)
(* src/protocol/group/healthcheck.go; URLTestGroup of urltest.go has the   *)
(* same code).  The first use after the start, or after a pause, creates   *)
(* the ticker and the loop; the loop ends itself when the group was not    *)
(* used for idle_timeout.  What a check does to the records is in          *)
(* LoadBalance and OutboundGroup.                                          *)
(*                                                                         *)
(* The time since lastActive is kept as 0 (at most interval), 1 (more) or  *)
(* 2 (more than idle_timeout, which is no less than interval).  Touch,     *)
(* Close and the end of the loop hold the lock and are one step each.  The *)
(* pause manager, which stops and resets the ticker, is left out.          *)
(***************************************************************************)
EXTENDS Naturals, FiniteSets

CONSTANT Loop       \* identities of loopCheck goroutines

VARIABLES
    started,        \* set by PostStart
    ticker,         \* "nil", "running" or "stopped"
    closeChannel,   \* the channel close: "open" or "closed"
    age,            \* time since lastActive
    loop,           \* where each loopCheck goroutine is
    closeCalled,    \* history: Close was called
    orphans         \* history: loops started after Close that it cannot end

checkerVars == <<started, ticker, closeChannel, age, loop, closeCalled, orphans>>

CheckerInit ==
    /\ started = FALSE
    /\ ticker = "nil"
    /\ closeChannel = "open"
    /\ age = 2
    /\ loop = [l \in Loop |-> "none"]
    /\ closeCalled = FALSE
    /\ orphans = {}

Live(l) == loop[l] # "none"

PostStart ==
    /\ started' = TRUE
    /\ age' = 0
    /\ UNCHANGED <<ticker, closeChannel, loop, closeCalled, orphans>>

\* A use while the ticker is there refreshes lastActive.  One that creates the
\* ticker leaves that to the loop.
Touch ==
    \/ ~started /\ UNCHANGED checkerVars
    \/ /\ started /\ ticker # "nil"
       /\ age' = 0
       /\ UNCHANGED <<started, ticker, closeChannel, loop, closeCalled, orphans>>
    \/ /\ started /\ ticker = "nil"
       /\ ticker' = "running"
       /\ \E l \in Loop : ~Live(l)
       /\ LET l == CHOOSE l \in Loop : ~Live(l)
          IN  /\ loop' = [loop EXCEPT ![l] = "begin"]
              /\ orphans' = IF closeCalled /\ closeChannel = "open"
                            THEN orphans \cup {l} ELSE orphans \ {l}
       /\ UNCHANGED <<started, closeChannel, age, closeCalled>>

\* Mutant: Close forgets the ticker as the idle loop does.
MutantCheckerClose ==
    /\ closeCalled' = TRUE
    /\ ticker' = "nil"
    /\ closeChannel' = IF ticker = "nil" THEN closeChannel ELSE "closed"
    /\ UNCHANGED <<started, age, loop, orphans>>

\* Mutant: Close stops the ticker only.
MutantStopOnly ==
    /\ closeCalled' = TRUE
    /\ ticker' = IF ticker = "nil" THEN ticker ELSE "stopped"
    /\ UNCHANGED <<started, closeChannel, age, loop, orphans>>

\* Without a ticker Close returns at once: the channel stays open.
CheckerClose ==
    /\ closeCalled' = TRUE
    /\ \/ ticker = "nil" /\ UNCHANGED <<ticker, closeChannel>>
       \/ ticker # "nil" /\ ticker' = "stopped" /\ closeChannel' = "closed"
    /\ UNCHANGED <<started, age, loop, orphans>>

TimePasses ==
    /\ age < 2
    /\ age' = age + 1
    /\ UNCHANGED <<started, ticker, closeChannel, loop, closeCalled, orphans>>

-----------------------------------------------------------------------------
\* loopCheck.
Move(l, from, to) == loop[l] = from /\ loop' = [loop EXCEPT ![l] = to]

\* Mutant: a loop that starts after a pause keeps the old lastActive.
MutantLoopBegins(l) ==
    /\ Move(l, "begin", "wait")
    /\ UNCHANGED <<started, ticker, closeChannel, age, closeCalled, orphans>>

LoopBegins(l) ==
    /\ \/ age > 0 /\ age' = 0 /\ Move(l, "begin", "check")
       \/ age = 0 /\ UNCHANGED age /\ Move(l, "begin", "wait")
    /\ UNCHANGED <<started, ticker, closeChannel, closeCalled, orphans>>

LoopTicks(l) ==
    /\ ticker = "running"
    /\ Move(l, "wait", IF age = 2 THEN "idle" ELSE "check")
    /\ UNCHANGED <<started, ticker, closeChannel, age, closeCalled, orphans>>

\* The lock is taken only now, after lastActive was looked at.
LoopStops(l) ==
    /\ Move(l, "idle", "none")
    /\ ticker' = "nil"
    /\ UNCHANGED <<started, closeChannel, age, closeCalled, orphans>>

LoopReturns(l) ==
    /\ closeChannel = "closed"
    /\ Move(l, "wait", "none")
    /\ UNCHANGED <<started, ticker, closeChannel, age, closeCalled, orphans>>

LoopChecks(l) ==
    /\ Move(l, "check", "wait")
    /\ UNCHANGED <<started, ticker, closeChannel, age, closeCalled, orphans>>

LoopStep(l) ==
    LoopBegins(l) \/ LoopTicks(l) \/ LoopStops(l) \/ LoopReturns(l) \/ LoopChecks(l)

-----------------------------------------------------------------------------
CheckerTypeOK ==
    /\ started \in BOOLEAN
    /\ ticker \in {"nil", "running", "stopped"}
    /\ closeChannel \in {"open", "closed"}
    /\ age \in 0..2
    /\ loop \in [Loop -> {"none", "begin", "wait", "idle", "check"}]
    /\ closeCalled \in BOOLEAN
    /\ orphans \in SUBSET Loop

\* At most one loop runs, and the ticker it reads and stops without asking is
\* there, although Touch, Close and an idle loop handle the same field
\* (healthcheck.go:93-106, 108-118, 131-139).
LoopOwnsTicker ==
    /\ Cardinality({l \in Loop : Live(l)}) <= 1
    /\ (\E l \in Loop : Live(l)) => ticker # "nil"

\* The inductive invariant.
CheckerIInv ==
    /\ CheckerTypeOK
    /\ \A k, l \in Loop : Live(k) /\ Live(l) => k = l
    /\ (\E l \in Loop : Live(l)) => ticker # "nil"
==============================================================================
