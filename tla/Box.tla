--------------------------------- MODULE Box ---------------------------------
(***************************************************************************)
(* The program's life (src/box.go): the managers are started stage by      *)
(* stage, traffic runs through a group, and everything is closed again, at *)
(* the end or when a stage fails.  This module composes the outbound,      *)
(* inbound and endpoint managers (src/adapter/outbound/manager.go,         *)
(* src/adapter/inbound/manager.go, src/adapter/endpoint/manager.go) with   *)
(* ConnectionManager and, as the outbound all connections go through, a    *)
(* group with a HealthChecker.                                             *)
(*                                                                         *)
(* An endpoint (WireGuard, Tailscale) is an outbound that also accepts     *)
(* connections.  Endpoints are started among the outbounds, at the end of  *)
(* the list, and may accept from then on: before a group that is only      *)
(* started in a later pass.  A dial of a group that was not started        *)
(* dereferences nil, and the program is gone ("crashed").                  *)
(*                                                                         *)
(* The managers whose start and close touch nothing of this are one        *)
(* component "rest", whose stages may fail.  Box.PreStart alone, which the *)
(* tools commands use, and a reload, which is another Box, are left out.   *)
(***************************************************************************)
EXTENDS ConnectionManager, HealthChecker, Sequences

CONSTANTS
    Tag,                \* outbounds and endpoints, in addition to the group
    Group,              \* the tag of the group
    Endpoint,           \* those of Tag that are endpoints
    Place,              \* places of all of them in the list
    DependencyCases     \* what they depend on: cases considered

Tags == Tag \cup {Group}

ASSUME BoxAssumption ==
    /\ Group \notin Tag
    /\ IsFiniteSet(Tag)
    /\ Endpoint \subseteq Tag
    /\ Place \in [Tags -> Nat \ {0}]
    /\ \A s, t \in Tags : Place[s] = Place[t] => s = t
    /\ \A e \in Endpoint, t \in Tags \ Endpoint : Place[t] < Place[e]
    /\ \A d \in DependencyCases : DOMAIN d = Tags

VARIABLES
    box,            \* "starting", "running", "closing", "closed", "crashed"
    step,           \* the next stage of Start, or component of Close
    managers,       \* of outbound, inbound, endpoint: those with started = true
    depends,        \* what each outbound depends on
    up,             \* outbounds that startOutbounds has called
    ready,          \* those whose Start has returned without error
    serving,        \* endpoints that accept connections
    cursor,         \* how far its pass through the list has come
    canContinue,    \* whether the pass has started one
    cause,          \* history: why Start failed
    listening,      \* inbounds accept connections
    late            \* history: connections that entered the list after it
                    \* was closed

startVars == <<depends, up, ready, cursor, canContinue>>
boxVars == <<box, step, managers, startVars, cause, serving, listening, late>>
vars == <<boxVars, connVars, interruptVars, checkerVars>>
traffic == <<connVars, interruptVars>>

\* Mutant: inbounds are started before the outbounds.
MutantStartSteps == <<
    <<"initialize", "rest">>, <<"initialize", "outbound">>, <<"initialize", "inbound">>,
    <<"initialize", "endpoint">>, <<"start", "inbound">>, <<"start", "outbound">>,
    <<"start", "rest">>, <<"post-start", "rest">>, <<"post-start", "endpoint">>,
    <<"finish-start", "rest">>, <<"finish-start", "outbound">>, <<"finish-start", "rest">> >>

\* preStart and start.  Stages in which a component of the model does nothing
\* are part of "rest"; legacy PostStart methods run at the last stage.
StartSteps == <<
    <<"initialize", "rest">>, <<"initialize", "outbound">>, <<"initialize", "inbound">>,
    <<"initialize", "endpoint">>, <<"start", "outbound">>, <<"start", "rest">>,
    <<"start", "inbound">>, <<"post-start", "rest">>, <<"post-start", "endpoint">>,
    <<"finish-start", "rest">>, <<"finish-start", "outbound">>, <<"finish-start", "rest">> >>

\* service, endpoint, inbound, outbound, (router,) connection.
CloseSteps == <<"rest", "endpoint", "inbound", "outbound", "connection">>

Init ==
    /\ ConnInit /\ CheckerInit
    /\ box = "starting" /\ step = 1
    /\ managers = {}
    /\ depends \in DependencyCases
    /\ up = {} /\ ready = {} /\ cursor = 0 /\ canContinue = FALSE
    /\ cause = "none"
    /\ serving = {}
    /\ listening = FALSE
    /\ late = {}

At(stage, component) == box = "starting" /\ StartSteps[step] = <<stage, component>>

Advance ==
    IF step < Len(StartSteps) THEN step' = step + 1 /\ box' = box
    ELSE step' = 1 /\ box' = "running"

\* Start closes the box when a stage fails.
Abort(why) == box' = "closing" /\ step' = 1 /\ cause' = why

-----------------------------------------------------------------------------
\* Starting.
RestStarts ==
    /\ \E stage \in {"initialize", "start", "post-start", "finish-start"} : At(stage, "rest")
    /\ \/ Advance /\ UNCHANGED cause
       \/ Abort("failed")
    /\ UNCHANGED <<managers, startVars, serving, listening, late, traffic, checkerVars>>

\* A manager counts as started from its first stage on, even if that fails.
ManagerInitializes(m) ==
    /\ At("initialize", m)
    /\ managers' = managers \cup {m}
    /\ \/ Advance /\ UNCHANGED cause
       \/ Abort("failed")
    /\ UNCHANGED <<startVars, serving, listening, late, traffic, checkerVars>>

\* startOutbounds: pass after pass through the list, starting each outbound
\* whose dependencies have been started.
\* Mutant: one started dependency is enough.
MutantStartable(t) == t \in Tags \ up /\ (depends[t] = {} \/ depends[t] \cap up # {})

Startable(t) == t \in Tags \ up /\ depends[t] \subseteq up

Ahead(t) == Startable(t) /\ Place[t] > cursor

\* A WireGuard endpoint accepts from its Start on, or from its PostStart when a
\* peer has a domain name; a Tailscale endpoint from a point within its Start.
OutboundStarts(t) ==
    /\ At("start", "outbound")
    /\ Ahead(t) /\ \A s \in Tags : Ahead(s) => Place[t] <= Place[s]
    /\ up' = up \cup {t}
    /\ cursor' = Place[t]
    /\ canContinue' = TRUE
    /\ \/ ready' = ready \cup {t} /\ UNCHANGED <<box, step, cause>>
       \/ ready' = ready /\ Abort("failed")
    /\ \/ UNCHANGED serving
       \/ t \in Endpoint /\ serving' = serving \cup {t}
    /\ UNCHANGED <<managers, depends, listening, late, traffic, checkerVars>>

\* Mutant: a pass that starts nothing ends the start as if it were complete.
MutantPassEnds ==
    /\ At("start", "outbound")
    /\ \A t \in Tags : ~Ahead(t)
    /\ cursor' = 0
    /\ canContinue' = FALSE
    /\ \/ ~canContinue /\ Advance /\ UNCHANGED cause
       \/ canContinue /\ UNCHANGED <<box, step, cause>>
    /\ UNCHANGED <<managers, depends, up, ready, serving, listening, late, traffic,
                   checkerVars>>

\* The end of a pass: all started, another pass, or the error of lintOutbound.
PassEnds ==
    /\ At("start", "outbound")
    /\ \A t \in Tags : ~Ahead(t)
    /\ cursor' = 0
    /\ canContinue' = FALSE
    /\ \/ up = Tags /\ Advance /\ UNCHANGED cause
       \/ up # Tags /\ canContinue /\ UNCHANGED <<box, step, cause>>
       \/ up # Tags /\ ~canContinue /\ Abort("lint")
    /\ UNCHANGED <<managers, depends, up, ready, serving, listening, late, traffic,
                   checkerVars>>

InboundStarts ==
    /\ At("start", "inbound")
    /\ listening' = TRUE
    /\ \/ Advance /\ UNCHANGED cause
       \/ Abort("failed")
    /\ UNCHANGED <<managers, startVars, serving, late, traffic, checkerVars>>

\* The endpoints that had put it off accept now, one after the other.
EndpointsPostStart ==
    /\ At("post-start", "endpoint")
    /\ \/ serving' = Endpoint /\ Advance /\ UNCHANGED cause
       \/ /\ serving' \in {S \in SUBSET Endpoint : serving \subseteq S}
          /\ Abort("failed")
    /\ UNCHANGED <<managers, startVars, listening, late, traffic, checkerVars>>

GroupPostStarts ==
    /\ At("finish-start", "outbound")
    /\ PostStart
    /\ Advance
    /\ UNCHANGED <<managers, startVars, cause, serving, listening, late, traffic>>

-----------------------------------------------------------------------------
\* Closing.  A manager that was never started closes nothing; a group that was
\* never started has nothing to close.
Shutdown ==
    /\ box = "running"
    /\ box' = "closing"
    /\ UNCHANGED <<step, managers, startVars, cause, serving, listening, late, traffic,
                   checkerVars>>

CloseNext ==
    LET component == CloseSteps[step]
    IN  /\ box = "closing"
        /\ step' = IF step < Len(CloseSteps) THEN step + 1 ELSE 1
        /\ box' = IF step < Len(CloseSteps) THEN box ELSE "closed"
        /\ managers' = managers \ {component}
        /\ serving' = IF component = "endpoint" /\ component \in managers
                      THEN {} ELSE serving
        /\ listening' = IF component = "inbound" /\ component \in managers
                        THEN FALSE ELSE listening
        /\ IF component = "outbound" /\ component \in managers /\ Group \in ready
           THEN CheckerClose ELSE UNCHANGED checkerVars
        /\ IF component = "connection" THEN CloseListed
           ELSE UNCHANGED traffic
        /\ UNCHANGED <<startVars, cause, late>>

\* run cancels the program's context before Close, and after a start that failed.
ContextDone == box = "closed" \/ (box = "closing" /\ cause = "none")

-----------------------------------------------------------------------------
\* Traffic.
Inbound(c) ==
    /\ listening
    /\ \E n \in {"tcp", "udp"}, viaLegacy \in BOOLEAN : Accept(c, n, viaLegacy)
    /\ UNCHANGED <<boxVars, checkerVars>>

\* Endpoints use the newer entry points.
EndpointAccepts(c) ==
    /\ serving # {}
    /\ \E n \in {"tcp", "udp"} : Accept(c, n, FALSE)
    /\ UNCHANGED <<boxVars, checkerVars>>

\* The group's DialContext or ListenPacket: Touch, then the dial.
GroupDials(c) ==
    /\ Group \in ready
    /\ Route(c)
    /\ Touch
    /\ UNCHANGED boxVars

\* The same before the group's Start has made what they dereference.
DialPanics(c) ==
    /\ phase[c] = "route" /\ Group \notin ready
    /\ box' = "crashed"
    /\ UNCHANGED <<step, managers, startVars, cause, serving, listening, late, traffic,
                   checkerVars>>

ListClosed == box = "closed"

HandlerGoesOn(c) ==
    /\ Handler(c) \/ (ContextDone /\ WaitEnds(c))
    /\ late' = IF phase[c] = "report" /\ phase'[c] = "copy" /\ ListClosed
               THEN late \cup {c} ELSE late
    /\ UNCHANGED <<box, step, managers, startVars, cause, serving, listening, checkerVars>>

CopyGoesOn(c) == Copying(c) /\ UNCHANGED <<boxVars, checkerVars>>

SlotFreed(c) ==
    /\ Forget(c)
    /\ late' = late \ {c}
    /\ UNCHANGED <<box, step, managers, startVars, cause, serving, listening, checkerVars>>

\* The group's selection changes (OutboundGroup).
SelectionChanges ==
    /\ connections # {}
    /\ Interrupt
    /\ UNCHANGED <<boxVars, connVars, checkerVars>>

CheckerRuns ==
    /\ \/ \E l \in Loop : LoopStep(l)
       \/ TimePasses
    /\ UNCHANGED <<boxVars, traffic>>

-----------------------------------------------------------------------------
\* After a crash nothing happens any more.
Alive == box # "crashed"

Next ==
    /\ Alive
    /\ \/ RestStarts \/ PassEnds \/ InboundStarts \/ EndpointsPostStart \/ GroupPostStarts
       \/ \E m \in {"outbound", "inbound", "endpoint"} : ManagerInitializes(m)
       \/ \E t \in Tags : OutboundStarts(t)
       \/ Shutdown \/ CloseNext
       \/ \E c \in Conn : \/ Inbound(c) \/ EndpointAccepts(c) \/ GroupDials(c) \/ DialPanics(c)
                          \/ HandlerGoesOn(c) \/ CopyGoesOn(c) \/ SlotFreed(c)
       \/ SelectionChanges
       \/ CheckerRuns

Spec == Init /\ [][Next]_vars

\* Close goes through its list.  A goroutine whose read or write is on a closed
\* connection returns from it and unwinds; the loop gets its ticks, and a select
\* that finds the closed channel again and again takes it some time.  Peers, dials
\* and uses of the group owe nothing: a read may wait for ever, and so may a write
\* to a peer that takes no data.
FairSpec ==
    /\ Spec
    /\ WF_vars(Alive /\ CloseNext)
    /\ \A c \in Conn :
          /\ \A d \in Dir :
                /\ WF_vars(Alive /\ CopyFails(c, d) /\ UNCHANGED <<boxVars, checkerVars>>)
                /\ WF_vars(Alive /\ Unwind(c, d) /\ UNCHANGED <<boxVars, checkerVars>>)
          /\ WF_vars(Alive /\ CopiesEnd(c) /\ UNCHANGED <<boxVars, checkerVars>>)
    /\ \A l \in Loop :
          /\ WF_vars(Alive /\ LoopStep(l) /\ UNCHANGED <<boxVars, traffic>>)
          /\ SF_vars(Alive /\ LoopReturns(l) /\ UNCHANGED <<boxVars, traffic>>)

-----------------------------------------------------------------------------
TypeOK ==
    /\ ConnTypeOK /\ CheckerTypeOK
    /\ box \in {"starting", "running", "closing", "closed", "crashed"}
    /\ step \in 1..Len(StartSteps)
    /\ managers \subseteq {"outbound", "inbound", "endpoint"}
    /\ depends \in DependencyCases
    /\ up \in SUBSET Tags /\ ready \in SUBSET Tags /\ serving \in SUBSET Endpoint
    /\ cursor \in Nat
    /\ canContinue \in BOOLEAN
    /\ cause \in {"none", "failed", "lint"}
    /\ listening \in BOOLEAN
    /\ late \in SUBSET Conn

\* The reference for startOutbounds: every dependency exists and each set of
\* outbounds has one that needs no other of the set.
Orderable ==
    /\ \A t \in Tags : depends[t] \subseteq Tags
    /\ \A S \in SUBSET Tags : S # {} => \E t \in S : depends[t] \cap S = {}

\* The outbounds are refused for their dependencies only when these are circular
\* or missing, and a program that runs has started all of them in a possible
\* order (manager.go:93-158).
StartOrderSound ==
    /\ cause = "lint" => ~Orderable
    /\ box = "running" => ready = Tags /\ Orderable

\* The list is in order: what an outbound other than an endpoint depends on is no
\* endpoint and stands before it.
InOrder ==
    \A t \in Tags \ Endpoint : \A r \in depends[t] :
        r \in Tags \ Endpoint /\ Place[r] < Place[t]

\* No connection reaches the group before its Start, which creates what DialContext
\* dereferences, also when the start fails half way; with one exception.  An endpoint
\* accepts as soon as it is started, and if the outbounds are listed before what they
\* depend on, or depend on an endpoint, that may be before the group is: such a
\* connection ends the program.  Connections of inbounds never do, and none does when
\* the list is in order (box.go:454-470, manager.go:79, 93-129, fallback.go:66-81,
\* 102-105, 151-153).
DialMeetsGroup == box = "crashed" => ~InOrder /\ ~listening

\* What startOutbounds has started is closed under dependencies and was started
\* in a possible order; a pass that has started nothing began at the head.
OrderInv ==
    /\ \A t \in up : depends[t] \subseteq up
    /\ \A S \in SUBSET up : S # {} => \E t \in S : depends[t] \cap S = {}
    /\ ~canContinue => cursor = 0

\* Inbounds accept only once all outbounds were started.
StageInv ==
    /\ ready \subseteq up /\ serving \subseteq up
    /\ box = "starting" => ready = up
    /\ box = "starting" /\ step > 5 => up = Tags
    /\ box = "running" => ready = Tags
    /\ listening => ready = Tags

\* A pass through a list in order leaves no outbound behind, so that endpoints, which
\* stand at its end, are started when all the others are.
PlaceInv ==
    /\ InOrder =>
          /\ \A t \in Tags \ Endpoint : Place[t] <= cursor => t \in up
          /\ up \cap Endpoint # {} => Tags \ Endpoint \subseteq ready
          /\ \A c \in Conn : phase[c] # "idle" => Group \in ready
    /\ DialMeetsGroup

\* The inductive invariant.
IInv ==
    /\ TypeOK /\ ConnIInv /\ CheckerIInv
    /\ OrderInv /\ StageInv /\ PlaceInv /\ StartOrderSound

\* A connection ends once a goroutine reads from a side that was closed, or writes
\* to one, as after an interrupt; and once the program is closed, that is so of every
\* connection that is reading from its inbound and was in the list when the list was
\* closed.  More does not hold: a copy that waits for one side does not notice that
\* the other was closed after its own end of file, a write to a peer that takes no
\* data does not notice that its source was closed, and a handler under way may enter
\* the list later (interrupt/group.go:39-52, conn.go:48-56, 108-115, 270, 310-324,
\* 359, 367).
ClosedConnectionEnds ==
    \A c \in Conn :
        (\E d \in Dir : \/ Woken(c, d)
                        \/ /\ d = "up" /\ copier[c][d] = "read"
                           /\ box = "closed" /\ c \notin late)
        ~> phase[c] = "ended" \/ ~Alive

\* After Close the loop ends, unless it was started later by a connection still
\* under way, in a group whose Close had found no ticker and left the channel open
\* (healthcheck.go:108-118, 127).
LoopEndsAfterClose ==
    \A l \in Loop : closeCalled /\ Live(l) /\ l \notin orphans
                    ~> ~Live(l) \/ l \in orphans \/ ~Alive

\* A use whose refresh of lastActive a loop does not see as a use: one that falls
\* between the loop's last look at lastActive and its end, after which the next
\* loop finds the group active and checks nothing at once; or between the creation
\* of a loop and its first look, with the same effect.
LostUse == (\E c \in Conn : GroupDials(c)) /\ \E l \in Loop : loop[l] \in {"begin", "idle"}

\* "组长期未使用时停止周期检查" (README.md section 5.3), and only then: while the
\* program runs, a group that is used again and again is checked again and again,
\* unless again and again a use is lost (healthcheck.go:93-106, 121-141).
UseKeepsChecking ==
    /\ <>[](box = "running")
    /\ []<><<\E c \in Conn : GroupDials(c)>>_vars
    /\ <>[][~LostUse]_vars
    => []<><<\E l \in Loop : LoopChecks(l)>>_vars
==============================================================================
