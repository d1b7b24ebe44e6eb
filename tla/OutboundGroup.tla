---------------------------- MODULE OutboundGroup ----------------------------
(***************************************************************************)
(* The groups that keep one selected outbound per network: fallback,       *)
(* urltest and selector (src/protocol/group/fallback.go, urltest.go,       *)
(* selector.go), with the connections they close when the selection        *)
(* changes.                                                                *)
(*                                                                         *)
(* A fallback call tries outbounds in turn and makes the one that answers  *)
(* the selected one; a urltest call uses the selected one, which only the  *)
(* check changes; a selector call uses the one the user chose, which is    *)
(* also written to the cache file.  Calls of DialContext and ListenPacket  *)
(* are the same steps.  The records of a call or of Select are read in one *)
(* step; outbounds are not groups themselves (RealTag is the outbound).    *)
(* The check a failed fallback dial starts is one of the checks that may   *)
(* start at any time, with every record counted as old.  Reading urltest's *)
(* unsynchronised selected fields yields their value before or after a     *)
(* write.                                                                  *)
(***************************************************************************)
EXTENDS InterruptGroup, FiniteSets

CONSTANTS
    Outbound,       \* the outbounds of the group
    Position,       \* their place in the list
    Supports,       \* which outbounds support which network: cases considered
    Networks,       \* assignments of networks to connections considered
    Kinds,          \* kinds of group considered
    Delays,         \* delays a test may measure, in milliseconds
    tolerance,      \* option of urltest
    Default,        \* the selector's default outbound
    Caller,         \* concurrent callers of SelectOutbound
    NoOutbound, NoRecord

Network == {"tcp", "udp"}

ASSUME GroupAssumption ==
    /\ IsFiniteSet(Outbound) /\ NoOutbound \notin Outbound
    /\ Position \in [Outbound -> 1..Cardinality(Outbound)]
    /\ \A o, p \in Outbound : Position[o] = Position[p] => o = p
    /\ Supports \subseteq [Network -> SUBSET Outbound] /\ Supports # {}
    /\ Networks \subseteq [Conn -> Network] /\ Networks # {}
    /\ Kinds \subseteq {"fallback", "urltest", "selector"}
    /\ Delays \subseteq Nat /\ Delays # {} /\ NoRecord \notin Delays
    /\ \A d \in Delays : d <= 15000
    /\ tolerance \in Nat \ {0} /\ tolerance < 65536
    /\ Default \in Outbound

VARIABLES
    kind,           \* the kind of this group
    supports,       \* the outbounds that support each network
    history,        \* the delay of each outbound's test record
    selected,       \* the selected outbound by network
    pc,             \* where each call is
    network,        \* its network
    preferred,      \* outbounds that had a record when it began
    remaining,      \* outbounds it has not tried
    detour,         \* the outbound it dials or has dialled
    check,          \* where the running check is
    testing,        \* outbounds it has not heard of yet
    turn,           \* the network performUpdateCheck is at
    chosen,         \* what Select returned for it: outbound and exists
    blind,          \* it loaded no previous outbound
    updated,        \* it has replaced an outbound
    api,            \* where each call of SelectOutbound is
    tag,            \* the outbound it was called with
    persisted,      \* the selection in the cache file
    failed,         \* history: outbounds each call failed with
    overtaken,      \* history: calls whose outbound was replaced while they
                    \* were not in the group, or without an interrupt
    batch           \* history: what the cache file may hold once no call of
                    \* SelectOutbound is under way

callVars == <<pc, network, preferred, remaining, detour, failed>>
checkVars == <<check, testing, turn, chosen, blind, updated>>
apiVars == <<api, tag, persisted, batch>>
group == <<kind, supports>>
vars == <<group, history, selected, overtaken, interruptVars, callVars, checkVars, apiVars>>

NoChoice == [outbound |-> NoOutbound, exists |-> FALSE]

\* A selector does not look at networks: one case of them is enough for it.
OneOf(S) == IF kind = "selector" THEN {CHOOSE x \in S : TRUE} ELSE S

\* Selector.Start prefers the stored selection, then the default.
Init ==
    /\ InterruptInit
    /\ kind \in Kinds
    /\ supports \in OneOf(Supports)
    /\ history = [o \in Outbound |-> NoRecord]
    /\ persisted \in (IF kind = "selector" THEN Outbound \cup {NoOutbound} ELSE {NoOutbound})
    /\ selected = [n \in Network |-> IF kind # "selector" THEN NoOutbound
                                     ELSE IF persisted # NoOutbound THEN persisted ELSE Default]
    /\ pc = [c \in Conn |-> "idle"]
    /\ network \in OneOf(Networks)
    /\ preferred = [c \in Conn |-> {}]
    /\ remaining = [c \in Conn |-> {}]
    /\ detour = [c \in Conn |-> NoOutbound]
    /\ check = "idle" /\ testing = {} /\ turn = "tcp" /\ chosen = NoChoice
    /\ blind = FALSE /\ updated = FALSE
    /\ api = [u \in Caller |-> "idle"]
    /\ tag = [u \in Caller |-> NoOutbound]
    /\ failed = [c \in Conn |-> {}]
    /\ overtaken = {}
    /\ batch = {persisted}

-----------------------------------------------------------------------------
Recorded == {o \in Outbound : history[o] # NoRecord}

FirstOf(S) == CHOOSE o \in S : \A p \in S : Position[o] <= Position[p]

\* uint16
Plus(d) == (d + tolerance) % 65536

\* Mutant: the tolerance is added on the wrong side.
MutantFaster(min, o) == min = 0 \/ min + tolerance > history[o]

Faster(min, o) == min = 0 \/ min > Plus(history[o])

\* One round of the loop of URLTestGroup.Select, at place i of the list: the
\* running minimum is the delay of best, 0 standing for none.
Visit(n, best, i) ==
    LET min == IF best = NoOutbound THEN 0 ELSE history[best]
        better == {o \in supports[n] \cap Recorded : Position[o] = i /\ Faster(min, o)}
    IN  IF better = {} THEN best ELSE CHOOSE o \in better : TRUE

Pass(n, start) ==
    LET run[i \in 0..Cardinality(Outbound)] ==
            IF i = 0 THEN start ELSE Visit(n, run[i-1], i)
    IN  run[Cardinality(Outbound)]

urltestSelect(n) ==
    Pass(n, IF selected[n] \in Recorded THEN selected[n] ELSE NoOutbound)

fallbackSelect(n) ==
    IF supports[n] \cap Recorded = {} THEN NoOutbound ELSE FirstOf(supports[n] \cap Recorded)

\* Without a record the first outbound that supports the network.
Select(n) ==
    LET o == IF kind = "urltest" THEN urltestSelect(n) ELSE fallbackSelect(n)
    IN  IF o # NoOutbound THEN [outbound |-> o, exists |-> TRUE]
        ELSE [outbound |-> IF supports[n] = {} THEN NoOutbound ELSE FirstOf(supports[n]),
              exists |-> FALSE]

\* A call that holds an outbound and is in no list yet.
InFlight(c) ==
    pc[c] \in {"interrupt", "register"} \cup (IF kind = "fallback" THEN {} ELSE {"dial"})

\* Writing the selected outbounds; quiet: no interrupt will follow.
Write(new, quiet) ==
    /\ selected' = new
    /\ overtaken' = overtaken \cup
          {c \in Conn : /\ detour[c] # new[network[c]]
                        /\ selected[network[c]] # new[network[c]]
                        /\ InFlight(c) \/ (quiet /\ c \in connections)}

-----------------------------------------------------------------------------
\* Calls.

\* Mutant: as soon as one outbound has a record the others are not tried.
MutantTryList(c) ==
    IF supports[network[c]] \cap Recorded # {} THEN supports[network[c]] \cap Recorded
    ELSE supports[network[c]]

TryList(c) == supports[network[c]]

\* The next of the list "preferred, then the others".
NextDetour(pref, rest) == FirstOf(IF pref \cap rest # {} THEN pref \cap rest ELSE rest)

FallbackCall(c) ==
    LET rest == TryList(c)
        o == NextDetour(Recorded, rest)
    IN  /\ kind = "fallback"
        /\ rest # {}
        /\ preferred' = [preferred EXCEPT ![c] = Recorded]
        /\ remaining' = [remaining EXCEPT ![c] = rest \ {o}]
        /\ detour' = [detour EXCEPT ![c] = o]

SelectedCall(c) ==
    LET n == network[c]
        o == IF selected[n] # NoOutbound THEN selected[n] ELSE Select(n).outbound
    IN  /\ kind # "fallback"
        /\ o # NoOutbound
        /\ detour' = [detour EXCEPT ![c] = o]
        /\ UNCHANGED <<preferred, remaining>>

Call(c) ==
    /\ pc[c] = "idle"
    /\ FallbackCall(c) \/ SelectedCall(c)
    /\ pc' = [pc EXCEPT ![c] = "dial"]
    /\ UNCHANGED <<group, history, selected, overtaken, interruptVars, network, failed,
                   checkVars, apiVars>>

\* "missing supported outbound"
NoCandidate(c) ==
    /\ pc[c] = "idle"
    /\ kind # "selector" /\ supports[network[c]] = {} /\ selected[network[c]] = NoOutbound
    /\ pc' = [pc EXCEPT ![c] = "error"]
    /\ UNCHANGED <<group, history, selected, overtaken, interruptVars, network, preferred,
                   remaining, detour, failed, checkVars, apiVars>>

\* A selector hands inbound connections to the selected outbound itself
\* (NewConnectionEx): they never enter its interrupt group.
DialSucceeds(c) ==
    /\ pc[c] = "dial"
    /\ Dialled(c)
    /\ pc' = [pc EXCEPT ![c] = IF kind = "fallback" THEN "swap"
                               ELSE IF kind = "selector" /\ c \in external THEN "connected"
                               ELSE "register"]
    /\ UNCHANGED <<group, history, selected, overtaken, network, preferred, remaining,
                   detour, failed, checkVars, apiVars>>

\* A failed fallback dial goes on to the next outbound of its list, the
\* others return the error; a selector keeps no records.
DialFails(c) ==
    LET rest == remaining[c]
        over == rest = {}
        o == NextDetour(preferred[c], rest)
    IN  /\ pc[c] = "dial"
        /\ failed' = [failed EXCEPT ![c] = @ \cup {detour[c]}]
        /\ history' = IF kind = "selector" THEN history
                      ELSE [history EXCEPT ![detour[c]] = NoRecord]
        /\ pc' = [pc EXCEPT ![c] = IF over THEN "error" ELSE "dial"]
        /\ detour' = [detour EXCEPT ![c] = IF over THEN NoOutbound ELSE o]
        /\ remaining' = [remaining EXCEPT ![c] = IF over THEN {} ELSE rest \ {o}]
        /\ preferred' = [preferred EXCEPT ![c] = IF over THEN {} ELSE @]
        /\ UNCHANGED <<group, selected, overtaken, interruptVars, network, checkVars, apiVars>>

\* storeSelected: Swap, then Interrupt when another outbound was replaced.
StoreSelected(c) ==
    LET n == network[c]
        previous == selected[n]
    IN  /\ pc[c] = "swap"
        /\ Write([selected EXCEPT ![n] = detour[c]], previous = NoOutbound)
        /\ pc' = [pc EXCEPT ![c] = IF previous \notin {NoOutbound, detour[c]}
                                   THEN "interrupt" ELSE "register"]
        /\ preferred' = [preferred EXCEPT ![c] = {}]
        /\ remaining' = [remaining EXCEPT ![c] = {}]
        /\ UNCHANGED <<group, history, interruptVars, network, detour, failed, checkVars, apiVars>>

CallInterrupts(c) ==
    /\ pc[c] = "interrupt"
    /\ Interrupt
    /\ pc' = [pc EXCEPT ![c] = "register"]
    /\ UNCHANGED <<group, history, selected, overtaken, network, preferred, remaining,
                   detour, failed, checkVars, apiVars>>

Register(c) ==
    /\ pc[c] = "register"
    /\ NewConn(c)
    /\ pc' = [pc EXCEPT ![c] = "connected"]
    /\ UNCHANGED <<group, history, selected, overtaken, network, preferred, remaining,
                   detour, failed, checkVars, apiVars>>

\* What is kept of a call ends with its connection.
Hangup(c) ==
    /\ pc[c] = "connected"
    /\ CloseConn(c)
    /\ pc' = [pc EXCEPT ![c] = "ended"]
    /\ detour' = [detour EXCEPT ![c] = NoOutbound]
    /\ failed' = [failed EXCEPT ![c] = {}]
    /\ overtaken' = overtaken \ {c}
    /\ UNCHANGED <<group, history, selected, network, preferred, remaining,
                   checkVars, apiVars>>

-----------------------------------------------------------------------------
\* Checks.  Only one runs at a time (the flag checking).
StartCheck(old) ==
    /\ kind # "selector"
    /\ check = "idle"
    /\ check' = "test"
    /\ testing' = (Outbound \ Recorded) \cup old
    /\ UNCHANGED <<group, history, selected, overtaken, interruptVars, callVars,
                   turn, chosen, blind, updated, apiVars>>

\* Mutant: the duration is divided by time.Microsecond.
MutantMeasured == {(d * 1000) % 65536 : d \in Delays}

\* URLTest: the time of a request, as a uint16.  Only urltest looks at it.
Measured ==
    LET delays == {d % 65536 : d \in Delays}
    IN  IF kind = "urltest" THEN delays ELSE {CHOOSE d \in delays : TRUE}

TestEnds(o, record) ==
    /\ o \in testing
    /\ testing' = testing \ {o}
    /\ history' = [history EXCEPT ![o] = record]
    /\ UNCHANGED <<group, selected, overtaken, interruptVars, callVars,
                   check, turn, chosen, blind, updated, apiVars>>

TestsEnd ==
    /\ check = "test" /\ testing = {}
    /\ check' = "select"
    /\ UNCHANGED <<group, history, selected, overtaken, interruptVars, callVars,
                   testing, turn, chosen, blind, updated, apiVars>>

\* performUpdateCheck, for TCP and then for UDP: Select, Load, Store.
UpdateSelects ==
    /\ check = "select"
    /\ chosen' = Select(turn)
    /\ check' = "load"
    /\ UNCHANGED <<group, history, selected, overtaken, interruptVars, callVars,
                   testing, turn, blind, updated, apiVars>>

\* After one network the other; at the end the interrupt, if any.
GoOn(upd) ==
    /\ turn' = IF turn = "tcp" THEN "udp" ELSE "tcp"
    /\ check' = IF turn = "tcp" THEN "select" ELSE IF upd THEN "interrupt" ELSE "idle"
    /\ chosen' = NoChoice
    /\ blind' = FALSE

Replaces(previous) == previous # NoOutbound

\* Mutant: the second network's result overwrites the first one's.
MutantNowUpdated(previous) == Replaces(previous)

NowUpdated(previous) == updated \/ Replaces(previous)

UpdateLoads ==
    LET previous == selected[turn]
        store == /\ chosen.outbound # NoOutbound
                 /\ previous = NoOutbound \/ (chosen.exists /\ chosen.outbound # previous)
    IN  /\ check = "load"
        /\ \/ /\ store
              /\ check' = "store"
              /\ blind' = (previous = NoOutbound)
              /\ updated' = NowUpdated(previous)
              /\ UNCHANGED <<turn, chosen>>
           \/ /\ ~store
              /\ updated' = updated
              /\ GoOn(updated)
        /\ UNCHANGED <<group, history, selected, overtaken, interruptVars, callVars,
                       testing, apiVars>>

UpdateStores ==
    /\ check = "store"
    /\ Write([selected EXCEPT ![turn] = chosen.outbound], blind)
    /\ GoOn(updated)
    /\ UNCHANGED <<group, history, interruptVars, callVars, testing, updated, apiVars>>

UpdateInterrupts ==
    /\ check = "interrupt"
    /\ Interrupt
    /\ check' = "idle"
    /\ updated' = FALSE
    /\ UNCHANGED <<group, history, selected, overtaken, callVars, testing, turn, chosen,
                   blind, apiVars>>

-----------------------------------------------------------------------------
\* Selector.SelectOutbound, called by the Clash API or the command server:
\* Swap, StoreSelected, Interrupt.  A call for the selected outbound returns
\* at once, without a look at the cache file.
Unstored == {tag[u] : u \in {v \in Caller : api[v] = "store"}}

SelectOutbound(u, o) ==
    /\ kind = "selector"
    /\ api[u] = "idle"
    /\ selected["tcp"] # o
    /\ Write([n \in Network |-> o], FALSE)
    /\ api' = [api EXCEPT ![u] = "store"]
    /\ tag' = [tag EXCEPT ![u] = o]
    /\ batch' = Unstored \cup {o}
    /\ UNCHANGED <<group, history, interruptVars, callVars, checkVars, persisted>>

\* Mutant: a key that is there already is not overwritten.
MutantPut(u) == IF persisted = NoOutbound THEN tag[u] ELSE persisted

Put(u) == tag[u]

StoreInCache(u, written) ==
    /\ api[u] = "store"
    /\ persisted' = IF written THEN Put(u) ELSE persisted
    /\ batch' = IF written THEN batch ELSE batch \cup {persisted}
    /\ api' = [api EXCEPT ![u] = "interrupt"]
    /\ tag' = [tag EXCEPT ![u] = NoOutbound]
    /\ UNCHANGED <<group, history, selected, overtaken, interruptVars, callVars, checkVars>>

SelectInterrupts(u) ==
    /\ api[u] = "interrupt"
    /\ Interrupt
    /\ api' = [api EXCEPT ![u] = "idle"]
    /\ UNCHANGED <<group, history, selected, overtaken, callVars, checkVars,
                   tag, persisted, batch>>

-----------------------------------------------------------------------------
\* What a goroutine does once it has changed the selection.
CallGoesOn(c) == StoreSelected(c) \/ CallInterrupts(c) \/ Register(c)
UpdateGoesOn == UpdateSelects \/ UpdateLoads \/ UpdateStores \/ UpdateInterrupts
SelectGoesOn(u) == SelectInterrupts(u) \/ \E written \in BOOLEAN : StoreInCache(u, written)

Next ==
    \/ \E c \in Conn : \/ Call(c) \/ NoCandidate(c) \/ DialSucceeds(c) \/ DialFails(c)
                       \/ CallGoesOn(c) \/ Hangup(c)
    \/ \E old \in SUBSET Recorded : StartCheck(old)
    \/ \E o \in Outbound, d \in Measured \cup {NoRecord} : TestEnds(o, d)
    \/ TestsEnd \/ UpdateGoesOn
    \/ \E u \in Caller : SelectGoesOn(u) \/ \E o \in Outbound : SelectOutbound(u, o)

Spec == Init /\ [][Next]_vars

\* Goroutines that are past their dials and tests go on: there is only
\* memory, a mutex and the local database between them and their end.
FairSpec ==
    /\ Spec
    /\ \A c \in Conn : WF_vars(CallGoesOn(c))
    /\ WF_vars(UpdateGoesOn)
    /\ \A u \in Caller : WF_vars(SelectGoesOn(u))

-----------------------------------------------------------------------------
TypeOK ==
    /\ InterruptTypeOK
    /\ kind \in Kinds
    /\ supports \in Supports
    /\ history \in [Outbound -> Delays \cup {NoRecord}]
    /\ selected \in [Network -> Outbound \cup {NoOutbound}]
    /\ pc \in [Conn -> {"idle", "dial", "swap", "interrupt", "register", "connected",
                        "ended", "error"}]
    /\ network \in [Conn -> Network]
    /\ {preferred, remaining, failed} \subseteq [Conn -> SUBSET Outbound]
    /\ detour \in [Conn -> Outbound \cup {NoOutbound}]
    /\ check \in {"idle", "test", "select", "load", "store", "interrupt"}
    /\ testing \in SUBSET Outbound
    /\ turn \in Network
    /\ chosen \in [outbound : Outbound \cup {NoOutbound}, exists : BOOLEAN]
    /\ blind \in BOOLEAN /\ updated \in BOOLEAN
    /\ api \in [Caller -> {"idle", "store", "interrupt"}]
    /\ tag \in [Caller -> Outbound \cup {NoOutbound}]
    /\ persisted \in Outbound \cup {NoOutbound}
    /\ overtaken \in SUBSET Conn
    /\ batch \in SUBSET (Outbound \cup {NoOutbound})

\* An interrupt that a change of the selection has made due.
InterruptDue ==
    \/ \E c \in Conn : pc[c] = "interrupt"
    \/ updated
    \/ \E u \in Caller : api[u] # "idle"

Protected(c) == c \in external /\ ~interruptExternalConnections

\* "当选择结果发生变化时是否中断已有外部连接" (README.md section 5.3): with the
\* option, a change of the selection closes the existing connections.  Once no
\* interrupt is due, every open connection a fallback call has returned goes over
\* the outbound that is selected.
ChangeInterruptsExisting ==
    \A c \in Conn :
        /\ kind = "fallback" /\ ~InterruptDue
        /\ remote[c] = "open" /\ pc[c] = "connected"
        /\ ~Protected(c)
        => detour[c] = selected[network[c]]

\* What the three groups keep of it.  A member of the interrupt group over an
\* outbound that is not selected any more is about to be interrupted, or it is
\* an inbound's and the option is off, or it was overtaken: the change fell
\* between choosing its outbound and NewConn (fallback.go:215-216,
\* urltest.go:136-138, selector.go:142-146), or was made by a writer that had
\* found no outbound to replace (fallback.go:281-286, urltest.go:399-402).
StaleMembersAreDue ==
    \A c \in connections :
        \/ selected[network[c]] \in {detour[c], NoOutbound}
        \/ InterruptDue \/ Protected(c) \/ c \in overtaken

\* The interrupt that is due comes: such a member leaves the group, also when
\* writing the cache file fails in between (selector.go:128-137).
StaleMembersLeave ==
    \A c \in Conn :
        /\ c \in connections
        /\ selected[network[c]] \notin {detour[c], NoOutbound}
        /\ ~Protected(c) /\ c \notin overtaken
        ~> c \notin connections

\* "会按 outbounds 顺序依次尝试下一个可用出站，直到成功" (README.md section 5.1):
\* a fallback call returns an error only when every outbound that supports its
\* network has failed in this call, whatever records come and go meanwhile
\* (fallback.go:201-223).
FallbackTriesAll ==
    \A c \in Conn : kind = "fallback" /\ pc[c] = "error" => supports[network[c]] \subseteq failed[c]

\* urltest's Select, against its purpose: the outbound it returns is within the
\* tolerance of every outbound with a record, and it gives the selected one up
\* only for one that is faster by more than the tolerance.  This is so unless a
\* measured delay is 0, which the loop takes for "none yet", or the uint16 sum
\* wraps (urltest.go:286-302).
SelectWithinTolerance ==
    \A n \in Network :
        LET S == supports[n] \cap Recorded
            o == Select(n).outbound
            current == selected[n]
        IN  /\ kind = "urltest"
            /\ S # {}
            /\ \A p \in Recorded : history[p] # 0 /\ history[p] + tolerance < 65536
            => /\ \A p \in S : history[o] <= history[p] + tolerance
               /\ current \in Recorded /\ o # current => history[current] > history[o] + tolerance

\* When no SelectOutbound is between its Swap and its StoreSelected, the cache
\* file holds the selection of the last call, or, where calls overlapped, of one
\* of them, or what it held before when a write failed (selector.go:120-139).
\* Selecting the selected outbound again repairs nothing: that call returns early.
PersistedFollowsSelection ==
    Unstored = {} =>
        /\ persisted \in batch
        /\ batch = {persisted} /\ persisted # NoOutbound =>
               \A n \in Network : selected[n] = persisted

-----------------------------------------------------------------------------
\* The inductive invariant.

\* Where a call can be, what it holds there, and what it still has to try.
CallInv(c) ==
    /\ pc[c] \in {"dial", "swap", "interrupt", "register"} => detour[c] # NoOutbound
    /\ pc[c] \in {"swap", "interrupt"} => kind = "fallback"
    /\ kind # "fallback" => remaining[c] = {}
    /\ c \in connections => pc[c] = "connected"
    /\ InFlight(c) => selected[network[c]] \in {detour[c], NoOutbound} \/ c \in overtaken
    /\ kind = "fallback" /\ pc[c] = "dial" =>
           supports[network[c]] \subseteq failed[c] \cup remaining[c] \cup {detour[c]}

\* A check that is about to replace an outbound has made the interrupt due.
CheckInv ==
    /\ check # "idle" => kind # "selector"
    /\ check = "store" /\ ~blind => updated

\* A selector's selection is one of those the cache file may end up with,
\* unless there never was one to store.
SelectorInv ==
    /\ kind = "selector" => /\ selected["tcp"] = selected["udp"]
                            /\ selected["tcp"] \in batch \/ batch = {NoOutbound}
    /\ kind # "selector" => /\ persisted = NoOutbound /\ batch = {NoOutbound}
                            /\ \A u \in Caller : api[u] = "idle"
    /\ \A u \in Caller : api[u] = "store" => tag[u] \in Outbound /\ tag[u] \in batch

\* What every step preserves, together with what the other invariants say of
\* stale members, of failed fallback calls and of the cache file: the calls,
\* the check and SelectOutbound (fallback.go:201-223 and 281-286,
\* urltest.go:386-412, selector.go:120-139) keep each other's assumptions.
IInv == TypeOK /\ (\A c \in Conn : CallInv(c)) /\ CheckInv /\ SelectorInv
==============================================================================
