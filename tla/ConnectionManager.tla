-------------------------- MODULE ConnectionManager --------------------------
(***************************************************************************)
(* One routed connection from the inbound that accepted it to its last     *)
(* goroutine: routing (src/route/route.go), the dial, the two copying      *)
(* goroutines and the list of open connections (src/route/conn.go).        *)
(*                                                                         *)
(* The remote side is a member of the interrupt group of the outbound it   *)
(* was dialled through.  "up" copies from the inbound's connection to the  *)
(* remote one, "down" back.  Rule matching, sniffing and which addresses   *)
(* are dialled are left out: routing refuses a connection or hands it to   *)
(* the group, and a dial succeeds or fails.  Connections that routing ends *)
(* itself (hijack-dns) or gives to another inbound (detour) are left out.  *)
(* Of the payload only this is kept: whether a goroutine is in its read or *)
(* in a write, which a peer that takes no data may hold up for ever.       *)
(***************************************************************************)
EXTENDS InterruptGroup

VARIABLES
    phase,          \* where the handler of each connection is
    network,        \* "tcp" or "udp"
    legacy,         \* came by RouteConnection, not by RouteConnectionEx
    local,          \* the inbound's side: "open" or "closed"
    copier,         \* the two copying goroutines
    done,           \* their shared flag
    called,         \* how often onClose was called
    listed,         \* ConnectionManager.connections
    silent          \* history: ended on a path that does not call onClose

connVars == <<phase, network, legacy, local, copier, done, called, listed, silent>>

Dir == {"up", "down"}
Idle == [d \in Dir |-> "none"]

ConnInit ==
    /\ InterruptInit
    /\ phase = [c \in Conn |-> "idle"]
    /\ network = [c \in Conn |-> "tcp"]
    /\ legacy = [c \in Conn |-> FALSE]
    /\ local = [c \in Conn |-> "closed"]
    /\ copier = [c \in Conn |-> Idle]
    /\ done = [c \in Conn |-> FALSE]
    /\ called = [c \in Conn |-> 0]
    /\ listed = {}
    /\ silent = {}

Go(c, where) == phase' = [phase EXCEPT ![c] = where]

-----------------------------------------------------------------------------
\* Routing and the dial.
Accept(c, n, viaLegacy) ==
    /\ phase[c] = "idle"
    /\ Go(c, "route")
    /\ network' = [network EXCEPT ![c] = n]
    /\ legacy' = [legacy EXCEPT ![c] = viaLegacy]
    /\ local' = [local EXCEPT ![c] = "open"]
    /\ UNCHANGED <<copier, done, called, listed, silent, interruptVars>>

\* onClose(err), called once more.
OnCloseCalled(c) == called' = [called EXCEPT ![c] = @ + 1]

\* N.CloseOnHandshakeFailure
CloseOnHandshakeFailure(c) ==
    /\ local' = [local EXCEPT ![c] = "closed"]
    /\ OnCloseCalled(c)

\* A rule rejects the connection, or its outbound is missing or does not carry
\* its network.  The old entry points do not call onClose then: RouteConnection
\* returns the error and leaves the connection to its caller, RoutePacketConnection
\* closes it and goes on to wait for the call.
RouteRefuses(c) ==
    /\ phase[c] = "route"
    /\ \/ /\ ~legacy[c]
          /\ Go(c, "ended") /\ CloseOnHandshakeFailure(c)
          /\ UNCHANGED silent
       \/ /\ legacy[c] /\ network[c] = "tcp"
          /\ Go(c, "refused") /\ silent' = silent \cup {c}
          /\ UNCHANGED <<local, called>>
       \/ /\ legacy[c] /\ network[c] = "udp"
          /\ Go(c, "waiting") /\ silent' = silent \cup {c}
          /\ local' = [local EXCEPT ![c] = "closed"]
          /\ UNCHANGED called
    /\ UNCHANGED <<network, legacy, copier, done, listed, interruptVars>>

\* The inbound that called RouteConnection closes what it was returned.
CallerCloses(c) ==
    /\ phase[c] = "refused"
    /\ Go(c, "ended")
    /\ local' = [local EXCEPT ![c] = "closed"]
    /\ UNCHANGED <<network, legacy, copier, done, called, listed, silent, interruptVars>>

\* RoutePacketConnection gives up when the program's context ends (Box).
WaitEnds(c) ==
    /\ phase[c] = "waiting"
    /\ Go(c, "ended")
    /\ UNCHANGED <<network, legacy, local, copier, done, called, listed, silent,
                   interruptVars>>

Route(c) ==
    /\ phase[c] = "route"
    /\ Go(c, "dial")
    /\ UNCHANGED <<network, legacy, local, copier, done, called, listed, silent,
                   interruptVars>>

DialFails(c) ==
    /\ phase[c] = "dial"
    /\ Go(c, "ended")
    /\ CloseOnHandshakeFailure(c)
    /\ UNCHANGED <<network, legacy, copier, done, listed, silent, interruptVars>>

DialSucceeds(c) ==
    /\ phase[c] = "dial"
    /\ Go(c, "register")
    /\ Dialled(c)
    /\ UNCHANGED <<network, legacy, local, copier, done, called, listed, silent>>

Register(c) ==
    /\ phase[c] = "register"
    /\ Go(c, "report")
    /\ NewConn(c)
    /\ UNCHANGED <<network, legacy, local, copier, done, called, listed, silent>>

\* Reporting the handshake to the inbound fails: the packet path closes both
\* sides and returns without onClose, for which the old entry point still waits.
ReportFails(c) ==
    /\ phase[c] = "report"
    /\ CloseConn(c)
    /\ \/ /\ network[c] = "tcp"
          /\ Go(c, "ended") /\ CloseOnHandshakeFailure(c)
          /\ UNCHANGED silent
       \/ /\ network[c] = "udp"
          /\ Go(c, IF legacy[c] THEN "waiting" ELSE "ended")
          /\ local' = [local EXCEPT ![c] = "closed"]
          /\ silent' = silent \cup {c}
          /\ UNCHANGED called
    /\ UNCHANGED <<network, legacy, copier, done, listed>>

\* The first thing a goroutine does may be a write, of the payload cached by
\* sniffing.  onClose will be called: the entry points no longer differ.
StartCopies(c) ==
    /\ phase[c] = "report"
    /\ Go(c, "copy")
    /\ listed' = listed \cup {c}
    /\ \E f \in [Dir -> {"read", "write"}] : copier' = [copier EXCEPT ![c] = f]
    /\ legacy' = [legacy EXCEPT ![c] = FALSE]
    /\ UNCHANGED <<network, local, done, called, silent, interruptVars>>

-----------------------------------------------------------------------------
\* The copying goroutines: read and write, swap the flag, call onClose, close both
\* sides.
Set(c, d, where) == copier' = [copier EXCEPT ![c][d] = where]

CloseBoth(c) ==
    /\ local' = [local EXCEPT ![c] = "closed"]
    /\ CloseConn(c)

SourceClosed(c, d) == IF d = "up" THEN local[c] = "closed" ELSE remote[c] = "closed"
DestinationClosed(c, d) == IF d = "up" THEN remote[c] = "closed" ELSE local[c] = "closed"

CopyRuns(c, d) == copier[c][d] \in {"read", "write"}

ReadsData(c, d) ==
    /\ copier[c][d] = "read" /\ ~SourceClosed(c, d)
    /\ Set(c, d, "write")
    /\ UNCHANGED <<phase, network, legacy, local, done, called, listed, silent, interruptVars>>

WriteDone(c, d) ==
    /\ copier[c][d] = "write" /\ ~DestinationClosed(c, d)
    /\ Set(c, d, "read")
    /\ UNCHANGED <<phase, network, legacy, local, done, called, listed, silent, interruptVars>>

\* Mutant: the sides are left to the goroutine that ends last.
MutantCloseOnError(c) == UNCHANGED <<local, interruptVars>>

CloseOnError(c) == CloseBoth(c)

StreamFails(c, d) ==
    /\ network[c] = "tcp" /\ CopyRuns(c, d)
    /\ CloseOnError(c)
    /\ Set(c, d, "swap")
    /\ UNCHANGED <<phase, network, legacy, done, called, listed, silent>>

\* Writing the cached payload or the early handshake fails: the flag first.
EarlyFails(c, d) ==
    /\ network[c] = "tcp" /\ CopyRuns(c, d)
    /\ Set(c, d, "earlySwap")
    /\ UNCHANGED <<phase, network, legacy, local, done, called, listed, silent, interruptVars>>

\* End of file: the write side of the destination is closed, the whole
\* destination when it has no CloseWrite; both when CloseWrite fails.
StreamEnds(c, d) ==
    /\ network[c] = "tcp" /\ copier[c][d] = "read"
    /\ ~SourceClosed(c, d)
    /\ Set(c, d, "swap")
    /\ \/ UNCHANGED <<local, interruptVars>>
       \/ CloseBoth(c)
       \/ d = "up" /\ CloseConn(c) /\ UNCHANGED local
       \/ d = "down" /\ local' = [local EXCEPT ![c] = "closed"] /\ UNCHANGED interruptVars
    /\ UNCHANGED <<phase, network, legacy, done, called, listed, silent>>

PacketsEnd(c, d) ==
    /\ network[c] = "udp" /\ CopyRuns(c, d)
    /\ Set(c, d, "earlySwap")
    /\ UNCHANGED <<phase, network, legacy, local, done, called, listed, silent, interruptVars>>

\* Mutant: every goroutine of a stream calls onClose.
MutantCallsOnClose(c) == network[c] = "tcp" \/ ~done[c]

\* Streams call onClose when the second goroutine ends, packet connections when
\* the first one does.
CallsOnClose(c) == IF network[c] = "tcp" THEN done[c] ELSE ~done[c]

Swap(c, d) ==
    /\ copier[c][d] \in {"swap", "earlySwap"}
    /\ done' = [done EXCEPT ![c] = TRUE]
    /\ Set(c, d, IF CallsOnClose(c) THEN "onClose"
                 ELSE IF copier[c][d] = "swap" THEN "done" ELSE "close")
    /\ UNCHANGED <<phase, network, legacy, local, called, listed, silent, interruptVars>>

\* The appended handler takes the connection off the list.
OnClose(c, d) ==
    /\ copier[c][d] = "onClose"
    /\ OnCloseCalled(c)
    /\ listed' = listed \ {c}
    /\ Set(c, d, "close")
    /\ UNCHANGED <<phase, network, legacy, local, done, silent, interruptVars>>

CloseSides(c, d) ==
    /\ copier[c][d] = "close"
    /\ CloseBoth(c)
    /\ Set(c, d, "done")
    /\ UNCHANGED <<phase, network, legacy, done, called, listed, silent>>

CopiesEnd(c) ==
    /\ phase[c] = "copy"
    /\ \A d \in Dir : copier[c][d] = "done"
    /\ Go(c, "ended")
    /\ UNCHANGED <<network, legacy, local, copier, done, called, listed, silent, interruptVars>>

\* The handler's variables are gone; the slot is free for another connection.
Forget(c) ==
    /\ phase[c] = "ended"
    /\ Go(c, "idle")
    /\ copier' = [copier EXCEPT ![c] = Idle]
    /\ done' = [done EXCEPT ![c] = FALSE]
    /\ called' = [called EXCEPT ![c] = 0]
    /\ silent' = silent \ {c}
    /\ network' = [network EXCEPT ![c] = "tcp"]
    /\ legacy' = [legacy EXCEPT ![c] = FALSE]
    /\ remote' = [remote EXCEPT ![c] = "none"]
    /\ UNCHANGED <<local, listed, external, connections>>

\* A packet connection without traffic is closed by its timeout (canceler).
UDPTimeout(c) ==
    /\ phase[c] = "copy" /\ network[c] = "udp" /\ local[c] = "open"
    /\ local' = [local EXCEPT ![c] = "closed"]
    /\ UNCHANGED <<phase, network, legacy, copier, done, called, listed, silent, interruptVars>>

\* ConnectionManager.Close
CloseListed ==
    /\ local' = [c \in Conn |-> IF c \in listed THEN "closed" ELSE local[c]]
    /\ listed' = {}
    /\ UNCHANGED <<phase, network, legacy, copier, done, called, silent, interruptVars>>

-----------------------------------------------------------------------------
\* What a goroutine does by itself once its copy is over.
Unwind(c, d) == Swap(c, d) \/ OnClose(c, d) \/ CloseSides(c, d)

\* A goroutine cannot stay in a read of a closed connection or in a write to one;
\* that the other side was closed it does not notice.
Woken(c, d) ==
    \/ copier[c][d] = "read" /\ SourceClosed(c, d)
    \/ copier[c][d] = "write" /\ DestinationClosed(c, d)

CopyFails(c, d) == Woken(c, d) /\ (StreamFails(c, d) \/ PacketsEnd(c, d))

Handler(c) ==
    \/ RouteRefuses(c) \/ CallerCloses(c) \/ DialFails(c)
    \/ DialSucceeds(c) \/ Register(c) \/ ReportFails(c) \/ StartCopies(c)

Copying(c) ==
    \/ \E d \in Dir : \/ ReadsData(c, d) \/ WriteDone(c, d)
                      \/ StreamFails(c, d) \/ EarlyFails(c, d) \/ StreamEnds(c, d)
                      \/ PacketsEnd(c, d) \/ Unwind(c, d)
    \/ CopiesEnd(c) \/ UDPTimeout(c)

ConnTypeOK ==
    /\ InterruptTypeOK
    /\ phase \in [Conn -> {"idle", "route", "refused", "waiting", "dial", "register",
                          "report", "copy", "ended"}]
    /\ network \in [Conn -> {"tcp", "udp"}]
    /\ legacy \in [Conn -> BOOLEAN]
    /\ local \in [Conn -> {"open", "closed"}]
    /\ copier \in [Conn -> [Dir -> {"none", "read", "write", "swap", "earlySwap",
                                    "onClose", "close", "done"}]]
    /\ done \in [Conn -> BOOLEAN]
    /\ called \in [Conn -> 0..2]
    /\ listed \in SUBSET Conn
    /\ silent \in SUBSET Conn

\* Whoever handed a connection over hears of its end exactly once, whatever ends
\* it and in whichever order the two goroutines finish; except where routing
\* refuses a connection of the old entry points, or the handshake of a packet
\* connection cannot be reported, where onClose is never called: a refused stream
\* comes back with the error, of the others nothing is heard (conn.go:203-207,
\* 273, 298, 321, 385; route.go:34-41, 149-165).
OnCloseOnce ==
    \A c \in Conn :
        /\ called[c] <= 1
        /\ phase[c] = "ended" => called[c] = (IF c \in silent THEN 0 ELSE 1)

\* A connection that has ended, or of which only an old entry point's goroutine is
\* left, leaves nothing behind: both sides are closed and it is neither in the
\* manager's list nor in the interrupt group (conn.go:203-207, 321-324, 388,
\* route.go:148-166, interrupt/conn.go:29-34).
NothingLeftBehind ==
    \A c \in Conn : phase[c] \in {"waiting", "ended"} =>
        /\ local[c] = "closed" /\ remote[c] # "open"
        /\ c \notin listed \cup connections

\* Until the copies start nothing is counted or kept; the list holds connections
\* that are being copied, the group those that were registered.
HandlerInv(c) ==
    /\ phase[c] \in {"idle", "route", "dial", "register", "report"} =>
          /\ called[c] = 0 /\ ~done[c] /\ c \notin silent
          /\ \A d \in Dir : copier[c][d] = "none"
    /\ phase[c] \in {"refused", "waiting"} =>
          /\ called[c] = 0 /\ c \in silent
          /\ \A d \in Dir : copier[c][d] = "none"
    /\ phase[c] \in {"idle", "route", "refused", "dial"} => remote[c] = "none"
    /\ c \in listed => phase[c] = "copy" /\ called[c] = 0
    /\ c \in connections => phase[c] \in {"report", "copy"}
    /\ phase[c] = "ended" => \A d \in Dir : copier[c][d] \in {"none", "done"}

\* The flag says that a goroutine has swapped it, onClose was called when the one
\* chosen by the flag has passed the call, and the last one to end closes both sides.
CopyInv(c) ==
    LET Passed(d) == copier[c][d] \in {"close", "done"}
        Calling(d) == copier[c][d] = "onClose"
    IN  phase[c] = "copy" =>
          /\ c \notin silent
          /\ \A d \in Dir : copier[c][d] # "none"
          /\ done[c] <=> \E d \in Dir : Passed(d) \/ Calling(d)
          /\ IF network[c] = "tcp"
             THEN /\ called[c] = IF \A d \in Dir : Passed(d) THEN 1 ELSE 0
                  /\ \A d, e \in Dir : Calling(d) /\ e # d => Passed(e)
             ELSE /\ called[c] = IF done[c] /\ \A d \in Dir : ~Calling(d) THEN 1 ELSE 0
                  /\ \A d, e \in Dir : Calling(d) /\ e # d => ~Calling(e)
                  /\ \A d \in Dir : copier[c][d] # "swap"
          /\ (\A d \in Dir : copier[c][d] = "done") =>
                local[c] = "closed" /\ remote[c] = "closed" /\ c \notin connections

\* The inductive invariant.
ConnIInv ==
    /\ ConnTypeOK /\ OnCloseOnce /\ NothingLeftBehind
    /\ \A c \in Conn : HandlerInv(c) /\ CopyInv(c)
==============================================================================
