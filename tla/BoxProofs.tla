------------------------------ MODULE BoxProofs ------------------------------
(***************************************************************************)
(* Theorems about the program's life: what connections, the health check   *)
(* and the start of the outbounds keep, for any number of connections, any *)
(* outbounds and dependencies.                                             *)
(***************************************************************************)
EXTENDS Box, OrderLemmas, FiniteSetTheorems, TLAPS

-----------------------------------------------------------------------------
\* Connections.  A step concerns one connection and leaves the others alone.

EndedInv(c) ==
    /\ called[c] <= 1
    /\ phase[c] = "ended" => called[c] = (IF c \in silent THEN 0 ELSE 1)
    /\ phase[c] \in {"waiting", "ended"} =>
          /\ local[c] = "closed" /\ remote[c] # "open"
          /\ c \notin listed \cup connections

ConnGood(c) == HandlerInv(c) /\ CopyInv(c) /\ EndedInv(c)

Same(e) ==
    /\ phase'[e] = phase[e] /\ network'[e] = network[e] /\ local'[e] = local[e]
    /\ copier'[e] = copier[e] /\ done'[e] = done[e] /\ called'[e] = called[e]
    /\ remote'[e] = remote[e]
    /\ e \in listed' <=> e \in listed
    /\ e \in silent' <=> e \in silent
    /\ e \in connections' <=> e \in connections

LEMMA ConnParts == ConnIInv <=> ConnTypeOK /\ \A c \in Conn : ConnGood(c)
  BY DEF ConnIInv, ConnGood, EndedInv, OnCloseOnce, NothingLeftBehind

LEMMA Elsewhere ==
    ASSUME NEW e \in Conn, ConnGood(e), Same(e) PROVE ConnGood(e)'
<1>1. HandlerInv(e)'
  BY DEF ConnGood, HandlerInv, Same
<1>2. CopyInv(e)'
  BY DEF ConnGood, CopyInv, Same
<1>3. EndedInv(e)'
  BY DEF ConnGood, EndedInv, Same
<1> QED BY <1>1, <1>2, <1>3 DEF ConnGood

LEMMA OneMoves ==
    ASSUME ConnIInv, NEW c \in Conn, ConnTypeOK', ConnGood(c)',
           \A e \in Conn \ {c} : Same(e)
    PROVE  ConnIInv'
<1>1. \A e \in Conn : ConnGood(e)
  BY ConnParts
<1>2. \A e \in Conn : ConnGood(e)'
  BY <1>1, Elsewhere
<1> QED BY <1>2 DEF ConnIInv, ConnGood, EndedInv, OnCloseOnce, NothingLeftBehind

LEMMA AcceptStep ==
    ASSUME ConnIInv, NEW c \in Conn, NEW n \in {"tcp", "udp"}, NEW viaLegacy \in BOOLEAN,
           Accept(c, n, viaLegacy)
    PROVE  ConnIInv'
<1> USE DEF Accept, Go, interruptVars
<1>1. ConnTypeOK /\ ConnGood(c)
  BY ConnParts
<1>2. ConnTypeOK'
  BY <1>1 DEF ConnTypeOK, InterruptTypeOK
<1>3. \A e \in Conn \ {c} : Same(e)
  BY <1>1 DEF Same, ConnTypeOK, InterruptTypeOK
<1>4. ConnGood(c)'
  BY <1>1 DEF ConnGood, HandlerInv, CopyInv, EndedInv, ConnTypeOK, InterruptTypeOK
<1> QED BY <1>2, <1>3, <1>4, OneMoves

LEMMA RouteRefusesStep ==
    ASSUME ConnIInv, NEW c \in Conn, RouteRefuses(c)
    PROVE  ConnIInv'
<1> USE DEF RouteRefuses, Go, CloseOnHandshakeFailure, OnCloseCalled, interruptVars
<1>1. ConnTypeOK /\ ConnGood(c)
  BY ConnParts
<1>2. ConnTypeOK'
  <2>1. called[c] = 0
    BY <1>1 DEF ConnGood, HandlerInv
  <2>2. /\ called' = called \/ called' = [called EXCEPT ![c] = 1]
        /\ silent' = silent \/ silent' = silent \cup {c}
        /\ local' = local \/ local' = [local EXCEPT ![c] = "closed"]
    BY <2>1
  <2>3. phase' \in [Conn -> {"idle", "route", "refused", "waiting", "dial", "register",
                             "report", "copy", "ended"}]
    BY <1>1 DEF ConnTypeOK
  <2> QED BY <1>1, <2>2, <2>3 DEF ConnTypeOK, InterruptTypeOK
<1>3. \A e \in Conn \ {c} : Same(e)
  BY <1>1 DEF Same, ConnTypeOK, InterruptTypeOK
<1>4. ConnGood(c)'
  BY <1>1 DEF ConnGood, HandlerInv, CopyInv, EndedInv, ConnTypeOK, InterruptTypeOK
<1> QED BY <1>2, <1>3, <1>4, OneMoves

LEMMA CallerClosesStep ==
    ASSUME ConnIInv, NEW c \in Conn, CallerCloses(c)
    PROVE  ConnIInv'
<1> USE DEF CallerCloses, Go, interruptVars
<1>1. ConnTypeOK /\ ConnGood(c)
  BY ConnParts
<1>2. ConnTypeOK'
  BY <1>1 DEF ConnTypeOK, InterruptTypeOK
<1>3. \A e \in Conn \ {c} : Same(e)
  BY <1>1 DEF Same, ConnTypeOK, InterruptTypeOK
<1>4. ConnGood(c)'
  BY <1>1 DEF ConnGood, HandlerInv, CopyInv, EndedInv, ConnTypeOK, InterruptTypeOK
<1> QED BY <1>2, <1>3, <1>4, OneMoves

LEMMA WaitEndsStep ==
    ASSUME ConnIInv, NEW c \in Conn, WaitEnds(c)
    PROVE  ConnIInv'
<1> USE DEF WaitEnds, Go, interruptVars
<1>1. ConnTypeOK /\ ConnGood(c)
  BY ConnParts
<1>2. ConnTypeOK'
  BY <1>1 DEF ConnTypeOK, InterruptTypeOK
<1>3. \A e \in Conn \ {c} : Same(e)
  BY <1>1 DEF Same, ConnTypeOK, InterruptTypeOK
<1>4. ConnGood(c)'
  BY <1>1 DEF ConnGood, HandlerInv, CopyInv, EndedInv, ConnTypeOK, InterruptTypeOK
<1> QED BY <1>2, <1>3, <1>4, OneMoves

LEMMA RouteStep ==
    ASSUME ConnIInv, NEW c \in Conn, Route(c)
    PROVE  ConnIInv'
<1> USE DEF Route, Go, interruptVars
<1>1. ConnTypeOK /\ ConnGood(c)
  BY ConnParts
<1>2. ConnTypeOK'
  BY <1>1 DEF ConnTypeOK, InterruptTypeOK
<1>3. \A e \in Conn \ {c} : Same(e)
  BY <1>1 DEF Same, ConnTypeOK, InterruptTypeOK
<1>4. ConnGood(c)'
  BY <1>1 DEF ConnGood, HandlerInv, CopyInv, EndedInv, ConnTypeOK, InterruptTypeOK
<1> QED BY <1>2, <1>3, <1>4, OneMoves

LEMMA DialFailsStep ==
    ASSUME ConnIInv, NEW c \in Conn, DialFails(c)
    PROVE  ConnIInv'
<1> USE DEF DialFails, Go, CloseOnHandshakeFailure, OnCloseCalled, interruptVars
<1>1. ConnTypeOK /\ ConnGood(c)
  BY ConnParts
<1>2. ConnTypeOK'
  <2>1. called[c] = 0
    BY <1>1 DEF ConnGood, HandlerInv
  <2> QED BY <1>1, <2>1 DEF ConnTypeOK, InterruptTypeOK
<1>3. \A e \in Conn \ {c} : Same(e)
  BY <1>1 DEF Same, ConnTypeOK, InterruptTypeOK
<1>4. ConnGood(c)'
  BY <1>1 DEF ConnGood, HandlerInv, CopyInv, EndedInv, ConnTypeOK, InterruptTypeOK
<1> QED BY <1>2, <1>3, <1>4, OneMoves

LEMMA DialSucceedsStep ==
    ASSUME ConnIInv, NEW c \in Conn, DialSucceeds(c)
    PROVE  ConnIInv'
<1> USE DEF DialSucceeds, Go, Dialled
<1>1. ConnTypeOK /\ ConnGood(c)
  BY ConnParts
<1>2. ConnTypeOK'
  BY <1>1 DEF ConnTypeOK, InterruptTypeOK
<1>3. \A e \in Conn \ {c} : Same(e)
  BY <1>1 DEF Same, ConnTypeOK, InterruptTypeOK
<1>4. ConnGood(c)'
  BY <1>1 DEF ConnGood, HandlerInv, CopyInv, EndedInv, ConnTypeOK, InterruptTypeOK
<1> QED BY <1>2, <1>3, <1>4, OneMoves

LEMMA RegisterStep ==
    ASSUME ConnIInv, NEW c \in Conn, Register(c)
    PROVE  ConnIInv'
<1> USE DEF Register, Go, NewConn
<1>1. ConnTypeOK /\ ConnGood(c)
  BY ConnParts
<1>2. ConnTypeOK'
  BY <1>1 DEF ConnTypeOK, InterruptTypeOK
<1>3. \A e \in Conn \ {c} : Same(e)
  BY <1>1 DEF Same, ConnTypeOK, InterruptTypeOK
<1>4. ConnGood(c)'
  BY <1>1 DEF ConnGood, HandlerInv, CopyInv, EndedInv, ConnTypeOK, InterruptTypeOK
<1> QED BY <1>2, <1>3, <1>4, OneMoves

LEMMA ReportFailsStep ==
    ASSUME ConnIInv, NEW c \in Conn, ReportFails(c)
    PROVE  ConnIInv'
<1> USE DEF ReportFails, Go, CloseConn, CloseOnHandshakeFailure, OnCloseCalled
<1>1. ConnTypeOK /\ ConnGood(c)
  BY ConnParts
<1>2. ConnTypeOK'
  <2>1. called[c] = 0
    BY <1>1 DEF ConnGood, HandlerInv
  <2>2. /\ called' = called \/ called' = [called EXCEPT ![c] = 1]
        /\ silent' = silent \/ silent' = silent \cup {c}
        /\ local' = [local EXCEPT ![c] = "closed"]
    BY <2>1
  <2>3. phase' \in [Conn -> {"idle", "route", "refused", "waiting", "dial", "register",
                             "report", "copy", "ended"}]
    BY <1>1 DEF ConnTypeOK
  <2> QED BY <1>1, <2>2, <2>3 DEF ConnTypeOK, InterruptTypeOK
<1>3. \A e \in Conn \ {c} : Same(e)
  BY <1>1 DEF Same, ConnTypeOK, InterruptTypeOK
<1>4. ConnGood(c)'
  BY <1>1 DEF ConnGood, HandlerInv, CopyInv, EndedInv, ConnTypeOK, InterruptTypeOK
<1> QED BY <1>2, <1>3, <1>4, OneMoves

LEMMA StartCopiesStep ==
    ASSUME ConnIInv, NEW c \in Conn, StartCopies(c)
    PROVE  ConnIInv'
<1> USE DEF StartCopies, Go, interruptVars
<1>1. ConnTypeOK /\ ConnGood(c)
  BY ConnParts
<1>5. PICK f \in [Dir -> {"read", "write"}] : copier' = [copier EXCEPT ![c] = f]
  OBVIOUS
<1>2. ConnTypeOK'
  BY <1>1, <1>5 DEF ConnTypeOK, InterruptTypeOK
<1>3. \A e \in Conn \ {c} : Same(e)
  BY <1>1 DEF Same, ConnTypeOK, InterruptTypeOK
<1>4. ConnGood(c)'
  <2>4. /\ \A d \in Dir : copier'[c][d] \in {"read", "write"}
        /\ phase'[c] = "copy" /\ called'[c] = 0 /\ ~done'[c] /\ c \notin silent'
    BY <1>1, <1>5 DEF ConnTypeOK, ConnGood, HandlerInv
  <2>1. HandlerInv(c)'
    BY <1>1 DEF ConnGood, HandlerInv, CopyInv, ConnTypeOK
  <2>2. CopyInv(c)'
    BY <2>4 DEF CopyInv, Dir
  <2>3. EndedInv(c)'
    BY <1>1 DEF ConnGood, HandlerInv, CopyInv, EndedInv, ConnTypeOK
  <2> QED BY <2>1, <2>2, <2>3 DEF ConnGood
<1> QED BY <1>2, <1>3, <1>4, OneMoves

LEMMA CopiesEndStep ==
    ASSUME ConnIInv, NEW c \in Conn, CopiesEnd(c)
    PROVE  ConnIInv'
<1> USE DEF CopiesEnd, Go, interruptVars
<1>1. ConnTypeOK /\ ConnGood(c)
  BY ConnParts
<1>2. ConnTypeOK'
  BY <1>1 DEF ConnTypeOK, InterruptTypeOK
<1>3. \A e \in Conn \ {c} : Same(e)
  BY <1>1 DEF Same, ConnTypeOK, InterruptTypeOK
<1>4. ConnGood(c)'
  <2>1. /\ called[c] = 1 /\ local[c] = "closed" /\ remote[c] = "closed"
        /\ c \notin connections \cup silent
    BY <1>1 DEF ConnGood, CopyInv, Dir, ConnTypeOK
  <2>2. c \notin listed
    BY <1>1, <2>1 DEF ConnGood, HandlerInv
  <2>3. phase'[c] = "ended"
    BY <1>1 DEF ConnTypeOK
  <2>4. HandlerInv(c)'
    BY <2>1, <2>2, <2>3 DEF HandlerInv
  <2> QED BY <2>1, <2>2, <2>3, <2>4 DEF ConnGood, CopyInv, EndedInv
<1> QED BY <1>2, <1>3, <1>4, OneMoves

LEMMA ForgetStep ==
    ASSUME ConnIInv, NEW c \in Conn, Forget(c)
    PROVE  ConnIInv'
<1> USE DEF Forget, Go, Idle
<1>1. ConnTypeOK /\ ConnGood(c)
  BY ConnParts
<1>2. ConnTypeOK'
  BY <1>1 DEF ConnTypeOK, InterruptTypeOK
<1>3. \A e \in Conn \ {c} : Same(e)
  BY <1>1 DEF Same, ConnTypeOK, InterruptTypeOK
<1>4. ConnGood(c)'
  BY <1>1 DEF ConnGood, HandlerInv, CopyInv, EndedInv, ConnTypeOK, InterruptTypeOK
<1> QED BY <1>2, <1>3, <1>4, OneMoves

LEMMA UDPTimeoutStep ==
    ASSUME ConnIInv, NEW c \in Conn, UDPTimeout(c)
    PROVE  ConnIInv'
<1> USE DEF UDPTimeout, interruptVars
<1>1. ConnTypeOK /\ ConnGood(c)
  BY ConnParts
<1>2. ConnTypeOK'
  BY <1>1 DEF ConnTypeOK, InterruptTypeOK
<1>3. \A e \in Conn \ {c} : Same(e)
  BY <1>1 DEF Same, ConnTypeOK, InterruptTypeOK
<1>4. ConnGood(c)'
  BY <1>1 DEF ConnGood, HandlerInv, CopyInv, EndedInv, ConnTypeOK, InterruptTypeOK
<1> QED BY <1>2, <1>3, <1>4, OneMoves

\* One goroutine moves.
LEMMA SetOne ==
    ASSUME ConnTypeOK, NEW c \in Conn, NEW d \in Dir,
           NEW where \in {"none", "read", "write", "swap", "earlySwap", "onClose", "close",
                          "done"},
           Set(c, d, where)
    PROVE  /\ copier' \in [Conn -> [Dir -> {"none", "read", "write", "swap", "earlySwap",
                                            "onClose", "close", "done"}]]
           /\ copier'[c][d] = where
           /\ \A e \in Dir \ {d} : copier'[c][e] = copier[c][e]
           /\ \A b \in Conn \ {c} : copier'[b] = copier[b]
  BY DEF Set, ConnTypeOK

LEMMA WriteDoneStep ==
    ASSUME ConnIInv, NEW c \in Conn, NEW d \in Dir, WriteDone(c, d)
    PROVE  ConnIInv'
<1> USE DEF WriteDone, interruptVars
<1>1. ConnTypeOK /\ ConnGood(c)
  BY ConnParts
<1>2. /\ copier' \in [Conn -> [Dir -> {"none", "read", "write", "swap", "earlySwap",
                                       "onClose", "close", "done"}]]
      /\ copier'[c][d] = "read"
      /\ \A e \in Dir \ {d} : copier'[c][e] = copier[c][e]
      /\ \A b \in Conn \ {c} : copier'[b] = copier[b]
  BY <1>1, SetOne
<1>3. phase[c] = "copy"
  BY <1>1 DEF ConnGood, HandlerInv, ConnTypeOK
<1>4. ConnTypeOK'
  BY <1>1, <1>2 DEF ConnTypeOK, InterruptTypeOK
<1>5. \A e \in Conn \ {c} : Same(e)
  BY <1>1, <1>2 DEF Same, ConnTypeOK, InterruptTypeOK
<1>6. ConnGood(c)'
  <2>1. HandlerInv(c)'
    BY <1>1, <1>2, <1>3 DEF ConnGood, HandlerInv, ConnTypeOK
  <2>2. CopyInv(c)'
    BY <1>1, <1>2, <1>3 DEF ConnGood, CopyInv, ConnTypeOK, InterruptTypeOK, Dir
  <2>3. EndedInv(c)'
    BY <1>1, <1>3 DEF ConnGood, EndedInv
  <2> QED BY <2>1, <2>2, <2>3 DEF ConnGood
<1> QED BY <1>4, <1>5, <1>6, OneMoves

LEMMA ReadsDataStep ==
    ASSUME ConnIInv, NEW c \in Conn, NEW d \in Dir, ReadsData(c, d)
    PROVE  ConnIInv'
<1> USE DEF ReadsData, interruptVars
<1>1. ConnTypeOK /\ ConnGood(c)
  BY ConnParts
<1>2. /\ copier' \in [Conn -> [Dir -> {"none", "read", "write", "swap", "earlySwap",
                                       "onClose", "close", "done"}]]
      /\ copier'[c][d] = "write"
      /\ \A e \in Dir \ {d} : copier'[c][e] = copier[c][e]
      /\ \A b \in Conn \ {c} : copier'[b] = copier[b]
  BY <1>1, SetOne
<1>3. phase[c] = "copy"
  BY <1>1 DEF ConnGood, HandlerInv, ConnTypeOK
<1>4. ConnTypeOK'
  BY <1>1, <1>2 DEF ConnTypeOK, InterruptTypeOK
<1>5. \A e \in Conn \ {c} : Same(e)
  BY <1>1, <1>2 DEF Same, ConnTypeOK, InterruptTypeOK
<1>6. ConnGood(c)'
  <2>1. HandlerInv(c)'
    BY <1>1, <1>2, <1>3 DEF ConnGood, HandlerInv, ConnTypeOK
  <2>2. CopyInv(c)'
    BY <1>1, <1>2, <1>3 DEF ConnGood, CopyInv, ConnTypeOK, InterruptTypeOK, Dir
  <2>3. EndedInv(c)'
    BY <1>1, <1>3 DEF ConnGood, EndedInv
  <2> QED BY <2>1, <2>2, <2>3 DEF ConnGood
<1> QED BY <1>4, <1>5, <1>6, OneMoves

LEMMA StreamFailsStep ==
    ASSUME ConnIInv, NEW c \in Conn, NEW d \in Dir, StreamFails(c, d)
    PROVE  ConnIInv'
<1> USE DEF StreamFails, CopyRuns, CloseOnError, CloseBoth, CloseConn
<1>1. ConnTypeOK /\ ConnGood(c)
  BY ConnParts
<1>2. /\ copier' \in [Conn -> [Dir -> {"none", "read", "write", "swap", "earlySwap",
                                       "onClose", "close", "done"}]]
      /\ copier'[c][d] = "swap"
      /\ \A e \in Dir \ {d} : copier'[c][e] = copier[c][e]
      /\ \A b \in Conn \ {c} : copier'[b] = copier[b]
  BY <1>1, SetOne
<1>3. phase[c] = "copy"
  BY <1>1 DEF ConnGood, HandlerInv, ConnTypeOK
<1>4. ConnTypeOK'
  BY <1>1, <1>2 DEF ConnTypeOK, InterruptTypeOK
<1>5. \A e \in Conn \ {c} : Same(e)
  BY <1>1, <1>2 DEF Same, ConnTypeOK, InterruptTypeOK
<1>6. ConnGood(c)'
  <2>1. HandlerInv(c)'
    BY <1>1, <1>2, <1>3 DEF ConnGood, HandlerInv, ConnTypeOK
  <2>2. CopyInv(c)'
    BY <1>1, <1>2, <1>3 DEF ConnGood, CopyInv, ConnTypeOK, InterruptTypeOK, Dir
  <2>3. EndedInv(c)'
    BY <1>1, <1>3 DEF ConnGood, EndedInv
  <2> QED BY <2>1, <2>2, <2>3 DEF ConnGood
<1> QED BY <1>4, <1>5, <1>6, OneMoves

LEMMA EarlyFailsStep ==
    ASSUME ConnIInv, NEW c \in Conn, NEW d \in Dir, EarlyFails(c, d)
    PROVE  ConnIInv'
<1> USE DEF EarlyFails, CopyRuns, interruptVars
<1>1. ConnTypeOK /\ ConnGood(c)
  BY ConnParts
<1>2. /\ copier' \in [Conn -> [Dir -> {"none", "read", "write", "swap", "earlySwap",
                                       "onClose", "close", "done"}]]
      /\ copier'[c][d] = "earlySwap"
      /\ \A e \in Dir \ {d} : copier'[c][e] = copier[c][e]
      /\ \A b \in Conn \ {c} : copier'[b] = copier[b]
  BY <1>1, SetOne
<1>3. phase[c] = "copy"
  BY <1>1 DEF ConnGood, HandlerInv, ConnTypeOK
<1>4. ConnTypeOK'
  BY <1>1, <1>2 DEF ConnTypeOK, InterruptTypeOK
<1>5. \A e \in Conn \ {c} : Same(e)
  BY <1>1, <1>2 DEF Same, ConnTypeOK, InterruptTypeOK
<1>6. ConnGood(c)'
  <2>1. HandlerInv(c)'
    BY <1>1, <1>2, <1>3 DEF ConnGood, HandlerInv, ConnTypeOK
  <2>2. CopyInv(c)'
    BY <1>1, <1>2, <1>3 DEF ConnGood, CopyInv, ConnTypeOK, InterruptTypeOK, Dir
  <2>3. EndedInv(c)'
    BY <1>1, <1>3 DEF ConnGood, EndedInv
  <2> QED BY <2>1, <2>2, <2>3 DEF ConnGood
<1> QED BY <1>4, <1>5, <1>6, OneMoves

LEMMA StreamEndsStep ==
    ASSUME ConnIInv, NEW c \in Conn, NEW d \in Dir, StreamEnds(c, d)
    PROVE  ConnIInv'
<1> USE DEF StreamEnds, CloseBoth, CloseConn, interruptVars
<1>1. ConnTypeOK /\ ConnGood(c)
  BY ConnParts
<1>2. /\ copier' \in [Conn -> [Dir -> {"none", "read", "write", "swap", "earlySwap",
                                       "onClose", "close", "done"}]]
      /\ copier'[c][d] = "swap"
      /\ \A e \in Dir \ {d} : copier'[c][e] = copier[c][e]
      /\ \A b \in Conn \ {c} : copier'[b] = copier[b]
  BY <1>1, SetOne
<1>3. phase[c] = "copy"
  BY <1>1 DEF ConnGood, HandlerInv, ConnTypeOK
<1>4. ConnTypeOK'
  BY <1>1, <1>2 DEF ConnTypeOK, InterruptTypeOK
<1>5. \A e \in Conn \ {c} : Same(e)
  BY <1>1, <1>2 DEF Same, ConnTypeOK, InterruptTypeOK
<1>6. ConnGood(c)'
  <2>1. HandlerInv(c)'
    BY <1>1, <1>2, <1>3 DEF ConnGood, HandlerInv, ConnTypeOK
  <2>2. CopyInv(c)'
    BY <1>1, <1>2, <1>3 DEF ConnGood, CopyInv, ConnTypeOK, InterruptTypeOK, Dir
  <2>3. EndedInv(c)'
    BY <1>1, <1>3 DEF ConnGood, EndedInv
  <2> QED BY <2>1, <2>2, <2>3 DEF ConnGood
<1> QED BY <1>4, <1>5, <1>6, OneMoves

LEMMA PacketsEndStep ==
    ASSUME ConnIInv, NEW c \in Conn, NEW d \in Dir, PacketsEnd(c, d)
    PROVE  ConnIInv'
<1> USE DEF PacketsEnd, CopyRuns, interruptVars
<1>1. ConnTypeOK /\ ConnGood(c)
  BY ConnParts
<1>2. /\ copier' \in [Conn -> [Dir -> {"none", "read", "write", "swap", "earlySwap",
                                       "onClose", "close", "done"}]]
      /\ copier'[c][d] = "earlySwap"
      /\ \A e \in Dir \ {d} : copier'[c][e] = copier[c][e]
      /\ \A b \in Conn \ {c} : copier'[b] = copier[b]
  BY <1>1, SetOne
<1>3. phase[c] = "copy"
  BY <1>1 DEF ConnGood, HandlerInv, ConnTypeOK
<1>4. ConnTypeOK'
  BY <1>1, <1>2 DEF ConnTypeOK, InterruptTypeOK
<1>5. \A e \in Conn \ {c} : Same(e)
  BY <1>1, <1>2 DEF Same, ConnTypeOK, InterruptTypeOK
<1>6. ConnGood(c)'
  <2>1. HandlerInv(c)'
    BY <1>1, <1>2, <1>3 DEF ConnGood, HandlerInv, ConnTypeOK
  <2>2. CopyInv(c)'
    BY <1>1, <1>2, <1>3 DEF ConnGood, CopyInv, ConnTypeOK, InterruptTypeOK, Dir
  <2>3. EndedInv(c)'
    BY <1>1, <1>3 DEF ConnGood, EndedInv
  <2> QED BY <2>1, <2>2, <2>3 DEF ConnGood
<1> QED BY <1>4, <1>5, <1>6, OneMoves

LEMMA SwapStep ==
    ASSUME ConnIInv, NEW c \in Conn, NEW d \in Dir, Swap(c, d)
    PROVE  ConnIInv'
<1> USE DEF Swap, interruptVars, CallsOnClose
<1>1. ConnTypeOK /\ ConnGood(c)
  BY ConnParts
<1>2. /\ copier' \in [Conn -> [Dir -> {"none", "read", "write", "swap", "earlySwap",
                                       "onClose", "close", "done"}]]
      /\ copier'[c][d] = (IF CallsOnClose(c) THEN "onClose"
                         ELSE IF copier[c][d] = "swap" THEN "done" ELSE "close")
      /\ \A e \in Dir \ {d} : copier'[c][e] = copier[c][e]
      /\ \A b \in Conn \ {c} : copier'[b] = copier[b]
  BY <1>1, SetOne
<1>3. phase[c] = "copy"
  BY <1>1 DEF ConnGood, HandlerInv, ConnTypeOK
<1>4. ConnTypeOK'
  BY <1>1, <1>2 DEF ConnTypeOK, InterruptTypeOK
<1>5. \A e \in Conn \ {c} : Same(e)
  BY <1>1, <1>2 DEF Same, ConnTypeOK, InterruptTypeOK
<1>6. ConnGood(c)'
  <2>1. HandlerInv(c)'
    BY <1>1, <1>2, <1>3 DEF ConnGood, HandlerInv, ConnTypeOK
  <2>2. CopyInv(c)'
    BY <1>1, <1>2, <1>3 DEF ConnGood, CopyInv, ConnTypeOK, InterruptTypeOK, Dir
  <2>3. EndedInv(c)'
    BY <1>1, <1>3 DEF ConnGood, EndedInv
  <2> QED BY <2>1, <2>2, <2>3 DEF ConnGood
<1> QED BY <1>4, <1>5, <1>6, OneMoves

LEMMA OnCloseStep ==
    ASSUME ConnIInv, NEW c \in Conn, NEW d \in Dir, OnClose(c, d)
    PROVE  ConnIInv'
<1> USE DEF OnClose, OnCloseCalled, interruptVars
<1>1. ConnTypeOK /\ ConnGood(c)
  BY ConnParts
<1>2. /\ copier' \in [Conn -> [Dir -> {"none", "read", "write", "swap", "earlySwap",
                                       "onClose", "close", "done"}]]
      /\ copier'[c][d] = "close"
      /\ \A e \in Dir \ {d} : copier'[c][e] = copier[c][e]
      /\ \A b \in Conn \ {c} : copier'[b] = copier[b]
  BY <1>1, SetOne
<1>3. phase[c] = "copy"
  BY <1>1 DEF ConnGood, HandlerInv, ConnTypeOK
<1>7. called[c] = 0
  BY <1>1, <1>3 DEF ConnGood, CopyInv, Dir, ConnTypeOK
<1>4. ConnTypeOK'
  BY <1>1, <1>2, <1>7 DEF ConnTypeOK, InterruptTypeOK
<1>5. \A e \in Conn \ {c} : Same(e)
  BY <1>1, <1>2 DEF Same, ConnTypeOK, InterruptTypeOK
<1>6. ConnGood(c)'
  <2>1. HandlerInv(c)'
    BY <1>1, <1>2, <1>3 DEF ConnGood, HandlerInv, ConnTypeOK
  <2>2. CopyInv(c)'
    BY <1>1, <1>2, <1>3 DEF ConnGood, CopyInv, ConnTypeOK, InterruptTypeOK, Dir
  <2>3. EndedInv(c)'
    BY <1>1, <1>3, <1>7 DEF ConnGood, EndedInv, ConnTypeOK
  <2> QED BY <2>1, <2>2, <2>3 DEF ConnGood
<1> QED BY <1>4, <1>5, <1>6, OneMoves

LEMMA CloseSidesStep ==
    ASSUME ConnIInv, NEW c \in Conn, NEW d \in Dir, CloseSides(c, d)
    PROVE  ConnIInv'
<1> USE DEF CloseSides, CloseBoth, CloseConn
<1>1. ConnTypeOK /\ ConnGood(c)
  BY ConnParts
<1>2. /\ copier' \in [Conn -> [Dir -> {"none", "read", "write", "swap", "earlySwap",
                                       "onClose", "close", "done"}]]
      /\ copier'[c][d] = "done"
      /\ \A e \in Dir \ {d} : copier'[c][e] = copier[c][e]
      /\ \A b \in Conn \ {c} : copier'[b] = copier[b]
  BY <1>1, SetOne
<1>3. phase[c] = "copy"
  BY <1>1 DEF ConnGood, HandlerInv, ConnTypeOK
<1>4. ConnTypeOK'
  BY <1>1, <1>2 DEF ConnTypeOK, InterruptTypeOK
<1>5. \A e \in Conn \ {c} : Same(e)
  BY <1>1, <1>2 DEF Same, ConnTypeOK, InterruptTypeOK
<1>6. ConnGood(c)'
  <2>1. HandlerInv(c)'
    BY <1>1, <1>2, <1>3 DEF ConnGood, HandlerInv, ConnTypeOK
  <2>2. CopyInv(c)'
    BY <1>1, <1>2, <1>3 DEF ConnGood, CopyInv, ConnTypeOK, InterruptTypeOK, Dir
  <2>3. EndedInv(c)'
    BY <1>1, <1>3 DEF ConnGood, EndedInv
  <2> QED BY <2>1, <2>2, <2>3 DEF ConnGood
<1> QED BY <1>4, <1>5, <1>6, OneMoves

\* An interrupt closes members only, and those are registered.
LEMMA InterruptStep ==
    ASSUME ConnIInv, Interrupt, UNCHANGED connVars PROVE ConnIInv'
<1> USE DEF Interrupt, connVars, Affected
<1>1. ConnTypeOK /\ \A c \in Conn : ConnGood(c)
  BY ConnParts
<1>2. ConnTypeOK'
  BY <1>1 DEF ConnTypeOK, InterruptTypeOK
<1>3. ASSUME NEW c \in Conn PROVE ConnGood(c)'
  <2>1. HandlerInv(c)'
    BY <1>1 DEF ConnGood, HandlerInv
  <2>2. CopyInv(c)'
    BY <1>1 DEF ConnGood, CopyInv
  <2>3. EndedInv(c)'
    BY <1>1 DEF ConnGood, EndedInv
  <2> QED BY <2>1, <2>2, <2>3 DEF ConnGood
<1> QED BY <1>2, <1>3 DEF ConnIInv, ConnGood, EndedInv, OnCloseOnce, NothingLeftBehind

LEMMA CloseListedStep ==
    ASSUME ConnIInv, CloseListed PROVE ConnIInv'
<1> USE DEF CloseListed, interruptVars
<1>1. ConnTypeOK /\ \A c \in Conn : ConnGood(c)
  BY ConnParts
<1>2. ConnTypeOK'
  BY <1>1 DEF ConnTypeOK, InterruptTypeOK
<1>3. ASSUME NEW c \in Conn PROVE ConnGood(c)'
  <2>1. HandlerInv(c)'
    BY <1>1 DEF ConnGood, HandlerInv
  <2>2. CopyInv(c)'
    BY <1>1 DEF ConnGood, CopyInv
  <2>3. EndedInv(c)'
    BY <1>1 DEF ConnGood, EndedInv
  <2> QED BY <2>1, <2>2, <2>3 DEF ConnGood
<1> QED BY <1>2, <1>3 DEF ConnIInv, ConnGood, EndedInv, OnCloseOnce, NothingLeftBehind

LEMMA TrafficUnchanged ==
    ASSUME ConnIInv, UNCHANGED traffic PROVE ConnIInv'
<1> USE DEF traffic, connVars, interruptVars
<1>1. ConnTypeOK /\ \A c \in Conn : ConnGood(c)
  BY ConnParts
<1>2. ConnTypeOK'
  BY <1>1 DEF ConnTypeOK, InterruptTypeOK
<1>3. \A c \in Conn : ConnGood(c)'
  BY <1>1, Elsewhere DEF Same
<1> QED BY <1>2, <1>3 DEF ConnIInv, ConnGood, EndedInv, OnCloseOnce, NothingLeftBehind

LEMMA HandlerStep ==
    ASSUME ConnIInv, NEW c \in Conn, Handler(c) PROVE ConnIInv'
  BY RouteRefusesStep, CallerClosesStep, DialFailsStep, DialSucceedsStep, RegisterStep, ReportFailsStep,
     StartCopiesStep DEF Handler

LEMMA CopyingStep ==
    ASSUME ConnIInv, NEW c \in Conn, Copying(c) PROVE ConnIInv'
  BY ReadsDataStep, WriteDoneStep, StreamFailsStep, EarlyFailsStep, StreamEndsStep,
     PacketsEndStep, SwapStep, OnCloseStep, CloseSidesStep, CopiesEndStep, UDPTimeoutStep DEF Copying, Unwind

LEMMA ConnInitial ==
    ASSUME InterruptAssumption, ConnInit PROVE ConnIInv
<1> USE DEF ConnInit, InterruptInit, Idle
<1>1. ConnTypeOK
  BY DEF ConnTypeOK, InterruptTypeOK
<1>2. ASSUME NEW c \in Conn PROVE ConnGood(c)
  <2>1. /\ phase[c] = "idle" /\ remote[c] = "none" /\ called[c] = 0 /\ done[c] = FALSE
        /\ \A d \in Dir : copier[c][d] = "none"
        /\ c \notin silent \cup listed \cup connections
    OBVIOUS
  <2> HIDE DEF ConnInit
  <2> QED BY <2>1 DEF ConnGood, HandlerInv, CopyInv, EndedInv
<1> QED BY <1>1, <1>2, ConnParts

-----------------------------------------------------------------------------
\* The health check.

LEMMA CheckerInitial ==
    ASSUME CheckerInit PROVE CheckerIInv
<1>1. CheckerTypeOK
  <2>1. started \in BOOLEAN /\ closeCalled \in BOOLEAN
    BY DEF CheckerInit
  <2>2. /\ ticker \in {"nil", "running", "stopped"} /\ closeChannel \in {"open", "closed"}
        /\ age \in 0..2 /\ orphans \in SUBSET Loop
        /\ loop \in [Loop -> {"none", "begin", "wait", "idle", "check"}]
    BY DEF CheckerInit
  <2> QED BY <2>1, <2>2 DEF CheckerTypeOK
<1>2. \A l \in Loop : ~Live(l)
  BY DEF CheckerInit, Live
<1> QED BY <1>1, <1>2 DEF CheckerIInv

LEMMA PostStartStep ==
    ASSUME CheckerIInv, PostStart PROVE CheckerIInv'
  BY DEF PostStart, CheckerIInv, CheckerTypeOK, Live

LEMMA TouchStep ==
    ASSUME CheckerIInv, Touch PROVE CheckerIInv'
<1> USE DEF CheckerIInv, CheckerTypeOK, Live
<1>1. CASE ~started /\ UNCHANGED checkerVars
  BY <1>1 DEF checkerVars
<1>2. CASE /\ started /\ ticker # "nil"
           /\ age' = 0
           /\ UNCHANGED <<started, ticker, closeChannel, loop, closeCalled, orphans>>
  BY <1>2
<1>3. CASE started /\ ticker = "nil"
  <2>1. PICK l \in Loop :
            /\ loop' = [loop EXCEPT ![l] = "begin"]
            /\ orphans' = IF closeCalled /\ closeChannel = "open"
                          THEN orphans \cup {l} ELSE orphans \ {l}
    BY <1>3 DEF Touch
  <2>2. ticker' = "running" /\ UNCHANGED <<started, closeChannel, age, closeCalled>>
    BY <1>3 DEF Touch
  <2> QED BY <1>3, <2>1, <2>2
<1> QED BY <1>1, <1>2, <1>3 DEF Touch

LEMMA CheckerCloseStep ==
    ASSUME CheckerIInv, CheckerClose PROVE CheckerIInv'
  BY DEF CheckerClose, CheckerIInv, CheckerTypeOK, Live

LEMMA TimePassesStep ==
    ASSUME CheckerIInv, TimePasses PROVE CheckerIInv'
  BY DEF TimePasses, CheckerIInv, CheckerTypeOK, Live

LEMMA LoopStepStep ==
    ASSUME CheckerIInv, NEW l \in Loop, LoopStep(l) PROVE CheckerIInv'
<1> USE DEF CheckerIInv, CheckerTypeOK, Live, Move
<1>1. CASE LoopBegins(l)
  BY <1>1 DEF LoopBegins
<1>2. CASE LoopTicks(l)
  BY <1>2 DEF LoopTicks
<1>3. CASE LoopStops(l)
  BY <1>3 DEF LoopStops
<1>4. CASE LoopReturns(l)
  BY <1>4 DEF LoopReturns
<1>5. CASE LoopChecks(l)
  BY <1>5 DEF LoopChecks
<1> QED BY <1>1, <1>2, <1>3, <1>4, <1>5 DEF LoopStep

LEMMA CheckerUnchanged ==
    ASSUME CheckerIInv, UNCHANGED checkerVars PROVE CheckerIInv'
  BY DEF checkerVars, CheckerIInv, CheckerTypeOK, Live

\* A set without two different elements has at most one.
LEMMA AtMostOne ==
    ASSUME NEW S, \A x, y \in S : x = y PROVE Cardinality(S) <= 1
<1>1. CASE S = {}
  BY <1>1, FS_EmptySet
<1>2. CASE S # {}
  <2>1. PICK x \in S : S = {x}
    BY <1>2
  <2> QED BY <2>1, FS_Singleton
<1> QED BY <1>1, <1>2

LEMMA OwnsTicker ==
    ASSUME CheckerIInv PROVE LoopOwnsTicker
<1>1. \A k, l \in {l \in Loop : Live(l)} : k = l
  BY DEF CheckerIInv
<1>2. Cardinality({l \in Loop : Live(l)}) <= 1
  BY <1>1, AtMostOne
<1> QED BY <1>2 DEF CheckerIInv, LoopOwnsTicker

-----------------------------------------------------------------------------
\* The program.

BoxTypeOK ==
    /\ box \in {"starting", "running", "closing", "closed", "crashed"}
    /\ step \in 1..12
    /\ managers \subseteq {"outbound", "inbound", "endpoint"}
    /\ depends \in DependencyCases
    /\ up \in SUBSET Tags /\ ready \in SUBSET Tags /\ serving \in SUBSET Endpoint
    /\ cursor \in Nat
    /\ canContinue \in BOOLEAN
    /\ cause \in {"none", "failed", "lint"}
    /\ listening \in BOOLEAN
    /\ late \in SUBSET Conn

LintInv == cause = "lint" => ~Orderable

BoxIInv == BoxTypeOK /\ OrderInv /\ StageInv /\ PlaceInv /\ LintInv

LEMMA StepsLength == Len(StartSteps) = 12 /\ Len(CloseSteps) = 5
  BY DEF StartSteps, CloseSteps

LEMMA StagePlaces ==
    ASSUME step \in 1..12
    PROVE  /\ At("start", "outbound") => step = 5
           /\ At("start", "inbound") => step = 7
           /\ At("post-start", "endpoint") => step = 9
           /\ At("finish-start", "outbound") => step = 11
           /\ \A m \in {"outbound", "inbound", "endpoint"} : At("initialize", m) => step < 5
           /\ \A stage : At(stage, "rest") => step # 5
<1>1. /\ StartSteps[1] = <<"initialize", "rest">>
      /\ StartSteps[2] = <<"initialize", "outbound">>
      /\ StartSteps[3] = <<"initialize", "inbound">>
      /\ StartSteps[4] = <<"initialize", "endpoint">>
      /\ StartSteps[5] = <<"start", "outbound">>
      /\ StartSteps[6] = <<"start", "rest">>
      /\ StartSteps[7] = <<"start", "inbound">>
      /\ StartSteps[8] = <<"post-start", "rest">>
      /\ StartSteps[9] = <<"post-start", "endpoint">>
      /\ StartSteps[10] = <<"finish-start", "rest">>
      /\ StartSteps[11] = <<"finish-start", "outbound">>
      /\ StartSteps[12] = <<"finish-start", "rest">>
  BY DEF StartSteps
<1>2. step \in {1, 2, 3, 4, 5, 6, 7, 8, 9, 10, 11, 12}
  OBVIOUS
<1> QED BY <1>1, <1>2 DEF At

\* Outbounds that were all started, in the order they were, can be ordered.
LEMMA StartedOrder ==
    ASSUME OrderInv, up = Tags PROVE Orderable
  BY DEF OrderInv, Orderable

LEMMA LintUnchanged ==
    ASSUME LintInv, cause' = "lint" => cause = "lint", UNCHANGED depends PROVE LintInv'
  BY DEF LintInv, Orderable

LEMMA BoxParts ==
    ASSUME ConnIInv, CheckerIInv, BoxIInv PROVE IInv
<1>1. TypeOK
  BY StepsLength DEF TypeOK, ConnIInv, CheckerIInv, BoxIInv, BoxTypeOK
<1>2. StartOrderSound
  <2>1. box = "running" => up = Tags
    BY DEF BoxIInv, BoxTypeOK, StageInv
  <2> QED BY <2>1, StartedOrder DEF StartOrderSound, BoxIInv, StageInv, LintInv
<1> QED BY <1>1, <1>2 DEF IInv, BoxIInv

\* What a step of the start does to stage and box.
LEMMA AdvanceStage ==
    ASSUME BoxTypeOK, Advance
    PROVE  \/ step < 12 /\ step' = step + 1 /\ box' = box
           \/ step = 12 /\ step' = 1 /\ box' = "running"
  BY StepsLength DEF Advance, BoxTypeOK

\* What a list in order guarantees is lost neither at the end of a pass nor by traffic:
\* a connection comes from an inbound or from an endpoint.
LEMMA PlaceGoesOn ==
    ASSUME BoxIInv, UNCHANGED <<depends, up, ready>>, cursor' \in {cursor, 0},
           box' # "crashed" \/ UNCHANGED <<box, listening>>,
           \A e \in Conn : phase'[e] # "idle" => phase[e] # "idle" \/ listening \/ serving # {}
    PROVE  PlaceInv'
<1>1. DialMeetsGroup'
  BY DEF BoxIInv, PlaceInv, DialMeetsGroup, InOrder
<1> SUFFICES ASSUME InOrder
             PROVE  /\ \A t \in Tags \ Endpoint : Place[t] <= cursor' => t \in up
                    /\ up \cap Endpoint # {} => Tags \ Endpoint \subseteq ready
                    /\ \A c \in Conn : phase'[c] # "idle" => Group \in ready
  BY <1>1 DEF PlaceInv, InOrder
<1>2. \A t \in Tags : ~(Place[t] <= 0)
  BY BoxAssumption
<1>3. Group \in Tags \ Endpoint
  BY BoxAssumption DEF Tags
<1>4. listening \/ serving # {} => Group \in ready
  BY <1>3 DEF BoxIInv, BoxTypeOK, StageInv, PlaceInv
<1> QED BY <1>2, <1>4 DEF BoxIInv, PlaceInv

\* A step of the start that leaves the outbounds, the inbounds and the traffic
\* alone: only the pass that has started all outbounds goes past stage 5.
LEMMA StageGoesOn ==
    ASSUME BoxIInv, box = "starting", Advance \/ \E why \in {"failed", "lint"} : Abort(why),
           Advance => step # 5 \/ up = Tags,
           UNCHANGED <<depends, up, ready, listening, phase>>, cursor' \in {cursor, 0},
           serving' \subseteq up
    PROVE  /\ StageInv' /\ PlaceInv' /\ step' \in 1..12
           /\ box' \in {"starting", "running", "closing", "closed", "crashed"}
<1>1. \/ step < 12 /\ step' = step + 1 /\ box' = box /\ (step # 5 \/ up = Tags)
      \/ step = 12 /\ step' = 1 /\ box' = "running"
      \/ step' = 1 /\ box' = "closing"
  BY AdvanceStage DEF BoxIInv, Abort
<1>2. StageInv'
  BY <1>1 DEF BoxIInv, BoxTypeOK, StageInv
<1>3. PlaceInv'
  BY <1>1, PlaceGoesOn
<1> QED BY <1>1, <1>2, <1>3 DEF BoxIInv, BoxTypeOK

LEMMA OrderUnchanged ==
    ASSUME OrderInv, UNCHANGED <<depends, up, cursor, canContinue>> PROVE OrderInv'
  BY DEF OrderInv

LEMMA RestStartsStep ==
    ASSUME BoxIInv, RestStarts PROVE BoxIInv'
<1> USE DEF RestStarts, traffic, connVars, startVars
<1>1. step # 5 /\ box = "starting" /\ serving \subseteq up
  BY StagePlaces DEF BoxIInv, BoxTypeOK, At, StageInv
<1>2. Advance \/ \E why \in {"failed", "lint"} : Abort(why)
  OBVIOUS
<1>3. /\ StageInv' /\ PlaceInv' /\ step' \in 1..12
      /\ box' \in {"starting", "running", "closing", "closed", "crashed"}
  BY <1>1, <1>2, StageGoesOn
<1>4. OrderInv'
  BY OrderUnchanged DEF BoxIInv, startVars
<1>5. cause' = cause \/ cause' = "failed"
  BY DEF Abort
<1>6. LintInv'
  BY <1>5, LintUnchanged DEF BoxIInv, startVars
<1> QED BY <1>3, <1>4, <1>5, <1>6 DEF BoxIInv, BoxTypeOK

LEMMA ManagerInitializesStep ==
    ASSUME BoxIInv, NEW m \in {"outbound", "inbound", "endpoint"}, ManagerInitializes(m)
    PROVE  BoxIInv'
<1> USE DEF ManagerInitializes, traffic, connVars, startVars
<1>1. step # 5 /\ box = "starting" /\ serving \subseteq up
  BY StagePlaces DEF BoxIInv, BoxTypeOK, At, StageInv
<1>2. Advance \/ \E why \in {"failed", "lint"} : Abort(why)
  OBVIOUS
<1>3. /\ StageInv' /\ PlaceInv' /\ step' \in 1..12
      /\ box' \in {"starting", "running", "closing", "closed", "crashed"}
  BY <1>1, <1>2, StageGoesOn
<1>4. OrderInv'
  BY OrderUnchanged DEF BoxIInv, startVars
<1>5. cause' = cause \/ cause' = "failed"
  BY DEF Abort
<1>6. LintInv'
  BY <1>5, LintUnchanged DEF BoxIInv, startVars
<1> QED BY <1>3, <1>4, <1>5, <1>6 DEF BoxIInv, BoxTypeOK

LEMMA GroupPostStartsStep ==
    ASSUME BoxIInv, GroupPostStarts PROVE BoxIInv'
<1> USE DEF GroupPostStarts, traffic, connVars, startVars
<1>1. step # 5 /\ box = "starting" /\ serving \subseteq up
  BY StagePlaces DEF BoxIInv, BoxTypeOK, At, StageInv
<1>2. /\ StageInv' /\ PlaceInv' /\ step' \in 1..12
      /\ box' \in {"starting", "running", "closing", "closed", "crashed"}
  BY <1>1, StageGoesOn
<1>3. OrderInv'
  BY OrderUnchanged DEF BoxIInv
<1>4. LintInv'
  BY LintUnchanged DEF BoxIInv
<1> QED BY <1>2, <1>3, <1>4 DEF BoxIInv, BoxTypeOK

LEMMA EndpointsPostStartStep ==
    ASSUME BoxIInv, EndpointsPostStart PROVE BoxIInv'
<1> USE DEF EndpointsPostStart, traffic, connVars, startVars
<1>1. step = 9 /\ box = "starting" /\ up = Tags
  BY StagePlaces DEF BoxIInv, BoxTypeOK, At, StageInv
<1>2. Advance \/ \E why \in {"failed", "lint"} : Abort(why)
  OBVIOUS
<1>7. serving' \in SUBSET Endpoint /\ serving' \subseteq up
  BY <1>1, BoxAssumption DEF Tags
<1>3. /\ StageInv' /\ PlaceInv' /\ step' \in 1..12
      /\ box' \in {"starting", "running", "closing", "closed", "crashed"}
  BY <1>1, <1>2, <1>7, StageGoesOn
<1>4. OrderInv'
  BY OrderUnchanged DEF BoxIInv, startVars
<1>5. cause' = cause \/ cause' = "failed"
  BY DEF Abort
<1>6. LintInv'
  BY <1>5, LintUnchanged DEF BoxIInv, startVars
<1> QED BY <1>3, <1>4, <1>5, <1>6, <1>7 DEF BoxIInv, BoxTypeOK

LEMMA InboundStartsStep ==
    ASSUME BoxIInv, InboundStarts PROVE BoxIInv'
<1> USE DEF InboundStarts, traffic, connVars, startVars
<1>1. step = 7 /\ box = "starting" /\ up = Tags /\ ready = Tags
  BY StagePlaces DEF BoxIInv, BoxTypeOK, At, StageInv
<1>2. \/ step' = 8 /\ box' = box
      \/ step' = 1 /\ box' = "closing"
  BY <1>1, AdvanceStage DEF BoxIInv, Abort
<1>3. StageInv'
  BY <1>1, <1>2 DEF BoxIInv, StageInv
<1>7. PlaceInv'
  BY <1>1, <1>2, PlaceGoesOn
<1>4. OrderInv'
  BY OrderUnchanged DEF BoxIInv, startVars
<1>5. cause' = cause \/ cause' = "failed"
  BY DEF Abort
<1>6. LintInv'
  BY <1>5, LintUnchanged DEF BoxIInv, startVars
<1> QED BY <1>1, <1>2, <1>3, <1>4, <1>5, <1>6, <1>7 DEF BoxIInv, BoxTypeOK

\* In a list in order, the pass meets an outbound after all that stand before it: of
\* those it has left behind the first one would have been startable, and ahead.
LEMMA NoneLeftBehind ==
    ASSUME BoxIInv, InOrder, NEW t \in Tags, OutboundStarts(t), NEW r \in Tags \ Endpoint,
           Place[r] <= Place[t]
    PROVE  r \in up \cup {t}
<1> DEFINE Left == {q \in Tags \ Endpoint : Place[q] <= Place[t] /\ q \notin up \cup {t}}
           Places == {Place[q] : q \in Left}
<1>1. \A q \in Tags : Place[q] \in Nat
  BY BoxAssumption
<1> SUFFICES ASSUME Left # {} PROVE FALSE
  OBVIOUS
<1>2. Places \in SUBSET Nat /\ Places # {}
  BY <1>1
<1> HIDE DEF Places
<1>3. PICK n \in Places : \A m \in Places : n <= m
  BY <1>2, LeastNatural
<1>4. PICK q \in Left : n = Place[q]
  BY DEF Places
<1>5. \A m \in Left : Place[q] <= Place[m]
  BY <1>3, <1>4 DEF Places
<1>6. ASSUME NEW d \in depends[q] PROVE d \in up
  <2>1. d \in Tags \ Endpoint /\ Place[d] < Place[q]
    BY DEF InOrder
  <2>2. d \notin Left
    BY <1>1, <1>5, <2>1
  <2>3. Place[d] < Place[t]
    BY <1>1, <2>1
  <2>4. d # t /\ Place[d] <= Place[t]
    BY <1>1, <2>1, <2>3
  <2> QED BY <2>1, <2>2, <2>4
<1>7. cursor < Place[q]
  BY <1>1 DEF BoxIInv, BoxTypeOK, PlaceInv
<1>8. Ahead(q)
  BY <1>1, <1>6, <1>7 DEF Ahead, Startable, BoxIInv, BoxTypeOK
<1>9. Place[t] <= Place[q]
  BY <1>8 DEF OutboundStarts
<1>10. Place[q] = Place[t]
  BY <1>1, <1>9
<1> QED BY <1>10, BoxAssumption

LEMMA PlaceOutboundStarts ==
    ASSUME BoxIInv, box = "starting", NEW t \in Tags, OutboundStarts(t) PROVE PlaceInv'
<1> USE DEF traffic, connVars
<1>1. /\ t \notin up /\ up' = up \cup {t} /\ ready \subseteq ready' /\ ready' \subseteq up'
      /\ cursor' = Place[t] /\ box' # "crashed" /\ UNCHANGED <<depends, phase>> /\ ready = up
  BY DEF OutboundStarts, Ahead, Startable, Abort, BoxIInv, StageInv
<1>2. DialMeetsGroup'
  BY <1>1 DEF DialMeetsGroup
<1> SUFFICES ASSUME InOrder
             PROVE  /\ \A r \in Tags \ Endpoint : Place[r] <= cursor' => r \in up'
                    /\ up' \cap Endpoint # {} => Tags \ Endpoint \subseteq ready'
                    /\ \A c \in Conn : phase'[c] # "idle" => Group \in ready'
  BY <1>1, <1>2 DEF PlaceInv, InOrder
<1>3. \A r \in Tags \ Endpoint : Place[r] <= cursor' => r \in up'
  BY <1>1, NoneLeftBehind
<1>4. ASSUME up' \cap Endpoint # {} PROVE Tags \ Endpoint \subseteq ready'
  <2>1. CASE up \cap Endpoint # {}
    BY <1>1, <2>1 DEF BoxIInv, PlaceInv
  <2>2. CASE up \cap Endpoint = {}
    <3>1. t \in Endpoint
      BY <1>1, <1>4, <2>2
    <3>2. \A r \in Tags \ Endpoint : Place[r] <= Place[t] /\ r # t
      BY <3>1, BoxAssumption
    <3> QED BY <1>1, <1>3, <3>2
  <2> QED BY <2>1, <2>2
<1>5. \A c \in Conn : phase'[c] # "idle" => Group \in ready'
  BY <1>1 DEF BoxIInv, PlaceInv
<1> QED BY <1>3, <1>4, <1>5

\* An outbound whose dependencies were started is added to an order.
LEMMA OutboundStartsStep ==
    ASSUME BoxIInv, NEW t \in Tags, OutboundStarts(t) PROVE BoxIInv'
<1> USE DEF OutboundStarts, traffic, connVars
<1>1. step = 5 /\ box = "starting" /\ ready = up
  BY StagePlaces DEF BoxIInv, BoxTypeOK, At, StageInv
<1>2. t \notin up /\ depends[t] \subseteq up /\ Place[t] \in Nat
  BY BoxAssumption DEF Ahead, Startable
<1>3. \/ UNCHANGED <<box, step, cause>> /\ ready' = up'
      \/ box' = "closing" /\ step' = 1 /\ cause' = "failed" /\ ready' = ready
  BY <1>1 DEF Abort
<1>7. serving' \in SUBSET Endpoint /\ serving' \subseteq up'
  BY DEF BoxIInv, BoxTypeOK, StageInv
<1>4. StageInv'
  BY <1>1, <1>2, <1>3, <1>7 DEF BoxIInv, BoxTypeOK, StageInv
<1>8. PlaceInv'
  BY <1>1, PlaceOutboundStarts
<1>5. OrderInv'
  <2>1. \A r \in up' : depends[r] \subseteq up'
    BY <1>2 DEF BoxIInv, OrderInv
  <2>2. ASSUME NEW S \in SUBSET up', S # {} PROVE \E r \in S : depends[r] \cap S = {}
    <3>1. CASE S \cap up = {}
      <4>1. S = {t}
        BY <2>2, <3>1
      <4> QED BY <1>2, <4>1
    <3>2. CASE S \cap up # {}
      <4>1. S \cap up \in SUBSET up
        OBVIOUS
      <4>2. PICK r \in S \cap up : depends[r] \cap (S \cap up) = {}
        BY <3>2, <4>1 DEF BoxIInv, OrderInv
      <4>3. depends[r] \subseteq up
        BY <4>2 DEF BoxIInv, OrderInv
      <4> QED BY <4>2, <4>3
    <3> QED BY <3>1, <3>2
  <2> QED BY <2>1, <2>2 DEF OrderInv
<1>6. LintInv'
  BY <1>3, LintUnchanged DEF BoxIInv
<1> QED BY <1>1, <1>2, <1>3, <1>4, <1>5, <1>6, <1>7, <1>8 DEF BoxIInv, BoxTypeOK

\* A pass that starts nothing has met a circle or a dependency that is missing.
LEMMA PassEndsStep ==
    ASSUME BoxIInv, PassEnds PROVE BoxIInv'
<1> USE DEF PassEnds, traffic, connVars
<1>1. step = 5 /\ box = "starting" /\ serving \subseteq up
  BY StagePlaces DEF BoxIInv, BoxTypeOK, At, StageInv
<1>2. OrderInv'
  BY DEF BoxIInv, OrderInv
<1>3. CASE up = Tags /\ Advance /\ UNCHANGED cause
  <2>1. /\ StageInv' /\ PlaceInv' /\ step' \in 1..12
        /\ box' \in {"starting", "running", "closing", "closed", "crashed"}
    BY <1>1, <1>3, StageGoesOn
  <2>2. LintInv'
    BY <1>3, LintUnchanged DEF BoxIInv
  <2> QED BY <1>2, <1>3, <2>1, <2>2 DEF BoxIInv, BoxTypeOK
<1>4. CASE up # Tags /\ canContinue /\ UNCHANGED <<box, step, cause>>
  <2>1. StageInv' /\ PlaceInv'
    BY <1>1, <1>4, PlaceGoesOn DEF BoxIInv, StageInv
  <2>2. LintInv'
    BY <1>4, LintUnchanged DEF BoxIInv
  <2> QED BY <1>2, <1>4, <2>1, <2>2 DEF BoxIInv, BoxTypeOK
<1>5. CASE up # Tags /\ ~canContinue /\ Abort("lint")
  <2>1. /\ StageInv' /\ PlaceInv' /\ step' \in 1..12
        /\ box' \in {"starting", "running", "closing", "closed", "crashed"}
    <3>1. ~Advance
      BY <1>1, <1>5, AdvanceStage DEF BoxIInv, Abort
    <3> QED BY <1>1, <1>5, <3>1, StageGoesOn
  <2>2. \A t \in Tags \ up : ~(depends[t] \subseteq up)
    <3>1. cursor = 0
      BY <1>5 DEF BoxIInv, OrderInv
    <3>2. \A t \in Tags : Place[t] > 0
      BY BoxAssumption
    <3> QED BY <3>1, <3>2 DEF Ahead, Startable
  <2>3. ~Orderable
    <3> SUFFICES ASSUME Orderable PROVE FALSE
      OBVIOUS
    <3>1. Tags \ up \in SUBSET Tags /\ Tags \ up # {}
      BY <1>5 DEF BoxIInv, BoxTypeOK
    <3>2. PICK t \in Tags \ up : depends[t] \cap (Tags \ up) = {}
      BY <3>1 DEF Orderable
    <3>3. depends[t] \subseteq Tags
      BY DEF Orderable
    <3> QED BY <2>2, <3>2, <3>3
  <2>4. LintInv'
    BY <2>3 DEF LintInv, Orderable
  <2>5. cause' = "lint"
    BY <1>5 DEF Abort
  <2> QED BY <1>2, <2>1, <2>4, <2>5 DEF BoxIInv, BoxTypeOK
<1> QED BY <1>3, <1>4, <1>5

LEMMA ShutdownStep ==
    ASSUME BoxIInv, Shutdown PROVE BoxIInv'
<1> USE DEF Shutdown, traffic, connVars, startVars
<1>1. StageInv' /\ PlaceInv'
  BY PlaceGoesOn DEF BoxIInv, StageInv
<1> QED BY <1>1, OrderUnchanged, LintUnchanged DEF BoxIInv, BoxTypeOK

LEMMA CloseNextStep ==
    ASSUME BoxIInv, CloseNext PROVE BoxIInv'
<1>1. /\ box = "closing"
      /\ step' = IF step < 5 THEN step + 1 ELSE 1
      /\ box' = IF step < 5 THEN box ELSE "closed"
      /\ managers' \subseteq managers
      /\ listening' = listening \/ listening' = FALSE
      /\ serving' = serving \/ serving' = {}
      /\ UNCHANGED <<depends, up, ready, cursor, canContinue, cause, late, phase>>
  BY StepsLength DEF CloseNext, CloseListed, traffic, connVars, startVars
<1>2. StageInv' /\ PlaceInv'
  BY <1>1, PlaceGoesOn DEF BoxIInv, StageInv
<1>3. OrderInv' /\ LintInv'
  BY <1>1, OrderUnchanged, LintUnchanged DEF BoxIInv
<1>4. step' \in 1..12 /\ box' \in {"starting", "running", "closing", "closed", "crashed"}
  BY <1>1 DEF BoxIInv, BoxTypeOK
<1>5. listening' \in BOOLEAN
  BY <1>1 DEF BoxIInv, BoxTypeOK
<1> QED BY <1>1, <1>2, <1>3, <1>4, <1>5 DEF BoxIInv, BoxTypeOK

\* A dial that finds no group: not one of an inbound's connection, and not in a list
\* in order.
LEMMA DialPanicsStep ==
    ASSUME BoxIInv, NEW c \in Conn, DialPanics(c) PROVE BoxIInv'
<1> USE DEF DialPanics, traffic, connVars, startVars
<1>1. ~InOrder /\ ~listening
  BY DEF BoxIInv, StageInv, PlaceInv, Tags
<1>2. StageInv' /\ PlaceInv'
  BY <1>1 DEF BoxIInv, StageInv, PlaceInv, InOrder, DialMeetsGroup
<1> QED BY <1>2, OrderUnchanged, LintUnchanged DEF BoxIInv, BoxTypeOK

\* A connection that is not idle came from an inbound or an endpoint.
LEMMA NeverFromIdle ==
    ASSUME ConnTypeOK, NEW c \in Conn,
           Route(c) \/ Handler(c) \/ WaitEnds(c) \/ Copying(c) \/ Forget(c)
    PROVE  \A e \in Conn : phase'[e] # "idle" => phase[e] # "idle"
<1> USE DEF ConnTypeOK, Go
<1>1. CASE Route(c)
  BY <1>1 DEF Route
<1>2. CASE Handler(c) \/ WaitEnds(c)
  BY <1>2 DEF Handler, WaitEnds, RouteRefuses, CallerCloses, DialFails, DialSucceeds, Register,
              ReportFails, StartCopies
<1>3. CASE Copying(c)
  <2>1. UNCHANGED phase \/ CopiesEnd(c)
    BY <1>3 DEF Copying, ReadsData, WriteDone, StreamFails, EarlyFails, StreamEnds, PacketsEnd,
                Unwind, Swap, OnClose, CloseSides, UDPTimeout
  <2> QED BY <2>1 DEF CopiesEnd
<1>4. CASE Forget(c)
  BY <1>4 DEF Forget
<1> QED BY <1>1, <1>2, <1>3, <1>4

\* Traffic leaves the program as it is.
LEMMA TrafficGoesOn ==
    ASSUME BoxIInv, UNCHANGED <<box, step, managers, depends, up, ready, cursor, canContinue,
                                cause, serving, listening>>,
           late' \subseteq Conn,
           \A e \in Conn : phase'[e] # "idle" => phase[e] # "idle" \/ listening \/ serving # {}
    PROVE  BoxIInv'
<1>1. StageInv' /\ PlaceInv'
  BY PlaceGoesOn DEF BoxIInv, StageInv
<1> QED BY <1>1, OrderUnchanged, LintUnchanged DEF BoxIInv, BoxTypeOK

LEMMA InitialInv ==
    ASSUME Init PROVE IInv
<1>1. ConnIInv /\ CheckerIInv
  BY ConnInitial, CheckerInitial, InterruptAssumption DEF Init
<1>2. BoxTypeOK
  <2>1. canContinue \in BOOLEAN /\ listening \in BOOLEAN
    BY DEF Init
  <2> QED BY <2>1 DEF Init, BoxTypeOK
<1>3. OrderInv /\ LintInv
  BY DEF Init, OrderInv, LintInv
<1>4. StageInv /\ PlaceInv
  <2>1. \A t \in Tags : ~(Place[t] <= 0)
    BY BoxAssumption
  <2> QED BY <2>1 DEF Init, StageInv, PlaceInv, DialMeetsGroup, ConnInit
<1> QED BY <1>1, <1>2, <1>3, <1>4, BoxParts DEF BoxIInv

LEMMA InductiveStep ==
    ASSUME IInv, [Next]_vars PROVE IInv'
<1>1. ConnIInv /\ ConnTypeOK /\ CheckerIInv /\ BoxIInv /\ late \subseteq Conn
  BY StepsLength DEF IInv, TypeOK, ConnIInv, BoxIInv, BoxTypeOK, LintInv, StartOrderSound
<1> SUFFICES ConnIInv' /\ CheckerIInv' /\ BoxIInv'
  <2>1. TypeOK'
    BY StepsLength DEF TypeOK, ConnIInv, CheckerIInv, BoxIInv, BoxTypeOK
  <2>2. StartOrderSound'
    BY DEF StartOrderSound, BoxIInv, BoxTypeOK, StageInv, LintInv, OrderInv, Orderable
  <2> QED BY <2>1, <2>2 DEF IInv, BoxIInv
<1>2. CASE RestStarts
  BY <1>1, <1>2, RestStartsStep, TrafficUnchanged, CheckerUnchanged DEF RestStarts
<1>3. CASE PassEnds
  BY <1>1, <1>3, PassEndsStep, TrafficUnchanged, CheckerUnchanged DEF PassEnds
<1>4. CASE InboundStarts
  BY <1>1, <1>4, InboundStartsStep, TrafficUnchanged, CheckerUnchanged DEF InboundStarts
<1>5. CASE GroupPostStarts
  BY <1>1, <1>5, GroupPostStartsStep, TrafficUnchanged, PostStartStep DEF GroupPostStarts
<1>18. CASE EndpointsPostStart
  BY <1>1, <1>18, EndpointsPostStartStep, TrafficUnchanged, CheckerUnchanged
     DEF EndpointsPostStart
<1>6. ASSUME NEW m \in {"outbound", "inbound", "endpoint"}, ManagerInitializes(m)
      PROVE  ConnIInv' /\ CheckerIInv' /\ BoxIInv'
  BY <1>1, <1>6, ManagerInitializesStep, TrafficUnchanged, CheckerUnchanged
     DEF ManagerInitializes
<1>7. ASSUME NEW t \in Tags, OutboundStarts(t) PROVE ConnIInv' /\ CheckerIInv' /\ BoxIInv'
  BY <1>1, <1>7, OutboundStartsStep, TrafficUnchanged, CheckerUnchanged DEF OutboundStarts
<1>8. CASE Shutdown
  BY <1>1, <1>8, ShutdownStep, TrafficUnchanged, CheckerUnchanged DEF Shutdown
<1>9. CASE CloseNext
  <2>1. CheckerIInv'
    BY <1>1, <1>9, CheckerCloseStep, CheckerUnchanged DEF CloseNext
  <2>2. ConnIInv'
    BY <1>1, <1>9, CloseListedStep, TrafficUnchanged DEF CloseNext
  <2> QED BY <1>1, <1>9, <2>1, <2>2, CloseNextStep
<1>10. ASSUME NEW c \in Conn, Inbound(c) PROVE ConnIInv' /\ CheckerIInv' /\ BoxIInv'
  <2>1. PICK n \in {"tcp", "udp"}, viaLegacy \in BOOLEAN : Accept(c, n, viaLegacy)
    BY <1>10 DEF Inbound
  <2>2. ConnIInv'
    BY <1>1, <2>1, AcceptStep
  <2>3. CheckerIInv'
    BY <1>1, <1>10, CheckerUnchanged DEF Inbound
  <2>4. BoxIInv'
    BY <1>1, <1>10, TrafficGoesOn DEF Inbound, boxVars, startVars
  <2> QED BY <2>2, <2>3, <2>4
<1>19. ASSUME NEW c \in Conn, EndpointAccepts(c) PROVE ConnIInv' /\ CheckerIInv' /\ BoxIInv'
  <2>1. PICK n \in {"tcp", "udp"} : Accept(c, n, FALSE)
    BY <1>19 DEF EndpointAccepts
  <2>2. ConnIInv'
    BY <1>1, <2>1, AcceptStep
  <2>3. CheckerIInv'
    BY <1>1, <1>19, CheckerUnchanged DEF EndpointAccepts
  <2>4. BoxIInv'
    BY <1>1, <1>19, TrafficGoesOn DEF EndpointAccepts, boxVars, startVars
  <2> QED BY <2>2, <2>3, <2>4
<1>20. ASSUME NEW c \in Conn, DialPanics(c) PROVE ConnIInv' /\ CheckerIInv' /\ BoxIInv'
  BY <1>1, <1>20, DialPanicsStep, TrafficUnchanged, CheckerUnchanged DEF DialPanics
<1>11. ASSUME NEW c \in Conn, GroupDials(c) PROVE ConnIInv' /\ CheckerIInv' /\ BoxIInv'
  <2>1. ConnIInv' /\ CheckerIInv'
    BY <1>1, <1>11, RouteStep, TouchStep DEF GroupDials
  <2>2. BoxIInv'
    BY <1>1, <1>11, NeverFromIdle, TrafficGoesOn DEF GroupDials, boxVars, startVars
  <2> QED BY <2>1, <2>2
<1>12. ASSUME NEW c \in Conn, HandlerGoesOn(c) PROVE ConnIInv' /\ CheckerIInv' /\ BoxIInv'
  <2>1. ConnIInv' /\ CheckerIInv'
    BY <1>1, <1>12, HandlerStep, WaitEndsStep, CheckerUnchanged DEF HandlerGoesOn
  <2>2. late' \subseteq Conn
    BY <1>1, <1>12 DEF HandlerGoesOn
  <2>3. BoxIInv'
    BY <1>1, <1>12, <2>2, NeverFromIdle, TrafficGoesOn DEF HandlerGoesOn, startVars
  <2> QED BY <2>1, <2>3
<1>13. ASSUME NEW c \in Conn, CopyGoesOn(c) PROVE ConnIInv' /\ CheckerIInv' /\ BoxIInv'
  <2>1. ConnIInv' /\ CheckerIInv'
    BY <1>1, <1>13, CopyingStep, CheckerUnchanged DEF CopyGoesOn
  <2>2. BoxIInv'
    BY <1>1, <1>13, NeverFromIdle, TrafficGoesOn DEF CopyGoesOn, boxVars, startVars
  <2> QED BY <2>1, <2>2
<1>14. ASSUME NEW c \in Conn, SlotFreed(c) PROVE ConnIInv' /\ CheckerIInv' /\ BoxIInv'
  <2>1. ConnIInv' /\ CheckerIInv'
    BY <1>1, <1>14, ForgetStep, CheckerUnchanged DEF SlotFreed
  <2>2. late' \subseteq Conn
    BY <1>1, <1>14 DEF SlotFreed
  <2>3. BoxIInv'
    BY <1>1, <1>14, <2>2, NeverFromIdle, TrafficGoesOn DEF SlotFreed, startVars
  <2> QED BY <2>1, <2>3
<1>15. CASE SelectionChanges
  <2>1. ConnIInv' /\ CheckerIInv'
    BY <1>1, <1>15, InterruptStep, CheckerUnchanged DEF SelectionChanges
  <2>2. BoxIInv'
    BY <1>1, <1>15, TrafficGoesOn DEF SelectionChanges, boxVars, startVars, connVars
  <2> QED BY <2>1, <2>2
<1>16. CASE CheckerRuns
  <2>1. ConnIInv' /\ CheckerIInv'
    BY <1>1, <1>16, TrafficUnchanged, LoopStepStep, TimePassesStep DEF CheckerRuns
  <2>2. BoxIInv'
    BY <1>1, <1>16, TrafficGoesOn DEF CheckerRuns, boxVars, startVars, traffic, connVars
  <2> QED BY <2>1, <2>2
<1>17. CASE UNCHANGED vars
  <2>1. ConnIInv' /\ CheckerIInv'
    BY <1>1, <1>17, TrafficUnchanged, CheckerUnchanged DEF vars, traffic
  <2>2. BoxIInv'
    BY <1>1, <1>17, TrafficGoesOn DEF vars, boxVars, startVars, connVars
  <2> QED BY <2>1, <2>2
<1> QED BY <1>2, <1>3, <1>4, <1>5, <1>6, <1>7, <1>8, <1>9, <1>10, <1>11, <1>12, <1>13,
           <1>14, <1>15, <1>16, <1>17, <1>18, <1>19, <1>20 DEF Next

-----------------------------------------------------------------------------
\* The inductive invariant of the program: connections with their two goroutines,
\* the check's loop, the order of the outbounds and endpoints, and the stages of the
\* start: inbounds listen when all outbounds are ready, and in a list in order
\* endpoints accept when all other outbounds are (box.go:363-508, manager.go:93-158,
\* conn.go:59-245, healthcheck.go:93-141).
THEOREM Invariant == Spec => []IInv
<1>1. Init => IInv
  BY InitialInv
<1>2. IInv /\ [Next]_vars => IInv'
  BY InductiveStep
<1> QED BY <1>1, <1>2, PTL DEF Spec

\* Whoever handed a connection over hears of its end exactly once, except on the
\* paths that never call onClose (conn.go:203-207, 273, 298, 321, 385, route.go:34-41,
\* 148-166).
THEOREM CalledOnce == Spec => []OnCloseOnce
<1>1. IInv => OnCloseOnce
  BY DEF IInv, ConnIInv
<1> QED BY <1>1, Invariant, PTL

\* A connection that has ended is closed on both sides and on no list
\* (conn.go:321-324, 388, interrupt/conn.go:29-34).
THEOREM NothingLeft == Spec => []NothingLeftBehind
<1>1. IInv => NothingLeftBehind
  BY DEF IInv, ConnIInv
<1> QED BY <1>1, Invariant, PTL

\* At most one loop checks a group, and its ticker exists while it lives
\* (healthcheck.go:93-106, 108-118, 131-139).
THEOREM OneLoop == Spec => []LoopOwnsTicker
<1>1. IInv => LoopOwnsTicker
  BY OwnsTicker DEF IInv
<1> QED BY <1>1, Invariant, PTL

\* Outbounds are refused only for circular or missing dependencies, and a program
\* that runs has started all of them in a possible order (manager.go:93-158).
THEOREM StartOrder == Spec => []StartOrderSound
<1>1. IInv => StartOrderSound
  BY DEF IInv
<1> QED BY <1>1, Invariant, PTL

\* The program crashes on a group that was not started only while no inbound
\* listens, by a connection of an endpoint, and only when an outbound is listed before
\* what it depends on or depends on an endpoint (box.go:454-470, manager.go:79, 93-129,
\* fallback.go:66-81, 102-105, 151-153).
THEOREM GroupStartedFirst == Spec => []DialMeetsGroup
<1>1. IInv => DialMeetsGroup
  BY DEF IInv, PlaceInv
<1> QED BY <1>1, Invariant, PTL
=============================================================================
