---------------------------- MODULE InterruptGroup ---------------------------
(***************************************************************************)
(* The connections an outbound group keeps so that it can close them when  *)
(* its selection changes (src/common/interrupt/group.go, conn.go).  A      *)
(* member is the raw connection of the chosen outbound; what the caller    *)
(* gets is a wrapper whose Close leaves the group as well.  Every          *)
(* operation holds the group's lock, so each is one step.                  *)
(***************************************************************************)
EXTENDS Naturals

CONSTANTS
    Conn,                           \* connections through the group
    Externals,                      \* sets of them that may be inbounds'
    interruptExternalConnections    \* option interrupt_exist_connections

ASSUME InterruptAssumption ==
    /\ Externals \subseteq SUBSET Conn
    /\ interruptExternalConnections \in BOOLEAN

VARIABLES
    remote,         \* the raw connection of each: "none", "open" or "closed"
    external,       \* those made for an inbound connection
    connections     \* the members

interruptVars == <<remote, external, connections>>

InterruptInit ==
    /\ remote = [c \in Conn |-> "none"]
    /\ external \in Externals
    /\ connections = {}

\* The outbound's dial returned a raw connection; nobody keeps it yet.
Dialled(c) ==
    /\ remote' = [remote EXCEPT ![c] = "open"]
    /\ UNCHANGED <<external, connections>>

NewConn(c) ==
    /\ connections' = connections \cup {c}
    /\ UNCHANGED <<remote, external>>

\* Connections for the program's own use go always, those of inbounds only
\* with the option.
Affected == IF interruptExternalConnections THEN connections ELSE connections \ external

\* Mutant: the members are closed through their wrappers, whose Close takes the
\* lock the caller holds.
MutantInterrupt == Affected = {} /\ UNCHANGED interruptVars

Interrupt ==
    /\ remote' = [c \in Conn |-> IF c \in Affected THEN "closed" ELSE remote[c]]
    /\ connections' = connections \ Affected
    /\ UNCHANGED external

\* Mutant: the raw connection is closed, not the wrapper.
MutantCloseConn(c) ==
    /\ remote' = [remote EXCEPT ![c] = "closed"]
    /\ UNCHANGED <<external, connections>>

\* Close of the wrapper: removing an element that is no longer in the list,
\* and closing a connection twice, do nothing.
CloseConn(c) ==
    /\ remote' = [remote EXCEPT ![c] = "closed"]
    /\ connections' = connections \ {c}
    /\ UNCHANGED external

InterruptTypeOK ==
    /\ remote \in [Conn -> {"none", "open", "closed"}]
    /\ external \in Externals
    /\ connections \in SUBSET Conn
==============================================================================
