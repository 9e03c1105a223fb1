---------------------------- MODULE KcpListener -----------------------------
(***************************************************************************)
(* transport/internet/kcp/listener.go: the server's table of sessions,     *)
(* keyed by the remote address and the conversation id.  The goroutine of  *)
(* the UDP hub looks a packet's session up, or makes one, and feeds it the *)
(* packet, all under the lock of the listener.  A connection that has come *)
(* to its end starts Terminate on a goroutine of its own, which removes    *)
(* the key from the table.  SetState(StateTerminated) may be called by two *)
(* goroutines at once (see KcpState), and Close terminates as well, so a   *)
(* connection may be terminated up to three times.                         *)
(*                                                                         *)
(* One key is enough: different keys share nothing but the lock.           *)
(* Connections are numbered in the order they are made.                    *)
(***************************************************************************)
EXTENDS Naturals, FiniteSets

CONSTANTS
    MaxConns     \* bound: connections made

VARIABLES
    session,     \* l.sessions[id], None if there is none
    conn,        \* conn[c]: its state, and the Terminate goroutines it has
    hub,         \* the hub is open
    closer       \* Close: "idle", "terminate", "done"

vars == <<session, conn, hub, closer>>

None == 0
Conns == 1..MaxConns
Made == {c \in Conns : conn[c].state # "none"}
NewConn(s) == [state |-> s, told |-> 0, pending |-> 0, released |-> FALSE]

Init ==
    /\ session = None
    /\ conn = [c \in Conns |-> NewConn("none")]
    /\ hub = TRUE
    /\ closer = "idle"

\* OnReceive of a packet that is not a Terminate command, when there is no session: the
\* connection is given to addConn.  The packets the hub still holds come after Close, too.
OnReceive ==
    /\ session = None
    /\ Made # Conns
    /\ session' = Cardinality(Made) + 1
    /\ conn' = [conn EXCEPT ![session'] = NewConn("live")]
    /\ UNCHANGED <<hub, closer>>

\* Mutant: whoever ends the connection removes it at once, and Terminate does so later.
SetTerminatedRemoves(c) ==
    /\ conn[c].state # "none"
    /\ conn[c].told < 2
    /\ conn' = [conn EXCEPT ![c].state = "terminated", ![c].told = @ + 1, ![c].pending = @ + 1]
    /\ session' = None
    /\ UNCHANGED <<hub, closer>>

\* SetState(StateTerminated), by Input, by Close of the user or by flush: twice if two of
\* them have seen the state before.
SetTerminated(c) ==
    /\ conn[c].state # "none"
    /\ conn[c].told < 2
    /\ conn' = [conn EXCEPT ![c].state = "terminated", ![c].told = @ + 1, ![c].pending = @ + 1]
    /\ UNCHANGED <<session, hub, closer>>

\* Terminate: Writer.Close removes whatever has the key now; the workers are released.
Terminate(c) ==
    /\ conn[c].pending > 0
    /\ session' = None
    /\ conn' = [conn EXCEPT ![c].pending = @ - 1, ![c].released = TRUE]
    /\ UNCHANGED <<hub, closer>>

\* Close: first the hub, then, under the lock, every session.
CloseHub ==
    /\ closer = "idle"
    /\ closer' = "terminate"
    /\ hub' = FALSE
    /\ UNCHANGED <<session, conn>>

CloseSessions ==
    /\ closer = "terminate"
    /\ closer' = "done"
    /\ conn' = IF session = None THEN conn ELSE [conn EXCEPT ![session].pending = @ + 1]
    /\ UNCHANGED <<session, hub>>

Next ==
    \/ OnReceive
    \/ \E c \in Conns : SetTerminated(c) \/ Terminate(c)
    \/ CloseHub
    \/ CloseSessions

Spec == Init /\ [][Next]_vars

-----------------------------------------------------------------------------
\* A connection that lives is in the table, so that its packets reach it and do not make
\* another connection, unless an older one with its key was terminated more than once or
\* the listener was closed.
SessionLostByPredecessor ==
    \A c \in Conns :
       (conn[c].state = "live" /\ session # c) =>
          \/ closer = "done"
          \/ \E o \in Conns : o < c /\ conn[o].told > 1

=============================================================================
