----------------------------- MODULE UdpWorker ------------------------------
(***************************************************************************)
(* app/proxyman/inbound/worker.go, the UDP inbound: the packets of one     *)
(* source go to one connection, which a goroutine hands to the proxy.  The *)
(* connection leaves the table when the proxy is done with it or when the  *)
(* checker, a periodic task, finds it idle.  A connection that is done is  *)
(* replaced by the next packet although its goroutine has not removed it   *)
(* yet; inactive is read and written without the lock.                     *)
(*                                                                         *)
(* One source is enough: connections of different sources share only the   *)
(* checker.  Connections are numbered in the order they are made.          *)
(***************************************************************************)
EXTENDS Naturals, FiniteSets

CONSTANTS
    MaxConns,     \* bound: connections made
    MaxPackets    \* bound: packets received

VARIABLES
    active,       \* w.activeConn[id], None if there is none
    conn,         \* conn[c]; pc = "none" before the connection is made
    packets,      \* packets received so far
    rx,           \* handlePackets: "receive", "start" before checker.Start, "clean" inside
                  \* it, "go" before the goroutine, "panicked" in common.Must
    checker       \* w.checker: "off", "starting", "on", "failing" (clean has failed, still
                  \* marked running)

vars == <<active, conn, packets, rx, checker>>

None == 0
Conns == 1..MaxConns
Made == {c \in Conns : conn[c].pc # "none"}
NewConn(pc) == [done |-> FALSE, inactive |-> FALSE, idle |-> FALSE, pc |-> pc]

Init ==
    /\ active = None
    /\ conn = [c \in Conns |-> NewConn("none")]
    /\ packets = 0
    /\ rx = "receive"
    /\ checker = "off"

\* callback: getConnection, under the lock, and the packet.  What the proxy reads counts
\* as activity.
Callback ==
    /\ rx = "receive"
    /\ packets < MaxPackets
    /\ packets' = packets + 1
    /\ \/ /\ active # None
          /\ ~conn[active].done
          /\ conn' = [conn EXCEPT ![active].idle = FALSE]
          /\ UNCHANGED <<active, rx>>
       \/ /\ active # None => conn[active].done
          /\ Made # Conns
          /\ active' = Cardinality(Made) + 1
          /\ conn' = [conn EXCEPT ![active'] = NewConn("made")]
          /\ rx' = "start"
    /\ UNCHANGED checker

\* checker.Start, which does nothing while the task is marked running.
StartChecker ==
    /\ rx = "start"
    /\ rx' = IF checker = "off" THEN "clean" ELSE "go"
    /\ checker' = IF checker = "off" THEN "starting" ELSE checker
    /\ UNCHANGED <<active, conn, packets>>

\* Mutant: an idle connection is taken out of the table but not closed.
CloseIdleWithoutClose ==
    IF conn[active].idle
    THEN /\ active' = IF conn[active].inactive THEN active ELSE None
         /\ conn' = [conn EXCEPT ![active].inactive = TRUE]
    ELSE UNCHANGED <<active, conn>>

\* clean's loop: an idle connection is closed, and leaves the table unless it is inactive.
CloseIdle ==
    IF conn[active].idle
    THEN /\ active' = IF conn[active].inactive THEN active ELSE None
         /\ conn' = [conn EXCEPT ![active].inactive = TRUE, ![active].done = TRUE]
    ELSE UNCHANGED <<active, conn>>

\* Start runs clean itself, under the table's lock: an empty table is an error, and
\* common.Must panics.
FirstClean ==
    /\ rx = "clean"
    /\ IF active = None
       THEN rx' = "panicked" /\ checker' = "off" /\ UNCHANGED <<active, conn>>
       ELSE rx' = "go" /\ checker' = "on" /\ CloseIdle
    /\ UNCHANGED packets

\* The goroutine of the new connection.
Go ==
    /\ rx = "go"
    /\ rx' = "receive"
    /\ conn' = [c \in Conns |-> IF conn[c].pc = "made" THEN [conn[c] EXCEPT !.pc = "process"]
                                ELSE conn[c]]
    /\ UNCHANGED <<active, packets, checker>>

-----------------------------------------------------------------------------
(* The goroutine of a connection. *)

\* The proxy returns, which it does once its connection is closed, and conn.Close.
Process(c) ==
    /\ conn[c].pc = "process"
    /\ conn' = [conn EXCEPT ![c].done = TRUE, ![c].pc = "test"]
    /\ UNCHANGED <<active, packets, rx, checker>>

\* inactive, without the lock: read,
Test(c) ==
    /\ conn[c].pc = "test"
    /\ conn' = [conn EXCEPT ![c].pc = IF conn[c].inactive THEN "gone" ELSE "set"]
    /\ UNCHANGED <<active, packets, rx, checker>>

\* and set.
SetInactive(c) ==
    /\ conn[c].pc = "set"
    /\ conn' = [conn EXCEPT ![c].inactive = TRUE, ![c].pc = "remove"]
    /\ UNCHANGED <<active, packets, rx, checker>>

\* removeConn goes by the source, not by the connection.
RemoveConn(c) ==
    /\ conn[c].pc = "remove"
    /\ active' = None
    /\ conn' = [conn EXCEPT ![c].pc = "gone"]
    /\ UNCHANGED <<packets, rx, checker>>

\* Nothing was read or written for more than eight seconds.
GoIdle(c) ==
    /\ conn[c].pc \notin {"none", "gone"}
    /\ ~conn[c].idle
    /\ conn' = [conn EXCEPT ![c].idle = TRUE]
    /\ UNCHANGED <<active, packets, rx, checker>>

-----------------------------------------------------------------------------
(* The checker, once it is started. *)

\* clean, again and again: it fails when there is nothing left.
Clean ==
    /\ checker = "on"
    /\ IF active = None THEN checker' = "failing" /\ UNCHANGED <<active, conn>>
                        ELSE UNCHANGED checker /\ CloseIdle
    /\ UNCHANGED <<packets, rx>>

\* The mark is cleared some time after clean has failed.
CheckerOff ==
    /\ checker = "failing"
    /\ checker' = "off"
    /\ UNCHANGED <<active, conn, packets, rx>>

\* A panic ends the program.
Next ==
    /\ rx # "panicked"
    /\ \/ Callback
       \/ StartChecker
       \/ FirstClean
       \/ Go
       \/ \E c \in Conns : Process(c) \/ Test(c) \/ SetInactive(c) \/ RemoveConn(c) \/ GoIdle(c)
       \/ Clean
       \/ CheckerOff

Spec == Init /\ [][Next]_vars

-----------------------------------------------------------------------------
\* The proxy serves the connection, or is about to.
Live(c) == conn[c].pc \in {"made", "process"} /\ ~conn[c].done

\* removeConn goes by the source: a connection in use leaves the table, where its packets
\* and the checker find it, only in the step in which an older connection of its source
\* is removed, late.  Only that, or an idle time of its own, makes the first clean of
\* checker.Start find an empty table and common.Must panic.
LostByPredecessor ==
    [][/\ \A c \in Conns :
            (Live(c) /\ active = c /\ active' # c) =>
               \/ ~Live(c)'
               \/ \E o \in Conns : o < c /\ conn[o].pc = "remove" /\ conn'[o].pc = "gone"
       /\ rx' = "panicked" =>
            \E c \in Conns : /\ conn[c].pc = "made"
                              /\ \/ conn[c].done
                                 \/ \E o \in Conns : o < c /\ conn[o].pc = "gone"]_vars

=============================================================================
