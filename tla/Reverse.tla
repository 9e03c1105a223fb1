------------------------------ MODULE Reverse -------------------------------
(***************************************************************************)
(* app/reverse: a bridge behind a firewall keeps mux connections to a      *)
(* portal, which sends its clients' sessions back over them.  Each has a   *)
(* control session: the portal's heartbeat says ACTIVE, and DRAIN once it  *)
(* has carried enough sessions; the bridge then dials the next one.  Both  *)
(* sides keep a list of their own and may be told late, or never, that a   *)
(* connection is broken.                                                   *)
(*                                                                         *)
(* Connections are numbered as they are dialled.  mail is the control      *)
(* session from the portal's pipe to the bridge's: in order, and lost from *)
(* some place on when the connection breaks.  A session of a client begins *)
(* and ends on both sides at once; what lies between is in Mux.            *)
(***************************************************************************)
EXTENDS Naturals, Sequences, FiniteSetsExt

CONSTANTS
    DrainAfter,     \* sessions after which a connection is drained, 256 in the code
    Crowded,        \* connections per worker above which the bridge dials, 16 in the code
    MaxMail,        \* control messages that the pipes of a control session hold
    MaxDials,       \* bound: connections
    MaxEvents       \* bound: sessions of clients and broken connections

VARIABLES
    conn,       \* conn[k], for the connections dialled so far
    workers,    \* Bridge.workers
    pool,       \* StaticMuxPicker.workers
    events      \* sessions of clients and broken connections so far

vars == <<conn, workers, pool, events>>

Conns == 1..Len(conn)

Init ==
    /\ conn = <<>>
    /\ workers = {}
    /\ pool = {}
    /\ events = 0

-----------------------------------------------------------------------------
(* The bridge. *)

\* IsActive; server is the bridge's end of the connection, a mux.ServerWorker.
IsActive(k) == conn[k].state = "ACTIVE" /\ conn[k].server = "open"

\* The sessions of a connection, the control session included until its writer is closed.
Connections(k) == conn[k].active + (IF conn[k].writer = "open" THEN 1 ELSE 0)

\* monitor asks for another connection.
Wanted(ws) ==
    \/ ws = {}
    \/ MapThenSumSet(Connections, ws) \div Cardinality(ws) > Crowded

\* A round of the bridge's task that keeps these of its workers: a new connection if there
\* is none, or if those that there are have too many sessions.  Dispatch returns a link at
\* once; that the connection cannot be made shows as a break.
Keep(kept) ==
    LET dial == Wanted(kept) /\ Len(conn) < MaxDials
    IN  /\ workers' = IF dial THEN kept \cup {Len(conn) + 1} ELSE kept
        /\ conn' = IF dial
                   THEN Append(conn, [link |-> "up", server |-> "open", client |-> "none",
                                      added |-> FALSE, state |-> "ACTIVE", draining |-> FALSE,
                                      control |-> "off", writer |-> "none", mail |-> <<>>,
                                      active |-> 0, total |-> 0])
                   ELSE conn
        /\ UNCHANGED <<pool, events>>

\* Mutant: a connection that is drained still counts.
MonitorKeepsDrained == Keep({k \in workers : conn[k].server = "open"})

\* monitor, with its cleanup
Monitor == Keep({k \in workers : IsActive(k)})

\* handleInternalConn: a control message sets the state.
Control(k) ==
    /\ conn[k].mail # <<>>
    /\ conn' = [conn EXCEPT ![k].state = Head(conn[k].mail), ![k].mail = Tail(@)]
    /\ UNCHANGED <<workers, pool, events>>

\* The loop of the bridge's mux worker meets the end of the connection.
ServerEnds(k) ==
    /\ conn[k].link # "up"
    /\ conn[k].server = "open"
    /\ conn' = [conn EXCEPT ![k].server = "closed", ![k].active = 0]
    /\ UNCHANGED <<workers, pool, events>>

-----------------------------------------------------------------------------
(* The portal. *)

\* HandleConnection of a connection from the bridge: a mux client, its control session,
\* the heartbeat with its first message.
HandleBridge(k) ==
    /\ conn[k].client = "none"
    /\ conn[k].link = "up"
    /\ conn' = [conn EXCEPT ![k].client = "open", ![k].control = "on", ![k].writer = "open",
                            ![k].mail = <<"ACTIVE">>, ![k].total = 1]
    /\ UNCHANGED <<workers, pool, events>>

\* The picker gets to know it, even if it has ended meanwhile.
AddWorker(k) ==
    /\ conn[k].client # "none"
    /\ ~conn[k].added
    /\ conn' = [conn EXCEPT ![k].added = TRUE]
    /\ pool' = pool \cup {k}
    /\ UNCHANGED <<workers, events>>

\* Writing to the control session: it blocks while the pipe is full, and fails on a broken
\* connection.
CanWrite(k) == conn[k].link = "up" /\ Len(conn[k].mail) < MaxMail

\* heartbeat: a closed client, a connection that was drained, or a failed write ends it.
Heartbeat(k) ==
    /\ conn[k].control = "on"
    /\ \/ /\ conn[k].client = "closed" \/ conn[k].draining
          /\ conn' = [conn EXCEPT ![k].control = "off"]
       \/ /\ conn[k].client = "open" /\ ~conn[k].draining
          /\ \/ /\ conn[k].total > DrainAfter
                /\ conn' = [conn EXCEPT ![k].draining = TRUE, ![k].control = "drain"]
             \/ /\ conn[k].total <= DrainAfter
                /\ \/ /\ CanWrite(k)
                      /\ conn' = [conn EXCEPT ![k].mail = Append(@, "ACTIVE")]
                   \/ /\ conn[k].link = "broken"
                      /\ conn' = [conn EXCEPT ![k].control = "off"]
    /\ UNCHANGED <<workers, pool, events>>

\* A connection with too many sessions is drained: the message, then the deferred close of
\* the writer.  The next round finds it disposed, if the write did not fail.
Drain(k) ==
    /\ conn[k].control = "drain"
    /\ CanWrite(k) \/ conn[k].link = "broken"
    /\ conn' = [conn EXCEPT
                 ![k].control = IF CanWrite(k) THEN "on" ELSE "off",
                 ![k].mail = IF CanWrite(k) THEN Append(@, "DRAIN") ELSE @,
                 ![k].writer = "closed"]
    /\ UNCHANGED <<workers, pool, events>>

\* PickAvailable: the least used of the connections that are open and not drained, or else
\* of the open ones.
Fewest(ks) == {k \in ks : \A j \in ks : conn[k].active <= conn[j].active}

Candidates ==
    LET open == {k \in pool : conn[k].client = "open"}
        fresh == {k \in open : ~conn[k].draining}
    IN  Fewest(IF fresh # {} THEN fresh ELSE open)

\* HandleConnection of a client's connection, which is one session more.
HandleClient(k) ==
    /\ k \in Candidates
    /\ events < MaxEvents
    /\ events' = events + 1
    /\ conn' = [conn EXCEPT ![k].active = @ + 1, ![k].total = @ + 1]
    /\ UNCHANGED <<workers, pool>>

\* A session ends when its client or its destination ends it.
SessionEnds(k) ==
    /\ conn[k].active > 0
    /\ conn' = [conn EXCEPT ![k].active = @ - 1]
    /\ UNCHANGED <<workers, pool, events>>

\* The mux client without sessions closes the connection, in good order.
ClientIdle(k) ==
    /\ conn[k].client = "open"
    /\ conn[k].writer = "closed"
    /\ conn[k].active = 0
    /\ conn' = [conn EXCEPT ![k].client = "closed", ![k].link = IF @ = "up" THEN "ended" ELSE @]
    /\ UNCHANGED <<workers, pool, events>>

\* The loop of the mux client meets the end of a broken connection.
ClientEnds(k) ==
    /\ conn[k].link = "broken"
    /\ conn[k].client = "open"
    /\ conn' = [conn EXCEPT ![k].client = "closed", ![k].active = 0]
    /\ UNCHANGED <<workers, pool, events>>

\* cleanup of the picker
PickerCleanup ==
    /\ pool' = {k \in pool : conn[k].client # "closed"}
    /\ UNCHANGED <<conn, workers, events>>

-----------------------------------------------------------------------------
\* Fault: a connection breaks, with control messages on their way.
Break(k) ==
    /\ conn[k].link = "up"
    /\ events < MaxEvents
    /\ events' = events + 1
    /\ \E n \in 0..Len(conn[k].mail) :
          conn' = [conn EXCEPT ![k].link = "broken", ![k].mail = SubSeq(@, 1, n)]
    /\ UNCHANGED <<workers, pool>>

Bridge(k) == Control(k) \/ ServerEnds(k)
Portal(k) == HandleBridge(k) \/ AddWorker(k) \/ ClientEnds(k)
Beat(k) == Heartbeat(k) \/ Drain(k)

Next ==
    \/ Monitor
    \/ PickerCleanup
    \/ \E k \in Conns : Bridge(k) \/ Portal(k) \/ Beat(k) \/ HandleClient(k) \/ SessionEnds(k)
                        \/ ClientIdle(k) \/ Break(k)

Spec == Init /\ [][Next]_vars

\* The periodic tasks run, connections that are not broken reach the portal, and the ends
\* of a broken one find out some day.  No client has to come, and no session has to end.
ConnFairness ==
    \A k \in 1..MaxDials :
       /\ WF_vars(k \in Conns /\ Control(k))
       /\ WF_vars(k \in Conns /\ ServerEnds(k))
       /\ WF_vars(k \in Conns /\ Portal(k))
       /\ WF_vars(k \in Conns /\ Beat(k))

Fairness == WF_vars(Monitor) /\ ConnFairness

FairSpec == Spec /\ Fairness

-----------------------------------------------------------------------------
\* The portal has a connection to the bridge that is open on both sides and not drained.
Served ==
    \E k \in pool : conn[k].client = "open" /\ conn[k].server = "open" /\ ~conn[k].draining

\* Once connections stop breaking and clients stop coming, the portal is served for good,
\* also if no session of the drained connections ends.
PortalServed == <>[]Served

=============================================================================
