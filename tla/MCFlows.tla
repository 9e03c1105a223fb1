------------------------------ MODULE MCFlows -------------------------------
(***************************************************************************)
(* The tables of UDP flows, KCP sessions and mux connections, and a Mieru  *)
(* session, in one run: Init chooses one of the six, and only its part     *)
(* moves.                                                                  *)
(***************************************************************************)
EXTENDS Flows, Sequences

CONSTANTS d1, s1, s2, t

VARIABLE subject      \* which of the six

dispatcher == <<conns, entry, sender, sends, replies>>
udpWorker == <<active, flow, packets, rx, checker>>
listener == <<session, kcp, hub, closer>>
muxPool == <<muxes, worker, call, running, round, awaited, calls, panicked, wasted, lost>>
reverse == <<dialled, workers, pool, events>>
mieru == <<wire, server, sent, heads, conn, recvQueue, recvDone, reader, unreadBuf, out>>

Init ==
    /\ subject \in {"dispatcher", "worker", "listener", "mux", "reverse", "mieru"}
    /\ U!Init /\ W!Init /\ L!Init /\ P!Init /\ B!Init /\ M!Init

Next ==
    /\ UNCHANGED subject
    /\ IF subject = "dispatcher" THEN U!Next ELSE UNCHANGED dispatcher
    /\ IF subject = "worker" THEN W!Next ELSE UNCHANGED udpWorker
    /\ IF subject = "listener" THEN L!Next ELSE UNCHANGED listener
    /\ IF subject = "mux" THEN P!Next ELSE UNCHANGED muxPool
    /\ IF subject = "reverse" THEN B!Next ELSE UNCHANGED reverse
    /\ IF subject = "mieru" THEN M!Next ELSE UNCHANGED mieru

\* The fairness of each module; that of MieruSession and of the bridge's monitor is written
\* out because they are enabled from the beginning.
FairSpec ==
    /\ Init /\ [][Next]_<<subject, dispatcher, udpWorker, listener, muxPool, reverse, mieru>>
    /\ U!Fairness
    /\ P!Fairness
    /\ B!ConnFairness
    /\ WF_reverse(subject = "reverse" /\ B!Monitor)
    /\ WF_mieru(subject = "mieru" /\ M!Receive)
    /\ WF_mieru(subject = "mieru" /\ M!ReadStep)
    /\ SF_mieru(subject = "mieru" /\ M!SelectDone)

\* UdpDispatcher: outbounds, readers and timers end once the packets stop.
EntriesEnd == U!EntriesEnd
\* MuxPool: workers that are done leave the pool.
DeadWorkersLeave == P!DeadWorkersLeave
\* Reverse: the portal gets a connection that is not drained.
PortalServed == <>[](subject = "reverse" => B!Served)
\* MieruSession: a segment that begins a TLS record is not skipped.
CompleteRecords == M!CompleteRecords
\* MieruSession: Read returns what has arrived, or io.EOF.
ReadProgress == M!ReadProgress

=============================================================================
