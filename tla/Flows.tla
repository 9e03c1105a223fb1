------------------------------- MODULE Flows --------------------------------
(***************************************************************************)
(* Three tables of flows that are keyed by an address, the pool of mux     *)
(* connections, bridge and portal, and a Mieru session, side by side.      *)
(* They share nothing; names that their modules have in common are told    *)
(* apart here.                                                             *)
(***************************************************************************)
EXTENDS Naturals

CONSTANTS
    Dests, Senders, MaxEntries, MaxSends, MaxReplies,   \* UdpDispatcher
    MaxConns,                                           \* UdpWorker and KcpListener
    MaxPackets,                                         \* UdpWorker
    Callers, PoolTimer, MaxConcurrency, MaxConnection, Attempts, MaxWorkers, MaxCalls,  \* MuxPool
    DrainAfter, Crowded, MaxMail, MaxDials, MaxEvents,  \* Reverse
    Sizes, MaxBytes, MaxSegments, ReadSize              \* MieruSession

\* Sizes of segments and of the buffer given to Read.
MieruOK == Sizes \subseteq Nat /\ ReadSize \in Nat

\* The limits of the mux strategy; the task's timer is a goroutine of its own.
PoolOK ==
    /\ MaxConcurrency \in Nat \ {0} /\ MaxConnection \in Nat \ {0}
    /\ PoolTimer \notin Callers

ASSUME FlowsAssumption == MaxConns \in Nat /\ MieruOK /\ PoolOK

VARIABLES
    conns, entry, sender, sends, replies,           \* UdpDispatcher
    active, flow, packets, rx, checker,             \* UdpWorker
    session, kcp, hub, closer,                      \* KcpListener
    muxes, worker, call, running, round, awaited, calls, panicked, wasted, lost,  \* MuxPool
    dialled, workers, pool, events,                 \* Reverse
    wire, server, sent, heads, conn, recvQueue, recvDone, reader, unreadBuf, out  \* MieruSession

U == INSTANCE UdpDispatcher WITH MaxPackets <- MaxSends, packets <- sends
W == INSTANCE UdpWorker WITH conn <- flow
L == INSTANCE KcpListener WITH conn <- kcp
P == INSTANCE MuxPool WITH Timer <- PoolTimer, workers <- muxes
B == INSTANCE Reverse WITH conn <- dialled
M == INSTANCE MieruSession

\* UdpDispatcher: a live entry is cut off only in the late removal of an older one of its
\* destination.
CutOffByPredecessor == U!CutOffByPredecessor
\* UdpWorker: a connection in use leaves the table only by the late removal of an older one.
LostByPredecessor == W!LostByPredecessor
\* KcpListener: likewise, and only if the older one was terminated twice.
SessionLostByPredecessor == L!SessionLostByPredecessor
\* MuxPool: starting the cleanup task never panics.
StartNeverPanics == P!StartNeverPanics
\* MuxPool: attempts of a call are wasted only while workers fill up or close.
AttemptsSucceed == P!AttemptsSucceed
\* MieruSession: bytes are missing only before a segment that looks like a protocol's head.
GapsEndAtHeads == M!GapsEndAtHeads

=============================================================================
