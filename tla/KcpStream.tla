---- MODULE KcpStream ----
(***************************************************************************)
(* transport/internet/kcp, one direction of an active connection: the      *)
(* SendingWorker of one end, the ReceivingWorker of the other, and the UDP *)
(* path between them, which loses, repeats, delays and reorders segments.  *)
(* A critical section of a worker is one action.  Payloads are identified  *)
(* by their segment number.  Retransmission and acknowledgement timers are *)
(* abstracted to a choice of which segments are due.                       *)
(*                                                                         *)
(* Numbers stay below MaxNumber, far from the uint32 wrap-around; only the *)
(* subtraction in Flush may leave the range.  An acknowledgement that the  *)
(* code splits every 128 numbers is one segment here.                      *)
(***************************************************************************)
EXTENDS Integers, FiniteSets

CONSTANTS InFlightSize,      \* GetSendingInFlightSize()
          BufferSize,        \* GetSendingBufferSize()
          WindowSize,        \* GetReceivingInFlightSize()
          InitialRemoteNext, \* 32 in NewSendingWorker
          Burst,             \* 20 in SendingWorker.Flush
          Modulus,           \* 2^32
          MaxNumber,         \* bound: segments pushed
          Delayed,           \* bound: old data segments, old acknowledgements on the path
          DelayedPings       \* bound: old pings on the path

ASSUME SizesAssumption ==
  /\ InFlightSize \in Nat /\ BufferSize \in Nat /\ WindowSize \in Nat
  /\ InitialRemoteNext \in Nat /\ Burst \in Nat /\ Modulus \in Nat \ {0}
  /\ MaxNumber \in Nat /\ Delayed \in Nat /\ DelayedPings \in Nat

VARIABLES window, firstUnacknowledged, nextNumber, remoteNextNumber,
          firstUnacknowledgedUpdated,  \* SendingWorker
          receivedNext, cache,         \* ReceivingWorker.nextNumber and window
          acklist, dirty,              \* AckList
          dataNet, ackNet,             \* segments on the path, by kind
          sendingNextNet, receivingNextNet \* CmdOnlySegment: the field the other end uses

sender == <<window, firstUnacknowledged, nextNumber, remoteNextNumber, firstUnacknowledgedUpdated>>
receiver == <<receivedNext, cache, acklist, dirty>>
net == <<dataNet, ackNet, sendingNextNet, receivingNextNet>>
vars == <<sender, receiver, net>>

DataSegment == [number : Nat, sendingNext : Nat]
AckSegment == [receivingWindow : Nat, receivingNext : Nat, numbers : SUBSET Nat]

Init ==
  /\ window = {} /\ firstUnacknowledged = 0 /\ nextNumber = 0
  /\ remoteNextNumber = InitialRemoteNext /\ firstUnacknowledgedUpdated = FALSE
  /\ receivedNext = 0 /\ cache = {} /\ acklist = {} /\ dirty = FALSE
  /\ dataNet = {} /\ ackNet = {} /\ sendingNextNet = {} /\ receivingNextNet = {}

----------------------------------------------------------------------------
\* The path after segs were written to it: they and some older segments,
\* the others are lost.  A segment on the path can be delivered many times.
Carry(old, segs, delayed) ==
  {segs \cup kept : kept \in {k \in SUBSET old : Cardinality(k) <= delayed}}

LoseData(seg) ==
  /\ seg \in dataNet
  /\ dataNet' = dataNet \ {seg}
  /\ UNCHANGED <<sender, receiver, ackNet, sendingNextNet, receivingNextNet>>

LoseAck(seg) ==
  /\ seg \in ackNet
  /\ ackNet' = ackNet \ {seg}
  /\ UNCHANGED <<sender, receiver, dataNet, sendingNextNet, receivingNextNet>>

----------------------------------------------------------------------------
(* SendingWorker *)

Push ==
  /\ nextNumber < MaxNumber
  /\ Cardinality(window) <= BufferSize
  /\ window' = window \cup {nextNumber}
  /\ nextNumber' = nextNumber + 1
  /\ UNCHANGED <<firstUnacknowledged, remoteNextNumber, firstUnacknowledgedUpdated, receiver, net>>

\* FindFirstUnacknowledged, on the window the step leaves behind.
FindFirstUnacknowledged ==
  /\ \/ window' = {} /\ firstUnacknowledged' = nextNumber
     \/ firstUnacknowledged' \in window' /\ \A n \in window' : firstUnacknowledged' <= n
  /\ firstUnacknowledgedUpdated' =
       (firstUnacknowledgedUpdated \/ firstUnacknowledged' # firstUnacknowledged)

UnacknowledgedOffByOne(una, numbers) == {n \in window : n > una /\ n \notin numbers}

\* SendingWindow.Clear and Remove: cumulative and selective acknowledgement.
Unacknowledged(una, numbers) == {n \in window : n >= una /\ n \notin numbers}

ProcessAck(seg) ==
  /\ seg \in ackNet
  /\ remoteNextNumber' = IF remoteNextNumber < seg.receivingWindow
                           THEN seg.receivingWindow ELSE remoteNextNumber
  /\ window' = Unacknowledged(seg.receivingNext, seg.numbers)
  /\ FindFirstUnacknowledged
  /\ UNCHANGED <<nextNumber, receiver, net>>

\* A CmdOnlySegment clears the window but does not move remoteNextNumber.
ProcessReceivingNext(next) ==
  /\ next \in receivingNextNet
  /\ window' = Unacknowledged(next, {})
  /\ FindFirstUnacknowledged
  /\ UNCHANGED <<nextNumber, remoteNextNumber, receiver, net>>

\* How many segments one Flush may write.  remoteNextNumber may lag behind
\* firstUnacknowledged, so the subtraction is one of uint32s.  SendingWindow
\* counts after it has written: one segment goes out even if this is 0.
Allowance ==
  LET space == (remoteNextNumber - firstUnacknowledged) % Modulus
      cwnd  == IF InFlightSize > space THEN space ELSE InFlightSize
  IN  IF cwnd * Burst = 0 THEN 1 ELSE cwnd * Burst

FirstOf(S, k) == {n \in S : Cardinality({j \in S : j < n}) < k}

\* Flush with segments in the window: the first due ones are (re)transmitted.
FlushData(due) ==
  /\ due \subseteq window /\ due # {}
  /\ dataNet' \in Carry(dataNet, {[number |-> n, sendingNext |-> firstUnacknowledged] :
                                    n \in FirstOf(due, Allowance)}, Delayed)
  /\ firstUnacknowledgedUpdated' = FALSE
  /\ UNCHANGED <<window, firstUnacknowledged, nextNumber, remoteNextNumber, receiver,
                 ackNet, sendingNextNet, receivingNextNet>>

PingSender == sendingNextNet' \in Carry(sendingNextNet, {firstUnacknowledged}, DelayedPings)

\* Flush with an empty window pings if firstUnacknowledged moved.
FlushEmpty ==
  /\ window = {} /\ firstUnacknowledgedUpdated
  /\ firstUnacknowledgedUpdated' = FALSE
  /\ PingSender
  /\ UNCHANGED <<window, firstUnacknowledged, nextNumber, remoteNextNumber, receiver,
                 dataNet, ackNet, receivingNextNet>>

\* The ping every three seconds, of either end.
KeepAliveSender ==
  /\ PingSender
  /\ UNCHANGED <<sender, receiver, dataNet, ackNet, receivingNextNet>>

----------------------------------------------------------------------------
(* ReceivingWorker *)

ClearOffByOne(una) == {n \in acklist : n > una}

\* AckList.Clear
Clear(una) == {n \in acklist : n >= una}

ProcessDataNotFirst(seg) ==
  /\ seg \in dataNet
  /\ seg.number > receivedNext /\ seg.number < receivedNext + WindowSize
  /\ acklist' = Clear(seg.sendingNext) \cup {seg.number}
  /\ dirty' = TRUE
  /\ cache' = cache \cup {seg.number}
  /\ UNCHANGED <<sender, receivedNext, net>>

\* ReceivingWorker.ProcessSegment; a number outside the window is dropped
\* without an acknowledgement.
ProcessData(seg) ==
  /\ seg \in dataNet
  /\ seg.number >= receivedNext /\ seg.number < receivedNext + WindowSize
  /\ acklist' = Clear(seg.sendingNext) \cup {seg.number}
  /\ dirty' = TRUE
  /\ cache' = cache \cup {seg.number}
  /\ UNCHANGED <<sender, receivedNext, net>>

ProcessSendingNext(next) ==
  /\ next \in sendingNextNet
  /\ acklist' = Clear(next)
  /\ dirty' = (dirty \/ acklist' # acklist)
  /\ UNCHANGED <<sender, receivedNext, cache, net>>

\* ReadMultiBuffer: the application takes the contiguous run, up to `next`.
ReadMultiBuffer(next) ==
  /\ next > receivedNext /\ next \notin cache
  /\ \A n \in receivedNext..(next - 1) : n \in cache
  /\ receivedNext' = next
  /\ cache' = {n \in cache : n >= next}
  /\ UNCHANGED <<sender, acklist, dirty, net>>

AckSegments ==
  {[receivingWindow |-> receivedNext + WindowSize, receivingNext |-> receivedNext,
    numbers |-> acklist]}

\* AckList.Flush: if the list changed or a number is due, everything on the
\* list goes out, and stays listed until SendingNext passes it.
FlushAcks ==
  /\ dirty \/ acklist # {}
  /\ ackNet' \in Carry(ackNet, AckSegments, Delayed)
  /\ dirty' = FALSE
  /\ UNCHANGED <<sender, receivedNext, cache, acklist, dataNet, sendingNextNet, receivingNextNet>>

KeepAliveReceiver ==
  /\ receivingNextNet' \in Carry(receivingNextNet, {receivedNext}, DelayedPings)
  /\ UNCHANGED <<sender, receiver, dataNet, ackNet, sendingNextNet>>

----------------------------------------------------------------------------
Next ==
  \/ Push
  \/ \E due \in SUBSET window : FlushData(due)
  \/ FlushEmpty
  \/ KeepAliveSender
  \/ \E seg \in ackNet : ProcessAck(seg)
  \/ \E next \in receivingNextNet : ProcessReceivingNext(next)
  \/ \E seg \in dataNet : ProcessData(seg)
  \/ \E next \in sendingNextNet : ProcessSendingNext(next)
  \/ \E next \in 0..MaxNumber : ReadMultiBuffer(next)
  \/ FlushAcks
  \/ KeepAliveReceiver
  \/ \E seg \in dataNet : LoseData(seg)
  \/ \E seg \in ackNet : LoseAck(seg)

Spec == Init /\ [][Next]_vars

\* The updaters flush while there is something to send; the application
\* reads; a segment that is sent again and again gets through now and then.
\* Pings are a bonus: nothing is assumed of them.
Fairness ==
  /\ WF_vars(FlushData(window))
  /\ WF_vars(FlushAcks)
  /\ WF_vars(\E next \in 0..MaxNumber : ReadMultiBuffer(next))
  /\ \A n \in 0..(MaxNumber - 1) :
       /\ SF_vars(\E seg \in dataNet : seg.number = n /\ ProcessData(seg))
       /\ SF_vars(\E seg \in ackNet : n \in seg.numbers /\ ProcessAck(seg))

FairSpec == Spec /\ Fairness

----------------------------------------------------------------------------
\* The shape of the two workers' state and of what is on the path; the sender
\* numbers no more segments than were pushed.
TypeOK ==
  /\ window \subseteq Nat /\ firstUnacknowledged \in Nat /\ nextNumber \in 0..MaxNumber
  /\ remoteNextNumber \in Nat /\ firstUnacknowledgedUpdated \in BOOLEAN
  /\ receivedNext \in Nat /\ cache \subseteq Nat /\ acklist \subseteq Nat /\ dirty \in BOOLEAN
  /\ dataNet \subseteq DataSegment /\ ackNet \subseteq AckSegment
  /\ sendingNextNet \subseteq Nat /\ receivingNextNet \subseteq Nat

Received(n) == n < receivedNext \/ n \in cache

\* No segment falls between the two ends: what was pushed is still kept for
\* retransmission or has been received, whatever stale acknowledgements and
\* pings arrive.
NoSegmentLost == \A n \in 0..(nextNumber - 1) : n \in window \/ Received(n)

\* While the sender still keeps a segment the receiver has, the receiver
\* still has its acknowledgement to repeat: stale SendingNext values never
\* clear it too early.
AckNotForgotten == \A n \in window : Received(n) => n \in acklist

\* Everything on the path tells the truth, however late it arrives: an
\* acknowledgement names only received segments, and a SendingNext only
\* passes segments whose acknowledgement has arrived.
PathTruthful ==
  /\ \A seg \in ackNet : /\ seg.receivingNext <= receivedNext
                         /\ \A n \in seg.numbers : Received(n)
  /\ \A next \in receivingNextNet : next <= receivedNext
  /\ \A next \in sendingNextNet \cup {seg.sendingNext : seg \in dataNet} :
       next <= firstUnacknowledged /\ \A n \in 0..(next - 1) : Received(n) /\ n \notin window

\* The receiver buffers at most WindowSize segments, all within the window
\* it advertised and all really pushed.
ReceiverWindowBound ==
  \A n \in cache : n >= receivedNext /\ n < receivedNext + WindowSize /\ n < nextNumber

\* The two ends only ever move forward.
Forward ==
  [][/\ firstUnacknowledged' >= firstUnacknowledged
     /\ receivedNext' >= receivedNext
     /\ remoteNextNumber' >= remoteNextNumber]_vars

\* Every pushed segment is delivered to the application, in order (reading n
\* means having read all before it), and leaves the sending window, so that a
\* blocked Write gets room again.
EventuallyDelivered ==
  \A n \in 0..(MaxNumber - 1) : nextNumber > n ~> (receivedNext > n /\ n \notin window)
====
