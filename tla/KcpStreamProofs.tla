---- MODULE KcpStreamProofs ----
(***************************************************************************)
(* KCP data transfer for any window and buffer sizes, any number of        *)
(* segments and any delays.  IInv is inductive; PathTruthful follows from  *)
(* it, because a SendingNext on the path never exceeds the sender's        *)
(* firstUnacknowledged and everything below that has been received.        *)
(***************************************************************************)
EXTENDS KcpStream, TLAPS

\* The sender's window lies between firstUnacknowledged and nextNumber.
SenderOrder ==
  /\ firstUnacknowledged <= nextNumber
  /\ \A n \in window : firstUnacknowledged <= n /\ n < nextNumber

\* The receiver holds and acknowledges only what was pushed and received.
ReceiverOrder ==
  /\ receivedNext <= nextNumber
  /\ \A n \in cache : receivedNext <= n /\ n < receivedNext + WindowSize /\ n < nextNumber
  /\ \A n \in acklist : Received(n)

\* Numbers on the path lag behind the end that sent them.
PathLags ==
  /\ \A seg \in dataNet : seg.number < nextNumber /\ seg.sendingNext <= firstUnacknowledged
  /\ \A next \in sendingNextNet : next <= firstUnacknowledged
  /\ \A next \in receivingNextNet : next <= receivedNext
  /\ \A seg \in ackNet : seg.receivingNext <= receivedNext /\ \A n \in seg.numbers : Received(n)

IInv == TypeOK /\ SenderOrder /\ ReceiverOrder /\ PathLags /\ NoSegmentLost /\ AckNotForgotten

\* The path carries only what was on it or was just written.
LEMMA CarrySubset ==
  ASSUME NEW old, NEW segs, NEW d, NEW S \in Carry(old, segs, d)
  PROVE  S \subseteq old \cup segs
  BY DEF Carry

LEMMA TypeInductive == TypeOK /\ [Next]_vars => TypeOK'
  <1> SUFFICES ASSUME TypeOK, [Next]_vars PROVE TypeOK'
    OBVIOUS
  <1> USE SizesAssumption DEF TypeOK, sender, receiver, net
  <1>1. CASE UNCHANGED vars
    BY <1>1 DEF vars
  <1>2. CASE Push
    BY <1>2 DEF Push
  <1>3. ASSUME NEW due \in SUBSET window, FlushData(due) PROVE TypeOK'
    <2>1. \A n \in FirstOf(due, Allowance) :
            [number |-> n, sendingNext |-> firstUnacknowledged] \in DataSegment
      BY DEF FirstOf, DataSegment
    <2>2. dataNet' \subseteq dataNet \cup
            {[number |-> n, sendingNext |-> firstUnacknowledged] : n \in FirstOf(due, Allowance)}
      BY <1>3, CarrySubset DEF FlushData
    <2>3. dataNet' \subseteq DataSegment
      BY <2>1, <2>2
    <2> QED
      BY <1>3, <2>3 DEF FlushData
  <1>4. CASE FlushEmpty \/ KeepAliveSender
    <2>1. sendingNextNet' \subseteq sendingNextNet \cup {firstUnacknowledged}
      BY <1>4, CarrySubset DEF FlushEmpty, KeepAliveSender, PingSender
    <2> QED
      BY <1>4, <2>1 DEF FlushEmpty, KeepAliveSender
  <1>5. ASSUME NEW seg \in ackNet, ProcessAck(seg) PROVE TypeOK'
    <2>1. seg.receivingWindow \in Nat
      BY DEF AckSegment
    <2>0. window' \subseteq Nat
      BY <1>5 DEF ProcessAck, Unacknowledged
    <2>2. firstUnacknowledged' \in Nat
      BY <1>5, <2>0 DEF ProcessAck, FindFirstUnacknowledged
    <2>3. firstUnacknowledgedUpdated' \in BOOLEAN
      BY <1>5, Zenon DEF ProcessAck, FindFirstUnacknowledged
    <2> QED
      BY <1>5, <2>0, <2>1, <2>2, <2>3 DEF ProcessAck
  <1>6. ASSUME NEW next \in receivingNextNet, ProcessReceivingNext(next) PROVE TypeOK'
    <2>0. window' \subseteq Nat
      BY <1>6 DEF ProcessReceivingNext, Unacknowledged
    <2>1. firstUnacknowledged' \in Nat
      BY <1>6, <2>0 DEF ProcessReceivingNext, FindFirstUnacknowledged
    <2>2. firstUnacknowledgedUpdated' \in BOOLEAN
      BY <1>6, Zenon DEF ProcessReceivingNext, FindFirstUnacknowledged
    <2> QED
      BY <1>6, <2>0, <2>1, <2>2 DEF ProcessReceivingNext
  <1>7. ASSUME NEW seg \in dataNet, ProcessData(seg) PROVE TypeOK'
    <2>1. seg.number \in Nat
      BY DEF DataSegment
    <2> QED
      BY <1>7, <2>1 DEF ProcessData, Clear
  <1>8. ASSUME NEW next \in sendingNextNet, ProcessSendingNext(next) PROVE TypeOK'
    <2>1. dirty' \in BOOLEAN
      BY <1>8, Zenon DEF ProcessSendingNext
    <2> QED
      BY <1>8, <2>1 DEF ProcessSendingNext, Clear
  <1>9. ASSUME NEW next \in 0..MaxNumber, ReadMultiBuffer(next) PROVE TypeOK'
    <2>1. next \in Nat
      BY <1>9
    <2>2. cache' \subseteq Nat
      BY <1>9 DEF ReadMultiBuffer
    <2> QED
      BY <1>9, <2>1, <2>2 DEF ReadMultiBuffer
  <1>10. CASE FlushAcks
    <2>1. AckSegments \subseteq AckSegment
      BY DEF AckSegments, AckSegment
    <2>2. ackNet' \subseteq ackNet \cup AckSegments
      BY <1>10, CarrySubset DEF FlushAcks
    <2> QED
      BY <1>10, <2>1, <2>2 DEF FlushAcks
  <1>11. CASE KeepAliveReceiver
    <2>1. receivingNextNet' \subseteq receivingNextNet \cup {receivedNext}
      BY <1>11, CarrySubset DEF KeepAliveReceiver
    <2> QED
      BY <1>11, <2>1 DEF KeepAliveReceiver
  <1>12. ASSUME NEW seg \in dataNet, LoseData(seg) PROVE TypeOK'
    BY <1>12 DEF LoseData
  <1>13. ASSUME NEW seg \in ackNet, LoseAck(seg) PROVE TypeOK'
    BY <1>13 DEF LoseAck
  <1> QED
    BY <1>1, <1>2, <1>3, <1>4, <1>5, <1>6, <1>7, <1>8, <1>9, <1>10, <1>11, <1>12, <1>13 DEF Next

\* Clearing the window by a truthful acknowledgement loses nothing: what
\* leaves the window has been received, and firstUnacknowledged only grows.
LEMMA AcknowledgingIsSafe ==
  ASSUME IInv, TypeOK', NEW una \in Nat, NEW numbers,
         una <= receivedNext, \A n \in numbers : Received(n),
         window' = Unacknowledged(una, numbers), FindFirstUnacknowledged,
         UNCHANGED <<nextNumber, receiver, net>>
  PROVE  IInv'
  <1> USE SizesAssumption DEF IInv, TypeOK
  <1>1. window' \subseteq window /\ \A n \in window \ window' : Received(n)
    BY DEF Unacknowledged, Received
  <1>2. UNCHANGED <<nextNumber, receivedNext, cache, acklist, dataNet, ackNet,
                    sendingNextNet, receivingNextNet>>
    BY DEF receiver, net
  <1>3. firstUnacknowledged' <= nextNumber' /\ firstUnacknowledged' >= firstUnacknowledged
    BY <1>1, <1>2 DEF FindFirstUnacknowledged, SenderOrder
  <1>4. SenderOrder'
    BY <1>1, <1>2, <1>3 DEF SenderOrder, FindFirstUnacknowledged
  <1>5. ReceiverOrder'
    BY <1>2 DEF ReceiverOrder, Received
  <1>6. PathLags'
    <2>1. \A seg \in dataNet : seg.sendingNext \in Nat /\ seg.number \in Nat
      BY DEF DataSegment
    <2> QED
      BY <1>2, <1>3, <2>1 DEF PathLags, Received
  <1>7. NoSegmentLost'
    BY <1>1, <1>2 DEF NoSegmentLost, Received
  <1>8. AckNotForgotten'
    BY <1>1, <1>2 DEF AckNotForgotten, Received
  <1> QED
    BY <1>4, <1>5, <1>6, <1>7, <1>8

\* Clearing the acknowledgement list up to a SendingNext from the path keeps
\* every acknowledgement the sender still waits for.
LEMMA ClearingIsSafe ==
  ASSUME IInv, NEW una \in Nat, una <= firstUnacknowledged
  PROVE  \A n \in window : Received(n) => n \in Clear(una)
  BY DEF IInv, TypeOK, SenderOrder, AckNotForgotten, Clear

\* IInv is inductive.
LEMMA StreamInductive == IInv /\ [Next]_vars => IInv'
  <1> SUFFICES ASSUME IInv, [Next]_vars PROVE IInv'
    OBVIOUS
  <1>0. TypeOK'
    BY TypeInductive DEF IInv
  <1> USE SizesAssumption, <1>0
  <1>1. CASE UNCHANGED vars
    BY <1>1 DEF IInv, vars, sender, receiver, net, TypeOK, SenderOrder, ReceiverOrder, PathLags,
                NoSegmentLost, AckNotForgotten, Received
  <1>2. CASE Push
    <2> USE <1>2 DEF IInv, TypeOK, Push, receiver, net
    <2>1. SenderOrder'
      BY DEF SenderOrder
    <2>2. ReceiverOrder'
      BY DEF ReceiverOrder, Received
    <2>3. PathLags'
      <3>1. \A seg \in dataNet : seg.number \in Nat
        BY DEF DataSegment
      <3> QED
        BY <3>1 DEF PathLags, Received
    <2>4. NoSegmentLost'
      BY DEF NoSegmentLost, Received
    <2>5. AckNotForgotten'
      BY DEF AckNotForgotten, Received, ReceiverOrder
    <2> QED
      BY <2>1, <2>2, <2>3, <2>4, <2>5
  <1>3. ASSUME NEW due \in SUBSET window, FlushData(due) PROVE IInv'
    <2>1. UNCHANGED <<window, firstUnacknowledged, nextNumber, receivedNext, cache, acklist,
                      ackNet, sendingNextNet, receivingNextNet>>
      BY <1>3 DEF FlushData, receiver
    <2>2. dataNet' \subseteq dataNet \cup
            {[number |-> n, sendingNext |-> firstUnacknowledged] : n \in FirstOf(due, Allowance)}
      BY <1>3, CarrySubset DEF FlushData
    <2>3. \A n \in FirstOf(due, Allowance) : n < nextNumber
      BY DEF FirstOf, IInv, SenderOrder
    <2>4. \A seg \in dataNet' : seg.number < nextNumber /\ seg.sendingNext <= firstUnacknowledged
      BY <2>2, <2>3 DEF IInv, PathLags, TypeOK
    <2>5. PathLags'
      BY <2>1, <2>4 DEF IInv, PathLags, Received
    <2> QED
      BY <2>1, <2>5 DEF IInv, SenderOrder, ReceiverOrder, NoSegmentLost, AckNotForgotten, Received
  <1>4. CASE FlushEmpty \/ KeepAliveSender
    <2>1. UNCHANGED <<window, firstUnacknowledged, nextNumber, receivedNext, cache, acklist,
                      dataNet, ackNet, receivingNextNet>>
      BY <1>4 DEF FlushEmpty, KeepAliveSender, sender, receiver
    <2>2. sendingNextNet' \subseteq sendingNextNet \cup {firstUnacknowledged}
      BY <1>4, CarrySubset DEF FlushEmpty, KeepAliveSender, PingSender
    <2>3. PathLags'
      BY <2>1, <2>2 DEF IInv, PathLags, Received, TypeOK
    <2> QED
      BY <2>1, <2>3 DEF IInv, SenderOrder, ReceiverOrder, NoSegmentLost, AckNotForgotten, Received
  <1>5. ASSUME NEW seg \in ackNet, ProcessAck(seg) PROVE IInv'
    <2>1. seg.receivingNext \in Nat
      BY DEF IInv, TypeOK, AckSegment
    <2>2. seg.receivingNext <= receivedNext /\ \A n \in seg.numbers : Received(n)
      BY DEF IInv, PathLags
    <2> QED
      BY <1>5, <2>1, <2>2, AcknowledgingIsSafe DEF ProcessAck
  <1>6. ASSUME NEW next \in receivingNextNet, ProcessReceivingNext(next) PROVE IInv'
    <2>1. next \in Nat /\ next <= receivedNext
      BY DEF IInv, TypeOK, PathLags
    <2>2. \A n \in {} : Received(n)
      OBVIOUS
    <2> QED
      BY <1>6, <2>1, <2>2, AcknowledgingIsSafe DEF ProcessReceivingNext
  <1>7. ASSUME NEW seg \in dataNet, ProcessData(seg) PROVE IInv'
    <2>1. seg.number \in Nat /\ seg.sendingNext \in Nat
      BY DEF IInv, TypeOK, DataSegment
    <2>2. seg.number < nextNumber /\ seg.sendingNext <= firstUnacknowledged
      BY DEF IInv, PathLags
    <2>3. UNCHANGED <<window, firstUnacknowledged, nextNumber, receivedNext,
                      dataNet, ackNet, sendingNextNet, receivingNextNet>>
      BY <1>7 DEF ProcessData, sender, net
    <2>4. \A n \in Nat : Received(n)' <=> Received(n) \/ n = seg.number
      BY <1>7, <2>1, <2>3 DEF ProcessData, Received, IInv, TypeOK
    <2>5. ReceiverOrder'
      BY <1>7, <2>1, <2>2, <2>3, <2>4 DEF ProcessData, ReceiverOrder, IInv, TypeOK, Clear, Received
    <2>6. PathLags'
      BY <2>3, <2>4 DEF IInv, PathLags, TypeOK, AckSegment
    <2>7. NoSegmentLost'
      BY <2>3, <2>4 DEF IInv, NoSegmentLost, TypeOK
    <2>8. AckNotForgotten'
      BY <1>7, <2>1, <2>2, <2>3, <2>4, ClearingIsSafe DEF ProcessData, AckNotForgotten, IInv, TypeOK
    <2> QED
      BY <2>3, <2>5, <2>6, <2>7, <2>8 DEF IInv, SenderOrder
  <1>8. ASSUME NEW next \in sendingNextNet, ProcessSendingNext(next) PROVE IInv'
    <2>1. next \in Nat /\ next <= firstUnacknowledged
      BY DEF IInv, TypeOK, PathLags
    <2>2. UNCHANGED <<window, firstUnacknowledged, nextNumber, receivedNext, cache,
                      dataNet, ackNet, sendingNextNet, receivingNextNet>>
      BY <1>8 DEF ProcessSendingNext, sender, net
    <2>3. acklist' = Clear(next)
      BY <1>8 DEF ProcessSendingNext
    <2>4. AckNotForgotten'
      BY <2>1, <2>2, <2>3, ClearingIsSafe DEF AckNotForgotten, Received
    <2>5. ReceiverOrder'
      BY <2>2, <2>3 DEF IInv, ReceiverOrder, Clear, Received
    <2> QED
      BY <2>2, <2>4, <2>5 DEF IInv, SenderOrder, PathLags, NoSegmentLost, Received
  <1>9. ASSUME NEW next \in 0..MaxNumber, ReadMultiBuffer(next) PROVE IInv'
    <2>1. UNCHANGED <<window, firstUnacknowledged, nextNumber, acklist,
                      dataNet, ackNet, sendingNextNet, receivingNextNet>>
      BY <1>9 DEF ReadMultiBuffer, sender, net
    <2>2. next \in Nat /\ receivedNext \in Nat /\ next > receivedNext /\ receivedNext' = next
      BY <1>9 DEF ReadMultiBuffer, IInv, TypeOK
    <2>3. next - 1 \in cache
      BY <1>9, <2>2 DEF ReadMultiBuffer
    <2>4. next <= nextNumber
      BY <2>2, <2>3 DEF IInv, TypeOK, ReceiverOrder
    <2>5. \A n \in Nat : Received(n)' <=> Received(n)
      BY <1>9, <2>2 DEF ReadMultiBuffer, Received, IInv, TypeOK
    <2>6. ReceiverOrder'
      BY <1>9, <2>1, <2>2, <2>4, <2>5 DEF ReadMultiBuffer, ReceiverOrder, IInv, TypeOK
    <2>7. PathLags'
      BY <2>1, <2>2, <2>5 DEF IInv, PathLags, TypeOK, AckSegment
    <2>8. NoSegmentLost' /\ AckNotForgotten'
      BY <2>1, <2>5 DEF IInv, NoSegmentLost, AckNotForgotten, TypeOK
    <2> QED
      BY <2>1, <2>6, <2>7, <2>8 DEF IInv, SenderOrder
  <1>10. CASE FlushAcks
    <2>1. UNCHANGED <<window, firstUnacknowledged, nextNumber, receivedNext, cache, acklist,
                      dataNet, sendingNextNet, receivingNextNet>>
      BY <1>10 DEF FlushAcks, sender
    <2>2. ackNet' \subseteq ackNet \cup AckSegments
      BY <1>10, CarrySubset DEF FlushAcks
    <2>3. \A seg \in ackNet' : seg.receivingNext <= receivedNext /\ \A n \in seg.numbers : Received(n)
      <3>1. \A seg \in AckSegments : seg.receivingNext <= receivedNext /\ \A n \in seg.numbers : Received(n)
        BY DEF AckSegments, IInv, ReceiverOrder, TypeOK
      <3> QED
        BY <2>2, <3>1 DEF IInv, PathLags
    <2>4. PathLags'
      BY <2>1, <2>3 DEF IInv, PathLags, Received
    <2> QED
      BY <2>1, <2>4 DEF IInv, SenderOrder, ReceiverOrder, NoSegmentLost, AckNotForgotten, Received
  <1>11. CASE KeepAliveReceiver
    <2>1. UNCHANGED <<window, firstUnacknowledged, nextNumber, receivedNext, cache, acklist,
                      dataNet, ackNet, sendingNextNet>>
      BY <1>11 DEF KeepAliveReceiver, sender, receiver
    <2>2. receivingNextNet' \subseteq receivingNextNet \cup {receivedNext}
      BY <1>11, CarrySubset DEF KeepAliveReceiver
    <2>3. \A next \in receivingNextNet' : next <= receivedNext
      BY <2>2 DEF IInv, PathLags, TypeOK
    <2>4. PathLags'
      BY <2>1, <2>3 DEF IInv, PathLags, Received
    <2> QED
      BY <2>1, <2>4 DEF IInv, SenderOrder, ReceiverOrder, NoSegmentLost, AckNotForgotten, Received
  <1>12. ASSUME NEW seg \in dataNet, LoseData(seg) PROVE IInv'
    BY <1>12 DEF LoseData, sender, receiver, IInv, SenderOrder, ReceiverOrder, PathLags,
                 NoSegmentLost, AckNotForgotten, Received
  <1>13. ASSUME NEW seg \in ackNet, LoseAck(seg) PROVE IInv'
    BY <1>13 DEF LoseAck, sender, receiver, IInv, SenderOrder, ReceiverOrder, PathLags,
                 NoSegmentLost, AckNotForgotten, Received
  <1> QED
    BY <1>1, <1>2, <1>3, <1>4, <1>5, <1>6, <1>7, <1>8, <1>9, <1>10, <1>11, <1>12, <1>13 DEF Next

\* The inductive invariant holds throughout.
THEOREM KcpSafety == Spec => []IInv
  <1>1. Init => IInv
    <2> SUFFICES ASSUME Init PROVE IInv
      OBVIOUS
    <2>1. TypeOK
      <3>1. /\ firstUnacknowledged \in Nat /\ nextNumber \in 0..MaxNumber /\ remoteNextNumber \in Nat
            /\ receivedNext \in Nat
        BY SizesAssumption DEF Init
      <3>2. /\ window \subseteq Nat /\ cache \subseteq Nat /\ acklist \subseteq Nat
            /\ dataNet \subseteq DataSegment /\ ackNet \subseteq AckSegment
            /\ sendingNextNet \subseteq Nat /\ receivingNextNet \subseteq Nat
        BY DEF Init
      <3>3. firstUnacknowledgedUpdated \in BOOLEAN /\ dirty \in BOOLEAN
        BY DEF Init
      <3> QED
        BY <3>1, <3>2, <3>3 DEF TypeOK
    <2>2. SenderOrder /\ ReceiverOrder
      BY DEF Init, SenderOrder, ReceiverOrder
    <2>3. PathLags /\ AckNotForgotten
      BY DEF Init, PathLags, AckNotForgotten
    <2>4. NoSegmentLost
      BY DEF Init, NoSegmentLost
    <2> QED
      BY <2>1, <2>2, <2>3, <2>4 DEF IInv
  <1> QED
    BY <1>1, StreamInductive, PTL DEF Spec

\* No stale acknowledgement or ping ever removes a segment the receiver lacks.
THEOREM KcpLosesNoSegment == Spec => []NoSegmentLost
  BY KcpSafety, PTL DEF IInv

\* No stale SendingNext ever removes an acknowledgement the sender waits for.
THEOREM KcpForgetsNoAck == Spec => []AckNotForgotten
  BY KcpSafety, PTL DEF IInv

\* Whatever is on the path is true when it arrives.
THEOREM KcpPathIsTruthful == Spec => []PathTruthful
  <1>1. IInv => PathTruthful
    <2> SUFFICES ASSUME IInv PROVE PathTruthful
      OBVIOUS
    <2> USE DEF IInv, TypeOK
    <2>1. \A next \in Nat : next <= firstUnacknowledged =>
            \A n \in 0..(next - 1) : Received(n) /\ n \notin window
      BY DEF SenderOrder, NoSegmentLost
    <2>2. \A seg \in dataNet : seg.sendingNext \in Nat
      BY DEF DataSegment
    <2> QED
      BY <2>1, <2>2 DEF PathLags, PathTruthful
  <1> QED
    BY <1>1, KcpSafety, PTL

\* The receiver buffers only what it advertised room for.
THEOREM KcpReceiverBounded == Spec => []ReceiverWindowBound
  <1>1. IInv => ReceiverWindowBound
    BY DEF IInv, TypeOK, ReceiverOrder, ReceiverWindowBound
  <1> QED
    BY <1>1, KcpSafety, PTL

\* Neither end nor the remote window moves back, whatever arrives late.
THEOREM KcpMovesForward == Spec => Forward
  <1>1. IInv /\ [Next]_vars => [/\ firstUnacknowledged' >= firstUnacknowledged
                                /\ receivedNext' >= receivedNext
                                /\ remoteNextNumber' >= remoteNextNumber]_vars
    <2> SUFFICES ASSUME IInv, Next
                 PROVE  /\ firstUnacknowledged' >= firstUnacknowledged
                        /\ receivedNext' >= receivedNext
                        /\ remoteNextNumber' >= remoteNextNumber
      OBVIOUS
    <2>0. /\ firstUnacknowledged \in Nat /\ receivedNext \in Nat /\ remoteNextNumber \in Nat
          /\ window \subseteq Nat /\ nextNumber \in Nat
      BY SizesAssumption DEF IInv, TypeOK
    <2>1. ASSUME window' \subseteq window, FindFirstUnacknowledged
          PROVE  firstUnacknowledged' >= firstUnacknowledged
      BY <2>0, <2>1 DEF FindFirstUnacknowledged, IInv, SenderOrder
    <2>2. ASSUME NEW seg \in ackNet, ProcessAck(seg)
          PROVE  /\ firstUnacknowledged' >= firstUnacknowledged
                 /\ receivedNext' >= receivedNext
                 /\ remoteNextNumber' >= remoteNextNumber
      <3>1. seg.receivingWindow \in Nat
        BY DEF IInv, TypeOK, AckSegment
      <3>2. window' \subseteq window
        BY <2>2 DEF ProcessAck, Unacknowledged
      <3> QED
        BY <2>0, <2>1, <2>2, <3>1, <3>2 DEF ProcessAck, receiver
    <2>3. ASSUME NEW next \in receivingNextNet, ProcessReceivingNext(next)
          PROVE  /\ firstUnacknowledged' >= firstUnacknowledged
                 /\ receivedNext' >= receivedNext
                 /\ remoteNextNumber' >= remoteNextNumber
      <3>1. window' \subseteq window
        BY <2>3 DEF ProcessReceivingNext, Unacknowledged
      <3> QED
        BY <2>0, <2>1, <2>3, <3>1 DEF ProcessReceivingNext, receiver
    <2>4. ASSUME NEW next \in 0..MaxNumber, ReadMultiBuffer(next)
          PROVE  /\ firstUnacknowledged' >= firstUnacknowledged
                 /\ receivedNext' >= receivedNext
                 /\ remoteNextNumber' >= remoteNextNumber
      BY <2>0, <2>4 DEF ReadMultiBuffer, sender
    <2>5. CASE UNCHANGED <<firstUnacknowledged, receivedNext, remoteNextNumber>>
      BY <2>0, <2>5
    <2> QED
      BY <2>2, <2>3, <2>4, <2>5
      DEF Next, sender, receiver, Push, FlushData, FlushEmpty, KeepAliveSender, ProcessData,
          ProcessSendingNext, FlushAcks, KeepAliveReceiver, LoseData, LoseAck
  <1> QED
    BY <1>1, KcpSafety, PTL DEF Spec, Forward
====
