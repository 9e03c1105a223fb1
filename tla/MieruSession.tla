---------------------------- MODULE MieruSession ----------------------------
(***************************************************************************)
(* proxy/mieru/mieru_session.go: the client's end of a Mieru connection.   *)
(* A goroutine reads segments from the server into recvQueue; Read takes   *)
(* all of them at once into unreadBuf and gives that out piece by piece.   *)
(* Write works on its own queue, cipher and sequence numbers, by one       *)
(* goroutine, and is left out.                                             *)
(*                                                                         *)
(* A byte is its number in the server's stream.  A segment is of one of    *)
(* three kinds: "head" is data that begins like an HTTP response, a TLS    *)
(* handshake record or a SOCKS5 reply, "data" any other data, "other" a    *)
(* segment of the session or ack protocols.  A segment that cannot be read *)
(* or decrypted ends the receiving goroutine.                              *)
(***************************************************************************)
EXTENDS Naturals, Sequences

CONSTANTS
    Sizes,         \* bytes in a segment of the server, 0 among them
    MaxBytes,      \* bound: bytes from the server
    MaxSegments,   \* bound: segments from the server
    ReadSize       \* the buffer given to Read

VARIABLES
    wire,          \* segments on the way from the server
    server,        \* "open", or "closed" when the server will send no more
    sent,          \* segments and bytes the server has sent
    heads,         \* the numbers of the bytes that begin a "head"
    conn,          \* s.conn is open
    recvQueue,     \* s.recvQueue
    recvDone,      \* s.recvDone is closed
    reader,        \* Read: "idle", "poll", "drain", "select", "eof"
    unreadBuf,     \* s.unreadBuf
    out            \* what Read has returned

vars == <<wire, server, sent, heads, conn, recvQueue, recvDone, reader, unreadBuf, out>>

Bytes(first, n) == [i \in 1..n |-> first + i]

\* After Handshake, which has sent the request to open the session and has started the
\* goroutine; it does not wait for the answer.
Init ==
    /\ wire = <<>> /\ server = "open" /\ sent = [segments |-> 0, bytes |-> 0] /\ heads = {}
    /\ conn = TRUE
    /\ recvQueue = <<>> /\ recvDone = FALSE
    /\ reader = "idle" /\ unreadBuf = <<>> /\ out = <<>>

-----------------------------------------------------------------------------
(* The server, external. *)

ServerSend(kind, n) ==
    /\ server = "open"
    /\ sent.segments < MaxSegments
    /\ sent.bytes + n <= MaxBytes
    /\ kind = "head" => n > 0
    /\ wire' = Append(wire, [kind |-> kind, payload |-> Bytes(sent.bytes, n)])
    /\ sent' = [segments |-> sent.segments + 1, bytes |-> sent.bytes + n]
    /\ heads' = IF kind = "head" THEN heads \cup {sent.bytes + 1} ELSE heads
    /\ UNCHANGED <<server, recvQueue, recvDone, reader, unreadBuf, out, conn>>

ServerClose ==
    /\ server = "open"
    /\ server' = "closed"
    /\ UNCHANGED <<wire, sent, heads, recvQueue, recvDone, reader, unreadBuf, out, conn>>

-----------------------------------------------------------------------------
(* receiveSegments. *)

ReceiveSegment ==
    /\ ~recvDone
    /\ conn
    /\ wire # <<>>
    /\ recvQueue' = Append(recvQueue, Head(wire))
    /\ wire' = Tail(wire)
    /\ UNCHANGED <<server, sent, heads, recvDone, reader, unreadBuf, out, conn>>

\* The server closed, the session was closed, or a segment cannot be read.
ReceiveEnd ==
    /\ ~recvDone
    /\ ~conn \/ wire # <<>> \/ server = "closed"
    /\ recvDone' = TRUE
    /\ UNCHANGED <<wire, server, sent, heads, recvQueue, reader, unreadBuf, out, conn>>

-----------------------------------------------------------------------------
(* Read. *)

\* Mutant: the part that was copied stays in the buffer.
CopyOutKeeps(buf) ==
    LET n == IF Len(buf) < ReadSize THEN Len(buf) ELSE ReadSize
    IN  /\ out' = out \o SubSeq(buf, 1, n)
        /\ unreadBuf' = IF n = Len(buf) THEN <<>> ELSE buf
        /\ reader' = "idle"

\* As much of the buffer as fits is returned, the rest is left for the next call.
CopyOut(buf) ==
    LET n == IF Len(buf) < ReadSize THEN Len(buf) ELSE ReadSize
    IN  /\ out' = out \o SubSeq(buf, 1, n)
        /\ unreadBuf' = SubSeq(buf, n + 1, Len(buf))
        /\ reader' = "idle"

Read ==
    /\ reader = "idle"
    /\ IF unreadBuf # <<>> THEN CopyOut(unreadBuf)
       ELSE reader' = "poll" /\ UNCHANGED <<unreadBuf, out>>
    /\ UNCHANGED <<wire, server, sent, heads, recvQueue, recvDone, conn>>

\* recvQueue.Len()
Poll ==
    /\ reader = "poll"
    /\ reader' = IF recvQueue # <<>> THEN "drain" ELSE "select"
    /\ UNCHANGED <<wire, server, sent, heads, recvQueue, recvDone, unreadBuf, out, conn>>

\* A head replaces what the same call has taken before it.
Handle(buf, seg) == IF seg.kind = "head" THEN seg.payload ELSE buf \o seg.payload

\* DeleteMin, until there is no segment left.
Drain ==
    /\ reader = "drain"
    /\ \/ /\ recvQueue # <<>>
          /\ unreadBuf' = Handle(unreadBuf, Head(recvQueue))
          /\ recvQueue' = Tail(recvQueue)
          /\ UNCHANGED <<reader, out>>
       \/ /\ recvQueue = <<>>
          /\ IF unreadBuf # <<>> THEN CopyOut(unreadBuf)
             ELSE reader' = "poll" /\ UNCHANGED <<unreadBuf, out>>
          /\ UNCHANGED recvQueue
    /\ UNCHANGED <<wire, server, sent, heads, recvDone, conn>>

\* Mutant: a closed channel with an empty queue is taken for more to come.
SelectDoneQueued ==
    /\ reader = "select"
    /\ recvDone /\ recvQueue # <<>>
    /\ reader' = "eof"
    /\ UNCHANGED <<wire, server, sent, heads, recvQueue, recvDone, unreadBuf, out, conn>>

\* The goroutine has ended: io.EOF, without another look at the queue.
SelectDone ==
    /\ reader = "select"
    /\ recvDone
    /\ reader' = "eof"
    /\ UNCHANGED <<wire, server, sent, heads, recvQueue, recvDone, unreadBuf, out, conn>>

\* 100 ms are over.  The timer of 30 s that the select also waits for is made anew in every
\* turn of the loop, so it never fires.
SelectAgain ==
    /\ reader = "select"
    /\ reader' = "poll"
    /\ UNCHANGED <<wire, server, sent, heads, recvQueue, recvDone, unreadBuf, out, conn>>

\* Close, by Process when either direction has failed or the context has ended.
Close ==
    /\ conn
    /\ conn' = FALSE
    /\ UNCHANGED <<wire, server, sent, heads, recvQueue, recvDone, reader, unreadBuf, out>>

Receive == ReceiveSegment \/ ReceiveEnd
ReadStep == Read \/ Poll \/ Drain \/ SelectAgain

Next ==
    \/ \E kind \in {"head", "data", "other"}, n \in Sizes : ServerSend(kind, n)
    \/ ServerClose
    \/ Receive
    \/ ReadStep \/ SelectDone
    \/ Close

Spec == Init /\ [][Next]_vars

\* The copying goroutine goes on reading, and the receiving one reads what arrives.  A
\* select whose channel is closed takes that case.  Neither the server nor the application
\* has to do anything.
Fairness == WF_vars(Receive) /\ WF_vars(ReadStep) /\ SF_vars(SelectDone)

FairSpec == Spec /\ Fairness

-----------------------------------------------------------------------------
\* What Read has returned and what it keeps, in this order, follows the stream of the
\* server: no byte comes twice or too early, also when the buffer is smaller than a segment
\* and segments arrive while Read empties the queue.  Bytes are missing only just before a
\* segment that looks like the beginning of HTTP, TLS or SOCKS5.
GapsEndAtHeads ==
    LET seen == <<0>> \o out \o unreadBuf
    IN  \A i \in 1..Len(seen) - 1 :
           /\ seen[i] < seen[i + 1]
           /\ seen[i] + 1 = seen[i + 1] \/ seen[i + 1] \in heads

\* "For TLS handshake, we need to ensure the complete record is transmitted"
\* (proxy/mieru/mieru_session.go:1147): a segment that begins such a record is not skipped
\* by what Read returns later.
CompleteRecords ==
    LET seen == <<0>> \o out \o unreadBuf
    IN  \A h \in heads, i \in 1..Len(seen) - 1 : ~(seen[i] < h /\ h < seen[i + 1])

\* Read does not wait with data at hand, however segments arrive while it looks at the
\* queue, and not for ever once the goroutine has ended: what has arrived is returned, or
\* Read returns io.EOF.
ReadProgress ==
    []<>((recvQueue = <<>> /\ unreadBuf = <<>> /\ ~recvDone) \/ reader = "eof")

=============================================================================
