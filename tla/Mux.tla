-------------------------------- MODULE Mux --------------------------------
(***************************************************************************)
(* One Mux.Cool connection of common/mux: a ClientWorker and a             *)
(* ServerWorker that carry many sessions over one pair of links.           *)
(*                                                                         *)
(* Both workers are built of the same parts, so the state is indexed by    *)
(* side.  On each side there is                                            *)
(*   - a SessionManager, the table of live sessions (sm);                  *)
(*   - per session a goroutine that copies the local user's data onto the  *)
(*     link as frames: fetchInput on the client, handle on the server      *)
(*     (copier, with the error flag of its Writer in hasError);            *)
(*   - one loop that reads the peer's frames and writes their payload to   *)
(*     the sessions: fetchOutput on the client, run on the server (loop).  *)
(* inp[s][i] and out[s][i] are the two pipes of session i at side s, input *)
(* and output of the Session struct; a pipe is used here through what      *)
(* module Pipe shows of it: FIFO, Close lets the reader drain, Interrupt   *)
(* drops, both are final and a write after either fails.                   *)
(* link[s] is everything between the writer of side s and the loop of the  *)
(* other side: a pipe, the proxy's connection, a pipe.                     *)
(***************************************************************************)
EXTENDS Naturals, Sequences, FiniteSets

CONSTANTS
    Callers,          \* goroutines that call ClientWorker.Dispatch, once each
    MaxConcurrency,   \* ClientStrategy; 0 is "no limit"
    MaxConnection,
    LinkCap,          \* frames a link holds before its writers block
    OutCap,           \* chunks a session's output holds before writers block
    UpChunks,         \* bound: chunks the client's user sends in one session
    DownChunks,       \* bound: the same for the server's user
    MayAbort,         \* bound: may a user interrupt its link?
    MayFail           \* bound: may the connection or a dispatch fail?

ASSUME MuxAssumption ==
    /\ IsFiniteSet(Callers)
    /\ {MaxConcurrency, MaxConnection, UpChunks, DownChunks} \subseteq Nat
    /\ {LinkCap, OutCap} \subseteq Nat \ {0}
    /\ {MayAbort, MayFail} \subseteq BOOLEAN

VARIABLES
    caller,     \* caller[c]: where the call of Dispatch stands, and its session
    sm,         \* sm[s]: SessionManager of side s
    done,       \* ClientWorker.done
    monitor,    \* ClientWorker.monitor
    copier,     \* copier[s][i]: program counter of fetchInput / handle
    hasError,   \* hasError[s][i]: Writer.hasError of that goroutine
    loop,       \* loop[s]: fetchOutput / run, with the frame in its hands
    inp, out,   \* the two pipes of each session
    link        \* link[s]: the frames side s has written and not yet seen read

vars == <<caller, sm, done, monitor, copier, hasError, loop, inp, out, link>>

Sides == {"client", "server"}
Peer(s) == IF s = "client" THEN "server" ELSE "client"
Ids == 1..Cardinality(Callers)

NoData == <<>>
Frame(i, status, data, err) ==
    [id |-> i, status |-> status, data |-> data, err |-> err]
\* A chunk names the session and the side it comes from, so that mixing shows.
Chunk(s, i, n) == <<s, i, n>>
NoFrame == Frame(0, "none", NoData, FALSE)

-----------------------------------------------------------------------------
(* Pipes, as module Pipe describes them. *)

Close(p) == IF p.st = "open" THEN [p EXCEPT !.st = "closed"] ELSE p
Interrupt(p) == IF p.st = "open" THEN [p EXCEPT !.st = "errored"] ELSE p

\* Interrupt of a link also drops what it holds.
Break(l) == IF l.st = "open" THEN [q |-> <<>>, st |-> "errored"] ELSE l

\* A write to a link returns: at once if the pipe is closed, else when it fits.
CanWrite(l) == l.st # "open" \/ Len(l.q) < LinkCap
Put(l, f) == IF l.st = "open" THEN [l EXCEPT !.q = Append(@, f)] ELSE l

NewInput == [sent |-> 0, taken |-> 0, st |-> "open"]
NewOutput == [got |-> <<>>, read |-> 0, st |-> "open"]

-----------------------------------------------------------------------------
(* SessionManager. *)

Found(s, i) == ~ sm[s].closed /\ i \in sm[s].sessions

Size == Cardinality(sm["client"].sessions)

Removed(m, i) == IF m.closed THEN m ELSE [m EXCEPT !.sessions = @ \ {i}]

\* SessionManager.Close, the part on the table itself.
ManagerClosed(m) == IF m.closed THEN m ELSE [m EXCEPT !.closed = TRUE, !.sessions = {}]

\* Mutant: the table is dropped and the sessions in it are not closed.
OutputsLeftOpen(s) == out[s]

\* SessionManager.Close, the part on the sessions: their outputs are closed.
\* Close of an input is a call of common.Close on a pipe.Reader, which has no
\* Close method: nothing happens.  A session that Dispatch has allocated and
\* not yet given its link has no output to close.
OutputsClosed(s) ==
    IF sm[s].closed THEN out[s]
    ELSE [i \in Ids |-> IF i \in sm[s].sessions /\ copier[s][i] # "none"
                        THEN Close(out[s][i]) ELSE out[s][i]]

\* Mutant: the session leaves the table with its output open.
SessionCloseLeavesOutput(s, i) ==
    /\ UNCHANGED out
    /\ sm' = [sm EXCEPT ![s] = Removed(@, i)]

\* Session.Close: the output is closed, Close of the input does nothing, and
\* the session leaves the table.
SessionClose(s, i) ==
    /\ out' = [out EXCEPT ![s][i] = Close(@)]
    /\ sm' = [sm EXCEPT ![s] = Removed(@, i)]

-----------------------------------------------------------------------------
Init ==
    /\ caller = [c \in Callers |-> [pc |-> "idle", id |-> 0]]
    /\ sm = [s \in Sides |-> [count |-> 0, closed |-> FALSE, sessions |-> {}]]
    /\ done = FALSE
    /\ monitor = "wait"
    /\ copier = [s \in Sides |-> [i \in Ids |-> "none"]]
    /\ hasError = [s \in Sides |-> [i \in Ids |-> FALSE]]
    /\ loop = [s \in Sides |-> [pc |-> "read", f |-> NoFrame]]
    /\ inp = [s \in Sides |-> [i \in Ids |-> NewInput]]
    /\ out = [s \in Sides |-> [i \in Ids |-> NewOutput]]
    /\ link = [s \in Sides |-> [q |-> <<>>, st |-> "open"]]

-----------------------------------------------------------------------------
(* ClientWorker.Dispatch.  IsFull, Allocate and the assignment of the link *)
(* take the manager's lock separately or not at all.                       *)

IsClosing == MaxConnection > 0 /\ sm["client"].count >= MaxConnection

IsFull ==
    \/ IsClosing
    \/ done
    \/ MaxConcurrency > 0 /\ Size >= MaxConcurrency

DispatchCheck(c) ==
    /\ caller[c].pc = "idle"
    /\ caller' = [caller EXCEPT ![c].pc = IF IsFull THEN "refused" ELSE "checked"]
    /\ UNCHANGED <<sm, done, monitor, copier, hasError, loop, inp, out, link>>

DispatchAllocate(c) ==
    /\ caller[c].pc = "checked"
    /\ IF sm["client"].closed
       THEN /\ caller' = [caller EXCEPT ![c].pc = "refused"]
            /\ UNCHANGED sm
       ELSE LET i == sm["client"].count + 1
            IN /\ caller' = [caller EXCEPT ![c] = [pc |-> "allocated", id |-> i]]
               /\ sm' = [sm EXCEPT !["client"].count = i,
                                   !["client"].sessions = @ \cup {i}]
    /\ UNCHANGED <<done, monitor, copier, hasError, loop, inp, out, link>>

DispatchLink(c) ==
    /\ caller[c].pc = "allocated"
    /\ caller' = [caller EXCEPT ![c].pc = "dispatched"]
    /\ copier' = [copier EXCEPT !["client"][caller[c].id] = "first"]
    /\ UNCHANGED <<sm, done, monitor, hasError, loop, inp, out, link>>

-----------------------------------------------------------------------------
(* fetchInput on the client and handle on the server. *)

\* writeFirstPayload: the first frame of a session is New, with the data that
\* comes within 100 ms or without data; an input that is already at its end
\* fails the session before any New frame.
FirstPayload(i) ==
    LET in == inp["client"][i] IN
    /\ copier["client"][i] = "first"
    /\ \/ /\ in.st # "errored" /\ in.taken < in.sent
          /\ inp' = [inp EXCEPT !["client"][i].taken = @ + 1]
          /\ copier' = [copier EXCEPT !["client"][i] = "sendnew"]
          /\ UNCHANGED hasError
       \/ /\ in.st = "open" /\ in.taken = in.sent
          /\ copier' = [copier EXCEPT !["client"][i] = "sendnew"]
          /\ UNCHANGED <<inp, hasError>>
       \/ /\ in.st = "errored" \/ (in.st = "closed" /\ in.taken = in.sent)
          /\ hasError' = [hasError EXCEPT !["client"][i] = TRUE]
          /\ inp' = [inp EXCEPT !["client"][i] = Interrupt(@)]
          /\ copier' = [copier EXCEPT !["client"][i] = "end"]
    /\ UNCHANGED <<caller, sm, done, monitor, loop, out, link>>

\* Mutant: a closed input ends the copy before what it holds has been read.
CopyReadDropsTail(s, i) ==
    LET in == inp[s][i] IN
    /\ copier[s][i] = "copy"
    /\ \/ /\ in.st = "open" /\ in.taken < in.sent
          /\ inp' = [inp EXCEPT ![s][i].taken = @ + 1]
          /\ copier' = [copier EXCEPT ![s][i] = "sendkeep"]
          /\ UNCHANGED hasError
       \/ /\ in.st # "open"
          /\ hasError' = [hasError EXCEPT ![s][i] = in.st = "errored"]
          /\ copier' = [copier EXCEPT ![s][i] = "end"]
          /\ UNCHANGED inp
    /\ UNCHANGED <<caller, sm, done, monitor, loop, out, link>>

\* buf.Copy: a read of the input ...
CopyRead(s, i) ==
    LET in == inp[s][i] IN
    /\ copier[s][i] = "copy"
    /\ \/ /\ in.st # "errored" /\ in.taken < in.sent
          /\ inp' = [inp EXCEPT ![s][i].taken = @ + 1]
          /\ copier' = [copier EXCEPT ![s][i] = "sendkeep"]
          /\ UNCHANGED hasError
       \/ /\ in.st = "errored" \/ (in.st = "closed" /\ in.taken = in.sent)
          /\ hasError' = [hasError EXCEPT ![s][i] = in.st = "errored"]
          /\ copier' = [copier EXCEPT ![s][i] = "end"]
          /\ UNCHANGED inp
    /\ UNCHANGED <<caller, sm, done, monitor, loop, out, link>>

\* getNextFrameMeta: New for the first frame of a client's Writer, Keep then;
\* a frame of a session holds the chunk read last, or nothing.
NextFrame(s, i) ==
    Frame(i,
          IF copier[s][i] = "sendnew" THEN "new" ELSE "keep",
          IF inp[s][i].taken = 0 THEN NoData ELSE Chunk(s, i, inp[s][i].taken),
          FALSE)

\* ... and a write of what it gave to the link, which blocks while that is full.
\* Only fetchInput interrupts its input when the link refuses the frame.
CopyWrite(s, i) ==
    /\ copier[s][i] \in {"sendnew", "sendkeep"}
    /\ CanWrite(link[s])
    /\ link' = [link EXCEPT ![s] = Put(@, NextFrame(s, i))]
    /\ IF link[s].st = "open"
       THEN /\ copier' = [copier EXCEPT ![s][i] = "copy"]
            /\ UNCHANGED <<hasError, inp>>
       ELSE /\ copier' = [copier EXCEPT ![s][i] = "end"]
            /\ hasError' = [hasError EXCEPT ![s][i] = TRUE]
            /\ inp' = IF s = "client" THEN [inp EXCEPT ![s][i] = Interrupt(@)] ELSE inp
    /\ UNCHANGED <<caller, sm, done, monitor, loop, out>>

\* Writer.Close: the End frame.
CopyEnd(s, i) ==
    /\ copier[s][i] = "end"
    /\ CanWrite(link[s])
    /\ link' = [link EXCEPT ![s] = Put(@, Frame(i, "end", NoData, hasError[s][i]))]
    /\ copier' = [copier EXCEPT ![s][i] = "close"]
    /\ UNCHANGED <<caller, sm, done, monitor, hasError, loop, inp, out>>

\* Session.Close at the end of fetchInput and of handle.
CopyClose(s, i) ==
    /\ copier[s][i] = "close"
    /\ SessionClose(s, i)
    /\ copier' = [copier EXCEPT ![s][i] = "gone"]
    /\ UNCHANGED <<caller, done, monitor, hasError, loop, inp, link>>

-----------------------------------------------------------------------------
(* fetchOutput and run: one frame at a time. *)

\* Unmarshal of the next frame, and what its handler does before it blocks.
\* (The frame is out of the link from here on.)
Head1(s) == Head(link[Peer(s)].q)
Take(s) == link' = [link EXCEPT ![Peer(s)].q = Tail(@)]

LoopReady(s, status) ==
    /\ loop[s].pc = "read"
    /\ link[Peer(s)].q # <<>>
    /\ Head1(s).status = status

\* Mutant: the data in a New frame is skipped.
HandleNewSkipsData ==
    LET f == Head1("server") IN
    /\ LoopReady("server", "new")
    /\ Take("server")
    /\ sm' = [sm EXCEPT !["server"].count = @ + 1, !["server"].sessions = @ \cup {f.id}]
    /\ copier' = [copier EXCEPT !["server"][f.id] = "copy"]
    /\ UNCHANGED <<caller, done, monitor, hasError, loop, inp, out>>

\* handleStatusNew of the server: Dispatch gives the session its link, Add
\* enters it and handle starts; data in the frame is written to the output.
HandleNew ==
    LET f == Head1("server") IN
    /\ LoopReady("server", "new")
    /\ Take("server")
    /\ sm' = [sm EXCEPT !["server"].count = @ + 1, !["server"].sessions = @ \cup {f.id}]
    /\ copier' = [copier EXCEPT !["server"][f.id] = "copy"]
    /\ loop' = [loop EXCEPT !["server"] =
                    [pc |-> IF f.data = NoData THEN "read" ELSE "write", f |-> f]]
    /\ UNCHANGED <<caller, done, monitor, hasError, inp, out>>

\* handleStatusNew when Dispatch fails: run interrupts its reader, closes the
\* manager and returns.
HandleNewFails ==
    /\ MayFail
    /\ LoopReady("server", "new")
    /\ link' = [link EXCEPT !["client"] = Break([q |-> Tail(@.q), st |-> @.st])]
    /\ loop' = [loop EXCEPT !["server"] = [pc |-> "gone", f |-> NoFrame]]
    /\ out' = [out EXCEPT !["server"] = OutputsClosed("server")]
    /\ sm' = [sm EXCEPT !["server"] = ManagerClosed(@)]
    /\ UNCHANGED <<caller, done, monitor, copier, hasError, inp>>

\* handleStatusKeep: the session is looked up, then its output is written; a
\* frame of an unknown session is answered with an End frame.
HandleKeep(s) ==
    LET f == Head1(s) IN
    /\ LoopReady(s, "keep")
    /\ Take(s)
    /\ loop' = [loop EXCEPT ![s] =
                    [pc |-> IF Found(s, f.id) THEN "write" ELSE "reply", f |-> f]]
    /\ UNCHANGED <<caller, sm, done, monitor, copier, hasError, inp, out>>

\* Mutant: the session is not closed.
HandleEndLeavesSession(s) ==
    LET f == Head1(s) IN
    /\ LoopReady(s, "end")
    /\ Take(s)
    /\ IF Found(s, f.id) /\ f.err
       THEN /\ inp' = [inp EXCEPT ![s][f.id] = Interrupt(@)]
            /\ out' = [out EXCEPT ![s][f.id] = Interrupt(@)]
       ELSE UNCHANGED <<inp, out>>
    /\ UNCHANGED <<caller, sm, done, monitor, copier, hasError, loop>>

\* handleStatusEnd.
HandleEnd(s) ==
    LET f == Head1(s) IN
    /\ LoopReady(s, "end")
    /\ Take(s)
    /\ IF Found(s, f.id)
       THEN /\ inp' = IF f.err THEN [inp EXCEPT ![s][f.id] = Interrupt(@)] ELSE inp
            /\ out' = [out EXCEPT ![s][f.id] = IF f.err THEN Interrupt(@) ELSE Close(@)]
            /\ sm' = [sm EXCEPT ![s] = Removed(@, f.id)]
       ELSE UNCHANGED <<inp, out, sm>>
    /\ UNCHANGED <<caller, done, monitor, copier, hasError, loop>>

\* buf.Copy of the payload to the session's output: blocks while that is full.
\* If the output refuses it, a Keep frame is answered with an End frame; a New
\* frame is not, the session is just closed.
LoopWrite(s) ==
    LET f == loop[s].f
        o == out[s][f.id] IN
    /\ loop[s].pc = "write"
    /\ \/ /\ o.st = "open" /\ Len(o.got) - o.read < OutCap
          /\ out' = [out EXCEPT ![s][f.id].got = Append(@, f.data)]
          /\ loop' = [loop EXCEPT ![s] = [pc |-> "read", f |-> NoFrame]]
          /\ UNCHANGED <<sm, inp>>
       \/ /\ o.st # "open" /\ f.status = "keep"
          /\ loop' = [loop EXCEPT ![s].pc = "replyclose"]
          /\ UNCHANGED <<sm, inp, out>>
       \/ /\ o.st # "open" /\ f.status = "new"
          /\ inp' = [inp EXCEPT ![s][f.id] = Interrupt(@)]
          /\ SessionClose(s, f.id)
          /\ loop' = [loop EXCEPT ![s] = [pc |-> "read", f |-> NoFrame]]
    /\ UNCHANGED <<caller, done, monitor, copier, hasError, link>>

\* closingWriter.Close, from the loop itself: blocks while the link is full.
LoopReply(s) ==
    LET f == loop[s].f IN
    /\ loop[s].pc \in {"reply", "replyclose"}
    /\ CanWrite(link[s])
    /\ link' = [link EXCEPT ![s] = Put(@, Frame(f.id, "end", NoData, FALSE))]
    /\ IF loop[s].pc = "replyclose"
       THEN /\ inp' = [inp EXCEPT ![s][f.id] = Interrupt(@)]
            /\ SessionClose(s, f.id)
       ELSE UNCHANGED <<inp, out, sm>>
    /\ loop' = [loop EXCEPT ![s] = [pc |-> "read", f |-> NoFrame]]
    /\ UNCHANGED <<caller, done, monitor, copier, hasError>>

LinkEnded(l) == l.q = <<>> /\ l.st # "open"

\* fetchOutput returns: the worker is done.
FetchOutputEnds ==
    /\ loop["client"].pc = "read" /\ LinkEnded(link["server"])
    /\ loop' = [loop EXCEPT !["client"] = [pc |-> "gone", f |-> NoFrame]]
    /\ done' = TRUE
    /\ UNCHANGED <<caller, sm, monitor, copier, hasError, inp, out, link>>

\* run returns: the manager is closed, and with it every output.
RunEnds ==
    /\ loop["server"].pc = "read" /\ LinkEnded(link["client"])
    /\ loop' = [loop EXCEPT !["server"] = [pc |-> "gone", f |-> NoFrame]]
    /\ out' = [out EXCEPT !["server"] = OutputsClosed("server")]
    /\ sm' = [sm EXCEPT !["server"] = ManagerClosed(@)]
    /\ UNCHANGED <<caller, done, monitor, copier, hasError, inp, link>>

-----------------------------------------------------------------------------
(* ClientWorker.monitor: every 16 s it looks whether the worker is idle. *)

MonitorSize ==
    /\ monitor = "wait" /\ Size = 0
    /\ monitor' = "sized"
    /\ UNCHANGED <<caller, sm, done, copier, hasError, loop, inp, out, link>>

\* Mutant: the size read before is trusted.
MonitorCloseUnchecked ==
    /\ monitor = "sized"
    /\ sm' = [sm EXCEPT !["client"].closed = TRUE]
    /\ done' = TRUE
    /\ monitor' = "wait"
    /\ UNCHANGED <<caller, copier, hasError, loop, inp, out, link>>

\* SessionManager.CloseIfNoSession, and done.Close when it agrees.
MonitorClose ==
    /\ monitor = "sized"
    /\ IF sm["client"].closed \/ sm["client"].sessions = {}
       THEN sm' = [sm EXCEPT !["client"].closed = TRUE] /\ done' = TRUE
       ELSE UNCHANGED <<sm, done>>
    /\ monitor' = "wait"
    /\ UNCHANGED <<caller, copier, hasError, loop, inp, out, link>>

MonitorDone ==
    /\ monitor = "wait" /\ done
    /\ out' = [out EXCEPT !["client"] = OutputsClosed("client")]
    /\ sm' = [sm EXCEPT !["client"] = ManagerClosed(@)]
    /\ monitor' = "links"
    /\ UNCHANGED <<caller, done, copier, hasError, loop, inp, link>>

MonitorLinks ==
    /\ monitor = "links"
    /\ link' = [link EXCEPT !["client"] = Close(@), !["server"] = Break(@)]
    /\ monitor' = "gone"
    /\ UNCHANGED <<caller, sm, done, copier, hasError, loop, inp, out>>

-----------------------------------------------------------------------------
(* The users of the sessions and the connection: code outside this package. *)

Exists(s, i) ==
    IF s = "client" THEN \E c \in Callers : caller[c].id = i ELSE copier[s][i] # "none"

MaxChunks(s) == IF s = "client" THEN UpChunks ELSE DownChunks

UserSend(s, i) ==
    /\ Exists(s, i)
    /\ inp[s][i].st = "open" /\ inp[s][i].sent < MaxChunks(s)
    /\ inp' = [inp EXCEPT ![s][i].sent = @ + 1]
    /\ UNCHANGED <<caller, sm, done, monitor, copier, hasError, loop, out, link>>

UserClose(s, i) ==
    /\ Exists(s, i)
    /\ inp[s][i].st = "open"
    /\ inp' = [inp EXCEPT ![s][i] = Close(@)]
    /\ UNCHANGED <<caller, sm, done, monitor, copier, hasError, loop, out, link>>

UserAbort(s, i) ==
    /\ MayAbort
    /\ Exists(s, i)
    /\ "open" \in {inp[s][i].st, out[s][i].st}
    /\ inp' = [inp EXCEPT ![s][i] = Interrupt(@)]
    /\ out' = [out EXCEPT ![s][i] = Interrupt(@)]
    /\ UNCHANGED <<caller, sm, done, monitor, copier, hasError, loop, link>>

UserRead(s, i) ==
    /\ out[s][i].st # "errored" /\ out[s][i].read < Len(out[s][i].got)
    /\ out' = [out EXCEPT ![s][i].read = @ + 1]
    /\ UNCHANGED <<caller, sm, done, monitor, copier, hasError, loop, inp, link>>

\* The proxy's connection goes away: by a failure, or because one worker has
\* given up its end.  Both links are interrupted.
ConnectionEnds ==
    /\ \/ MayFail
       \/ link["client"].st # "open" /\ link["client"].q = <<>>
    /\ \E s \in Sides : link[s].st = "open" \/ link[s].q # <<>>
    /\ link' = [s \in Sides |-> [q |-> <<>>, st |-> "errored"]]
    /\ UNCHANGED <<caller, sm, done, monitor, copier, hasError, loop, inp, out>>

\* The goroutine of Create closes done when Process returns, whatever fetchOutput is at.
ProcessReturns ==
    /\ ~ done
    /\ \A s \in Sides : link[s].st = "errored"
    /\ done' = TRUE
    /\ UNCHANGED <<caller, sm, monitor, copier, hasError, loop, inp, out, link>>

-----------------------------------------------------------------------------
(* One disjunct per goroutine. *)
Dispatch(c) == DispatchCheck(c) \/ DispatchAllocate(c) \/ DispatchLink(c)

Copier(s, i) ==
    \/ s = "client" /\ FirstPayload(i)
    \/ CopyRead(s, i) \/ CopyWrite(s, i) \/ CopyEnd(s, i) \/ CopyClose(s, i)

Loop(s) ==
    \/ HandleKeep(s) \/ HandleEnd(s) \/ LoopWrite(s) \/ LoopReply(s)
    \/ s = "client" /\ FetchOutputEnds
    \/ s = "server" /\ (HandleNew \/ HandleNewFails \/ RunEnds)

Monitor == MonitorSize \/ MonitorClose \/ MonitorDone \/ MonitorLinks

User(s, i) == UserSend(s, i) \/ UserClose(s, i) \/ UserAbort(s, i) \/ UserRead(s, i)

Next ==
    \/ \E c \in Callers : Dispatch(c)
    \/ \E s \in Sides : Loop(s) \/ \E i \in Ids : Copier(s, i) \/ User(s, i)
    \/ Monitor
    \/ ConnectionEnds \/ ProcessReturns

Spec == Init /\ [][Next]_vars

(* Goroutines of the package that can run do run.  Of the users it is      *)
(* assumed that they read what they are given, that the server's user ends *)
(* its stream some day and that the client's user ends its own once it has *)
(* been told that the other direction is over, as the timeouts of the      *)
(* proxies make them; a connection that a worker has given up ends.        *)
Fairness ==
    /\ \A c \in Callers : WF_vars(DispatchAllocate(c) \/ DispatchLink(c))
    /\ \A s \in Sides :
          /\ WF_vars(Loop(s))
          /\ \A i \in Ids :
                /\ WF_vars(Copier(s, i)) /\ WF_vars(UserRead(s, i))
                /\ WF_vars(UserClose(s, i) /\ (s = "client" => out[s][i].st # "open"))
    /\ WF_vars(Monitor)
    /\ WF_vars(ConnectionEnds /\ link["client"].st # "open")

FairSpec == Spec /\ Fairness

-----------------------------------------------------------------------------
(* Properties. *)

\* What a session's output has been given at one side is what the session's
\* user sent at the other, in order, without a gap and without anything of
\* another session.
SessionIntegrity ==
    \A s \in Sides, i \in Ids :
        LET got == out[Peer(s)][i].got IN
        /\ got = [n \in 1..Len(got) |-> Chunk(s, i, n)]
        /\ Len(got) <= inp[s][i].taken

\* A session that ends because the peer ended it, not because this side's own
\* copying goroutine or worker finished, has received everything the peer's
\* user sent, unless that user interrupted one of its two pipes.  (Either one:
\* an output that refuses a frame makes handleStatusKeep send an End frame that
\* overtakes the data still on its way through the input.)
CleanEndIsComplete ==
    \A s \in Sides, i \in Ids :
        /\ out[s][i].st = "closed"
        /\ copier[s][i] \notin {"none", "gone"}
        /\ ~ sm[s].closed
        => \/ "errored" \in {inp[Peer(s)][i].st, out[Peer(s)][i].st}
           \/ /\ inp[Peer(s)][i].st = "closed"
              /\ Len(out[s][i].got) = inp[Peer(s)][i].sent

\* While a worker is at work, every session whose output is open is in its
\* table, where an End frame or the worker's own end will find it.
OpenIsKnown ==
    \A s \in Sides, i \in Ids :
        /\ copier[s][i] # "none"
        /\ out[s][i].st = "open"
        /\ ~ (s = "client" /\ done)
        => Found(s, i)

\* The monitor gives the worker up only when no session uses it: no call of
\* Dispatch holds a session without a link yet, no session waits for data.
IdleCloseStrandsNobody ==
    [][ ~ sm["client"].closed /\ sm'["client"].closed /\ monitor = "sized"
        => \A c \in Callers :
              /\ caller[c].pc # "allocated"
              /\ caller[c].pc = "dispatched" => out["client"][caller[c].id].st # "open" ]_vars

\* When the worker is done, every session that had its link by then gets its
\* output closed, so that its user learns of it.
DoneClosesSessions ==
    \A i \in Ids :
        [](copier["client"][i] # "none" /\ ~ done
           => [](done => <>(out["client"][i].st # "open")))

\* Each loop waits to answer with an End frame for room that only the other makes.
LoopsBlocked ==
    \A s \in Sides : loop[s].pc \in {"reply", "replyclose"} /\ ~ CanWrite(link[s])

\* Every session comes to an end, and its two copying goroutines with it,
\* however its users, the peer and the connection end it, if it had its link
\* before the worker was done.  The only obstacle is that both loops block on
\* full links.
SessionsFinish ==
    \A i \in Ids :
        copier["client"][i] # "none" /\ ~ done
          ~> \/ copier["client"][i] = "gone" /\ copier["server"][i] \in {"none", "gone"}
             \/ LoopsBlocked
=============================================================================
