---- MODULE KcpState ----
(***************************************************************************)
(* transport/internet/kcp, the life of one Connection: the state field and *)
(* the goroutines that read it, decide, and set it without a lock between: *)
(* the user's Close and Write, Input from the UDP socket, and flush from   *)
(* the data updater and the ping updater.  The peer may send any legal     *)
(* segment at any time and may vanish at any time.                         *)
(*                                                                         *)
(* Time: age and idle are the milliseconds since stateBeginTime and        *)
(* lastIncomingTime, kept up to Forever; a flush goes on with the time it  *)
(* took (Elapsed) while the clock moves by up to MaxLag.  Each atomic load,  *)
(* with the test on it, is an action, and so is the store of the state;    *)
(* the rest of SetState follows it within the same millisecond.            *)
(***************************************************************************)
EXTENDS Integers

CONSTANTS Flushers,   \* updaters running flush: the ping updater, or both
          PingUpdater,
          IdleTimeout, ReadyTimeout, TerminatingTimeout, PeerTerminatingTimeout,
          Modulus,    \* 2^32: times are uint32
          MaxLag,     \* bound: how long one flush may take
          Forever     \* bound: ages are not told apart beyond this

ASSUME TimeAssumption ==
  /\ PingUpdater \in Flushers
  /\ {IdleTimeout, ReadyTimeout, TerminatingTimeout, PeerTerminatingTimeout} \subseteq 1..(Forever - MaxLag - 1)
  /\ MaxLag \in Nat /\ Modulus > 2 * Forever

VARIABLES state, age, idle,   \* Connection.state, stateBeginTime, lastIncomingTime
          pending,            \* the sending window is not empty
          terminate, released,\* Terminate() spawned, Terminate() has run
          pc, target, cont,   \* per goroutine: control, SetState's argument, where it returns
          lag,                \* per flusher: the age of its `current`
          msg,                \* the segment Input is handling
          closed              \* Close() has returned

conn == <<state, age, idle, pending, terminate, released>>
vars == <<conn, pc, target, cont, lag, msg, closed>>

User == "user"
Writer == "writer"
Reader == "reader"      \* the goroutine that calls Input
Goroutines == {User, Writer, Reader} \cup Flushers

State == {"Active", "ReadyToClose", "PeerClosed", "Terminating", "PeerTerminating", "Terminated"}
Segment == [close : BOOLEAN, kind : {"ack", "terminate"}]
NoSegment == [close |-> FALSE, kind |-> "none"]

Init ==
  /\ state = "Active" /\ age = 0 /\ idle = 0 /\ pending = FALSE
  /\ terminate = FALSE /\ released = FALSE /\ closed = FALSE
  /\ pc = [g \in Goroutines |-> "idle"]
  /\ target = [g \in Goroutines |-> "Active"]
  /\ cont = [g \in Goroutines |-> "idle"]
  /\ lag = [f \in Flushers |-> 0]
  /\ msg = NoSegment

----------------------------------------------------------------------------
Goto(g, l) == pc' = [pc EXCEPT ![g] = l]

\* Call SetState(s) and go on at l.
Call(g, s, l) ==
  /\ Goto(g, "store")
  /\ target' = [target EXCEPT ![g] = s]
  /\ cont' = [cont EXCEPT ![g] = l]

Skip(g, l) == Goto(g, l) /\ UNCHANGED <<target, cont>>

\* g decided on the state it read: set `to[state]`, or leave the state alone.
Decide(g, to, l) ==
  IF state \in DOMAIN to THEN Call(g, to[state], l) ELSE Skip(g, l)

\* current - t for a time t that is x old and a current that is y old.
Since(x, y) == (x - y) % Modulus

\* Only flush reads lastIncomingTime, and only of an Active connection; idle is
\* not counted beyond that.
IdleIsRead == state = "Active" \/ \E f \in Flushers : pc[f] = "idleTime"

Tick ==
  /\ \A g \in Goroutines : pc[g] # "finish"
  /\ \A f \in Flushers : pc[f] # "idle" => lag[f] < MaxLag
  /\ age' = IF age < Forever THEN age + 1 ELSE age
  /\ idle' = IF ~IdleIsRead THEN 0 ELSE IF idle < Forever THEN idle + 1 ELSE idle
  /\ lag' = [f \in Flushers |-> IF pc[f] = "idle" THEN 0 ELSE lag[f] + 1]
  /\ UNCHANGED <<state, pending, terminate, released, pc, target, cont, msg, closed>>

----------------------------------------------------------------------------
(* SetState *)

StoreState(g) ==
  /\ pc[g] = "store"
  /\ state' = target[g]
  /\ Goto(g, "finish")
  /\ UNCHANGED <<age, idle, pending, terminate, released, target, cont, lag, msg, closed>>

FinishSetState(g) ==
  /\ pc[g] = "finish"
  /\ age' = 0
  /\ pending' = (pending /\ target[g] = "ReadyToClose")
  /\ terminate' = (terminate \/ target[g] = "Terminated")
  /\ Goto(g, cont[g])
  /\ target' = [target EXCEPT ![g] = "Active"]
  /\ cont' = [cont EXCEPT ![g] = "idle"]
  /\ UNCHANGED <<state, idle, released, lag, msg, closed>>

\* The goroutine SetState(StateTerminated) starts.
Terminate ==
  /\ terminate /\ ~released
  /\ released' = TRUE /\ pending' = FALSE
  /\ UNCHANGED <<state, age, idle, terminate, pc, target, cont, lag, msg, closed>>

----------------------------------------------------------------------------
(* Close, called by the user and by flush *)

CloseTo == [s \in {"Active", "PeerClosed", "PeerTerminating"} |->
              CASE s = "Active" -> "ReadyToClose"
                [] s = "PeerClosed" -> "Terminating"
                [] s = "PeerTerminating" -> "Terminated"]

UserClose ==
  /\ pc[User] = "idle" /\ ~closed
  /\ Decide(User, CloseTo, "closed")
  /\ UNCHANGED <<conn, lag, msg, closed>>

UserCloseReturn ==
  /\ pc[User] = "closed"
  /\ closed' = TRUE
  /\ Goto(User, "idle")
  /\ UNCHANGED <<conn, target, cont, lag, msg>>

(* Write: the state is checked, then a segment is pushed. *)

WriteCheck ==
  /\ pc[Writer] = "idle" /\ state = "Active"
  /\ Goto(Writer, "push")
  /\ UNCHANGED <<conn, target, cont, lag, msg, closed>>

\* SendingWorker.Push refuses once the worker was released.
WritePush ==
  /\ pc[Writer] = "push"
  /\ pending' = ~released
  /\ Goto(Writer, "idle")
  /\ UNCHANGED <<state, age, idle, terminate, released, target, cont, lag, msg, closed>>

----------------------------------------------------------------------------
(* Input *)

InputBegin(m) ==
  /\ pc[Reader] = "idle"
  /\ msg' = m
  /\ idle' = 0
  /\ Goto(Reader, IF m.close THEN "option" ELSE "command")
  /\ UNCHANGED <<state, age, pending, terminate, released, target, cont, lag, closed>>

\* HandleOption and OnPeerClosed
InputOption ==
  /\ pc[Reader] = "option"
  /\ Decide(Reader, [s \in {"ReadyToClose", "Active"} |->
                       IF s = "Active" THEN "PeerClosed" ELSE "Terminating"], "command")
  /\ UNCHANGED <<conn, lag, msg, closed>>

InputTerminateTo ==
  [s \in {"Active", "PeerClosed", "ReadyToClose", "Terminating"} |->
     CASE s \in {"Active", "PeerClosed"} -> "PeerTerminating"
       [] s = "ReadyToClose" -> "Terminating"
       [] s = "Terminating" -> "Terminated"]

InputTerminate ==
  /\ pc[Reader] = "command" /\ msg.kind = "terminate"
  /\ Decide(Reader, InputTerminateTo, "idle")
  /\ msg' = NoSegment
  /\ UNCHANGED <<conn, lag, closed>>

\* Any other segment may acknowledge everything that is pending.
InputAck ==
  /\ pc[Reader] = "command" /\ msg.kind = "ack"
  /\ pending' \in {pending, FALSE}
  /\ msg' = NoSegment
  /\ Goto(Reader, "idle")
  /\ UNCHANGED <<state, age, idle, terminate, released, target, cont, lag, closed>>

----------------------------------------------------------------------------
(* flush *)

\* Updater.run: the ping updater goes on until the connection is terminated,
\* the data updater while it is not terminating and has something to do.
FlushBegin(f) ==
  /\ pc[f] = "idle"
  /\ state \notin (IF f = PingUpdater THEN {"Terminated"} ELSE {"Terminating", "Terminated"})
  /\ Goto(f, "terminated?")
  /\ lag' = [lag EXCEPT ![f] = 0]
  /\ UNCHANGED <<conn, target, cont, msg, closed>>

\* Every test of flush loads the state anew: at l, go on at yes if it is s.
FlushTest(f, l, s, yes, no) ==
  /\ pc[f] = l
  /\ Goto(f, IF state = s THEN yes ELSE no)
  /\ UNCHANGED <<conn, target, cont, lag, msg, closed>>

FlushTerminated(f) == FlushTest(f, "terminated?", "Terminated", "idle", "active?")
FlushActive(f) == FlushTest(f, "active?", "Active", "idleTime", "empty?")

\* The second operand of &&: the load of lastIncomingTime.
FlushIdle(f) ==
  /\ pc[f] = "idleTime"
  /\ Goto(f, IF Since(idle, lag[f]) >= IdleTimeout THEN "close" ELSE "empty?")
  /\ UNCHANGED <<conn, target, cont, lag, msg, closed>>

\* Close() decides on a state of its own.
FlushClose(f) ==
  /\ pc[f] = "close"
  /\ Decide(f, CloseTo, "empty?")
  /\ UNCHANGED <<conn, lag, msg, closed>>

FlushReady(f) == FlushTest(f, "empty?", "ReadyToClose", "isEmpty", "terminating?")

FlushEmpty(f) ==
  /\ pc[f] = "isEmpty"
  /\ IF pending THEN Skip(f, "terminating?") ELSE Call(f, "Terminating", "terminating?")
  /\ UNCHANGED <<conn, lag, msg, closed>>

FlushTerminating(f) == FlushTest(f, "terminating?", "Terminating", "terminatingTime", "peer?")
FlushPeer(f) == FlushTest(f, "peer?", "PeerTerminating", "peerTime", "ready?")
FlushReadyAgain(f) == FlushTest(f, "ready?", "ReadyToClose", "readyTime", "idle")

\* At l, the load of stateBeginTime: SetState(s) if the state is older than
\* timeout; go on at next.
FlushTimeout(f, l, timeout, s, next) ==
  /\ pc[f] = l
  /\ IF Since(age, lag[f]) > timeout THEN Call(f, s, next) ELSE Skip(f, next)
  /\ UNCHANGED <<conn, lag, msg, closed>>

FlushTerminatingTime(f) ==
  FlushTimeout(f, "terminatingTime", TerminatingTimeout, "Terminated", "idle")
FlushPeerTime(f) ==
  FlushTimeout(f, "peerTime", PeerTerminatingTimeout, "Terminating", "ready?")

FlushReadyTimeNever(f) ==
  /\ pc[f] = "readyTime"
  /\ Skip(f, "idle")
  /\ UNCHANGED <<conn, lag, msg, closed>>

\* The end of flush: acknowledgements, data and pings go out.
FlushReadyTime(f) == FlushTimeout(f, "readyTime", ReadyTimeout, "Terminating", "idle")

----------------------------------------------------------------------------
Step(g) ==
  \/ StoreState(g) \/ FinishSetState(g)
  \/ g = User /\ UserCloseReturn
  \/ g = Writer /\ WritePush
  \/ g = Reader /\ (InputOption \/ InputTerminate \/ InputAck)
  \/ g \in Flushers /\ (\/ FlushTerminated(g) \/ FlushActive(g) \/ FlushIdle(g) \/ FlushClose(g)
                        \/ FlushReady(g) \/ FlushEmpty(g)
                        \/ FlushTerminating(g) \/ FlushTerminatingTime(g)
                        \/ FlushPeer(g) \/ FlushPeerTime(g)
                        \/ FlushReadyAgain(g) \/ FlushReadyTime(g))

Next ==
  \/ Tick
  \/ UserClose
  \/ WriteCheck
  \/ \E m \in Segment : InputBegin(m)
  \/ \E f \in Flushers : FlushBegin(f)
  \/ \E g \in Goroutines : Step(g)
  \/ Terminate

Spec == Init /\ [][Next]_vars

\* Time passes, goroutines that run are scheduled, the ping updater ticks.
\* Nothing is assumed of the peer, the user or the data updater.
Fairness ==
  /\ SF_vars(Tick) /\ WF_vars(Terminate) /\ WF_vars(FlushBegin(PingUpdater))
  /\ \A g \in Goroutines : WF_vars(Step(g))

FairSpec == Spec /\ Fairness

----------------------------------------------------------------------------
\* A connection on its way out is released in the end, even if the peer is
\* gone, unless the peer's close was recorded over the local one: flush has
\* no timeout for PeerClosed.
ReleasedOrPeerClosed ==
  closed \/ state \in {"ReadyToClose", "Terminating", "PeerTerminating"}
    ~> released \/ state = "PeerClosed"

\* A closed connection is released in the end ("Close closes the
\* connection").
ClosedIsReleased == closed ~> released
====
