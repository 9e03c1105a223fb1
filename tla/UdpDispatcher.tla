--------------------------- MODULE UdpDispatcher ----------------------------
(***************************************************************************)
(* transport/internet/udp/dispatcher_split.go: one outbound link for each  *)
(* destination, made by the first packet and removed when its timer finds  *)
(* it idle, when its input ends, or when a packet cannot be written.  All  *)
(* three remove by destination, not by entry.                              *)
(*                                                                         *)
(* Entries are numbered in the order they are made.  The timer is the one  *)
(* of Relay with its only task: a check takes the token or ends the timer. *)
(* The outbound behind a link is external: it may answer, may end at any   *)
(* time, and ends when its context is cancelled or its input is closed.    *)
(***************************************************************************)
EXTENDS Naturals, FiniteSets

CONSTANTS
    Dests,        \* destinations
    Senders,      \* goroutines that call Dispatch
    MaxEntries,   \* bound: entries made
    MaxPackets,   \* bound: calls of Dispatch
    MaxReplies    \* bound: packets from the outbounds

VARIABLES
    conns,        \* v.conns
    entry,        \* entry[e], for the entries made so far
    sender,       \* sender[s]: where a call of Dispatch stands
    packets,      \* calls so far
    replies       \* replies so far

vars == <<conns, entry, sender, packets, replies>>

Entries == DOMAIN entry
Idle == [pc |-> "idle"]
Empty == [x \in {} |-> x]
With(f, x, v) == [y \in DOMAIN f \cup {x} |-> IF y = x THEN v ELSE f[y]]

Init ==
    /\ conns = Empty
    /\ entry = Empty
    /\ sender = [s \in Senders |-> Idle]
    /\ packets = 0
    /\ replies = 0

\* RemoveRay, under the lock: it removes the entry that is there now.  Closing a Reader
\* of a pipe does nothing.
RemoveRay(d, ents) ==
    /\ conns' = [x \in DOMAIN conns \ {d} |-> conns[x]]
    /\ entry' = IF d \notin DOMAIN conns THEN ents
                ELSE [ents EXCEPT ![conns[d]].writer = IF @ = "open" THEN "closed" ELSE @]

-----------------------------------------------------------------------------
(* Dispatch. *)

\* getInboundRay, under the lock, which makes the entry if there is none: its context, its
\* timer, the outbound and the goroutine that reads from it.
GetInboundRay(s, d) ==
    /\ sender[s].pc = "idle"
    /\ packets < MaxPackets
    /\ packets' = packets + 1
    /\ LET e == IF d \in DOMAIN conns THEN conns[d] ELSE Cardinality(Entries) + 1
       IN  /\ e <= MaxEntries
           /\ entry' = IF e \in Entries THEN entry
                       ELSE With(entry, e,
                              [dest |-> d, ctx |-> TRUE, writer |-> "open", feed |-> "open",
                               queue |-> 0, reader |-> "loop", token |-> FALSE, timer |-> "armed"])
           /\ conns' = With(conns, d, e)
           /\ sender' = [sender EXCEPT ![s] = [pc |-> "write", to |-> e]]
    /\ UNCHANGED replies

\* WriteMultiBuffer fails on a pipe that was closed or interrupted; conn.cancel first
\* cancels the context of the entry.
Write(s) ==
    /\ sender[s].pc = "write"
    /\ LET e == sender[s].to
       IN  IF entry[e].writer = "open"
           THEN sender' = [sender EXCEPT ![s] = Idle] /\ UNCHANGED entry
           ELSE /\ sender' = [sender EXCEPT ![s].pc = "remove"]
                /\ entry' = [entry EXCEPT ![e].ctx = FALSE]
    /\ UNCHANGED <<conns, packets, replies>>

WriteFailed(s) ==
    /\ sender[s].pc = "remove"
    /\ RemoveRay(entry[sender[s].to].dest, entry)
    /\ sender' = [sender EXCEPT ![s] = Idle]
    /\ UNCHANGED <<packets, replies>>

-----------------------------------------------------------------------------
(* handleInput. *)

Loop(e) ==
    /\ entry[e].reader = "loop"
    /\ entry' = [entry EXCEPT ![e].reader = IF entry[e].ctx THEN "read" ELSE "cancel"]
    /\ UNCHANGED <<conns, sender, packets, replies>>

\* ReadMultiBuffer blocks until there is a packet, which goes to the callback, or the
\* outbound has closed or interrupted its end.
Read(e) ==
    /\ entry[e].reader = "read"
    /\ \/ /\ entry[e].queue > 0
          /\ entry' = [entry EXCEPT ![e].queue = @ - 1, ![e].token = TRUE, ![e].reader = "loop"]
       \/ /\ entry[e].queue = 0
          /\ entry[e].feed = "closed"
          /\ entry' = [entry EXCEPT ![e].reader = "cancel"]
    /\ UNCHANGED <<conns, sender, packets, replies>>

\* The deferred conn.cancel: the context, then the table.
CancelOnReturn(e) ==
    /\ entry[e].reader = "cancel"
    /\ entry' = [entry EXCEPT ![e].ctx = FALSE, ![e].reader = "remove"]
    /\ UNCHANGED <<conns, sender, packets, replies>>

ReaderGone(e) ==
    /\ entry[e].reader = "remove"
    /\ RemoveRay(entry[e].dest, [entry EXCEPT ![e].reader = "gone"])
    /\ UNCHANGED <<sender, packets, replies>>

-----------------------------------------------------------------------------
(* The timer, and the outbound. *)

\* Mutant: a timer that found a token is not armed again.
CheckOnce(e) ==
    /\ entry[e].timer = "armed"
    /\ entry' = IF entry[e].token THEN [entry EXCEPT ![e].token = FALSE, ![e].timer = "gone"]
                ELSE [entry EXCEPT ![e].timer = "finish"]
    /\ UNCHANGED <<conns, sender, packets, replies>>

\* ActivityTimer.check after an interval.
Check(e) ==
    /\ entry[e].timer = "armed"
    /\ entry' = IF entry[e].token THEN [entry EXCEPT ![e].token = FALSE]
                ELSE [entry EXCEPT ![e].timer = "finish"]
    /\ UNCHANGED <<conns, sender, packets, replies>>

\* Mutant: onTimeout is RemoveRay alone, without the cancel of the context.
FinishRemoves(e) ==
    /\ entry[e].timer = "finish"
    /\ entry' = [entry EXCEPT ![e].timer = "remove"]
    /\ UNCHANGED <<conns, sender, packets, replies>>

\* finish, whatever was received since the check; onTimeout is the same cancel: the
\* context, then the table.
Finish(e) ==
    /\ entry[e].timer = "finish"
    /\ entry' = [entry EXCEPT ![e].ctx = FALSE, ![e].timer = "remove"]
    /\ UNCHANGED <<conns, sender, packets, replies>>

TimedOut(e) ==
    /\ entry[e].timer = "remove"
    /\ RemoveRay(entry[e].dest, [entry EXCEPT ![e].timer = "gone"])
    /\ UNCHANGED <<sender, packets, replies>>

\* External: a packet from the destination.
Reply(e) ==
    /\ entry[e].feed = "open"
    /\ replies < MaxReplies
    /\ replies' = replies + 1
    /\ entry' = [entry EXCEPT ![e].queue = @ + 1]
    /\ UNCHANGED <<conns, sender, packets>>

\* External: the outbound returns; its input is interrupted, its output closed with what
\* it holds, or interrupted without.
OutboundEnds(e) ==
    /\ entry[e].feed = "open"
    /\ \E q \in {0, entry[e].queue} :
          entry' = [entry EXCEPT ![e].feed = "closed", ![e].queue = q,
                                 ![e].writer = IF @ = "open" THEN "errord" ELSE @]
    /\ UNCHANGED <<conns, sender, packets, replies>>

HandleInput(e) == Loop(e) \/ Read(e) \/ CancelOnReturn(e) \/ ReaderGone(e)
Timer(e) == Check(e) \/ Finish(e) \/ TimedOut(e)

Next ==
    \/ \E s \in Senders : Write(s) \/ WriteFailed(s) \/ \E d \in Dests : GetInboundRay(s, d)
    \/ \E e \in Entries : HandleInput(e) \/ Timer(e) \/ Reply(e) \/ OutboundEnds(e)

Spec == Init /\ [][Next]_vars

\* Goroutines run, timers fire, and an outbound that was cancelled, or whose input was
\* closed, ends.  Nothing else has to happen.
Fairness ==
    /\ \A s \in Senders : WF_vars(Write(s) \/ WriteFailed(s))
    /\ \A e \in 1..MaxEntries :
          /\ WF_vars(e \in Entries /\ HandleInput(e))
          /\ WF_vars(e \in Entries /\ Timer(e))
          /\ WF_vars(/\ e \in Entries
                     /\ ~entry[e].ctx \/ entry[e].writer # "open"
                     /\ OutboundEnds(e))

FairSpec == Spec /\ Fairness

-----------------------------------------------------------------------------
\* The step is a call of RemoveRay for entry o, by its reader, its timer or a writer.
RemovedFor(o) ==
    \/ entry[o].reader = "remove" /\ entry'[o].reader = "gone"
    \/ entry[o].timer = "remove" /\ entry'[o].timer = "gone"
    \/ \E s \in Senders :
          sender[s].pc = "remove" /\ sender[s].to = o /\ sender'[s].pc = "idle"

\* The link of an entry whose own context is alive is closed only by the late removal of
\* an entry that was made before it for the same destination and has been cancelled: never
\* by its own reader, timer or writers, by a younger entry, or by another destination.
CutOffByPredecessor ==
    [][\A e \in Entries :
          (entry[e].ctx /\ entry[e].writer = "open" /\ entry'[e].writer = "closed") =>
             \E o \in Entries : /\ o < e /\ entry[o].dest = entry[e].dest
                                /\ ~entry[o].ctx /\ RemovedFor(o)]_vars

\* Every entry comes to its end when the packets stop: its outbound, its goroutine and
\* its timer, also if it was cut off, or its destination taken over, at any moment.
EntriesEnd ==
    <>[](\A e \in Entries : /\ entry[e].feed = "closed"
                            /\ entry[e].reader = "gone"
                            /\ entry[e].timer = "gone")

=============================================================================
