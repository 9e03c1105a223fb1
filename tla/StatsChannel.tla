---------------------------- MODULE StatsChannel ----------------------------
(***************************************************************************)
(* app/stats/channel.go: a channel that broadcasts every published message *)
(* to its subscribers, with the clients that use it through                *)
(* SubscribeRunnableChannel and UnsubscribeClosableChannel of              *)
(* features/stats, which start it for the first subscriber and close it    *)
(* after the last one.                                                     *)
(*                                                                         *)
(* Go channels are bounded queues here.  c.closed is a new channel after   *)
(* every Start: gen numbers the one the field holds (0 is nil), gclosed    *)
(* has those that were closed.  A loop that waits in select waits on the   *)
(* one the field held when it entered.  A send on a closed channel and a   *)
(* second close of one panic, which ends the program.                      *)
(***************************************************************************)
EXTENDS Naturals, Sequences, SequencesExt, FiniteSets

CONSTANTS
    Clients,      \* each subscribes once; its subscriber channel has its name
    Messages,     \* each is published once
    BufferSize,   \* ChannelConfig
    SubsLimit,    \* ChannelConfig; 0 is "no limit"
    Modes,        \* ChannelConfig: the values of Blocking a channel may be built with
    MaxStarts     \* bound: calls of Start that start a loop

ASSUME StatsChannelAssumption ==
    /\ BufferSize \in Nat \ {0}
    /\ SubsLimit \in Nat
    /\ Modes \subseteq BOOLEAN
    /\ MaxStarts \in Nat \ {0}

VARIABLES
    blocking,      \* c.config.Blocking, fixed
    subscribers,   \* c.subscribers, a sequence of clients
    channel,       \* c.channel
    gen, gclosed,  \* c.closed
    loop,          \* loop[g]: the goroutine started by the g-th Start
    published,     \* messages whose Publish was called
    cancelled,     \* messages whose context is done
    pubWait,       \* publish calls (or goroutines) that wait for room in channel
    castWait,      \* broadcast goroutines: <<message, client>>
    queue,         \* queue[c]: the subscriber channel of c
    qclosed,       \* subscriber channels that were closed
    got,           \* got[c]: what client c has received
    client,        \* client[c]: where client c stands
    panicked       \* the program is gone; what it does from then on means nothing

vars == <<blocking, subscribers, channel, gen, gclosed, loop, published, cancelled, pubWait,
          castWait, queue, qclosed, got, client, panicked>>

Gens == 1..MaxStarts
NoLoop == [pc |-> "none", sel |-> 0, msg |-> {}, rest |-> <<>>]
InSelect(g) == [pc |-> "select", sel |-> g, msg |-> {}, rest |-> <<>>]

Running == gen # 0 /\ gen \notin gclosed

HasRoom(q) == Len(q) < BufferSize

Init ==
    /\ blocking \in Modes
    /\ subscribers = <<>> /\ channel = <<>>
    /\ gen = 0 /\ gclosed = {}
    /\ loop = [g \in Gens |-> NoLoop]
    /\ published = {} /\ cancelled = {} /\ pubWait = {} /\ castWait = {}
    /\ queue = [c \in Clients |-> <<>>] /\ qclosed = {}
    /\ got = [c \in Clients |-> <<>>]
    /\ client = [c \in Clients |-> "idle"]
    /\ panicked = FALSE

channelVars == <<channel, published, cancelled, pubWait>>
castVars == <<castWait, queue, qclosed, got>>

-----------------------------------------------------------------------------
(* Start and Close of the channel, under its lock. *)

Start ==
    IF Running
    THEN UNCHANGED <<gen, loop>>
    ELSE /\ gen < MaxStarts
         /\ gen' = gen + 1
         /\ loop' = [loop EXCEPT ![gen + 1] = InSelect(gen + 1)]

Close == gclosed' = IF Running THEN gclosed \cup {gen} ELSE gclosed

-----------------------------------------------------------------------------
(* Publish and the context of a message. *)

\* Publish: nothing once the channel is closed; a message that finds no room
\* waits, in the caller (blocking) or in a goroutine of its own.
Publish(m) ==
    /\ m \notin published
    /\ published' = published \cup {m}
    /\ IF gen \in gclosed
       THEN UNCHANGED <<channel, pubWait>>
       ELSE IF HasRoom(channel)
       THEN channel' = Append(channel, m) /\ UNCHANGED pubWait
       ELSE pubWait' = pubWait \cup {m} /\ UNCHANGED channel
    /\ UNCHANGED <<blocking, subscribers, gen, gclosed, loop, cancelled, castVars, client, panicked>>

\* channelMessage.publish gets room, or its context is done.
PublishWaits(m) ==
    /\ m \in pubWait
    /\ pubWait' = pubWait \ {m}
    /\ \/ HasRoom(channel) /\ channel' = Append(channel, m)
       \/ m \in cancelled /\ UNCHANGED channel
    /\ UNCHANGED <<blocking, subscribers, gen, gclosed, loop, published, cancelled, castVars, client, panicked>>

Cancel(m) ==
    /\ m \in published \ cancelled
    /\ cancelled' = cancelled \cup {m}
    /\ UNCHANGED <<blocking, subscribers, channel, gen, gclosed, loop, published, pubWait, castVars, client, panicked>>

-----------------------------------------------------------------------------
(* The goroutine of Start. *)

\* A published message is received and goes to the subscribers of this moment.
LoopTake(g) ==
    /\ loop[g].pc = "select" /\ channel # <<>>
    /\ loop' = [loop EXCEPT ![g] =
                   [pc |-> "cast", sel |-> 0, msg |-> {Head(channel)}, rest |-> subscribers]]
    /\ channel' = Tail(channel)
    /\ UNCHANGED <<blocking, subscribers, gen, gclosed, published, cancelled, pubWait, castVars, client, panicked>>

Advance(g) == loop' = [loop EXCEPT ![g].rest = Tail(@)]

\* Mutant: every message is handed to a goroutine.
LoopCastSpawns(g) ==
    LET m == CHOOSE x \in loop[g].msg : TRUE
        s == Head(loop[g].rest) IN
    /\ loop[g].pc = "cast" /\ loop[g].rest # <<>> /\ s \notin qclosed
    /\ Advance(g)
    /\ castWait' = castWait \cup {<<m, s>>}
    /\ UNCHANGED <<blocking, subscribers, gen, gclosed, channelVars, queue, qclosed, got, client, panicked>>

\* Mutant: a subscriber without room misses the message.
LoopCastDrops(g) ==
    LET m == CHOOSE x \in loop[g].msg : TRUE
        s == Head(loop[g].rest) IN
    /\ loop[g].pc = "cast" /\ loop[g].rest # <<>> /\ s \notin qclosed
    /\ Advance(g)
    /\ \/ /\ HasRoom(queue[s])
          /\ queue' = [queue EXCEPT ![s] = Append(@, m)] /\ UNCHANGED castWait
       \/ /\ ~ HasRoom(queue[s]) /\ UNCHANGED queue
          /\ UNCHANGED castWait
    /\ UNCHANGED <<blocking, subscribers, gen, gclosed, channelVars, qclosed, got, client, panicked>>

\* broadcast and broadcastNonBlocking to one subscriber.
LoopCast(g) ==
    LET m == CHOOSE x \in loop[g].msg : TRUE
        s == Head(loop[g].rest) IN
    /\ loop[g].pc = "cast" /\ loop[g].rest # <<>>
    /\ \/ /\ s \in qclosed /\ panicked' = TRUE
          /\ UNCHANGED <<loop, queue, castWait>>
       \/ /\ s \notin qclosed /\ HasRoom(queue[s])
          /\ queue' = [queue EXCEPT ![s] = Append(@, m)]
          /\ Advance(g) /\ UNCHANGED <<castWait, panicked>>
       \/ /\ s \notin qclosed /\ ~ HasRoom(queue[s]) /\ ~ blocking
          /\ castWait' = castWait \cup {<<m, s>>}
          /\ Advance(g) /\ UNCHANGED <<queue, panicked>>
       \/ /\ blocking /\ m \in cancelled
          /\ Advance(g) /\ UNCHANGED <<queue, castWait, panicked>>
    /\ UNCHANGED <<blocking, subscribers, gen, gclosed, channelVars, qclosed, got, client>>

\* Back to select, on the channel that c.closed holds now.
LoopAgain(g) ==
    /\ loop[g].pc = "cast" /\ loop[g].rest = <<>>
    /\ loop' = [loop EXCEPT ![g] = InSelect(gen)]
    /\ UNCHANGED <<blocking, subscribers, gen, gclosed, channelVars, castVars, client, panicked>>

LoopClosed(g) ==
    /\ loop[g].pc = "select" /\ loop[g].sel \in gclosed
    /\ loop' = [loop EXCEPT ![g] = [NoLoop EXCEPT !.pc = "drain", !.rest = subscribers]]
    /\ UNCHANGED <<blocking, subscribers, gen, gclosed, channelVars, castVars, client, panicked>>

\* No channel is subscribed twice.
Without(c) == RemoveFirst(subscribers, c)

\* Every subscriber is unsubscribed and its channel closed.
LoopDrain(g) ==
    LET s == Head(loop[g].rest) IN
    /\ loop[g].pc = "drain"
    /\ IF loop[g].rest = <<>>
       THEN /\ loop' = [loop EXCEPT ![g].pc = "gone"]
            /\ UNCHANGED <<subscribers, qclosed, panicked>>
       ELSE /\ subscribers' = Without(s)
            /\ qclosed' = qclosed \cup {s}
            /\ panicked' = (panicked \/ s \in qclosed)
            /\ Advance(g)
    /\ UNCHANGED <<blocking, gen, gclosed, channelVars, castWait, queue, got, client>>

\* A broadcast goroutine: its subscriber gets room or is closed, or the
\* context is done.
CastWaits(m, s) ==
    /\ <<m, s>> \in castWait
    /\ castWait' = castWait \ {<<m, s>>}
    /\ \/ s \in qclosed /\ panicked' = TRUE /\ UNCHANGED queue
       \/ /\ s \notin qclosed /\ HasRoom(queue[s])
          /\ queue' = [queue EXCEPT ![s] = Append(@, m)] /\ UNCHANGED panicked
       \/ m \in cancelled /\ UNCHANGED <<queue, panicked>>
    /\ UNCHANGED <<blocking, subscribers, gen, gclosed, loop, channelVars, qclosed, got, client>>

-----------------------------------------------------------------------------
(* A client of the channel: SubscribeRunnableChannel, receive, and         *)
(* UnsubscribeClosableChannel, each call of the channel a step.            *)

SubscribeCheck(c) ==
    /\ client[c] = "idle"
    /\ client' = [client EXCEPT ![c] = IF subscribers = <<>> THEN "start" ELSE "subscribe"]
    /\ UNCHANGED <<blocking, subscribers, gen, gclosed, loop, channelVars, castVars, panicked>>

SubscribeStart(c) ==
    /\ client[c] = "start"
    /\ client' = [client EXCEPT ![c] = "subscribe"]
    /\ Start
    /\ UNCHANGED <<blocking, subscribers, gclosed, channelVars, castVars, panicked>>

\* Subscribe.
Subscribe(c) ==
    /\ client[c] = "subscribe"
    /\ IF SubsLimit > 0 /\ Len(subscribers) >= SubsLimit
       THEN client' = [client EXCEPT ![c] = "off"] /\ UNCHANGED subscribers
       ELSE client' = [client EXCEPT ![c] = "on"] /\ subscribers' = Append(subscribers, c)
    /\ UNCHANGED <<blocking, gen, gclosed, loop, channelVars, castVars, panicked>>

Receive(c) ==
    /\ client[c] = "on" /\ queue[c] # <<>>
    /\ got' = [got EXCEPT ![c] = Append(@, Head(queue[c]))]
    /\ queue' = [queue EXCEPT ![c] = Tail(@)]
    /\ UNCHANGED <<blocking, subscribers, gen, gclosed, loop, channelVars, castWait, qclosed, client, panicked>>

\* Unsubscribe.
Unsubscribe(c) ==
    /\ client[c] = "on"
    /\ client' = [client EXCEPT ![c] = "last"]
    /\ subscribers' = Without(c)
    /\ UNCHANGED <<blocking, gen, gclosed, loop, channelVars, castVars, panicked>>

UnsubscribeCheck(c) ==
    /\ client[c] = "last"
    /\ client' = [client EXCEPT ![c] = IF subscribers = <<>> THEN "close" ELSE "off"]
    /\ UNCHANGED <<blocking, subscribers, gen, gclosed, loop, channelVars, castVars, panicked>>

UnsubscribeClose(c) ==
    /\ client[c] = "close"
    /\ client' = [client EXCEPT ![c] = "off"]
    /\ Close
    /\ UNCHANGED <<blocking, subscribers, gen, loop, channelVars, castVars, panicked>>

-----------------------------------------------------------------------------
(* The stats manager starts the channels it holds and closes them. *)

ManagerStart ==
    /\ gen = 0
    /\ Start
    /\ UNCHANGED <<blocking, subscribers, gclosed, channelVars, castVars, client, panicked>>

ManagerClose ==
    /\ Running
    /\ Close
    /\ UNCHANGED <<blocking, subscribers, gen, loop, channelVars, castVars, client, panicked>>

-----------------------------------------------------------------------------
Loop(g) == LoopTake(g) \/ LoopCast(g) \/ LoopAgain(g) \/ LoopClosed(g) \/ LoopDrain(g)

Client(c) ==
    \/ SubscribeCheck(c) \/ SubscribeStart(c) \/ Subscribe(c) \/ Receive(c)
    \/ Unsubscribe(c) \/ UnsubscribeCheck(c) \/ UnsubscribeClose(c)

Next ==
    \/ \E m \in Messages : Publish(m) \/ PublishWaits(m) \/ Cancel(m)
    \/ \E g \in Gens : Loop(g)
    \/ \E m \in Messages, s \in Clients : CastWaits(m, s)
    \/ \E c \in Clients : Client(c)
    \/ ManagerStart \/ ManagerClose

Spec == Init /\ [][Next]_vars

(* Goroutines that can run do run; a subscribed client goes on receiving. *)
FairSpec ==
    /\ Spec
    /\ \A g \in Gens : WF_vars(Loop(g))
    /\ \A m \in Messages : WF_vars(PublishWaits(m))
    /\ \A m \in Messages, s \in Clients : WF_vars(CastWaits(m, s))
    /\ \A c \in Clients : WF_vars(Receive(c))

-----------------------------------------------------------------------------
(* Properties. *)

Seen(c) == got[c] \o queue[c]
Before(q, m, n) == \E i, j \in DOMAIN q : i < j /\ q[i] = m /\ q[j] = n

\* No subscriber is given a message twice, and two subscribers of a blocking
\* channel are given their messages in the same order.
AgreeOnOrder ==
    \A c, d \in Clients :
        /\ IsInjective(Seen(c))
        /\ \A m, n \in Messages :
              blocking => ~ (Before(Seen(c), m, n) /\ Before(Seen(d), n, m))

\* No goroutine of the channel sends on a subscriber channel that was closed
\* and none is closed twice, so the message that a goroutine still holds is
\* "discarded only when the context is early cancelled".
NoPanic == ~ panicked

\* A message that the loop has taken reaches every subscriber of that moment
\* that goes on listening, unless its context is done or the channel closes
\* that subscriber first.  (Not so in a blocking channel: there a subscriber
\* that has left, but whose queue is full, holds up all the others until the
\* context of the message is done.)
EventuallyDelivered ==
    \A m \in Messages, c \in Clients :
        ~ blocking /\ (\E g \in Gens : m \in loop[g].msg /\ c \in ToSet(loop[g].rest))
          ~> (m \in ToSet(Seen(c)) \/ m \in cancelled \/ client[c] # "on" \/ c \in qclosed \/ panicked)
=============================================================================
