# A TLA+ model of f2ray-core

f2ray-core is a proxy core: inbound proxies accept connections, a dispatcher
routes each one to an outbound proxy, and the bytes flow through in-memory pipes,
optionally multiplexed (mux) and carried by one of many transports. This
directory holds TLA+ modules for the parts of it that carry concurrent or
distributed logic of their own, the TLC configurations that check them, and
TLAPS proofs of the results that matter most. `PROJECT.json` lists components,
runs, the source lines of every definition, the hazards of the code, and the
theorems.

Contents: [1 Inventory](#1-inventory) · [2 Plan](#2-plan) ·
[3 Modules and code](#3-modules-and-code) · [4 Runs](#4-runs) ·
[5 Disagreements with the code](#5-disagreements-with-the-code) ·
[6 Proofs](#6-proofs) · [7 What is not modelled](#7-what-is-not-modelled)

## 1 Inventory

State, operations and what makes each part correct. "Hard" names what a test
hardly reaches; `PROJECT.json` gives the line for each.

| Component | State | Operations | Hard | Correct when |
|---|---|---|---|---|
| `transport/pipe` | buffer, state, two one-slot notifiers, a done instance | read (blocking, timed), write (blocking, discarding, failing), Close, Interrupt | signal after unlock; several parked writers share one wake-up; Close against data | a stream: once, in order, EOF after the drain; nobody sleeps forever |
| `transport/internet/kcp` data transfer | sending window, receiving window, acknowledgement list | push, flush, ack, read, ping over UDP | loss, repetition, delay, reordering; stale fields of late segments | no segment lost between the ends; delivered and acknowledged in the end |
| `kcp` connection life cycle | state and its time, idle time | Close, Write, Input, flush, Terminate | five goroutines load, decide and store the state without a lock; uint32 times | a closed connection is released, an active one is kept |
| `kcp` listener | sessions by address and id | OnReceive, Remove, Close | late or repeated Remove of an earlier connection | a session in use is not lost |
| `common/mux` one connection | session table, per session two pipes and a copying goroutine, a frame loop at each side, an idle monitor | Dispatch, frames New/Keep/End, Close | frames of ended sessions; three sources of End; idle close against Dispatch; full links | sessions do not mix; both ends finish; nobody is stranded |
| `common/mux` worker pool | list of workers, cleanup task | Dispatch, PickAvailable, cleanup | pick against cleanup, a first round that fails into `common.Must`, a lost start | no panic; attempts do not run out; dead workers leave |
| `app/stats` channel | subscribers, queue, loop goroutine, broadcast goroutines | Publish, Subscribe, Unsubscribe, Start, Close | check-then-act in the helpers, close against send | same order for everyone, no panic, delivery |
| `common/task` Periodic | running, timer | Start, Close, round | restart during a round, failing round against Start | a started task runs, a closed one stops |
| `common/signal` ActivityTimer, `task.Run`, semaphore; relaying in `proxy/freedom`, `proxy/mieru` | token, check task, two copying goroutines, context | Update, check, SetTimeout, copy, Run | tokens taken by an old task; tasks started after their Close | timeout only after inactivity; every relay ends |
| `transport/internet/udp` dispatcher, `app/proxyman/inbound` UDP worker | entries by destination, connections by source | getInboundRay, RemoveRay; callback, removeConn, clean | removal by key of what was already replaced | a live flow is cut only by its predecessor; flows end |
| `proxy/mieru` session | receive queue, unread buffer | receive, Read, Close | the end against a last segment; segments that look like heads | a stream; Read does not hang |
| `app/dns` name servers, `pubsub` | cache, pending requests, subscribers | QueryIP, HandleResponse, Cleanup | late and reordered answers, id wrap | an answer belongs to its question; queries return |
| `app/dns/fakedns`, `common/cache` | LRU of domain and address, next address | GetFakeIPForDomain and back, AddPool | wrap of the pool, eviction, lookups without the holder's lock | a bijection at every moment; searches end |
| `app/dispatcher` | two pipes, cached reader, sniffers | Dispatch, sniffing, routedDispatch | timeouts, closes and contexts against sniffing; two results for one connection | data arrives once and in order; the right target is overridden |
| `app/router` balancers, `app/proxyman/outbound` | handlers, default, override, observed results | AddHandler, RemoveHandler, PickOutbound | observations that are stale, expired or missing; baselines in any order | the documented nodes are selected |
| `app/observatory/burst` | results, periods under way | scheduler, ping, Cleanup | periods that overlap, each with an old list | in the end exactly the outbounds that exist are known |
| `app/reverse` | bridge workers, portal's pool, control sessions | monitor, heartbeat, DRAIN, cleanup | connections that break unnoticed on one side | the portal gets a connection that is not drained |
| `app/router` rules, `app/dns` server selection, plain observatory, core `Instance`, `common/antireplay` | rules, clients, status, features, filters | PickRoute, lookup, probe, start and close | fallbacks, restart | not modelled yet |

How they interact: a proxy calls the **dispatcher**, which makes two **pipes**
(one per direction), may **sniff** the first data (asking **fakedns** for the domain of a
made-up address), and hands one end to the outbound that a rule or a **balancer** chooses
by what the **observatory** reports. An outbound **relays** between the link and its
connection under an **ActivityTimer**; with mux enabled it gives the link to the **worker
pool**, whose **ClientWorker** copies it as frames over another link; at the other end the
**ServerWorker** dispatches each session again. **Reverse** runs such a connection the other
way round. **KCP** is one of the transports under a link. **Periodic** drives the activity
timers and the cleanup of mux pool, UDP worker, portal, DNS caches and pubsub. The **stats
channel** is fed by the router and read by gRPC clients.

## 2 Plan

Ordered by how much of the system rests on a part.

1. *Done.* `PipeStream` (abstract) and `Pipe`, proved: every byte goes through it.
2. *Done.* `KcpStream`, proved, and `KcpState`: the one transport protocol that the
   repository implements itself.
3. *Done.* `Mux`, one multiplexed connection, and `MuxPool` above it, both proved.
4. *Done.* `StatsChannel`, `Periodic` and `Relay` with the activity timer, proved.
5. *Done.* The tables of flows: `UdpDispatcher`, `UdpWorker`, `KcpListener`; `MieruSession`;
   `Reverse`; all proved.
6. *Done.* What decides where a connection goes: `Dns`, `FakeDns`, `Dispatcher`, `Balancer`,
   proved; `Observatory`.
7. *Next, theorems.* What `KcpState` keeps without time, and what `Observatory` keeps between
   its periods: the two modules whose checked properties are liveness only.
8. *Next, modules.* KCP congestion control and number wrap-around as arithmetic (`Clear`
   compares with `>=`, `sending.go:60`, the other comparisons are modulo 2^32); router rules and the order of DNS clients as operators with a
   reference definition; the plain observatory with its persistent status; feature
   resolution of the core; the replay filters.

## 3 Modules and code

**PipeStream** is what a pipe promises: a stream that can be shut in two ways and whose end
(io.EOF, `End`) is told only once it is closed and everything in it was taken.
**Pipe** is `transport/pipe/impl.go` with the notifiers of `common/signal`. A
critical section is one action; `WriteSignal` and `ReadSignal` are separate because
the code signals after the unlock. A payload is one unit, limits count payloads.
Program counters: `write`/`read` (about to lock), `signal`, `wait` (in the select).

**KcpStream** is one direction of an active connection: `SendingWorker` at one end,
`ReceivingWorker` with its `AckList` at the other. The path is a set of segments:
delivering one does not remove it, so it may be repeated, delayed and overtaken;
`LoseData` and `LoseAck` drop one. Which segments are due for retransmission is a free choice, so
every timing is covered. An acknowledgement that the code splits every 128 numbers
is one segment. Numbers stay far below 2^32 except in the subtraction in `Flush`,
which is taken modulo `Modulus`.

**KcpState** is the life of one `Connection`. Every load of the state with its test, and
every load of a time, is an action of its own, `SetState` is two (`StoreState`,
`FinishSetState`); flush tests the state six times, and the `Close` that it calls on an idle
connection decides on yet another load (`FlushClose`). So every
interleaving of user, writer, `Input` and flush is there. Times are ages that
saturate at `Forever`; a flush carries the age `lag` of the time it took, so
`current - lastIncomingTime` may wrap as it does in the code. SetState's two stores
fall in one millisecond.

**Mux** is one connection with both workers; state is indexed by side because they
are built of the same parts. `copier` is `fetchInput` at the client and `handle` at
the server, `loop` is `fetchOutput` and `run`. Session pipes are used through what
`Pipe` establishes (FIFO, drain on Close, drop on Interrupt). A link is the FIFO of
everything between a writer and the other side's loop. A chunk is what one read
returns. `Session.Close` is one step. `ConnectionEnds` is the connection below the links;
`ProcessReturns` is the goroutine of `Create`, which closes `done` when the proxy returns, whatever
the frame loop is at. KeepAlive frames, which this code never sends,
are left out.

**StatsChannel** is `app/stats/channel.go`: `LoopTake`/`LoopCast`/`LoopDrain` for the
loop, `CastWaits` for broadcast goroutines, and the clients that go through
`SubscribeRunnableChannel` and `UnsubscribeClosableChannel`, plus the manager's
Start and Close. `c.closed` is a new Go channel after every Start, hence `gen`.
A send on a closed channel sets `panicked`.
Whether the channel blocks (`blocking`) is chosen once, in Init, as the configuration does. `BufferSize` is at least 1.

**Periodic** is `common/task/periodic.go`: a *chain* is a goroutine or armed timer
that may still run Execute. `stopped` and `owed` are history: the last call was a
Close; a Start has returned nil and its effect is still to come. `canFail`,
chosen in Init, says whether this task's Execute can fail.

**Relay** is one connection in an outbound: the two copying goroutines, `task.Run`, and an
ActivityTimer whose check runs on up to three periodic tasks, because the end of each copy
sets a shorter timeout. A check is two steps, the select on the token (`GiveUp`) and `finish`,
which takes the lock (`Expire`): data may come between them. It follows freedom's `Process`; Mieru's differs in that it never calls
Update. `lull`, `early` and `orphans` are history: whether data came since the first task
was armed, whether its check gave up in spite of it, and tasks started after their Close.

**UdpDispatcher**, **UdpWorker** and **KcpListener** are three tables whose entries are removed
by key from goroutines of their own. Entries are numbered in the order they are made, so
"an older entry of the same key" can be said. The timer of UdpDispatcher is that of Relay
with one task, its check and `finish` apart as well. The checker of UdpWorker is a Periodic
whose first round runs inside `checker.Start()` (`StartChecker`, `FirstClean`), before the connection's goroutine is
started (`Go`): on an empty table it fails and `common.Must` panics (`rx = "panicked"`). `Clean` and
`FirstClean` share the loop over the table, `CloseIdle`.

**MieruSession** is the receiving goroutine and Read of a Mieru connection. A byte is its
number in the server's stream; a segment is a head (what the `detectProtocolType` functions
look for), other data, or of another protocol.

**MuxPool** is `ClientManager.Dispatch` over `IncrementalWorkerPicker`. A worker is what the
pool can see of one, with the two steps of its idle monitor; inside it is `Mux`. `Cleanup`
places the k-th worker that is left, so that its result can be reasoned about. The
cleanup task is written out with its rounds, because its `Start` is passed to
`common.Must`. `wasted` counts attempts in vain since a worker last filled up, closed or was leaving;
`lost` records a Start that was lost (section 5).

**Reverse** is bridge and portal over mux connections that may break at any time: the
bridge's monitor, the portal's picker with its cleanup, the heartbeat and its DRAIN.

**Dns** is the client of one server with cache, pending table and pubsub; **FakeDns** the
pools of fake addresses on their LRU caches, with the lookup that reorders the list without
the holder's mutex.

**Dispatcher** is one connection from Dispatch to the outbound, with the cached reader and
the sniffing loop; the verdicts of the content sniffers are free, so every protocol
detection is covered. **Balancer** is the choice of an outbound: the manager's handlers, the
rings of round-trip times with their statistics, the three strategies, override and
fallback, and the lookup of the tag in routedDispatch with its default. Averages are cut to
whole milliseconds (`Delay`, the constant `Millisecond`), as the reports are; the sorted nodes are given by their ranks under `leastloadSort`'s comparison, the loops over results and over
baselines are recursive functions. **Observatory** is the scheduler that fills those rings, with periods that
overlap.

**Flows** (UdpDispatcher, UdpWorker, KcpListener, MuxPool, Reverse, MieruSession), **Routes**
(Dispatcher, FakeDns, Dns, Balancer) and **Relays** (Relay) declare the variables of those modules side by side and
instantiate them, and name the properties that the runs and the proofs share.

The `MC*` modules declare model values, sets of options and symmetries. `MCPeriodic`,
`MCRouting` and `MCFlows` check several independent modules in one run: Init chooses a
subject, only its variables move, and its fairness and properties are those of the module.
They extend Periodic and Relays, Routes, and Flows.
Definitions whose comment begins with "Mutant" are deliberately wrong forms of the
definition that follows; `PROJECT.json` pairs each property with the one it detects.

## 4 Runs

| Run | Shows | Bounds | Distinct states |
|---|---|---|---|
| pipe | no lost wake-up, truthful results; writers return, what is accepted is read; refinement of PipeStream (so once, in order, EOF after the drain) | 2 writers, one of them writing twice, 2 readers; no limit, limit 0 blocking, limit 0 discarding | 160 k |
| kcp_stream | no segment lost, no acknowledgement forgotten; everything pushed is delivered and acknowledged | 2 segments, receiving window of 1 or 2, one old segment of each kind kept on the path besides the new one | 120 k |
| kcp_state | released by timeouts alone, or PeerClosed recorded over the close | timeouts of 1 ms, a flush takes up to 1 ms | 461 k |
| mux | a clean end is complete, open sessions are known to both sides; sessions finish, a dead worker closes its sessions | 1 session, 1 + 1 chunks, links of 1 frame, users abort, connection and dispatch fail | 399 k |
| mux_sessions | sessions do not mix, idle close strands nobody | 2 symmetric sessions of 2 chunks, links of 1 frame | 2.2 M |
| stats_channel | one order for the subscribers of a blocking channel; delivery to listening subscribers of a non-blocking one | 2 clients, 2 messages, 1 start, both modes | 382 k |
| periodic | Periodic: chains are bounded, Close stops, Start takes effect if Execute succeeds. Relay: no early timeout, every relay ends | 2 callers, 4 starts, 2 closes, Execute failing or not; freedom with timeouts zero or not, Mieru with timeouts of zero, 1 datum each way | 404 k |
| routing | Dns: records answer their question, a query told of its answers ends. FakeDns: addresses unique, searches end. Dispatcher: a fake address is replaced, data arrives. Balancer: least load as documented. Observatory: the observation settles | below | 514 k |
| flows | UdpDispatcher, UdpWorker, KcpListener: a flow is lost only in a late removal by its predecessor, entries end. MuxPool: no panic, attempts succeed, dead workers leave. Reverse: the portal is served. MieruSession: gaps only before heads, Read progresses | below | 599 k |

The runs kcp_state_close, stats_channel_panic and mieru_read end in a counterexample: see
section 5.

*Why the bounds are enough.* A lost wake-up needs two sleepers and one notifier
slot; the writer with two payloads fills the pipe and then parks next to the other one, so
that both share the notifier, and two readers may race for what wakes them; the limits -1 and 0 give
every branch of `isFull`. A receiving window of one with two segments has a segment
before, inside and beyond the window, one of two buffers the second segment before the first; the
`remoteNextNumber` of the sender starts at 0 (32 in the code) and falls behind `firstUnacknowledged`
as soon as a ping moves that, so that the difference in `Flush` wraps. One kept old segment of each kind is what a
stale field needs. Timeouts of 1 with a lag of 1 order every pair of time comparisons.
In mux one session already has all the goroutines that end it and, with links
of one frame, the frame loops that block each other; two sessions are needed for
mixing and for the idle race, two chunks for the order inside a session. Two clients
are what the races of the stats channel need; with a queue of one, two messages fill
it and overflow it. Four starts and two closes of a task give three chains at once.
In routing: two queries for one name, over UDP with 2 ids (2^16 in the code) and 3 requests,
so the ids do come round, or over streams. An answer is empty, the worst case, because an
address ends a query at once while an empty answer makes it look for the other type. Two
pools of fake addresses that are larger than their caches, one starting in its middle, and
one that overlaps, three domains, five calls: the pool wraps, evicts, and meets an address that
is still in use, which it has to skip. Three chunks
through a pipe without room, one clock step until the sniffing deadline: data before,
during and after sniffing. Two outbounds with rings of two, round-trip times of 2 and 6 with 4 units to the millisecond, so
that different averages are cut to equal delays, one change, and settings for each mode that `selectLeastLoad` documents. For the observer
two outbounds, two pings each per period, two periods under way, which is what a ping
timeout below the length of a period allows, and three changes or network failures.
In flows: one destination, source and key, since different ones share nothing but locks and
the checker; two or three generations of entries, since a late removal needs a predecessor
and a successor; two packets to a destination let the reader, the timer and the writer of an
entry each meet a live successor of it. Two mux workers, three calls and three attempts of 16: a fourth attempt
repeats the third. Three dialled connections drained after 1 session (256 in the code),
crowded at 1 (16), two breaks or clients. Four bytes in up to three Mieru segments, read one at a time.
For the safety of Pipe, KcpStream, Mux, StatsChannel, Periodic, Relay, UdpDispatcher,
UdpWorker, KcpListener, MuxPool, Reverse, MieruSession, Dispatcher, FakeDns, Dns and Balancer
the theorems of section 6 remove the bounds altogether.
`CHECK_DEADLOCK FALSE` is set where every goroutine may have finished for good.

*Fairness.* Weak fairness of a goroutine's steps is the Go scheduler. Beyond it:

- Pipe: a reader calls again after each return, as `buf.Copy` does. Writers and Close are free.
- KcpStream: weak fairness of the flush that sends everything due (the updater keeps
  running while there is something to send), of the acknowledgement flush and of the reader; strong fairness of delivery *per
  segment number*: a segment repeated forever gets through some time. Nothing is
  assumed of pings.
- KcpState: time passes (strong, because flushes bound the lag), the ping updater
  flushes, goroutines run. Nothing of the peer, the user or the data updater.
- Mux: users read what arrives; the server's user ends its side, the client's user does
  once its response has ended; a connection the worker has given up ends.
- StatsChannel: a subscribed client goes on receiving.
- Periodic: Execute returns and timers fire; nobody has to call Start or Close.
- Relay: timers fire; the peers need not send, nor close.
- UdpDispatcher: an outbound whose context is cancelled or whose input is closed ends.
- MieruSession: the copying goroutine goes on reading; strong fairness of the select's
  `recvDone` case, since a select does not ignore a closed channel for ever. Nothing of the server.
- Dns: strong fairness only of a query's return; no answer has to come and no context to end.
- FakeDns, MuxPool: goroutines run; workers need not end.
- Reverse: a connection that is not broken reaches the portal, and the ends of a broken one
  find out some day. No client has to come, and no session has to end.
- Dispatcher: the clock moves and an outbound that serves goes on reading.
- Observatory: the ticker ticks and every ping ends, having a timeout; the network works
  again in the end (the bound on changes).

## 5 Disagreements with the code

Each is a run that must fail, on a property that states what the repository says.

1. **kcp_state_close** (`connection.go:556`). `OnPeerClosed` reads Active, `Close`
   stores ReadyToClose, `OnPeerClosed` stores PeerClosed. flush has no timeout for
   PeerClosed, so with a vanished peer the closed connection is never released.
2. **stats_channel_panic** (`channel.go:117`). The loop of a non-blocking channel closes
   a subscriber's channel while a broadcast goroutine waits to send on it.
3. **mieru_read** (`mieru_session.go:1150`). Two segments that both begin a TLS record are
   taken from the queue together: the second clears the first out of the buffer.

Met while modelling, and part of the modules, but without a run of their own:

- Both frame loops of mux may wait on full links to reply an End frame
  (`client.go:352`): one session and links of one frame suffice. Neither reads any
  more until the connection is dropped. `SessionsFinish` names this state,
  `LoopsBlocked`, as its only exception.
- A mux session that gets its link after SessionManager.Close went over the table
  (`client.go:311`) is closed by nobody but its user; `DoneClosesSessions` is about the others.
- An End frame sent because an output refused data overtakes response data: the
  exception in `CleanEndIsComplete`.
- `Session.Close` calls `common.Close` on an input that has no Close
  (`session.go:149`), so the input stays open; `SessionClose` leaves `inp` alone.
- A goroutine that decided on an older KCP state may overwrite Terminated
  (`connection.go:631`); `StoreState` stores unconditionally.
- `UnsubscribeClosableChannel` may close the channel under a client that subscribed
  after the count was read (`features/stats/stats.go:55`).
- In a blocking stats channel a subscriber that left with a full queue holds up the
  loop until the message's context ends; `EventuallyDelivered` is about the other mode.
  A loop that waits on the closed channel of before a restart drains the new subscribers
  (`channel.go:114`); the runs start a channel once.
- A segment that arrives between flush's `Elapsed` and its load of `lastIncomingTime`
  makes the uint32 difference wrap: a connection that has just received is closed as idle
  (`connection.go:614`).
- mux: IsFull and Allocate are separate (`client.go:302`), so concurrent calls exceed the
  configured concurrency (`app/proxyman/config.proto:107`).
- Periodic: Start returns nil because the task is still marked running, and the failing
  round clears the mark afterwards (`periodic.go:33`; `common/interfaces.go:43` says the
  object functions). The checker of the UDP worker and the mux pool (`lost`) inherit this.
- ActivityTimer: data that arrives between the select of a check and `finish` (`timer.go:31-34`)
  leaves a token that nobody reads any more, and the connection is ended right after it.
  `NoEarlyTimeout` is about what the select finds. The token of SetTimeout may be taken by the task it replaces
  (`timer.go:71`), and a task closed by a concurrent SetTimeout before its Start runs for
  ever (`timer.go:72`, `orphans`).
- Mieru never tells its timer what it copies, so a busy connection is cut after the idle
  timeout (`proxy/mieru/handler.go:171`; `features/policy/policy.go:16`: "no egress or
  ingress traffic"). Read's 30 s timeout never fires next to the one of 100 ms
  (`mieru_session.go:628`), and a segment queued between the look at the queue and the
  select is left behind by io.EOF (`:626`).
- UDP dispatcher, UDP worker and KCP listener remove by key, so a late removal hits the
  successor (`dispatcher_split.go:50`, `worker.go:337`, `listener.go:143`). In the UDP worker the
  late removal may empty the table between getConnection and `checker.Start()`, whose first
  clean then fails, and `common.Must` panics (`worker.go:306`); a connection that was closed
  as idle in between does the same. `LostByPredecessor` admits
  no other way to that panic. Close of the
  listener terminates accepted connections although `listener.go:147` says not.
- DNS: with the cache disabled a record cached earlier is still returned while a query
  waits (`nameserver_udp.go:289`); an answer is not compared with its question, which
  matters once ids come round; the length of a TCP response is read as int16
  (`nameserver_tcp.go:245`). The search of fakedns promotes what it skips in the LRU list.
  A connection to a fake address that the LRU has evicted is not recognised
  (`fakednssniffer.go:34-49`) and goes out to the made-up address; `FakeAddressReplaced` is about
  addresses that fakedns still knows.
- mux pool: after the swap `pickInternal` returns the former last worker
  (`client.go:97`); a worker between CloseIfNoSession and done.Close can use up all 16
  attempts; `common.Must(cleanupTask.Start())` (`client.go:120`) would panic if a call
  stood still for 30 s before it, which the guard `awaited` excludes.
- reverse: `handleInternalConn` never closes the writer of its link (`bridge.go:151`), so a
  goroutine stays for each control session; `draining` is read without a lock.
- dispatcher: the sniffer fakedns+others has no network, so Sniff never asks it
  (`sniffer.go:65`), and an override list with only "fakedns+others" does not match
  "fakedns" (`default.go:190`). On a closed, empty pipe the sniffing loop spins until the time
  spent in Cache adds up to 200 ms, and while a sniffer wants more data the cache grows
  without a limit.
- balancer and observatory: an outbound whose results have all expired counts as dead
  (`burstobserver.go:39`), one that was never observed as alive
  (`strategy_random.go:71`); Cleanup by an old list deletes results of the next period
  (`healthping.go:91`); the minimal interval is compared with 10 ns, not 10 s
  (`healthping.go:53`); the override's target is never looked up; after the default
  handler is removed, the next one added becomes the default whatever its tag
  (`outbound.go:105`).

## 6 Proofs

Eight modules are checked by TLAPS: `PipeProofs`, `KcpStreamProofs`, `MuxProofs`,
`StatsChannelProofs`, `PeriodicProofs`, `ProxyProofs` (Relay, MieruSession), `FlowProofs`
(UdpDispatcher, UdpWorker, KcpListener, MuxPool, Reverse) and `RoutingProofs` (Dispatcher, FakeDns,
Dns, Balancer).
The constants are arbitrary; the only assumptions are the named ASSUMEs of the component
modules, which TLC evaluates in the runs: bounds are natural numbers, options are of their
type, callers and timers finite and disjoint, a pool of fake addresses starts inside itself, a
DNS query asks for A, AAAA or both, and there is at least one request id; the two limits of a mux
strategy are not 0 (`PoolOK`; the code takes 0 for no limit); tags, round-trip times, weights and
the settings of a balancer are integers and a ring has room (`BalancerOK`). Each theorem
about a component is proved from an inductive invariant, action by action.

**Pipe.** `PipeSafety` shows `IInv`: types, the two wake-up invariants, stream
integrity, EOF after drain, the size limit, and `DoneIffShut`, the link between the
done instance and the state that each wake-up invariant needs when a sleeper is to be
released by Close. `ReadersAreWoken`, `WritersAreWoken`, `StreamIsIntact`,
`EOFIsTheEnd`, `BufferIsBounded` and `ResultsAreTruthful` follow. `PipeImplementsStream`: under the mapping accepted/taken/state
every step of the pipe is a step of PipeStream or a stutter, io.EOF of a read included.

**KCP.** `IInv` adds to the checked invariants `SenderOrder` (the window lies between
firstUnacknowledged and nextNumber), `ReceiverOrder` (only what was pushed is
received or listed) and `PathLags` (a number on the path never exceeds the counter of
its sender). `NoSegmentLost` alone is not inductive: an acknowledgement in flight may
remove a segment, and only `PathLags` says that it was received. `KcpPathIsTruthful`,
`KcpReceiverBounded` and the action property `KcpMovesForward` are consequences.

**Periodic.** `ChainBound` (at most one chain more than calls of Close) is not inductive, because
a Start after a Close adds a chain; `MarkedChainBound` counts the running mark too: a task that is
not running has paid for every chain with a Close. `NoFailure` keeps the error path,
which clears the mark without a Close, out of tasks that do not fail.
`RunningIsServed` needs no such assumption.

**Mux.** `MInv` has the types, how far callers, goroutines and frame loops of a session are
(`MCallers`, `MCopiers`), what the tables know (`MKnown`), which sessions frames may name
(`MFrames`), that the server meets a session's New frame first (`MNew`), and the position of every
chunk: with a live output, the link holds a session's data frames in order and without a
gap from what was given to what was taken from the input, up to the end as long as the link is open
(`MData`), and the chunk in the hands of a loop is the next one (`MHand`). `SessionIntegrity` alone is not inductive: it says
nothing of chunks under way, and an ended session's frames still travel. `SessionsIntact`,
`OpenSessionsKnown` and the action property `IdleCloseSafe` follow. `CleanEnds` needs `EInv` on top, because End frames
have three sources: the session's own goroutine after its input, the frame loop whose
output refused data, and the loop that does not know the session. `EFrames`: an End frame that will
be acted on comes after all data, or its sender's user gave up a pipe; `EOwn`: while the
session is in the sender's table it comes from the session's own goroutine and no data
follows; `ELeft`: why a session may have left one table and not the other, which rules
out the third source; `EDone`: while the loop runs and the link is up, the worker is done only
after its table was closed with no session in it; the others say what the two loops and Close leave behind.

**Stats channel.** `SInv` follows each message: it waits in the channel (`SWaiting`), is in the hands of
one loop (`SCasting`), or has gone to a subscriber once (`SOnce`). `NoMessageTwice` holds
for any number of restarts. `SameOrder` is for a channel that was started once
(`SOrder`: the message in the loop's hands is the last one of whoever has it): with two
loops, the earlier one blocked, the order may differ.

**Relay, Mieru.** `RelayNotEarly` is about the select of a check, not about `finish`. `RCounted`: data that the first task has not counted left a token, unless
the task is about to begin its next interval; `RUnset` keeps the later tasks, which take
tokens too, out of the time before SetTimeout. For Mieru, `MUnread`: the segments not yet
read hold exactly the bytes between the last one Read has seen and the last one sent, in
order; a gap can then only arise where a head clears the buffer.

**Flow tables.** The table has the newest entry of a key (`UNewest`, `WNewest`, `LNewest`), and
whoever is about to remove by key has already ended (`UCancelled`, `WDone`) or was told to
(`LTold`, `LRemoved`). So a removal that hits a live entry was an older one's. `DispatcherCutOff`
and `WorkerLost` are action properties: the very step that cuts off a live entry is that late
removal. For the panic, `WLost` says why a connection in use is out of the table, and
`WStarting` that the one `checker.Start()` is called for has not begun.

**Mux pool.** `PoolNeverPanics` rests on `PStart`: there is one round of the task at a time
(`PRound`), and a call that has made a worker and not yet started the task finds the pool
empty only if a round has emptied it, whose task then runs until the start has come and gone
(`PFilled`; its case of an armed timer is where the guard `awaited` is needed). `PoolAttempts`
rests on `PWaste`: while no worker fills up, closes or leaves, an attempt in vain leaves a
free worker in the hands of the call or at the end of the pool, where the swap of the picker
takes the next one from and where Cleanup keeps it; so two attempts in vain are the most there
can be. Neither property is inductive alone.

**Reverse.** `FreshKept`: a connection that is whole and that the portal does not drain is kept by the
bridge and active there (`FreshIsKept`). Its inductive form `BInv` says that all signs of draining are true:
a DRAIN in the bridge's state or among the messages under way, a closed writer, a
connection ended in good order (`BTold`).

**Dispatcher, FakeDns, Dns.** `SInv`: whatever ended the sniffing of a fake address, the
override was applied before an outbound is chosen. `FInv`: list and both tables of a holder agree and stay inside its pool
(`FHolders`), the address a caller has found stays free until it puts it (`FCalls`),
because `fkdns.mu` has one owner (`FMutex`); lookups may reorder the list in between.
`DInv`: requests have numbers of their own (`DNumbers`), and what is pending under an id was
sent with that id (`DTable`); answers follow their questions as long as the ids have not
come round, which is the limit of the code (section 5).
`LinkKept` is the safety half of `LinkDelivers`: the outbound gets a prefix of what the inbound
wrote, and until one side gives up, what it has not got is in the cache or in the pipe, in
that order. `KInv` adds what an interrupt leaves behind.

**Balancer.** `LeastLoad` is about what the code computes, not about a protocol; its invariant is that results and
settings are of their type. `Before` is a strict total order (`BeforeOrder`), so every rank below
the number of nodes is taken once (`NodeRanks`), and the first k nodes are k best (`PrefixIsBest`).
The loop over the baselines ends with the nodes below the first baseline that enough of them
meet, or with too few if there is none (`LoopCounts`). That a recursively defined function exists and keeps an invariant
(`LoopExists`, `LoopInvariant`) is derived from the least counterexample (`LeastNumber`), because
the library's induction theorems cannot be instantiated here.

The runs do not repeat what is proved and shallow beside the rest: the type invariants,
`NoLostWriteWakeup`, `StreamIntegrity`, `EOFAfterDrain` and `SizeBound` of the pipe,
`PathTruthful`, `ReceiverWindowBound` and `Forward` of KCP, and `RunningHasChain` of
Periodic are theorems only.

Only model-checked: all liveness properties, since fairness is beyond TLAPS here
(`WriterReturns`, `EventuallyRead`, `EventuallyDelivered` of KCP and of the stats channel,
`ReleasedOrPeerClosed`, `SessionsFinish`, `DoneClosesSessions`, `CloseStops`,
`StartTakesEffectUnlessFailing`, `RelayEnds`, `EntriesEnd`, `DeadWorkersLeave`, `PortalServed`, `ReadProgress`,
`AnsweredQueryEnds`, `CallReturns`, `LinkDelivers`, `ObservationSettles`). Every invariant and every
action property that a passing run checks is also a theorem.

## 7 What is not modelled

`PROJECT.json` lists every component with its reason. The map covers a few percent of the
repository's lines, and most of the rest has no state that a model could hold: of 110 000
lines of Go a large part is generated (`*.pb.go`, `errors.generated.go`), and the bulk of the others
is wire formats, cryptography and obfuscation (data the properties do not tell apart), some
twenty proxy protocols and the transports that adapt external libraries (their common core,
links, pipes, timers and mux, is what is modelled), configuration, logging, command line and
subscription documents, and memory management of buffers.

Inside the modelled parts: KCP's round-trip estimate, congestion window, blocking user calls
and deadlines, a second updater racing the first in `KcpState`, and number wrap-around; mux
over packet-address encoding; a stats channel without a buffer, and one restarted while an
earlier loop still runs; dialing, retries and resolution in freedom; the queue in front of
the UDP dispatcher; Close of the UDP worker and the dynamic inbound; Mieru's Write; the
messages and connections of the DNS servers; several bridges of one portal; the mux branch
of the outbound handler in `Dispatcher`. What could still be modelled is step 8 of the plan.
