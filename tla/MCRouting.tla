----------------------------- MODULE MCRouting ------------------------------
(***************************************************************************)
(* What decides where a connection goes, in one run: a name server's       *)
(* client, the pools of fake addresses, the dispatcher with its sniffing,  *)
(* the balancer and the observer of outbounds.  Init chooses one of the    *)
(* five, and only its part moves.                                          *)
(***************************************************************************)
EXTENDS Routes

CONSTANTS a, q1, q2, d1, d2, d3, c1, c2

VARIABLES
    subject,                                                             \* which of the five
    outbounds, flux, ticking, period, Results                            \* Observatory

\* A pool larger than its cache, with its first address in the middle, one of another
\* range, and one that overlaps the first and cannot start.
MCPools ==
    {[ip |-> 2, net |-> 0, size |-> 4, lruSize |-> 2],
     [ip |-> 4, net |-> 4, size |-> 2, lruSize |-> 1],
     [ip |-> 2, net |-> 2, size |-> 2, lruSize |-> 2]}

\* No override, one for fake addresses, one for content.
MCOverrides == {{}, {"fakedns"}, {"http", "tls"}}

Setting(strategy, expected, baselines, maxRTT, fallbackTag) ==
    [strategy |-> strategy, expected |-> expected, baselines |-> baselines,
     maxRTT |-> maxRTT, fallbackTag |-> fallbackTag]

\* The modes that selectLeastLoad documents, with baselines in both orders.
MCSettings ==
    {Setting("random", 0, <<>>, 0, 0), Setting("leastping", 0, <<>>, 0, 1),
     Setting("leastload", 1, <<>>, 6, 0), Setting("leastload", 0, <<1, 3>>, 0, 0),
     Setting("leastload", 2, <<3, 2>>, 0, 0)}

MCWeight == <<1, 2>>

O == INSTANCE Observatory WITH
       Tags <- {d1, d2}, SamplingCount <- 2, MaxPeriods <- 2, MaxChanges <- 3, changes <- flux

dns == <<kind, now, ips, requests, serial, wire, landed, query, cleaner>>
fakedns == <<holders, call, calls>>
dispatcher == <<request, written, uplink, upState, downState, cache, pc, sniffers, loop, ctx,
                target, got>>
balancer == <<setting, handlers, default, override, changes, results, route>>
observatory == <<outbounds, flux, ticking, period, Results>>

Init ==
    /\ subject \in {"dns", "fakedns", "dispatcher", "balancer", "observatory"}
    /\ D!Init /\ F!Init /\ S!Init /\ Bal!Init /\ O!Init
    /\ subject # "dns" => kind = "udp"
    /\ subject # "dispatcher" =>
          request = [network |-> "tcp", sniffing |-> FALSE, metadataOnly |-> FALSE,
                     fake |-> FALSE, override |-> {}]
    /\ subject # "balancer" => setting.strategy = "random" /\ default = 1
    /\ subject # "observatory" => outbounds = {}

Next ==
    /\ UNCHANGED subject
    /\ IF subject = "dns" THEN D!Next ELSE UNCHANGED dns
    /\ IF subject = "fakedns" THEN F!Next ELSE UNCHANGED fakedns
    /\ IF subject = "dispatcher" THEN S!Next ELSE UNCHANGED dispatcher
    /\ IF subject = "balancer" THEN Bal!Next ELSE UNCHANGED balancer
    /\ IF subject = "observatory" THEN O!Next ELSE UNCHANGED observatory

\* The fairness of each module; that of the dispatcher and of the observer's ticker is written
\* out because they run from the beginning.
FairSpec ==
    /\ Init /\ [][Next]_<<subject, dns, fakedns, dispatcher, balancer, observatory>>
    /\ D!Fairness
    /\ F!Fairness
    /\ WF_dispatcher(subject = "dispatcher" /\ S!Sniffing)
    /\ WF_dispatcher(subject = "dispatcher" /\ (S!RouteNowhere \/ S!RouteToHandler))
    /\ WF_dispatcher(S!Read)
    /\ O!PeriodFairness
    /\ WF_observatory(subject = "observatory" /\ O!NextTick)

\* Goroutines are interchangeable, so one of each kind is watched.
\* Dns: a query that was told of its answers does not wait for the end of its context.
AnsweredQueryEnds == D!AnsweredQueryEnds(q1)
\* FakeDns: the search for a free address ends.
CallReturns == F!CallReturns(c1)
\* Dispatcher: what the inbound writes reaches the outbound, once and in order.
LinkDelivers == S!LinkDelivers
\* Observatory: in the end the observer knows the outbounds that there are, and no others.
ObservationSettles == <>[](subject = "observatory" /\ ticking => O!Settled)

=============================================================================
