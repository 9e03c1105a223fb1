------------------------------ MODULE Balancer ------------------------------
(***************************************************************************)
(* Which outbound gets a connection that a rule gives to a balancer: the   *)
(* outbounds that the manager holds (app/proxyman/outbound), what the      *)
(* burst observer knows of them, the strategies that choose by it          *)
(* (app/router) and routedDispatch (app/dispatcher).                       *)
(*                                                                         *)
(* Outbounds, observations and the override change between the steps of a  *)
(* connection; Observatory says when results come and go, here they may    *)
(* at any time, also those of outbounds that are gone.                     *)
(*                                                                         *)
(* Tags are numbers, for their order.  A round-trip time is a small number *)
(* or rttFailed.  A ring of round-trip times is the sequence of those that *)
(* are still valid, oldest first.  Weight[t] is the factor that the        *)
(* configured cost of t comes to.                                          *)
(***************************************************************************)
EXTENDS Integers, Sequences, FiniteSets, FiniteSetsExt, Functions

CONSTANTS
    Tags,           \* tags of outbounds, positive
    Selected,       \* those that the balancer's selectors match
    Settings,       \* settings of the balancer to choose from
    Weight,         \* [Tags -> Nat]
    SamplingCount,  \* size of a ring
    RTTs,           \* round-trip times, positive, in the unit of time.Duration
    Millisecond,    \* in that unit
    MaxChanges      \* bound: changes of the outbounds and of the override

VARIABLES
    setting,    \* the balancer's settings; they do not change
    handlers,   \* tags of Manager.taggedHandler
    default,    \* tag of defaultHandler, or None
    override,   \* target of the balancer's override, or None
    changes,    \* changes so far
    results,    \* HealthPing.Results
    route       \* the goroutine that routes a connection; idle, who got the last one

vars == <<setting, handlers, default, override, changes, results, route>>

None == 0
rttFailed == Max(RTTs) + 1
Idle == [pc |-> "idle", candidates |-> {}, tag |-> None]

Init ==
    /\ setting \in Settings
    /\ handlers = Tags
    /\ default \in handlers
    /\ override = None
    /\ changes = 0
    /\ results = <<>>
    /\ route = Idle

-----------------------------------------------------------------------------
(* The manager. *)

\* AddHandler, also in place of a handler with the same tag.
AddHandler(t) ==
    /\ changes < MaxChanges
    /\ handlers' = handlers \cup {t}
    /\ default' = IF default = None THEN t ELSE default
    /\ changes' = changes + 1
    /\ UNCHANGED <<setting, override, results, route>>

RemoveHandler(t) ==
    /\ changes < MaxChanges
    /\ t \in handlers
    /\ handlers' = handlers \ {t}
    /\ default' = IF default = t THEN None ELSE default
    /\ changes' = changes + 1
    /\ UNCHANGED <<setting, override, results, route>>

\* OverrideBalancer; the target is not looked up.
OverrideBalancer(t) ==
    /\ changes < MaxChanges
    /\ override # t
    /\ override' = t
    /\ changes' = changes + 1
    /\ UNCHANGED <<setting, handlers, default, results, route>>

Select == handlers \cap Selected

-----------------------------------------------------------------------------
(* What is observed. *)

\* Put into the ring, in place of the oldest.
Put(ring, rtt) ==
    IF Len(ring) = SamplingCount THEN Append(Tail(ring), rtt) ELSE Append(ring, rtt)

PutResult(t, rtt) ==
    /\ results' = [u \in DOMAIN results \cup {t} |->
                     IF u # t THEN results[u]
                     ELSE Put(IF t \in DOMAIN results THEN results[t] ELSE <<>>, rtt)]
    /\ UNCHANGED <<setting, handlers, default, override, changes, route>>

\* The oldest result is outdated.
Expire(t) ==
    /\ t \in DOMAIN results /\ results[t] # <<>>
    /\ results' = [results EXCEPT ![t] = Tail(@)]
    /\ UNCHANGED <<setting, handlers, default, override, changes, route>>

\* Cleanup deletes the results of an outbound.
Forget(t) ==
    /\ t \in DOMAIN results
    /\ results' = [u \in DOMAIN results \ {t} |-> results[u]]
    /\ UNCHANGED <<setting, handlers, default, override, changes, route>>

-----------------------------------------------------------------------------
(* The statistics of a ring, in whole units as time.Duration keeps them. *)

\* Places of the results of pings that did not fail.
Valid(ring) == {i \in DOMAIN ring : ring[i] # rttFailed}
Fail(ring) == Len(ring) - Cardinality(Valid(ring))

Sum(s) ==
    LET sum[i \in 0..Len(s)] == IF i = 0 THEN 0 ELSE sum[i - 1] + s[i]
    IN  sum[Len(s)]

\* The mean of the values at the places of valid results.
Mean(ring, values) ==
    Sum([i \in 1..Len(ring) |-> IF i \in Valid(ring) THEN values[i] ELSE 0])
        \div Cardinality(Valid(ring))

Sqrt(n) == Max({r \in 0..n : r * r <= n})

Average(ring) == IF Valid(ring) = {} THEN 0 ELSE Mean(ring, ring)

Deviation(ring) ==
    LET Square(x) == x * x
        squares == [i \in 1..Len(ring) |-> Square(ring[i] - Average(ring))]
    IN  IF Valid(ring) = {} THEN 0
        ELSE IF Cardinality(Valid(ring)) = 1 THEN Average(ring) \div 2
        ELSE Sqrt(Mean(ring, squares))

\* createResult: an outbound without a valid result is not alive.
Alive(t) == Len(results[t]) # Fail(results[t])

\* Its Delay is in whole milliseconds.
Delay(t) == Average(results[t]) \div Millisecond

-----------------------------------------------------------------------------
(* The strategies, applied to candidates. *)

\* RandomStrategy with aliveOnly: a candidate that was not observed counts as alive.
RandomChoice(candidates) == {t \in candidates : t \notin DOMAIN results \/ Alive(t)}

\* LeastPingStrategy; the order of the observations, which come from a map, decides a tie.
LeastPingChoice(candidates) ==
    LET alive == {t \in candidates \cap DOMAIN results : Alive(t)}
    IN  {t \in alive : \A u \in alive : Delay(t) <= Delay(u)}

Cost(t) == Deviation(results[t]) * Weight[t]

\* The comparison of leastloadSort.
Before(t, u) ==
    LET Less(x, y, next) == x < y \/ (x = y /\ next)
        r == results[t]
        q == results[u]
    IN  Less(Cost(t), Cost(u),
          Less(Average(r), Average(q), Less(Fail(r), Fail(q), Less(Len(q), Len(r), t < u))))

Rank(t, nodes) == Cardinality({u \in nodes : Before(u, t)})

\* getNodes: the candidates that are alive and fast enough, in whole milliseconds.
Qualified(candidates) ==
    {t \in candidates \cap DOMAIN results :
        Alive(t) /\ (setting.maxRTT = 0 \/ Delay(t) < setting.maxRTT \div Millisecond)}
getNodes(candidates) ==
    LET nodes == Qualified(candidates)
    IN  [k \in 1..Cardinality(nodes) |-> CHOOSE t \in nodes : Rank(t, nodes) = k - 1]

\* The loop over the baselines: count grows while the next node is below one of them, until
\* enough nodes are.
\* Mutant: a node at the baseline is taken too.
CountIncluding(nodes, expected) ==
    LET count[k \in 0..Len(setting.baselines)] ==
          IF k = 0 THEN 0
          ELSE LET c == count[k - 1]
               IN  IF c >= expected THEN c
                   ELSE Max({i \in c..Len(nodes) : \A j \in (c + 1)..i :
                                Cost(nodes[j]) <= setting.baselines[k]})
    IN  count[Len(setting.baselines)]
CountBelow(nodes, expected) ==
    LET count[k \in 0..Len(setting.baselines)] ==
          IF k = 0 THEN 0
          ELSE LET c == count[k - 1]
               IN  IF c >= expected THEN c
                   ELSE Max({i \in c..Len(nodes) : \A j \in (c + 1)..i :
                                Cost(nodes[j]) < setting.baselines[k]})
    IN  count[Len(setting.baselines)]

selectLeastLoad(nodes) ==
    LET expected == Max({setting.expected, 1})
        count == CountBelow(nodes, expected)
    IN  IF nodes = <<>> \/ setting.expected > Len(nodes) THEN nodes
        ELSE IF setting.baselines = <<>> THEN SubSeq(nodes, 1, expected)
        ELSE IF setting.expected > 0 /\ count < expected THEN SubSeq(nodes, 1, expected)
        ELSE SubSeq(nodes, 1, count)

LeastLoadChoice(candidates) == Range(selectLeastLoad(getNodes(candidates)))

Choice(candidates) ==
    CASE setting.strategy = "random" -> RandomChoice(candidates)
      [] setting.strategy = "leastping" -> LeastPingChoice(candidates)
      [] setting.strategy = "leastload" -> LeastLoadChoice(candidates)

-----------------------------------------------------------------------------
(* Routing a connection that a rule gives to the balancer. *)

SelectOutbounds ==
    /\ route.pc = "idle"
    /\ route' = [pc |-> "pick", candidates |-> Select, tag |-> None]
    /\ UNCHANGED <<setting, handlers, default, override, changes, results>>

\* The override, one of the strategy's choice, or the fallback if that is empty.
PickOutbound ==
    /\ route.pc = "pick"
    /\ \E t \in IF override # None THEN {override}
                ELSE IF Choice(route.candidates) # {} THEN Choice(route.candidates)
                ELSE {setting.fallbackTag} :
          route' = [pc |-> "picked", candidates |-> {}, tag |-> t]
    /\ UNCHANGED <<setting, handlers, default, override, changes, results>>

\* routedDispatch looks the tag up; if it is gone the default handler gets the connection,
\* and if there is none the link is closed and interrupted, for which None stands.
Dispatch ==
    /\ route.pc = "picked"
    /\ route' = [Idle EXCEPT !.tag = IF route.tag \in handlers THEN route.tag ELSE default]
    /\ UNCHANGED <<setting, handlers, default, override, changes, results>>

-----------------------------------------------------------------------------
Next ==
    \/ \E t \in Tags : AddHandler(t) \/ RemoveHandler(t)
    \/ \E t \in Tags \cup {None} : OverrideBalancer(t)
    \/ \E t \in Selected, rtt \in RTTs \cup {rttFailed} : PutResult(t, rtt)
    \/ \E t \in Selected : Expire(t) \/ Forget(t)
    \/ SelectOutbounds \/ PickOutbound \/ Dispatch

Spec == Init /\ [][Next]_vars

-----------------------------------------------------------------------------
(* What selectLeastLoad is documented to select (strategy_leastload.go:83), of the
   qualified candidates. *)

Below(nodes, b) == {t \in nodes : Cost(t) < b}
Best(nodes, n) == {t \in nodes : Rank(t, nodes) < n}

Documented(nodes) ==
    LET expected == Max({setting.expected, 1})
        matching == {i \in DOMAIN setting.baselines :
                        Cardinality(Below(nodes, setting.baselines[i])) >= expected}
    IN  IF setting.baselines = <<>> THEN Best(nodes, expected)
        ELSE IF matching # {} THEN Below(nodes, setting.baselines[Min(matching)])
        ELSE IF setting.expected > 0 THEN Best(nodes, expected)
        ELSE {}

\* The nodes that the loop over sorted nodes and baselines selects are those of the
\* documentation: the expected number of best nodes, or all below the first baseline that
\* gives enough, in whatever order the baselines are, whatever the rings hold.
LeastLoadAsDocumented ==
    (route.pc = "pick" /\ setting.strategy = "leastload") =>
       LeastLoadChoice(route.candidates) = Documented(Qualified(route.candidates))

=============================================================================
