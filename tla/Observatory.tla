---------------------------- MODULE Observatory -----------------------------
(***************************************************************************)
(* app/observatory/burst: the scheduler of HealthPing.  Every period runs  *)
(* in a goroutine of its own, takes the list of outbounds at its start,    *)
(* pings each of them several times over the period, and at its end cleans *)
(* up by that list.  Periods overlap, because the last pings of one are    *)
(* still under way when the next begins, and outbounds are added and       *)
(* removed all the time: a period may delete what a later one has found,   *)
(* or bring back the results of an outbound that is gone.                  *)
(*                                                                         *)
(* Here Results is the set of outbounds that have an entry; what is in an  *)
(* entry, and what becomes of it, is in Balancer.                          *)
(***************************************************************************)
EXTENDS Naturals

CONSTANTS
    Tags,           \* outbounds that the selector of the observer may find
    SamplingCount,  \* pings per outbound and period
    MaxPeriods,     \* bound: periods under way at a time
    MaxChanges      \* bound: changes of the outbounds and pings lost to a broken network

VARIABLES
    outbounds,  \* what HandlerSelector.Select finds
    changes,    \* changes of it, and pings without a network, so far
    ticking,    \* the scheduler's goroutine runs
    period,     \* period[k]: a period under way, its outbounds and the pings that are left
    Results     \* keys of HealthPing.Results

vars == <<outbounds, changes, ticking, period, Results>>

Periods == 1..MaxPeriods
Idle == [pc |-> "none", left |-> <<>>]

\* StartScheduler; the first period begins at once, by Tick.
Init ==
    /\ outbounds \in SUBSET Tags
    /\ changes = 0
    /\ ticking = TRUE
    /\ period = [k \in Periods |-> Idle]
    /\ Results = {}

\* AddHandler or RemoveHandler of the manager.
Change(t) ==
    /\ changes < MaxChanges
    /\ outbounds' = IF t \in outbounds THEN outbounds \ {t} ELSE outbounds \cup {t}
    /\ changes' = changes + 1
    /\ UNCHANGED <<ticking, period, Results>>

\* The ticker begins a period.
Tick(k) ==
    /\ ticking
    /\ period[k].pc = "none"
    /\ period' = [period EXCEPT ![k].pc = "select"]
    /\ UNCHANGED <<outbounds, changes, ticking, Results>>

\* Its goroutine calls the selector, and doCheck arms the pings.
StartCheck(k) ==
    /\ period[k].pc = "select"
    /\ period' = [period EXCEPT ![k] =
                    [pc |-> "check", left |-> [t \in outbounds |-> SamplingCount]]]
    /\ UNCHANGED <<outbounds, changes, ticking, Results>>

\* doCheck receives the result of a ping and puts it, unless the network is down.
PutResult(t) == Results \cup {t}

Ping(k, t, down) ==
    /\ period[k].pc = "check" /\ t \in DOMAIN period[k].left /\ period[k].left[t] > 0
    /\ period' = [period EXCEPT ![k].left[t] = @ - 1]
    /\ down => changes < MaxChanges
    /\ changes' = IF down THEN changes + 1 ELSE changes
    /\ Results' = IF down THEN Results ELSE PutResult(t)
    /\ UNCHANGED <<outbounds, ticking>>

\* Mutant: Cleanup keeps the results of outbounds that are gone.
CleanupNothing(tags) == Results
Cleanup(tags) == Results \cap tags

\* All results are in: Cleanup with the list from the start of the period.
FinishCheck(k) ==
    /\ period[k].pc = "check"
    /\ \A t \in DOMAIN period[k].left : period[k].left[t] = 0
    /\ Results' = Cleanup(DOMAIN period[k].left)
    /\ period' = [period EXCEPT ![k] = Idle]
    /\ UNCHANGED <<outbounds, changes, ticking>>

\* Observer.Close: periods under way go on.
StopScheduler ==
    /\ ticking
    /\ ticking' = FALSE
    /\ UNCHANGED <<outbounds, changes, period, Results>>

PeriodStep(k) ==
    \/ StartCheck(k)
    \/ \E t \in Tags, down \in BOOLEAN : Ping(k, t, down)
    \/ FinishCheck(k)

NextTick == \E k \in Periods : Tick(k)

Next ==
    \/ \E t \in Tags : Change(t)
    \/ NextTick
    \/ \E k \in Periods : PeriodStep(k)
    \/ StopScheduler

Spec == Init /\ [][Next]_vars

\* The ticker ticks, goroutines run, and every ping ends because it has a timeout.  The
\* network works again in the end, because MaxChanges bounds the pings that find it broken.
PeriodFairness == \A k \in Periods : WF_vars(PeriodStep(k))

Fairness == PeriodFairness /\ WF_vars(NextTick)

FairSpec == Spec /\ Fairness

-----------------------------------------------------------------------------
\* Once the outbounds stay the same and the network works, the observer comes to know all of them and no others,
\* whatever the periods that overlapped the last change delete or bring back.
Settled == Results = outbounds
ObservationSettles == <>[](ticking => Settled)

=============================================================================
