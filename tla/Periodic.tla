------------------------------ MODULE Periodic ------------------------------
(***************************************************************************)
(* common/task/periodic.go: the task that runs Execute, waits for Interval *)
(* and runs it again, which cleans the caches of the DNS clients, the mux  *)
(* worker pool, the VMess validator and drives the activity timers.        *)
(*                                                                         *)
(* checkedExecute runs on the goroutine of a Start, and then on those of   *)
(* the timers it arms with time.AfterFunc; each round takes the lock two   *)
(* or three times and runs Execute without it.  A goroutine that may still *)
(* run Execute is a chain.  The goroutine of a timer arms its own model    *)
(* value again, since it ends with that step; arming always stores the     *)
(* timer in t.timer, so a stale t.timer never names somebody else's timer. *)
(***************************************************************************)
EXTENDS Naturals, FiniteSets

CONSTANTS
    Callers,     \* goroutines that call Start and Close
    Timers,      \* model values for the timers, one per chain
    FailModes,   \* the tasks considered: may Execute return an error?
    MaxStarts,   \* bound: calls of Start
    MaxCloses,   \* bound: calls of Close
    NoTimer      \* t.timer = nil

ASSUME PeriodicAssumption ==
    /\ FailModes \subseteq BOOLEAN
    /\ MaxStarts \in Nat
    /\ MaxCloses \in Nat
    /\ IsFiniteSet(Callers) /\ IsFiniteSet(Timers)
    /\ Callers \cap Timers = {}
    /\ NoTimer \notin Timers

VARIABLES
    canFail,   \* may t.Execute return an error?  fixed
    running,   \* t.running
    timer,     \* t.timer
    pc,        \* pc[g]: where goroutine g stands; a timer is also a goroutine
    starts,    \* calls of Start so far
    closes,    \* calls of Close so far
    stopped,   \* the last call was a Close, not a Start
    owed       \* Start returned nil; since then no Execute began and no Close was called

vars == <<canFail, running, timer, pc, starts, closes, stopped, owed>>

Goroutines == Callers \cup Timers
ChainPCs == {"armed", "check", "execute", "rearm"}
Chains == {g \in Goroutines : pc[g] \in ChainPCs}

Init ==
    /\ canFail \in FailModes
    /\ running = FALSE
    /\ timer = NoTimer
    /\ pc = [g \in Goroutines |-> "idle"]
    /\ starts = 0
    /\ closes = 0
    /\ stopped = FALSE
    /\ owed = FALSE

\* Mutant: Start does not ask whether the task runs already.
StartUnchecked(c) ==
    /\ pc[c] = "idle"
    /\ starts < MaxStarts
    /\ starts' = starts + 1
    /\ running' = TRUE
    /\ stopped' = FALSE
    /\ pc' = [pc EXCEPT ![c] = "check"]
    /\ UNCHANGED <<canFail, timer, closes, owed>>

\* Start: nothing to do if the task runs, otherwise a first round on this goroutine.
Start(c) ==
    /\ pc[c] = "idle"
    /\ starts < MaxStarts
    /\ starts' = starts + 1
    /\ running' = TRUE
    /\ pc' = IF running THEN pc ELSE [pc EXCEPT ![c] = "check"]
    /\ stopped' = FALSE
    /\ owed' = (owed \/ running)
    /\ UNCHANGED <<canFail, timer, closes>>

\* checkedExecute starts with hasClosed.
HasClosed(g) ==
    /\ pc[g] = "check"
    /\ pc' = [pc EXCEPT ![g] = IF running THEN "execute" ELSE "idle"]
    /\ owed' = (owed /\ ~running)
    /\ UNCHANGED <<canFail, running, timer, starts, closes, stopped>>

\* Execute runs without the lock and returns.
Execute(g) ==
    /\ pc[g] = "execute"
    /\ \E next \in {"rearm"} \cup (IF canFail THEN {"fail"} ELSE {}) :
          pc' = [pc EXCEPT ![g] = next]
    /\ UNCHANGED <<canFail, running, timer, starts, closes, stopped, owed>>

\* An error stops the task; on the goroutine of a Start, the caller does so once more.
Fail(g) ==
    /\ pc[g] = "fail"
    /\ running' = FALSE
    /\ pc' = [pc EXCEPT ![g] = IF g \in Callers THEN "failStart" ELSE "idle"]
    /\ UNCHANGED <<canFail, timer, starts, closes, stopped, owed>>

FailStart(c) ==
    /\ pc[c] = "failStart"
    /\ running' = FALSE
    /\ pc' = [pc EXCEPT ![c] = "idle"]
    /\ UNCHANGED <<canFail, timer, starts, closes, stopped, owed>>

\* Mutant: the task runs once and is not armed again.
RearmNever(g) ==
    /\ pc[g] = "rearm"
    /\ pc' = [pc EXCEPT ![g] = "idle"]
    /\ owed' = (owed \/ (running /\ g \in Callers))
    /\ UNCHANGED <<canFail, running, timer, starts, closes, stopped>>

\* The next round, unless the task was closed meanwhile.
Rearm(g) ==
    /\ pc[g] = "rearm"
    /\ \/ /\ ~running
          /\ pc' = [pc EXCEPT ![g] = "idle"]
          /\ UNCHANGED <<timer, owed>>
       \/ /\ running
          /\ \E t \in Timers :
                /\ IF g \in Timers THEN t = g ELSE pc[t] = "idle"
                /\ timer' = t
                /\ pc' = [[pc EXCEPT ![g] = "idle"] EXCEPT ![t] = "armed"]
          /\ owed' = (owed \/ g \in Callers)
    /\ UNCHANGED <<canFail, running, starts, closes, stopped>>

\* The interval is over.
Fire(t) ==
    /\ pc[t] = "armed"
    /\ pc' = [pc EXCEPT ![t] = "check"]
    /\ UNCHANGED <<canFail, running, timer, starts, closes, stopped, owed>>

\* timer.Stop has no effect on a timer that fired.
StopTimer ==
    /\ timer' = NoTimer
    /\ pc' = [g \in Goroutines |-> IF g = timer /\ pc[g] = "armed" THEN "idle" ELSE pc[g]]

\* Mutant: the timer is stopped, the flag is forgotten.
CloseKeepsRunning(c) ==
    /\ pc[c] = "idle"
    /\ closes < MaxCloses
    /\ closes' = closes + 1
    /\ StopTimer
    /\ stopped' = TRUE
    /\ owed' = FALSE
    /\ UNCHANGED <<canFail, running, starts>>

Close(c) ==
    /\ pc[c] = "idle"
    /\ closes < MaxCloses
    /\ closes' = closes + 1
    /\ running' = FALSE
    /\ StopTimer
    /\ stopped' = TRUE
    /\ owed' = FALSE
    /\ UNCHANGED <<canFail, starts>>

\* What goroutine g does once it is in checkedExecute, and when its timer fires.
Round(g) ==
    \/ HasClosed(g)
    \/ Execute(g)
    \/ Rearm(g)
    \/ Fail(g)
    \/ g \in Callers /\ FailStart(g)
    \/ g \in Timers /\ Fire(g)

Next ==
    \/ \E c \in Callers : Start(c) \/ Close(c)
    \/ \E g \in Goroutines : Round(g)

Spec == Init /\ [][Next]_vars

\* Goroutines are scheduled, Execute returns and timers fire; nobody has to call anything.
Fairness == \A g \in Goroutines : WF_vars(Round(g))

FairSpec == Spec /\ Fairness

-----------------------------------------------------------------------------
\* Type correctness; only a caller is past the end of a failed Start, and only
\* a timer waits to fire.
TypeOK ==
    /\ canFail \in BOOLEAN
    /\ running \in BOOLEAN
    /\ timer \in Timers \cup {NoTimer}
    /\ pc \in [Goroutines -> ChainPCs \cup {"idle", "fail", "failStart"}]
    /\ starts \in 0..MaxStarts
    /\ closes \in 0..MaxCloses
    /\ stopped \in BOOLEAN
    /\ owed \in BOOLEAN
    /\ \A g \in Goroutines : /\ pc[g] = "failStart" => g \in Callers
                             /\ pc[g] = "armed" => g \in Timers

\* A task that is marked running has a chain that will run Execute again, or a
\* goroutine about to clear the mark: what the early return of Start relies on.
RunningHasChain ==
    running => \E g \in Goroutines : pc[g] \in ChainPCs \cup {"fail"}

\* As long as Execute does not fail, a chain is added only by a Start after a
\* Close: Execute runs at most once at a time in a task that was never closed, and
\* a task closed and started again while it runs may get one more chain each time.
ChainBound ==
    canFail \/ Cardinality(Chains) <= 1 + closes

\* Closable (common/interfaces.go:8): once a task is closed, and not started again,
\* its timers and goroutines are gone, whatever they were doing at that time.
CloseStops ==
    stopped ~> (~stopped \/ Chains = {})

\* Runnable (common/interfaces.go:43): a Start that returned nil, though it may have
\* found the task running and done nothing, is followed by an Execute or a Close, in
\* a task whose Execute never fails (such as an activity timer's).
StartTakesEffectUnlessFailing == owed /\ ~canFail ~> ~owed

=============================================================================
