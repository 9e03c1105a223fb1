------------------------------ MODULE MuxPool -------------------------------
(***************************************************************************)
(* The pool of mux connections of an outbound: ClientManager.Dispatch,     *)
(* IncrementalWorkerPicker and its cleanup, which is a periodic task that  *)
(* fails, and so stops, when the pool is empty (common/mux/client.go,      *)
(* common/task/periodic.go).                                               *)
(*                                                                         *)
(* A worker is what the pool can see of one: how many sessions it has and  *)
(* had, whether its session manager is closed, and whether it is done.     *)
(* Mux is what happens inside.  A scan of the pool reads all workers in    *)
(* one step; Dispatch looks at the worker again before it uses it.         *)
(***************************************************************************)
EXTENDS Naturals, Sequences, FiniteSets, SequencesExt

CONSTANTS
    Callers,          \* goroutines that call ClientManager.Dispatch
    Timer,            \* the goroutine of the task's timer
    MaxConcurrency,   \* strategy: sessions at a time, if they are limited
    MaxConnection,    \* strategy: sessions in all, if they are limited
    Attempts,         \* picks in one call of Dispatch
    MaxWorkers,       \* bound: workers made
    MaxCalls          \* bound: calls of Dispatch

VARIABLES
    workers,    \* p.workers
    worker,     \* all workers ever made, in order
    call,       \* call[c]: where a call stands, with which worker, how often it has tried
    running,    \* cleanupTask.running
    round,      \* round[g]: where a round of the task stands
    awaited,    \* calls that were about to start the task when its timer was armed
    calls,      \* calls so far
    panicked,   \* common.Must has been given an error
    wasted,     \* wasted[c]: attempts in vain since a worker last filled up, closed or was leaving
    lost        \* the last Start found a round that had failed and not yet said so

vars == <<workers, worker, call, running, round, awaited, calls, panicked, wasted, lost>>

Goroutines == Callers \cup {Timer}
Idle == [pc |-> "idle", w |-> 0, tries |-> 0]

Init ==
    /\ workers = <<>>
    /\ worker = <<>>
    /\ call = [c \in Callers |-> Idle]
    /\ running = FALSE
    /\ round = [g \in Goroutines |-> "none"]
    /\ awaited = {}
    /\ calls = 0
    /\ panicked = FALSE
    /\ wasted = [c \in Callers |-> 0]
    /\ lost = FALSE

Closed(w) == worker[w].done
IsClosing(w) == worker[w].count >= MaxConnection
IsFull(w) == IsClosing(w) \/ Closed(w) \/ worker[w].size >= MaxConcurrency

\* Between the monitor's CloseIfNoSession and its done.Close a worker takes no session and
\* does not look full.
Leaving(w) == ~worker[w].open /\ ~worker[w].done

\* cleanup, under the lock of the pool: the workers that are not closed, in their order
Cleanup(ws) ==
    LET active == {i \in DOMAIN ws : ~Closed(ws[i])}
        Nth(k) == CHOOSE i \in active : Cardinality({j \in active : j < i}) = k - 1
    IN  [k \in 1..Cardinality(active) |-> ws[Nth(k)]]

\* findAvailable: the first one that is not full, or 0
FindAvailable == SelectInSeq(workers, LAMBDA w : ~IsFull(w))

Disturbed == wasted' = [c \in Callers |-> 0]

-----------------------------------------------------------------------------
(* ClientManager.Dispatch. *)

Dispatch(c) ==
    /\ call[c].pc = "idle"
    /\ calls < MaxCalls
    /\ calls' = calls + 1
    /\ call' = [call EXCEPT ![c].pc = "pick"]
    /\ wasted' = [wasted EXCEPT ![c] = 0]
    /\ UNCHANGED <<workers, worker, running, round, awaited, panicked, lost>>

\* Create: a new worker, at once the last of the pool.  The factory never fails.
PickNew(c) ==
    /\ call[c].pc = "pick"
    /\ FindAvailable = 0
    /\ Len(worker) < MaxWorkers
    /\ worker' = Append(worker, [size |-> 0, count |-> 0, open |-> TRUE, done |-> FALSE])
    /\ workers' = Append(Cleanup(workers), Len(worker) + 1)
    /\ call' = [call EXCEPT ![c].pc = "start", ![c].w = Len(worker) + 1]
    /\ UNCHANGED <<running, round, awaited, calls, panicked, wasted, lost>>

\* Mutant: the available worker stays where it is.
PickWithoutSwap(c) ==
    /\ call[c].pc = "pick"
    /\ FindAvailable # 0
    /\ call' = [call EXCEPT ![c].pc = "check", ![c].w = Last(workers)]
    /\ UNCHANGED <<workers, worker, running, round, awaited, calls, panicked, wasted, lost>>

\* The available worker changes places with the last one; what is returned is the worker
\* in its former place, which was the last one.
PickAvailable(c) ==
    /\ call[c].pc = "pick"
    /\ FindAvailable # 0
    /\ LET i == FindAvailable
           n == Len(workers)
       IN  /\ workers' = [workers EXCEPT ![n] = workers[i], ![i] = workers[n]]
           /\ call' = [call EXCEPT ![c].pc = "check", ![c].w = workers'[i]]
    /\ UNCHANGED <<worker, running, round, awaited, calls, panicked, wasted, lost>>

\* Mutant: the task is started with the first worker only.
StartOnce(c) ==
    /\ call[c].pc = "start"
    /\ IF running \/ call[c].w > 1
       THEN call' = [call EXCEPT ![c].pc = "check"] /\ UNCHANGED <<running, round>>
       ELSE /\ running' = TRUE
            /\ round' = [round EXCEPT ![c] = "check"]
            /\ call' = [call EXCEPT ![c].pc = "starting"]
    /\ awaited' = awaited \ {c}
    /\ UNCHANGED <<workers, worker, calls, panicked, wasted, lost>>

\* Periodic.Start of the cleanup task, outside the lock of the pool; its first round runs
\* on this goroutine.
StartTask(c) ==
    /\ call[c].pc = "start"
    /\ IF running
       THEN call' = [call EXCEPT ![c].pc = "check"] /\ UNCHANGED <<running, round>>
       ELSE /\ running' = TRUE
            /\ round' = [round EXCEPT ![c] = "check"]
            /\ call' = [call EXCEPT ![c].pc = "starting"]
    /\ lost' = (running /\ \E g \in Goroutines : round[g] = "fail")
    /\ awaited' = awaited \ {c}
    /\ UNCHANGED <<workers, worker, calls, panicked, wasted>>

\* The call tries again, or gives up after its last attempt.
Retry(c) ==
    /\ call' = [call EXCEPT ![c] = IF call[c].tries + 1 = Attempts THEN Idle
                                   ELSE [pc |-> "pick", w |-> 0, tries |-> call[c].tries + 1]]
    /\ wasted' = [wasted EXCEPT ![c] = IF Leaving(call[c].w) THEN 0 ELSE @ + 1]

\* ClientWorker.Dispatch: first the tests,
Check(c) ==
    /\ call[c].pc = "check"
    /\ IF IsFull(call[c].w)
       THEN Retry(c)
       ELSE call' = [call EXCEPT ![c].pc = "allocate"] /\ UNCHANGED wasted
    /\ UNCHANGED <<workers, worker, running, round, awaited, calls, panicked, lost>>

\* then the session, if the manager is still open.
Allocate(c) ==
    /\ call[c].pc = "allocate"
    /\ LET w == call[c].w
       IN  IF worker[w].open
           THEN /\ worker' = [worker EXCEPT ![w].size = @ + 1, ![w].count = @ + 1]
                /\ call' = [call EXCEPT ![c] = Idle]
                /\ Disturbed
           ELSE Retry(c) /\ UNCHANGED worker
    /\ UNCHANGED <<workers, running, round, awaited, calls, panicked, lost>>

-----------------------------------------------------------------------------
(* Rounds of the cleanup task. *)

\* Where goroutine g goes when its round is over.
RoundOver(g) == call' = [c \in Callers |-> IF c = g THEN [call[c] EXCEPT !.pc = "check"] ELSE call[c]]

HasClosed(g) ==
    /\ round[g] = "check"
    /\ IF running
       THEN round' = [round EXCEPT ![g] = "execute"] /\ UNCHANGED call
       ELSE round' = [round EXCEPT ![g] = "none"] /\ RoundOver(g)
    /\ UNCHANGED <<workers, worker, running, awaited, calls, panicked, wasted, lost>>

\* Mutant: the pool is cleaned before it is found empty.
CleanupFirst(g) ==
    /\ round[g] = "execute"
    /\ workers' = Cleanup(workers)
    /\ round' = [round EXCEPT ![g] = IF workers' = <<>> THEN "fail" ELSE "rearm"]
    /\ UNCHANGED <<worker, call, running, awaited, calls, panicked, wasted, lost>>

\* cleanupFunc, the task's Execute
CleanupFunc(g) ==
    /\ round[g] = "execute"
    /\ workers' = Cleanup(workers)
    /\ round' = [round EXCEPT ![g] = IF workers = <<>> THEN "fail" ELSE "rearm"]
    /\ UNCHANGED <<worker, call, running, awaited, calls, panicked, wasted, lost>>

Rearm(g) ==
    /\ round[g] = "rearm"
    /\ round' = [[round EXCEPT ![g] = "none"] EXCEPT ![Timer] = IF running THEN "armed" ELSE @]
    /\ awaited' = {c \in Callers : call[c].pc = "start"}
    /\ RoundOver(g)
    /\ UNCHANGED <<workers, worker, running, calls, panicked, wasted, lost>>

\* An error ends the task; to the caller of Start it is returned, and common.Must panics.
Fail(g) ==
    /\ round[g] = "fail"
    /\ running' = FALSE
    /\ round' = [round EXCEPT ![g] = "none"]
    /\ panicked' = (panicked \/ g \in Callers)
    /\ UNCHANGED <<workers, worker, call, awaited, calls, wasted, lost>>

\* 30 seconds later.  A call that was about to start the task before has done so by now.
Fire ==
    /\ round[Timer] = "armed"
    /\ awaited = {}
    /\ round' = [round EXCEPT ![Timer] = "check"]
    /\ UNCHANGED <<workers, worker, call, running, awaited, calls, panicked, wasted, lost>>

-----------------------------------------------------------------------------
(* The workers themselves. *)

SessionEnds(w) ==
    /\ worker[w].open
    /\ worker[w].size > 0
    /\ worker' = [worker EXCEPT ![w].size = @ - 1]
    /\ UNCHANGED <<workers, call, running, round, awaited, calls, panicked, wasted, lost>>

\* The monitor finds no session: the manager is closed, then the worker is done.
CloseIfNoSession(w) ==
    /\ worker[w].open
    /\ ~worker[w].done
    /\ worker[w].size = 0
    /\ worker' = [worker EXCEPT ![w].open = FALSE]
    /\ Disturbed
    /\ UNCHANGED <<workers, call, running, round, awaited, calls, panicked, lost>>

\* The connection ends: Process, or the loop that reads from it; and what comes after an
\* idle close.
Done(w) ==
    /\ ~worker[w].done
    /\ worker' = [worker EXCEPT ![w].done = TRUE]
    /\ Disturbed
    /\ UNCHANGED <<workers, call, running, round, awaited, calls, panicked, lost>>

\* The monitor of a worker that is done closes its sessions.
CloseSessions(w) ==
    /\ worker[w].done
    /\ worker[w].open
    /\ worker' = [worker EXCEPT ![w].open = FALSE, ![w].size = 0]
    /\ UNCHANGED <<workers, call, running, round, awaited, calls, panicked, wasted, lost>>

CallStep(c) == PickNew(c) \/ PickAvailable(c) \/ StartTask(c) \/ Check(c) \/ Allocate(c)
Round(g) == HasClosed(g) \/ CleanupFunc(g) \/ Rearm(g) \/ Fail(g) \/ (g = Timer /\ Fire)

Next ==
    \/ \E c \in Callers : Dispatch(c) \/ CallStep(c)
    \/ \E g \in Goroutines : Round(g)
    \/ \E w \in 1..Len(worker) :
          SessionEnds(w) \/ CloseIfNoSession(w) \/ Done(w) \/ CloseSessions(w)

Spec == Init /\ [][Next]_vars

\* Goroutines run and timers fire; workers need not end.
Fairness ==
    /\ \A c \in Callers : WF_vars(CallStep(c))
    /\ \A g \in Goroutines : WF_vars(Round(g))

FairSpec == Spec /\ Fairness

-----------------------------------------------------------------------------
\* PickAvailable may panic: it passes the error of the cleanup task's Start, and Start
\* returns that of the first round, to common.Must.  It never does, although the worker it
\* has just made may have ended, and other calls and rounds may have cleaned the pool, before
\* that round looks at it.
StartNeverPanics == ~panicked

\* The worker that is picked may be full, and the one that was free when it was picked may
\* be full when it is used; but as long as no worker fills up or closes, the third attempt of
\* a call succeeds, whatever other calls pick meanwhile.  So the 16 attempts run out only if
\* that happens again and again, or while the monitor of an idle worker is between its two
\* steps (Leaving).
AttemptsSucceed == \A c \in Callers : wasted[c] <= 2

\* Workers that are done leave the pool, by the task, which stops when the pool is empty and
\* is started with the next worker, or by a later pick; except after a Start that came
\* between the end of the task's last round and the mark that it has ended.
DeadWorkersLeave ==
    <>[](lost \/ \A i \in 1..Len(workers) : ~Closed(workers[i]))

=============================================================================
