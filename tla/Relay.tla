------------------------------- MODULE Relay --------------------------------
(***************************************************************************)
(* One connection in an outbound proxy: two goroutines copy the request    *)
(* and the response, task.Run waits for them, and an ActivityTimer cancels *)
(* the context when nothing was copied for an interval                     *)
(* (common/signal/timer.go, common/task/task.go, and freedom's Process as  *)
(* the example of the many proxies written that way).  The end of a copy   *)
(* sets a shorter timeout, so up to three periodic tasks run the check of  *)
(* the same timer.  The Mieru proxy is written that way, too, but does not *)
(* tell the timer what it copies.                                          *)
(*                                                                         *)
(* A task is a round of Periodic at a time: look whether it was closed,    *)
(* run check, arm the timer again.  Task 0 has the timeout of an idle      *)
(* connection, 1 that of the end of the request, 2 of the response.        *)
(***************************************************************************)
EXTENDS Naturals

CONSTANTS
    Proxies,    \* subset of {"freedom", "mieru"}
    MaxData     \* bound: pieces of data copied

VARIABLES
    proxy,      \* which one; fixed
    zero,       \* zero[g]: the timeout set by g is 0; fixed
    token,      \* t.updated holds a token
    onTimeout,  \* t.onTimeout # nil
    checkTask,  \* t.checkTask, or Nil
    task,       \* task[k]: its running flag, and where its round stands
    cancelled,  \* the context
    pc,         \* pc[g]: the copying goroutines
    res,        \* res[g]: what the copy returned
    main,       \* the goroutine of Dispatch and Process
    output,     \* link.Writer
    data,       \* pieces of data copied
    lull,       \* no data since task 0 was armed: "no", "begun", or "over" if it fired since
    early,      \* a check found the connection idle during both copies and not after a lull
    orphans     \* tasks that were started after they had been closed

vars == <<proxy, zero, token, onTimeout, checkTask, task, cancelled, pc, res, main, output,
          data, lull, early, orphans>>
ghosts == <<lull, early, orphans>>

Copiers == {1, 2}   \* the request and the response; each has the task of its own number
Tasks == {0} \cup Copiers
Nil == 3

\* CancelAfterInactivity, whose first check takes the token, and task.Run, which starts
\* the two goroutines.
Init ==
    /\ proxy \in Proxies
    /\ zero \in [Copiers -> BOOLEAN]
    /\ token = FALSE
    /\ onTimeout = TRUE
    /\ checkTask = 0
    /\ task = [k \in Tasks |-> [on |-> k = 0, pc |-> IF k = 0 THEN "armed" ELSE "idle"]]
    /\ cancelled = FALSE
    /\ pc = [g \in Copiers |-> "copy"]
    /\ res = [g \in Copiers |-> "none"]
    /\ main = "run"
    /\ output = "open"
    /\ data = 0
    /\ lull = "begun"
    /\ early = FALSE
    /\ orphans = {}

-----------------------------------------------------------------------------
(* ActivityTimer. *)

\* Until the first SetTimeout the only task is task 0.
BothCopied == \A g \in Copiers : pc[g] \in {"copy", "swap"}

\* Not a step of the timer: something happened that it should count.
Activity == lull' = IF BothCopied THEN "no" ELSE "over"

Update == token' = TRUE /\ Activity

\* Periodic.Close of task k, in the state t of the tasks
Close(t, k) ==
    [t EXCEPT ![k].on = FALSE, ![k].pc = IF @ = "armed" THEN "idle" ELSE @]

\* finish, under the lock of the timer; onTimeout cancels the context.
Finish(t) ==
    /\ cancelled' = (cancelled \/ onTimeout)
    /\ onTimeout' = FALSE
    /\ checkTask' = Nil
    /\ task' = IF checkTask = Nil THEN t ELSE Close(t, checkTask)

\* A round of task k: hasClosed; the first round runs inside SetTimeout.
HasClosed(k) ==
    /\ task[k].pc = "check"
    /\ task' = [task EXCEPT ![k].pc = IF task[k].on THEN "execute" ELSE "idle"]
    /\ pc' = [g \in Copiers |->
                IF g = k /\ ~task[k].on /\ pc[g] = "starting" THEN "set" ELSE pc[g]]
    /\ UNCHANGED <<proxy, zero, token, onTimeout, checkTask, cancelled, res, main, output, data, ghosts>>

\* A check that is about to call finish; before the end of a lull it is too early.
GiveUp(k) ==
    /\ task' = [task EXCEPT ![k].pc = "finish"]
    /\ early' = (early \/ (onTimeout /\ BothCopied /\ lull # "over"))

\* Mutant: the token is not looked at.
CheckIgnoresToken(k) ==
    /\ task[k].pc = "execute"
    /\ GiveUp(k)
    /\ UNCHANGED <<proxy, zero, token, onTimeout, checkTask, cancelled, pc, res, main, output,
                   data, lull, orphans>>

\* check: with a token the connection is in use.
Check(k) ==
    /\ task[k].pc = "execute"
    /\ \/ /\ token
          /\ token' = FALSE
          /\ task' = [task EXCEPT ![k].pc = "rearm"]
          /\ UNCHANGED early
       \/ /\ ~token
          /\ GiveUp(k)
          /\ UNCHANGED token
    /\ UNCHANGED <<proxy, zero, onTimeout, checkTask, cancelled, pc, res, main, output, data,
                   lull, orphans>>

\* finish does not look again: an Update since the check is ignored.
Expire(k) ==
    /\ task[k].pc = "finish"
    /\ Finish([task EXCEPT ![k].pc = "rearm"])
    /\ UNCHANGED <<proxy, zero, token, pc, res, main, output, data, lull, early, orphans>>

\* The interval begins, unless the task was closed.
Rearm(k) ==
    /\ task[k].pc = "rearm"
    /\ task' = [task EXCEPT ![k].pc = IF task[k].on THEN "armed" ELSE "idle"]
    /\ lull' = IF k = 0 /\ task[k].on /\ lull = "no" THEN "begun" ELSE lull
    /\ pc' = [g \in Copiers |-> IF g = k /\ pc[g] = "starting" THEN "set" ELSE pc[g]]
    /\ UNCHANGED <<proxy, zero, token, onTimeout, checkTask, cancelled, res, main, output, data,
                   early, orphans>>

\* The interval is over.
Fire(k) ==
    /\ task[k].pc = "armed"
    /\ task' = [task EXCEPT ![k].pc = "check"]
    /\ lull' = IF k = 0 /\ lull = "begun" THEN "over" ELSE lull
    /\ UNCHANGED <<proxy, zero, token, onTimeout, checkTask, cancelled, pc, res, main, output, data,
                   early, orphans>>

-----------------------------------------------------------------------------
(* SetTimeout, called when a copy ends. *)

\* Under the lock: no time left, or a new task for the old one.
Swap(g) ==
    /\ pc[g] = "swap"
    /\ IF zero[g]
       THEN /\ Finish(task)
            /\ pc' = [pc EXCEPT ![g] = "set"]
       ELSE /\ checkTask' = g
            /\ task' = IF checkTask = Nil THEN task ELSE Close(task, checkTask)
            /\ pc' = [pc EXCEPT ![g] = "update"]
            /\ UNCHANGED <<onTimeout, cancelled>>
    /\ lull' = "over"
    /\ UNCHANGED <<proxy, zero, token, res, main, output, data, early, orphans>>

\* Without it: the token for the first check,
SetToken(g) ==
    /\ pc[g] = "update"
    /\ Update
    /\ pc' = [pc EXCEPT ![g] = "start"]
    /\ UNCHANGED <<proxy, zero, onTimeout, checkTask, task, cancelled, res, main, output, data, early, orphans>>

\* and Start, which runs the task even if it was closed in the meantime.
StartTask(g) ==
    /\ pc[g] = "start"
    /\ task' = [task EXCEPT ![g] = [on |-> TRUE, pc |-> "check"]]
    /\ pc' = [pc EXCEPT ![g] = "starting"]
    /\ orphans' = IF checkTask = g THEN orphans ELSE orphans \cup {g}
    /\ UNCHANGED <<proxy, zero, token, onTimeout, checkTask, cancelled, res, main, output, data,
                   lull, early>>

-----------------------------------------------------------------------------
(* Process. *)

\* buf.Copy, of freedom with UpdateActivity
Copy(g) ==
    /\ pc[g] = "copy"
    /\ data < MaxData
    /\ data' = data + 1
    /\ IF proxy = "freedom" THEN Update ELSE Activity /\ UNCHANGED token
    /\ UNCHANGED <<proxy, zero, onTimeout, checkTask, task, cancelled, pc, res, main, output, early, orphans>>

CopyEnd(g, r) ==
    /\ pc[g] = "copy"
    /\ pc' = [pc EXCEPT ![g] = "swap"]
    /\ res' = [res EXCEPT ![g] = r]
    /\ UNCHANGED <<proxy, zero, token, onTimeout, checkTask, task, cancelled, main, output, data, ghosts>>

\* OnSuccess: a response that was copied to its end closes link.Writer.
Return(g) ==
    /\ pc[g] = "set"
    /\ pc' = [pc EXCEPT ![g] = "done"]
    /\ output' = IF g = 2 /\ res[g] = "ok" /\ output = "open" THEN "closed" ELSE output
    /\ UNCHANGED <<proxy, zero, token, onTimeout, checkTask, task, cancelled, res, main, data, ghosts>>

Ended(r) == {g \in Copiers : pc[g] = "done" /\ res[g] = r}

\* Mutant: Run waits for its tasks only.
RunWaitsForAll ==
    /\ main = "run"
    /\ \/ Ended("err") # {} /\ main' = "failed"
       \/ Ended("ok") = Copiers /\ main' = "succeeded"
    /\ UNCHANGED <<proxy, zero, token, onTimeout, checkTask, task, cancelled, pc, res, output, data, ghosts>>

\* task.Run: the first error, the end of the context, or all permits are back.
Run ==
    /\ main = "run"
    /\ \/ (Ended("err") # {} \/ cancelled) /\ main' = "failed"
       \/ Ended("ok") = Copiers /\ main' = "succeeded"
    /\ UNCHANGED <<proxy, zero, token, onTimeout, checkTask, task, cancelled, pc, res, output, data, ghosts>>

\* Handler.Dispatch: an error interrupts link.Writer, which drops what the pipe holds
\* unless the pipe was closed before.
Dispatched ==
    /\ main \in {"failed", "succeeded"}
    /\ main' = "done"
    /\ output' = IF output # "open" THEN output
                 ELSE IF main = "failed" THEN "errord" ELSE "closed"
    /\ UNCHANGED <<proxy, zero, token, onTimeout, checkTask, task, cancelled, pc, res, data, ghosts>>

Round(k) == HasClosed(k) \/ Check(k) \/ Expire(k) \/ Rearm(k) \/ Fire(k)
SetTimeout(g) == Swap(g) \/ SetToken(g) \/ StartTask(g) \/ Return(g)

Next ==
    \/ \E k \in Tasks : Round(k)
    \/ \E g \in Copiers : SetTimeout(g) \/ Copy(g) \/ \E r \in {"ok", "err"} : CopyEnd(g, r)
    \/ Run
    \/ Dispatched

Spec == Init /\ [][Next]_vars

\* Timers fire and goroutines are scheduled; the peers need not send, nor close.
Fairness ==
    /\ \A k \in Tasks : WF_vars(Round(k))
    /\ \A g \in Copiers : WF_vars(SetTimeout(g))
    /\ WF_vars(Run \/ Dispatched)

FairSpec == Spec /\ Fairness

-----------------------------------------------------------------------------
\* A check of the timer finds the connection idle only after an interval in which nothing
\* was copied, up to the first SetTimeout: data counts that arrives while the task is
\* armed, before its check or while it is armed again.  Data that arrives between the
\* check and finish does not; and of Mieru the property does not hold.
NoEarlyTimeout == proxy = "freedom" => ~early

\* Run and Process have returned, the link is closed or interrupted, and the tasks of the
\* timer are gone, except one that SetTimeout started after it had been closed: the timer
\* forgot it, and its check runs for ever.
Over ==
    /\ main = "done"
    /\ output # "open"
    /\ \A k \in Tasks : task[k].pc = "idle" \/ k \in orphans

\* However the two ends of the connection behave, also if both hang, the relay comes to its
\* end: by the copies, by an error, or by the timer, whose context Run watches.
RelayEnds == <>[]Over

=============================================================================
