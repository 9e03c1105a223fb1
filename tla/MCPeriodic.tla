----------------------------- MODULE MCPeriodic -----------------------------
(***************************************************************************)
(* A periodic task by itself, and the activity timer that runs periodic    *)
(* tasks in a relay, in one run: Init chooses one of the two, and only its *)
(* part moves.                                                             *)
(***************************************************************************)
EXTENDS Periodic, Relays

CONSTANTS c1, c2, t1, t2, t3, t4

VARIABLE subject    \* which of the two

relay == <<proxy, zero, token, onTimeout, checkTask, task, cancelled, copier, res, main,
           output, data, lull, early, orphans>>

\* A Mieru relay is one of freedom whose data leaves no token; it is tried with one choice
\* of timeouts.
MCInit ==
    /\ subject \in {"periodic", "relay"}
    /\ Init /\ R!Init
    /\ subject = "relay" => ~canFail
    /\ subject = "periodic" => proxy = "freedom"
    /\ subject = "periodic" \/ proxy = "mieru" => zero[1] /\ zero[2]

MCNext ==
    /\ UNCHANGED subject
    /\ \/ subject = "periodic" /\ Next /\ UNCHANGED relay
       \/ subject = "relay" /\ R!Next /\ UNCHANGED vars

\* The fairness of each module; that of Relay is written out because its timer is armed
\* from the beginning.
MCSpec ==
    /\ MCInit /\ [][MCNext]_<<subject, vars, relay>>
    /\ Fairness
    /\ \A k \in R!Tasks : WF_relay(subject = "relay" /\ R!Round(k))
    /\ \A g \in R!Copiers : WF_relay(subject = "relay" /\ R!SetTimeout(g))
    /\ WF_relay(subject = "relay" /\ (R!Run \/ R!Dispatched))

\* Relay: whatever its ends do, the connection and the tasks of its timer come to an end.
RelayEnds == <>[](subject = "relay" => R!Over)

=============================================================================
