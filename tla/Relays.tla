------------------------------- MODULE Relays -------------------------------
(***************************************************************************)
(* A relay under names of its own, to stand beside a periodic task.        *)
(***************************************************************************)
CONSTANTS Proxies, MaxData

VARIABLES
    proxy, zero, token, onTimeout, checkTask, task, cancelled, copier, res, main, output,
    data, lull, early, orphans

R == INSTANCE Relay WITH pc <- copier

\* Relay: the timer finds the connection idle only after an interval without data.
NoEarlyTimeout == R!NoEarlyTimeout

=============================================================================
