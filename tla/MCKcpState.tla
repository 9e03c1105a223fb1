---- MODULE MCKcpState ----
(* One connection with its ping updater. *)
EXTENDS KcpState
====
