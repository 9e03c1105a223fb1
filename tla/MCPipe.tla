---- MODULE MCPipe ----
(* Small instances of Pipe: without a limit, or with a limit of 0, so that  *)
(* one payload fills the pipe, blocking or discarding.  One writer writes   *)
(* twice, so that both can be parked on the full pipe at once.              *)
EXTENDS Pipe

MCMaxWrites == [w \in Writers |-> IF w = CHOOSE v \in Writers : TRUE THEN 2 ELSE 1]

MCOptions ==
  { [limit |-> -1, discardOverflow |-> FALSE],
    [limit |-> 0, discardOverflow |-> FALSE],
    [limit |-> 0, discardOverflow |-> TRUE] }
====
