---- MODULE PipeStream ----
(***************************************************************************)
(* What transport/pipe promises its users: a closable stream.  What goes   *)
(* in comes out once and in order; closing lets the reader drain what was  *)
(* accepted and then tells it io.EOF, interrupting throws the rest away.   *)
(* No locks, no notifiers, no blocked goroutines: those belong to module   *)
(* Pipe, which implements this one.                                        *)
(***************************************************************************)
EXTENDS Sequences

CONSTANT Payload        \* what can be written

VARIABLES input,        \* everything accepted so far, in order
          output,       \* everything handed to a reader so far, in order
          state,        \* "open", "closed" or "errord"
          ended         \* a reader was told io.EOF

vars == <<input, output, state, ended>>

Init == input = <<>> /\ output = <<>> /\ state = "open" /\ ended = FALSE

Put(m) ==
  /\ state = "open"
  /\ input' = Append(input, m)
  /\ UNCHANGED <<output, state, ended>>

\* A read hands over everything that is buffered.
Take ==
  /\ state # "errord"
  /\ output # input
  /\ output' = input
  /\ UNCHANGED <<input, state, ended>>

Shut(how) ==
  /\ state = "open"
  /\ state' = how
  /\ UNCHANGED <<input, output, ended>>

\* The end of the stream: closed, and nothing is left to read.
End ==
  /\ state = "closed"
  /\ output = input
  /\ ended' = TRUE
  /\ UNCHANGED <<input, output, state>>

Next ==
  \/ \E m \in Payload : Put(m)
  \/ Take
  \/ Shut("closed")
  \/ Shut("errord")
  \/ End

Spec == Init /\ [][Next]_vars
====
