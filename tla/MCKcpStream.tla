---- MODULE MCKcpStream ----
(* A small connection with either of two receiving windows: one smaller     *)
(* than what the sender may push, so that segments arrive beyond it, and a  *)
(* wide one, which buffers out of order.  Init chooses.                     *)
EXTENDS KcpStream

CONSTANT WideWindowSize

VARIABLE wide

W == INSTANCE KcpStream WITH WindowSize <- WideWindowSize

MCInit == wide \in BOOLEAN /\ Init

MCNext == UNCHANGED wide /\ IF wide THEN W!Next ELSE Next

\* KcpStream's fairness, with the actions of the window that was chosen.
MCSpec ==
  /\ MCInit /\ [][MCNext]_<<wide, vars>>
  /\ WF_vars(FlushData(window))
  /\ WF_vars(IF wide THEN W!FlushAcks ELSE FlushAcks)
  /\ WF_vars(\E next \in 0..MaxNumber : ReadMultiBuffer(next))
  /\ \A n \in 0..(MaxNumber - 1) :
       /\ SF_vars(\E seg \in dataNet :
                    seg.number = n /\ IF wide THEN W!ProcessData(seg) ELSE ProcessData(seg))
       /\ SF_vars(\E seg \in ackNet : n \in seg.numbers /\ ProcessAck(seg))
====
