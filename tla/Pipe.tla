---- MODULE Pipe ----
(***************************************************************************)
(* transport/pipe: the in-memory pipe every proxied connection runs        *)
(* through (dispatcher links, mux sessions, DNS over TCP...).  Goroutines  *)
(* share a buffer under a mutex and park on two one-slot notifiers         *)
(* (common/signal.Notifier) or on a done.Instance.  A critical section is  *)
(* one action; between the unlock and the Signal() that follows it every   *)
(* other goroutine may run.                                                *)
(*                                                                         *)
(* Data: a payload is one unit of length and is named <<writer, k>>, the   *)
(* k-th write of that writer; limits count payloads.  Empty writes return  *)
(* at once in the code and are left out, so data is nil iff it is empty.   *)
(***************************************************************************)
EXTENDS Integers, Sequences, SequencesExt

CONSTANTS Writers, Readers, \* goroutines
          Options,          \* the options a pipe may be built with
          MaxWrites         \* bound: the writes of each writer

\* pipeOption; a negative limit is no limit.
Option == [limit : Int, discardOverflow : BOOLEAN]

ASSUME OptionsAssumption == Options \subseteq Option
ASSUME MaxWritesAssumption == MaxWrites \in [Writers -> Nat]

VARIABLES option,                  \* pipeOption: limit, discardOverflow
          data, state,             \* guarded by the mutex
          readSignal, writeSignal, \* Notifier: a channel of capacity one
          done,                    \* done.Instance
          wpc, sent, wret,         \* per writer: control, writes begun, last result
          rpc, timed,              \* per reader: control, has a timer
          accepted, taken, ended   \* history: payloads merged in, payloads read out,
                                   \* io.EOF was returned to a reader

pipeVars == <<option, data, state, readSignal, writeSignal, done>>
writerVars == <<wpc, sent, wret>>
readerVars == <<rpc, timed>>
history == <<accepted, taken, ended>>
vars == <<pipeVars, writerVars, readerVars, history>>

Payload == UNION { {w} \X (1..MaxWrites[w]) : w \in Writers }

\* pipe.New: whichever options, an empty open pipe.
Init ==
  /\ option \in Options
  /\ data = <<>> /\ state = "open" /\ done = FALSE
  /\ readSignal = FALSE /\ writeSignal = FALSE
  /\ wpc = [w \in Writers |-> "idle"]
  /\ sent = [w \in Writers |-> 0]
  /\ wret = [w \in Writers |-> "none"]
  /\ rpc = [r \in Readers |-> "idle"]
  /\ timed = [r \in Readers |-> FALSE]
  /\ accepted = <<>> /\ taken = <<>> /\ ended = FALSE

----------------------------------------------------------------------------
isFull == option.limit >= 0 /\ Len(data) > option.limit

getState(forRead) ==
  CASE state = "open"   -> IF ~forRead /\ isFull THEN "errBufferFull" ELSE "nil"
    [] state = "closed" -> IF ~forRead THEN "ErrClosedPipe"
                           ELSE IF data # <<>> THEN "nil" ELSE "EOF"
    [] OTHER            -> "ErrClosedPipe"

----------------------------------------------------------------------------
(* WriteMultiBuffer *)

WriteBegin(w) ==
  /\ wpc[w] = "idle" /\ sent[w] < MaxWrites[w]
  /\ sent' = [sent EXCEPT ![w] = @ + 1]
  /\ wpc' = [wpc EXCEPT ![w] = "write"]
  /\ UNCHANGED <<pipeVars, wret, readerVars, history>>

\* writeMultiBufferInternal merges the payload (nil and errSlowDown alike
\* lead to readSignal.Signal() and a nil return).
WriteAccept(w) ==
  /\ wpc[w] = "write" /\ getState(FALSE) = "nil"
  /\ data' = Append(data, <<w, sent[w]>>)
  /\ accepted' = Append(accepted, <<w, sent[w]>>)
  /\ wret' = [wret EXCEPT ![w] = "nil"]
  /\ wpc' = [wpc EXCEPT ![w] = "signal"]
  /\ UNCHANGED <<option, state, readSignal, writeSignal, done, sent, readerVars, taken, ended>>

\* errBufferFull: drop the payload (the code returns nil, told apart here as
\* "discarded"), or park.
WriteFull(w) ==
  /\ wpc[w] = "write" /\ getState(FALSE) = "errBufferFull"
  /\ \/ /\ option.discardOverflow
        /\ wret' = [wret EXCEPT ![w] = "discarded"]
        /\ wpc' = [wpc EXCEPT ![w] = "idle"]
     \/ /\ ~option.discardOverflow
        /\ wpc' = [wpc EXCEPT ![w] = "wait"]
        /\ UNCHANGED wret
  /\ UNCHANGED <<pipeVars, sent, readerVars, history>>

WriteClosed(w) ==
  /\ wpc[w] = "write" /\ getState(FALSE) = "ErrClosedPipe"
  /\ wret' = [wret EXCEPT ![w] = "ErrClosedPipe"]
  /\ wpc' = [wpc EXCEPT ![w] = "signal"]
  /\ UNCHANGED <<pipeVars, sent, readerVars, history>>

WriteSignalDropped(w) ==
  /\ wpc[w] = "signal"
  /\ wpc' = [wpc EXCEPT ![w] = "idle"]
  /\ UNCHANGED <<pipeVars, sent, wret, readerVars, history>>

\* readSignal.Signal() and return.
WriteSignal(w) ==
  /\ wpc[w] = "signal"
  /\ readSignal' = TRUE
  /\ wpc' = [wpc EXCEPT ![w] = "idle"]
  /\ UNCHANGED <<option, data, state, writeSignal, done, sent, wret, readerVars, history>>

\* The two arms of the select of a parked writer.
WriteWake(w) ==
  /\ wpc[w] = "wait" /\ writeSignal
  /\ writeSignal' = FALSE
  /\ wpc' = [wpc EXCEPT ![w] = "write"]
  /\ UNCHANGED <<option, data, state, readSignal, done, sent, wret, readerVars, history>>

WriteAbortAsSuccess(w) ==
  /\ wpc[w] = "wait" /\ done
  /\ wret' = [wret EXCEPT ![w] = "nil"]
  /\ wpc' = [wpc EXCEPT ![w] = "idle"]
  /\ UNCHANGED <<pipeVars, sent, readerVars, history>>

WriteAbort(w) ==
  /\ wpc[w] = "wait" /\ done
  /\ wret' = [wret EXCEPT ![w] = "ErrClosedPipe"]
  /\ wpc' = [wpc EXCEPT ![w] = "idle"]
  /\ UNCHANGED <<pipeVars, sent, readerVars, history>>

----------------------------------------------------------------------------
(* ReadMultiBuffer and ReadMultiBufferTimeout *)

ReadBegin(r) ==
  /\ rpc[r] = "idle"
  /\ \E t \in BOOLEAN : timed' = [timed EXCEPT ![r] = t]
  /\ rpc' = [rpc EXCEPT ![r] = "read"]
  /\ UNCHANGED <<pipeVars, writerVars, history>>

ReadTakeKeepingData(r) ==
  /\ rpc[r] = "read" /\ getState(TRUE) = "nil" /\ data # <<>>
  /\ taken' = taken \o data
  /\ rpc' = [rpc EXCEPT ![r] = "signal"]
  /\ timed' = [timed EXCEPT ![r] = FALSE]
  /\ UNCHANGED <<pipeVars, writerVars, accepted, ended>>

\* readMultiBufferInternal takes the whole buffer.
ReadTake(r) ==
  /\ rpc[r] = "read" /\ getState(TRUE) = "nil" /\ data # <<>>
  /\ taken' = taken \o data
  /\ data' = <<>>
  /\ rpc' = [rpc EXCEPT ![r] = "signal"]
  /\ timed' = [timed EXCEPT ![r] = FALSE]
  /\ UNCHANGED <<option, state, readSignal, writeSignal, done, writerVars, accepted, ended>>

ReadEmpty(r) ==
  /\ rpc[r] = "read" /\ getState(TRUE) = "nil" /\ data = <<>>
  /\ rpc' = [rpc EXCEPT ![r] = "wait"]
  /\ UNCHANGED <<pipeVars, writerVars, timed, history>>

ReadFail(r) ==
  /\ rpc[r] = "read" /\ getState(TRUE) \in {"EOF", "ErrClosedPipe"}
  /\ ended' = (ended \/ getState(TRUE) = "EOF")
  /\ rpc' = [rpc EXCEPT ![r] = "signal"]
  /\ timed' = [timed EXCEPT ![r] = FALSE]
  /\ UNCHANGED <<pipeVars, writerVars, accepted, taken>>

ReadSignalDropped(r) ==
  /\ rpc[r] = "signal"
  /\ rpc' = [rpc EXCEPT ![r] = "idle"]
  /\ UNCHANGED <<pipeVars, writerVars, timed, history>>

\* writeSignal.Signal() and return.
ReadSignal(r) ==
  /\ rpc[r] = "signal"
  /\ writeSignal' = TRUE
  /\ rpc' = [rpc EXCEPT ![r] = "idle"]
  /\ UNCHANGED <<option, data, state, readSignal, done, writerVars, timed, history>>

\* The arms of the select of a parked reader: notified, done, timer.
ReadWake(r) ==
  /\ rpc[r] = "wait" /\ readSignal
  /\ readSignal' = FALSE
  /\ rpc' = [rpc EXCEPT ![r] = "read"]
  /\ UNCHANGED <<option, data, state, writeSignal, done, writerVars, timed, history>>

ReadDone(r) ==
  /\ rpc[r] = "wait" /\ done
  /\ rpc' = [rpc EXCEPT ![r] = "read"]
  /\ UNCHANGED <<pipeVars, writerVars, timed, history>>

ReadTimeout(r) ==
  /\ rpc[r] = "wait" /\ timed[r]
  /\ rpc' = [rpc EXCEPT ![r] = "idle"]
  /\ timed' = [timed EXCEPT ![r] = FALSE]
  /\ UNCHANGED <<pipeVars, writerVars, history>>

----------------------------------------------------------------------------
(* Close and Interrupt, from any goroutine that holds an end of the pipe.   *)
(* On a pipe that is not open both return at once.                          *)

Close ==
  /\ state = "open"
  /\ state' = "closed" /\ done' = TRUE
  /\ UNCHANGED <<option, data, readSignal, writeSignal, writerVars, readerVars, history>>

Interrupt ==
  /\ state = "open"
  /\ state' = "errord" /\ data' = <<>> /\ done' = TRUE
  /\ UNCHANGED <<option, readSignal, writeSignal, writerVars, readerVars, history>>

----------------------------------------------------------------------------
WriterStep(w) ==
  \/ WriteAccept(w) \/ WriteFull(w) \/ WriteClosed(w)
  \/ WriteSignal(w) \/ WriteWake(w) \/ WriteAbort(w)

ReaderStep(r) ==
  \/ ReadTake(r) \/ ReadEmpty(r) \/ ReadFail(r)
  \/ ReadSignal(r) \/ ReadWake(r) \/ ReadDone(r)

Next ==
  \/ \E w \in Writers : WriteBegin(w) \/ WriterStep(w)
  \/ \E r \in Readers : ReadBegin(r) \/ ReaderStep(r) \/ ReadTimeout(r)
  \/ Close
  \/ Interrupt

Spec == Init /\ [][Next]_vars

\* A runnable goroutine is eventually scheduled.  Readers call again after
\* every return (buf.Copy does); writers need not, nobody need close.
Fairness ==
  /\ \A w \in Writers : WF_vars(WriterStep(w))
  /\ \A r \in Readers : WF_vars(ReadBegin(r)) /\ WF_vars(ReaderStep(r))

FairSpec == Spec /\ Fairness

----------------------------------------------------------------------------
\* The shape of the pipe and of its goroutines; a goroutine that is writing has
\* begun a write (impl.go, WriteMultiBuffer).
TypeOK ==
  /\ option \in Option
  /\ data \in Seq(Payload) /\ accepted \in Seq(Payload) /\ taken \in Seq(Payload)
  /\ state \in {"open", "closed", "errord"}
  /\ readSignal \in BOOLEAN /\ writeSignal \in BOOLEAN /\ done \in BOOLEAN
  /\ wpc \in [Writers -> {"idle", "write", "signal", "wait"}]
  /\ sent \in [Writers -> Nat]
  /\ \A w \in Writers : sent[w] <= MaxWrites[w]
  /\ \A w \in Writers : wpc[w] # "idle" => sent[w] > 0
  /\ wret \in [Writers -> {"none", "nil", "discarded", "ErrClosedPipe"}]
  /\ rpc \in [Readers -> {"idle", "read", "signal", "wait"}]
  /\ timed \in [Readers -> BOOLEAN]
  /\ ended \in BOOLEAN

\* A reader never sleeps on buffered data: while one is parked and the
\* buffer holds something, a wake-up is stored, or a writer has yet to
\* signal, or another reader is awake and about to look.
NoLostReadWakeup ==
  data # <<>> /\ (\E r \in Readers : rpc[r] = "wait")
    => \/ readSignal \/ done
       \/ \E w \in Writers : wpc[w] = "signal"
       \/ \E r \in Readers : rpc[r] = "read"

\* A writer never sleeps on an empty pipe with nobody left to wake it.  (It
\* may sleep although there is room: readers signal once per read, however
\* many writers are parked; then the buffer is not empty and the next read
\* wakes another.)
NoLostWriteWakeup ==
  data = <<>> /\ (\E w \in Writers : wpc[w] = "wait")
    => \/ writeSignal \/ done
       \/ \E r \in Readers : rpc[r] = "signal"
       \/ \E w \in Writers : wpc[w] = "write"

\* What was accepted is what was read followed by what is buffered: nothing
\* lost, repeated or reordered by concurrent writers and readers.  Only
\* Interrupt drops a tail, and then nothing stays buffered.
StreamIntegrity ==
  IF state = "errord" THEN data = <<>> /\ IsPrefix(taken, accepted)
                      ELSE accepted = taken \o data

\* io.EOF reaches a reader only after everything accepted was read, although
\* writers, Close and other readers race with it.
EOFAfterDrain == ended => state = "closed" /\ taken = accepted

\* The payload of the last write is in the stream.
Accepted(w) == \E i \in DOMAIN accepted : accepted[i] = <<w, sent[w]>>

\* WriteMultiBuffer's result tells the caller what happened to the payload:
\* nil without DiscardOverflow means accepted exactly once, an error or an
\* overflow discard means never.
ResultTruthful ==
  /\ \A i, j \in DOMAIN accepted : accepted[i] = accepted[j] => i = j
  /\ \A w \in Writers : wpc[w] = "idle" /\ sent[w] > 0 => (wret[w] = "nil" <=> Accepted(w))

\* The limit holds with the slack isFull allows: the check precedes the
\* write, so at most limit + 1 payloads are ever buffered, however many
\* writers race.
SizeBound == option.limit >= 0 => Len(data) <= option.limit + 1

\* A parked writer gets out while a reader keeps reading: it is woken by a
\* read or by done, even when several writers share one notifier.
WriterReturns == \A w \in Writers : wpc[w] = "wait" ~> wpc[w] = "idle"

\* Everything accepted is eventually read unless the pipe is interrupted.
EventuallyRead ==
  \A m \in Payload :
    (\E i \in DOMAIN accepted : accepted[i] = m)
      ~> (state = "errord" \/ \E i \in DOMAIN taken : taken[i] = m)

Stream == INSTANCE PipeStream WITH input <- accepted, output <- taken
\* The pipe implements the closable stream of PipeStream: order, nothing lost
\* or repeated, and io.EOF only when everything accepted was read.
StreamSpec == Stream!Spec
====
