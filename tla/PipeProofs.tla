---- MODULE PipeProofs ----
(***************************************************************************)
(* The pipe for any number of writers, readers, writes and any limits.     *)
(* IInv is inductive; DoneIffShut is what ties the done.Instance to state. *)
(***************************************************************************)
EXTENDS Pipe, SequenceTheorems, TLAPS

DoneIffShut == done <=> state # "open"

IInv ==
  /\ TypeOK
  /\ DoneIffShut
  /\ NoLostReadWakeup
  /\ NoLostWriteWakeup
  /\ StreamIntegrity
  /\ EOFAfterDrain
  /\ SizeBound

\* Appending commutes with concatenation: what StreamIntegrity needs of a write.
LEMMA ConcatAppend ==
  \A s, t \in Seq(Payload), e \in Payload : Append(s \o t, e) = s \o Append(t, e)
  <1> TAKE s, t \in Seq(Payload), e \in Payload
  <1>1. <<e>> \in Seq(Payload)
    OBVIOUS
  <1>2. (s \o t) \o <<e>> = s \o (t \o <<e>>)
    BY <1>1, ConcatAssociative
  <1>3. s \o t \in Seq(Payload)
    OBVIOUS
  <1> QED
    BY <1>2, <1>3, AppendIsConcat

\* A sequence is a prefix of its extensions: what StreamIntegrity needs of Interrupt.
LEMMA PrefixOfConcat ==
  ASSUME NEW S, NEW s \in Seq(S), NEW t \in Seq(S)
  PROVE  IsPrefix(s, s \o t)
  BY DEF IsPrefix

\* The payload a writer holds while it writes is a legal one.
LEMMA WrittenPayload ==
  ASSUME TypeOK, NEW w \in Writers, wpc[w] = "write"
  PROVE  <<w, sent[w]>> \in Payload
  <1>0. sent[w] \in Nat /\ MaxWrites[w] \in Nat
    BY MaxWritesAssumption DEF TypeOK
  <1>1. sent[w] <= MaxWrites[w]
    BY DEF TypeOK
  <1>2. sent[w] > 0
    BY DEF TypeOK
  <1>3. sent[w] \in 1..MaxWrites[w]
    BY <1>0, <1>1, <1>2
  <1>4. <<w, sent[w]>> \in {w} \X (1..MaxWrites[w])
    BY <1>3
  <1> QED
    BY <1>4 DEF Payload

\* The limit is a number, and so is the length of the buffer.
LEMMA LimitAndLength ==
  ASSUME TypeOK
  PROVE  option.limit \in Int /\ Len(data) \in Nat
  <1>1. option.limit \in Int
    BY DEF TypeOK, Option
  <1>2. data \in Seq(Payload)
    BY DEF TypeOK
  <1>3. Len(data) \in Nat
    BY <1>2
  <1> QED
    BY <1>1, <1>3

\* The type invariant is inductive by itself.
LEMMA TypeInductive == TypeOK /\ [Next]_vars => TypeOK'
  <1> SUFFICES ASSUME TypeOK, [Next]_vars PROVE TypeOK'
    OBVIOUS
  <1> USE OptionsAssumption, MaxWritesAssumption
  <1>1. CASE UNCHANGED vars
    BY <1>1 DEF TypeOK, vars, pipeVars, writerVars, readerVars, history
  <1>2. ASSUME NEW w \in Writers, WriteBegin(w) PROVE TypeOK'
    BY <1>2 DEF TypeOK, WriteBegin, pipeVars, readerVars, history
  <1>3. ASSUME NEW w \in Writers, WriteAccept(w) PROVE TypeOK'
    <2>1. <<w, sent[w]>> \in Payload
      BY <1>3, WrittenPayload DEF WriteAccept
    <2> QED
      BY <1>3, <2>1 DEF TypeOK, WriteAccept, readerVars, history
  <1>4. ASSUME NEW w \in Writers, WriteFull(w) PROVE TypeOK'
    BY <1>4 DEF TypeOK, WriteFull, pipeVars, readerVars, history
  <1>5. ASSUME NEW w \in Writers, WriteClosed(w) PROVE TypeOK'
    BY <1>5 DEF TypeOK, WriteClosed, pipeVars, readerVars, history
  <1>6. ASSUME NEW w \in Writers, WriteSignal(w) PROVE TypeOK'
    BY <1>6 DEF TypeOK, WriteSignal, readerVars, history
  <1>7. ASSUME NEW w \in Writers, WriteWake(w) PROVE TypeOK'
    BY <1>7 DEF TypeOK, WriteWake, readerVars, history
  <1>8. ASSUME NEW w \in Writers, WriteAbort(w) PROVE TypeOK'
    BY <1>8 DEF TypeOK, WriteAbort, pipeVars, readerVars, history
  <1>9. ASSUME NEW r \in Readers, ReadBegin(r) PROVE TypeOK'
    BY <1>9 DEF TypeOK, ReadBegin, pipeVars, writerVars, history
  <1>10. ASSUME NEW r \in Readers, ReadTake(r) PROVE TypeOK'
    BY <1>10 DEF TypeOK, ReadTake, writerVars, history
  <1>11. ASSUME NEW r \in Readers, ReadEmpty(r) PROVE TypeOK'
    BY <1>11 DEF TypeOK, ReadEmpty, pipeVars, writerVars, history
  <1>12. ASSUME NEW r \in Readers, ReadFail(r) PROVE TypeOK'
    BY <1>12 DEF TypeOK, ReadFail, pipeVars, writerVars, history
  <1>13. ASSUME NEW r \in Readers, ReadSignal(r) PROVE TypeOK'
    BY <1>13 DEF TypeOK, ReadSignal, writerVars, history
  <1>14. ASSUME NEW r \in Readers, ReadWake(r) PROVE TypeOK'
    BY <1>14 DEF TypeOK, ReadWake, writerVars, history
  <1>15. ASSUME NEW r \in Readers, ReadDone(r) PROVE TypeOK'
    BY <1>15 DEF TypeOK, ReadDone, pipeVars, writerVars, history
  <1>16. ASSUME NEW r \in Readers, ReadTimeout(r) PROVE TypeOK'
    BY <1>16 DEF TypeOK, ReadTimeout, pipeVars, writerVars, history
  <1>17. CASE Close
    BY <1>17 DEF TypeOK, Close, writerVars, readerVars, history
  <1>18. CASE Interrupt
    BY <1>18 DEF TypeOK, Interrupt, writerVars, readerVars, history
  <1> QED
    BY <1>1, <1>2, <1>3, <1>4, <1>5, <1>6, <1>7, <1>8, <1>9, <1>10, <1>11, <1>12,
       <1>13, <1>14, <1>15, <1>16, <1>17, <1>18 DEF Next, WriterStep, ReaderStep

\* done.Close() and the change of state happen under one lock.
LEMMA DoneInductive == TypeOK /\ DoneIffShut /\ [Next]_vars => DoneIffShut'
  <1> SUFFICES ASSUME TypeOK, DoneIffShut, [Next]_vars PROVE DoneIffShut'
    OBVIOUS
  <1>1. CASE Close
    BY <1>1 DEF Close, DoneIffShut
  <1>2. CASE Interrupt
    BY <1>2 DEF Interrupt, DoneIffShut
  <1>3. CASE UNCHANGED <<state, done>>
    BY <1>3 DEF DoneIffShut
  <1> QED
    BY <1>1, <1>2, <1>3
    DEF Next, WriterStep, ReaderStep, vars, pipeVars, WriteBegin, WriteAccept, WriteFull,
        WriteClosed, WriteSignal, WriteWake, WriteAbort, ReadBegin, ReadTake, ReadEmpty,
        ReadFail, ReadSignal, ReadWake, ReadDone, ReadTimeout

\* No step loses a wake-up, and the limit is kept.
LEMMA WakeupsInductive ==
  IInv /\ [Next]_vars => (NoLostReadWakeup /\ NoLostWriteWakeup /\ SizeBound)'
  <1> SUFFICES ASSUME IInv, [Next]_vars
               PROVE  (NoLostReadWakeup /\ NoLostWriteWakeup /\ SizeBound)'
    OBVIOUS
  <1> USE OptionsAssumption DEF IInv, NoLostReadWakeup, NoLostWriteWakeup, SizeBound
  <1>0. option.limit \in Int /\ Len(data) \in Nat
    BY LimitAndLength
  <1>1. CASE UNCHANGED vars
    BY <1>1 DEF vars, pipeVars, writerVars, readerVars, history
  <1>2. ASSUME NEW w \in Writers, WriteBegin(w)
        PROVE  (NoLostReadWakeup /\ NoLostWriteWakeup /\ SizeBound)'
    BY <1>2 DEF WriteBegin, TypeOK, pipeVars, readerVars, history
  <1>3. ASSUME NEW w \in Writers, WriteAccept(w)
        PROVE  (NoLostReadWakeup /\ NoLostWriteWakeup /\ SizeBound)'
    <2>0. <<w, sent[w]>> \in Payload /\ data \in Seq(Payload)
      BY <1>3, WrittenPayload DEF WriteAccept, TypeOK
    <2>1. Len(data') = Len(data) + 1 /\ data' # <<>>
      BY <1>3, <2>0 DEF WriteAccept
    <2>2. ~ isFull
      BY <1>3 DEF WriteAccept, getState, TypeOK
    <2>3. SizeBound'
      BY <1>0, <1>3, <2>1, <2>2 DEF WriteAccept, isFull
    <2>4. wpc'[w] = "signal"
      BY <1>3 DEF WriteAccept, TypeOK
    <2> QED
      BY <2>1, <2>3, <2>4
  <1>4. ASSUME NEW w \in Writers, WriteFull(w)
        PROVE  (NoLostReadWakeup /\ NoLostWriteWakeup /\ SizeBound)'
    <2>1. isFull
      BY <1>4 DEF WriteFull, getState, TypeOK
    <2>2. data # <<>>
      BY <1>0, <2>1 DEF isFull
    <2>3. \A v \in Writers : wpc[v] = "signal" => wpc'[v] = "signal"
      BY <1>4 DEF WriteFull, TypeOK
    <2> QED
      BY <1>4, <2>2, <2>3 DEF WriteFull, TypeOK, pipeVars, readerVars, history
  <1>5. ASSUME NEW w \in Writers, WriteClosed(w)
        PROVE  (NoLostReadWakeup /\ NoLostWriteWakeup /\ SizeBound)'
    <2>1. done
      BY <1>5 DEF WriteClosed, getState, TypeOK, DoneIffShut
    <2> QED
      BY <1>5, <2>1 DEF WriteClosed, pipeVars, readerVars, history
  <1>6. ASSUME NEW w \in Writers, WriteSignal(w)
        PROVE  (NoLostReadWakeup /\ NoLostWriteWakeup /\ SizeBound)'
    BY <1>6 DEF WriteSignal, TypeOK, readerVars, history
  <1>7. ASSUME NEW w \in Writers, WriteWake(w)
        PROVE  (NoLostReadWakeup /\ NoLostWriteWakeup /\ SizeBound)'
    BY <1>7 DEF WriteWake, TypeOK, readerVars, history
  <1>8. ASSUME NEW w \in Writers, WriteAbort(w)
        PROVE  (NoLostReadWakeup /\ NoLostWriteWakeup /\ SizeBound)'
    BY <1>8 DEF WriteAbort, TypeOK, pipeVars, readerVars, history
  <1>9. ASSUME NEW r \in Readers, ReadBegin(r)
        PROVE  (NoLostReadWakeup /\ NoLostWriteWakeup /\ SizeBound)'
    BY <1>9 DEF ReadBegin, TypeOK, pipeVars, writerVars, history
  <1>10. ASSUME NEW r \in Readers, ReadTake(r)
         PROVE  (NoLostReadWakeup /\ NoLostWriteWakeup /\ SizeBound)'
    <2>1. data' = <<>> /\ Len(data') = 0 /\ option' = option /\ rpc'[r] = "signal"
      BY <1>10 DEF ReadTake, TypeOK
    <2> QED
      BY <1>0, <2>1
  <1>11. ASSUME NEW r \in Readers, ReadEmpty(r)
         PROVE  (NoLostReadWakeup /\ NoLostWriteWakeup /\ SizeBound)'
    BY <1>11 DEF ReadEmpty, TypeOK, pipeVars, writerVars, history
  <1>12. ASSUME NEW r \in Readers, ReadFail(r)
         PROVE  (NoLostReadWakeup /\ NoLostWriteWakeup /\ SizeBound)'
    <2>1. done
      BY <1>12 DEF ReadFail, getState, TypeOK, DoneIffShut
    <2> QED
      BY <1>12, <2>1 DEF ReadFail, pipeVars, writerVars, history
  <1>13. ASSUME NEW r \in Readers, ReadSignal(r)
         PROVE  (NoLostReadWakeup /\ NoLostWriteWakeup /\ SizeBound)'
    BY <1>13 DEF ReadSignal, TypeOK, writerVars, history
  <1>14. ASSUME NEW r \in Readers, ReadWake(r)
         PROVE  (NoLostReadWakeup /\ NoLostWriteWakeup /\ SizeBound)'
    BY <1>14 DEF ReadWake, TypeOK, writerVars, history
  <1>15. ASSUME NEW r \in Readers, ReadDone(r)
         PROVE  (NoLostReadWakeup /\ NoLostWriteWakeup /\ SizeBound)'
    BY <1>15 DEF ReadDone, TypeOK, pipeVars, writerVars, history
  <1>16. ASSUME NEW r \in Readers, ReadTimeout(r)
         PROVE  (NoLostReadWakeup /\ NoLostWriteWakeup /\ SizeBound)'
    BY <1>16 DEF ReadTimeout, TypeOK, pipeVars, writerVars, history
  <1>17. CASE Close
    BY <1>17 DEF Close, writerVars, readerVars, history
  <1>18. CASE Interrupt
    BY <1>0, <1>18 DEF Interrupt, writerVars, readerVars, history
  <1> QED
    BY <1>1, <1>2, <1>3, <1>4, <1>5, <1>6, <1>7, <1>8, <1>9, <1>10, <1>11, <1>12,
       <1>13, <1>14, <1>15, <1>16, <1>17, <1>18 DEF Next, WriterStep, ReaderStep

\* The stream survives every step, and an io.EOF that was returned stays true.
LEMMA StreamInductive ==
  IInv /\ [Next]_vars => (StreamIntegrity /\ EOFAfterDrain)'
  <1> SUFFICES ASSUME IInv, [Next]_vars
               PROVE  (StreamIntegrity /\ EOFAfterDrain)'
    OBVIOUS
  <1> USE DEF IInv, StreamIntegrity, EOFAfterDrain
  <1>1. ASSUME NEW w \in Writers, WriteAccept(w)
        PROVE  (StreamIntegrity /\ EOFAfterDrain)'
    <2>1. state = "open" /\ state' = state
      BY <1>1 DEF WriteAccept, getState, TypeOK
    <2>2. taken \in Seq(Payload) /\ data \in Seq(Payload)
      BY DEF TypeOK
    <2>3. <<w, sent[w]>> \in Payload
      BY <1>1, WrittenPayload DEF WriteAccept
    <2>4. Append(taken \o data, <<w, sent[w]>>) = taken \o Append(data, <<w, sent[w]>>)
      BY <2>2, <2>3, ConcatAppend, Zenon
    <2> QED
      BY <1>1, <2>1, <2>4 DEF WriteAccept
  <1>2. ASSUME NEW r \in Readers, ReadTake(r)
        PROVE  (StreamIntegrity /\ EOFAfterDrain)'
    <2>1. state # "errord" /\ state' = state
      BY <1>2 DEF ReadTake, getState, TypeOK
    <2>2. (taken \o data) \o <<>> = taken \o data
      BY DEF TypeOK
    <2>3. taken' = accepted /\ accepted' = accepted
      BY <1>2, <2>1 DEF ReadTake
    <2> QED
      BY <1>2, <2>1, <2>2, <2>3 DEF ReadTake
  <1>3. ASSUME NEW r \in Readers, ReadFail(r)
        PROVE  (StreamIntegrity /\ EOFAfterDrain)'
    <2>1. getState(TRUE) = "EOF" => state = "closed" /\ data = <<>>
      BY DEF getState, TypeOK
    <2>2. taken \o <<>> = taken
      BY DEF TypeOK
    <2>3. ended' => ended \/ getState(TRUE) = "EOF"
      BY <1>3 DEF ReadFail, TypeOK
    <2> QED
      BY <1>3, <2>1, <2>2, <2>3 DEF ReadFail, pipeVars
  <1>4. CASE Interrupt
    <2>1. IsPrefix(taken, taken \o data)
      BY PrefixOfConcat DEF TypeOK
    <2> QED
      BY <1>4, <2>1 DEF Interrupt, history
  <1>5. CASE Close
    BY <1>5 DEF Close, history
  <1>6. CASE UNCHANGED <<data, state, history>>
    BY <1>6 DEF history
  <1> QED
    BY <1>1, <1>2, <1>3, <1>4, <1>5, <1>6
    DEF Next, WriterStep, ReaderStep, vars, pipeVars, WriteBegin, WriteFull,
        WriteClosed, WriteSignal, WriteWake, WriteAbort, ReadBegin, ReadEmpty,
        ReadSignal, ReadWake, ReadDone, ReadTimeout

\* Pipe, for all constants: typed, no lost wake-up on either side, no payload
\* lost or repeated, io.EOF only after the drain, the limit kept.
THEOREM PipeSafety == Spec => []IInv
  <1>1. Init => IInv
    <2> SUFFICES ASSUME Init PROVE IInv
      OBVIOUS
    <2>1. TypeOK
      <3>1. sent \in [Writers -> Nat] /\ \A w \in Writers : sent[w] <= MaxWrites[w]
        BY MaxWritesAssumption DEF Init
      <3>2. \A w \in Writers : wpc[w] = "idle"
        BY DEF Init
      <3>3. wpc \in [Writers -> {"idle", "write", "signal", "wait"}]
        BY DEF Init
      <3>4. rpc \in [Readers -> {"idle", "read", "signal", "wait"}]
        BY DEF Init
      <3>5. /\ wret \in [Writers -> {"none", "nil", "discarded", "ErrClosedPipe"}]
            /\ timed \in [Readers -> BOOLEAN]
            /\ ended \in BOOLEAN
        BY DEF Init
      <3>6. /\ data \in Seq(Payload) /\ accepted \in Seq(Payload) /\ taken \in Seq(Payload)
        BY DEF Init
      <3>7. /\ option \in Option /\ state \in {"open", "closed", "errord"}
            /\ readSignal \in BOOLEAN /\ writeSignal \in BOOLEAN /\ done \in BOOLEAN
        BY OptionsAssumption DEF Init
      <3> QED
        BY <3>1, <3>2, <3>3, <3>4, <3>5, <3>6, <3>7 DEF TypeOK
    <2>2. DoneIffShut /\ NoLostReadWakeup /\ NoLostWriteWakeup /\ EOFAfterDrain
      BY DEF Init, DoneIffShut, NoLostReadWakeup, NoLostWriteWakeup, EOFAfterDrain
    <2>3. StreamIntegrity
      BY DEF Init, StreamIntegrity
    <2>4. SizeBound
      BY <2>1, LimitAndLength DEF Init, SizeBound
    <2> QED
      BY <2>1, <2>2, <2>3, <2>4 DEF IInv
  <1>2. IInv /\ [Next]_vars => IInv'
    BY TypeInductive, DoneInductive, WakeupsInductive, StreamInductive DEF IInv
  <1> QED
    BY <1>1, <1>2, PTL DEF Spec

\* No parked reader is left behind with data in the buffer (impl.go's
\* Signal-after-unlock protocol).
THEOREM ReadersAreWoken == Spec => []NoLostReadWakeup
  BY PipeSafety, PTL DEF IInv

\* No parked writer is left behind on an empty pipe.
THEOREM WritersAreWoken == Spec => []NoLostWriteWakeup
  BY PipeSafety, PTL DEF IInv

\* What was accepted comes out once and in order.
THEOREM StreamIsIntact == Spec => []StreamIntegrity
  BY PipeSafety, PTL DEF IInv

\* io.EOF means everything accepted was read.
THEOREM EOFIsTheEnd == Spec => []EOFAfterDrain
  BY PipeSafety, PTL DEF IInv

\* However many writers race past the check, the buffer holds at most one
\* payload more than its limit.
THEOREM BufferIsBounded == Spec => []SizeBound
  BY PipeSafety, PTL DEF IInv

----------------------------------------------------------------------------
(* What a writer is told.  A payload is never accepted before its write,   *)
(* nor while the writer is still trying or parked.                         *)

Results ==
  /\ \A i, j \in DOMAIN accepted : accepted[i] = accepted[j] => i = j
  /\ \A i \in DOMAIN accepted, w \in Writers, k \in Nat : accepted[i] = <<w, k>> => k <= sent[w]
  /\ \A w \in Writers : wpc[w] \in {"write", "wait"} => ~Accepted(w)
  /\ \A w \in Writers :
       wpc[w] \in {"idle", "signal"} /\ sent[w] > 0 => (wret[w] = "nil" <=> Accepted(w))

\* A payload merged into the buffer is a new one, the last of the stream.
LEMMA AcceptResults ==
  ASSUME TypeOK, Results, NEW w \in Writers, WriteAccept(w)
  PROVE  Results'
  <1> DEFINE e == <<w, sent[w]>>
             n == Len(accepted)
  <1>1. /\ accepted \in Seq(Payload) /\ n \in Nat /\ e \in Payload
        /\ DOMAIN accepted = 1..n
        /\ accepted' = Append(accepted, e)
    BY WrittenPayload DEF WriteAccept, TypeOK
  <1>2. /\ DOMAIN accepted' = 1..(n + 1)
        /\ accepted'[n + 1] = e
        /\ \A i \in 1..n : accepted'[i] = accepted[i]
    BY <1>1
  <1>3. /\ sent' = sent /\ wpc[w] = "write" /\ wpc' = [wpc EXCEPT ![w] = "signal"]
        /\ wret' = [wret EXCEPT ![w] = "nil"]
        /\ wpc \in [Writers -> {"idle", "write", "signal", "wait"}]
        /\ wret \in [Writers -> {"none", "nil", "discarded", "ErrClosedPipe"}]
        /\ sent[w] \in Nat
    BY MaxWritesAssumption DEF WriteAccept, TypeOK
  <1>4. \A i \in 1..n : accepted[i] # e
    BY <1>1, <1>3 DEF Results, Accepted
  <1>5. \A i, j \in DOMAIN accepted' : accepted'[i] = accepted'[j] => i = j
    <2> TAKE i, j \in DOMAIN accepted'
    <2>1. CASE i \in 1..n /\ j \in 1..n
      BY <2>1, <1>1, <1>2 DEF Results
    <2>2. CASE i = n + 1 \/ j = n + 1
      BY <2>2, <1>1, <1>2, <1>4
    <2> QED
      BY <2>1, <2>2, <1>1, <1>2
  <1>6. \A i \in DOMAIN accepted', v \in Writers, k \in Nat :
          accepted'[i] = <<v, k>> => k <= sent'[v]
    <2> TAKE i \in DOMAIN accepted', v \in Writers, k \in Nat
    <2>1. CASE i \in 1..n
      BY <2>1, <1>1, <1>2, <1>3 DEF Results
    <2>2. CASE i = n + 1
      BY <2>2, <1>2, <1>3
    <2> QED
      BY <2>1, <2>2, <1>1, <1>2
  <1>7. ASSUME NEW v \in Writers, v # w
        PROVE  Accepted(v)' <=> Accepted(v)
    <2>1. Accepted(v) => Accepted(v)'
      <3> SUFFICES ASSUME NEW i \in DOMAIN accepted, accepted[i] = <<v, sent[v]>>
                   PROVE  Accepted(v)'
        BY DEF Accepted
      <3>1. i \in DOMAIN accepted' /\ accepted'[i] = <<v, sent'[v]>>
        BY <1>1, <1>2, <1>3
      <3> QED
        BY <3>1 DEF Accepted
    <2>2. Accepted(v)' => Accepted(v)
      <3> SUFFICES ASSUME NEW i \in DOMAIN accepted', accepted'[i] = <<v, sent'[v]>>
                   PROVE  Accepted(v)
        BY DEF Accepted
      <3>1. e # <<v, sent[v]>>
        BY <1>7
      <3>2. i \in DOMAIN accepted /\ accepted[i] = <<v, sent[v]>>
        BY <1>1, <1>2, <1>3, <3>1
      <3> QED
        BY <3>2 DEF Accepted
    <2> QED
      BY <2>1, <2>2
  <1>8. Accepted(w)'
    BY SMTT(30), <1>1, <1>2, <1>3 DEF Accepted
  <1>9. \A v \in Writers : v # w => wpc'[v] = wpc[v] /\ wret'[v] = wret[v]
    BY <1>3
  <1> QED
    BY <1>3, <1>5, <1>6, <1>7, <1>8, <1>9 DEF Results

\* Results is preserved by every step.
LEMMA ResultsStep == TypeOK /\ Results /\ [Next]_vars => Results'
  <1> SUFFICES ASSUME TypeOK, Results, [Next]_vars PROVE Results'
    OBVIOUS
  <1>0. /\ wpc \in [Writers -> {"idle", "write", "signal", "wait"}]
        /\ wret \in [Writers -> {"none", "nil", "discarded", "ErrClosedPipe"}]
        /\ sent \in [Writers -> Nat]
    BY MaxWritesAssumption DEF TypeOK
  <1>1. CASE UNCHANGED <<accepted, writerVars>>
    BY <1>1 DEF Results, Accepted, writerVars
  <1>2. ASSUME NEW w \in Writers, WriteBegin(w) PROVE Results'
    <2>1. /\ accepted' = accepted /\ wret' = wret
          /\ wpc' = [wpc EXCEPT ![w] = "write"]
          /\ sent' = [sent EXCEPT ![w] = @ + 1]
      BY <1>2 DEF WriteBegin, history
    <2>2. \A v \in Writers : sent[v] <= sent'[v]
      BY <2>1, <1>0
    <2>3. \A i \in DOMAIN accepted', v \in Writers, k \in Nat :
            accepted'[i] = <<v, k>> => k <= sent'[v]
      BY <2>1, <2>2, <1>0 DEF Results
    <2>4. ~Accepted(w)'
      <3>1. sent'[w] = sent[w] + 1 /\ sent[w] \in Nat
        BY <2>1, <1>0
      <3> QED
        BY <2>1, <3>1 DEF Results, Accepted
    <2>5. \A v \in Writers : v # w => /\ wpc'[v] = wpc[v] /\ sent'[v] = sent[v]
                                      /\ (Accepted(v)' <=> Accepted(v))
      BY <2>1, <1>0 DEF Accepted
    <2> QED
      BY <2>1, <2>3, <2>4, <2>5, <1>0 DEF Results
  <1>3. ASSUME NEW w \in Writers, WriteAccept(w) PROVE Results'
    BY <1>3, AcceptResults
  <1>4. ASSUME NEW w \in Writers, WriteFull(w) \/ WriteClosed(w) \/ WriteAbort(w) PROVE Results'
    <2>1. /\ accepted' = accepted /\ sent' = sent
          /\ wpc[w] \in {"write", "wait"}
          /\ \A v \in Writers : v # w => wpc'[v] = wpc[v] /\ wret'[v] = wret[v]
          /\ wpc'[w] \in {"write", "wait"} \/ wret'[w] # "nil"
      BY <1>4, <1>0 DEF WriteFull, WriteClosed, WriteAbort, history
    <2>2. \A v \in Writers : Accepted(v)' <=> Accepted(v)
      BY <2>1 DEF Accepted
    <2>3. ~Accepted(w)
      BY <2>1 DEF Results
    <2> QED
      BY <2>1, <2>2, <2>3 DEF Results
  <1>5. ASSUME NEW w \in Writers, WriteSignal(w) \/ WriteWake(w) PROVE Results'
    <2>1. /\ accepted' = accepted /\ sent' = sent /\ wret' = wret
          /\ \A v \in Writers : v # w => wpc'[v] = wpc[v]
          /\ \/ wpc[w] = "signal" /\ wpc'[w] = "idle"
             \/ wpc[w] = "wait" /\ wpc'[w] = "write"
      BY <1>5, <1>0 DEF WriteSignal, WriteWake, history
    <2>2. \A v \in Writers : Accepted(v)' <=> Accepted(v)
      BY <2>1 DEF Accepted
    <2> QED
      BY <2>1, <2>2 DEF Results
  <1> QED
    BY <1>1, <1>2, <1>3, <1>4, <1>5
    DEF Next, WriterStep, ReaderStep, vars, history, ReadBegin, ReadTake, ReadEmpty, ReadFail,
        ReadSignal, ReadWake, ReadDone, ReadTimeout, Close, Interrupt

\* The result of WriteMultiBuffer is true for any writers, readers and options.
THEOREM ResultsAreTruthful == Spec => []ResultTruthful
  <1>1. Init => Results
    BY DEF Init, Results, Accepted
  <1>2. TypeOK /\ Results /\ [Next]_vars => Results'
    BY ResultsStep
  <1>3. IInv => TypeOK
    BY DEF IInv
  <1>4. Results => ResultTruthful
    BY DEF Results, ResultTruthful
  <1> QED
    BY <1>1, <1>2, <1>3, <1>4, PipeSafety, PTL DEF Spec

\* Every step of the pipe is a step of the closable stream, or invisible there.
LEMMA StreamStep == IInv /\ [Next]_vars => [Stream!Next]_(Stream!vars)
  <1> SUFFICES ASSUME IInv, [Next]_vars PROVE [Stream!Next]_(Stream!vars)
    OBVIOUS
  <1> USE DEF Stream!Next, Stream!vars
  <1>1. ASSUME NEW w \in Writers, WriteAccept(w) PROVE [Stream!Next]_(Stream!vars)
    <2>1. state = "open"
      BY <1>1 DEF WriteAccept, getState, IInv, TypeOK
    <2>3. <<w, sent[w]>> \in Payload
      BY <1>1, WrittenPayload DEF WriteAccept, IInv
    <2> QED
      BY <1>1, <2>1, <2>3 DEF WriteAccept, Stream!Put
  <1>2. ASSUME NEW r \in Readers, ReadTake(r) PROVE [Stream!Next]_(Stream!vars)
    <2>1. state # "errord" /\ taken' = accepted
      BY <1>2 DEF ReadTake, getState, IInv, TypeOK, StreamIntegrity
    <2> QED
      BY <1>2, <2>1 DEF ReadTake, Stream!Take
  <1>3. ASSUME NEW r \in Readers, ReadFail(r) PROVE [Stream!Next]_(Stream!vars)
    <2>1. CASE getState(TRUE) # "EOF"
      BY <1>3, <2>1 DEF ReadFail, pipeVars, IInv, TypeOK
    <2>2. CASE getState(TRUE) = "EOF"
      <3>1. state = "closed" /\ data = <<>>
        BY <2>2 DEF getState, IInv, TypeOK
      <3>2. taken \o <<>> = taken
        BY DEF IInv, TypeOK
      <3>3. taken = accepted
        BY <3>1, <3>2 DEF IInv, StreamIntegrity
      <3> QED
        BY <1>3, <2>2, <3>1, <3>3 DEF ReadFail, pipeVars, Stream!End
    <2> QED
      BY <2>1, <2>2
  <1>4. CASE Close
    BY <1>4 DEF Close, Stream!Shut, history
  <1>5. CASE Interrupt
    BY <1>5 DEF Interrupt, Stream!Shut, history
  <1>6. CASE UNCHANGED <<state, history>>
    BY <1>6 DEF history
  <1> QED
    BY <1>1, <1>2, <1>3, <1>4, <1>5, <1>6
    DEF Next, WriterStep, ReaderStep, vars, pipeVars, WriteBegin, WriteFull, WriteClosed,
        WriteSignal, WriteWake, WriteAbort, ReadBegin, ReadEmpty, ReadSignal,
        ReadWake, ReadDone, ReadTimeout

\* The pipe with its locks and notifiers implements the closable stream.
THEOREM PipeImplementsStream == Spec => StreamSpec
  <1>1. Init => Stream!Init
    BY DEF Init, Stream!Init
  <1> QED
    BY <1>1, PipeSafety, StreamStep, PTL DEF Spec, StreamSpec, Stream!Spec
====
