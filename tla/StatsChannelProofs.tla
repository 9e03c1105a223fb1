------------------------- MODULE StatsChannelProofs -------------------------
(***************************************************************************)
(* The broadcasting channel for any number of subscribers and messages and *)
(* any size of the buffers.  The argument follows a message: it waits to   *)
(* be published, is in the channel, is in the hands of one loop, and from  *)
(* there goes to each subscriber once; wherever it is, it is nowhere else. *)
(***************************************************************************)
EXTENDS StatsChannel, SequenceTheorems, TLAPS

LoopRec == [pc : {"none", "select", "cast", "drain", "gone"}, sel : Nat,
            msg : SUBSET Messages, rest : Seq(Clients)]

SType ==
  /\ blocking \in BOOLEAN
  /\ subscribers \in Seq(Clients)
  /\ channel \in Seq(Messages)
  /\ gen \in Nat
  /\ loop \in [Gens -> LoopRec]
  /\ published \subseteq Messages /\ pubWait \subseteq Messages
  /\ castWait \subseteq Messages \X Clients
  /\ queue \in [Clients -> Seq(Messages)]
  /\ got \in [Clients -> Seq(Messages)]
  /\ client \in [Clients -> {"idle", "start", "subscribe", "on", "last", "close", "off"}]

Member(x, s) == \E i \in 1..Len(s) : s[i] = x
Distinct(s) == \A i, j \in 1..Len(s) : s[i] = s[j] => i = j

\* A message that no loop has taken has not gone anywhere.
Untaken(m) ==
  /\ \A g \in Gens : m \notin loop[g].msg
  /\ \A c \in Clients : <<m, c>> \notin castWait /\ ~Member(m, Seen(c))

SWaiting ==
  /\ \A m \in Messages : m \notin published =>
        m \notin pubWait /\ ~Member(m, channel) /\ Untaken(m)
  /\ \A m \in pubWait : ~Member(m, channel) /\ Untaken(m)
  /\ Distinct(channel)
  /\ \A m \in Messages : Member(m, channel) => Untaken(m)

\* A loop that broadcasts holds one message, which no other loop holds and which those it
\* still has to serve do not have.
SCasting ==
  \A g \in Gens :
     /\ loop[g].pc = "cast" => \E m \in Messages : loop[g].msg = {m}
     /\ loop[g].pc # "cast" => loop[g].msg = {}
     /\ Distinct(loop[g].rest)
     /\ \A m \in loop[g].msg :
           /\ \A h \in Gens : m \in loop[h].msg => h = g
           /\ \A c \in Clients : Member(c, loop[g].rest) => /\ <<m, c>> \notin castWait
                                                            /\ ~Member(m, Seen(c))

SOnce ==
  /\ Distinct(subscribers)
  /\ \A c \in Clients :
        /\ client[c] \in {"idle", "start", "subscribe"} => ~Member(c, subscribers)
        /\ Distinct(Seen(c))
        /\ \A m \in Messages : <<m, c>> \in castWait => ~Member(m, Seen(c))

\* In a blocking channel that was started once, the message in the hands of the loop is
\* the last one of whoever has it.
SOrder ==
  blocking /\ MaxStarts = 1 =>
     /\ castWait = {}
     /\ \A g \in Gens : \A m \in loop[g].msg, c \in Clients :
           \A i \in 1..Len(Seen(c)) : Seen(c)[i] = m => i = Len(Seen(c))
     /\ AgreeOnOrder

SInv == SType /\ SWaiting /\ SCasting /\ SOnce /\ SOrder

-----------------------------------------------------------------------------
(* Sequences. *)

\* What stays of a sequence of different elements when one is taken out.
LEMMA RemoveOne ==
  ASSUME NEW S, NEW s \in Seq(S), Distinct(s), NEW e
  PROVE  /\ RemoveFirst(s, e) \in Seq(S)
         /\ Distinct(RemoveFirst(s, e))
         /\ \A x : Member(x, RemoveFirst(s, e)) => Member(x, s)
<1>1. CASE ~ \E i \in 1..Len(s) : s[i] = e
  BY <1>1 DEF RemoveFirst
<1>2. CASE \E i \in 1..Len(s) : s[i] = e
  <2> DEFINE I == {i \in 1..Len(s) : s[i] = e}
             k == Min(I)
  <2>1. PICK i \in 1..Len(s) : s[i] = e BY <1>2
  <2>2. I = {i} BY <2>1 DEF Distinct
  <2>3. k = i BY <2>2 DEF Min
  <2>4. RemoveFirst(s, e) = SubSeq(s, 1, i - 1) \o SubSeq(s, i + 1, Len(s))
    BY <1>2, <2>2, <2>3 DEF RemoveFirst, RemoveAt, SelectInSeq
  <2> DEFINE r == SubSeq(s, 1, i - 1) \o SubSeq(s, i + 1, Len(s))
  <2>a. /\ SubSeq(s, 1, i - 1) \in Seq(S) /\ Len(SubSeq(s, 1, i - 1)) = i - 1
        /\ SubSeq(s, i + 1, Len(s)) \in Seq(S) /\ Len(SubSeq(s, i + 1, Len(s))) = Len(s) - i
    OBVIOUS
  <2>5. r \in Seq(S) /\ Len(r) = Len(s) - 1
    <3> DEFINE a == SubSeq(s, 1, i - 1)
               b == SubSeq(s, i + 1, Len(s))
    <3>1. a \in Seq(S) /\ b \in Seq(S) /\ Len(a) = i - 1 /\ Len(b) = Len(s) - i BY <2>a
    <3> HIDE DEF a, b
    <3>2. a \o b \in Seq(S) /\ Len(a \o b) = Len(a) + Len(b) BY <3>1
    <3>3. a \o b \in Seq(S) /\ Len(a \o b) = Len(s) - 1 BY <3>1, <3>2
    <3> QED BY <3>3 DEF a, b
  <2>6. \A j \in 1..Len(r) : r[j] = IF j < i THEN s[j] ELSE s[j + 1]
    <3> DEFINE a == SubSeq(s, 1, i - 1)
               b == SubSeq(s, i + 1, Len(s))
    <3>1. a \in Seq(S) /\ b \in Seq(S) /\ Len(a) = i - 1 /\ Len(b) = Len(s) - i BY <2>a
    <3>2. \A j \in 1..(i - 1) : a[j] = s[j] OBVIOUS
    <3>3. \A j \in 1..(Len(s) - i) : b[j] = s[j + i] OBVIOUS
    <3>4. Len(a \o b) = Len(s) - 1 BY <2>5
    <3> HIDE DEF a, b
    <3> SUFFICES ASSUME NEW j \in 1..(Len(s) - 1) PROVE (a \o b)[j] = IF j < i THEN s[j] ELSE s[j + 1]
      BY <3>4 DEF a, b
    <3>5. CASE j < i
      <4>1. j \in 1..Len(a) BY <3>1, <3>5
      <4>2. (a \o b)[j] = a[j] BY <3>1, <4>1
      <4> QED BY <3>1, <3>2, <3>5, <4>1, <4>2
    <3>6. CASE ~(j < i)
      <4>1. j - Len(a) \in 1..Len(b) /\ j - Len(a) = j - i + 1 BY <3>1, <3>6
      <4>2. (a \o b)[j] = b[j - Len(a)] BY <3>1, <4>1
      <4>3. b[j - i + 1] = s[(j - i + 1) + i] BY <3>1, <3>3, <4>1
      <4>4. (j - i + 1) + i = j + 1 OBVIOUS
      <4> QED BY <3>6, <4>1, <4>2, <4>3, <4>4
    <3> QED BY <3>5, <3>6
  <2> HIDE DEF r
  <2>7. Distinct(r) BY SMTT(30), <2>5, <2>6 DEF Distinct
  <2>8. \A x : Member(x, r) => Member(x, s) BY <2>5, <2>6 DEF Member
  <2> QED BY <2>4, <2>5, <2>7, <2>8 DEF r
<1> QED BY <1>1, <1>2

LEMMA TailOne ==
  ASSUME NEW S, NEW s \in Seq(S), s # <<>>
  PROVE  /\ Head(s) \in S /\ Tail(s) \in Seq(S)
         /\ Member(Head(s), s)
         /\ \A x : Member(x, Tail(s)) => Member(x, s)
         /\ Distinct(s) => Distinct(Tail(s)) /\ ~Member(Head(s), Tail(s))
BY DEF Member, Distinct

LEMMA AppendOne ==
  ASSUME NEW S, NEW s \in Seq(S), NEW e \in S
  PROVE  /\ Append(s, e) \in Seq(S)
         /\ \A x : Member(x, Append(s, e)) <=> Member(x, s) \/ x = e
         /\ Distinct(s) /\ ~Member(e, s) => Distinct(Append(s, e))
<1>1. Append(s, e) \in Seq(S) /\ Len(Append(s, e)) = Len(s) + 1 OBVIOUS
<1>2. \A i \in 1..Len(s) : Append(s, e)[i] = s[i] OBVIOUS
<1>3. Append(s, e)[Len(s) + 1] = e OBVIOUS
<1>4. \A i \in 1..(Len(s) + 1) : i \in 1..Len(s) \/ i = Len(s) + 1 OBVIOUS
<1>5. \A x : Member(x, Append(s, e)) <=> Member(x, s) \/ x = e
  BY <1>1, <1>2, <1>3, <1>4 DEF Member
<1>6. Distinct(s) /\ ~Member(e, s) => Distinct(Append(s, e))
  BY <1>1, <1>2, <1>3, <1>4 DEF Member, Distinct
<1> QED BY <1>1, <1>5, <1>6

\* A message put into a queue is the last one its subscriber is given.
LEMMA Queued ==
  ASSUME NEW S, NEW g \in Seq(S), NEW q \in Seq(S), NEW m \in S
  PROVE  g \o Append(q, m) = Append(g \o q, m)
OBVIOUS

\* Receiving moves a message and changes nothing in what was given.
LEMMA Received ==
  ASSUME NEW S, NEW g \in Seq(S), NEW q \in Seq(S), q # <<>>
  PROVE  Append(g, Head(q)) \o Tail(q) = g \o q
OBVIOUS

-----------------------------------------------------------------------------
(* What the steps have in common. *)

LEMMA SeenType ==
  ASSUME SType, NEW c \in Clients
  PROVE  Seen(c) \in Seq(Messages)
<1>1. queue[c] \in Seq(Messages) /\ got[c] \in Seq(Messages) BY DEF SType
<1> QED BY <1>1 DEF Seen

\* Subscriber s is given m.
LEMMA Given ==
  ASSUME SType, NEW s \in Clients, NEW m \in Messages,
         queue' = [queue EXCEPT ![s] = Append(@, m)], got' = got
  PROVE  /\ queue' \in [Clients -> Seq(Messages)]
         /\ Seen(s)' = Append(Seen(s), m)
         /\ \A c \in Clients : c # s => Seen(c)' = Seen(c)
         /\ \A c \in Clients : \A x : Member(x, Seen(c))' <=> Member(x, Seen(c)) \/ (c = s /\ x = m)
         /\ \A c \in Clients : Distinct(Seen(c)) /\ ~Member(m, Seen(s)) => Distinct(Seen(c))'
<1>a. queue[s] \in Seq(Messages) /\ got[s] \in Seq(Messages) BY DEF SType
<1>b. \A x, y \in Seq(Messages) : x \o Append(y, m) = Append(x \o y, m) BY Queued
<1>1. /\ queue[s] \in Seq(Messages) /\ got[s] \in Seq(Messages)
      /\ queue'[s] = Append(queue[s], m) /\ got'[s] = got[s]
  BY DEF SType
<1>2. Append(queue[s], m) \in Seq(Messages) BY <1>1, AppendOne
<1>3. queue' \in [Clients -> Seq(Messages)] BY <1>2 DEF SType
<1>4. Seen(s)' = Append(Seen(s), m)
  <2>1. got[s] \o Append(queue[s], m) = Append(got[s] \o queue[s], m) BY <1>a, <1>b
  <2> QED BY <1>1, <2>1 DEF Seen
<1>5. \A c \in Clients : c # s => Seen(c)' = Seen(c) BY DEF SType, Seen
<1>6. Seen(s) \in Seq(Messages) BY SeenType
<1>7. /\ \A x : Member(x, Append(Seen(s), m)) <=> Member(x, Seen(s)) \/ x = m
      /\ Distinct(Seen(s)) /\ ~Member(m, Seen(s)) => Distinct(Append(Seen(s), m))
  BY <1>6, AppendOne
<1>8. \A x : Member(x, Seen(s))' <=> Member(x, Seen(s)) \/ x = m
  BY <1>4, <1>7 DEF Member
<1>9. Distinct(Seen(s)) /\ ~Member(m, Seen(s)) => Distinct(Seen(s))'
  BY <1>4, <1>7 DEF Distinct
<1>10. ASSUME NEW c \in Clients, c # s
       PROVE  (\A x : Member(x, Seen(c))' <=> Member(x, Seen(c))) /\ (Distinct(Seen(c)) => Distinct(Seen(c))')
  BY <1>5, <1>10 DEF Member, Distinct
<1> QED BY <1>3, <1>4, <1>5, <1>8, <1>9, <1>10

\* A loop goes on without giving anyone anything.
LEMMA LoopMoves ==
  ASSUME SInv, NEW g \in Gens, NEW r \in LoopRec,
         loop' = [loop EXCEPT ![g] = r],
         UNCHANGED <<blocking, channel, published, pubWait, castWait, queue, got>>,
         \/ r.pc # "cast" /\ r.msg = {}
         \/ /\ r.pc = "cast" /\ loop[g].pc = "cast" /\ r.msg = loop[g].msg
            /\ \A c \in Clients : Member(c, r.rest) => Member(c, loop[g].rest),
         Distinct(r.rest)
  PROVE  loop' \in [Gens -> LoopRec] /\ SWaiting' /\ SCasting' /\ SOrder'
<1> USE DEF SInv
<1>1. loop' \in [Gens -> LoopRec] /\ loop'[g] = r /\ \A h \in Gens : h # g => loop'[h] = loop[h]
  BY DEF SType
<1>2. \A h \in Gens : \A m \in loop'[h].msg : m \in loop[h].msg BY <1>1
<1>3. \A c \in Clients : Seen(c)' = Seen(c) BY DEF Seen
<1>4. \A c \in Clients : \A x : Member(x, Seen(c))' <=> Member(x, Seen(c)) BY <1>3 DEF Member
<1>5. \A m : Untaken(m) => Untaken(m)' BY <1>2, <1>4 DEF Untaken
<1>6. SWaiting'
  <2>1. \A m : Member(m, channel)' <=> Member(m, channel) BY DEF Member
  <2>2. Distinct(channel)' BY DEF Distinct, SWaiting
  <2> QED BY <1>5, <2>1, <2>2 DEF SWaiting
<1>7. SCasting'
  <2> SUFFICES ASSUME NEW h \in Gens
               PROVE  /\ loop'[h].pc = "cast" => \E m \in Messages : loop'[h].msg = {m}
                      /\ loop'[h].pc # "cast" => loop'[h].msg = {}
                      /\ Distinct(loop'[h].rest)
                      /\ \A m \in loop'[h].msg :
                            /\ \A k \in Gens : m \in loop'[k].msg => k = h
                            /\ \A c \in Clients : Member(c, loop'[h].rest) =>
                                  <<m, c>> \notin castWait /\ ~Member(m, Seen(c))
    BY <1>4 DEF SCasting
  <2>1. (loop'[h].pc = "cast" => \E m \in Messages : loop'[h].msg = {m}) /\ (loop'[h].pc # "cast" => loop'[h].msg = {})
    BY <1>1 DEF SCasting
  <2>2. Distinct(loop'[h].rest) BY <1>1 DEF SCasting
  <2>3. ASSUME NEW m \in loop'[h].msg, NEW c \in Clients, Member(c, loop'[h].rest)
        PROVE  m \in loop[h].msg /\ Member(c, loop[h].rest)
    BY <1>1, <2>3
  <2> QED BY <1>2, <2>1, <2>2, <2>3 DEF SCasting
<1>8. SOrder'
  <2>1. AgreeOnOrder => AgreeOnOrder' BY <1>3 DEF AgreeOnOrder, Before, IsInjective
  <2> QED BY <1>2, <1>3, <2>1 DEF SOrder
<1> QED BY <1>1, <1>6, <1>7, <1>8

\* No step but a delivery changes what the subscribers were given.
LEMMA OnceKept ==
  ASSUME SInv, UNCHANGED <<castWait, queue, got>>,
         subscribers' \in Seq(Clients), Distinct(subscribers'),
         \A c \in Clients : client'[c] \in {"idle", "start", "subscribe"} => ~Member(c, subscribers')
  PROVE  SOnce'
<1>1. \A c \in Clients : Seen(c)' = Seen(c) BY DEF Seen
<1>2. Distinct(subscribers)' BY DEF Distinct
<1>3. \A c \in Clients : client'[c] \in {"idle", "start", "subscribe"} => ~Member(c, subscribers)' BY DEF Member
<1>4. \A c \in Clients : Distinct(Seen(c)) => Distinct(Seen(c))' BY <1>1 DEF Distinct
<1>5. \A c \in Clients : \A x : Member(x, Seen(c))' <=> Member(x, Seen(c)) BY <1>1 DEF Member
<1> QED BY <1>2, <1>3, <1>4, <1>5 DEF SInv, SOnce

-----------------------------------------------------------------------------
(* The steps of the publishers. *)

\* The loops, the goroutines and the subscribers are not concerned.
LEMMA NothingGiven ==
  ASSUME SInv, UNCHANGED <<blocking, loop, castWait, queue, got, subscribers, client>>
  PROVE  SCasting' /\ SOnce' /\ SOrder' /\ \A m : Untaken(m)' <=> Untaken(m)
<1> USE DEF SInv
<1>1. \A c \in Clients : Seen(c)' = Seen(c) BY DEF Seen
<1>2. \A c \in Clients : \A x : Member(x, Seen(c))' <=> Member(x, Seen(c)) BY <1>1 DEF Member
<1>3. \A m : Untaken(m)' <=> Untaken(m) BY <1>2 DEF Untaken
<1>4. SCasting' BY <1>2 DEF SCasting
<1>5. SOnce'
  <2>1. subscribers' \in Seq(Clients) /\ Distinct(subscribers') BY DEF SType, SOnce
  <2>2. \A c \in Clients : client'[c] \in {"idle", "start", "subscribe"} => ~Member(c, subscribers') BY DEF SOnce
  <2> QED BY <2>1, <2>2, OnceKept
<1>6. SOrder'
  <2>1. AgreeOnOrder => AgreeOnOrder' BY <1>1 DEF AgreeOnOrder, Before, IsInjective
  <2> QED BY <1>1, <2>1 DEF SOrder
<1> QED BY <1>3, <1>4, <1>5, <1>6

LEMMA PublishStep ==
  ASSUME SInv, NEW m \in Messages, Publish(m) \/ PublishWaits(m)
  PROVE  SInv'
<1>0. /\ UNCHANGED <<blocking, loop, castWait, queue, got, subscribers, client, gen>>
      /\ channel \in Seq(Messages) /\ pubWait \subseteq Messages /\ published \subseteq Messages
  BY DEF Publish, PublishWaits, castVars, SInv, SType
<1>1. SCasting' /\ SOnce' /\ SOrder' /\ \A x : Untaken(x)' <=> Untaken(x) BY <1>0, NothingGiven
<1>2. Untaken(m) /\ ~Member(m, channel) BY DEF Publish, PublishWaits, SInv, SWaiting
<1>3. /\ Append(channel, m) \in Seq(Messages)
      /\ \A x : Member(x, Append(channel, m)) <=> Member(x, channel) \/ x = m
      /\ Distinct(Append(channel, m))
  <2>1. Distinct(channel) BY DEF SInv, SWaiting
  <2> QED BY <1>0, <1>2, <2>1, AppendOne
<1>4. \/ channel' = channel
      \/ channel' = Append(channel, m) /\ m \notin pubWait'
  BY DEF Publish, PublishWaits, SInv, SWaiting
<1>5. /\ pubWait' \subseteq Messages /\ published' \subseteq Messages /\ m \in published'
      /\ published \subseteq published'
      /\ \A x \in pubWait' : x \in pubWait \/ (x = m /\ channel' = channel)
  BY <1>0 DEF Publish, PublishWaits, SInv, SWaiting
<1>6. \A x \in Messages : x # m => (x \in published' <=> x \in published) BY DEF Publish, PublishWaits
<1>7. SType' BY <1>0, <1>3, <1>4, <1>5 DEF SInv, SType
<1>8. SWaiting'
  <2>1. Distinct(channel)' BY <1>3, <1>4 DEF SInv, SWaiting
  <2>2. \A x : Member(x, channel') => Member(x, channel) \/ (x = m /\ m \notin pubWait') BY <1>3, <1>4
  <2>3. \A x \in Messages : x \notin published' => x \notin pubWait' /\ ~Member(x, channel') /\ Untaken(x)
    BY <1>5, <1>6, <2>2 DEF SInv, SWaiting
  <2>4. \A x \in pubWait' : ~Member(x, channel') /\ Untaken(x)
    BY <1>2, <1>4, <1>5, <2>2 DEF SInv, SWaiting
  <2>5. \A x \in Messages : Member(x, channel') => Untaken(x) BY <1>2, <2>2 DEF SInv, SWaiting
  <2> QED BY <1>1, <2>1, <2>3, <2>4, <2>5 DEF SWaiting
<1> QED BY <1>1, <1>7, <1>8 DEF SInv

\* Steps that touch none of what a message goes through.
LEMMA QuietStep ==
  ASSUME SInv, UNCHANGED <<blocking, channel, published, pubWait, loop, castWait, queue, got, subscribers>>,
         gen' \in Nat, client' \in [Clients -> {"idle", "start", "subscribe", "on", "last", "close", "off"}],
         \A c \in Clients : client'[c] \in {"idle", "start", "subscribe"}
                              => client[c] \in {"idle", "start", "subscribe"}
  PROVE  SInv'
<1> USE DEF SInv
<1>1. \A c \in Clients : Seen(c)' = Seen(c) BY DEF Seen
<1>2. \A c \in Clients : \A x : Member(x, Seen(c))' <=> Member(x, Seen(c)) BY <1>1 DEF Member
<1>3. \A m : Untaken(m)' <=> Untaken(m) BY <1>2 DEF Untaken
<1>4. SCasting' BY <1>2 DEF SCasting
<1>5. SOnce'
  <2>1. subscribers' \in Seq(Clients) /\ Distinct(subscribers') BY DEF SType, SOnce
  <2>2. \A c \in Clients : client'[c] \in {"idle", "start", "subscribe"} => ~Member(c, subscribers') BY DEF SOnce
  <2> QED BY <2>1, <2>2, OnceKept
<1>6. SOrder'
  <2>1. AgreeOnOrder => AgreeOnOrder' BY <1>1 DEF AgreeOnOrder, Before, IsInjective
  <2> QED BY <1>1, <2>1 DEF SOrder
<1>7. SWaiting' BY <1>3 DEF SWaiting
<1>8. SType' BY DEF SType
<1> QED BY <1>4, <1>5, <1>6, <1>7, <1>8

-----------------------------------------------------------------------------
(* The steps of the clients and of the manager. *)

LEMMA WithoutOne ==
  ASSUME SInv, NEW e
  PROVE  /\ Without(e) \in Seq(Clients) /\ Distinct(Without(e))
         /\ \A c : Member(c, Without(e)) => Member(c, subscribers)
<1>1. subscribers \in Seq(Clients) /\ Distinct(subscribers) BY DEF SInv, SType, SOnce
<1> QED BY <1>1, RemoveOne DEF Without

\* Start and Close, by whoever calls them.
LEMMA StartStep ==
  ASSUME SInv, Start, UNCHANGED <<blocking, subscribers, channelVars, castVars>>,
         client' \in [Clients -> {"idle", "start", "subscribe", "on", "last", "close", "off"}],
         \A c \in Clients : client'[c] \in {"idle", "start", "subscribe"}
                              => client[c] \in {"idle", "start", "subscribe"}
  PROVE  SInv'
<1>0. UNCHANGED <<blocking, channel, published, pubWait, castWait, queue, got, subscribers>>
  BY DEF channelVars, castVars
<1>1. CASE Running
  <2>1. UNCHANGED <<gen, loop>> /\ gen' \in Nat BY <1>1 DEF Start, SInv, SType
  <2> QED BY <1>0, <2>1, QuietStep
<1>2. CASE ~Running
  <2>1. /\ gen < MaxStarts /\ gen' = gen + 1
        /\ loop' = [loop EXCEPT ![gen + 1] = InSelect(gen + 1)]
    BY <1>2 DEF Start
  <2>2. gen + 1 \in Gens /\ gen' \in Nat /\ gen + 1 \in Nat
    BY <2>1, StatsChannelAssumption DEF SInv, SType, Gens
  <2> DEFINE r == InSelect(gen + 1)
  <2>3. r \in LoopRec /\ r.pc # "cast" /\ r.msg = {} /\ r.rest = <<>>
    BY <2>2 DEF InSelect, LoopRec
  <2>4. Distinct(<<>>) BY DEF Distinct
  <2>5. loop' \in [Gens -> LoopRec] /\ SWaiting' /\ SCasting' /\ SOrder'
    <3> HIDE DEF r
    <3>1. loop' = [loop EXCEPT ![gen + 1] = r] BY <2>1 DEF r
    <3>2. Distinct(r.rest) BY <2>3, <2>4
    <3> QED BY <1>0, <2>2, <2>3, <3>1, <3>2, LoopMoves
  <2>6. SOnce'
    <3>1. subscribers' \in Seq(Clients) /\ Distinct(subscribers') BY <1>0 DEF SInv, SType, SOnce
    <3>2. \A c \in Clients : client'[c] \in {"idle", "start", "subscribe"} => ~Member(c, subscribers')
      BY <1>0 DEF SInv, SOnce
    <3> QED BY <1>0, <3>1, <3>2, OnceKept
  <2>7. SType' BY <1>0, <2>2, <2>5 DEF SInv, SType
  <2> QED BY <2>5, <2>6, <2>7 DEF SInv
<1> QED BY <1>1, <1>2

\* The list of subscribers changes.
LEMMA ListStep ==
  ASSUME SInv, UNCHANGED <<blocking, gen, loop, channelVars, castWait, queue, got>>,
         subscribers' \in Seq(Clients), Distinct(subscribers'),
         client' \in [Clients -> {"idle", "start", "subscribe", "on", "last", "close", "off"}],
         \A c \in Clients : client'[c] \in {"idle", "start", "subscribe"} => ~Member(c, subscribers')
  PROVE  SInv'
<1> USE DEF SInv, channelVars
<1>1. SOnce' BY OnceKept
<1>2. \A c \in Clients : Seen(c)' = Seen(c) BY DEF Seen
<1>3. \A c \in Clients : \A x : Member(x, Seen(c))' <=> Member(x, Seen(c)) BY <1>2 DEF Member
<1>4. \A m : Untaken(m)' <=> Untaken(m) BY <1>3 DEF Untaken
<1>5. SCasting' BY <1>3 DEF SCasting
<1>6. SOrder'
  <2>1. AgreeOnOrder => AgreeOnOrder' BY <1>2 DEF AgreeOnOrder, Before, IsInjective
  <2> QED BY <1>2, <2>1 DEF SOrder
<1>7. SWaiting' BY <1>4 DEF SWaiting
<1>8. SType' BY DEF SType
<1> QED BY <1>1, <1>5, <1>6, <1>7, <1>8

LEMMA ReceiveStep ==
  ASSUME SInv, NEW d \in Clients, Receive(d)
  PROVE  SInv'
<1> USE DEF SInv
<1>0. /\ queue[d] # <<>> /\ got' = [got EXCEPT ![d] = Append(@, Head(queue[d]))]
      /\ queue' = [queue EXCEPT ![d] = Tail(@)]
      /\ UNCHANGED <<blocking, subscribers, gen, loop, channel, published, pubWait, castWait, client>>
  BY DEF Receive, channelVars
<1>1. queue[d] \in Seq(Messages) /\ got[d] \in Seq(Messages) BY DEF SType
<1>2. Head(queue[d]) \in Messages /\ Tail(queue[d]) \in Seq(Messages) BY <1>0, <1>1, TailOne
<1>3. Append(got[d], Head(queue[d])) \in Seq(Messages) BY <1>1, <1>2, AppendOne
<1>4. queue' \in [Clients -> Seq(Messages)] /\ got' \in [Clients -> Seq(Messages)]
  BY <1>0, <1>2, <1>3 DEF SType
<1>5. \A c \in Clients : Seen(c)' = Seen(c)
  <2>1. \A x, y \in Seq(Messages) : y # <<>> => Append(x, Head(y)) \o Tail(y) = x \o y BY Received
  <2>2. Append(got[d], Head(queue[d])) \o Tail(queue[d]) = got[d] \o queue[d] BY <1>0, <1>1, <2>1
  <2>3. got'[d] = Append(got[d], Head(queue[d])) /\ queue'[d] = Tail(queue[d]) BY <1>0 DEF SType
  <2>4. Seen(d)' = Seen(d) BY <2>2, <2>3 DEF Seen
  <2>5. \A c \in Clients : c # d => Seen(c)' = Seen(c) BY <1>0 DEF SType, Seen
  <2> QED BY <2>4, <2>5
<1>6. \A c \in Clients : \A x : Member(x, Seen(c))' <=> Member(x, Seen(c)) BY <1>5 DEF Member
<1>7. \A m : Untaken(m)' <=> Untaken(m) BY <1>0, <1>6 DEF Untaken
<1>8. SCasting' BY <1>0, <1>6 DEF SCasting
<1>9. SOrder'
  <2>1. AgreeOnOrder => AgreeOnOrder' BY <1>0, <1>5 DEF AgreeOnOrder, Before, IsInjective
  <2> QED BY <1>0, <1>5, <2>1 DEF SOrder
<1>10. SWaiting' BY <1>0, <1>7 DEF SWaiting
<1>11. SOnce'
  <2>1. \A c \in Clients : Distinct(Seen(c)) => Distinct(Seen(c))' BY <1>5 DEF Distinct
  <2> QED BY <1>0, <1>6, <2>1 DEF SOnce
<1>12. SType' BY <1>0, <1>4 DEF SType
<1> QED BY <1>8, <1>9, <1>10, <1>11, <1>12

LEMMA ClientStep ==
  ASSUME SInv, NEW d \in Clients, Client(d)
  PROVE  SInv'
<1> DEFINE Early == {"idle", "start", "subscribe"}
           Stands == {"idle", "start", "subscribe", "on", "last", "close", "off"}
<1>0. client \in [Clients -> Stands] /\ gen \in Nat BY DEF SInv, SType
<1>1. CASE SubscribeCheck(d) \/ UnsubscribeCheck(d) \/ UnsubscribeClose(d)
  <2>1. UNCHANGED <<blocking, channel, published, pubWait, loop, castWait, queue, got, subscribers, gen>>
    BY <1>1 DEF SubscribeCheck, UnsubscribeCheck, UnsubscribeClose, channelVars, castVars
  <2>2. client' \in [Clients -> Stands] /\ \A c \in Clients : client'[c] \in Early => client[c] \in Early
    BY <1>0, <1>1 DEF SubscribeCheck, UnsubscribeCheck, UnsubscribeClose
  <2> QED BY <1>0, <2>1, <2>2, QuietStep
<1>2. CASE SubscribeStart(d)
  <2>1. client' \in [Clients -> Stands] /\ \A c \in Clients : client'[c] \in Early => client[c] \in Early
    BY <1>0, <1>2 DEF SubscribeStart
  <2> QED BY <1>2, <2>1, StartStep DEF SubscribeStart
<1>3. CASE Subscribe(d)
  <2>1. /\ UNCHANGED <<blocking, gen, loop, channelVars, castWait, queue, got>>
        /\ client[d] = "subscribe"
        /\ \/ client' = [client EXCEPT ![d] = "off"] /\ subscribers' = subscribers
           \/ client' = [client EXCEPT ![d] = "on"] /\ subscribers' = Append(subscribers, d)
    BY <1>3 DEF Subscribe, castVars
  <2>2. client' \in [Clients -> Stands] /\ \A c \in Clients : client'[c] \in Early => client[c] \in Early /\ c # d
    BY <1>0, <2>1
  <2>3. subscribers \in Seq(Clients) /\ Distinct(subscribers) /\ ~Member(d, subscribers)
    BY <2>1 DEF SInv, SType, SOnce
  <2>4. /\ Append(subscribers, d) \in Seq(Clients) /\ Distinct(Append(subscribers, d))
        /\ \A x : Member(x, Append(subscribers, d)) <=> Member(x, subscribers) \/ x = d
    BY <2>3, AppendOne
  <2>5. subscribers' \in Seq(Clients) /\ Distinct(subscribers') BY <2>1, <2>3, <2>4
  <2>6. \A c \in Clients : Member(c, subscribers') => Member(c, subscribers) \/ c = d BY <2>1, <2>4
  <2>7. \A c \in Clients : client'[c] \in Early => ~Member(c, subscribers')
    BY <2>2, <2>6 DEF SInv, SOnce
  <2> QED BY <2>1, <2>2, <2>5, <2>7, ListStep
<1>4. CASE Receive(d) BY <1>4, ReceiveStep
<1>5. CASE Unsubscribe(d)
  <2>1. UNCHANGED <<blocking, gen, loop, channelVars, castWait, queue, got>>
        /\ client' = [client EXCEPT ![d] = "last"] /\ subscribers' = Without(d)
    BY <1>5 DEF Unsubscribe, castVars
  <2>2. client' \in [Clients -> Stands] /\ \A c \in Clients : client'[c] \in Early => client[c] \in Early
    BY <1>0, <2>1
  <2>3. /\ subscribers' \in Seq(Clients) /\ Distinct(subscribers')
        /\ \A c : Member(c, subscribers') => Member(c, subscribers)
    BY <2>1, WithoutOne
  <2>4. \A c \in Clients : client'[c] \in Early => ~Member(c, subscribers')
    BY <2>2, <2>3 DEF SInv, SOnce
  <2> QED BY <2>1, <2>2, <2>3, <2>4, ListStep
<1> QED BY <1>1, <1>2, <1>3, <1>4, <1>5 DEF Client

-----------------------------------------------------------------------------
(* The steps of a loop. *)

\* Steps of a loop in which it keeps what it holds, or gives it up.
LEMMA LoopIdleStep ==
  ASSUME SInv, NEW g \in Gens, LoopAgain(g) \/ LoopClosed(g) \/ LoopDrain(g)
  PROVE  SInv'
<1> DEFINE r == loop'[g]
<1>0. /\ UNCHANGED <<blocking, gen, channel, published, pubWait, castWait, queue, got, client>>
      /\ loop[g] \in LoopRec /\ gen \in Nat /\ subscribers \in Seq(Clients) /\ Distinct(subscribers)
      /\ loop[g].rest \in Seq(Clients) /\ Distinct(loop[g].rest)
  BY DEF LoopAgain, LoopClosed, LoopDrain, channelVars, castVars, SInv, SType, SCasting, SOnce, LoopRec
<1>1. Distinct(<<>>) BY DEF Distinct
<1>2. /\ r \in LoopRec /\ r.pc # "cast" /\ r.msg = {} /\ Distinct(r.rest)
      /\ loop' = [loop EXCEPT ![g] = r]
  <2>1. CASE LoopAgain(g)
    <3>1. loop' = [loop EXCEPT ![g] = InSelect(gen)] BY <2>1 DEF LoopAgain
    <3>2. InSelect(gen) \in LoopRec /\ InSelect(gen).pc # "cast" /\ InSelect(gen).msg = {} /\ InSelect(gen).rest = <<>>
      BY <1>0 DEF InSelect, LoopRec
    <3>3. r = InSelect(gen) BY <3>1 DEF SInv, SType
    <3> QED BY <1>1, <3>1, <3>2, <3>3
  <2>2. CASE LoopClosed(g)
    <3> DEFINE n == [NoLoop EXCEPT !.pc = "drain", !.rest = subscribers]
    <3>1. loop' = [loop EXCEPT ![g] = n] BY <2>2 DEF LoopClosed
    <3>2. n \in LoopRec /\ n.pc # "cast" /\ n.msg = {} /\ n.rest = subscribers
      BY <1>0 DEF NoLoop, LoopRec
    <3>3. r = n BY <3>1 DEF SInv, SType
    <3> HIDE DEF n
    <3> QED BY <1>0, <3>1, <3>2, <3>3
  <2>3. CASE LoopDrain(g) /\ loop[g].rest = <<>>
    <3> DEFINE n == [loop[g] EXCEPT !.pc = "gone"]
    <3>1. loop' = [loop EXCEPT ![g] = n] /\ loop[g].pc = "drain" BY <2>3 DEF LoopDrain
    <3>2. n \in LoopRec /\ n.pc # "cast" /\ n.msg = loop[g].msg /\ n.rest = loop[g].rest
      BY <1>0 DEF LoopRec
    <3>3. r = n BY <3>1 DEF SInv, SType
    <3>4. loop[g].msg = {} BY <3>1 DEF SInv, SCasting
    <3> HIDE DEF n
    <3> QED BY <1>0, <3>1, <3>2, <3>3, <3>4
  <2>4. CASE LoopDrain(g) /\ loop[g].rest # <<>>
    <3> DEFINE n == [loop[g] EXCEPT !.rest = Tail(@)]
    <3>1. loop' = [loop EXCEPT ![g] = n] /\ loop[g].pc = "drain" BY <2>4 DEF LoopDrain, Advance
    <3>2. Tail(loop[g].rest) \in Seq(Clients) /\ Distinct(Tail(loop[g].rest)) BY <1>0, <2>4, TailOne
    <3>3. n \in LoopRec /\ n.pc # "cast" /\ n.msg = loop[g].msg /\ n.rest = Tail(loop[g].rest)
      BY <1>0, <3>1, <3>2 DEF LoopRec
    <3>4. r = n BY <3>1 DEF SInv, SType
    <3>5. loop[g].msg = {} BY <3>1 DEF SInv, SCasting
    <3> HIDE DEF n
    <3> QED BY <1>0, <3>1, <3>2, <3>3, <3>4, <3>5
  <2> QED BY <2>1, <2>2, <2>3, <2>4
<1> HIDE DEF r
<1>3. loop' \in [Gens -> LoopRec] /\ SWaiting' /\ SCasting' /\ SOrder' BY <1>0, <1>2, LoopMoves
<1>4. /\ subscribers' \in Seq(Clients) /\ Distinct(subscribers')
      /\ \A c : Member(c, subscribers') => Member(c, subscribers)
  <2>1. subscribers' = subscribers \/ subscribers' = Without(Head(loop[g].rest))
    BY DEF LoopAgain, LoopClosed, LoopDrain
  <2> QED BY <1>0, <2>1, WithoutOne
<1>5. SOnce'
  <2>1. \A c \in Clients : client'[c] \in {"idle", "start", "subscribe"} => ~Member(c, subscribers')
    BY <1>0, <1>4 DEF SInv, SOnce
  <2> QED BY <1>0, <1>4, <2>1, OnceKept
<1>6. SType' BY <1>0, <1>3, <1>4 DEF SInv, SType
<1> QED BY <1>3, <1>5, <1>6 DEF SInv

LEMMA LoopTakeStep ==
  ASSUME SInv, NEW g \in Gens, LoopTake(g)
  PROVE  SInv'
<1> USE DEF SInv
<1> DEFINE m == Head(channel)
           r == [pc |-> "cast", sel |-> 0, msg |-> {m}, rest |-> subscribers]
<1>0. /\ UNCHANGED <<blocking, subscribers, gen, published, pubWait, castWait, queue, got, client>>
      /\ channel # <<>> /\ channel' = Tail(channel) /\ loop' = [loop EXCEPT ![g] = r]
  BY DEF LoopTake, castVars
<1>1. /\ channel \in Seq(Messages) /\ Distinct(channel)
      /\ subscribers \in Seq(Clients) /\ Distinct(subscribers)
  BY DEF SType, SWaiting, SOnce
<1>2. /\ m \in Messages /\ Tail(channel) \in Seq(Messages) /\ Member(m, channel)
      /\ Distinct(Tail(channel)) /\ ~Member(m, Tail(channel))
      /\ \A x : Member(x, Tail(channel)) => Member(x, channel)
  BY <1>0, <1>1, TailOne
<1>3. Untaken(m) /\ m \in published /\ m \notin pubWait BY <1>2 DEF SWaiting
<1>4. r \in LoopRec /\ r.pc = "cast" /\ r.msg = {m} /\ r.rest = subscribers
  BY <1>1, <1>2 DEF LoopRec
<1> HIDE DEF r, m
<1>5. loop' \in [Gens -> LoopRec] /\ loop'[g] = r /\ \A h \in Gens : h # g => loop'[h] = loop[h]
  BY <1>0, <1>4 DEF SType
<1>6. \A c \in Clients : Seen(c)' = Seen(c) BY <1>0 DEF Seen
<1>7. \A c \in Clients : \A x : Member(x, Seen(c))' <=> Member(x, Seen(c)) BY <1>6 DEF Member
<1>8. \A x : x # m /\ Untaken(x) => Untaken(x)' BY <1>0, <1>4, <1>5, <1>7 DEF Untaken
<1>9. SWaiting'
  <2>1. Distinct(channel') BY <1>0, <1>2
  <2>2. \A x : Member(x, channel') => Member(x, channel) /\ x # m BY <1>0, <1>2
  <2> QED BY <1>0, <1>3, <1>8, <2>1, <2>2 DEF SWaiting
<1>10. SCasting'
  <2>1. ASSUME NEW h \in Gens
        PROVE  (loop'[h].pc = "cast" => \E x \in Messages : loop'[h].msg = {x}) /\ (loop'[h].pc # "cast" => loop'[h].msg = {})
    BY <1>2, <1>4, <1>5 DEF SCasting
  <2>2. ASSUME NEW h \in Gens PROVE Distinct(loop'[h].rest) BY <1>1, <1>4, <1>5 DEF SCasting
  <2>3. ASSUME NEW h \in Gens, NEW k \in Gens, NEW x \in loop'[h].msg, x \in loop'[k].msg PROVE k = h
    BY <1>3, <1>4, <1>5, <2>3 DEF SCasting, Untaken
  <2>4. ASSUME NEW h \in Gens, NEW x \in loop'[h].msg, NEW c \in Clients, Member(c, loop'[h].rest)
        PROVE  <<x, c>> \notin castWait' /\ ~Member(x, Seen(c))'
    BY <1>0, <1>3, <1>4, <1>5, <1>7, <2>4 DEF SCasting, Untaken
  <2> QED BY <2>1, <2>2, <2>3, <2>4 DEF SCasting
<1>11. SOnce'
  <2>1. \A c \in Clients : client'[c] \in {"idle", "start", "subscribe"} => ~Member(c, subscribers')
    BY <1>0 DEF SOnce
  <2> QED BY <1>0, <1>1, <2>1, OnceKept
<1>12. SOrder'
  <2>1. AgreeOnOrder => AgreeOnOrder' BY <1>0, <1>6 DEF AgreeOnOrder, Before, IsInjective
  <2>2. SUFFICES ASSUME blocking', MaxStarts = 1,
                        NEW h \in Gens, NEW x \in loop'[h].msg, NEW c \in Clients,
                        NEW i \in 1..Len(Seen(c)), Seen(c)[i] = x
                 PROVE  i = Len(Seen(c))
    BY <1>0, <1>6, <2>1 DEF SOrder
  <2>3. CASE h = g
    <3>1. Member(m, Seen(c)) BY <1>4, <1>5, <2>2, <2>3 DEF Member
    <3> QED BY <1>3, <3>1 DEF Untaken
  <2>4. CASE h # g BY <1>0, <1>5, <2>2, <2>4 DEF SOrder
  <2> QED BY <2>3, <2>4
<1>13. SType' BY <1>0, <1>2, <1>5 DEF SType
<1> QED BY <1>9, <1>10, <1>11, <1>12, <1>13

\* Whatever the order was, giving a subscriber the message that whoever has it has last
\* does not disturb it.
LEMMA OrderKept ==
  ASSUME SInv, AgreeOnOrder, blocking, blocking', NEW s \in Clients, NEW m \in Messages,
         Seen(s)' = Append(Seen(s), m), \A c \in Clients : c # s => Seen(c)' = Seen(c),
         ~Member(m, Seen(s)),
         \A c \in Clients : \A i \in 1..Len(Seen(c)) : Seen(c)[i] = m => i = Len(Seen(c))
  PROVE  /\ \A c \in Clients : \A i \in 1..Len(Seen(c)') : Seen(c)'[i] = m => i = Len(Seen(c)')
         /\ AgreeOnOrder'
<1>1. \A c \in Clients : Seen(c) \in Seq(Messages) BY SeenType DEF SInv
<1>2. Seen(s) \in Seq(Messages) /\ Append(Seen(s), m) \in Seq(Messages) BY <1>1
<1>3. /\ Len(Append(Seen(s), m)) = Len(Seen(s)) + 1
      /\ \A i \in 1..Len(Seen(s)) : Append(Seen(s), m)[i] = Seen(s)[i]
      /\ Append(Seen(s), m)[Len(Seen(s)) + 1] = m
  BY <1>2
<1>4. \A i \in 1..Len(Seen(s)) : Seen(s)[i] # m BY DEF Member
<1>5. \A i \in 1..(Len(Seen(s)) + 1) : i \in 1..Len(Seen(s)) \/ i = Len(Seen(s)) + 1 BY <1>2
<1>6. \A c \in Clients : \A i \in 1..Len(Seen(c)') : Seen(c)'[i] = m => i = Len(Seen(c)')
  BY <1>3, <1>4, <1>5
<1>7. \A c \in Clients : Distinct(Seen(c)')
  <2>1. Distinct(Append(Seen(s), m)) BY <1>2, AppendOne DEF SInv, SOnce
  <2> QED BY <2>1 DEF SInv, SOnce
<1>8. \A c \in Clients : DOMAIN (Seen(c)') = 1..Len(Seen(c)') BY <1>1, <1>2
<1>9. \A c \in Clients : IsInjective(Seen(c)') BY <1>7, <1>8 DEF IsInjective, Distinct
<1>10. ASSUME NEW c \in Clients, NEW x \in Messages, NEW y \in Messages, Before(Seen(c)', x, y)
       PROVE  Before(Seen(c), x, y) \/ (y = m /\ c = s)
  <2>1. CASE c # s BY <1>10, <2>1
  <2>2. CASE c = s
    <3>1. PICK i \in 1..Len(Seen(s)'), j \in 1..Len(Seen(s)') : i < j /\ Seen(s)'[i] = x /\ Seen(s)'[j] = y
      BY <1>8, <1>10, <2>2 DEF Before
    <3>2. CASE j = Len(Seen(s)) + 1 BY <1>3, <2>2, <3>1, <3>2
    <3>3. CASE j # Len(Seen(s)) + 1
      <4>1. i \in 1..Len(Seen(s)) /\ j \in 1..Len(Seen(s)) BY <1>2, <1>3, <3>1, <3>3
      <4>2. Seen(s)[i] = x /\ Seen(s)[j] = y BY <1>3, <3>1, <4>1
      <4>3. DOMAIN Seen(s) = 1..Len(Seen(s)) BY <1>2
      <4> QED BY <2>2, <3>1, <4>1, <4>2, <4>3 DEF Before
    <3> QED BY <3>2, <3>3
  <2> QED BY <2>1, <2>2
<1>11. ASSUME NEW d \in Clients, NEW x \in Messages, Before(Seen(d)', m, x)
       PROVE  FALSE
  <2>1. PICK i \in 1..Len(Seen(d)'), j \in 1..Len(Seen(d)') : i < j /\ Seen(d)'[i] = m
    BY <1>8, <1>11 DEF Before
  <2>2. i = Len(Seen(d)') BY <1>6, <2>1
  <2>3. Seen(d)' \in Seq(Messages) BY <1>1, <1>2
  <2> QED BY <2>1, <2>2, <2>3
<1>12. ASSUME NEW c \in Clients, NEW d \in Clients, NEW x \in Messages, NEW y \in Messages,
              Before(Seen(c)', x, y), Before(Seen(d)', y, x)
       PROVE  FALSE
  <2>1. Before(Seen(c), x, y) /\ Before(Seen(d), y, x) BY <1>10, <1>11, <1>12
  <2> QED BY <2>1 DEF AgreeOnOrder
<1>13. AgreeOnOrder' BY <1>9, <1>12 DEF AgreeOnOrder
<1> QED BY <1>6, <1>13

LEMMA LoopCastStep ==
  ASSUME SInv, NEW g \in Gens, LoopCast(g)
  PROVE  SInv'
<1> USE DEF SInv
<1>a. PICK m \in Messages : loop[g].msg = {m} BY DEF LoopCast, SCasting
<1>b. (CHOOSE x \in loop[g].msg : TRUE) = m BY <1>a
<1> DEFINE r == [loop[g] EXCEPT !.rest = Tail(@)]
<1>0. /\ UNCHANGED <<blocking, subscribers, gen, channel, published, pubWait, got, client>>
      /\ loop[g].pc = "cast" /\ loop[g].rest # <<>>
  BY DEF LoopCast, channelVars
<1>1. loop[g] \in LoopRec /\ loop[g].rest \in Seq(Clients) /\ Distinct(loop[g].rest)
  BY DEF SType, SCasting, LoopRec
<1>c. PICK s \in Clients : s = Head(loop[g].rest) BY <1>0, <1>1, TailOne
<1>2. /\ s \in Clients /\ Tail(loop[g].rest) \in Seq(Clients) /\ Member(s, loop[g].rest)
      /\ Distinct(Tail(loop[g].rest)) /\ ~Member(s, Tail(loop[g].rest))
      /\ \A x : Member(x, Tail(loop[g].rest)) => Member(x, loop[g].rest)
  BY <1>c, <1>0, <1>1, TailOne
<1>3. r \in LoopRec /\ r.pc = "cast" /\ r.msg = loop[g].msg /\ r.rest = Tail(loop[g].rest)
  BY <1>0, <1>1, <1>2 DEF LoopRec
<1>4. <<m, s>> \notin castWait /\ ~Member(m, Seen(s)) BY <1>a, <1>2 DEF SCasting
<1>5. Advance(g) => loop' = [loop EXCEPT ![g] = r] BY DEF Advance
<1>6. \/ UNCHANGED <<loop, queue, castWait>>
      \/ loop' = [loop EXCEPT ![g] = r] /\ UNCHANGED <<queue, castWait>>
      \/ /\ loop' = [loop EXCEPT ![g] = r] /\ castWait' = castWait
         /\ queue' = [queue EXCEPT ![s] = Append(@, m)]
      \/ /\ loop' = [loop EXCEPT ![g] = r] /\ queue' = queue /\ ~blocking
         /\ castWait' = castWait \cup {<<m, s>>}
  BY <1>b, <1>c, <1>5 DEF LoopCast
<1> HIDE DEF r
<1>7. loop' = [loop EXCEPT ![g] = r] =>
         /\ loop' \in [Gens -> LoopRec] /\ loop'[g] = r
         /\ \A h \in Gens : h # g => loop'[h] = loop[h]
         /\ \A h \in Gens : loop'[h].msg = loop[h].msg /\ loop'[h].pc = loop[h].pc
         /\ \A h \in Gens : Distinct(loop'[h].rest)
  <2>1. SUFFICES ASSUME loop' = [loop EXCEPT ![g] = r]
                 PROVE  /\ loop' \in [Gens -> LoopRec] /\ loop'[g] = r
                        /\ \A h \in Gens : h # g => loop'[h] = loop[h]
                        /\ \A h \in Gens : loop'[h].msg = loop[h].msg /\ loop'[h].pc = loop[h].pc
                        /\ \A h \in Gens : Distinct(loop'[h].rest)
    OBVIOUS
  <2>2. /\ loop' \in [Gens -> LoopRec] /\ loop'[g] = r
        /\ \A h \in Gens : h # g => loop'[h] = loop[h]
    BY <1>3, <2>1 DEF SType
  <2>3. \A h \in Gens : loop'[h].msg = loop[h].msg /\ loop'[h].pc = loop[h].pc BY <1>0, <1>3, <2>2
  <2>4. \A h \in Gens : Distinct(loop'[h].rest) BY <1>2, <1>3, <2>2 DEF SCasting
  <2> QED BY <2>2, <2>3, <2>4
<1>8. \A h \in Gens : m \in loop[h].msg <=> h = g BY <1>a DEF SCasting
<1>9. CASE UNCHANGED <<loop, queue, castWait>>
  BY <1>0, <1>9, QuietStep DEF SType
<1>10. CASE loop' = [loop EXCEPT ![g] = r] /\ UNCHANGED <<queue, castWait>>
  <2>1. loop' \in [Gens -> LoopRec] /\ SWaiting' /\ SCasting' /\ SOrder'
    BY <1>0, <1>2, <1>3, <1>10, LoopMoves
  <2>2. SOnce'
    <3>1. subscribers' \in Seq(Clients) /\ Distinct(subscribers') BY <1>0 DEF SType, SOnce
    <3>2. \A c \in Clients : client'[c] \in {"idle", "start", "subscribe"} => ~Member(c, subscribers')
      BY <1>0 DEF SOnce
    <3> QED BY <1>0, <1>10, <3>1, <3>2, OnceKept
  <2>3. SType' BY <1>0, <1>10, <2>1 DEF SType
  <2> QED BY <2>1, <2>2, <2>3
<1>11. CASE /\ loop' = [loop EXCEPT ![g] = r] /\ castWait' = castWait
            /\ queue' = [queue EXCEPT ![s] = Append(@, m)]
  <2>1. /\ queue' \in [Clients -> Seq(Messages)]
        /\ Seen(s)' = Append(Seen(s), m)
        /\ \A c \in Clients : c # s => Seen(c)' = Seen(c)
        /\ \A c \in Clients : \A x : Member(x, Seen(c))' <=> Member(x, Seen(c)) \/ (c = s /\ x = m)
        /\ \A c \in Clients : Distinct(Seen(c)) /\ ~Member(m, Seen(s)) => Distinct(Seen(c))'
    <3>1. SType /\ s \in Clients /\ got' = got /\ queue' = [queue EXCEPT ![s] = Append(@, m)] BY <1>0, <1>2, <1>11
    <3> QED BY <3>1, Given
  <2>2. ~Untaken(m) BY <1>8 DEF Untaken
  <2>3. \A x : Untaken(x) => Untaken(x)' BY <1>7, <1>11, <2>1, <2>2 DEF Untaken
  <2>4. SWaiting' BY <1>0, <2>3 DEF SWaiting
  <2>5. SCasting'
    <3>1. ASSUME NEW h \in Gens, NEW x \in loop'[h].msg, NEW c \in Clients, Member(c, loop'[h].rest)
          PROVE  <<x, c>> \notin castWait' /\ ~Member(x, Seen(c))'
      <4>1. x \in loop[h].msg /\ Member(c, loop[h].rest) BY <1>2, <1>3, <1>7, <1>11, <3>1
      <4>2. <<x, c>> \notin castWait /\ ~Member(x, Seen(c)) BY <4>1 DEF SCasting
      <4>3. ~(c = s /\ x = m) BY <1>2, <1>3, <1>7, <1>8, <1>11, <3>1, <4>1
      <4> QED BY <1>11, <2>1, <4>2, <4>3
    <3> QED BY <1>7, <1>11, <3>1 DEF SCasting
  <2>6. SOnce' BY <1>0, <1>4, <1>11, <2>1 DEF SOnce
  <2>7. SOrder'
    <3>1. SUFFICES ASSUME blocking', MaxStarts = 1
                   PROVE  SOrder'
      BY DEF SOrder
    <3>2. blocking /\ AgreeOnOrder /\ castWait = {} BY <1>0, <3>1 DEF SOrder
    <3>3. \A c \in Clients : \A i \in 1..Len(Seen(c)) : Seen(c)[i] = m => i = Len(Seen(c))
      BY <1>a, <3>1, <3>2 DEF SOrder
    <3>4. /\ \A c \in Clients : \A i \in 1..Len(Seen(c)') : Seen(c)'[i] = m => i = Len(Seen(c)')
          /\ AgreeOnOrder'
      <4>1. s \in Clients /\ SInv BY <1>2
      <4>2. Seen(s)' = Append(Seen(s), m) /\ \A c \in Clients : c # s => Seen(c)' = Seen(c) BY <2>1
      <4> HIDE DEF SInv
      <4> QED BY <1>4, <3>1, <3>2, <3>3, <4>1, <4>2, OrderKept
    <3>5. \A h \in Gens : h = g BY <3>1 DEF Gens
    <3>6. \A h \in Gens : \A x \in loop'[h].msg : x = m BY <1>a, <1>7, <1>11, <3>5
    <3> QED BY <1>11, <3>2, <3>4, <3>6 DEF SOrder
  <2>8. SType' BY <1>0, <1>7, <1>11, <2>1 DEF SType
  <2> QED BY <2>4, <2>5, <2>6, <2>7, <2>8
<1>12. CASE /\ loop' = [loop EXCEPT ![g] = r] /\ queue' = queue /\ ~blocking
            /\ castWait' = castWait \cup {<<m, s>>}
  <2>1. \A c \in Clients : Seen(c)' = Seen(c) BY <1>0, <1>12 DEF Seen
  <2>2. \A c \in Clients : \A x : Member(x, Seen(c))' <=> Member(x, Seen(c)) BY <2>1 DEF Member
  <2>3. ~Untaken(m) BY <1>8 DEF Untaken
  <2>4. \A x, c : <<x, c>> \in castWait' <=> <<x, c>> \in castWait \/ (x = m /\ c = s) BY <1>12
  <2>5. \A x : Untaken(x) => Untaken(x)' BY <1>7, <1>12, <2>2, <2>3, <2>4 DEF Untaken
  <2>6. SWaiting' BY <1>0, <2>5 DEF SWaiting
  <2>7. SCasting'
    <3>1. ASSUME NEW h \in Gens, NEW x \in loop'[h].msg, NEW c \in Clients, Member(c, loop'[h].rest)
          PROVE  <<x, c>> \notin castWait' /\ ~Member(x, Seen(c))'
      <4>1. x \in loop[h].msg /\ Member(c, loop[h].rest) BY <1>2, <1>3, <1>7, <1>12, <3>1
      <4>2. <<x, c>> \notin castWait /\ ~Member(x, Seen(c)) BY <4>1 DEF SCasting
      <4>3. ~(c = s /\ x = m) BY <1>2, <1>3, <1>7, <1>8, <1>12, <3>1, <4>1
      <4> QED BY <2>2, <2>4, <4>2, <4>3
    <3> QED BY <1>7, <1>12, <3>1 DEF SCasting
  <2>8. SOnce'
    <3>1. \A c \in Clients : Distinct(Seen(c)) => Distinct(Seen(c))' BY <2>1 DEF Distinct
    <3> QED BY <1>0, <1>4, <2>2, <2>4, <3>1 DEF SOnce
  <2>9. SOrder' BY <1>0, <1>12 DEF SOrder
  <2>10. castWait' \subseteq Messages \X Clients BY <1>2, <1>12 DEF SType
  <2>11. SType' BY <1>0, <1>7, <1>12, <2>10 DEF SType
  <2> QED BY <2>6, <2>7, <2>8, <2>9, <2>11
<1> QED BY <1>6, <1>9, <1>10, <1>11, <1>12

LEMMA CastWaitsStep ==
  ASSUME SInv, NEW m \in Messages, NEW s \in Clients, CastWaits(m, s)
  PROVE  SInv'
<1> USE DEF SInv
<1>0. /\ UNCHANGED <<blocking, subscribers, gen, loop, channel, published, pubWait, got, client>>
      /\ <<m, s>> \in castWait /\ castWait' = castWait \ {<<m, s>>}
      /\ \/ queue' = queue
         \/ queue' = [queue EXCEPT ![s] = Append(@, m)]
  BY DEF CastWaits, channelVars
<1>1. ~Untaken(m) /\ ~Member(m, Seen(s)) /\ ~(blocking /\ MaxStarts = 1)
  BY <1>0 DEF Untaken, SOnce, SOrder
<1>2. castWait' \subseteq Messages \X Clients /\ \A p : p \in castWait' => p \in castWait /\ p # <<m, s>>
  BY <1>0 DEF SType
<1>3. /\ queue' \in [Clients -> Seq(Messages)]
      /\ \A c \in Clients : \A x : Member(x, Seen(c))' => Member(x, Seen(c)) \/ (c = s /\ x = m)
      /\ \A c \in Clients : Distinct(Seen(c))'
  <2>1. CASE queue' = queue
    <3>1. \A c \in Clients : Seen(c)' = Seen(c) BY <1>0, <2>1 DEF Seen
    <3> QED BY <2>1, <3>1 DEF Member, Distinct, SType, SOnce
  <2>2. CASE queue' = [queue EXCEPT ![s] = Append(@, m)]
    BY <1>0, <1>1, <2>2, Given DEF SOnce
  <2> QED BY <1>0, <2>1, <2>2
<1>4. \A x : Untaken(x) => Untaken(x)' BY <1>0, <1>1, <1>2, <1>3 DEF Untaken
<1>5. SWaiting' BY <1>0, <1>4 DEF SWaiting
<1>6. SCasting'
  <2>1. ASSUME NEW h \in Gens, NEW x \in loop[h].msg, NEW c \in Clients, Member(c, loop[h].rest)
        PROVE  <<x, c>> \notin castWait' /\ ~Member(x, Seen(c))'
    <3>1. <<x, c>> \notin castWait /\ ~Member(x, Seen(c)) BY <2>1 DEF SCasting
    <3>2. ~(c = s /\ x = m) BY <1>0, <3>1
    <3> QED BY <1>2, <1>3, <3>1, <3>2
  <2> QED BY <1>0, <2>1 DEF SCasting
<1>7. SOnce' BY <1>0, <1>2, <1>3 DEF SOnce
<1>8. SOrder' BY <1>0, <1>1 DEF SOrder
<1>9. SType' BY <1>0, <1>2, <1>3 DEF SType
<1> QED BY <1>5, <1>6, <1>7, <1>8, <1>9

-----------------------------------------------------------------------------
LEMMA SInitially ==
  ASSUME Init
  PROVE  SInv
<1>0. \A c \in Clients : queue[c] = <<>> /\ got[c] = <<>> BY DEF Init
<1>1. \A c \in Clients : Seen(c) = <<>> BY <1>0 DEF Seen
<1>2. /\ \A x : ~Member(x, <<>>)
      /\ Distinct(<<>>)
  BY DEF Member, Distinct
<1>3. NoLoop \in LoopRec /\ NoLoop.msg = {} /\ NoLoop.rest = <<>> /\ NoLoop.pc # "cast" BY DEF NoLoop, LoopRec
<1>4. SType BY <1>3, StatsChannelAssumption DEF Init, SType
<1>5. \A g \in Gens : loop[g] = NoLoop BY DEF Init
<1>6. \A m : Untaken(m) BY <1>1, <1>2, <1>3, <1>5 DEF Untaken, Init
<1>7. SWaiting BY <1>2, <1>6 DEF Init, SWaiting
<1>8. SCasting BY <1>2, <1>3, <1>5 DEF SCasting
<1>9. SOnce BY <1>1, <1>2 DEF Init, SOnce
<1>10. AgreeOnOrder BY <1>1 DEF AgreeOnOrder, IsInjective, Before
<1>11. SOrder BY <1>3, <1>5, <1>10 DEF Init, SOrder
<1> QED BY <1>4, <1>7, <1>8, <1>9, <1>11 DEF SInv

LEMMA SStep ==
  ASSUME SInv, [Next]_vars
  PROVE  SInv'
<1>0. client \in [Clients -> {"idle", "start", "subscribe", "on", "last", "close", "off"}] /\ gen \in Nat
  BY DEF SInv, SType
<1>1. ASSUME NEW m \in Messages, Publish(m) \/ PublishWaits(m) PROVE SInv' BY <1>1, PublishStep
<1>2. ASSUME NEW m \in Messages, Cancel(m) PROVE SInv'
  BY <1>0, <1>2, QuietStep DEF Cancel, castVars
<1>3. ASSUME NEW g \in Gens, Loop(g) PROVE SInv'
  BY <1>3, LoopTakeStep, LoopCastStep, LoopIdleStep DEF Loop
<1>4. ASSUME NEW m \in Messages, NEW s \in Clients, CastWaits(m, s) PROVE SInv' BY <1>4, CastWaitsStep
<1>5. ASSUME NEW c \in Clients, Client(c) PROVE SInv' BY <1>5, ClientStep
<1>6. CASE ManagerStart BY <1>0, <1>6, StartStep DEF ManagerStart
<1>7. CASE ManagerClose BY <1>0, <1>7, QuietStep DEF ManagerClose, channelVars, castVars
<1>8. CASE UNCHANGED vars BY <1>0, <1>8, QuietStep DEF vars
<1> QED BY <1>1, <1>2, <1>3, <1>4, <1>5, <1>6, <1>7, <1>8 DEF Next

LEMMA SInvariant == Spec => []SInv
BY SInitially, SStep, PTL DEF Spec

\* No subscriber is given a message twice, however often the channel is started and
\* closed and whatever of broadcast, its goroutines and Receive comes first.
THEOREM NoMessageTwice == Spec => [](\A c \in Clients : IsInjective(Seen(c)))
<1>1. SInv => \A c \in Clients : IsInjective(Seen(c))
  <2> SUFFICES ASSUME SInv, NEW c \in Clients PROVE IsInjective(Seen(c)) OBVIOUS
  <2>1. Seen(c) \in Seq(Messages) BY SeenType DEF SInv
  <2>2. DOMAIN Seen(c) = 1..Len(Seen(c)) BY <2>1
  <2> QED BY <2>2 DEF SInv, SOnce, Distinct, IsInjective
<1> QED BY <1>1, SInvariant, PTL

\* And the subscribers of a blocking channel that was started once are given their
\* messages in the same order.
THEOREM SameOrder ==
  ASSUME MaxStarts = 1
  PROVE  Spec => []AgreeOnOrder
<1>1. SInv => AgreeOnOrder
  <2> SUFFICES ASSUME SInv PROVE AgreeOnOrder OBVIOUS
  <2>1. CASE blocking BY <2>1 DEF SInv, SOrder
  <2>2. CASE ~blocking
    <3> SUFFICES ASSUME NEW c \in Clients PROVE IsInjective(Seen(c)) BY <2>2 DEF AgreeOnOrder
    <3>1. Seen(c) \in Seq(Messages) BY SeenType DEF SInv
    <3>2. DOMAIN Seen(c) = 1..Len(Seen(c)) BY <3>1
    <3> QED BY <3>2 DEF SInv, SOnce, Distinct, IsInjective
  <2> QED BY <2>1, <2>2
<1> QED BY <1>1, SInvariant, PTL
=============================================================================
