--------------------------- MODULE RoutingProofs ----------------------------
(***************************************************************************)
(* What a connection meets on its way to an outbound, for any number of    *)
(* goroutines, names, pools, addresses and outbounds: the sniffing         *)
(* dispatcher, the pools of fake addresses, the cache of a name server and *)
(* the choice of a balancer.                                               *)
(***************************************************************************)
EXTENDS Routes, Integers, Sequences, FiniteSets, FiniteSetTheorems, SequenceTheorems, TLAPS

-----------------------------------------------------------------------------
(* Dispatcher. *)

\* The override of fakedns applies to this connection.
Faked == request.sniffing /\ request.fake /\ "fakedns" \in request.override

\* Once the connection was sniffed, the made-up address is replaced.
SInv ==
  /\ request \in [network : {"tcp", "udp"}, sniffing : BOOLEAN, metadataOnly : BOOLEAN,
                  fake : BOOLEAN, override : Overrides]
  /\ Faked /\ pc \in {"route", "serve"} => target = "fakedomain"

\* However sniffing ends, a domain of fakedns prevails over what the content says.
LEMMA FinishReplaces ==
  ASSUME NEW content, S!Finish(content), Faked
  PROVE  target' = "fakedomain"
  <1>1. S!MetaResult = [protocol |-> "fakedns", domain |-> "fakedomain", from |-> "fakedns"]
    BY DEF S!MetaResult, Faked
  <1>2. S!MetaResult # S!Err
    BY <1>1 DEF S!Err
  <1> DEFINE r == S!Combine(S!MetaResult, content)
  <1>3. r = S!MetaResult \/ r = S!CompositeResult(S!MetaResult, content)
    BY <1>2 DEF S!Combine
  <1>4. r.domain = "fakedomain" /\ r.from = "fakedns"
    BY <1>1, <1>3 DEF S!CompositeResult
  <1>5. S!shouldOverride(r)
    BY <1>4 DEF S!shouldOverride, Faked
  <1> QED
    BY <1>4, <1>5 DEF S!Finish

\* An iteration of the loop either ends the sniffing or leaves the target alone.
LEMMA IterationEnds ==
  ASSUME NEW failed, NEW payload, NEW time, S!Iterate(failed, payload, time)
  PROVE  UNCHANGED <<pc, target>> \/ \E content : S!Finish(content)
  BY Zenon DEF S!Iterate

\* An address that fakedns knows never reaches an outbound if the inbound asks for its override:
\* whatever the sniffers find in the content, whenever the context ends, and however long
\* the inbound takes to write.
THEOREM FakeReplaced == S!Spec => []FakeAddressReplaced
  <1>1. S!Init => SInv
    BY DEF S!Init, SInv, Faked
  <1>2. SInv /\ [S!Next]_(S!vars) => SInv'
    <2> SUFFICES ASSUME SInv, [S!Next]_(S!vars) PROVE SInv'
      OBVIOUS
    <2>1. request' = request
      BY DEF S!Next, S!vars, S!Sniffing, S!SniffMetadata, S!CtxDone, S!SniffData, S!SniffNothing,
             S!RouteNowhere, S!RouteToHandler, S!Read, S!HandlerEnds, S!Write, S!CloseWriter, S!GiveUp
    <2>2. ASSUME NEW content, S!Finish(content) PROVE SInv'
      BY <2>1, <2>2, FinishReplaces DEF SInv, Faked
    <2>3. ASSUME S!Sniffing PROVE SInv'
      <3>1. (UNCHANGED <<pc, target>>) \/ \E content : S!Finish(content)
        BY <2>3, IterationEnds DEF S!Sniffing, S!SniffMetadata, S!CtxDone, S!SniffData, S!SniffNothing
      <3> QED
        BY <2>1, <2>2, <3>1 DEF SInv, Faked
    <2>4. ASSUME ~S!Sniffing PROVE SInv'
      <3>1. /\ target' = target
            /\ pc' \in {"route", "serve"} => pc \in {"route", "serve"}
        BY <2>4 DEF S!Next, S!vars, S!RouteNowhere, S!RouteToHandler, S!Read, S!HandlerEnds,
                    S!Write, S!CloseWriter, S!GiveUp
      <3> QED
        BY <2>1, <3>1 DEF SInv, Faked
    <2> QED
      BY <2>3, <2>4
  <1>3. SInv => S!FakeAddressReplaced
    BY DEF SInv, S!FakeAddressReplaced, Faked
  <1> QED
    BY <1>1, <1>2, <1>3, PTL DEF S!Spec, FakeAddressReplaced

-----------------------------------------------------------------------------
(* Dispatcher: the link from inbound to outbound. *)

\* The safety part of LinkDelivers: the outbound gets what the inbound wrote, from its
\* beginning, in order; and until one of them gives the connection up, what it has not got is
\* in the cache or in the pipe.
LinkIntact ==
  /\ S!IsPrefix(got, written)
  /\ upState # "errord" /\ pc # "end" => got \o cache \o uplink = written

\* What was read for the sniffers comes before what is still in the pipe, and nobody writes
\* to a pipe that was interrupted.
KInv ==
  /\ written \in Seq(Nat) /\ uplink \in Seq(Nat) /\ cache \in Seq(Nat) /\ got \in Seq(Nat)
  /\ pc = "end" => upState # "open"
  /\ pc # "end" /\ upState = "errord" => uplink = <<>> /\ S!IsPrefix(got \o cache, written)
  /\ LinkIntact

LEMMA PrefixFacts ==
  ASSUME NEW s \in Seq(Nat), NEW t \in Seq(Nat), NEW u \in Seq(Nat)
  PROVE  /\ S!IsPrefix(s, s)
         /\ S!IsPrefix(s, s \o t)
         /\ S!IsPrefix(s \o t, u) => S!IsPrefix(s, u)
         /\ \A x \in Nat : S!IsPrefix(s, u) => S!IsPrefix(s, Append(u, x))
  <1>1. S!IsPrefix(s, s)
    BY DEF S!IsPrefix
  <1>2. S!IsPrefix(s, s \o t)
    <2>1. Len(s) <= Len(s \o t) /\ SubSeq(s \o t, 1, Len(s)) = s
      OBVIOUS
    <2>2. SubSeq(s, 1, Len(s)) = s
      OBVIOUS
    <2> QED
      BY <2>1, <2>2 DEF S!IsPrefix
  <1>3. ASSUME S!IsPrefix(s \o t, u) PROVE S!IsPrefix(s, u)
    <2> DEFINE c == s \o t
    <2>1. c \in Seq(Nat) /\ Len(s) <= Len(c) /\ \A i \in 1..Len(s) : c[i] = s[i]
      OBVIOUS
    <2> HIDE DEF c
    <2>2. Len(c) <= Len(u) /\ SubSeq(c, 1, Len(c)) = SubSeq(u, 1, Len(c))
      BY <1>3 DEF S!IsPrefix, c
    <2>3. \A i \in 1..Len(c) : SubSeq(c, 1, Len(c))[i] = c[i] /\ SubSeq(u, 1, Len(c))[i] = u[i]
      BY <2>1, <2>2
    <2>4. ASSUME NEW i \in 1..Len(s) PROVE u[i] = s[i]
      <3>1. i \in 1..Len(c)
        BY <2>1
      <3> QED
        BY <2>1, <2>2, <2>3, <3>1
    <2>5. Len(s) <= Len(u)
      BY <2>1, <2>2
    <2> QED
      BY <2>4, <2>5 DEF S!IsPrefix
  <1>4. ASSUME NEW x \in Nat, S!IsPrefix(s, u) PROVE S!IsPrefix(s, Append(u, x))
    <2>1. Len(s) <= Len(u) /\ SubSeq(s, 1, Len(s)) = SubSeq(u, 1, Len(s))
      BY <1>4 DEF S!IsPrefix
    <2>2. Len(s) <= Len(Append(u, x)) /\ SubSeq(Append(u, x), 1, Len(s)) = SubSeq(u, 1, Len(s))
      BY <2>1
    <2> QED
      BY <2>1, <2>2 DEF S!IsPrefix
  <1> QED
    BY <1>1, <1>2, <1>3, <1>4

LEMMA ConcatAssoc ==
  ASSUME NEW s \in Seq(Nat), NEW t \in Seq(Nat), NEW u \in Seq(Nat)
  PROVE  (s \o t) \o u = s \o (t \o u)
  OBVIOUS

LEMMA ConcatAppend ==
  ASSUME NEW s \in Seq(Nat), NEW t \in Seq(Nat), NEW x \in Nat
  PROVE  s \o Append(t, x) = Append(s \o t, x)
  OBVIOUS

LEMMA ConcatFacts ==
  ASSUME NEW s \in Seq(Nat), NEW t \in Seq(Nat)
  PROVE  s \o t \in Seq(Nat) /\ s \o <<>> = s
  OBVIOUS

\* The link of a connection loses, repeats and reorders nothing, however sniffing reads ahead
\* of the outbound, whichever goroutine closes or interrupts it meanwhile.
THEOREM LinkKept == S!Spec => []LinkIntact
  <1>1. S!Init => KInv
    BY DEF S!Init, KInv, LinkIntact, S!IsPrefix
  <1>2. KInv /\ [S!Next]_(S!vars) => KInv'
    <2> SUFFICES ASSUME KInv, [S!Next]_(S!vars) PROVE KInv'
      OBVIOUS
    <2> USE DEF KInv, LinkIntact
    <2>0. /\ written \in Seq(Nat) /\ uplink \in Seq(Nat) /\ cache \in Seq(Nat) /\ got \in Seq(Nat)
          /\ got \o cache \in Seq(Nat)
      OBVIOUS
    <2>i. ASSUME S!InterruptPipe, UNCHANGED <<written, got>>
          PROVE  /\ uplink' \in Seq(Nat) /\ upState' # "open"
                 /\ upState' = "errord" => upState = "errord" \/ uplink' = <<>>
                 /\ upState' # "errord" => UNCHANGED <<upState, uplink>>
                 /\ upState = "errord" => UNCHANGED <<upState, uplink>>
      <3>1. CASE upState = "open"
        <4>1. upState' = "errord" /\ uplink' = <<>>
          BY <2>i, <3>1 DEF S!InterruptPipe
        <4> QED
          BY <3>1, <4>1
      <3>2. CASE upState # "open"
        <4>1. UNCHANGED <<upState, uplink>>
          BY <2>i, <3>2 DEF S!InterruptPipe
        <4> QED
          BY <3>2, <4>1
      <3> QED
        BY <3>1, <3>2
    <2>1. CASE UNCHANGED S!vars
      BY <2>1 DEF S!vars, S!IsPrefix
    <2>f. ASSUME NEW content, S!Finish(content) PROVE pc' = "route"
      BY <2>f DEF S!Finish
    <2>t. ASSUME NEW failed, NEW payload, NEW time, S!Iterate(failed, payload, time)
          PROVE  pc' = pc \/ pc' = "route"
      BY <2>t, <2>f, IterationEnds
    <2>2. CASE S!SniffMetadata \/ S!CtxDone \/ S!SniffNothing
      <3>1. UNCHANGED <<written, uplink, upState, cache, got>> /\ pc # "end" /\ pc' # "end"
        BY <2>2, <2>f, <2>t DEF S!SniffMetadata, S!CtxDone, S!SniffNothing
      <3> QED
        BY <3>1 DEF S!IsPrefix
    <2>3. CASE S!SniffData
      <3>1. /\ UNCHANGED <<written, upState, got>> /\ pc # "end" /\ pc' # "end"
            /\ cache' = cache \o uplink /\ uplink' = <<>> /\ uplink # <<>>
        BY <2>3, <2>t DEF S!SniffData, S!Merge
      <3>2. (got \o cache') \o uplink' = (got \o cache) \o uplink /\ cache' \in Seq(Nat) /\ uplink' \in Seq(Nat)
        <4>1. cache' \in Seq(Nat) /\ uplink' \in Seq(Nat) /\ got \o (cache \o uplink) \in Seq(Nat)
          BY <2>0, <3>1
        <4>2. (got \o cache) \o uplink = got \o (cache \o uplink)
          BY <2>0, ConcatAssoc
        <4>3. (got \o cache') \o <<>> = got \o cache'
          BY <2>0, <3>1, <4>1, ConcatFacts
        <4> QED
          BY <3>1, <4>1, <4>2, <4>3
      <3>3. upState # "errord"
        BY <3>1
      <3> QED
        BY <3>1, <3>2, <3>3 DEF S!IsPrefix
    <2>4. CASE S!RouteNowhere \/ S!HandlerEnds
      <3>1. /\ UNCHANGED <<written, got>> /\ cache' = <<>> /\ pc' = "end"
            /\ uplink' \in Seq(Nat) /\ upState' # "open"
        BY <2>4, <2>i DEF S!RouteNowhere, S!HandlerEnds, S!InterruptUplink
      <3> QED
        BY <3>1 DEF S!IsPrefix
    <2>5. CASE S!RouteToHandler
      BY <2>5 DEF S!RouteToHandler, S!IsPrefix
    <2>6. CASE S!Read
      <3>1. UNCHANGED <<written, upState, pc>> /\ pc = "serve"
        BY <2>6 DEF S!Read
      <3>2. CASE cache # <<>>
        <4>1. got' = got \o cache /\ cache' = <<>> /\ uplink' = uplink
          BY <2>6, <3>2 DEF S!Read
        <4>2. got' \in Seq(Nat) /\ got' \o cache' = got \o cache
          BY <2>0, <4>1, ConcatFacts
        <4>3. S!IsPrefix(got', written)
          <5>1. CASE upState = "errord"
            BY <3>1, <4>1, <5>1
          <5>2. CASE upState # "errord"
            <6>1. written = (got \o cache) \o uplink
              BY <3>1, <5>2
            <6>2. S!IsPrefix(got \o cache, (got \o cache) \o uplink)
              BY <2>0, PrefixFacts
            <6> QED
              BY <4>1, <6>1, <6>2
          <5> QED
            BY <5>1, <5>2
        <4>4. cache' \in Seq(Nat)
          BY <4>1
        <4> QED
          BY <3>1, <4>1, <4>2, <4>3, <4>4 DEF S!IsPrefix
      <3>3. CASE cache = <<>>
        <4>1. uplink # <<>> /\ got' = got \o uplink /\ uplink' = <<>> /\ cache' = cache
          BY <2>6, <3>3 DEF S!Read
        <4>2. upState # "errord"
          BY <3>1, <4>1
        <4>3. got \o cache = got /\ got' \in Seq(Nat) /\ got' \o cache' = got' /\ got' \o uplink' = got'
          BY <2>0, <3>3, <4>1, ConcatFacts
        <4>4. got' = written
          BY <3>1, <4>1, <4>2, <4>3
        <4>5. S!IsPrefix(written, written)
          BY <2>0, PrefixFacts
        <4>6. uplink' \in Seq(Nat) /\ cache' \in Seq(Nat) /\ (got' \o cache') \o uplink' = written
          BY <4>1, <4>3, <4>4, <2>0
        <4> QED
          BY <3>1, <4>1, <4>2, <4>3, <4>4, <4>5, <4>6 DEF S!IsPrefix
      <3> QED
        BY <3>2, <3>3
    <2>7. CASE S!Write
      <3>1. /\ UNCHANGED <<upState, pc, cache, got>> /\ upState = "open"
            /\ written' = Append(written, Len(written) + 1)
            /\ uplink' = Append(uplink, Len(written) + 1)
        BY <2>7 DEF S!Write
      <3>2. pc # "end"
        BY <3>1
      <3>3. Len(written) + 1 \in Nat
        BY <2>0
      <3>4. got \o cache \o uplink' = written'
        <4>1. (got \o cache) \o Append(uplink, Len(written) + 1)
                 = Append((got \o cache) \o uplink, Len(written) + 1)
          BY <2>0, <3>3, ConcatAppend
        <4> QED
          BY <3>1, <3>2, <4>1
      <3>5. S!IsPrefix(got, written')
        BY <2>0, <3>1, <3>3, PrefixFacts
      <3>6. written' \in Seq(Nat) /\ uplink' \in Seq(Nat)
        BY <2>0, <3>1, <3>3
      <3> QED
        BY <3>1, <3>2, <3>4, <3>5, <3>6 DEF S!IsPrefix
    <2>8. CASE S!CloseWriter
      BY <2>8 DEF S!CloseWriter, S!IsPrefix
    <2>9. CASE S!GiveUp
      <3>1. UNCHANGED <<written, cache, pc, got>> /\ S!InterruptPipe
        BY <2>9 DEF S!GiveUp
      <3>2. S!IsPrefix(got, written)
        OBVIOUS
      <3>3. ASSUME pc # "end" PROVE S!IsPrefix(got \o cache, written)
        <4>1. CASE upState = "errord"
          BY <3>3, <4>1
        <4>2. CASE upState # "errord"
          <5>1. written = (got \o cache) \o uplink
            BY <3>3, <4>2
          <5> QED
            BY <2>0, <5>1, PrefixFacts
        <4> QED
          BY <4>1, <4>2
      <3>4. pc # "end" /\ upState' = "errord" => uplink' = <<>>
        BY <2>i, <3>1
      <3>5. pc # "end" /\ upState' # "errord" => (got \o cache) \o uplink' = written
        BY <2>i, <3>1
      <3> QED
        BY <2>i, <3>1, <3>2, <3>3, <3>4, <3>5 DEF S!IsPrefix
    <2> QED
      BY <2>1, <2>2, <2>3, <2>4, <2>5, <2>6, <2>7, <2>8, <2>9 DEF S!Next, S!Sniffing
  <1>3. KInv => LinkIntact
    BY DEF KInv
  <1> QED
    BY <1>1, <1>2, <1>3, PTL DEF S!Spec

-----------------------------------------------------------------------------
(* FakeDns. *)

Partial(A, B) == UNION {[X -> B] : X \in SUBSET A}

HolderSet == [conf : Pools, up : BOOLEAN, next : Nat, list : Seq(Domains),
              ipOf : Partial(Domains, Nat), nameOf : Partial(Nat, Domains)]

\* The list and the two tables of a cache agree, and the addresses lie in the pool.
Listed(list, ipOf) ==
  /\ \A m, n \in DOMAIN list : list[m] = list[n] => m = n
  /\ DOMAIN ipOf = {list[n] : n \in DOMAIN list}

Agree(conf, ipOf, nameOf) ==
  /\ DOMAIN nameOf = {ipOf[d] : d \in DOMAIN ipOf}
  /\ \A d \in DOMAIN ipOf : /\ nameOf[ipOf[d]] = d
                            /\ conf.net <= ipOf[d] /\ ipOf[d] < conf.net + conf.size

\* The cache of a holder that has started keeps to its size; the next address to try is one
\* of the pool.
Bounded(h) ==
  h.up => /\ h.conf.lruSize # 0
          /\ Len(h.list) <= h.conf.lruSize
          /\ F!InRange(h, h.next)

HolderOK(h) ==
  h \in HolderSet /\ Listed(h.list, h.ipOf) /\ Agree(h.conf, h.ipOf, h.nameOf) /\ Bounded(h)

CallSet == {F!Idle} \cup [pc : {"get", "scan"}, dom : Domains, at : Nat, last : Nat]
                    \cup [pc : {"put"}, dom : Domains, at : Nat, last : Nat, ip : Nat]

FHolders ==
  /\ holders \in Seq(HolderSet)
  /\ \A i \in DOMAIN holders : HolderOK(holders[i])
  /\ \A i, j \in DOMAIN holders :
        /\ holders[i].up = holders[j].up
        /\ i # j => ~F!Overlaps(holders[i].conf, holders[j].conf)

\* A call only runs over holders that have started.  While it has the lock of a holder, its
\* domain has no address there, and the address it has found stays free.
FCall(r, hs) ==
  r.pc # "idle" =>
     /\ 1 <= r.at /\ r.at <= r.last /\ r.last <= Len(hs)
     /\ hs[r.at].up
     /\ r.pc \in {"scan", "put"} => r.dom \notin DOMAIN hs[r.at].ipOf
     /\ r.pc = "put" => r.ip \notin DOMAIN hs[r.at].nameOf /\ F!InRange(hs[r.at], r.ip)

FCalls ==
  /\ call \in [Callers -> CallSet]
  /\ \A c \in Callers : FCall(call[c], holders)

\* fkdns.mu is held by one caller.
FMutex ==
  \A b, c \in Callers :
     (call[b].pc \in {"scan", "put"} /\ call[c].pc \in {"scan", "put"} /\ call[b].at = call[c].at)
        => b = c

FInv == FHolders /\ FCalls /\ FMutex

\* A partial function by its domain and its values.
LEMMA PartialFunction ==
  ASSUME NEW A, NEW B, NEW f
  PROVE  f \in Partial(A, B) <=> DOMAIN f \subseteq A /\ f \in [DOMAIN f -> B]
  <1>1. ASSUME f \in Partial(A, B) PROVE DOMAIN f \subseteq A /\ f \in [DOMAIN f -> B]
    <2>1. PICK X \in SUBSET A : f \in [X -> B]
      BY <1>1 DEF Partial
    <2> QED
      BY <2>1
  <1>2. ASSUME DOMAIN f \subseteq A, f \in [DOMAIN f -> B] PROVE f \in Partial(A, B)
    BY <1>2 DEF Partial
  <1> QED
    BY <1>1, <1>2

\* list.MoveToFront permutes the list.
LEMMA ToFrontPermutes ==
  ASSUME NEW T, NEW s \in Seq(T), NEW k,
         \A m, n \in DOMAIN s : s[m] = s[n] => m = n,
         k \in {s[n] : n \in DOMAIN s}
  PROVE  /\ F!ToFront(s, k) \in Seq(T)
         /\ Len(F!ToFront(s, k)) = Len(s)
         /\ \A m, n \in DOMAIN F!ToFront(s, k) : F!ToFront(s, k)[m] = F!ToFront(s, k)[n] => m = n
         /\ {F!ToFront(s, k)[n] : n \in DOMAIN F!ToFront(s, k)} = {s[n] : n \in DOMAIN s}
  <1> DEFINE p == CHOOSE i \in 1..Len(s) : s[i] = k
             z == F!ToFront(s, k)
  <1>1. DOMAIN s = 1..Len(s) /\ Len(s) \in Nat
    OBVIOUS
  <1>2. p \in 1..Len(s) /\ s[p] = k
    <2>1. \E i \in 1..Len(s) : s[i] = k
      BY <1>1
    <2> QED
      BY <2>1
  <1>3. z = [i \in 1..Len(s) |-> IF i = 1 THEN k ELSE IF i <= p THEN s[i - 1] ELSE s[i]]
    BY DEF F!ToFront
  <1> HIDE DEF z, p
  <1>4. DOMAIN z = 1..Len(s)
    BY <1>3
  <1>5. ASSUME NEW i \in 1..Len(s)
        PROVE  /\ i = 1 => z[i] = s[p]
               /\ i # 1 /\ i <= p => i - 1 \in 1..Len(s) /\ z[i] = s[i - 1]
               /\ i > p => z[i] = s[i]
    BY <1>1, <1>2, <1>3
  <1>6. \A i \in 1..Len(s) : z[i] \in T
    BY <1>1, <1>2, <1>5
  <1>7. z \in Seq(T) /\ Len(z) = Len(s)
    <2>1. z \in [1..Len(s) -> T]
      BY <1>3, <1>4, <1>6
    <2> QED
      BY <1>1, <1>4, <2>1
  <1>8. ASSUME NEW m \in 1..Len(s), NEW n \in 1..Len(s), z[m] = z[n] PROVE m = n
    <2> DEFINE o(i) == IF i = 1 THEN p ELSE IF i <= p THEN i - 1 ELSE i
    <2>1. \A i \in 1..Len(s) : o(i) \in 1..Len(s) /\ z[i] = s[o(i)]
      BY <1>1, <1>2, <1>5
    <2>2. o(m) = o(n)
      BY <1>1, <1>8, <2>1
    <2> QED
      BY <1>1, <1>2, <2>2
  <1>9. ASSUME NEW n \in 1..Len(s) PROVE \E i \in 1..Len(s) : z[i] = s[n]
    <2>1. CASE n = p
      BY <1>1, <1>2, <1>5, <2>1
    <2>2. CASE n < p
      <3>1. n + 1 \in 1..Len(s) /\ n + 1 # 1 /\ n + 1 <= p /\ (n + 1) - 1 = n
        BY <1>1, <1>2, <2>2
      <3> QED
        BY <1>5, <3>1
    <2>3. CASE n > p
      BY <1>5, <2>3
    <2> QED
      BY <1>1, <1>2, <2>1, <2>2, <2>3
  <1>10. ASSUME NEW i \in 1..Len(s) PROVE \E n \in 1..Len(s) : z[i] = s[n]
    BY <1>1, <1>2, <1>5
  <1>11. {z[n] : n \in DOMAIN z} = {s[n] : n \in DOMAIN s}
    <2>1. \A n \in DOMAIN s : \E i \in DOMAIN z : z[i] = s[n]
      BY <1>1, <1>4, <1>9
    <2>2. \A i \in DOMAIN z : \E n \in DOMAIN s : z[i] = s[n]
      BY <1>1, <1>4, <1>10
    <2>3. \A x : x \in {z[n] : n \in DOMAIN z} <=> x \in {s[n] : n \in DOMAIN s}
      BY <2>1, <2>2
    <2> HIDE DEF z
    <2> QED
      BY <2>3, Zenon
  <1> QED
    BY <1>4, <1>7, <1>8, <1>11 DEF z

\* The element at the back leaves the list and both tables.
LEMMA Evict ==
  ASSUME NEW conf, NEW list \in Seq(Domains), list # <<>>,
         NEW ipOf \in Partial(Domains, Nat), NEW nameOf \in Partial(Nat, Domains),
         Listed(list, ipOf), Agree(conf, ipOf, nameOf)
  PROVE  LET old == list[Len(list)]
             l == SubSeq(list, 1, Len(list) - 1)
             i == F!Without(ipOf, old)
             n == F!Without(nameOf, ipOf[old])
         IN  /\ l \in Seq(Domains) /\ Len(l) = Len(list) - 1
             /\ i \in Partial(Domains, Nat) /\ n \in Partial(Nat, Domains)
             /\ DOMAIN i \subseteq DOMAIN ipOf /\ DOMAIN n \subseteq DOMAIN nameOf
             /\ Listed(l, i) /\ Agree(conf, i, n)
  <1> DEFINE old == list[Len(list)]
             l == SubSeq(list, 1, Len(list) - 1)
             i == F!Without(ipOf, old)
             n == F!Without(nameOf, ipOf[old])
  <1>1. Len(list) \in Nat /\ Len(list) > 0 /\ DOMAIN list = 1..Len(list) /\ old \in Domains
    OBVIOUS
  <1>2. /\ l \in Seq(Domains) /\ Len(l) = Len(list) - 1 /\ DOMAIN l = 1..(Len(list) - 1)
        /\ \A m \in 1..(Len(list) - 1) : l[m] = list[m]
    BY <1>1
  <1>3. /\ DOMAIN ipOf \subseteq Domains /\ ipOf \in [DOMAIN ipOf -> Nat]
        /\ DOMAIN nameOf \subseteq Nat /\ nameOf \in [DOMAIN nameOf -> Domains]
    BY PartialFunction
  <1>4. /\ DOMAIN i = DOMAIN ipOf \ {old} /\ DOMAIN n = DOMAIN nameOf \ {ipOf[old]}
        /\ \A d \in DOMAIN i : i[d] = ipOf[d]
        /\ \A x \in DOMAIN n : n[x] = nameOf[x]
        /\ i \in [DOMAIN i -> Nat] /\ n \in [DOMAIN n -> Domains]
    BY <1>3 DEF F!Without
  <1> HIDE DEF l, i, n
  <1>5. i \in Partial(Domains, Nat) /\ n \in Partial(Nat, Domains)
    BY <1>3, <1>4, PartialFunction
  <1>6. Listed(l, i)
    <2>1. \A m, j \in DOMAIN l : l[m] = l[j] => m = j
      BY <1>1, <1>2 DEF Listed
    <2>2. ASSUME NEW m \in DOMAIN l PROVE l[m] \in DOMAIN i
      BY <1>1, <1>2, <1>4 DEF Listed
    <2>3. ASSUME NEW d \in DOMAIN i PROVE \E m \in DOMAIN l : d = l[m]
      <3>1. PICK m \in 1..Len(list) : d = list[m]
        BY <1>1, <1>4 DEF Listed
      <3>2. m # Len(list)
        BY <3>1, <1>4
      <3>3. m \in 1..(Len(list) - 1)
        <4> DEFINE len == Len(list)
        <4>1. len \in Nat /\ m \in 1..len /\ m # len
          BY <1>1, <3>2
        <4> HIDE DEF len
        <4>2. m \in 1..(len - 1)
          BY <4>1
        <4> QED
          BY <4>2 DEF len
      <3> QED
        BY <1>2, <3>1, <3>3
    <2>4. DOMAIN i = {l[m] : m \in DOMAIN l}
      BY <2>2, <2>3, Zenon
    <2> QED
      BY <2>1, <2>4 DEF Listed
  <1>7. Agree(conf, i, n)
    <2>1. old \in DOMAIN ipOf
      BY <1>1 DEF Listed
    <2> HIDE DEF old
    <2>2. \A d, e \in DOMAIN ipOf : ipOf[d] = ipOf[e] => d = e
      BY DEF Agree
    <2>3. ASSUME NEW d \in DOMAIN i PROVE i[d] \in DOMAIN n
      BY <1>4, <2>1, <2>2 DEF Agree
    <2>4. ASSUME NEW x \in DOMAIN n PROVE \E d \in DOMAIN i : x = i[d]
      BY <1>4 DEF Agree
    <2>5. DOMAIN n = {i[d] : d \in DOMAIN i}
      BY <2>3, <2>4
    <2>6. \A d \in DOMAIN i : n[i[d]] = d /\ conf.net <= i[d] /\ i[d] < conf.net + conf.size
      BY <1>4, <2>3 DEF Agree
    <2> QED
      BY <2>5, <2>6 DEF Agree
  <1> QED
    BY <1>2, <1>4, <1>5, <1>6, <1>7 DEF l, i, n

\* A domain without an address gets a free one.
LEMMA Insert ==
  ASSUME NEW conf, NEW list \in Seq(Domains),
         NEW ipOf \in Partial(Domains, Nat), NEW nameOf \in Partial(Nat, Domains),
         Listed(list, ipOf), Agree(conf, ipOf, nameOf),
         NEW k \in Domains, k \notin DOMAIN ipOf,
         NEW ip \in Nat, ip \notin DOMAIN nameOf, conf.net <= ip, ip < conf.net + conf.size
  PROVE  /\ <<k>> \o list \in Seq(Domains) /\ Len(<<k>> \o list) = Len(list) + 1
         /\ F!With(ipOf, k, ip) \in Partial(Domains, Nat)
         /\ F!With(nameOf, ip, k) \in Partial(Nat, Domains)
         /\ Listed(<<k>> \o list, F!With(ipOf, k, ip))
         /\ Agree(conf, F!With(ipOf, k, ip), F!With(nameOf, ip, k))
  <1> DEFINE l == <<k>> \o list
             i == F!With(ipOf, k, ip)
             n == F!With(nameOf, ip, k)
  <1>1. Len(list) \in Nat /\ DOMAIN list = 1..Len(list)
    OBVIOUS
  <1>2. /\ l \in Seq(Domains) /\ Len(l) = Len(list) + 1 /\ DOMAIN l = 1..(Len(list) + 1)
        /\ l[1] = k
        /\ \A m \in 2..(Len(list) + 1) : l[m] = list[m - 1] /\ m - 1 \in 1..Len(list)
    BY <1>1
  <1>3. /\ DOMAIN ipOf \subseteq Domains /\ ipOf \in [DOMAIN ipOf -> Nat]
        /\ DOMAIN nameOf \subseteq Nat /\ nameOf \in [DOMAIN nameOf -> Domains]
    BY PartialFunction
  <1>4. /\ DOMAIN i = DOMAIN ipOf \cup {k} /\ DOMAIN n = DOMAIN nameOf \cup {ip}
        /\ i[k] = ip /\ n[ip] = k
        /\ \A d \in DOMAIN ipOf : i[d] = ipOf[d]
        /\ \A x \in DOMAIN nameOf : n[x] = nameOf[x]
        /\ i \in [DOMAIN i -> Nat] /\ n \in [DOMAIN n -> Domains]
    BY <1>3 DEF F!With
  <1> HIDE DEF l, i, n
  <1>5. i \in Partial(Domains, Nat) /\ n \in Partial(Nat, Domains)
    BY <1>3, <1>4, PartialFunction
  <1>6. Listed(l, i)
    <2>1. ASSUME NEW m \in DOMAIN l PROVE m = 1 \/ m \in 2..(Len(list) + 1)
      BY <1>1, <1>2
    <2>2. ASSUME NEW m \in 2..(Len(list) + 1) PROVE l[m] \in DOMAIN ipOf
      BY <1>1, <1>2 DEF Listed
    <2>3. ASSUME NEW m \in 2..(Len(list) + 1), NEW j \in 2..(Len(list) + 1), l[m] = l[j] PROVE m = j
      <3>1. m - 1 = j - 1
        BY <1>1, <1>2, <2>3 DEF Listed
      <3> QED
        BY <1>1, <3>1
    <2>4. \A m, j \in DOMAIN l : l[m] = l[j] => m = j
      BY <1>2, <2>1, <2>2, <2>3
    <2>5. ASSUME NEW d \in DOMAIN i PROVE \E m \in DOMAIN l : d = l[m]
      <3>1. CASE d = k
        BY <1>1, <1>2, <3>1
      <3>2. CASE d # k
        <4>1. PICK m \in 1..Len(list) : d = list[m]
          BY <1>1, <1>4, <3>2 DEF Listed
        <4>2. m + 1 \in 2..(Len(list) + 1) /\ m + 1 \in DOMAIN l /\ (m + 1) - 1 = m
          BY <1>1, <1>2
        <4>3. l[m + 1] = list[(m + 1) - 1]
          BY <1>2, <4>2
        <4> QED
          BY <4>1, <4>2, <4>3
      <3> QED
        BY <3>1, <3>2
    <2>6. ASSUME NEW m \in DOMAIN l PROVE l[m] \in DOMAIN i
      BY <1>2, <1>4, <2>1, <2>2
    <2>7. DOMAIN i = {l[m] : m \in DOMAIN l}
      BY <2>5, <2>6, Zenon
    <2> QED
      BY <2>4, <2>7 DEF Listed
  <1>7. Agree(conf, i, n)
    <2>1. \A d \in DOMAIN ipOf : ipOf[d] # ip
      BY DEF Agree
    <2>2. DOMAIN n = {i[d] : d \in DOMAIN i}
      BY <1>4 DEF Agree
    <2>3. \A d \in DOMAIN i : n[i[d]] = d /\ conf.net <= i[d] /\ i[d] < conf.net + conf.size
      BY <1>4, <2>1 DEF Agree
    <2> QED
      BY <2>2, <2>3 DEF Agree
  <1> QED
    BY <1>2, <1>5, <1>6, <1>7 DEF l, i, n

\* What a step of a holder leaves alone.
SameHolder(h, g) == g.conf = h.conf /\ g.up = h.up

\* A use of an element of the cache.
LEMMA TouchKeeps ==
  ASSUME NEW h, HolderOK(h), NEW k \in DOMAIN h.ipOf
  PROVE  /\ HolderOK(F!Touch(h, k)) /\ SameHolder(h, F!Touch(h, k))
         /\ F!Touch(h, k).ipOf = h.ipOf /\ F!Touch(h, k).nameOf = h.nameOf
  <1>1. h \in HolderSet /\ h.list \in Seq(Domains)
    BY DEF HolderOK, HolderSet
  <1>2. /\ F!ToFront(h.list, k) \in Seq(Domains)
        /\ Len(F!ToFront(h.list, k)) = Len(h.list)
        /\ Listed(F!ToFront(h.list, k), h.ipOf)
    <2> DEFINE s == h.list
    <2>1. /\ s \in Seq(Domains)
          /\ \A m, n \in DOMAIN s : s[m] = s[n] => m = n
          /\ k \in {s[n] : n \in DOMAIN s}
          /\ DOMAIN h.ipOf = {s[n] : n \in DOMAIN s}
      BY <1>1 DEF HolderOK, Listed
    <2> HIDE DEF s
    <2>2. /\ F!ToFront(s, k) \in Seq(Domains)
          /\ Len(F!ToFront(s, k)) = Len(s)
          /\ \A m, n \in DOMAIN F!ToFront(s, k) : F!ToFront(s, k)[m] = F!ToFront(s, k)[n] => m = n
          /\ {F!ToFront(s, k)[n] : n \in DOMAIN F!ToFront(s, k)} = {s[n] : n \in DOMAIN s}
      BY <2>1, ToFrontPermutes
    <2>3. Listed(F!ToFront(s, k), h.ipOf)
      BY <2>1, <2>2 DEF Listed
    <2> QED
      BY <2>2, <2>3 DEF s
  <1> DEFINE z == F!ToFront(h.list, k)
             g == [h EXCEPT !.list = z]
  <1> HIDE DEF z
  <1>3. /\ g \in HolderSet /\ g.list = z /\ g.conf = h.conf /\ g.up = h.up /\ g.next = h.next
        /\ g.ipOf = h.ipOf /\ g.nameOf = h.nameOf
    BY <1>1, <1>2 DEF HolderSet, z
  <1> HIDE DEF g
  <1>4. HolderOK(g) /\ SameHolder(h, g)
    BY <1>2, <1>3 DEF HolderOK, SameHolder, Bounded, F!InRange, z
  <1>5. F!Touch(h, k) = g
    BY DEF F!Touch, g, z
  <1> QED
    BY <1>3, <1>4, <1>5

\* The search moves on to the next address of the pool.
LEMMA SuccessorKeeps ==
  ASSUME PoolsOK, NEW h, HolderOK(h), h.up
  PROVE  LET g == [h EXCEPT !.next = F!Successor(h)]
         IN  HolderOK(g) /\ SameHolder(h, g) /\ g.ipOf = h.ipOf /\ g.nameOf = h.nameOf /\ g.next = F!Successor(h)
  <1>1. h \in HolderSet /\ h.conf \in Pools /\ h.next \in Nat
    BY DEF HolderOK, HolderSet
  <1>2. /\ h.conf.ip \in Nat /\ h.conf.net \in Nat /\ h.conf.size \in Nat
        /\ h.conf.net <= h.conf.ip /\ h.conf.ip < h.conf.net + h.conf.size
    BY <1>1 DEF PoolsOK
  <1> DEFINE n == F!Successor(h)
             g == [h EXCEPT !.next = n]
  <1>3. n \in Nat /\ h.conf.net <= n /\ n < h.conf.net + h.conf.size
    BY <1>1, <1>2 DEF F!Successor, F!InRange
  <1> HIDE DEF n
  <1>4. /\ g \in HolderSet /\ g.list = h.list /\ g.conf = h.conf /\ g.up = h.up /\ g.next = n
        /\ g.ipOf = h.ipOf /\ g.nameOf = h.nameOf
    BY <1>1, <1>3 DEF HolderSet
  <1> HIDE DEF g
  <1>5. HolderOK(g) /\ SameHolder(h, g)
    BY <1>3, <1>4 DEF HolderOK, SameHolder, Bounded, F!InRange
  <1> QED
    BY <1>4, <1>5 DEF g, n

\* Put, of a key that is not cached and an address that is free, keeps the cache in order.
LEMMA PutKeeps ==
  ASSUME PoolsOK, NEW h, HolderOK(h), h.up,
         NEW k \in Domains, k \notin DOMAIN h.ipOf,
         NEW ip \in Nat, ip \notin DOMAIN h.nameOf, F!InRange(h, ip)
  PROVE  /\ HolderOK(F!Put(h, k, ip)) /\ SameHolder(h, F!Put(h, k, ip))
  <1> DEFINE full == Len(h.list) >= h.conf.lruSize
             old == h.list[Len(h.list)]
             l == IF full THEN SubSeq(h.list, 1, Len(h.list) - 1) ELSE h.list
             i == IF full THEN F!Without(h.ipOf, old) ELSE h.ipOf
             n == IF full THEN F!Without(h.nameOf, h.ipOf[old]) ELSE h.nameOf
  <1>1. /\ h \in HolderSet /\ h.conf \in Pools /\ h.list \in Seq(Domains)
        /\ h.ipOf \in Partial(Domains, Nat) /\ h.nameOf \in Partial(Nat, Domains)
        /\ Listed(h.list, h.ipOf) /\ Agree(h.conf, h.ipOf, h.nameOf)
        /\ h.conf.lruSize # 0 /\ Len(h.list) <= h.conf.lruSize
        /\ F!InRange(h, h.next)
    BY DEF HolderOK, HolderSet, Bounded
  <1>2. h.conf.lruSize \in Nat /\ h.conf.net <= ip /\ ip < h.conf.net + h.conf.size
    BY <1>1 DEF PoolsOK, F!InRange
  <1>3. /\ l \in Seq(Domains) /\ Len(l) < h.conf.lruSize
        /\ i \in Partial(Domains, Nat) /\ n \in Partial(Nat, Domains)
        /\ DOMAIN i \subseteq DOMAIN h.ipOf /\ DOMAIN n \subseteq DOMAIN h.nameOf
        /\ Listed(l, i) /\ Agree(h.conf, i, n)
    <2>1. CASE full
      <3>1. h.list # <<>> /\ Len(h.list) = h.conf.lruSize
        BY <1>1, <1>2, <2>1
      <3> DEFINE el == SubSeq(h.list, 1, Len(h.list) - 1)
                 ei == F!Without(h.ipOf, old)
                 en == F!Without(h.nameOf, h.ipOf[old])
      <3>2. /\ el \in Seq(Domains) /\ Len(el) = Len(h.list) - 1
            /\ ei \in Partial(Domains, Nat) /\ en \in Partial(Nat, Domains)
            /\ DOMAIN ei \subseteq DOMAIN h.ipOf /\ DOMAIN en \subseteq DOMAIN h.nameOf
            /\ Listed(el, ei) /\ Agree(h.conf, ei, en)
        BY <1>1, <3>1, Evict
      <3>3. l = el /\ i = ei /\ n = en
        BY <2>1
      <3> HIDE DEF el, ei, en, l, i, n
      <3> QED
        BY <1>2, <3>1, <3>2, <3>3
    <2>2. CASE ~full
      BY <1>1, <1>2, <2>2
    <2> QED
      BY <2>1, <2>2
  <1> HIDE DEF l, i, n
  <1> DEFINE l1 == <<k>> \o l
             i1 == F!With(i, k, ip)
             n1 == F!With(n, ip, k)
             g == [h EXCEPT !.list = l1, !.ipOf = i1, !.nameOf = n1]
  <1>4. /\ l1 \in Seq(Domains) /\ Len(l1) = Len(l) + 1
        /\ i1 \in Partial(Domains, Nat) /\ n1 \in Partial(Nat, Domains)
        /\ Listed(l1, i1) /\ Agree(h.conf, i1, n1)
    <2>1. k \notin DOMAIN i /\ ip \notin DOMAIN n
      BY <1>3
    <2> DEFINE cf == h.conf
    <2>2. /\ l \in Seq(Domains) /\ i \in Partial(Domains, Nat) /\ n \in Partial(Nat, Domains)
          /\ Listed(l, i) /\ Agree(cf, i, n) /\ cf.net <= ip /\ ip < cf.net + cf.size
      BY <1>2, <1>3
    <2> HIDE DEF cf, l1, i1, n1
    <2>3. /\ <<k>> \o l \in Seq(Domains) /\ Len(<<k>> \o l) = Len(l) + 1
          /\ F!With(i, k, ip) \in Partial(Domains, Nat)
          /\ F!With(n, ip, k) \in Partial(Nat, Domains)
          /\ Listed(<<k>> \o l, F!With(i, k, ip))
          /\ Agree(cf, F!With(i, k, ip), F!With(n, ip, k))
      BY <2>1, <2>2, Insert, Zenon
    <2> QED
      BY <2>3 DEF cf, l1, i1, n1
  <1>5. Len(l1) <= h.conf.lruSize
    BY <1>2, <1>3, <1>4
  <1> HIDE DEF l1, i1, n1
  <1>6. /\ g \in HolderSet /\ g.list = l1 /\ g.conf = h.conf /\ g.up = h.up /\ g.next = h.next
        /\ g.ipOf = i1 /\ g.nameOf = n1
    BY <1>1, <1>4 DEF HolderSet
  <1>7. F!Put(h, k, ip) = g
    BY DEF F!Put, g, l1, i1, n1, l, i, n
  <1> HIDE DEF g
  <1>8. HolderOK(g) /\ SameHolder(h, g)
    BY <1>1, <1>4, <1>5, <1>6 DEF HolderOK, SameHolder, Bounded, F!InRange
  <1> QED
    BY <1>7, <1>8

\* A new holder is empty, and so is one that has started.
LEMMA NewHolderOK ==
  ASSUME PoolsOK, NEW conf \in Pools
  PROVE  /\ HolderOK(F!NewHolder(conf))
         /\ F!NewHolder(conf).conf = conf /\ ~F!NewHolder(conf).up
  <1> DEFINE h == F!NewHolder(conf)
  <1>0. F!Empty \in Partial(Domains, Nat) /\ F!Empty \in Partial(Nat, Domains) /\ DOMAIN F!Empty = {}
    BY PartialFunction DEF F!Empty
  <1>1. /\ h.conf = conf /\ h.up = FALSE /\ h.next = 0 /\ h.list = <<>>
        /\ h.ipOf = F!Empty /\ h.nameOf = F!Empty
    BY DEF F!NewHolder
  <1>2. h \in HolderSet
    <2>1. <<>> \in Seq(Domains) /\ 0 \in Nat
      OBVIOUS
    <2> QED
      BY <1>0, <2>1 DEF F!NewHolder, HolderSet
  <1> HIDE DEF h
  <1>3. Listed(<<>>, F!Empty) /\ Agree(conf, F!Empty, F!Empty)
    BY <1>0 DEF Listed, Agree
  <1> QED
    BY <1>1, <1>2, <1>3 DEF HolderOK, Bounded, h

LEMMA InitializeKeeps ==
  ASSUME PoolsOK, NEW h, HolderOK(h)
  PROVE  HolderOK(F!Initialize(h)) /\ F!Initialize(h).conf = h.conf
  <1>1. h.conf \in Pools /\ h.conf.ip \in Nat /\ h.conf.lruSize \in Nat /\ h.conf.size \in Nat
        /\ h.conf.net <= h.conf.ip /\ h.conf.ip < h.conf.net + h.conf.size
    BY DEF HolderOK, HolderSet, PoolsOK
  <1>2. CASE h.conf.lruSize = 0 \/ h.conf.lruSize >= h.conf.size
    BY <1>2 DEF F!Initialize
  <1>3. CASE ~(h.conf.lruSize = 0 \/ h.conf.lruSize >= h.conf.size)
    <2> DEFINE e == F!NewHolder(h.conf)
               g == [e EXCEPT !.up = TRUE, !.next = h.conf.ip]
    <2>1. F!Initialize(h) = g
      BY <1>3 DEF F!Initialize
    <2>2. HolderOK(e) /\ e.conf = h.conf /\ e.list = <<>>
      BY <1>1, NewHolderOK DEF F!NewHolder
    <2> HIDE DEF e
    <2>3. /\ g \in HolderSet /\ g.conf = h.conf /\ g.list = <<>> /\ g.ipOf = e.ipOf
          /\ g.nameOf = e.nameOf /\ g.next = h.conf.ip
      BY <1>1, <2>2 DEF HolderOK, HolderSet
    <2> HIDE DEF g
    <2>4. Listed(g.list, g.ipOf) /\ Agree(g.conf, g.ipOf, g.nameOf)
      BY <2>2, <2>3 DEF HolderOK
    <2>5. Bounded(g)
      BY <1>1, <1>3, <2>3 DEF Bounded, F!InRange
    <2> QED
      BY <2>1, <2>3, <2>4, <2>5 DEF HolderOK
  <1> QED
    BY <1>2, <1>3

\* A step of one holder keeps the others, and what all holders have in common.
LEMMA HolderStep ==
  ASSUME FHolders, NEW i \in DOMAIN holders, NEW g, HolderOK(g), SameHolder(holders[i], g),
         holders' = [holders EXCEPT ![i] = g]
  PROVE  /\ FHolders'
         /\ Len(holders') = Len(holders) /\ DOMAIN holders' = DOMAIN holders
         /\ \A j \in DOMAIN holders : holders'[j] = IF j = i THEN g ELSE holders[j]
  <1>1. /\ holders' \in Seq(HolderSet) /\ Len(holders') = Len(holders) /\ DOMAIN holders' = DOMAIN holders
        /\ \A j \in DOMAIN holders : holders'[j] = IF j = i THEN g ELSE holders[j]
    BY DEF FHolders, HolderOK
  <1>2. \A j \in DOMAIN holders : /\ HolderOK(holders'[j]) /\ holders'[j].up = holders[j].up
                                  /\ holders'[j].conf = holders[j].conf
    BY <1>1 DEF FHolders, SameHolder
  <1> QED
    BY <1>1, <1>2 DEF FHolders

\* What calls rely on is not disturbed by a holder that keeps its tables.
LEMMA CallKept ==
  ASSUME NEW hs \in Seq(HolderSet), NEW i \in DOMAIN hs, NEW gs, NEW r \in CallSet,
         Len(gs) = Len(hs),
         \A j \in DOMAIN hs : j # i => gs[j] = hs[j],
         SameHolder(hs[i], gs[i]), gs[i].ipOf = hs[i].ipOf, gs[i].nameOf = hs[i].nameOf,
         FCall(r, hs)
  PROVE  FCall(r, gs)
  <1> SUFFICES ASSUME r.pc # "idle" PROVE FCall(r, gs)
    BY DEF FCall
  <1>1. r.at \in Nat /\ r.last \in Nat
    BY DEF CallSet, F!Idle
  <1>2. r.at \in DOMAIN hs
    BY <1>1 DEF FCall
  <1>3. /\ gs[r.at].up = hs[r.at].up /\ gs[r.at].conf = hs[r.at].conf
        /\ gs[r.at].ipOf = hs[r.at].ipOf /\ gs[r.at].nameOf = hs[r.at].nameOf
    BY <1>2 DEF SameHolder
  <1> QED
    BY <1>3 DEF FCall, F!InRange

\* The caller is done with a holder.
LEMMA AdvanceOK ==
  ASSUME FHolders, FCalls, NEW c \in Callers, call[c].pc # "idle"
  PROVE  /\ F!Advance(c) \in CallSet /\ F!Advance(c).pc \in {"idle", "get"}
         /\ FCall(F!Advance(c), holders)
  <1>1. /\ call[c].at \in Nat /\ call[c].last \in Nat /\ call[c].dom \in Domains
        /\ 1 <= call[c].at /\ call[c].at <= call[c].last /\ call[c].last <= Len(holders)
        /\ holders[call[c].at].up
    BY DEF FCalls, CallSet, F!Idle, FCall
  <1>2. CASE call[c].at = call[c].last
    <2>1. F!Advance(c) = F!Idle
      BY <1>2 DEF F!Advance
    <2> QED
      BY <2>1 DEF CallSet, FCall, F!Idle
  <1>3. CASE call[c].at # call[c].last
    <2> DEFINE a == call[c].at
               r == [pc |-> "get", dom |-> call[c].dom, at |-> a + 1, last |-> call[c].last]
    <2>1. F!Advance(c) = r
      BY <1>3 DEF F!Advance
    <2>2. a + 1 \in Nat /\ a + 1 <= call[c].last /\ a \in DOMAIN holders /\ a + 1 \in DOMAIN holders
      BY <1>1, <1>3 DEF FHolders
    <2>3. holders[a + 1].up
      BY <1>1, <2>2 DEF FHolders
    <2>4. r \in CallSet
      BY <1>1, <2>2 DEF CallSet
    <2>5. FCall(r, holders)
      BY <1>1, <2>2, <2>3 DEF FCall
    <2> QED
      BY <2>1, <2>4, <2>5
  <1> QED
    BY <1>2, <1>3

\* A step in which one caller moves on to r and one holder, if any, is used but keeps its
\* tables.
LEMMA UseStep ==
  ASSUME FInv, NEW i \in DOMAIN holders, NEW g, HolderOK(g), SameHolder(holders[i], g),
         g.ipOf = holders[i].ipOf, g.nameOf = holders[i].nameOf,
         holders' = [holders EXCEPT ![i] = g],
         NEW c \in Callers, NEW r \in CallSet, FCall(r, holders),
         call' = [call EXCEPT ![c] = r],
         r.pc \in {"scan", "put"} =>
            /\ r.at = call[c].at
            /\ \A b \in Callers : b # c => ~(call[b].pc \in {"scan", "put"} /\ call[b].at = r.at)
  PROVE  FInv'
  <1>1. /\ FHolders' /\ Len(holders') = Len(holders)
        /\ \A j \in DOMAIN holders : holders'[j] = IF j = i THEN g ELSE holders[j]
    BY HolderStep DEF FInv
  <1>2. /\ call' \in [Callers -> CallSet]
        /\ \A b \in Callers : call'[b] = IF b = c THEN r ELSE call[b]
    BY DEF FInv, FCalls
  <1>3. FCalls'
    <2>1. ASSUME NEW b \in Callers PROVE FCall(call'[b], holders')
      <3>1. call'[b] \in CallSet /\ FCall(call'[b], holders)
        BY <1>2 DEF FInv, FCalls
      <3>2. holders \in Seq(HolderSet) /\ holders'[i] = g
        BY <1>1 DEF FInv, FHolders
      <3>3. /\ \A j \in DOMAIN holders : j # i => holders'[j] = holders[j]
            /\ SameHolder(holders[i], holders'[i])
            /\ holders'[i].ipOf = holders[i].ipOf /\ holders'[i].nameOf = holders[i].nameOf
        BY <1>1, <3>2
      <3>4. Len(holders') = Len(holders)
        BY <1>1
      <3> DEFINE x == call'[b]
      <3>5. x \in CallSet /\ FCall(x, holders)
        BY <3>1
      <3> HIDE DEF x
      <3>6. FCall(x, holders')
        BY <3>2, <3>3, <3>4, <3>5, CallKept, Zenon
      <3> QED
        BY <3>6 DEF x
    <2> QED
      BY <1>2, <2>1 DEF FCalls
  <1>4. FMutex'
    BY <1>2 DEF FInv, FMutex
  <1> QED
    BY <1>1, <1>3, <1>4 DEF FInv

\* Any step of the pools of fake addresses keeps the invariant.
LEMMA FakeStep == PoolsOK /\ FInv /\ [F!Next]_(F!vars) => FInv'
  <1> SUFFICES ASSUME PoolsOK, FInv, [F!Next]_(F!vars) PROVE FInv'
    OBVIOUS
  <1>0. /\ FHolders /\ FCalls /\ FMutex
        /\ holders \in Seq(HolderSet) /\ Len(holders) \in Nat /\ DOMAIN holders = 1..Len(holders)
    BY DEF FInv, FHolders
  <1>1. ASSUME NEW conf \in Pools, F!AddPool(conf) PROVE FInv'
    <2> DEFINE h == IF F!Running THEN F!Initialize(F!NewHolder(conf)) ELSE F!NewHolder(conf)
    <2>1. /\ \A i \in DOMAIN holders : ~F!Overlaps(holders[i].conf, conf)
          /\ F!Running => h.up
          /\ holders' = Append(holders, h)
          /\ call' = call
      BY <1>1 DEF F!AddPool
    <2>2. HolderOK(h) /\ h.conf = conf /\ (~F!Running => ~h.up)
      BY NewHolderOK, InitializeKeeps
    <2> HIDE DEF h
    <2>3. /\ holders' \in Seq(HolderSet) /\ Len(holders') = Len(holders) + 1
          /\ DOMAIN holders' = 1..(Len(holders) + 1)
          /\ holders'[Len(holders) + 1] = h
          /\ \A i \in DOMAIN holders : holders'[i] = holders[i]
      BY <1>0, <2>1, <2>2 DEF HolderOK
    <2>4. \A i \in DOMAIN holders : holders[i].up = h.up
      <3>1. \A i \in DOMAIN holders : holders[i].up \in BOOLEAN
        BY <1>0 DEF FHolders, HolderOK, HolderSet
      <3>2. h.up \in BOOLEAN
        BY <2>2 DEF HolderOK, HolderSet
      <3>3. F!Running => \A i \in DOMAIN holders : holders[i].up
        BY <1>0, <3>1 DEF F!Running, FHolders
      <3>4. ~F!Running => \A i \in DOMAIN holders : ~holders[i].up
        BY DEF F!Running
      <3> QED
        BY <2>1, <2>2, <3>1, <3>2, <3>3, <3>4
    <2>5. \A i \in DOMAIN holders : ~F!Overlaps(conf, holders[i].conf)
      BY <2>1 DEF F!Overlaps
    <2>6. \A i \in DOMAIN holders' : i \in DOMAIN holders \/ i = Len(holders) + 1
      BY <1>0, <2>3
    <2>7. FHolders'
      <3>1. \A i \in DOMAIN holders' : HolderOK(holders'[i])
        BY <1>0, <2>2, <2>3, <2>6 DEF FHolders
      <3>2. ASSUME NEW i \in DOMAIN holders', NEW j \in DOMAIN holders'
            PROVE  /\ holders'[i].up = holders'[j].up
                   /\ i # j => ~F!Overlaps(holders'[i].conf, holders'[j].conf)
        <4>1. CASE i \in DOMAIN holders /\ j \in DOMAIN holders
          BY <1>0, <2>3, <4>1 DEF FHolders
        <4>2. CASE i \in DOMAIN holders /\ j = Len(holders) + 1
          BY <2>1, <2>2, <2>3, <2>4, <4>2
        <4>3. CASE i = Len(holders) + 1 /\ j \in DOMAIN holders
          BY <2>2, <2>3, <2>4, <2>5, <4>3
        <4>4. CASE i = Len(holders) + 1 /\ j = Len(holders) + 1
          BY <4>4
        <4> QED
          BY <2>6, <4>1, <4>2, <4>3, <4>4
      <3> QED
        BY <2>3, <3>1, <3>2 DEF FHolders
    <2>8. FCalls'
      <3>1. ASSUME NEW c \in Callers PROVE FCall(call[c], holders')
        <4>1. call[c] \in CallSet /\ FCall(call[c], holders)
          BY <1>0 DEF FCalls
        <4>2. CASE call[c].pc = "idle"
          BY <4>2 DEF FCall
        <4>3. CASE call[c].pc # "idle"
          <5>1. call[c].at \in Nat /\ call[c].last \in Nat
            BY <4>1, <4>3 DEF CallSet, F!Idle
          <5>2. call[c].at \in DOMAIN holders /\ call[c].last <= Len(holders')
            BY <1>0, <2>3, <4>1, <4>3, <5>1 DEF FCall
          <5> QED
            BY <2>3, <4>1, <5>2 DEF FCall
        <4> QED
          BY <4>2, <4>3
      <3> QED
        BY <1>0, <2>1, <3>1 DEF FCalls
    <2>9. FMutex'
      BY <1>0, <2>1 DEF FMutex
    <2> QED
      BY <2>7, <2>8, <2>9 DEF FInv
  <1>2. ASSUME F!Start PROVE FInv'
    <2>1. /\ ~F!Running /\ holders # <<>> /\ call' = call
          /\ \A i \in DOMAIN holders : F!Initialize(holders[i]).up
          /\ holders' = [i \in DOMAIN holders |-> F!Initialize(holders[i])]
      BY <1>2 DEF F!Start
    <2>2. \A i \in DOMAIN holders : /\ HolderOK(F!Initialize(holders[i]))
                                    /\ F!Initialize(holders[i]).conf = holders[i].conf
      BY <1>0, InitializeKeeps DEF FHolders
    <2>3. /\ DOMAIN holders' = DOMAIN holders
          /\ \A i \in DOMAIN holders : /\ HolderOK(holders'[i]) /\ holders'[i].up
                                       /\ holders'[i].conf = holders[i].conf
      BY <2>1, <2>2
    <2>4. holders' \in Seq(HolderSet)
      <3>1. holders' \in [1..Len(holders) -> HolderSet]
        BY <1>0, <2>1, <2>3 DEF HolderOK
      <3> QED
        BY <1>0, <3>1
    <2>5. \A i \in DOMAIN holders : holders'[i].up = TRUE
      BY <2>3 DEF HolderOK, HolderSet
    <2>6. FHolders'
      BY <1>0, <2>3, <2>4, <2>5 DEF FHolders
    <2>7. \A c \in Callers : call[c].pc = "idle"
      <3> SUFFICES ASSUME NEW c \in Callers, call[c].pc # "idle" PROVE FALSE
        OBVIOUS
      <3>1. call[c].at \in Nat /\ call[c].last \in Nat /\ FCall(call[c], holders)
        BY <1>0 DEF CallSet, F!Idle, FCalls
      <3>2. call[c].at \in DOMAIN holders /\ holders[call[c].at].up
        BY <1>0, <3>1 DEF FCall
      <3> QED
        BY <2>1, <3>2 DEF F!Running
    <2> QED
      BY <1>0, <2>1, <2>6, <2>7 DEF FInv, FCalls, FCall, FMutex
  <1>3. ASSUME NEW c \in Callers, NEW d \in Domains, F!Call(c, d) PROVE FInv'
    <2> DEFINE r == [pc |-> "get", dom |-> d, at |-> 1, last |-> Len(holders)]
    <2>1. holders' = holders /\ call' = [call EXCEPT ![c] = r] /\ F!Running
      BY <1>3 DEF F!Call
    <2>2. 1 \in DOMAIN holders /\ holders[1].up /\ 1 <= Len(holders)
      <3>1. PICK i \in DOMAIN holders : holders[i].up
        BY <2>1 DEF F!Running
      <3>2. 1 \in DOMAIN holders /\ 1 <= Len(holders)
        BY <1>0, <3>1
      <3> QED
        BY <1>0, <3>1, <3>2 DEF FHolders
    <2>3. r \in CallSet /\ FCall(r, holders) /\ r.pc = "get"
      BY <1>0, <2>2 DEF CallSet, FCall
    <2> HIDE DEF r
    <2>4. holders' = [holders EXCEPT ![1] = holders[1]] /\ HolderOK(holders[1]) /\ SameHolder(holders[1], holders[1])
      BY <1>0, <2>1, <2>2 DEF FHolders, SameHolder
    <2> QED
      BY <2>1, <2>2, <2>3, <2>4, UseStep
  <1>4. ASSUME NEW c \in Callers, call[c].pc # "idle"
        PROVE  /\ call[c].at \in DOMAIN holders /\ call[c].dom \in Domains
               /\ call[c].at \in Nat /\ call[c].last \in Nat
               /\ HolderOK(holders[call[c].at]) /\ holders[call[c].at].up
               /\ FCall(call[c], holders) /\ call[c] \in CallSet
    <2>1. /\ call[c].at \in Nat /\ call[c].last \in Nat /\ call[c].dom \in Domains
          /\ FCall(call[c], holders) /\ call[c] \in CallSet
      BY <1>0, <1>4 DEF CallSet, F!Idle, FCalls
    <2>2. call[c].at \in DOMAIN holders /\ holders[call[c].at].up
      BY <1>0, <1>4, <2>1 DEF FCall
    <2> QED
      BY <1>0, <2>1, <2>2 DEF FHolders
  <1>5. ASSUME NEW c \in Callers, F!Get(c) PROVE FInv'
    <2> DEFINE i == call[c].at
               d == call[c].dom
    <2>1. /\ call[c].pc = "get"
          /\ i \in DOMAIN holders /\ d \in Domains /\ HolderOK(holders[i]) /\ i \in Nat
          /\ call[c] \in CallSet /\ FCall(call[c], holders)
      BY <1>4, <1>5 DEF F!Get
    <2>2. CASE d \in DOMAIN holders[i].ipOf
      <3> DEFINE g == F!Touch(holders[i], d)
                 r == F!Advance(c)
      <3>1. holders' = [holders EXCEPT ![i] = g] /\ call' = [call EXCEPT ![c] = r]
        BY <1>5, <2>2 DEF F!Get
      <3>2. /\ HolderOK(g) /\ SameHolder(holders[i], g)
            /\ g.ipOf = holders[i].ipOf /\ g.nameOf = holders[i].nameOf
        BY <2>1, <2>2, TouchKeeps
      <3>3. r \in CallSet /\ FCall(r, holders) /\ r.pc \notin {"scan", "put"}
        BY <1>0, <2>1, AdvanceOK
      <3> HIDE DEF g, r
      <3> QED
        BY <2>1, <3>1, <3>2, <3>3, UseStep
    <2>3. CASE d \notin DOMAIN holders[i].ipOf
      <3> DEFINE r == [call[c] EXCEPT !.pc = "scan"]
      <3>1. holders' = holders /\ call' = [call EXCEPT ![c] = r]
        BY <1>0, <1>5, <2>3 DEF F!Get, FCalls
      <3>2. call[c] \in [pc : {"get", "scan"}, dom : Domains, at : Nat, last : Nat]
        BY <2>1 DEF CallSet, F!Idle
      <3>3. r \in CallSet /\ r.pc = "scan" /\ r.at = i /\ r.dom = d /\ r.last = call[c].last
        BY <3>2 DEF CallSet
      <3> HIDE DEF r
      <3>4. FCall(r, holders)
        BY <2>1, <2>3, <3>3 DEF FCall
      <3>5. \A b \in Callers : ~(call[b].pc \in {"scan", "put"} /\ call[b].at = i)
        BY <1>5 DEF F!Get, F!Locked
      <3>6. holders' = [holders EXCEPT ![i] = holders[i]] /\ SameHolder(holders[i], holders[i])
        BY <1>0, <2>1, <3>1 DEF SameHolder
      <3> QED
        BY <2>1, <3>1, <3>3, <3>4, <3>5, <3>6, UseStep
    <2> QED
      BY <2>2, <2>3
  <1>6. ASSUME NEW c \in Callers, F!Scan(c) PROVE FInv'
    <2> DEFINE i == call[c].at
               h == holders[i]
               moved == [h EXCEPT !.next = F!Successor(h)]
    <2>1. /\ call[c].pc = "scan"
          /\ i \in DOMAIN holders /\ HolderOK(h) /\ h.up /\ i \in Nat
          /\ call[c] \in CallSet /\ FCall(call[c], holders)
      BY <1>4, <1>6 DEF F!Scan
    <2>2. /\ HolderOK(moved) /\ SameHolder(h, moved)
          /\ moved.ipOf = h.ipOf /\ moved.nameOf = h.nameOf
      BY <2>1, SuccessorKeeps
    <2>3. \A b \in Callers : b # c => ~(call[b].pc \in {"scan", "put"} /\ call[b].at = i)
      BY <1>0, <2>1 DEF FMutex
    <2>4. CASE h.next \in DOMAIN h.nameOf
      <3> DEFINE g == F!Touch(moved, h.nameOf[h.next])
      <3>1. holders' = [holders EXCEPT ![i] = g] /\ call' = call
        BY <1>6, <2>4 DEF F!Scan
      <3> HIDE DEF moved
      <3>2. h.nameOf[h.next] \in DOMAIN moved.ipOf
        BY <2>1, <2>2, <2>4 DEF HolderOK, Agree
      <3>3. /\ HolderOK(g) /\ SameHolder(moved, g)
            /\ g.ipOf = moved.ipOf /\ g.nameOf = moved.nameOf
        BY <2>2, <3>2, TouchKeeps
      <3> HIDE DEF g
      <3>4. SameHolder(h, g) /\ g.ipOf = h.ipOf /\ g.nameOf = h.nameOf
        BY <2>2, <3>3 DEF SameHolder
      <3>5. call' = [call EXCEPT ![c] = call[c]]
        BY <1>0, <3>1 DEF FCalls
      <3> QED
        BY <2>1, <2>3, <3>1, <3>3, <3>4, <3>5, UseStep
    <2>5. CASE h.next \notin DOMAIN h.nameOf
      <3> DEFINE r == F!Found(call[c], h.next)
      <3>1. holders' = [holders EXCEPT ![i] = moved] /\ call' = [call EXCEPT ![c] = r]
        BY <1>0, <1>6, <2>5 DEF F!Scan, FCalls
      <3>2. /\ call[c] \in [pc : {"get", "scan"}, dom : Domains, at : Nat, last : Nat]
            /\ h.next \in Nat
        BY <2>1 DEF CallSet, F!Idle, HolderOK, HolderSet
      <3>3. /\ r \in CallSet /\ r.pc = "put" /\ r.at = i /\ r.dom = call[c].dom /\ r.last = call[c].last
            /\ r.ip = h.next
        BY <3>2 DEF CallSet, F!Found
      <3> HIDE DEF r, moved
      <3>4. FCall(r, holders)
        BY <2>1, <2>5, <3>3 DEF FCall, HolderOK, Bounded
      <3> QED
        BY <2>1, <2>2, <2>3, <3>1, <3>3, <3>4, UseStep
    <2> QED
      BY <2>4, <2>5
  <1>7. ASSUME NEW c \in Callers, F!PutFound(c) PROVE FInv'
    <2> DEFINE i == call[c].at
               h == holders[i]
               g == F!Put(h, call[c].dom, call[c].ip)
               r == F!Advance(c)
    <2>1. /\ call[c].pc = "put"
          /\ i \in DOMAIN holders /\ HolderOK(h) /\ h.up /\ i \in Nat
          /\ call[c] \in CallSet /\ FCall(call[c], holders) /\ call[c].dom \in Domains
      BY <1>4, <1>7 DEF F!PutFound
    <2>2. holders' = [holders EXCEPT ![i] = g] /\ call' = [call EXCEPT ![c] = r]
      BY <1>0, <1>7 DEF F!PutFound
    <2>3. call[c].ip \in Nat
      BY <2>1 DEF CallSet, F!Idle
    <2>4. HolderOK(g) /\ SameHolder(h, g)
      BY <2>1, <2>3, PutKeeps DEF FCall
    <2>5. r \in CallSet /\ FCall(r, holders) /\ r.pc \in {"idle", "get"}
      BY <1>0, <2>1, AdvanceOK
    <2> HIDE DEF g, r
    <2>6. /\ FHolders' /\ Len(holders') = Len(holders)
          /\ \A j \in DOMAIN holders : holders'[j] = IF j = i THEN g ELSE holders[j]
      BY <1>0, <2>1, <2>2, <2>4, HolderStep
    <2>7. /\ call' \in [Callers -> CallSet]
          /\ \A b \in Callers : call'[b] = IF b = c THEN r ELSE call[b]
      BY <1>0, <2>2, <2>5 DEF FCalls
    <2>8. \A j \in DOMAIN holders : holders'[j].up = holders[j].up
      BY <2>4, <2>6 DEF SameHolder
    <2>9. ASSUME NEW b \in Callers PROVE FCall(call'[b], holders')
      <3>1. call'[b] \in CallSet /\ FCall(call'[b], holders)
        BY <1>0, <2>5, <2>7 DEF FCalls
      <3>2. CASE call'[b].pc = "idle"
        BY <3>2 DEF FCall
      <3>3. CASE call'[b].pc # "idle"
        <4>1. call'[b].at \in Nat /\ call'[b].last \in Nat
          BY <3>1, <3>3 DEF CallSet, F!Idle
        <4>2. call'[b].at \in DOMAIN holders
          BY <1>0, <3>1, <3>3, <4>1 DEF FCall
        <4>3. CASE call'[b].pc \notin {"scan", "put"}
          BY <2>6, <2>8, <3>1, <4>2, <4>3 DEF FCall
        <4>4. CASE call'[b].pc \in {"scan", "put"}
          <5>1. b # c /\ call'[b] = call[b]
            BY <2>5, <2>7, <4>4
          <5>2. call[b].at # i
            BY <1>0, <2>1, <4>4, <5>1 DEF FMutex
          <5>3. holders'[call'[b].at] = holders[call'[b].at]
            BY <2>6, <4>2, <5>1, <5>2
          <5> QED
            BY <2>6, <3>1, <5>3 DEF FCall
        <4> QED
          BY <4>3, <4>4
      <3> QED
        BY <3>2, <3>3
    <2>10. FMutex'
      BY <1>0, <2>5, <2>7 DEF FMutex
    <2> QED
      BY <2>6, <2>7, <2>9, <2>10 DEF FInv, FCalls
  <1>8. ASSUME NEW i \in DOMAIN holders, NEW ip \in DOMAIN holders[i].nameOf, F!LookUp(i, ip)
        PROVE  FInv'
    <2> DEFINE g == F!Touch(holders[i], holders[i].nameOf[ip])
    <2>1. holders' = [holders EXCEPT ![i] = g] /\ call' = call
      BY <1>8 DEF F!LookUp
    <2>2. HolderOK(holders[i]) /\ holders[i].nameOf[ip] \in DOMAIN holders[i].ipOf
      BY <1>0 DEF FHolders, HolderOK, Agree
    <2>3. /\ HolderOK(g) /\ SameHolder(holders[i], g)
          /\ g.ipOf = holders[i].ipOf /\ g.nameOf = holders[i].nameOf
      BY <2>2, TouchKeeps
    <2> HIDE DEF g
    <2>4. /\ FHolders' /\ Len(holders') = Len(holders)
          /\ \A j \in DOMAIN holders : holders'[j] = IF j = i THEN g ELSE holders[j]
      BY <1>0, <2>1, <2>3, HolderStep
    <2>5. ASSUME NEW b \in Callers PROVE FCall(call[b], holders')
      <3>1. call[b] \in CallSet /\ FCall(call[b], holders) /\ holders'[i] = g
        BY <1>0, <2>4 DEF FCalls
      <3> QED
        BY <1>0, <2>3, <2>4, <3>1, CallKept
    <2> QED
      BY <1>0, <2>1, <2>4, <2>5 DEF FInv, FCalls, FMutex
  <1>9. CASE UNCHANGED F!vars
    <2>1. UNCHANGED <<holders, call>>
      BY <1>9 DEF F!vars
    <2> QED
      BY <1>0, <2>1 DEF FInv, FHolders, FCalls, FMutex
  <1> QED
    BY <1>1, <1>2, <1>3, <1>5, <1>6, <1>7, <1>8, <1>9 DEF F!Next, F!Resolve

\* The list of a cache without repetition is as long as the cache is large.
LEMMA ListLength ==
  ASSUME NEW list \in Seq(Domains), NEW ipOf, Listed(list, ipOf)
  PROVE  Len(list) = F!Cardinality(DOMAIN ipOf)
  <1>1. DOMAIN list = 1..Len(list) /\ Len(list) \in Nat
    OBVIOUS
  <1>2. list \in Bijection(1..Len(list), DOMAIN ipOf)
    BY <1>1 DEF Listed, Bijection, Injection, Surjection, IsInjective
  <1>3. Cardinality(DOMAIN ipOf) = Len(list)
    BY <1>1, <1>2, FS_CountingElements DEF ExistsBijection
  <1>4. F!Cardinality(DOMAIN ipOf) = Cardinality(DOMAIN ipOf)
    BY DEF F!Cardinality, Cardinality
  <1> QED
    BY <1>3, <1>4

\* Fake addresses are never shared, within a pool or across pools, and always resolve to
\* the domain that got them; the two tables and the list of the LRU cache agree, and the
\* cache keeps to its size.  For any pools that do not start outside themselves, any number
\* of holders and callers, and lookups that reorder the cache in the middle of a search.
THEOREM FakeAddressesUnique == F!Spec => []AddressesUnique
  <1> PoolsOK
    BY RoutesAssumption
  <1>1. F!Init => FInv
    <2> SUFFICES ASSUME F!Init PROVE FInv
      OBVIOUS
    <2>1. holders = <<>> /\ \A c \in Callers : call[c] = F!Idle
      BY DEF F!Init
    <2>2. call \in [Callers -> CallSet]
      BY DEF F!Init, CallSet
    <2>3. F!Idle.pc = "idle"
      BY DEF F!Idle
    <2> QED
      BY <2>1, <2>2, <2>3 DEF FInv, FHolders, FCalls, FCall, FMutex
  <1>2. FInv /\ [F!Next]_(F!vars) => FInv'
    BY FakeStep
  <1>3. FInv => F!AddressesUnique
    <2> SUFFICES ASSUME FInv PROVE F!AddressesUnique
      OBVIOUS
    <2>1. ASSUME NEW i \in DOMAIN holders
          PROVE  /\ HolderOK(holders[i])
                 /\ Len(holders[i].list) = F!Cardinality(DOMAIN holders[i].ipOf)
      <3>1. HolderOK(holders[i])
        BY DEF FInv, FHolders
      <3>2. holders[i].list \in Seq(Domains) /\ Listed(holders[i].list, holders[i].ipOf)
        BY <3>1 DEF HolderOK, HolderSet
      <3> QED
        BY <3>1, <3>2, ListLength
    <2>2. ASSUME NEW i \in DOMAIN holders
          PROVE  LET h == holders[i]
                 IN  /\ DOMAIN h.nameOf = {h.ipOf[d] : d \in DOMAIN h.ipOf}
                     /\ \A d \in DOMAIN h.ipOf : h.nameOf[h.ipOf[d]] = d /\ F!InRange(h, h.ipOf[d])
                     /\ DOMAIN h.ipOf = {h.list[n] : n \in DOMAIN h.list}
                     /\ Len(h.list) = F!Cardinality(DOMAIN h.ipOf)
                     /\ h.up => Len(h.list) <= h.conf.lruSize
      BY <2>1 DEF HolderOK, Agree, Listed, Bounded, F!InRange
    <2>3. ASSUME NEW i \in DOMAIN holders, NEW j \in DOMAIN holders, i # j,
                 NEW x \in DOMAIN holders[i].nameOf, x \in DOMAIN holders[j].nameOf
          PROVE  FALSE
      <3>1. ~F!Overlaps(holders[i].conf, holders[j].conf)
        BY <2>3 DEF FInv, FHolders
      <3>2. ASSUME NEW k \in {i, j}
            PROVE  /\ holders[k].conf.net \in Nat /\ holders[k].conf.size \in Nat /\ x \in Nat
                   /\ holders[k].conf.net <= x /\ x < holders[k].conf.net + holders[k].conf.size
        <4>1. HolderOK(holders[k]) /\ x \in DOMAIN holders[k].nameOf
          BY <2>1, <2>3
        <4>2. holders[k].conf \in Pools /\ holders[k].nameOf \in Partial(Nat, Domains)
          BY <4>1 DEF HolderOK, HolderSet
        <4>3. x \in Nat
          BY <4>1, <4>2, PartialFunction
        <4>4. holders[k].conf.net \in Nat /\ holders[k].conf.size \in Nat
          BY <4>2 DEF PoolsOK
        <4> QED
          BY <4>1, <4>3, <4>4 DEF HolderOK, Agree
      <3>3. /\ holders[i].conf.net \in Nat /\ holders[i].conf.size \in Nat /\ x \in Nat
            /\ holders[i].conf.net <= x /\ x < holders[i].conf.net + holders[i].conf.size
        BY <3>2
      <3>4. /\ holders[j].conf.net \in Nat /\ holders[j].conf.size \in Nat
            /\ holders[j].conf.net <= x /\ x < holders[j].conf.net + holders[j].conf.size
        BY <3>2
      <3> QED
        BY <3>1, <3>3, <3>4 DEF F!Overlaps
    <2> QED
      BY <2>2, <2>3 DEF F!AddressesUnique
  <1> QED
    BY <1>1, <1>2, <1>3, PTL DEF F!Spec, AddressesUnique

-----------------------------------------------------------------------------
(* Dns. *)

QuerySet == {D!Idle} \cup [pc : {"subscribe", "send", "find", "wait"}, dom : Names, opt : Options,
                           subs : SUBSET {4, 6}, heard : SUBSET {4, 6}, waits : SUBSET {4, 6},
                           ids : Partial({4, 6}, Nat), ctx : BOOLEAN]

DType ==
  /\ serial \in Nat
  /\ query \in [Queriers -> QuerySet]
  /\ wire \subseteq [dom : Names, type : {4, 6}, n : Nat]
  /\ \A q \in Queriers : query[q].pc = "subscribe" => /\ query[q].subs \subseteq query[q].opt
                                                      /\ query[q].subs # query[q].opt
  /\ \A q \in Queriers : query[q].pc = "send" => DOMAIN query[q].ids # {}

Unsent(q, t) == query[q].pc = "send" /\ t \in DOMAIN query[q].ids

\* Every request has a number of its own, whether it was sent or not.
DNumbers ==
  /\ \A m \in wire : m.n <= serial /\ m.n # 0
  /\ \A m, k \in wire : m.n = k.n => m = k
  /\ \A q \in Queriers : \A t \in {4, 6} : Unsent(q, t) =>
        /\ query[q].ids[t] <= serial /\ query[q].ids[t] # 0
        /\ \A m \in wire : m.n # query[q].ids[t]
        /\ \A p \in Queriers : \A u \in {4, 6} :
              Unsent(p, u) /\ query[p].ids[u] = query[q].ids[t] => p = q /\ u = t

\* What the table of requests has under an id is a question that was sent with that id.
DTable ==
  kind = "udp" =>
     \A i \in DOMAIN requests :
        \E m \in wire : i = D!Id(m.n) /\ requests[i].dom = m.dom /\ requests[i].type = m.type

\* The ids have not come round.
Fresh == kind = "stream" \/ serial <= IdSpace

DLanded ==
  \A a \in landed : /\ a.type \in {4, 6}
                    /\ Fresh => a.rec.dom = a.dom /\ a.rec.type = a.type

DInv == DType /\ DNumbers /\ DTable /\ DLanded /\ D!RecordsBelong

\* Numbers that have not come round have different ids.
LEMMA IdsDistinct ==
  ASSUME DnsOK, NEW m \in 1..IdSpace, NEW n \in 1..IdSpace, D!Id(m) = D!Id(n)
  PROVE  m = n
  BY DEF DnsOK, D!Id

LEMMA FirstOf ==
  ASSUME NEW X \in SUBSET {4, 6}, X # {}
  PROVE  D!First(X) \in X
  <1>1. \E t \in X : \A u \in X : t <= u
    <2>1. CASE 4 \in X
      BY <2>1
    <2>2. CASE 4 \notin X
      <3>1. X = {6}
        BY <2>2
      <3> QED
        BY <3>1
    <2> QED
      BY <2>1, <2>2
  <1> QED
    BY <1>1 DEF D!First

\* buildReqMsgs numbers the types that are asked for from 1 on.
LEMMA CountTypes ==
  ASSUME NEW opt \in SUBSET {4, 6}, opt # {}
  PROVE  LET n(t) == D!Cardinality({u \in opt : u <= t})
         IN  /\ D!Cardinality(opt) \in Nat
             /\ \A t \in opt : n(t) \in Nat /\ n(t) # 0 /\ n(t) <= D!Cardinality(opt)
             /\ \A t, u \in opt : n(t) = n(u) => t = u
  <1> DEFINE n(t) == D!Cardinality({u \in opt : u <= t})
  <1>1. \A X : D!Cardinality(X) = Cardinality(X)
    BY DEF D!Cardinality, Cardinality
  <1>2. Cardinality({4}) = 1 /\ Cardinality({6}) = 1
    BY FS_Singleton
  <1>3. Cardinality({4, 6}) = 2
    <2>1. Cardinality({4} \cup {6}) = Cardinality({4}) + 1
      BY FS_Singleton, FS_AddElement, 6 \notin {4}
    <2>2. {4} \cup {6} = {4, 6}
      OBVIOUS
    <2> QED
      BY <1>2, <2>1, <2>2
  <1>4. CASE opt = {4}
    <2>1. {u \in opt : u <= 4} = {4}
      BY <1>4
    <2> QED
      BY <1>1, <1>2, <1>4, <2>1
  <1>5. CASE opt = {6}
    <2>1. {u \in opt : u <= 6} = {6}
      BY <1>5
    <2> QED
      BY <1>1, <1>2, <1>5, <2>1
  <1>6. CASE opt = {4, 6}
    <2>1. {u \in opt : u <= 4} = {4} /\ {u \in opt : u <= 6} = {4, 6}
      BY <1>6
    <2>2. n(4) = 1 /\ n(6) = 2 /\ D!Cardinality(opt) = 2
      BY <1>1, <1>2, <1>3, <1>6, <2>1
    <2> HIDE DEF n
    <2>3. /\ \A t \in opt : n(t) \in Nat /\ n(t) # 0 /\ n(t) <= D!Cardinality(opt)
          /\ \A t, u \in opt : n(t) = n(u) => t = u
      BY <1>6, <2>2
    <2> QED
      BY <2>2, <2>3 DEF n
  <1>7. opt = {4} \/ opt = {6} \/ opt = {4, 6}
    OBVIOUS
  <1> QED
    BY <1>4, <1>5, <1>6, <1>7

\* A step of the queries in which no request is numbered or sent.
LEMMA QueriesStep ==
  ASSUME DInv, query' \in [Queriers -> QuerySet], UNCHANGED <<serial, wire>>,
         \A q \in Queriers : query'[q].pc = "send" =>
            query[q].pc = "send" /\ query'[q].ids = query[q].ids,
         \A q \in Queriers : query'[q].pc = "subscribe" =>
            query'[q].subs \subseteq query'[q].opt /\ query'[q].subs # query'[q].opt
  PROVE  DType' /\ DNumbers'
  <1>1. DType'
    BY DEF DInv, DType
  <1>2. \A q \in Queriers, t \in {4, 6} : Unsent(q, t)' => Unsent(q, t) /\ query'[q].ids = query[q].ids
    BY DEF Unsent
  <1>3. DNumbers'
    BY <1>2 DEF DInv, DNumbers
  <1> QED
    BY <1>1, <1>3

\* A step of one query that does not send: the rest is left alone.
LEMMA OneQueryStep ==
  ASSUME DInv, NEW q \in Queriers, NEW r \in QuerySet, query' = [query EXCEPT ![q] = r],
         UNCHANGED <<kind, ips, requests, serial, wire, landed>>,
         r.pc # "send",
         r.pc = "subscribe" => r.subs \subseteq r.opt /\ r.subs # r.opt
  PROVE  DInv'
  <1>1. /\ query' \in [Queriers -> QuerySet]
        /\ \A p \in Queriers : query'[p] = IF p = q THEN r ELSE query[p]
    BY DEF DInv, DType
  <1>2. \A p \in Queriers : query'[p].pc = "subscribe" =>
           query'[p].subs \subseteq query'[p].opt /\ query'[p].subs # query'[p].opt
    BY <1>1 DEF DInv, DType
  <1>3. DType' /\ DNumbers'
    BY <1>1, <1>2, QueriesStep
  <1>4. DTable' /\ DLanded' /\ D!RecordsBelong'
    BY DEF DInv, DTable, DLanded, Fresh, D!RecordsBelong, D!Id
  <1> QED
    BY <1>3, <1>4 DEF DInv

\* Any step of the client of a name server keeps the invariant.
LEMMA DnsStep == DnsOK /\ DInv /\ [D!Next]_(D!vars) => DInv'
  <1> SUFFICES ASSUME DnsOK, DInv, [D!Next]_(D!vars) PROVE DInv'
    OBVIOUS
  <1>0. DType /\ DNumbers /\ DTable /\ DLanded /\ D!RecordsBelong
    BY DEF DInv
  <1> DEFINE Rec == [pc : {"subscribe", "send", "find", "wait"}, dom : Names, opt : Options,
                     subs : SUBSET {4, 6}, heard : SUBSET {4, 6}, waits : SUBSET {4, 6},
                     ids : Partial({4, 6}, Nat), ctx : BOOLEAN]
  <1>1. \A q \in Queriers : query[q].pc # "idle" => query[q] \in Rec
    BY <1>0 DEF DType, QuerySet, D!Idle
  <1>2. D!Idle \in QuerySet /\ D!Idle.pc = "idle" /\ Rec \subseteq QuerySet
    BY DEF QuerySet, D!Idle
  <1>3. ASSUME NEW q \in Queriers, NEW d \in Names, NEW opt \in Options, D!QueryIP(q, d, opt)
        PROVE  DInv'
    <2> DEFINE r == [pc |-> "subscribe", dom |-> d, opt |-> opt, subs |-> {}, heard |-> {},
                     waits |-> opt, ids |-> D!Empty, ctx |-> FALSE]
    <2>1. query' = [query EXCEPT ![q] = r] /\ UNCHANGED <<kind, ips, requests, serial, wire, landed>>
      BY <1>3 DEF D!QueryIP
    <2>2. D!Empty \in Partial({4, 6}, Nat)
      BY PartialFunction DEF D!Empty
    <2>3. opt \in SUBSET {4, 6} /\ opt # {}
      BY DEF DnsOK
    <2>4. r \in QuerySet /\ r.pc = "subscribe" /\ r.subs = {} /\ r.opt = opt
      BY <2>2, <2>3 DEF QuerySet
    <2> HIDE DEF r
    <2> QED
      BY <2>1, <2>3, <2>4, OneQueryStep
  <1>4. ASSUME NEW q \in Queriers, D!Find(q) \/ D!Waiter(q) \/ D!Wait(q) \/ D!CtxDone(q) PROVE DInv'
    <2>1. query[q] \in Rec
      BY <1>1, <1>4 DEF D!Find, D!Waiter, D!Wait, D!CtxDone
    <2>2. PICK r \in QuerySet : /\ query' = [query EXCEPT ![q] = r]
                                /\ r.pc \in {"idle", "find", "wait"}
      <3>0. D!Idle \in QuerySet /\ D!Idle.pc = "idle"
        BY <1>2
      <3>1. CASE D!Find(q)
        <4> DEFINE w == [query[q] EXCEPT !.pc = "wait"]
                   f == D!FindIPs(query[q].dom, query[q].opt) # "notfound"
        <4>1. query' = [query EXCEPT ![q] = IF f THEN D!Idle ELSE w]
          BY <1>0, <3>1 DEF D!Find, DType
        <4>2. w \in QuerySet /\ w.pc = "wait"
          BY <1>2, <2>1
        <4> HIDE DEF w, f
        <4>3. CASE f
          BY <3>0, <4>1, <4>3
        <4>4. CASE ~f
          BY <4>1, <4>2, <4>4
        <4> QED
          BY <4>3, <4>4
      <3>2. CASE D!Waiter(q)
        <4> DEFINE w == query[q].waits \ {D!First(query[q].waits)}
                   r == [query[q] EXCEPT !.waits = w]
        <4>1. query' = [query EXCEPT ![q] = r] /\ query[q].pc = "wait"
          BY <1>0, <3>2 DEF D!Waiter, DType
        <4>2. w \in SUBSET {4, 6}
          BY <2>1
        <4> HIDE DEF w
        <4>3. r \in QuerySet /\ r.pc = "wait"
          BY <1>2, <2>1, <4>1, <4>2
        <4> HIDE DEF r
        <4> QED
          BY <4>1, <4>3
      <3>3. CASE D!Wait(q)
        <4> DEFINE r == [query[q] EXCEPT !.pc = "find"]
        <4>1. query' = [query EXCEPT ![q] = D!Idle] \/ query' = [query EXCEPT ![q] = r]
          BY <1>0, <3>3 DEF D!Wait, DType
        <4>2. r \in QuerySet /\ r.pc = "find"
          BY <1>2, <2>1
        <4> HIDE DEF r
        <4>3. CASE query' = [query EXCEPT ![q] = D!Idle]
          BY <3>0, <4>3
        <4>4. CASE query' = [query EXCEPT ![q] = r]
          BY <4>2, <4>4
        <4> QED
          BY <4>1, <4>3, <4>4
      <3>4. CASE D!CtxDone(q)
        <4> DEFINE r == [query[q] EXCEPT !.ctx = TRUE]
        <4>1. query' = [query EXCEPT ![q] = r] /\ query[q].pc = "wait"
          BY <1>0, <3>4 DEF D!CtxDone, DType
        <4>2. r \in QuerySet /\ r.pc = "wait"
          BY <1>2, <2>1, <4>1
        <4> HIDE DEF r
        <4> QED
          BY <4>1, <4>2
      <3> QED
        BY <1>4, <3>1, <3>2, <3>3, <3>4
    <2>3. UNCHANGED <<kind, ips, requests, serial, wire, landed>>
      BY <1>4 DEF D!Find, D!Waiter, D!Wait, D!CtxDone
    <2>4. r \in QuerySet /\ r.pc # "send" /\ r.pc # "subscribe"
      BY <1>2, <2>2
    <2> QED
      BY <2>2, <2>3, <2>4, OneQueryStep
  <1>5. ASSUME NEW q \in Queriers, D!Subscribe(q) PROVE DInv'
    <2> DEFINE opt == query[q].opt
               subs == query[q].subs \cup {D!First(opt \ query[q].subs)}
               n(t) == serial + D!Cardinality({u \in opt : u <= t})
    <2>1. query[q] \in Rec /\ query[q].pc = "subscribe" /\ query[q].subs \subseteq opt /\ query[q].subs # opt
      BY <1>0, <1>1, <1>5 DEF D!Subscribe, DType
    <2>2. opt \in SUBSET {4, 6} /\ opt # {} /\ opt \in Options
      BY <2>1 DEF DnsOK
    <2>3. subs \subseteq opt /\ subs \in SUBSET {4, 6}
      <3>1. opt \ query[q].subs \in SUBSET {4, 6} /\ opt \ query[q].subs # {}
        BY <2>1, <2>2
      <3>2. D!First(opt \ query[q].subs) \in opt
        BY <3>1, FirstOf
      <3> QED
        BY <2>1, <2>2, <3>2
    <2>4. UNCHANGED <<kind, ips, requests, wire, landed>>
      BY <1>5 DEF D!Subscribe
    <2>5. CASE subs # opt
      <3> DEFINE r == [query[q] EXCEPT !.subs = subs]
      <3>1. query' = [query EXCEPT ![q] = r] /\ serial' = serial
        BY <1>0, <1>5, <2>5 DEF D!Subscribe, DType
      <3> HIDE DEF subs
      <3>2. r \in Rec /\ r.pc = "subscribe" /\ r.subs = subs /\ r.opt = opt
        BY <2>1, <2>3
      <3> HIDE DEF r
      <3> QED
        BY <1>2, <2>3, <2>4, <2>5, <3>1, <3>2, OneQueryStep
    <2>6. CASE subs = opt
      <3> DEFINE ids == [t \in opt |-> n(t)]
                 r == [query[q] EXCEPT !.subs = subs, !.pc = "send", !.ids = ids]
      <3>1. query' = [query EXCEPT ![q] = r] /\ serial' = serial + D!Cardinality(opt)
        BY <1>0, <1>5, <2>6 DEF D!Subscribe, DType
      <3>2. /\ D!Cardinality(opt) \in Nat /\ serial \in Nat
            /\ \A t \in opt : n(t) \in Nat /\ n(t) > serial /\ n(t) <= serial + D!Cardinality(opt)
            /\ \A t, u \in opt : n(t) = n(u) => t = u
        <4> DEFINE c(t) == D!Cardinality({u \in opt : u <= t})
        <4>1. /\ D!Cardinality(opt) \in Nat
              /\ \A t \in opt : c(t) \in Nat /\ c(t) # 0 /\ c(t) <= D!Cardinality(opt)
              /\ \A t, u \in opt : c(t) = c(u) => t = u
          BY <2>2, CountTypes
        <4>2. serial \in Nat /\ \A t \in opt : n(t) = serial + c(t)
          BY <1>0 DEF DType
        <4> HIDE DEF c, n
        <4> QED
          BY <4>1, <4>2
      <3> HIDE DEF n
      <3>3. ids \in Partial({4, 6}, Nat) /\ DOMAIN ids = opt /\ \A t \in opt : ids[t] = n(t)
        BY <2>2, <3>2, PartialFunction
      <3> HIDE DEF ids, subs
      <3>4. r \in Rec /\ r.pc = "send" /\ r.ids = ids
        BY <2>1, <2>3, <3>3
      <3> HIDE DEF r
      <3>5. /\ query' \in [Queriers -> QuerySet]
            /\ \A p \in Queriers : query'[p] = IF p = q THEN r ELSE query[p]
        BY <1>0, <1>2, <3>1, <3>4 DEF DType
      <3>6. serial' \in Nat /\ serial' >= serial
        BY <3>1, <3>2
      <3>7. DType'
        <4>1. \A p \in Queriers : query'[p].pc = "subscribe" =>
                 query'[p].subs \subseteq query'[p].opt /\ query'[p].subs # query'[p].opt
          BY <1>0, <3>4, <3>5 DEF DType
        <4>2. \A p \in Queriers : query'[p].pc = "send" => DOMAIN query'[p].ids # {}
          BY <1>0, <2>2, <3>3, <3>4, <3>5 DEF DType
        <4> QED
          BY <1>0, <2>4, <3>5, <3>6, <4>1, <4>2 DEF DType
      <3>8. DNumbers'
        <4>1. \A m \in wire : m.n \in Nat /\ m.n <= serial /\ m.n <= serial' /\ m.n # 0
          BY <1>0, <3>2, <3>6 DEF DType, DNumbers
        <4>2. \A p \in Queriers, t \in {4, 6} : p # q =>
                 (Unsent(p, t)' <=> Unsent(p, t)) /\ query'[p] = query[p]
          BY <3>5 DEF Unsent
        <4>3. \A p \in Queriers, t \in {4, 6} : Unsent(p, t) /\ p # q =>
                 /\ query[p].ids[t] \in Nat /\ query[p].ids[t] <= serial /\ query[p].ids[t] # 0
                 /\ query[p].ids[t] <= serial'
          <5> SUFFICES ASSUME NEW p \in Queriers, NEW t \in {4, 6}, Unsent(p, t), p # q
                       PROVE  /\ query[p].ids[t] \in Nat /\ query[p].ids[t] <= serial /\ query[p].ids[t] # 0
                              /\ query[p].ids[t] <= serial'
            OBVIOUS
          <5>1. query[p].ids \in Partial({4, 6}, Nat) /\ t \in DOMAIN query[p].ids
            BY <1>1 DEF Unsent
          <5>2. query[p].ids[t] \in Nat
            BY <5>1, PartialFunction
          <5> QED
            BY <1>0, <5>2, <3>2, <3>6 DEF DNumbers
        <4>4. \A t \in {4, 6} : Unsent(q, t)' =>
                 /\ t \in opt /\ query'[q].ids[t] = n(t) /\ n(t) \in Nat /\ n(t) > serial /\ n(t) <= serial'
          BY <3>1, <3>2, <3>3, <3>4, <3>5 DEF Unsent
        <4>5. ASSUME NEW p \in Queriers, NEW t \in {4, 6}, Unsent(p, t)'
              PROVE  /\ query'[p].ids[t] <= serial' /\ query'[p].ids[t] # 0
                     /\ \A m \in wire : m.n # query'[p].ids[t]
                     /\ \A k \in Queriers : \A u \in {4, 6} :
                           Unsent(k, u)' /\ query'[k].ids[u] = query'[p].ids[t] => k = p /\ u = t
          <5>1. CASE p = q
            <6>1. query'[p].ids[t] = n(t) /\ n(t) \in Nat /\ n(t) > serial /\ n(t) <= serial' /\ t \in opt
              BY <4>4, <4>5, <5>1
            <6>2. ASSUME NEW k \in Queriers, NEW u \in {4, 6}, Unsent(k, u)', query'[k].ids[u] = n(t)
                  PROVE  k = p /\ u = t
              <7>1. CASE k = q
                BY <3>2, <4>4, <5>1, <6>1, <6>2, <7>1
              <7>2. CASE k # q
                BY <4>2, <4>3, <6>1, <6>2, <7>2, <3>2
              <7> QED
                BY <7>1, <7>2
            <6> QED
              BY <3>2, <4>1, <6>1, <6>2
          <5>2. CASE p # q
            <6>1. Unsent(p, t) /\ query'[p] = query[p]
              BY <4>2, <4>5, <5>2
            <6>2. ASSUME NEW k \in Queriers, NEW u \in {4, 6}, Unsent(k, u)',
                         query'[k].ids[u] = query[p].ids[t]
                  PROVE  k = p /\ u = t
              <7>1. CASE k = q
                BY <3>2, <4>3, <4>4, <5>2, <6>1, <6>2, <7>1
              <7>2. CASE k # q
                BY <1>0, <4>2, <6>1, <6>2, <7>2 DEF DNumbers
              <7> QED
                BY <7>1, <7>2
            <6> QED
              BY <1>0, <4>3, <5>2, <6>1, <6>2 DEF DNumbers
          <5> QED
            BY <5>1, <5>2
        <4> QED
          BY <1>0, <2>4, <4>1, <4>5 DEF DNumbers
      <3>9. Fresh' => Fresh
        BY <1>0, <2>4, <3>2, <3>6 DEF Fresh, DnsOK
      <3>10. DTable' /\ DLanded'
        BY <1>0, <2>4, <3>9 DEF DTable, DLanded, D!Id
      <3>11. D!RecordsBelong'
        BY <1>0, <2>4, <3>9 DEF D!RecordsBelong, Fresh
      <3> QED
        BY <3>7, <3>8, <3>10, <3>11 DEF DInv
    <2> QED
      BY <2>5, <2>6
  <1>6. ASSUME NEW q \in Queriers, D!Send(q) PROVE DInv'
    <2> DEFINE t == D!First(DOMAIN query[q].ids)
               n == query[q].ids[t]
               m == [dom |-> query[q].dom, type |-> t, n |-> n]
               left == D!Without(query[q].ids, {t})
               next == IF left = D!Empty THEN "find" ELSE "send"
               r == [query[q] EXCEPT !.ids = left, !.pc = next]
    <2>1. query[q] \in Rec /\ query[q].pc = "send" /\ DOMAIN query[q].ids # {}
      BY <1>0, <1>1, <1>6 DEF D!Send, DType
    <2>2. query[q].ids \in Partial({4, 6}, Nat)
      BY <2>1
    <2>3. DOMAIN query[q].ids \in SUBSET {4, 6} /\ query[q].ids \in [DOMAIN query[q].ids -> Nat]
      BY <2>2, PartialFunction
    <2>4. t \in DOMAIN query[q].ids /\ t \in {4, 6} /\ Unsent(q, t)
      BY <2>1, <2>3, FirstOf DEF Unsent
    <2>5. n \in Nat
      BY <2>3, <2>4
    <2>6. /\ requests' = IF kind = "udp"
                         THEN D!With(requests, D!Id(n), [dom |-> query[q].dom, type |-> t, exp |-> now])
                         ELSE requests
          /\ wire' = wire \cup {m}
          /\ query' = [query EXCEPT ![q] = r]
          /\ UNCHANGED <<kind, now, ips, serial, landed, cleaner>>
      BY <1>0, <1>6, <2>1 DEF D!Send, DType
    <2>7. /\ left \in Partial({4, 6}, Nat) /\ DOMAIN left = DOMAIN query[q].ids \ {t}
          /\ \A u \in DOMAIN left : left[u] = query[q].ids[u]
      <3>1. /\ DOMAIN left = DOMAIN query[q].ids \ {t}
            /\ \A u \in DOMAIN left : left[u] = query[q].ids[u]
            /\ left \in [DOMAIN left -> Nat] /\ DOMAIN left \subseteq {4, 6}
        BY <2>3 DEF D!Without
      <3> QED
        BY <3>1, PartialFunction
    <2>8. left # D!Empty => DOMAIN left # {}
      <3>1. left = [u \in DOMAIN left |-> left[u]]
        BY DEF D!Without
      <3> SUFFICES ASSUME DOMAIN left = {} PROVE left = D!Empty
        OBVIOUS
      <3> HIDE DEF left
      <3>2. [u \in {} |-> left[u]] = [u \in {} |-> u]
        OBVIOUS
      <3> QED
        BY <3>1, <3>2 DEF D!Empty
    <2>9. /\ m \in [dom : Names, type : {4, 6}, n : Nat]
          /\ m.dom = query[q].dom /\ m.type = t /\ m.n = n
      BY <2>1, <2>4, <2>5
    <2> HIDE DEF t, n, m, left
    <2>10. r \in Rec /\ r.pc = next /\ r.ids = left
      BY <2>1, <2>7
    <2> HIDE DEF r
    <2>11. /\ query' \in [Queriers -> QuerySet]
           /\ \A p \in Queriers : query'[p] = IF p = q THEN r ELSE query[p]
      BY <1>0, <1>2, <2>6, <2>10 DEF DType
    <2>12. DType'
      <3>1. \A p \in Queriers : query'[p].pc = "subscribe" =>
               query'[p].subs \subseteq query'[p].opt /\ query'[p].subs # query'[p].opt
        BY <1>0, <2>10, <2>11 DEF DType
      <3>2. \A p \in Queriers : query'[p].pc = "send" => DOMAIN query'[p].ids # {}
        BY <1>0, <2>8, <2>10, <2>11 DEF DType
      <3>3. wire' \subseteq [dom : Names, type : {4, 6}, n : Nat] /\ serial' \in Nat
        BY <1>0, <2>6, <2>9 DEF DType
      <3> QED
        BY <2>11, <3>1, <3>2, <3>3 DEF DType
    <2>13. /\ \A k \in wire : k.n # n
           /\ n <= serial /\ n # 0
      BY <1>0, <2>4, DNumbers DEF DNumbers, n
    <2>14. ASSUME NEW p \in Queriers, NEW u \in {4, 6}, Unsent(p, u)'
           PROVE  /\ Unsent(p, u) /\ query'[p].ids[u] = query[p].ids[u]
                  /\ query[p].ids[u] # n
      <3>1. CASE p = q
        <4>1. u \in DOMAIN left /\ query'[p].ids[u] = left[u]
          BY <2>10, <2>11, <2>14, <3>1 DEF Unsent
        <4>2. u # t /\ Unsent(q, u) /\ query'[p].ids[u] = query[q].ids[u]
          BY <2>1, <2>7, <4>1 DEF Unsent
        <4> QED
          BY <1>0, <2>4, <3>1, <4>2 DEF DNumbers, n
      <3>2. CASE p # q
        <4>1. Unsent(p, u) /\ query'[p].ids[u] = query[p].ids[u]
          BY <2>11, <2>14, <3>2 DEF Unsent
        <4> QED
          BY <1>0, <2>4, <3>2, <4>1 DEF DNumbers, n
      <3> QED
        BY <3>1, <3>2
    <2>15. DNumbers'
      <3>1. \A k \in wire' : k.n <= serial' /\ k.n # 0
        BY <1>0, <2>6, <2>9, <2>13 DEF DNumbers
      <3>2. \A k, l \in wire' : k.n = l.n => k = l
        BY <1>0, <2>6, <2>9, <2>13 DEF DNumbers
      <3>3. ASSUME NEW p \in Queriers, NEW u \in {4, 6}, Unsent(p, u)'
            PROVE  /\ query'[p].ids[u] <= serial' /\ query'[p].ids[u] # 0
                   /\ \A k \in wire' : k.n # query'[p].ids[u]
                   /\ \A b \in Queriers : \A v \in {4, 6} :
                         Unsent(b, v)' /\ query'[b].ids[v] = query'[p].ids[u] => b = p /\ v = u
        <4>1. Unsent(p, u) /\ query'[p].ids[u] = query[p].ids[u] /\ query[p].ids[u] # n
          BY <2>14, <3>3
        <4>2. \A b \in Queriers : \A v \in {4, 6} : Unsent(b, v)' =>
                 Unsent(b, v) /\ query'[b].ids[v] = query[b].ids[v]
          BY <2>14
        <4> QED
          BY <1>0, <2>6, <2>9, <4>1, <4>2 DEF DNumbers
      <3> QED
        BY <3>1, <3>2, <3>3 DEF DNumbers
    <2>16. DTable'
      <3> SUFFICES ASSUME kind = "udp", NEW i \in DOMAIN requests'
                   PROVE  \E k \in wire' : /\ i = D!Id(k.n)' /\ requests'[i].dom = k.dom
                                           /\ requests'[i].type = k.type
        BY <2>6 DEF DTable
      <3> DEFINE e == [dom |-> query[q].dom, type |-> t, exp |-> now]
      <3>0. e.dom = query[q].dom /\ e.type = t
        OBVIOUS
      <3> HIDE DEF e
      <3>1. requests' = D!With(requests, D!Id(n), e)
        BY <2>6 DEF e
      <3>2. CASE i = D!Id(n)
        <4>1. requests'[i] = e
          BY <3>1, <3>2 DEF D!With
        <4> QED
          BY <2>6, <2>9, <3>0, <3>2, <4>1 DEF D!Id
      <3>3. CASE i # D!Id(n)
        <4>1. i \in DOMAIN requests /\ requests'[i] = requests[i]
          BY <3>1, <3>3 DEF D!With
        <4>2. PICK k \in wire : i = D!Id(k.n) /\ requests[i].dom = k.dom /\ requests[i].type = k.type
          BY <1>0, <4>1 DEF DTable
        <4> QED
          BY <2>6, <4>1, <4>2 DEF D!Id
      <3> QED
        BY <3>2, <3>3
    <2>17. DLanded' /\ D!RecordsBelong'
      BY <1>0, <2>6 DEF DLanded, Fresh, D!RecordsBelong
    <2> QED
      BY <2>12, <2>15, <2>16, <2>17 DEF DInv
  <1>7. ASSUME NEW m \in wire, NEW says, NEW ttl, D!HandleResponse(m, says, ttl) PROVE DInv'
    <2> DEFINE i == D!Id(m.n)
               rec == D!Answer(m, says, ttl)
               a == [dom |-> requests[i].dom, type |-> requests[i].type, rec |-> rec]
    <2>1. /\ kind = "udp" /\ i \in DOMAIN requests
          /\ landed' = landed \cup {a}
          /\ requests' = D!Without(requests, {i})
          /\ UNCHANGED <<kind, ips, serial, wire, query>>
      BY <1>7 DEF D!HandleResponse
    <2>2. PICK k \in wire : i = D!Id(k.n) /\ requests[i].dom = k.dom /\ requests[i].type = k.type
      BY <1>0, <2>1 DEF DTable
    <2>3. rec.dom = m.dom /\ rec.type = m.type
      BY DEF D!Answer
    <2>4. Fresh => k = m
      <3> SUFFICES ASSUME Fresh PROVE k = m
        OBVIOUS
      <3>1. serial <= IdSpace
        BY <2>1 DEF Fresh
      <3>2. m.n \in 1..IdSpace /\ k.n \in 1..IdSpace
        BY <1>0, <3>1 DEF DType, DNumbers, DnsOK
      <3>3. m.n = k.n
        BY <2>2, <3>2, IdsDistinct
      <3> QED
        BY <1>0, <3>3 DEF DNumbers
    <2> HIDE DEF rec
    <2>5. a.dom = k.dom /\ a.type = k.type /\ a.rec = rec /\ k.type \in {4, 6}
      BY <1>0, <2>2 DEF DType
    <2> HIDE DEF a, i
    <2>6. DLanded'
      BY <1>0, <2>1, <2>3, <2>4, <2>5 DEF DLanded, Fresh
    <2>7. DTable'
      <3>1. \A j \in DOMAIN requests' : j \in DOMAIN requests /\ requests'[j] = requests[j]
        BY <2>1 DEF D!Without
      <3> SUFFICES ASSUME kind = "udp", NEW j \in DOMAIN requests'
                   PROVE  \E l \in wire' : /\ j = D!Id(l.n)' /\ requests'[j].dom = l.dom
                                           /\ requests'[j].type = l.type
        BY <2>1 DEF DTable
      <3>2. PICK l \in wire : j = D!Id(l.n) /\ requests[j].dom = l.dom /\ requests[j].type = l.type
        BY <1>0, <3>1 DEF DTable
      <3> QED
        BY <2>1, <3>1, <3>2 DEF D!Id
    <2>8. DType' /\ DNumbers' /\ D!RecordsBelong'
      BY <1>0, <2>1 DEF DType, DNumbers, Unsent, D!RecordsBelong
    <2> QED
      BY <2>6, <2>7, <2>8 DEF DInv
  <1>8. ASSUME NEW m \in wire, NEW says, NEW ttl, D!Exchange(m, says, ttl) PROVE DInv'
    <2> DEFINE rec == D!Answer(m, says, ttl)
               a == [dom |-> m.dom, type |-> m.type, rec |-> rec]
    <2>1. /\ kind = "stream" /\ wire' = wire \ {m}
          /\ landed' = landed \cup {a} \/ landed' = landed
          /\ UNCHANGED <<kind, ips, requests, serial, query>>
      BY <1>8 DEF D!Exchange
    <2>2. rec.dom = m.dom /\ rec.type = m.type
      BY DEF D!Answer
    <2> HIDE DEF rec
    <2>3. a.dom = m.dom /\ a.type = m.type /\ a.rec = rec /\ m.type \in {4, 6}
      BY <1>0 DEF DType
    <2> HIDE DEF a
    <2>4. DLanded'
      BY <1>0, <2>1, <2>2, <2>3 DEF DLanded, Fresh
    <2>5. DTable' /\ D!RecordsBelong'
      BY <1>0, <2>1 DEF DTable, D!RecordsBelong
    <2>6. DType' /\ DNumbers'
      BY <1>0, <2>1 DEF DType, DNumbers, Unsent
    <2> QED
      BY <2>4, <2>5, <2>6 DEF DInv
  <1>9. ASSUME NEW a \in landed, D!UpdateIP(a) PROVE DInv'
    <2> DEFINE old == [t \in D!Types |-> D!Record(a.dom, t)]
               heard(q) == [query[q] EXCEPT !.heard = @ \cup {a.type}]
               hit(q) == query[q].pc # "idle" /\ query[q].dom = a.dom /\ a.type \in query[q].subs
    <2>1. /\ landed' = landed \ {a}
          /\ ips' = IF D!Newer(old[a.type], a.rec)
                    THEN D!With(ips, a.dom, [old EXCEPT ![a.type] = a.rec]) ELSE ips
          /\ query' = [q \in Queriers |-> IF hit(q) THEN heard(q) ELSE query[q]]
          /\ UNCHANGED <<kind, requests, serial, wire>>
      BY <1>9 DEF D!UpdateIP
    <2>2. a.type \in {4, 6} /\ (Fresh => a.rec.dom = a.dom /\ a.rec.type = a.type)
      BY <1>0 DEF DLanded
    <2>3. ASSUME NEW q \in Queriers, hit(q)
          PROVE  /\ heard(q) \in QuerySet /\ heard(q).pc = query[q].pc /\ heard(q).ids = query[q].ids
                 /\ heard(q).subs = query[q].subs /\ heard(q).opt = query[q].opt
      <3>1. query[q] \in Rec
        BY <1>1, <2>3
      <3>2. query[q].heard \cup {a.type} \in SUBSET {4, 6}
        BY <2>2, <3>1
      <3>3. heard(q) \in Rec
        BY <3>1, <3>2
      <3> QED
        BY <1>2, <3>1, <3>3
    <2> HIDE DEF heard, hit
    <2>4. query' \in [Queriers -> QuerySet]
      BY <1>0, <2>1, <2>3 DEF DType
    <2>5. \A q \in Queriers : /\ query'[q].pc = query[q].pc
                              /\ query'[q].pc = "send" => query'[q].ids = query[q].ids
                              /\ query'[q].pc = "subscribe" => query'[q].subs = query[q].subs /\ query'[q].opt = query[q].opt
      BY <2>1, <2>3
    <2>6. DType' /\ DNumbers'
      <3>1. \A q \in Queriers : query'[q].pc = "subscribe" =>
               query'[q].subs \subseteq query'[q].opt /\ query'[q].subs # query'[q].opt
        BY <1>0, <2>5 DEF DType
      <3> QED
        BY <2>1, <2>4, <2>5, <3>1, QueriesStep
    <2>7. DTable' /\ DLanded'
      BY <1>0, <2>1 DEF DTable, DLanded, Fresh, D!Id
    <2>8. D!RecordsBelong'
      <3> SUFFICES ASSUME Fresh, NEW d \in DOMAIN ips', NEW t \in {4, 6}, ips'[d][t] # D!NoRec
                   PROVE  ips'[d][t].dom = d /\ ips'[d][t].type = t
        BY <2>1 DEF D!RecordsBelong, Fresh, D!Types
      <3>0. /\ \A b \in DOMAIN ips, u \in {4, 6} : ips[b][u] # D!NoRec => ips[b][u].dom = b /\ ips[b][u].type = u
        BY <1>0 DEF D!RecordsBelong, Fresh, D!Types
      <3>1. CASE ips' = ips
        BY <3>0, <3>1
      <3>2. CASE ips' = D!With(ips, a.dom, [old EXCEPT ![a.type] = a.rec])
        <4>1. CASE d # a.dom
          <5>1. d \in DOMAIN ips /\ ips'[d] = ips[d]
            BY <3>2, <4>1 DEF D!With
          <5> QED
            BY <3>0, <5>1
        <4>2. CASE d = a.dom
          <5>1. ips'[d] = [old EXCEPT ![a.type] = a.rec]
            BY <3>2, <4>2 DEF D!With
          <5>2. ips'[d][t] = IF t = a.type THEN a.rec ELSE D!Record(d, t)
            BY <4>2, <5>1 DEF D!Types
          <5>3. CASE t = a.type
            BY <2>2, <4>2, <5>2, <5>3
          <5>4. CASE t # a.type
            BY <3>0, <5>2, <5>4 DEF D!Record
          <5> QED
            BY <5>3, <5>4
        <4> QED
          BY <4>1, <4>2
      <3> QED
        BY <2>1, <3>1, <3>2
    <2> QED
      BY <2>6, <2>7, <2>8 DEF DInv
  <1>10. ASSUME D!Cleanup PROVE DInv'
    <2> DEFINE kept(d) == [t \in D!Types |-> IF D!Valid(ips[d][t]) THEN ips[d][t] ELSE D!NoRec]
               live == {d \in DOMAIN ips : \E t \in D!Types : D!Valid(ips[d][t])}
               gone == {i \in DOMAIN requests : requests[i].exp < now}
    <2>1. /\ ips' = [d \in live |-> kept(d)]
          /\ requests' = D!Without(requests, gone)
          /\ UNCHANGED <<kind, serial, wire, landed, query>>
      BY <1>10 DEF D!Cleanup
    <2>2. DType' /\ DNumbers' /\ DLanded'
      BY <1>0, <2>1 DEF DType, DNumbers, Unsent, DLanded, Fresh
    <2>3. DTable'
      <3>1. \A j \in DOMAIN requests' : j \in DOMAIN requests /\ requests'[j] = requests[j]
        BY <2>1 DEF D!Without
      <3> SUFFICES ASSUME kind = "udp", NEW j \in DOMAIN requests'
                   PROVE  \E l \in wire' : /\ j = D!Id(l.n)' /\ requests'[j].dom = l.dom
                                           /\ requests'[j].type = l.type
        BY <2>1 DEF DTable
      <3>2. PICK l \in wire : j = D!Id(l.n) /\ requests[j].dom = l.dom /\ requests[j].type = l.type
        BY <1>0, <3>1 DEF DTable
      <3> QED
        BY <2>1, <3>1, <3>2 DEF D!Id
    <2>4. D!RecordsBelong'
      <3>1. \A d \in DOMAIN ips' : d \in DOMAIN ips /\ \A t \in D!Types : ips'[d][t] \in {ips[d][t], D!NoRec}
        BY <2>1
      <3> QED
        BY <1>0, <2>1, <3>1 DEF D!RecordsBelong
    <2> QED
      BY <2>2, <2>3, <2>4 DEF DInv
  <1>11. ASSUME D!Tick \/ UNCHANGED D!vars PROVE DInv'
    <2>1. UNCHANGED <<kind, ips, requests, serial, wire, landed, query>>
      BY <1>11 DEF D!Tick, D!vars
    <2> QED
      BY <1>0, <2>1 DEF DInv, DType, DNumbers, DTable, DLanded, Fresh, Unsent, D!RecordsBelong, D!Id
  <1> QED
    BY <1>3, <1>4, <1>5, <1>6, <1>7, <1>8, <1>9, <1>10, <1>11 DEF D!Next, D!Goroutine

\* A cached record is the answer to a question about its own domain and type for any number
\* of queries, servers that answer late, twice or never, and any size of the id space, as
\* long as the ids have not come round.
THEOREM RecordsOwnDomain == D!Spec => []RecordsBelong
  <1> DnsOK
    BY RoutesAssumption
  <1>1. D!Init => DInv
    <2> SUFFICES ASSUME D!Init PROVE DInv
      OBVIOUS
    <2>1. /\ serial = 0 /\ wire = {} /\ landed = {} /\ DOMAIN ips = {} /\ DOMAIN requests = {}
          /\ query = [q \in Queriers |-> D!Idle]
      BY DEF D!Init, D!Empty
    <2>2. D!Idle \in QuerySet /\ D!Idle.pc = "idle"
      BY DEF QuerySet, D!Idle
    <2> QED
      BY <2>1, <2>2 DEF DInv, DType, DNumbers, DTable, DLanded, Unsent, D!RecordsBelong
  <1>2. DInv /\ [D!Next]_(D!vars) => DInv'
    BY DnsStep
  <1>3. DInv => D!RecordsBelong
    BY DEF DInv
  <1> QED
    BY <1>1, <1>2, <1>3, PTL DEF D!Spec, RecordsBelong

-----------------------------------------------------------------------------
(* Loops: a value that is computed step by step from the previous one. *)

LEMMA LeastNumber ==
  ASSUME NEW T \in SUBSET Nat, T # {}
  PROVE  \E m \in T : \A k \in T : m <= k
  <1> DEFINE R == {ss \in Nat \X Nat : ss[1] < ss[2]}
  <1>1. IsWellFoundedOn(R, Nat)
    BY NatLessThanWellFounded DEF OpToRel
  <1>2. PICK m \in T : \A k \in T : ~(<<k, m>> \in R)
    BY <1>1, WFMin
  <1>3. ASSUME NEW k \in T PROVE m <= k
    <2>1. k \in Nat /\ m \in Nat
      OBVIOUS
    <2>2. ~(<<k, m>> \in R)
      BY <1>2
    <2>3. ~(k < m)
      BY <2>1, <2>2
    <2> QED
      BY <2>1, <2>3
  <1> QED
    BY <1>3

\* What holds at the beginning and is kept by every step holds all the time.
LEMMA LoopInvariant ==
  ASSUME NEW n \in Nat, NEW G, 0 \in G, \A i \in 1..n : i - 1 \in G => i \in G
  PROVE  \A i \in 0..n : i \in G
  <1> SUFFICES ASSUME NEW i \in 0..n, i \notin G PROVE FALSE
    OBVIOUS
  <1> DEFINE T == {k \in 0..n : k \notin G}
  <1>1. PICK m \in T : \A k \in T : m <= k
    <2>1. T \in SUBSET Nat /\ T # {}
      OBVIOUS
    <2> HIDE DEF T
    <2> QED
      BY <2>1, LeastNumber
  <1>2. m \in 1..n /\ m - 1 \in 0..n /\ ~(m <= m - 1)
    OBVIOUS
  <1>3. m - 1 \in G
    BY <1>1, <1>2
  <1> QED
    BY <1>2, <1>3

\* f[i] is the value after i steps from a, the i-th of which is step[i].
IsLoop(f, n, Vals, a, step) ==
  /\ f \in [0..n -> Vals]
  /\ f[0] = a
  /\ \A i \in 1..n : f[i] = step[i][f[i - 1]]

LEMMA LoopExists ==
  ASSUME NEW n \in Nat, NEW Vals, NEW a \in Vals, NEW step \in [1..n -> [Vals -> Vals]]
  PROVE  \E f : IsLoop(f, n, Vals, a, step)
  <1> DEFINE Loop(m, f) == f[0] = a /\ \A i \in 1..m : f[i] = step[i][f[i - 1]]
             G == {m \in 0..n : \E f \in [0..m -> Vals] : Loop(m, f)}
  <1>1. 0 \in G
    <2> DEFINE f == [i \in 0..0 |-> a]
    <2>1. f \in [0..0 -> Vals] /\ Loop(0, f) /\ 0 \in 0..n
      OBVIOUS
    <2> HIDE DEF f
    <2> QED
      BY <2>1
  <1>2. ASSUME NEW m \in 1..n, m - 1 \in G PROVE m \in G
    <2>1. PICK f \in [0..(m - 1) -> Vals] : Loop(m - 1, f)
      BY <1>2
    <2> DEFINE g == [i \in 0..m |-> IF i = m THEN step[m][f[m - 1]] ELSE f[i]]
    <2>2. m - 1 \in 0..(m - 1) /\ 0 \in 0..(m - 1) /\ 0 # m
      OBVIOUS
    <2>3. step[m][f[m - 1]] \in Vals
      BY <2>2
    <2>4. \A i \in 0..m : i # m => i \in 0..(m - 1)
      OBVIOUS
    <2>5. g \in [0..m -> Vals]
      BY <2>3, <2>4
    <2>6. g[0] = a
      BY <2>1, <2>2
    <2>7. ASSUME NEW i \in 1..m PROVE g[i] = step[i][g[i - 1]]
      <3>1. i \in 0..m /\ i - 1 \in 0..m /\ i - 1 # m
        OBVIOUS
      <3>2. g[i - 1] = f[i - 1]
        BY <3>1
      <3>3. CASE i = m
        BY <3>1, <3>2, <3>3
      <3>4. CASE i # m
        <4>1. i \in 1..(m - 1)
          BY <3>4
        <4> QED
          BY <2>1, <3>1, <3>2, <3>4, <4>1
      <3> QED
        BY <3>3, <3>4
    <2> HIDE DEF g
    <2>8. m \in 0..n
      OBVIOUS
    <2> QED
      BY <2>5, <2>6, <2>7, <2>8
  <1>3. n \in G
    <2>1. n \in 0..n
      OBVIOUS
    <2> HIDE DEF G
    <2> QED
      BY <1>1, <1>2, <2>1, LoopInvariant
  <1> QED
    BY <1>3 DEF IsLoop

\* The recursive function in Sum exists, because a loop does, and adds up to a number.
LEMMA SumType ==
  ASSUME NEW n \in Nat, NEW s \in [1..n -> Nat]
  PROVE  Bal!Sum(s) \in Nat
  <1>0. Len(s) = n
    OBVIOUS
  <1> DEFINE Eq(f) == f = [i \in 0..n |-> IF i = 0 THEN 0 ELSE f[i - 1] + s[i]]
             step == [i \in 1..n |-> [x \in Nat |-> x + s[i]]]
             sum == CHOOSE f : Eq(f)
  <1>1. Bal!Sum(s) = sum[n]
    BY <1>0 DEF Bal!Sum
  <1>2. \E f : Eq(f)
    <2>1. step \in [1..n -> [Nat -> Nat]] /\ 0 \in Nat
      OBVIOUS
    <2>a. \E f : IsLoop(f, n, Nat, 0, step)
      <3> HIDE DEF step
      <3> QED
        BY <2>1, LoopExists
    <2>2. PICK f \in [0..n -> Nat] : f[0] = 0 /\ \A i \in 1..n : f[i] = step[i][f[i - 1]]
      BY <2>a DEF IsLoop
    <2>3. \A i \in 1..n : f[i] = f[i - 1] + s[i]
      <3> SUFFICES ASSUME NEW i \in 1..n PROVE f[i] = f[i - 1] + s[i]
        OBVIOUS
      <3>1. i - 1 \in 0..n
        OBVIOUS
      <3>2. f[i - 1] \in Nat
        BY <3>1
      <3>3. step[i][f[i - 1]] = f[i - 1] + s[i]
        BY <3>2
      <3> QED
        BY <2>2, <3>3
    <2>4. \A i \in 0..n : i # 0 => i \in 1..n
      OBVIOUS
    <2>5. Eq(f)
      BY <2>2, <2>3, <2>4
    <2> QED
      BY <2>5
  <1>3. Eq(sum)
    BY <1>2
  <1> HIDE DEF sum
  <1> DEFINE G == {i \in 0..n : sum[i] \in Nat}
  <1>4. 0 \in G
    BY <1>3
  <1>5. ASSUME NEW i \in 1..n, i - 1 \in G PROVE i \in G
    <2>1. i \in 0..n /\ i # 0
      OBVIOUS
    <2>2. sum[i] = sum[i - 1] + s[i]
      BY <1>3, <2>1
    <2> QED
      BY <1>5, <2>1, <2>2
  <1>6. n \in G
    <2>1. n \in 0..n
      OBVIOUS
    <2> HIDE DEF G
    <2> QED
      BY <1>4, <1>5, <2>1, LoopInvariant
  <1> QED
    BY <1>1, <1>6

LEMMA GreatestNumber ==
  ASSUME NEW n \in Nat, NEW T \in SUBSET (0..n), T # {}
  PROVE  \E m \in T : \A k \in T : m >= k
  <1> DEFINE Gaps == {d \in Nat : n - d \in T}
  <1>1. Gaps \in SUBSET Nat /\ Gaps # {}
    <2>1. PICK m \in T : TRUE
      OBVIOUS
    <2>2. n - m \in Nat /\ n - (n - m) = m
      OBVIOUS
    <2>3. n - m \in Gaps
      BY <2>2
    <2> QED
      BY <2>3
  <1>2. PICK d \in Gaps : \A e \in Gaps : d <= e
    <2> HIDE DEF Gaps
    <2> QED
      BY <1>1, LeastNumber
  <1>3. n - d \in T
    OBVIOUS
  <1>4. ASSUME NEW k \in T PROVE n - d >= k
    <2>1. n - k \in Nat /\ n - (n - k) = k
      OBVIOUS
    <2>2. n - k \in Gaps
      BY <2>1
    <2>3. d <= n - k
      BY <1>2, <2>2
    <2> QED
      BY <2>3
  <1> QED
    BY <1>3, <1>4

-----------------------------------------------------------------------------
(* Balancer. *)

LEMMA MaxIs ==
  ASSUME NEW T \in SUBSET Int, NEW m \in T, \A k \in T : m >= k
  PROVE  Bal!Max(T) = m
  <1>1. Bal!Max(T) \in T /\ \A k \in T : Bal!Max(T) >= k
    BY Zenon DEF Bal!Max
  <1>2. PICK x \in T : x = Bal!Max(T)
    BY <1>1
  <1>3. x \in Int /\ m \in Int /\ x >= m /\ m >= x
    BY <1>1, <1>2
  <1>4. x = m
    BY <1>3
  <1> QED
    BY <1>2, <1>4

LEMMA MinIs ==
  ASSUME NEW T \in SUBSET Int, NEW m \in T, \A k \in T : m <= k
  PROVE  Bal!Min(T) = m
  <1>1. Bal!Min(T) \in T /\ \A k \in T : Bal!Min(T) <= k
    BY Zenon DEF Bal!Min
  <1>2. PICK x \in T : x = Bal!Min(T)
    BY <1>1
  <1>3. x \in Int /\ m \in Int /\ x <= m /\ m <= x
    BY <1>1, <1>2
  <1>4. x = m
    BY <1>3
  <1> QED
    BY <1>2, <1>4

LEMMA SqrtType ==
  ASSUME NEW n \in Nat
  PROVE  Bal!Sqrt(n) \in Nat
  <1> DEFINE T == {r \in 0..n : r * r <= n}
  <1>1. Bal!Sqrt(n) = Bal!Max(T)
    BY DEF Bal!Sqrt
  <1>2. T \in SUBSET (0..n) /\ T \in SUBSET Int /\ T \in SUBSET Nat
    OBVIOUS
  <1>3. 0 \in T
    OBVIOUS
  <1> HIDE DEF T
  <1>4. PICK m \in T : \A k \in T : m >= k
    BY <1>2, <1>3, GreatestNumber
  <1> QED
    BY <1>1, <1>2, <1>4, MaxIs

LEMMA DivType ==
  ASSUME NEW a \in Nat, NEW b \in Nat \ {0}
  PROVE  a \div b \in Nat
  OBVIOUS

LEMMA SquareType ==
  ASSUME NEW x \in Int
  PROVE  x * x \in Nat
  <1>1. CASE x >= 0
    BY <1>1
  <1>2. CASE x < 0
    <2>1. 0 - x \in Nat /\ x * x = (0 - x) * (0 - x)
      BY <1>2
    <2> QED
      BY <2>1
  <1> QED
    BY <1>1, <1>2

LEMMA BalancerCardinality ==
  \A Vals : Bal!Cardinality(Vals) = Cardinality(Vals)
  BY DEF Bal!Cardinality, Cardinality

Ring == Seq(RTTs \cup {Bal!rttFailed})

LEMMA RingType ==
  ASSUME BalancerOK, NEW ring \in Ring
  PROVE  /\ Bal!Cardinality(Bal!Valid(ring)) \in Nat
         /\ Bal!Valid(ring) # {} => Bal!Cardinality(Bal!Valid(ring)) # 0
         /\ Bal!Fail(ring) \in Int
         /\ Bal!Average(ring) \in Nat
         /\ Bal!Deviation(ring) \in Nat
  <1> DEFINE V == Bal!Valid(ring)
             n == Len(ring)
  <1>1. n \in Nat /\ DOMAIN ring = 1..n
    BY DEF Ring
  <1>2. V \in SUBSET (1..n) /\ \A i \in V : ring[i] \in Nat
    <2>1. V \in SUBSET (1..n) /\ \A i \in V : ring[i] # Bal!rttFailed
      BY <1>1 DEF Bal!Valid
    <2>2. \A i \in 1..n : ring[i] \in RTTs \cup {Bal!rttFailed}
      BY <1>1 DEF Ring
    <2>3. RTTs \subseteq Nat
      BY DEF BalancerOK
    <2> HIDE DEF V, n
    <2> QED
      BY <2>1, <2>2, <2>3
  <1>3. IsFiniteSet(V)
    <2>1. IsFiniteSet(1..n)
      BY <1>1, FS_Interval
    <2> HIDE DEF V, n
    <2> QED
      BY <1>2, <2>1, FS_Subset
  <1>4. Bal!Cardinality(V) \in Nat /\ (V # {} => Bal!Cardinality(V) # 0)
    BY <1>3, FS_CardinalityType, FS_EmptySet, BalancerCardinality
  <1>5. Bal!Fail(ring) \in Int
    BY <1>1, <1>4 DEF Bal!Fail
  <1> HIDE DEF V, n
  <1>6. Bal!Average(ring) \in Nat
    <2> DEFINE s == [i \in 1..n |-> IF i \in V THEN ring[i] ELSE 0]
    <2>1. s \in [1..n -> Nat]
      BY <1>2
    <2>2. Bal!Average(ring) = IF V = {} THEN 0 ELSE Bal!Sum(s) \div Bal!Cardinality(V)
      BY DEF Bal!Average, Bal!Mean, V, n
    <2> HIDE DEF s
    <2>3. Bal!Sum(s) \in Nat
      BY <1>1, <2>1, SumType
    <2> QED
      BY <1>4, <2>2, <2>3, DivType
  <1>7. Bal!Deviation(ring) \in Nat
    <2> DEFINE a == Bal!Average(ring)
               s == [i \in 1..n |-> IF i \in V THEN (ring[i] - a) * (ring[i] - a) ELSE 0]
               squares == [i \in 1..n |-> (ring[i] - a) * (ring[i] - a)]
    <2>a. s = [i \in 1..n |-> IF i \in V THEN squares[i] ELSE 0]
      BY <1>2
    <2>b. Bal!Mean(ring, squares) = Bal!Sum(s) \div Bal!Cardinality(V)
      BY <2>a, Zenon DEF Bal!Mean, V, n
    <2>1. Bal!Deviation(ring) = IF V = {} THEN 0
                                ELSE IF Bal!Cardinality(V) = 1 THEN a \div 2
                                ELSE Bal!Sqrt(Bal!Sum(s) \div Bal!Cardinality(V))
      BY <2>b, Zenon DEF Bal!Deviation, V, n
    <2>2. s \in [1..n -> Nat]
      <3>1. \A i \in V : (ring[i] - a) * (ring[i] - a) \in Nat
        BY <1>2, <1>6, SquareType
      <3> HIDE DEF a
      <3> QED
        BY <3>1
    <2> HIDE DEF s, a
    <2>3. Bal!Sum(s) \in Nat
      BY <1>1, <2>2, SumType
    <2>4. V # {} => Bal!Sum(s) \div Bal!Cardinality(V) \in Nat
      BY <1>4, <2>3, DivType
    <2>5. V # {} => Bal!Sqrt(Bal!Sum(s) \div Bal!Cardinality(V)) \in Nat
      BY <2>4, SqrtType
    <2>6. a \div 2 \in Nat
      BY <1>6 DEF a
    <2> QED
      BY <2>1, <2>5, <2>6
  <1> QED
    BY <1>4, <1>5, <1>6, <1>7 DEF V

BInv ==
  /\ setting \in Settings
  /\ DOMAIN results \subseteq Selected
  /\ results \in [DOMAIN results -> Ring]

\* leastloadSort compares by cost first, and never leaves two nodes equal.
LEMMA BeforeOrder ==
  ASSUME BalancerOK, BInv
  PROVE  /\ \A t \in DOMAIN results : Bal!Cost(t) \in Nat /\ ~Bal!Before(t, t)
         /\ \A t, u \in DOMAIN results : /\ t # u => Bal!Before(t, u) \/ Bal!Before(u, t)
                                         /\ Bal!Before(t, u) => Bal!Cost(t) <= Bal!Cost(u)
         /\ \A t, u, v \in DOMAIN results : Bal!Before(t, u) /\ Bal!Before(u, v) => Bal!Before(t, v)
  <1> DEFINE X == DOMAIN results
             A(t) == Bal!Average(results[t])
             Lost(t) == Bal!Fail(results[t])
             N(t) == Len(results[t])
             C(t) == Bal!Cost(t)
  <1>1. \A t \in X : t \in Int /\ results[t] \in Ring
    BY DEF BInv, BalancerOK
  <1>2. \A t \in X : A(t) \in Nat /\ Lost(t) \in Int /\ Bal!Deviation(results[t]) \in Nat /\ N(t) \in Nat
    <2> SUFFICES ASSUME NEW t \in X
                 PROVE  A(t) \in Nat /\ Lost(t) \in Int /\ Bal!Deviation(results[t]) \in Nat /\ N(t) \in Nat
      OBVIOUS
    <2>1. results[t] \in Ring
      BY <1>1
    <2>2. N(t) \in Nat
      BY <2>1 DEF Ring
    <2> QED
      BY <2>1, <2>2, RingType
  <1>3. \A t \in X : C(t) \in Nat
    <2> SUFFICES ASSUME NEW t \in X PROVE C(t) \in Nat
      OBVIOUS
    <2>1. Weight[t] \in Nat
      BY DEF BInv, BalancerOK
    <2>2. C(t) = Bal!Deviation(results[t]) * Weight[t]
      BY DEF Bal!Cost
    <2>3. \A x, y \in Nat : x * y \in Nat
      OBVIOUS
    <2> QED
      BY <1>2, <2>1, <2>2, <2>3
  <1>4. \A t, u : Bal!Before(t, u) <=>
           \/ C(t) < C(u)
           \/ C(t) = C(u) /\ (\/ A(t) < A(u)
                              \/ A(t) = A(u) /\ (\/ Lost(t) < Lost(u)
                                                 \/ Lost(t) = Lost(u) /\ (\/ N(u) < N(t)
                                                                          \/ N(u) = N(t) /\ t < u)))
    BY DEF Bal!Before
  <1> HIDE DEF A, Lost, N, C, X
  <1>5. \A t \in X : ~Bal!Before(t, t)
    BY <1>1, <1>2, <1>3, <1>4
  <1>6. \A t, u \in X : /\ t # u => Bal!Before(t, u) \/ Bal!Before(u, t)
                        /\ Bal!Before(t, u) => C(t) <= C(u)
    BY <1>1, <1>2, <1>3, <1>4
  <1>7. \A t, u, v \in X : Bal!Before(t, u) /\ Bal!Before(u, v) => Bal!Before(t, v)
    BY <1>1, <1>2, <1>3, <1>4
  <1> QED
    BY <1>3, <1>5, <1>6, <1>7 DEF C, X

LEMMA RankCounts ==
  \A t, Q : Bal!Rank(t, Q) = Cardinality({u \in Q : Bal!Before(u, t)})
  BY BalancerCardinality DEF Bal!Rank

\* The nodes have the ranks 0, 1, 2 and so on.
LEMMA NodeRanks ==
  ASSUME BalancerOK, BInv, NEW Q \in SUBSET DOMAIN results
  PROVE  /\ IsFiniteSet(Q) /\ Cardinality(Q) \in Nat
         /\ \A t \in Q : Bal!Rank(t, Q) \in 0..(Cardinality(Q) - 1)
         /\ \A t, u \in Q : Bal!Before(t, u) => Bal!Rank(t, Q) < Bal!Rank(u, Q)
         /\ \A t, u \in Q : Bal!Rank(t, Q) = Bal!Rank(u, Q) => t = u
         /\ \A k \in 0..(Cardinality(Q) - 1) : \E t \in Q : Bal!Rank(t, Q) = k
  <1> DEFINE n == Cardinality(Q)
             Prior(t) == {u \in Q : Bal!Before(u, t)}
             rank == [t \in Q |-> Bal!Rank(t, Q)]
  <1>0. \A t : Bal!Rank(t, Q) = Cardinality(Prior(t))
    BY RankCounts
  <1>1. IsFiniteSet(Q)
    <2>1. Q \in SUBSET Tags /\ IsFiniteSet(Tags)
      BY DEF BInv, BalancerOK
    <2> QED
      BY <2>1, FS_Subset
  <1>2. n \in Nat /\ \A t : Prior(t) \in SUBSET Q /\ IsFiniteSet(Prior(t)) /\ Cardinality(Prior(t)) \in Nat
    BY <1>1, FS_Subset, FS_CardinalityType
  <1>3. ASSUME NEW t \in Q PROVE Cardinality(Prior(t)) \in 0..(n - 1)
    <2>1. t \notin Prior(t)
      BY BeforeOrder
    <2>2. Prior(t) # Q /\ Prior(t) \in SUBSET Q
      BY <2>1
    <2>3. Cardinality(Prior(t)) <= n /\ n # Cardinality(Prior(t))
      BY <1>1, <2>2, FS_Subset
    <2> QED
      BY <1>2, <2>3
  <1>4. ASSUME NEW t \in Q, NEW u \in Q, Bal!Before(t, u) PROVE Cardinality(Prior(t)) < Cardinality(Prior(u))
    <2>1. Prior(t) \in SUBSET Prior(u) /\ t \notin Prior(t) /\ t \in Prior(u)
      BY <1>4, BeforeOrder
    <2>2. Prior(t) # Prior(u)
      BY <2>1
    <2>3. Cardinality(Prior(t)) <= Cardinality(Prior(u)) /\ Cardinality(Prior(u)) # Cardinality(Prior(t))
      BY <1>2, <2>1, <2>2, FS_Subset
    <2> QED
      BY <1>2, <2>3
  <1> HIDE DEF Prior, n
  <1>5. ASSUME NEW t \in Q, NEW u \in Q, Bal!Rank(t, Q) = Bal!Rank(u, Q), t # u PROVE FALSE
    <2>1. Bal!Before(t, u) \/ Bal!Before(u, t)
      BY <1>5, BeforeOrder
    <2> QED
      BY <1>0, <1>2, <1>4, <1>5, <2>1
  <1>6. \A k \in 0..(n - 1) : \E t \in Q : Bal!Rank(t, Q) = k
    <2>1. rank \in [Q -> 0..(n - 1)]
      BY <1>0, <1>3
    <2>2. \A t, u \in Q : rank[t] = rank[u] => t = u
      BY <1>5
    <2>3. rank \in Injection(Q, 0..(n - 1))
      BY <2>1, <2>2 DEF Injection, IsInjective
    <2>4. IsFiniteSet(0..(n - 1)) /\ Cardinality(0..(n - 1)) = n
      <3>1. 0 \in Int /\ n - 1 \in Int /\ (0 > n - 1 => n = 0) /\ n - 1 - 0 + 1 = n
        BY <1>2
      <3> QED
        BY <3>1, FS_Interval
    <2>5. rank \in Surjection(Q, 0..(n - 1))
      BY <1>1, <2>3, <2>4, FS_Injection DEF n
    <2>6. \A k \in 0..(n - 1) : \E t \in Q : rank[t] = k
      BY <2>5 DEF Surjection
    <2> QED
      BY <2>6
  <1> QED
    BY <1>0, <1>1, <1>2, <1>3, <1>4, <1>5, <1>6 DEF n

\* getNodes lists the qualified nodes in their order.
LEMMA NodesSorted ==
  ASSUME BalancerOK, BInv, NEW candidates
  PROVE  LET Q == Bal!Qualified(candidates)
             nodes == Bal!getNodes(candidates)
         IN  /\ Q \in SUBSET DOMAIN results
             /\ nodes \in [1..Cardinality(Q) -> Q]
             /\ nodes \in Seq(Q) /\ Len(nodes) = Cardinality(Q)
             /\ \A k \in 1..Cardinality(Q) : Bal!Rank(nodes[k], Q) = k - 1
  <1> DEFINE Q == Bal!Qualified(candidates)
             nodes == Bal!getNodes(candidates)
             n == Cardinality(Q)
             Nth(k) == CHOOSE t \in Q : Bal!Rank(t, Q) = k - 1
  <1>1. Q \in SUBSET DOMAIN results
    BY DEF Bal!Qualified
  <1>2. nodes = [k \in 1..n |-> Nth(k)]
    BY Zenon DEF Bal!getNodes, Bal!Cardinality, Cardinality
  <1> HIDE DEF Q, nodes
  <1>3. n \in Nat /\ \A k \in 0..(n - 1) : \E t \in Q : Bal!Rank(t, Q) = k
    BY <1>1, NodeRanks
  <1> HIDE DEF n
  <1>4. \A k \in 1..n : Nth(k) \in Q /\ Bal!Rank(Nth(k), Q) = k - 1
    <2> SUFFICES ASSUME NEW k \in 1..n PROVE Nth(k) \in Q /\ Bal!Rank(Nth(k), Q) = k - 1
      OBVIOUS
    <2>1. k - 1 \in 0..(n - 1)
      BY <1>3
    <2>2. \E t \in Q : Bal!Rank(t, Q) = k - 1
      BY <1>3, <2>1
    <2> QED
      BY <2>2
  <1> HIDE DEF Nth
  <1>5. nodes \in [1..n -> Q]
    BY <1>2, <1>4
  <1>6. nodes \in Seq(Q) /\ Len(nodes) = n
    BY <1>3, <1>5
  <1>7. \A k \in 1..n : Bal!Rank(nodes[k], Q) = k - 1
    BY <1>2, <1>4
  <1> QED
    BY <1>1, <1>5, <1>6, <1>7 DEF Q, nodes, n

\* The first m of them are the best m.
LEMMA PrefixIsBest ==
  ASSUME BalancerOK, BInv, NEW Q \in SUBSET DOMAIN results,
         NEW nodes \in Seq(Q), Len(nodes) = Cardinality(Q),
         \A k \in 1..Cardinality(Q) : Bal!Rank(nodes[k], Q) = k - 1,
         NEW m \in 0..Cardinality(Q)
  PROVE  Bal!Range(SubSeq(nodes, 1, m)) = Bal!Best(Q, m)
  <1> DEFINE n == Cardinality(Q)
             p == SubSeq(nodes, 1, m)
  <1>1. n \in Nat
    BY NodeRanks
  <1>2. DOMAIN p = 1..m /\ \A k \in 1..m : p[k] = nodes[k]
    BY <1>1
  <1>3. Bal!Range(p) = {nodes[k] : k \in 1..m}
    BY <1>2, Zenon DEF Bal!Range
  <1>4. ASSUME NEW k \in 1..m PROVE nodes[k] \in Bal!Best(Q, m)
    <2>1. k \in 1..n /\ nodes[k] \in Q /\ k - 1 < m
      BY <1>1
    <2> QED
      BY <2>1 DEF Bal!Best
  <1>5. ASSUME NEW t \in Bal!Best(Q, m) PROVE \E k \in 1..m : t = nodes[k]
    <2>1. t \in Q /\ Bal!Rank(t, Q) < m /\ Bal!Rank(t, Q) \in 0..(n - 1)
      BY NodeRanks DEF Bal!Best
    <2>2. PICK k : k = Bal!Rank(t, Q) + 1
      OBVIOUS
    <2>3. k \in 1..m /\ k \in 1..n /\ k - 1 = Bal!Rank(t, Q)
      BY <1>1, <2>1, <2>2
    <2>4. Bal!Rank(nodes[k], Q) = Bal!Rank(t, Q) /\ nodes[k] \in Q
      BY <2>3
    <2>5. nodes[k] = t
      BY <2>1, <2>4, NodeRanks
    <2> QED
      BY <2>3, <2>5
  <1> HIDE DEF p
  <1> QED
    BY <1>3, <1>4, <1>5 DEF p

\* The nodes below a baseline are the best ones, as many as they are.
LEMMA BelowIsBest ==
  ASSUME BalancerOK, BInv, NEW Q \in SUBSET DOMAIN results, NEW b \in Int
  PROVE  /\ Cardinality(Bal!Below(Q, b)) \in 0..Cardinality(Q)
         /\ Bal!Below(Q, b) = Bal!Best(Q, Cardinality(Bal!Below(Q, b)))
  <1> DEFINE Low == Bal!Below(Q, b)
             m == Cardinality(Low)
             Prior(t) == {u \in Q : Bal!Before(u, t)}
  <1>1. IsFiniteSet(Q) /\ Cardinality(Q) \in Nat
    BY NodeRanks
  <1>2. Low \in SUBSET Q
    BY DEF Bal!Below
  <1>3. IsFiniteSet(Low) /\ m \in Nat /\ m <= Cardinality(Q)
    BY <1>1, <1>2, FS_Subset, FS_CardinalityType
  <1>4. \A t : IsFiniteSet(Prior(t)) /\ Cardinality(Prior(t)) \in Nat /\ Bal!Rank(t, Q) = Cardinality(Prior(t))
    BY <1>1, FS_Subset, FS_CardinalityType, RankCounts
  <1>5. ASSUME NEW t \in Low PROVE Bal!Rank(t, Q) < m
    <2>1. Prior(t) \in SUBSET Low
      <3> SUFFICES ASSUME NEW u \in Prior(t) PROVE u \in Low
        OBVIOUS
      <3>1. Bal!Cost(u) \in Nat /\ Bal!Cost(t) \in Nat /\ Bal!Cost(u) <= Bal!Cost(t)
        BY <1>2, BeforeOrder
      <3>2. Bal!Cost(t) < b
        BY DEF Bal!Below
      <3>3. Bal!Cost(u) < b
        BY <3>1, <3>2
      <3> QED
        BY <3>3 DEF Bal!Below
    <2>2. t \notin Prior(t)
      BY <1>2, BeforeOrder
    <2>3. Prior(t) # Low
      BY <2>2
    <2>4. Cardinality(Prior(t)) <= m /\ m # Cardinality(Prior(t))
      BY <1>3, <2>1, <2>3, FS_Subset
    <2> QED
      BY <1>3, <1>4, <2>4
  <1>6. ASSUME NEW t \in Q, t \notin Low PROVE ~(Bal!Rank(t, Q) < m)
    <2>1. Low \in SUBSET Prior(t)
      <3> SUFFICES ASSUME NEW u \in Low PROVE u \in Prior(t)
        OBVIOUS
      <3>1. u # t /\ u \in Q
        BY <1>2, <1>6
      <3>2. ~Bal!Before(t, u)
        <4> SUFFICES ASSUME Bal!Before(t, u) PROVE FALSE
          OBVIOUS
        <4>1. Bal!Cost(t) \in Nat /\ Bal!Cost(u) \in Nat /\ Bal!Cost(t) <= Bal!Cost(u)
          BY <3>1, BeforeOrder
        <4>2. Bal!Cost(u) < b /\ ~(Bal!Cost(t) < b)
          BY <1>6 DEF Bal!Below
        <4> QED
          BY <4>1, <4>2
      <3> QED
        BY <3>1, <3>2, BeforeOrder
    <2>2. m <= Cardinality(Prior(t))
      BY <1>4, <2>1, FS_Subset
    <2> QED
      BY <1>3, <1>4, <2>2
  <1>7. Low = Bal!Best(Q, m)
    BY <1>2, <1>5, <1>6 DEF Bal!Best
  <1> QED
    BY <1>1, <1>3, <1>7

\* The loop over the baselines stops with the nodes below the first baseline that is met by
\* enough of them, and with fewer if there is none.
LEMMA LoopCounts ==
  ASSUME BalancerOK, BInv, NEW Q \in SUBSET DOMAIN results,
         NEW nodes \in Seq(Q), Len(nodes) = Cardinality(Q),
         \A k \in 1..Cardinality(Q) : Bal!Rank(nodes[k], Q) = k - 1,
         NEW e \in Nat \ {0}
  PROVE  LET bs == setting.baselines
             Size(i) == Cardinality(Bal!Below(Q, bs[i]))
             count == Bal!CountBelow(nodes, e)
         IN  /\ count \in 0..Cardinality(Q)
             /\ (\A i \in 1..Len(bs) : Size(i) < e) => count < e
             /\ \A m \in 1..Len(bs) : Size(m) >= e /\ (\A i \in 1..(m - 1) : Size(i) < e)
                                         => count = Size(m)
  <1> DEFINE bs == setting.baselines
             L == Len(bs)
             n == Cardinality(Q)
             Size(i) == Cardinality(Bal!Below(Q, bs[i]))
             Reach(k, c) == {i \in c..n : \A j \in (c + 1)..i : Bal!Cost(nodes[j]) < bs[k]}
             Eq(f) == f = [k \in 0..L |-> IF k = 0 THEN 0
                                          ELSE IF f[k - 1] >= e THEN f[k - 1]
                                          ELSE Bal!Max(Reach(k, f[k - 1]))]
             count == CHOOSE f : Eq(f)
             Grow(k, c) == IF c >= e THEN c ELSE IF Size(k) > c THEN Size(k) ELSE c
             step == [k \in 1..L |-> [c \in 0..n |-> Grow(k, c)]]
  <1>1. Bal!CountBelow(nodes, e) = count[L]
    BY DEF Bal!CountBelow
  <1>2. bs \in Seq(Int) /\ L \in Nat /\ n \in Nat /\ \A k \in 1..L : bs[k] \in Int
    BY NodeRanks DEF BInv, BalancerOK
  <1>3. \A k \in 1..L : Size(k) \in 0..n
    BY <1>2, BelowIsBest
  <1>4. ASSUME NEW k \in 1..L, NEW j \in 1..n PROVE Bal!Cost(nodes[j]) < bs[k] <=> j <= Size(k)
    <2>1. nodes[j] \in Q
      OBVIOUS
    <2>2. Bal!Cost(nodes[j]) < bs[k] <=> nodes[j] \in Bal!Below(Q, bs[k])
      BY <2>1 DEF Bal!Below
    <2>3. nodes[j] \in Bal!Below(Q, bs[k]) <=> nodes[j] \in Bal!Best(Q, Size(k))
      BY <1>2, BelowIsBest
    <2>4. nodes[j] \in Bal!Best(Q, Size(k)) <=> j - 1 < Size(k)
      BY <2>1 DEF Bal!Best
    <2>5. j - 1 < Size(k) <=> j <= Size(k)
      BY <1>3
    <2> QED
      BY <2>2, <2>3, <2>4, <2>5
  <1> HIDE DEF bs, L, n, Size
  <1>5. ASSUME NEW k \in 1..L, NEW c \in 0..n
        PROVE  Bal!Max(Reach(k, c)) = IF Size(k) > c THEN Size(k) ELSE c
    <2> DEFINE x == IF Size(k) > c THEN Size(k) ELSE c
    <2>1. x \in 0..n /\ x >= c /\ x >= Size(k) /\ (x = c \/ x = Size(k)) /\ Size(k) \in 0..n
      BY <1>2, <1>3
    <2> HIDE DEF x
    <2>2. ASSUME NEW i \in Reach(k, c) PROVE x >= i
      <3>1. i \in c..n
        OBVIOUS
      <3>2. CASE i = c
        BY <1>2, <2>1, <3>2
      <3>3. CASE i # c
        <4>1. i \in (c + 1)..i /\ i \in 1..n
          BY <1>2, <3>1, <3>3
        <4>2. Bal!Cost(nodes[i]) < bs[k]
          BY <4>1
        <4>3. i <= Size(k)
          BY <1>4, <4>1, <4>2
        <4> QED
          BY <1>2, <2>1, <4>1, <4>3
      <3> QED
        BY <3>2, <3>3
    <2>3. x \in Reach(k, c)
      <3>1. x \in c..n
        BY <1>2, <2>1
      <3>2. ASSUME NEW j \in (c + 1)..x PROVE Bal!Cost(nodes[j]) < bs[k]
        <4>1. j \in 1..n /\ j <= Size(k)
          BY <1>2, <2>1
        <4> QED
          BY <1>4, <4>1
      <3> QED
        BY <3>1, <3>2
    <2>4. Reach(k, c) \in SUBSET Int
      BY <1>2
    <2> HIDE DEF Reach
    <2>5. Bal!Max(Reach(k, c)) = x
      BY <2>2, <2>3, <2>4, MaxIs
    <2> QED
      BY <2>5 DEF x
  <1>6. \A k \in 1..L, c \in 0..n : /\ Grow(k, c) \in 0..n
                                    /\ Grow(k, c) = IF c >= e THEN c ELSE Bal!Max(Reach(k, c))
    <2> HIDE DEF Reach
    <2> QED
      BY <1>2, <1>3, <1>5
  <1> HIDE DEF Reach, Grow
  <1>7. \E f : Eq(f)
    <2>1. step \in [1..L -> [0..n -> 0..n]] /\ 0 \in 0..n
      BY <1>2, <1>6
    <2>2. PICK f : IsLoop(f, L, 0..n, 0, step)
      <3> HIDE DEF step
      <3> QED
        BY <1>2, <2>1, LoopExists
    <2>3. f \in [0..L -> 0..n] /\ f[0] = 0 /\ \A k \in 1..L : f[k] = step[k][f[k - 1]]
      BY <2>2 DEF IsLoop
    <2>4. ASSUME NEW k \in 0..L, k # 0
          PROVE  f[k] = IF f[k - 1] >= e THEN f[k - 1] ELSE Bal!Max(Reach(k, f[k - 1]))
      <3>1. k \in 1..L /\ k - 1 \in 0..L
        BY <1>2, <2>4
      <3>2. f[k - 1] \in 0..n
        BY <2>3, <3>1
      <3>3. f[k] = Grow(k, f[k - 1])
        BY <2>3, <3>1, <3>2
      <3> QED
        BY <1>6, <3>1, <3>2, <3>3
    <2>5. f = [k \in 0..L |-> f[k]]
      BY <2>3
    <2>6. Eq(f)
      BY <2>3, <2>4, <2>5
    <2> QED
      BY <2>6
  <1>8. Eq(count)
    BY <1>7
  <1> HIDE DEF count
  <1>9. count[0] = 0 /\ \A k \in 1..L : count[k - 1] \in 0..n => count[k] = Grow(k, count[k - 1])
    <2>1. count[0] = 0
      BY <1>2, <1>8
    <2>2. ASSUME NEW k \in 1..L, count[k - 1] \in 0..n PROVE count[k] = Grow(k, count[k - 1])
      <3>1. k \in 0..L /\ k # 0
        BY <1>2
      <3>2. count[k] = IF count[k - 1] >= e THEN count[k - 1] ELSE Bal!Max(Reach(k, count[k - 1]))
        BY <1>8, <3>1
      <3> QED
        BY <1>6, <2>2, <3>2
    <2> QED
      BY <2>1, <2>2
  <1> DEFINE First(m) == Size(m) >= e /\ \A i \in 1..(m - 1) : Size(i) < e
             G == {k \in 0..L : /\ count[k] \in 0..n
                                /\ (\A i \in 1..k : Size(i) < e) => count[k] < e
                                /\ \A m \in 1..k : First(m) => count[k] = Size(m)}
  <1>10. 0 \in G
    BY <1>2, <1>9
  <1>11. ASSUME NEW k \in 1..L, k - 1 \in G PROVE k \in G
    <2> DEFINE c == count[k - 1]
    <2>1. /\ c \in 0..n
          /\ (\A i \in 1..(k - 1) : Size(i) < e) => c < e
          /\ \A m \in 1..(k - 1) : First(m) => c = Size(m)
      BY <1>11
    <2>2. count[k] = Grow(k, c) /\ Grow(k, c) \in 0..n
      BY <1>6, <1>9, <2>1
    <2>3. Size(k) \in 0..n
      BY <1>3
    <2> HIDE DEF c
    <2>4. ASSUME \A i \in 1..k : Size(i) < e PROVE count[k] < e
      <3>1. c < e /\ Size(k) < e
        BY <1>2, <2>1, <2>4
      <3> QED
        BY <1>2, <2>1, <2>2, <2>3, <3>1 DEF Grow
    <2>5. ASSUME NEW m \in 1..k, First(m) PROVE count[k] = Size(m)
      <3>1. CASE m = k
        <4>1. c < e /\ Size(k) >= e
          BY <2>1, <2>5, <3>1
        <4> QED
          BY <1>2, <2>1, <2>2, <2>3, <3>1, <4>1 DEF Grow
      <3>2. CASE m # k
        <4>1. c = Size(m) /\ c >= e
          BY <1>2, <2>1, <2>5, <3>2
        <4> QED
          BY <2>2, <4>1 DEF Grow
      <3> QED
        BY <3>1, <3>2
    <2>6. k \in 0..L
      BY <1>2
    <2> QED
      BY <2>2, <2>4, <2>5, <2>6
  <1>12. L \in G
    <2>1. L \in 0..L
      BY <1>2
    <2> HIDE DEF G
    <2> QED
      BY <1>2, <1>10, <1>11, <2>1, LoopInvariant
  <1> QED
    BY <1>1, <1>12 DEF bs, L, n, Size

\* What selectLeastLoad takes of the sorted nodes is what its comment says.
LEMMA SelectionAsDocumented ==
  ASSUME BalancerOK, BInv, NEW candidates
  PROVE  Bal!LeastLoadChoice(candidates) = Bal!Documented(Bal!Qualified(candidates))
  <1> DEFINE Q == Bal!Qualified(candidates)
             nodes == Bal!getNodes(candidates)
             n == Cardinality(Q)
             bs == setting.baselines
             e == Bal!Max({setting.expected, 1})
             count == Bal!CountBelow(nodes, e)
             Size(i) == Cardinality(Bal!Below(Q, bs[i]))
             matching == {i \in DOMAIN bs : Bal!Cardinality(Bal!Below(Q, bs[i])) >= e}
             First(m) == Size(m) >= e /\ \A i \in 1..(m - 1) : Size(i) < e
  <1>1. /\ Q \in SUBSET DOMAIN results
        /\ nodes \in Seq(Q) /\ Len(nodes) = n
        /\ \A k \in 1..n : Bal!Rank(nodes[k], Q) = k - 1
    BY NodesSorted
  <1>2. /\ Bal!LeastLoadChoice(candidates) = Bal!Range(Bal!selectLeastLoad(nodes))
        /\ Bal!selectLeastLoad(nodes) =
              IF nodes = <<>> \/ setting.expected > Len(nodes) THEN nodes
              ELSE IF bs = <<>> THEN SubSeq(nodes, 1, e)
              ELSE IF setting.expected > 0 /\ count < e THEN SubSeq(nodes, 1, e)
              ELSE SubSeq(nodes, 1, count)
    BY DEF Bal!LeastLoadChoice, Bal!selectLeastLoad
  <1>3. Bal!Documented(Q) =
              IF bs = <<>> THEN Bal!Best(Q, e)
              ELSE IF matching # {} THEN Bal!Below(Q, bs[Bal!Min(matching)])
              ELSE IF setting.expected > 0 THEN Bal!Best(Q, e)
              ELSE {}
    BY DEF Bal!Documented
  <1> SUFFICES Bal!LeastLoadChoice(candidates) = Bal!Documented(Q)
    OBVIOUS
  <1> HIDE DEF Q, nodes
  <1>4. n \in Nat /\ IsFiniteSet(Q) /\ \A t \in Q : Bal!Rank(t, Q) \in 0..(n - 1)
    BY <1>1, NodeRanks
  <1>5. setting.expected \in Int /\ bs \in Seq(Int) /\ Len(bs) \in Nat
    BY DEF BInv, BalancerOK
  <1>6. /\ e \in Nat \ {0} /\ e >= setting.expected
        /\ (e = 1 \/ e = setting.expected) /\ (e = 1 \/ setting.expected > 0)
    <2> DEFINE T == {setting.expected, 1}
    <2>0. /\ T \in SUBSET Int /\ setting.expected \in T
          /\ 1 \in T /\ \A k \in T : k = setting.expected \/ k = 1
      BY <1>5
    <2> HIDE DEF T
    <2>1. CASE setting.expected >= 1
      <3>1. e = setting.expected
        <4>1. \A k \in T : setting.expected >= k
          BY <1>5, <2>0, <2>1
        <4> QED
          BY <2>0, <4>1, MaxIs DEF T
      <3> QED
        BY <1>5, <2>1, <3>1
    <2>2. CASE ~(setting.expected >= 1)
      <3>1. e = 1
        <4>1. \A k \in T : 1 >= k
          BY <1>5, <2>0, <2>2
        <4> QED
          BY <2>0, <4>1, MaxIs DEF T
      <3> QED
        BY <1>5, <2>2, <3>1
    <2> QED
      BY <2>1, <2>2
  <1> HIDE DEF e
  <1>7. \A m \in 0..n : Bal!Range(SubSeq(nodes, 1, m)) = Bal!Best(Q, m)
    BY <1>1, PrefixIsBest DEF n
  <1>8. /\ count \in 0..n
        /\ (\A i \in 1..Len(bs) : Size(i) < e) => count < e
        /\ \A m \in 1..Len(bs) : First(m) => count = Size(m)
    BY <1>1, <1>6, LoopCounts DEF n
  <1> HIDE DEF count
  <1>9. \A i \in 1..Len(bs) : /\ Size(i) \in 0..n
                              /\ Bal!Below(Q, bs[i]) = Bal!Best(Q, Size(i))
    <2>1. \A i \in 1..Len(bs) : bs[i] \in Int
      BY <1>5
    <2> QED
      BY <1>1, <2>1, BelowIsBest DEF n
  <1>10. matching = {i \in 1..Len(bs) : Size(i) >= e}
    BY <1>5, BalancerCardinality
  <1> HIDE DEF matching, Size, bs, n
  <1>11. ASSUME NEW m \in Nat, m >= n PROVE Bal!Best(Q, m) = Q
    <2>1. \A t \in Q : Bal!Rank(t, Q) < m
      BY <1>4, <1>11
    <2> QED
      BY <2>1 DEF Bal!Best
  <1>12. CASE nodes = <<>> \/ setting.expected > Len(nodes)
    <2>1. n = 0 \/ setting.expected > n
      BY <1>1, <1>12
    <2>2. e >= n
      BY <1>4, <1>5, <1>6, <2>1
    <2>3. Bal!LeastLoadChoice(candidates) = Q
      <3>1. SubSeq(nodes, 1, n) = nodes
        BY <1>1, <1>4
      <3>2. Bal!Range(nodes) = Bal!Best(Q, n)
        <4>1. n \in 0..n
          BY <1>4
        <4> QED
          BY <1>7, <3>1, <4>1
      <3>3. Bal!Range(nodes) = Q
        BY <1>4, <1>11, <3>2
      <3> QED
        BY <1>2, <1>12, <3>3
    <2>4. Bal!Best(Q, e) = Q
      BY <1>6, <1>11, <2>2
    <2>5. CASE n = 0
      <3>1. Q = {}
        BY <1>4, <2>5, FS_EmptySet DEF n
      <3>2. Bal!Best(Q, e) = {} /\ \A b : Bal!Below(Q, b) = {}
        BY <3>1 DEF Bal!Best, Bal!Below
      <3> QED
        BY <1>3, <2>3, <3>1, <3>2
    <2>6. CASE n # 0
      <3>1. setting.expected > n
        BY <2>1, <2>6
      <3>2. e > n /\ setting.expected > 0
        BY <1>4, <1>5, <1>6, <3>1
      <3>3. matching = {}
        BY <1>4, <1>6, <1>9, <1>10, <3>2
      <3> QED
        BY <1>3, <2>3, <2>4, <3>2, <3>3
    <2> QED
      BY <2>5, <2>6
  <1>13. CASE ~(nodes = <<>> \/ setting.expected > Len(nodes))
    <2>1. n # 0 /\ ~(setting.expected > n)
      BY <1>1, <1>4, <1>13
    <2>2. e \in 0..n
      BY <1>4, <1>5, <1>6, <2>1
    <2>3. Bal!Range(SubSeq(nodes, 1, e)) = Bal!Best(Q, e)
      BY <1>7, <2>2
    <2>4. Bal!Range(SubSeq(nodes, 1, count)) = Bal!Best(Q, count)
      BY <1>7, <1>8
    <2>5. CASE bs = <<>>
      BY <1>2, <1>3, <1>13, <2>3, <2>5
    <2>6. CASE bs # <<>> /\ matching = {}
      <3>1. \A i \in 1..Len(bs) : Size(i) < e
        BY <1>4, <1>6, <1>9, <1>10, <2>6
      <3>2. count < e
        BY <1>8, <3>1
      <3>3. CASE setting.expected > 0
        BY <1>2, <1>3, <1>13, <2>3, <2>6, <3>2, <3>3
      <3>4. CASE ~(setting.expected > 0)
        <4>1. count = 0
          BY <1>4, <1>6, <1>8, <3>2, <3>4
        <4>2. Bal!Best(Q, 0) = {}
          <5>1. \A t \in Q : ~(Bal!Rank(t, Q) < 0)
            BY <1>4
          <5> QED
            BY <5>1 DEF Bal!Best
        <4> QED
          BY <1>2, <1>3, <1>13, <2>4, <2>6, <3>4, <4>1, <4>2
      <3> QED
        BY <3>3, <3>4
    <2>7. CASE bs # <<>> /\ matching # {}
      <3>1. PICK m \in matching : \A k \in matching : m <= k
        <4>1. matching \in SUBSET Nat
          BY <1>5, <1>10
        <4> QED
          BY <2>7, <4>1, LeastNumber
      <3>2. Bal!Min(matching) = m
        <4>1. matching \in SUBSET Int
          BY <1>10
        <4> QED
          BY <3>1, <4>1, MinIs
      <3>3. m \in 1..Len(bs) /\ Size(m) >= e
        BY <1>10
      <3>4. ASSUME NEW i \in 1..(m - 1) PROVE Size(i) < e
        <4>1. i \in 1..Len(bs) /\ ~(m <= i)
          BY <1>5, <3>3
        <4>2. ~(Size(i) >= e)
          BY <1>10, <3>1, <4>1
        <4> QED
          BY <1>4, <1>6, <1>9, <4>1, <4>2
      <3>5. count = Size(m)
        BY <1>8, <3>3, <3>4
      <3>6. ~(count < e)
        BY <1>4, <1>6, <1>9, <3>3, <3>5
      <3>7. Bal!LeastLoadChoice(candidates) = Bal!Best(Q, Size(m))
        BY <1>2, <1>13, <2>4, <2>7, <3>5, <3>6
      <3>8. Bal!Documented(Q) = Bal!Best(Q, Size(m))
        BY <1>3, <1>9, <2>7, <3>2, <3>3
      <3> QED
        BY <3>7, <3>8
    <2> QED
      BY <2>5, <2>6, <2>7
  <1> QED
    BY <1>12, <1>13

LEMMA BalancerStep == BalancerOK /\ BInv /\ [Bal!Next]_(Bal!vars) => BInv'
  <1> SUFFICES ASSUME BalancerOK, BInv, [Bal!Next]_(Bal!vars) PROVE BInv'
    OBVIOUS
  <1> DEFINE R == RTTs \cup {Bal!rttFailed}
  <1>0. /\ setting \in Settings /\ DOMAIN results \subseteq Selected
        /\ results \in [DOMAIN results -> Seq(R)]
    BY DEF BInv, Ring
  <1>1. setting' = setting
    BY DEF Bal!Next, Bal!vars, Bal!AddHandler, Bal!RemoveHandler, Bal!OverrideBalancer, Bal!PutResult,
           Bal!Expire, Bal!Forget, Bal!SelectOutbounds, Bal!PickOutbound, Bal!Dispatch
  <1>2. CASE results' = results
    BY <1>1, <1>2 DEF BInv, Ring, Bal!rttFailed, Bal!Max
  <1>3. ASSUME DOMAIN results' \subseteq Selected, results' \in [DOMAIN results' -> Seq(R)]
        PROVE  BInv'
    BY <1>0, <1>1, <1>3 DEF BInv, Ring, Bal!rttFailed, Bal!Max
  <1> HIDE DEF R
  <1>4. ASSUME NEW t \in Selected, NEW rtt \in R, Bal!PutResult(t, rtt) PROVE BInv'
    <2> DEFINE old == IF t \in DOMAIN results THEN results[t] ELSE <<>>
    <2>1. old \in Seq(R)
      BY <1>0
    <2> HIDE DEF old
    <2>2. Bal!Put(old, rtt) \in Seq(R)
      <3>1. Append(old, rtt) \in Seq(R)
        BY <2>1
      <3>2. CASE Len(old) = SamplingCount
        <4>1. old # <<>>
          BY <2>1, <3>2 DEF BalancerOK
        <4>2. Tail(old) \in Seq(R)
          BY <2>1, <4>1
        <4> QED
          BY <3>2, <4>2 DEF Bal!Put
      <3> QED
        BY <3>1, <3>2 DEF Bal!Put
    <2>3. results' = [u \in DOMAIN results \cup {t} |->
                        IF u # t THEN results[u] ELSE Bal!Put(old, rtt)]
      BY <1>4 DEF Bal!PutResult, old
    <2>4. \A u \in DOMAIN results \cup {t} : u # t => results[u] \in Seq(R)
      BY <1>0
    <2>5. results' \in [DOMAIN results \cup {t} -> Seq(R)]
      BY <2>2, <2>3, <2>4
    <2>6. DOMAIN results' = DOMAIN results \cup {t}
      BY <2>5
    <2> QED
      BY <1>0, <1>3, <2>5, <2>6
  <1>5. ASSUME NEW t \in Selected, Bal!Expire(t) PROVE BInv'
    <2>1. /\ t \in DOMAIN results /\ results[t] # <<>>
          /\ results' = [results EXCEPT ![t] = Tail(results[t])]
      BY <1>5 DEF Bal!Expire
    <2>2. Tail(results[t]) \in Seq(R)
      BY <1>0, <2>1
    <2>3. DOMAIN results' = DOMAIN results /\ results' \in [DOMAIN results -> Seq(R)]
      BY <1>0, <2>1, <2>2
    <2> QED
      BY <1>0, <1>3, <2>3
  <1>6. ASSUME NEW t \in Selected, Bal!Forget(t) PROVE BInv'
    <2>1. results' = [u \in DOMAIN results \ {t} |-> results[u]]
      BY <1>6 DEF Bal!Forget
    <2>2. DOMAIN results' = DOMAIN results \ {t} /\ results' \in [DOMAIN results \ {t} -> Seq(R)]
      BY <1>0, <2>1
    <2> QED
      BY <1>0, <1>3, <2>2
  <1>7. CASE UNCHANGED Bal!vars
    BY <1>2, <1>7 DEF Bal!vars
  <1>8. CASE Bal!Next
    <2>1. \/ results' = results
          \/ \E t \in Selected, rtt \in R : Bal!PutResult(t, rtt)
          \/ \E t \in Selected : Bal!Expire(t) \/ Bal!Forget(t)
      BY <1>8 DEF Bal!Next, Bal!AddHandler, Bal!RemoveHandler, Bal!OverrideBalancer,
           Bal!SelectOutbounds, Bal!PickOutbound, Bal!Dispatch, R
    <2> QED
      BY <1>2, <1>4, <1>5, <1>6, <2>1
  <1> QED
    BY <1>7, <1>8

\* The nodes that least load selects are those that its comment promises: the expected number
\* of best ones, or all below the first baseline that enough of them meet, or none.  It holds
\* for any number of outbounds, any results and any baselines, also in no order.
THEOREM LeastLoad == Bal!Spec => []LeastLoadAsDocumented
  <1>1. Bal!Init => BInv
    BY DEF Bal!Init, BInv
  <1>2. BalancerOK
    BY RoutesAssumption
  <1>3. BalancerOK /\ BInv => LeastLoadAsDocumented
    BY SelectionAsDocumented DEF LeastLoadAsDocumented, Bal!LeastLoadAsDocumented
  <1> QED
    BY <1>1, <1>2, <1>3, BalancerStep, PTL DEF Bal!Spec

=============================================================================
