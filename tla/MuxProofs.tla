----------------------------- MODULE MuxProofs ------------------------------
(***************************************************************************)
(* One mux connection for any number of sessions and any sizes: what the   *)
(* tables of sessions know, what arrives of what was sent, and that a      *)
(* session ends when everything has.                                       *)
(***************************************************************************)
EXTENDS Mux, FiniteSetTheorems, TLAPS

CallerPcs == {"idle", "refused", "checked", "allocated", "dispatched"}
CopierPcs == {"none", "first", "sendnew", "copy", "sendkeep", "end", "close", "gone"}
LoopPcs == {"read", "write", "reply", "replyclose", "gone"}
PipeStates == {"open", "closed", "errored"}

Datas == {NoData} \cup (Sides \X Nat \X Nat)
Frames == [id : Nat, status : {"none", "new", "keep", "end"}, data : Datas, err : BOOLEAN]
Callings == [pc : CallerPcs, id : Nat]
Managers == [count : Nat, closed : BOOLEAN, sessions : SUBSET Nat]
LoopRec == [pc : LoopPcs, f : Frames]
Inputs == [sent : Nat, taken : Nat, st : PipeStates]
Outputs == [got : Seq(Datas), read : Nat, st : PipeStates]
Links == [q : Seq(Frames), st : PipeStates]

MType ==
  /\ caller \in [Callers -> Callings]
  /\ sm \in [Sides -> Managers]
  /\ done \in BOOLEAN
  /\ monitor \in {"wait", "sized", "links", "gone"}
  /\ copier \in [Sides -> [Ids -> CopierPcs]]
  /\ hasError \in [Sides -> [Ids -> BOOLEAN]]
  /\ loop \in [Sides -> LoopRec]
  /\ inp \in [Sides -> [Ids -> Inputs]]
  /\ out \in [Sides -> [Ids -> Outputs]]
  /\ link \in [Sides -> Links]

\* Every session belongs to one call of Dispatch; ids are given out in order.
MCallers ==
  /\ sm["client"].count = Cardinality({c \in Callers : caller[c].id # 0})
  /\ \A c \in Callers :
       /\ caller[c].pc \in {"allocated", "dispatched"} <=> caller[c].id # 0
       /\ caller[c].id <= sm["client"].count
       /\ \A d \in Callers : caller[c].id # 0 /\ caller[c].id = caller[d].id => c = d
       /\ caller[c].pc = "allocated" =>
             /\ copier["client"][caller[c].id] = "none"
             /\ ~sm["client"].closed => caller[c].id \in sm["client"].sessions
       /\ caller[c].pc = "dispatched" => copier["client"][caller[c].id] # "none"
  /\ \A i \in Ids : copier["client"][i] # "none" => \E c \in Callers : caller[c].id = i

\* What the two tables know.
MKnown ==
  /\ \A s \in Sides, i \in Ids :
        copier[s][i] # "none" /\ out[s][i].st = "open" /\ ~sm[s].closed => i \in sm[s].sessions
  /\ sm["client"].closed => done
  /\ sm["server"].closed <=> loop["server"].pc = "gone"
  /\ \A i \in Ids : copier["server"][i] # "none" /\ sm["server"].closed => out["server"][i].st # "open"

\* The session of a frame has its link at the client.
Linked(i) == i \in Ids /\ copier["client"][i] # "none"
Holds(s) == loop[s].pc \in {"write", "reply", "replyclose"}

HasData(f) == f.data # NoData
Num(f) == f.data[3]
IsChunk(f, s) == HasData(f) => Num(f) \in Nat \ {0} /\ f.data = Chunk(s, f.id, Num(f))

MFrames ==
  /\ \A s \in Sides : \A k \in 1..Len(link[s].q) :
        /\ Linked(link[s].q[k].id)
        /\ IsChunk(link[s].q[k], s)
        /\ link[s].q[k].status = "keep" => HasData(link[s].q[k])
        /\ link[s].q[k].status = "end" => ~HasData(link[s].q[k])
        /\ link[s].q[k].status # "none"
  /\ \A s \in Sides : Holds(s) => /\ Linked(loop[s].f.id)
                                  /\ loop[s].pc # "reply" => copier[s][loop[s].f.id] # "none"

\* How far the goroutines of a session are.
MCopiers ==
  \A i \in Ids :
        /\ copier["server"][i] \notin {"first", "sendnew"}
        /\ copier["server"][i] # "none" => copier["client"][i] \notin {"none", "first", "sendnew"}
        /\ copier["client"][i] \in {"none", "first"} => inp["client"][i].taken = 0
        /\ copier["client"][i] = "sendnew" => inp["client"][i].taken \in {0, 1}
        /\ copier["server"][i] = "none" => inp["server"][i].taken = 0
        /\ \A s \in Sides : copier[s][i] = "sendkeep" => inp[s][i].taken # 0

\* The first frame of a session at the server is its New frame.
IsNew(f, i) == f.status = "new" /\ f.id = i
MNew ==
  \A i \in Ids : LET q == link["client"].q IN
     /\ \A k \in 1..Len(q) : IsNew(q[k], i) => /\ copier["server"][i] = "none"
                                               /\ copier["client"][i] \notin {"none", "first", "sendnew"}
     /\ \A k, l \in 1..Len(q) : IsNew(q[k], i) /\ IsNew(q[l], i) => k = l
     /\ copier["server"][i] = "none" /\ loop["server"].pc # "gone" =>
           /\ \A k \in 1..Len(q) : q[k].status = "keep" /\ q[k].id = i => \E l \in 1..(k - 1) : IsNew(q[l], i)
           /\ link["client"].st = "open" /\ copier["client"][i] \in {"copy", "sendkeep"}
                => \E l \in 1..Len(q) : IsNew(q[l], i)

\* The chunks of session i in a link.
DataOf(f, i) == f.id = i /\ HasData(f)
Ordered(q, i, sent) ==
  /\ \A k \in 1..Len(q) : DataOf(q[k], i) => Num(q[k]) \in Nat /\ Num(q[k]) <= sent
  /\ \A k, l \in 1..Len(q) : k < l /\ DataOf(q[k], i) /\ DataOf(q[l], i) => Num(q[k]) < Num(q[l])
Gapless(q, i, base) ==
  \A k \in 1..Len(q) : DataOf(q[k], i) =>
     /\ base < Num(q[k])
     /\ \A m \in Nat : base < m /\ m < Num(q[k]) =>
           \E l \in 1..(k - 1) : DataOf(q[l], i) /\ Num(q[l]) = m
Complete(q, i, base, sent) ==
  \A m \in Nat : base < m /\ m <= sent => \E l \in 1..Len(q) : DataOf(q[l], i) /\ Num(q[l]) = m

\* Chunks of session i that side s has written to its link, or tried to.
Sent(s, i) == IF copier[s][i] \in {"sendnew", "sendkeep"} /\ inp[s][i].taken > 0
              THEN inp[s][i].taken - 1 ELSE inp[s][i].taken
\* Chunks that the loop of side s has taken for it.
Base(s, i) == IF loop[s].pc = "write" /\ loop[s].f.id = i
              THEN Len(out[s][i].got) + 1 ELSE Len(out[s][i].got)
\* Side s can still be given something in session i.
Live(s, i) == loop[s].pc # "gone" /\ out[s][i].st = "open" /\ (Found(s, i) \/ copier[s][i] = "none")

Carry(s, i) ==
  LET q == link[s].q p == Peer(s) IN
  /\ Ordered(q, i, Sent(s, i))
  /\ Live(p, i) => Gapless(q, i, Base(p, i)) /\ Base(p, i) <= Sent(s, i)
  /\ Live(p, i) /\ link[s].st = "open" => Complete(q, i, Base(p, i), Sent(s, i))
Given(s, i) ==
  LET got == out[Peer(s)][i].got IN
  /\ got = [n \in 1..Len(got) |-> Chunk(s, i, n)]
  /\ Len(got) <= Sent(s, i)
MData == \A s \in Sides, i \in Ids : Carry(s, i) /\ Given(s, i)

\* The chunk in the hands of a loop is the next one, if its output still takes it.
Handing(s) ==
  loop[s].pc = "write" /\ out[s][loop[s].f.id].st = "open" =>
     LET i == loop[s].f.id n == Len(out[s][i].got) + 1 IN
     Found(s, i) /\ loop[s].f.data = Chunk(Peer(s), i, n) /\ n <= Sent(Peer(s), i)
MHand == \A s \in Sides : Handing(s)

MInv == MType /\ MCallers /\ MKnown /\ MFrames /\ MCopiers /\ MNew /\ MData /\ MHand

-----------------------------------------------------------------------------
(* Links as sequences of frames. *)

\* Nothing is appended.
From(r, q) == r = q \/ r = <<>> \/ (q # <<>> /\ r = Tail(q))

LEMMA TailFacts ==
  ASSUME NEW q \in Seq(Frames), q # <<>>
  PROVE  /\ Tail(q) \in Seq(Frames) /\ Len(Tail(q)) = Len(q) - 1 /\ Len(q) \in Nat \ {0}
         /\ \A k \in 1..Len(Tail(q)) : Tail(q)[k] = q[k + 1] /\ k + 1 \in 1..Len(q)
         /\ Head(q) = q[1] /\ 1 \in 1..Len(q) /\ q[1] \in Frames
OBVIOUS

LEMMA AppendFacts ==
  ASSUME NEW q \in Seq(Frames), NEW f \in Frames
  PROVE  /\ Append(q, f) \in Seq(Frames) /\ Len(Append(q, f)) = Len(q) + 1 /\ Len(q) \in Nat
         /\ \A k \in 1..Len(q) : Append(q, f)[k] = q[k]
         /\ Append(q, f)[Len(q) + 1] = f
         /\ \A k \in 1..(Len(q) + 1) : k \in 1..Len(q) \/ k = Len(q) + 1
OBVIOUS

LEMMA FrameType ==
  ASSUME NEW i \in Nat, NEW x \in {"none", "new", "keep", "end"}, NEW d \in Datas, NEW e \in BOOLEAN
  PROVE  Frame(i, x, d, e) \in Frames
<1>1. \A B : e \in B => Frame(i, x, d, e) \in [id : Nat, status : {"none", "new", "keep", "end"}, data : Datas, err : B]
  BY DEF Frame
<1> QED BY <1>1, Zenon DEF Frames

LEMMA LoopType ==
  \A pc \in LoopPcs : /\ NoFrame \in Frames
                      /\ \A f \in Frames : [pc |-> pc, f |-> f] \in LoopRec
                      /\ [pc |-> pc, f |-> NoFrame] \in LoopRec
                      /\ [pc |-> pc, f |-> NoFrame].pc = pc
<1>1. NoData \in Datas /\ FALSE \in BOOLEAN /\ 0 \in Nat BY DEF Datas
<1>2. NoFrame \in Frames BY <1>1, FrameType DEF NoFrame
<1> QED BY <1>2 DEF LoopRec

LEMMA EndFrame ==
  ASSUME NEW s \in Sides, NEW i \in Nat, NEW e \in BOOLEAN
  PROVE  LET f == Frame(i, "end", NoData, e) IN
         f \in Frames /\ f.id = i /\ f.status = "end" /\ ~HasData(f) /\ IsChunk(f, s)
<1>1. Frame(i, "end", NoData, e) \in Frames BY FrameType DEF Datas
<1> QED BY <1>1 DEF Frame, HasData, IsChunk

LEMMA FromFrames ==
  \A q \in Seq(Frames) : \A r : From(r, q) =>
     /\ r \in Seq(Frames)
     /\ \A k \in 1..Len(r) : \E l \in 1..Len(q) : r[k] = q[l]
<1> SUFFICES ASSUME NEW q \in Seq(Frames), NEW r, From(r, q)
             PROVE  /\ r \in Seq(Frames)
                    /\ \A k \in 1..Len(r) : \E l \in 1..Len(q) : r[k] = q[l]
  OBVIOUS
<1>1. CASE r = q BY <1>1
<1>2. CASE r = <<>> BY <1>2
<1>3. CASE q # <<>> /\ r = Tail(q) BY <1>3, TailFacts
<1> QED BY <1>1, <1>2, <1>3 DEF From

LEMMA FromOrdered ==
  ASSUME NEW q \in Seq(Frames), NEW r, From(r, q), NEW i, NEW m \in Nat, NEW n \in Nat, m <= n, Ordered(q, i, m)
  PROVE  Ordered(r, i, n)
<1>1. CASE r = q BY <1>1 DEF Ordered
<1>2. CASE r = <<>> BY <1>2 DEF Ordered
<1>3. CASE q # <<>> /\ r = Tail(q)
  <2>1. /\ Len(r) = Len(q) - 1 /\ Len(q) \in Nat \ {0}
        /\ \A k \in 1..Len(r) : r[k] = q[k + 1] /\ k + 1 \in 1..Len(q)
    BY <1>3, TailFacts
  <2>2. ASSUME NEW k \in 1..Len(r), DataOf(r[k], i) PROVE Num(r[k]) \in Nat /\ Num(r[k]) <= n
    BY <2>1, <2>2 DEF Ordered
  <2>3. ASSUME NEW k \in 1..Len(r), NEW l \in 1..Len(r), k < l, DataOf(r[k], i), DataOf(r[l], i)
        PROVE  Num(r[k]) < Num(r[l])
    BY SMTT(30), <2>1, <2>3 DEF Ordered
  <2> QED BY <2>2, <2>3 DEF Ordered
<1> QED BY <1>1, <1>2, <1>3 DEF From

LEMMA TakeOther ==
  ASSUME NEW q \in Seq(Frames), q # <<>>, NEW i, NEW b \in Nat, NEW n \in Nat, ~DataOf(Head(q), i)
  PROVE  /\ Gapless(q, i, b) => Gapless(Tail(q), i, b)
         /\ Complete(q, i, b, n) => Complete(Tail(q), i, b, n)
<1> DEFINE r == Tail(q)
<1>1. /\ Len(r) = Len(q) - 1 /\ Len(q) \in Nat \ {0}
      /\ \A k \in 1..Len(r) : r[k] = q[k + 1] /\ k + 1 \in 1..Len(q)
      /\ ~DataOf(q[1], i)
  BY TailFacts
<1>2. \A l \in 1..Len(q) : DataOf(q[l], i) => l - 1 \in 1..Len(r) /\ r[l - 1] = q[l]
  <2> HIDE DEF r
  <2> QED BY <1>1
<1> HIDE DEF r
<1>3. ASSUME Gapless(q, i, b) PROVE Gapless(r, i, b)
  <2> SUFFICES ASSUME NEW k \in 1..Len(r), DataOf(r[k], i)
               PROVE  /\ b < Num(r[k])
                      /\ \A m \in Nat : b < m /\ m < Num(r[k]) =>
                            \E l \in 1..(k - 1) : DataOf(r[l], i) /\ Num(r[l]) = m
    BY DEF Gapless
  <2>1. b < Num(r[k]) BY <1>1, <1>3 DEF Gapless
  <2>2. ASSUME NEW m \in Nat, b < m, m < Num(r[k])
        PROVE  \E l \in 1..(k - 1) : DataOf(r[l], i) /\ Num(r[l]) = m
    <3>1. PICK l \in 1..k : DataOf(q[l], i) /\ Num(q[l]) = m
      <4>1. r[k] = q[k + 1] /\ k + 1 \in 1..Len(q) /\ (k + 1) - 1 = k BY <1>1
      <4> QED BY <1>3, <2>2, <4>1 DEF Gapless
    <3>2. l \in 1..Len(q) BY <1>1
    <3>3. l - 1 \in 1..(k - 1) /\ r[l - 1] = q[l] BY <1>1, <1>2, <3>1, <3>2
    <3> QED BY <3>1, <3>3
  <2> QED BY <2>1, <2>2
<1>4. ASSUME Complete(q, i, b, n) PROVE Complete(r, i, b, n)
  <2> SUFFICES ASSUME NEW m \in Nat, b < m, m <= n
               PROVE  \E l \in 1..Len(r) : DataOf(r[l], i) /\ Num(r[l]) = m
    BY DEF Complete
  <2>1. PICK l \in 1..Len(q) : DataOf(q[l], i) /\ Num(q[l]) = m BY <1>4 DEF Complete
  <2> QED BY <1>2, <2>1
<1> QED BY <1>3, <1>4 DEF r

\* The first chunk of a session is the next one.
LEMMA TakeNext ==
  ASSUME NEW q \in Seq(Frames), q # <<>>, NEW i, NEW b \in Nat, NEW n \in Nat,
         DataOf(Head(q), i), Ordered(q, i, n), Gapless(q, i, b)
  PROVE  /\ Num(Head(q)) = b + 1 /\ b + 1 <= n
         /\ Gapless(Tail(q), i, b + 1)
         /\ Complete(q, i, b, n) => Complete(Tail(q), i, b + 1, n)
<1> DEFINE r == Tail(q)
<1>1. /\ Len(r) = Len(q) - 1 /\ Len(q) \in Nat \ {0}
      /\ \A k \in 1..Len(r) : r[k] = q[k + 1] /\ k + 1 \in 1..Len(q)
      /\ DataOf(q[1], i) /\ Head(q) = q[1] /\ 1 \in 1..Len(q)
  BY TailFacts
<1>2. \A l \in 1..Len(q) : l # 1 => l - 1 \in 1..Len(r) /\ r[l - 1] = q[l]
  <2> HIDE DEF r
  <2> QED BY <1>1
<1> HIDE DEF r
<1>3. Num(q[1]) \in Nat /\ Num(q[1]) <= n /\ b < Num(q[1]) BY <1>1 DEF Ordered, Gapless
<1>4. Num(q[1]) = b + 1
  <2>1. ~ (b + 1 < Num(q[1]))
    <3> SUFFICES ASSUME b + 1 < Num(q[1]) PROVE FALSE OBVIOUS
    <3>1. \E l \in 1..(1 - 1) : DataOf(q[l], i) BY <1>1, <1>3 DEF Gapless
    <3> QED BY <3>1
  <2> QED BY <1>3, <2>1
<1>5. \A l \in 2..Len(q) : DataOf(q[l], i) => b + 1 < Num(q[l]) /\ Num(q[l]) \in Nat
  BY <1>1, <1>4 DEF Ordered
<1>6. Gapless(r, i, b + 1)
  <2> SUFFICES ASSUME NEW k \in 1..Len(r), DataOf(r[k], i)
               PROVE  /\ b + 1 < Num(r[k])
                      /\ \A m \in Nat : b + 1 < m /\ m < Num(r[k]) =>
                            \E l \in 1..(k - 1) : DataOf(r[l], i) /\ Num(r[l]) = m
    BY DEF Gapless
  <2>0. r[k] = q[k + 1] /\ k + 1 \in 2..Len(q) /\ k + 1 \in 1..Len(q) /\ (k + 1) - 1 = k BY <1>1
  <2>1. b + 1 < Num(r[k]) BY <1>5, <2>0
  <2>2. ASSUME NEW m \in Nat, b + 1 < m, m < Num(r[k])
        PROVE  \E l \in 1..(k - 1) : DataOf(r[l], i) /\ Num(r[l]) = m
    <3>0. b < m BY <2>2
    <3>1. PICK l \in 1..k : DataOf(q[l], i) /\ Num(q[l]) = m BY <2>0, <2>2, <3>0 DEF Gapless
    <3>2. l \in 1..Len(q) /\ l # 1 BY <1>1, <1>4, <2>2, <3>1
    <3>3. l - 1 \in 1..(k - 1) /\ r[l - 1] = q[l] BY <1>2, <3>2
    <3> QED BY <3>1, <3>3
  <2> QED BY <2>1, <2>2
<1>7. ASSUME Complete(q, i, b, n) PROVE Complete(r, i, b + 1, n)
  <2> SUFFICES ASSUME NEW m \in Nat, b + 1 < m, m <= n
               PROVE  \E l \in 1..Len(r) : DataOf(r[l], i) /\ Num(r[l]) = m
    BY DEF Complete
  <2>0. b < m OBVIOUS
  <2>1. PICK l \in 1..Len(q) : DataOf(q[l], i) /\ Num(q[l]) = m BY <1>7, <2>0 DEF Complete
  <2>2. l # 1 BY <1>4, <2>1
  <2> QED BY <1>2, <2>1, <2>2
<1> QED BY <1>1, <1>3, <1>4, <1>6, <1>7 DEF r

LEMMA PutOther ==
  ASSUME NEW q \in Seq(Frames), NEW f \in Frames, NEW i, NEW b \in Nat, NEW n \in Nat, ~DataOf(f, i)
  PROVE  /\ Ordered(q, i, n) => Ordered(Append(q, f), i, n)
         /\ Gapless(q, i, b) => Gapless(Append(q, f), i, b)
         /\ Complete(q, i, b, n) => Complete(Append(q, f), i, b, n)
<1> DEFINE r == Append(q, f)
<1>1. /\ Len(r) = Len(q) + 1 /\ Len(q) \in Nat
      /\ \A k \in 1..Len(q) : r[k] = q[k]
      /\ \A k \in 1..Len(r) : k \in 1..Len(q) \/ k = Len(q) + 1
      /\ r[Len(q) + 1] = f
  BY AppendFacts
<1> HIDE DEF r
<1>2. \A k \in 1..Len(r) : DataOf(r[k], i) => k \in 1..Len(q) BY <1>1
<1>3. \A k \in 1..Len(q) : k \in 1..Len(r) /\ 1..(k - 1) \subseteq 1..Len(q) BY <1>1
<1>4. ASSUME Ordered(q, i, n) PROVE Ordered(r, i, n) BY <1>1, <1>2, <1>4 DEF Ordered
<1>5. ASSUME Gapless(q, i, b) PROVE Gapless(r, i, b)
  <2> SUFFICES ASSUME NEW k \in 1..Len(r), DataOf(r[k], i)
               PROVE  /\ b < Num(r[k])
                      /\ \A m \in Nat : b < m /\ m < Num(r[k]) =>
                            \E l \in 1..(k - 1) : DataOf(r[l], i) /\ Num(r[l]) = m
    BY DEF Gapless
  <2>1. k \in 1..Len(q) /\ r[k] = q[k] BY <1>1, <1>2
  <2>2. \A l \in 1..(k - 1) : r[l] = q[l] BY <1>1, <1>3, <2>1
  <2> QED BY <1>5, <2>1, <2>2 DEF Gapless
<1>6. ASSUME Complete(q, i, b, n) PROVE Complete(r, i, b, n)
  BY <1>1, <1>3, <1>6 DEF Complete
<1> QED BY <1>4, <1>5, <1>6 DEF r

LEMMA PutNext ==
  ASSUME NEW q \in Seq(Frames), NEW f \in Frames, NEW i, NEW n \in Nat,
         DataOf(f, i), Num(f) = n + 1, Ordered(q, i, n)
  PROVE  /\ Ordered(Append(q, f), i, n + 1)
         /\ \A b \in Nat : b <= n /\ Gapless(q, i, b) /\ Complete(q, i, b, n) =>
               Gapless(Append(q, f), i, b) /\ Complete(Append(q, f), i, b, n + 1)
<1> DEFINE r == Append(q, f)
<1>1. /\ Len(r) = Len(q) + 1 /\ Len(q) \in Nat
      /\ \A k \in 1..Len(q) : r[k] = q[k]
      /\ \A k \in 1..Len(r) : k \in 1..Len(q) \/ k = Len(q) + 1
      /\ r[Len(q) + 1] = f
  BY AppendFacts
<1> HIDE DEF r
<1>3. \A k \in 1..Len(q) : k \in 1..Len(r) /\ 1..(k - 1) \subseteq 1..Len(q) BY <1>1
<1>4. Ordered(r, i, n + 1)
  <2>1. ASSUME NEW k \in 1..Len(r), DataOf(r[k], i) PROVE Num(r[k]) \in Nat /\ Num(r[k]) <= n + 1
    BY <1>1, <2>1 DEF Ordered
  <2>2. ASSUME NEW k \in 1..Len(r), NEW l \in 1..Len(r), k < l, DataOf(r[k], i), DataOf(r[l], i)
        PROVE  Num(r[k]) < Num(r[l])
    <3>1. k \in 1..Len(q) /\ r[k] = q[k] BY <1>1, <2>2
    <3>2. Num(r[k]) <= n /\ Num(r[k]) \in Nat BY <2>2, <3>1 DEF Ordered
    <3>3. CASE l = Len(q) + 1 BY <1>1, <3>2, <3>3
    <3>4. CASE l \in 1..Len(q) BY <1>1, <2>2, <3>1, <3>4 DEF Ordered
    <3> QED BY <1>1, <3>3, <3>4
  <2> QED BY <2>1, <2>2 DEF Ordered
<1>5. ASSUME NEW b \in Nat, b <= n, Gapless(q, i, b), Complete(q, i, b, n)
      PROVE  Gapless(r, i, b) /\ Complete(r, i, b, n + 1)
  <2>1. ASSUME NEW k \in 1..Len(r), DataOf(r[k], i)
        PROVE  b < Num(r[k])
    BY <1>1, <1>5, <2>1 DEF Gapless
  <2>2. ASSUME NEW k \in 1..Len(r), DataOf(r[k], i), NEW m \in Nat, b < m, m < Num(r[k])
        PROVE  \E l \in 1..(k - 1) : DataOf(r[l], i) /\ Num(r[l]) = m
    <3>1. CASE k = Len(q) + 1
      <4>0. m <= n BY <1>1, <2>2, <3>1
      <4>1. PICK l \in 1..Len(q) : DataOf(q[l], i) /\ Num(q[l]) = m BY <1>5, <2>2, <4>0 DEF Complete
      <4>2. k - 1 = Len(q) BY <1>1, <3>1
      <4> QED BY <1>1, <4>1, <4>2
    <3>2. CASE k \in 1..Len(q)
      <4>1. r[k] = q[k] /\ \A l \in 1..(k - 1) : r[l] = q[l] BY <1>1, <1>3, <3>2
      <4> QED BY <1>5, <2>2, <3>2, <4>1 DEF Gapless
    <3> QED BY <1>1, <3>1, <3>2
  <2>3. ASSUME NEW m \in Nat, b < m, m <= n + 1
        PROVE  \E l \in 1..Len(r) : DataOf(r[l], i) /\ Num(r[l]) = m
    <3>1. CASE m = n + 1 BY <1>1, <3>1
    <3>2. CASE m <= n
      <4>1. PICK l \in 1..Len(q) : DataOf(q[l], i) /\ Num(q[l]) = m BY <1>5, <2>3, <3>2 DEF Complete
      <4> QED BY <1>1, <1>3, <4>1
    <3> QED BY <2>3, <3>1, <3>2
  <2> QED BY <2>1, <2>2, <2>3 DEF Gapless, Complete
<1> QED BY <1>4, <1>5 DEF r

-----------------------------------------------------------------------------
(* What the steps have in common: when each part of the invariant is kept. *)

LEMMA SideFacts ==
  /\ "client" \in Sides /\ "server" \in Sides
  /\ \A s \in Sides : Peer(s) \in Sides /\ Peer(s) # s /\ Peer(Peer(s)) = s
  /\ \A s, t \in Sides : t # s => t = Peer(s)
BY DEF Sides, Peer

LEMMA IdsGiven ==
  ASSUME MInv
  PROVE  /\ sm["client"].count \in Nat /\ sm["client"].count <= Cardinality(Callers)
         /\ Cardinality(Callers) \in Nat
         /\ \A c \in Callers : caller[c].id # 0 => caller[c].id \in Ids
<1> DEFINE S == {c \in Callers : caller[c].id # 0}
<1>1. /\ Cardinality(Callers) \in Nat /\ Cardinality(S) \in Nat
      /\ Cardinality(S) <= Cardinality(Callers)
  <2>1. S \subseteq Callers /\ IsFiniteSet(Callers) BY MuxAssumption
  <2> HIDE DEF S
  <2> QED BY <2>1, FS_Subset, FS_CardinalityType
<1>2. sm["client"].count = Cardinality(S) BY DEF MInv, MCallers
<1>3. \A c \in Callers : caller[c].id \in Nat BY DEF MInv, MType, Callings
<1>4. \A c \in Callers : caller[c].id <= sm["client"].count BY DEF MInv, MCallers
<1> HIDE DEF S
<1> QED BY <1>1, <1>2, <1>3, <1>4 DEF Ids

LEMMA CallersKept ==
  ASSUME MInv, caller' = caller, sm'["client"].count = sm["client"].count,
         sm["client"].closed => sm'["client"].closed,
         \A i \in Ids : (copier'["client"][i] = "none") <=> (copier["client"][i] = "none"),
         \A i \in sm["client"].sessions :
            (i \in Ids => copier["client"][i] = "none") /\ ~sm'["client"].closed => i \in sm'["client"].sessions
  PROVE  MCallers'
<1>1. \A c \in Callers : caller[c].id # 0 => caller[c].id \in Ids
  BY IdsGiven
<1> QED BY <1>1 DEF MInv, MCallers

LEMMA FramesKept ==
  ASSUME MInv,
         \A s \in Sides : From(link'[s].q, link[s].q),
         \A s \in Sides : Holds(s)' => /\ Holds(s) /\ loop'[s].f.id = loop[s].f.id
                                       /\ loop'[s].pc # "reply" => loop[s].pc # "reply",
         \A s \in Sides, i \in Ids : copier[s][i] # "none" => copier'[s][i] # "none"
  PROVE  MFrames'
<1>2. \A s \in Sides : link[s].q \in Seq(Frames) BY DEF MInv, MType, Links
<1>3. ASSUME NEW s \in Sides, NEW k \in 1..Len(link'[s].q)
      PROVE  /\ Linked(link[s].q[k].id)'
             /\ IsChunk(link'[s].q[k], s)
             /\ link'[s].q[k].status = "keep" => HasData(link'[s].q[k])
             /\ link'[s].q[k].status = "end" => ~HasData(link'[s].q[k])
             /\ link'[s].q[k].status # "none"
  <2>0. link[s].q \in Seq(Frames) /\ From(link'[s].q, link[s].q) BY <1>2
  <2>b. \A j \in 1..Len(link'[s].q) : \E l \in 1..Len(link[s].q) : link'[s].q[j] = link[s].q[l]
    <3> DEFINE u == link[s].q
               r == link'[s].q
    <3>0. u \in Seq(Frames) /\ From(r, u) BY <2>0
    <3> HIDE DEF u, r
    <3>1. \A j \in 1..Len(r) : \E l \in 1..Len(u) : r[j] = u[l] BY <3>0, FromFrames
    <3> QED BY <3>1 DEF u, r
  <2>1. PICK l \in 1..Len(link[s].q) : link'[s].q[k] = link[s].q[l] BY <2>b
  <2>2. Linked(link[s].q[l].id) BY DEF MInv, MFrames
  <2>3. Linked(link[s].q[k].id)' BY <2>1, <2>2, SideFacts DEF Linked
  <2> QED BY <2>1, <2>3 DEF MInv, MFrames
<1>4. ASSUME NEW s \in Sides, Holds(s)'
      PROVE  /\ Linked(loop[s].f.id)'
             /\ loop'[s].pc # "reply" => copier'[s][loop'[s].f.id] # "none"
  <2>1. Holds(s) /\ Linked(loop[s].f.id) /\ loop'[s].f.id = loop[s].f.id BY <1>4 DEF MInv, MFrames
  <2>2. Linked(loop[s].f.id)' BY <2>1, SideFacts DEF Linked
  <2>3. loop'[s].pc # "reply" => copier[s][loop[s].f.id] # "none" BY <1>4, <2>1 DEF MInv, MFrames
  <2>4. loop[s].f.id \in Ids BY <2>1 DEF Linked
  <2> QED BY <2>1, <2>2, <2>3, <2>4
<1> QED BY <1>3, <1>4 DEF MFrames

LEMMA NewKept ==
  ASSUME MInv,
         \/ link'["client"].q = link["client"].q
         \/ link'["client"].q = <<>> /\ link'["client"].st # "open"
         \/ From(link'["client"].q, link["client"].q) /\ loop'["server"].pc = "gone",
         link'["client"].st = "open" => link["client"].st = "open",
         \A i \in Ids : copier'["server"][i] = "none" <=> copier["server"][i] = "none",
         \A i \in Ids : copier'["client"][i] \in {"none", "first", "sendnew"}
                          => copier["client"][i] \in {"none", "first", "sendnew"},
         \A i \in Ids : copier'["client"][i] \in {"copy", "sendkeep"}
                          => copier["client"][i] \in {"copy", "sendkeep"},
         loop["server"].pc = "gone" => loop'["server"].pc = "gone"
  PROVE  MNew'
<1>1. CASE link'["client"].q = link["client"].q BY <1>1 DEF MInv, MNew
<1>2. CASE link'["client"].q = <<>> /\ link'["client"].st # "open"
  <2>1. 1..Len(link'["client"].q) = {} BY <1>2
  <2> QED BY <1>2, <2>1 DEF MNew
<1>3. CASE From(link'["client"].q, link["client"].q) /\ loop'["server"].pc = "gone"
  <2> DEFINE q == link["client"].q
             r == link'["client"].q
  <2>0. q \in Seq(Frames) /\ From(r, q) BY <1>3, SideFacts DEF MInv, MType, Links
  <2>1. /\ \A k \in 1..Len(r) : \E l \in 1..Len(q) : r[k] = q[l]
        /\ \A i : \/ \A k, l \in 1..Len(r) : IsNew(r[k], i) /\ IsNew(r[l], i) => k = l
                  \/ \E k, l \in 1..Len(q) : IsNew(q[k], i) /\ IsNew(q[l], i) /\ k # l
    <3> HIDE DEF q, r
    <3>1. CASE r = q BY <3>1
    <3>2. CASE r = <<>> BY <3>2
    <3>3. CASE q # <<>> /\ r = Tail(q)
      <4>1. /\ Len(r) = Len(q) - 1 /\ Len(q) \in Nat \ {0}
            /\ \A k \in 1..Len(r) : r[k] = q[k + 1] /\ k + 1 \in 1..Len(q)
        BY <2>0, <3>3, TailFacts
      <4> QED BY SMTT(30), <4>1
    <3> QED BY <2>0, <3>1, <3>2, <3>3 DEF From
  <2>2. \A i \in Ids : /\ \A k \in 1..Len(q) : IsNew(q[k], i) =>
                             /\ copier["server"][i] = "none"
                             /\ copier["client"][i] \notin {"none", "first", "sendnew"}
                       /\ \A k, l \in 1..Len(q) : IsNew(q[k], i) /\ IsNew(q[l], i) => k = l
    BY DEF MInv, MNew
  <2>3. \A i \in Ids : /\ \A k \in 1..Len(r) : IsNew(r[k], i) =>
                             /\ copier'["server"][i] = "none"
                             /\ copier'["client"][i] \notin {"none", "first", "sendnew"}
                       /\ \A k, l \in 1..Len(r) : IsNew(r[k], i) /\ IsNew(r[l], i) => k = l
    <3> HIDE DEF q, r
    <3> QED BY <2>1, <2>2
  <2> QED BY <1>3, <2>3 DEF MNew
<1> QED BY <1>1, <1>2, <1>3

LEMMA SentType ==
  ASSUME MInv, NEW s \in Sides, NEW i \in Ids
  PROVE  Sent(s, i) \in Nat /\ Base(s, i) \in Nat /\ Len(out[s][i].got) \in Nat
<1>1. inp[s][i] \in Inputs /\ out[s][i] \in Outputs BY DEF MInv, MType
<1>2. inp[s][i].taken \in Nat /\ out[s][i].got \in Seq(Datas) BY <1>1 DEF Inputs, Outputs
<1>3. Len(out[s][i].got) \in Nat BY <1>2
<1> QED BY <1>2, <1>3 DEF Sent, Base

\* Nothing is taken from a link or put into one.
LEMMA DataKept ==
  ASSUME MInv,
         \A s \in Sides : \/ link'[s].q = link[s].q
                          \/ link'[s].q = <<>> /\ link'[s].st # "open"
                          \/ From(link'[s].q, link[s].q) /\ loop'[Peer(s)].pc = "gone",
         \A s \in Sides : link'[s].st = "open" => link[s].st = "open",
         \A s \in Sides, i \in Ids : out'[s][i].got = out[s][i].got,
         \A s \in Sides, i \in Ids : /\ Sent(s, i)' \in Nat /\ Sent(s, i) <= Sent(s, i)'
                                     /\ link'[s].st = "open" => Sent(s, i)' = Sent(s, i),
         \A s \in Sides, i \in Ids : Live(s, i)' => Live(s, i) /\ Base(s, i)' = Base(s, i)
  PROVE  MData'
<1> SUFFICES ASSUME NEW s \in Sides, NEW i \in Ids PROVE Carry(s, i)' /\ Given(s, i)'
  BY DEF MData
<1>0. Peer(s) \in Sides BY SideFacts
<1>1. /\ Sent(s, i) \in Nat /\ Base(Peer(s), i) \in Nat /\ Len(out[Peer(s)][i].got) \in Nat
      /\ link[s].q \in Seq(Frames)
  BY <1>0, SentType DEF MInv, MType, Links
<1>2. Carry(s, i) /\ Given(s, i) BY DEF MInv, MData
<1>3. From(link'[s].q, link[s].q) BY DEF From
<1>4. Ordered(link'[s].q, i, Sent(s, i)') BY <1>1, <1>2, <1>3, FromOrdered DEF Carry
<1>5. Given(s, i)'
  <2>1. out'[Peer(s)][i].got = out[Peer(s)][i].got BY <1>0
  <2>2. Len(out[Peer(s)][i].got) <= Sent(s, i)' BY <1>1, <1>2 DEF Given
  <2> QED BY <1>2, <2>1, <2>2 DEF Given
<1>6. ASSUME Live(Peer(s), i)'
      PROVE  Gapless(link'[s].q, i, Base(Peer(s), i)') /\ Base(Peer(s), i)' <= Sent(s, i)'
  <2>1. Live(Peer(s), i) /\ Base(Peer(s), i)' = Base(Peer(s), i) BY <1>0, <1>6
  <2>2. Gapless(link[s].q, i, Base(Peer(s), i)) /\ Base(Peer(s), i) <= Sent(s, i) BY <1>2, <2>1 DEF Carry
  <2>3. Base(Peer(s), i)' <= Sent(s, i)' BY <1>1, <2>1, <2>2
  <2>4. Gapless(link'[s].q, i, Base(Peer(s), i))
    <3>1. CASE link'[s].q = link[s].q BY <2>2, <3>1
    <3>2. CASE link'[s].q = <<>> BY <3>2 DEF Gapless
    <3> QED BY <1>6, <3>1, <3>2 DEF Live
  <2> QED BY <2>1, <2>3, <2>4
<1>7. ASSUME Live(Peer(s), i)', link'[s].st = "open"
      PROVE  Complete(link'[s].q, i, Base(Peer(s), i)', Sent(s, i)')
  <2>1. Live(Peer(s), i) /\ Base(Peer(s), i)' = Base(Peer(s), i) BY <1>0, <1>7
  <2>2. /\ link[s].st = "open" /\ Sent(s, i)' = Sent(s, i) /\ link'[s].q = link[s].q BY <1>7 DEF Live
  <2>3. Complete(link[s].q, i, Base(Peer(s), i), Sent(s, i)) BY <1>2, <2>1, <2>2 DEF Carry
  <2> QED BY <2>1, <2>2, <2>3
<1>8. Carry(s, i)' BY <1>4, <1>6, <1>7 DEF Carry
<1> QED BY <1>5, <1>8

LEMMA HandKept ==
  ASSUME MInv,
         \A s \in Sides : loop'[s].pc = "write" => loop'[s] = loop[s],
         \A s \in Sides, i \in Ids : /\ out'[s][i].got = out[s][i].got
                                     /\ out'[s][i].st = "open" => out[s][i].st = "open"
                                     /\ Sent(s, i)' \in Nat /\ Sent(s, i) <= Sent(s, i)'
                                     /\ copier[s][i] # "none" /\ out'[s][i].st = "open" /\ Found(s, i)
                                          => Found(s, i)'
  PROVE  MHand'
<1> SUFFICES ASSUME NEW s \in Sides, loop'[s].pc = "write", out'[s][loop'[s].f.id].st = "open"
             PROVE  Handing(s)'
  BY DEF MHand, Handing
<1>1. loop'[s] = loop[s] /\ loop[s].pc = "write" OBVIOUS
<1>2. PICK i \in Ids : i = loop[s].f.id BY <1>1 DEF MInv, MFrames, Holds, Linked
<1>3. copier[s][i] # "none" BY <1>1, <1>2 DEF MInv, MFrames, Holds
<1> DEFINE n == Len(out[s][i].got) + 1
<1>4. out[s][i].st = "open" /\ out'[s][i].got = out[s][i].got /\ out'[s][i].st = "open" BY <1>1, <1>2
<1>5. Found(s, i) /\ loop[s].f.data = Chunk(Peer(s), i, n) /\ n <= Sent(Peer(s), i)
  BY <1>1, <1>2, <1>4 DEF MInv, MHand, Handing
<1>6. Found(s, i)' BY <1>3, <1>4, <1>5
<1>7. n <= Sent(Peer(s), i)'
  <2>0. Peer(s) \in Sides BY SideFacts
  <2>1. Len(out[s][i].got) \in Nat /\ Sent(Peer(s), i) \in Nat BY <2>0, SentType
  <2>2. Sent(Peer(s), i)' \in Nat /\ Sent(Peer(s), i) <= Sent(Peer(s), i)' BY <2>0
  <2> QED BY <1>5, <2>1, <2>2
<1>8. loop'[s].f.id = i /\ loop'[s].f.data = Chunk(Peer(s), i, n) BY <1>1, <1>2, <1>5
<1> QED BY <1>2, <1>4, <1>6, <1>7, <1>8 DEF Handing, Found

\* Sessions leave the tables, with their outputs closed.
LEMMA SessionsLeave ==
  ASSUME MInv, caller' = caller, done' = done,
         \A t \in Sides : /\ sm'[t].count = sm[t].count /\ sm'[t].closed = sm[t].closed
                          /\ sm'[t].sessions \subseteq sm[t].sessions,
         \A t \in Sides : \A j \in sm[t].sessions : j \notin sm'[t].sessions =>
            j \in Ids /\ out'[t][j].st # "open" /\ copier["client"][j] # "none",
         \A t \in Sides, j \in Ids : /\ out'[t][j].st = "open" => out[t][j].st = "open"
                                     /\ (copier'[t][j] = "none") <=> (copier[t][j] = "none"),
         loop'["server"].pc = "gone" <=> loop["server"].pc = "gone"
  PROVE  /\ MCallers' /\ MKnown'
         /\ \A t \in Sides, j \in Ids : Found(t, j)' => Found(t, j)
         /\ \A t \in Sides, j \in Ids : out'[t][j].st = "open" /\ Found(t, j) => Found(t, j)'
<1>1. MCallers'
  <2>1. \A j \in sm["client"].sessions : (j \in Ids => copier["client"][j] = "none") /\ ~sm'["client"].closed
            => j \in sm'["client"].sessions
    BY SideFacts
  <2> QED BY <2>1, SideFacts, CallersKept
<1>2. MKnown' BY SideFacts DEF MInv, MKnown
<1>3. \A t \in Sides, j \in Ids : Found(t, j)' => Found(t, j) BY DEF Found
<1>4. \A t \in Sides, j \in Ids : out'[t][j].st = "open" /\ Found(t, j) => Found(t, j)' BY DEF Found
<1> QED BY <1>1, <1>2, <1>3, <1>4

LEMMA CopiersKept ==
  ASSUME MInv, copier' = copier, \A t \in Sides, j \in Ids : inp'[t][j].taken = inp[t][j].taken
  PROVE  MCopiers'
BY SideFacts DEF MInv, MCopiers

LEMMA LinkFramesKept ==
  ASSUME MInv, NEW s \in Sides, From(link'[s].q, link[s].q),
         \A i \in Ids : copier["client"][i] # "none" => copier'["client"][i] # "none",
         NEW k \in 1..Len(link'[s].q)
  PROVE  /\ Linked(link[s].q[k].id)'
         /\ IsChunk(link'[s].q[k], s)
         /\ link'[s].q[k].status = "keep" => HasData(link'[s].q[k])
         /\ link'[s].q[k].status = "end" => ~HasData(link'[s].q[k])
         /\ link'[s].q[k].status # "none"
<1>1. PICK l \in 1..Len(link[s].q) : link'[s].q[k] = link[s].q[l]
  <2> DEFINE u == link[s].q
             r == link'[s].q
  <2>0. u \in Seq(Frames) /\ From(r, u) BY DEF MInv, MType, Links
  <2> HIDE DEF u, r
  <2>1. \A j \in 1..Len(r) : \E l \in 1..Len(u) : r[j] = u[l] BY ONLY <2>0, FromFrames
  <2> QED BY <2>1 DEF u, r
<1>2. Linked(link[s].q[l].id) BY DEF MInv, MFrames
<1>3. Linked(link[s].q[k].id)' BY <1>1, <1>2, SideFacts DEF Linked
<1> QED BY <1>1, <1>3 DEF MInv, MFrames

LEMMA FramesPut ==
  ASSUME MInv, NEW s \in Sides, NEW f \in Frames,
         link'[s].q = Append(link[s].q, f), link'[Peer(s)].q = link[Peer(s)].q,
         Linked(f.id), IsChunk(f, s), f.status = "keep" => HasData(f), f.status = "end" => ~HasData(f),
         f.status # "none",
         \A t \in Sides : Holds(t)' => /\ Holds(t) /\ loop'[t].f.id = loop[t].f.id
                                       /\ loop'[t].pc # "reply" => loop[t].pc # "reply",
         \A t \in Sides, i \in Ids : copier[t][i] # "none" => copier'[t][i] # "none"
  PROVE  MFrames'
<1>1. ASSUME NEW t \in Sides, NEW k \in 1..Len(link'[t].q)
      PROVE  /\ Linked(link[t].q[k].id)'
             /\ IsChunk(link'[t].q[k], t)
             /\ link'[t].q[k].status = "keep" => HasData(link'[t].q[k])
             /\ link'[t].q[k].status = "end" => ~HasData(link'[t].q[k])
             /\ link'[t].q[k].status # "none"
  <2>1. CASE t # s
    <3>1. From(link'[t].q, link[t].q) BY <2>1, SideFacts DEF From
    <3> QED BY <3>1, SideFacts, LinkFramesKept
  <2>2. CASE t = s
    <3> DEFINE q == link[s].q
    <3>1. q \in Seq(Frames) BY DEF MInv, MType, Links
    <3>2. /\ \A j \in 1..Len(q) : Append(q, f)[j] = q[j]
          /\ Append(q, f)[Len(q) + 1] = f /\ Len(Append(q, f)) = Len(q) + 1
          /\ \A j \in 1..(Len(q) + 1) : j \in 1..Len(q) \/ j = Len(q) + 1
      <4> HIDE DEF q
      <4> QED BY <3>1, AppendFacts
    <3>3. CASE k = Len(q) + 1
      <4>1. link'[t].q[k] = f BY <2>2, <3>2, <3>3
      <4>2. Linked(link[t].q[k].id)' BY <4>1, SideFacts DEF Linked
      <4> QED BY <2>2, <4>1, <4>2
    <3>4. CASE k \in 1..Len(q)
      <4>1. link'[t].q[k] = link[t].q[k] BY <2>2, <3>2, <3>4
      <4>2. Linked(link[t].q[k].id) BY <2>2, <3>4 DEF MInv, MFrames
      <4>3. Linked(link[t].q[k].id)' BY <4>1, <4>2, SideFacts DEF Linked
      <4> QED BY <2>2, <3>4, <4>1, <4>3 DEF MInv, MFrames
    <3> QED BY <1>1, <2>2, <3>2, <3>3, <3>4
  <2> QED BY <2>1, <2>2
<1>4. ASSUME NEW t \in Sides, Holds(t)'
      PROVE  /\ Linked(loop[t].f.id)'
             /\ loop'[t].pc # "reply" => copier'[t][loop'[t].f.id] # "none"
  <2>1. Holds(t) /\ Linked(loop[t].f.id) /\ loop'[t].f.id = loop[t].f.id BY <1>4 DEF MInv, MFrames
  <2>2. Linked(loop[t].f.id)' BY <2>1, SideFacts DEF Linked
  <2>3. loop'[t].pc # "reply" => copier[t][loop[t].f.id] # "none" BY <1>4, <2>1 DEF MInv, MFrames
  <2>4. loop[t].f.id \in Ids BY <2>1 DEF Linked
  <2> QED BY <2>1, <2>2, <2>3, <2>4
<1> QED BY <1>1, <1>4 DEF MFrames

LEMMA DataTaken ==
  ASSUME MInv, NEW s \in Sides, link[Peer(s)].q # <<>>,
         link'[Peer(s)].q = Tail(link[Peer(s)].q), link'[s].q = link[s].q,
         \A t \in Sides : link'[t].st = link[t].st,
         \A t \in Sides, i \in Ids : out'[t][i].got = out[t][i].got /\ Sent(t, i)' = Sent(t, i),
         \A t \in Sides, i \in Ids : Live(t, i)' => Live(t, i),
         \A i \in Ids : Live(Peer(s), i)' => Base(Peer(s), i)' = Base(Peer(s), i),
         \A i \in Ids : Live(s, i)' => Base(s, i)' = IF DataOf(Head(link[Peer(s)].q), i)
                                                     THEN Base(s, i) + 1 ELSE Base(s, i)
  PROVE  MData'
<1> SUFFICES ASSUME NEW t \in Sides, NEW i \in Ids PROVE Carry(t, i)' /\ Given(t, i)'
  BY DEF MData
<1>0. Peer(t) \in Sides BY SideFacts
<1>1. /\ Sent(t, i) \in Nat /\ Base(Peer(t), i) \in Nat /\ Len(out[Peer(t)][i].got) \in Nat
      /\ link[t].q \in Seq(Frames)
  BY <1>0, SentType DEF MInv, MType, Links
<1>2. Carry(t, i) /\ Given(t, i) BY DEF MInv, MData
<1>3. From(link'[t].q, link[t].q) BY SideFacts DEF From
<1>4. Ordered(link'[t].q, i, Sent(t, i)')
  <2>1. Sent(t, i)' = Sent(t, i) OBVIOUS
  <2>2. Sent(t, i) <= Sent(t, i) BY <1>1
  <2>3. Ordered(link[t].q, i, Sent(t, i)) BY <1>2 DEF Carry
  <2>4. Ordered(link'[t].q, i, Sent(t, i)) BY <1>1, <1>3, <2>2, <2>3, FromOrdered
  <2> QED BY <2>1, <2>4
<1>5. Given(t, i)'
  <2>1. out'[Peer(t)][i].got = out[Peer(t)][i].got /\ Sent(t, i)' = Sent(t, i) BY <1>0
  <2> QED BY <1>2, <2>1 DEF Given
<1>6. CASE t = s
  <2>1. link'[t].q = link[t].q /\ link'[t].st = link[t].st BY <1>6
  <2>2. Live(Peer(t), i)' => Live(Peer(t), i) /\ Base(Peer(t), i)' = Base(Peer(t), i) BY <1>0, <1>6
  <2>3. Sent(t, i)' = Sent(t, i) OBVIOUS
  <2>4. Carry(t, i)' BY <1>2, <1>4, <2>1, <2>2, <2>3 DEF Carry
  <2> QED BY <1>5, <2>4
<1>7. CASE t # s
  <2>0. t = Peer(s) /\ Peer(t) = s BY <1>7, SideFacts
  <2>1. link'[t].q = Tail(link[t].q) /\ link[t].q # <<>> /\ link'[t].st = link[t].st BY <2>0
  <2>2. Sent(t, i)' = Sent(t, i) OBVIOUS
  <2>3. ASSUME Live(s, i)', DataOf(Head(link[t].q), i)
        PROVE  /\ Gapless(link'[t].q, i, Base(s, i)') /\ Base(s, i)' <= Sent(t, i)
               /\ link[t].st = "open" => Complete(link'[t].q, i, Base(s, i)', Sent(t, i))
    <3> DEFINE q == link[t].q
               b == Base(s, i)
               n == Sent(t, i)
    <3>1. Live(s, i) /\ Base(s, i)' = b + 1 BY <2>0, <2>3
    <3>2. /\ Ordered(q, i, n) /\ Gapless(q, i, b)
          /\ link[t].st = "open" => Complete(q, i, b, n)
      BY <1>2, <2>0, <3>1 DEF Carry
    <3>3. q \in Seq(Frames) /\ q # <<>> /\ DataOf(Head(q), i) /\ b \in Nat /\ n \in Nat BY <1>1, <2>0, <2>1, <2>3
    <3>4. /\ b + 1 <= n /\ Gapless(Tail(q), i, b + 1)
          /\ link[t].st = "open" => Complete(Tail(q), i, b + 1, n)
      <4> HIDE DEF q, b, n
      <4> QED BY <3>2, <3>3, TakeNext
    <3> QED BY <2>1, <3>1, <3>4
  <2>4. ASSUME Live(s, i)', ~DataOf(Head(link[t].q), i)
        PROVE  /\ Gapless(link'[t].q, i, Base(s, i)') /\ Base(s, i)' <= Sent(t, i)
               /\ link[t].st = "open" => Complete(link'[t].q, i, Base(s, i)', Sent(t, i))
    <3> DEFINE q == link[t].q
               b == Base(s, i)
               n == Sent(t, i)
    <3>1. Live(s, i) /\ Base(s, i)' = b BY <2>0, <2>4
    <3>2. /\ Gapless(q, i, b) /\ b <= n
          /\ link[t].st = "open" => Complete(q, i, b, n)
      BY <1>2, <2>0, <3>1 DEF Carry
    <3>3. q \in Seq(Frames) /\ q # <<>> /\ ~DataOf(Head(q), i) /\ b \in Nat /\ n \in Nat BY <1>1, <2>0, <2>1, <2>4
    <3>4. /\ Gapless(Tail(q), i, b)
          /\ link[t].st = "open" => Complete(Tail(q), i, b, n)
      <4> HIDE DEF q, b, n
      <4> QED BY <3>2, <3>3, TakeOther
    <3> QED BY <2>1, <3>1, <3>2, <3>4
  <2>5. Carry(t, i)' BY <1>4, <2>0, <2>1, <2>2, <2>3, <2>4 DEF Carry
  <2> QED BY <1>5, <2>5
<1> QED BY <1>6, <1>7

LEMMA DataPut ==
  ASSUME MInv, NEW s \in Sides, NEW f \in Frames, link[s].st = "open",
         link'[s].q = Append(link[s].q, f), link'[s].st = link[s].st, link'[Peer(s)] = link[Peer(s)],
         \A t \in Sides, i \in Ids : out'[t][i].got = out[t][i].got,
         \A t \in Sides, i \in Ids : Live(t, i)' => Live(t, i) /\ Base(t, i)' = Base(t, i),
         \A i \in Ids : Sent(Peer(s), i)' = Sent(Peer(s), i),
         \A i \in Ids : DataOf(f, i) => Num(f) = Sent(s, i) + 1 /\ Sent(s, i)' = Sent(s, i) + 1,
         \A i \in Ids : ~DataOf(f, i) => Sent(s, i)' = Sent(s, i)
  PROVE  MData'
<1> SUFFICES ASSUME NEW t \in Sides, NEW i \in Ids PROVE Carry(t, i)' /\ Given(t, i)'
  BY DEF MData
<1>0. Peer(t) \in Sides BY SideFacts
<1>1. /\ Sent(t, i) \in Nat /\ Base(Peer(t), i) \in Nat /\ Len(out[Peer(t)][i].got) \in Nat
      /\ link[t].q \in Seq(Frames)
  BY <1>0, SentType DEF MInv, MType, Links
<1>2. Carry(t, i) /\ Given(t, i) BY DEF MInv, MData
<1>3. Sent(t, i)' = Sent(t, i) \/ Sent(t, i)' = Sent(t, i) + 1 BY SideFacts
<1>5. Given(t, i)'
  <2>1. out'[Peer(t)][i].got = out[Peer(t)][i].got BY <1>0
  <2>2. Len(out[Peer(t)][i].got) <= Sent(t, i)' BY <1>1, <1>2, <1>3 DEF Given
  <2> QED BY <1>2, <2>1, <2>2 DEF Given
<1>b. Live(Peer(t), i)' => Live(Peer(t), i) /\ Base(Peer(t), i)' = Base(Peer(t), i) BY <1>0
<1>6. CASE t # s
  <2>1. link'[t] = link[t] /\ Sent(t, i)' = Sent(t, i) BY <1>6, SideFacts
  <2>4. Carry(t, i)' BY <1>2, <1>b, <2>1 DEF Carry
  <2> QED BY <1>5, <2>4
<1>7. CASE t = s
  <2> DEFINE q == link[s].q
             b == Base(Peer(s), i)
             n == Sent(s, i)
  <2>0. q \in Seq(Frames) /\ n \in Nat /\ b \in Nat BY <1>1, <1>7
  <2>1. /\ Ordered(q, i, n)
        /\ Live(Peer(s), i) => Gapless(q, i, b) /\ b <= n /\ Complete(q, i, b, n)
    BY <1>2, <1>7 DEF Carry
  <2>2. CASE DataOf(f, i)
    <3>1. Num(f) = n + 1 /\ Sent(s, i)' = n + 1 BY <2>2
    <3>2. /\ Ordered(Append(q, f), i, n + 1)
          /\ Live(Peer(s), i) => Gapless(Append(q, f), i, b) /\ b <= n + 1 /\ Complete(Append(q, f), i, b, n + 1)
      <4> HIDE DEF q, b, n
      <4> QED BY <2>0, <2>1, <2>2, <3>1, PutNext
    <3>3. Carry(t, i)' BY <1>b, <1>7, <3>1, <3>2 DEF Carry
    <3> QED BY <1>5, <3>3
  <2>3. CASE ~DataOf(f, i)
    <3>1. Sent(s, i)' = n BY <2>3
    <3>2. /\ Ordered(Append(q, f), i, n)
          /\ Live(Peer(s), i) => Gapless(Append(q, f), i, b) /\ b <= n /\ Complete(Append(q, f), i, b, n)
      <4> HIDE DEF q, b, n
      <4> QED BY <2>0, <2>1, <2>3, PutOther
    <3>3. Carry(t, i)' BY <1>b, <1>7, <3>1, <3>2 DEF Carry
    <3> QED BY <1>5, <3>3
  <2> QED BY <2>2, <2>3
<1> QED BY <1>6, <1>7

\* A frame is taken by the server; a New frame makes the session known.
LEMMA NewTaken ==
  ASSUME MInv, link["client"].q # <<>>, link'["client"].q = Tail(link["client"].q),
         link'["client"].st = link["client"].st, copier'["client"] = copier["client"],
         \A j \in Ids : copier'["server"][j] = IF IsNew(Head(link["client"].q), j)
                                               THEN "copy" ELSE copier["server"][j],
         loop["server"].pc = "gone" => loop'["server"].pc = "gone"
  PROVE  MNew'
<1> DEFINE q == link["client"].q
           r == link'["client"].q
<1>1. q \in Seq(Frames) /\ q # <<>> /\ r = Tail(q) BY SideFacts DEF MInv, MType, Links
<1>2. /\ Len(r) = Len(q) - 1 /\ Len(q) \in Nat \ {0} /\ Head(q) = q[1] /\ 1 \in 1..Len(q)
      /\ \A k \in 1..Len(r) : r[k] = q[k + 1] /\ k + 1 \in 1..Len(q)
  <2> HIDE DEF q
  <2> QED BY <1>1, TailFacts
<1>3. \A l \in 1..Len(q) : l # 1 => l - 1 \in 1..Len(r) /\ r[l - 1] = q[l]
  <2> HIDE DEF q, r
  <2> QED BY <1>2
<1> SUFFICES ASSUME NEW i \in Ids
             PROVE  /\ \A k \in 1..Len(r) : IsNew(r[k], i) =>
                          /\ copier'["server"][i] = "none"
                          /\ copier'["client"][i] \notin {"none", "first", "sendnew"}
                    /\ \A k, l \in 1..Len(r) : IsNew(r[k], i) /\ IsNew(r[l], i) => k = l
                    /\ copier'["server"][i] = "none" /\ loop'["server"].pc # "gone" =>
                         /\ \A k \in 1..Len(r) : r[k].status = "keep" /\ r[k].id = i
                               => \E l \in 1..(k - 1) : IsNew(r[l], i)
                         /\ link'["client"].st = "open" /\ copier'["client"][i] \in {"copy", "sendkeep"}
                               => \E l \in 1..Len(r) : IsNew(r[l], i)
  BY DEF MNew
<1>4. /\ \A k \in 1..Len(q) : IsNew(q[k], i) => /\ copier["server"][i] = "none"
                                                /\ copier["client"][i] \notin {"none", "first", "sendnew"}
      /\ \A k, l \in 1..Len(q) : IsNew(q[k], i) /\ IsNew(q[l], i) => k = l
      /\ copier["server"][i] = "none" /\ loop["server"].pc # "gone" =>
            /\ \A k \in 1..Len(q) : q[k].status = "keep" /\ q[k].id = i => \E l \in 1..(k - 1) : IsNew(q[l], i)
            /\ link["client"].st = "open" /\ copier["client"][i] \in {"copy", "sendkeep"}
                 => \E l \in 1..Len(q) : IsNew(q[l], i)
  BY DEF MInv, MNew
<1>5. copier'["server"][i] = IF IsNew(q[1], i) THEN "copy" ELSE copier["server"][i] BY <1>2
<1> HIDE DEF q, r
<1>6. \A k \in 1..Len(r) : IsNew(r[k], i) => ~IsNew(q[1], i) BY <1>2, <1>4
<1>7. \A k, l \in 1..Len(r) : IsNew(r[k], i) /\ IsNew(r[l], i) => k = l BY <1>2, <1>4
<1>8. ASSUME copier'["server"][i] = "none", loop'["server"].pc # "gone", NEW k \in 1..Len(r),
             r[k].status = "keep", r[k].id = i
      PROVE  \E l \in 1..(k - 1) : IsNew(r[l], i)
  <2>1. copier["server"][i] = "none" /\ ~IsNew(q[1], i) BY <1>5, <1>8
  <2>2. r[k] = q[k + 1] /\ k + 1 \in 1..Len(q) /\ (k + 1) - 1 = k BY <1>2
  <2>3. PICK l \in 1..k : IsNew(q[l], i) BY <1>4, <1>8, <2>1, <2>2
  <2>4. l # 1 /\ l \in 1..Len(q) BY <1>2, <2>1, <2>3
  <2>5. l - 1 \in 1..(k - 1) /\ r[l - 1] = q[l] BY <1>3, <2>4
  <2> QED BY <2>3, <2>5
<1>9. ASSUME copier'["server"][i] = "none", loop'["server"].pc # "gone",
             link'["client"].st = "open", copier'["client"][i] \in {"copy", "sendkeep"}
      PROVE  \E l \in 1..Len(r) : IsNew(r[l], i)
  <2>1. copier["server"][i] = "none" /\ ~IsNew(q[1], i) BY <1>5, <1>9
  <2>2. PICK l \in 1..Len(q) : IsNew(q[l], i) BY <1>4, <1>9, <2>1
  <2> QED BY <1>3, <2>1, <2>2
<1>10. \A k \in 1..Len(r) : IsNew(r[k], i) =>
          copier'["server"][i] = "none" /\ copier'["client"][i] \notin {"none", "first", "sendnew"}
  BY <1>2, <1>4, <1>5, <1>6
<1> QED BY <1>7, <1>8, <1>9, <1>10

\* The client puts a frame into its link.
LEMMA NewPut ==
  ASSUME MInv, NEW f \in Frames, link["client"].st = "open",
         link'["client"].q = Append(link["client"].q, f), link'["client"].st = "open",
         \A j \in Ids : (copier'["server"][j] = "none") <=> (copier["server"][j] = "none"),
         loop["server"].pc = "gone" => loop'["server"].pc = "gone",
         \A j \in Ids : copier'["client"][j] \in {"none", "first", "sendnew"}
                          => copier["client"][j] \in {"none", "first", "sendnew"},
         \A j \in Ids : copier'["client"][j] \in {"copy", "sendkeep"}
                          => IsNew(f, j) \/ copier["client"][j] \in {"copy", "sendkeep"},
         \A j \in Ids : IsNew(f, j) => /\ copier["client"][j] = "sendnew"
                                       /\ copier'["client"][j] \notin {"none", "first", "sendnew"},
         \A j \in Ids : f.status = "keep" /\ f.id = j => copier["client"][j] = "sendkeep"
  PROVE  MNew'
<1> DEFINE q == link["client"].q
           r == link'["client"].q
<1>1. q \in Seq(Frames) /\ r = Append(q, f) BY SideFacts DEF MInv, MType, Links
<1>2. /\ Len(r) = Len(q) + 1 /\ Len(q) \in Nat
      /\ \A k \in 1..Len(q) : r[k] = q[k]
      /\ \A k \in 1..Len(r) : k \in 1..Len(q) \/ k = Len(q) + 1
      /\ r[Len(q) + 1] = f
  <2> HIDE DEF q
  <2> QED BY <1>1, AppendFacts
<1>3. \A k \in 1..Len(q) : k \in 1..Len(r) /\ 1..(k - 1) \subseteq 1..Len(q)
  <2> HIDE DEF q, r
  <2> QED BY <1>2
<1> SUFFICES ASSUME NEW i \in Ids
             PROVE  /\ \A k \in 1..Len(r) : IsNew(r[k], i) =>
                          /\ copier'["server"][i] = "none"
                          /\ copier'["client"][i] \notin {"none", "first", "sendnew"}
                    /\ \A k, l \in 1..Len(r) : IsNew(r[k], i) /\ IsNew(r[l], i) => k = l
                    /\ copier'["server"][i] = "none" /\ loop'["server"].pc # "gone" =>
                         /\ \A k \in 1..Len(r) : r[k].status = "keep" /\ r[k].id = i
                               => \E l \in 1..(k - 1) : IsNew(r[l], i)
                         /\ link'["client"].st = "open" /\ copier'["client"][i] \in {"copy", "sendkeep"}
                               => \E l \in 1..Len(r) : IsNew(r[l], i)
  BY DEF MNew
<1>4. /\ \A k \in 1..Len(q) : IsNew(q[k], i) => /\ copier["server"][i] = "none"
                                                /\ copier["client"][i] \notin {"none", "first", "sendnew"}
      /\ \A k, l \in 1..Len(q) : IsNew(q[k], i) /\ IsNew(q[l], i) => k = l
      /\ copier["server"][i] = "none" /\ loop["server"].pc # "gone" =>
            /\ \A k \in 1..Len(q) : q[k].status = "keep" /\ q[k].id = i => \E l \in 1..(k - 1) : IsNew(q[l], i)
            /\ link["client"].st = "open" /\ copier["client"][i] \in {"copy", "sendkeep"}
                 => \E l \in 1..Len(q) : IsNew(q[l], i)
  BY DEF MInv, MNew
<1>5. copier["server"][i] # "none" => copier["client"][i] \notin {"none", "first", "sendnew"}
  BY DEF MInv, MCopiers
<1>6. (copier'["server"][i] = "none") <=> (copier["server"][i] = "none") OBVIOUS
<1> HIDE DEF q, r
<1>7. \A k, l \in 1..Len(r) : IsNew(r[k], i) /\ IsNew(r[l], i) => k = l
  BY <1>2, <1>4
<1>8. ASSUME copier'["server"][i] = "none", loop'["server"].pc # "gone", NEW k \in 1..Len(r),
             r[k].status = "keep", r[k].id = i
      PROVE  \E l \in 1..(k - 1) : IsNew(r[l], i)
  <2>1. CASE k \in 1..Len(q)
    <3>1. r[k] = q[k] /\ \A l \in 1..(k - 1) : r[l] = q[l] BY <1>2, <1>3, <2>1
    <3> QED BY <1>4, <1>6, <1>8, <2>1, <3>1
  <2>2. CASE k = Len(q) + 1
    <3>1. copier["client"][i] = "sendkeep" BY <1>2, <1>8, <2>2
    <3>2. PICK l \in 1..Len(q) : IsNew(q[l], i) BY <1>4, <1>6, <1>8, <3>1
    <3>3. k - 1 = Len(q) BY <1>2, <2>2
    <3> QED BY <1>2, <3>2, <3>3
  <2> QED BY <1>2, <2>1, <2>2
<1>9. ASSUME copier'["server"][i] = "none", loop'["server"].pc # "gone",
             link'["client"].st = "open", copier'["client"][i] \in {"copy", "sendkeep"}
      PROVE  \E l \in 1..Len(r) : IsNew(r[l], i)
  <2>1. CASE IsNew(f, i) BY <1>2, <2>1
  <2>2. CASE ~IsNew(f, i)
    <3>1. PICK l \in 1..Len(q) : IsNew(q[l], i) BY <1>4, <1>6, <1>9, <2>2
    <3> QED BY <1>2, <1>3, <3>1
  <2> QED BY <2>1, <2>2
<1>10. \A k \in 1..Len(r) : IsNew(r[k], i) =>
          copier'["server"][i] = "none" /\ copier'["client"][i] \notin {"none", "first", "sendnew"}
  BY <1>2, <1>4, <1>5, <1>6
<1> QED BY <1>7, <1>8, <1>9, <1>10

-----------------------------------------------------------------------------
(* The steps of the users and of Dispatch. *)

LEMMA QuietStep ==
  ASSUME MInv, MType', MCallers',
         UNCHANGED <<sm, done, copier, loop, link>>,
         \A s \in Sides, i \in Ids : /\ inp'[s][i].taken = inp[s][i].taken
                                     /\ out'[s][i].got = out[s][i].got
                                     /\ out'[s][i].st = "open" => out[s][i].st = "open"
  PROVE  MInv'
<1>1. MKnown' BY SideFacts DEF MInv, MKnown
<1>2. MCopiers' BY SideFacts DEF MInv, MCopiers
<1>3. MFrames'
  <2>1. \A s \in Sides : From(link'[s].q, link[s].q) BY DEF From
  <2> QED BY <2>1, FramesKept DEF Holds
<1>4. MNew' BY NewKept
<1>5. \A s \in Sides, i \in Ids : Sent(s, i)' = Sent(s, i) /\ Sent(s, i) \in Nat
  BY SentType DEF Sent
<1>6. \A s \in Sides, i \in Ids : Sent(s, i)' \in Nat /\ Sent(s, i) <= Sent(s, i)' BY <1>5
<1>7. \A s \in Sides, i \in Ids : Live(s, i)' => Live(s, i) /\ Base(s, i)' = Base(s, i)
  BY DEF Live, Base, Found
<1>8. MData' BY <1>5, <1>6, <1>7, DataKept
<1>9. \A s \in Sides, i \in Ids : Found(s, i)' <=> Found(s, i) BY DEF Found
<1>10. MHand' BY <1>6, <1>9, HandKept
<1> QED BY <1>1, <1>2, <1>3, <1>4, <1>8, <1>10 DEF MInv

LEMMA UserStep ==
  ASSUME MInv, NEW s \in Sides, NEW i \in Ids, User(s, i)
  PROVE  MInv'
<1>0. /\ UNCHANGED <<caller, sm, done, monitor, copier, hasError, loop, link>>
      /\ MType /\ inp[s][i] \in Inputs /\ out[s][i] \in Outputs
  BY DEF User, UserSend, UserClose, UserAbort, UserRead, MInv, MType
<1>1. MCallers' BY <1>0 DEF MInv, MCallers
<1>2. \/ inp' = inp
      \/ \E r \in Inputs : inp' = [inp EXCEPT ![s][i] = r] /\ r.taken = inp[s][i].taken
  <2>1. CASE UserSend(s, i)
    <3> DEFINE r == [inp[s][i] EXCEPT !.sent = @ + 1]
    <3>1. r \in Inputs /\ r.taken = inp[s][i].taken BY <1>0 DEF Inputs
    <3>2. inp' = [inp EXCEPT ![s][i] = r] BY <2>1 DEF UserSend
    <3> QED BY <3>1, <3>2
  <2>2. CASE UserClose(s, i)
    <3> DEFINE r == Close(inp[s][i])
    <3>1. r \in Inputs /\ r.taken = inp[s][i].taken BY <1>0 DEF Inputs, Close, PipeStates
    <3>2. inp' = [inp EXCEPT ![s][i] = r] BY <2>2 DEF UserClose
    <3> QED BY <3>1, <3>2
  <2>3. CASE UserAbort(s, i)
    <3> DEFINE r == Interrupt(inp[s][i])
    <3>1. r \in Inputs /\ r.taken = inp[s][i].taken BY <1>0 DEF Inputs, Interrupt, PipeStates
    <3>2. inp' = [inp EXCEPT ![s][i] = r] BY <2>3 DEF UserAbort
    <3> QED BY <3>1, <3>2
  <2> QED BY <2>1, <2>2, <2>3 DEF User, UserRead
<1>3. \/ out' = out
      \/ \E r \in Outputs : /\ out' = [out EXCEPT ![s][i] = r] /\ r.got = out[s][i].got
                            /\ r.st = "open" => out[s][i].st = "open"
  <2>1. CASE UserAbort(s, i)
    <3> DEFINE r == Interrupt(out[s][i])
    <3>1. r \in Outputs /\ r.got = out[s][i].got /\ (r.st = "open" => out[s][i].st = "open")
      BY <1>0 DEF Outputs, Interrupt, PipeStates
    <3>2. out' = [out EXCEPT ![s][i] = r] BY <2>1 DEF UserAbort
    <3> QED BY <3>1, <3>2
  <2>2. CASE UserRead(s, i)
    <3> DEFINE r == [out[s][i] EXCEPT !.read = @ + 1]
    <3>1. r \in Outputs /\ r.got = out[s][i].got /\ r.st = out[s][i].st BY <1>0 DEF Outputs
    <3>2. out' = [out EXCEPT ![s][i] = r] BY <2>2 DEF UserRead
    <3> QED BY <3>1, <3>2
  <2> QED BY <2>1, <2>2 DEF User, UserSend, UserClose
<1>4. inp' \in [Sides -> [Ids -> Inputs]] /\ \A t \in Sides, j \in Ids : inp'[t][j].taken = inp[t][j].taken
  <2>1. CASE inp' = inp BY <1>0, <2>1 DEF MType
  <2>2. ASSUME NEW r \in Inputs, inp' = [inp EXCEPT ![s][i] = r], r.taken = inp[s][i].taken
        PROVE  inp' \in [Sides -> [Ids -> Inputs]] /\ \A t \in Sides, j \in Ids : inp'[t][j].taken = inp[t][j].taken
    <3>1. inp \in [Sides -> [Ids -> Inputs]] BY <1>0 DEF MType
    <3>2. inp' \in [Sides -> [Ids -> Inputs]] BY <2>2, <3>1
    <3>3. \A t \in Sides, j \in Ids : inp'[t][j] = IF t = s /\ j = i THEN r ELSE inp[t][j] BY <2>2, <3>1
    <3> QED BY <2>2, <3>2, <3>3
  <2> QED BY <1>2, <2>1, <2>2
<1>5. /\ out' \in [Sides -> [Ids -> Outputs]]
      /\ \A t \in Sides, j \in Ids : /\ out'[t][j].got = out[t][j].got
                                     /\ out'[t][j].st = "open" => out[t][j].st = "open"
  <2>1. CASE out' = out BY <1>0, <2>1 DEF MType
  <2>2. ASSUME NEW r \in Outputs, out' = [out EXCEPT ![s][i] = r], r.got = out[s][i].got,
               r.st = "open" => out[s][i].st = "open"
        PROVE  /\ out' \in [Sides -> [Ids -> Outputs]]
               /\ \A t \in Sides, j \in Ids : /\ out'[t][j].got = out[t][j].got
                                              /\ out'[t][j].st = "open" => out[t][j].st = "open"
    <3>1. out \in [Sides -> [Ids -> Outputs]] BY <1>0 DEF MType
    <3>2. out' \in [Sides -> [Ids -> Outputs]] BY <2>2, <3>1
    <3>3. \A t \in Sides, j \in Ids : out'[t][j] = IF t = s /\ j = i THEN r ELSE out[t][j] BY <2>2, <3>1
    <3> QED BY <2>2, <3>2, <3>3
  <2> QED BY <1>3, <2>1, <2>2
<1>6. MType' BY <1>0, <1>4, <1>5 DEF MType
<1> QED BY <1>0, <1>1, <1>4, <1>5, <1>6, QuietStep

LEMMA DispatchCheckStep ==
  ASSUME MInv, NEW c \in Callers, DispatchCheck(c)
  PROVE  MInv'
<1>0. /\ UNCHANGED <<sm, done, monitor, copier, hasError, loop, link, inp, out>>
      /\ caller[c].pc = "idle" /\ caller[c] \in Callings
  BY DEF DispatchCheck, MInv, MType
<1> DEFINE r == [caller[c] EXCEPT !.pc = IF IsFull THEN "refused" ELSE "checked"]
<1>1. r \in Callings /\ r.pc \in {"refused", "checked"} /\ r.id = caller[c].id BY <1>0 DEF Callings, CallerPcs
<1>2. caller' = [caller EXCEPT ![c] = r] BY DEF DispatchCheck
<1> HIDE DEF r
<1>3. caller' \in [Callers -> Callings] /\ caller'[c] = r /\ \A d \in Callers : d # c => caller'[d] = caller[d]
  BY <1>1, <1>2 DEF MInv, MType
<1>4. MType' BY <1>0, <1>3 DEF MInv, MType
<1>5. \A d \in Callers : caller'[d].id = caller[d].id BY <1>1, <1>3
<1>6. MCallers'
  <2>1. {d \in Callers : caller'[d].id # 0} = {d \in Callers : caller[d].id # 0} BY <1>5
  <2>2. \A d \in Callers : /\ caller'[d].pc = "allocated" <=> caller[d].pc = "allocated"
                           /\ caller'[d].pc = "dispatched" <=> caller[d].pc = "dispatched"
    BY <1>0, <1>1, <1>3
  <2>3. sm'["client"].count = Cardinality({d \in Callers : caller'[d].id # 0}) BY <1>0, <2>1 DEF MInv, MCallers
  <2>4. \A d \in Callers :
           /\ caller'[d].pc \in {"allocated", "dispatched"} <=> caller'[d].id # 0
           /\ caller'[d].id <= sm'["client"].count
           /\ \A e \in Callers : caller'[d].id # 0 /\ caller'[d].id = caller'[e].id => d = e
    BY <1>0, <1>5, <2>2 DEF MInv, MCallers
  <2>5. \A d \in Callers :
           /\ caller'[d].pc = "allocated" =>
                 /\ copier'["client"][caller'[d].id] = "none"
                 /\ ~sm'["client"].closed => caller'[d].id \in sm'["client"].sessions
           /\ caller'[d].pc = "dispatched" => copier'["client"][caller'[d].id] # "none"
    BY <1>0, <1>5, <2>2 DEF MInv, MCallers
  <2>6. \A j \in Ids : copier'["client"][j] # "none" => \E d \in Callers : caller'[d].id = j
    BY <1>0, <1>5 DEF MInv, MCallers
  <2> QED BY <2>3, <2>4, <2>5, <2>6 DEF MCallers
<1> QED BY <1>0, <1>4, <1>6, QuietStep

LEMMA DispatchLinkStep ==
  ASSUME MInv, NEW c \in Callers, DispatchLink(c)
  PROVE  MInv'
<1>0. /\ UNCHANGED <<sm, done, monitor, hasError, loop, link, inp, out>>
      /\ caller[c].pc = "allocated" /\ caller[c] \in Callings
  BY DEF DispatchLink, MInv, MType
<1> DEFINE r == [caller[c] EXCEPT !.pc = "dispatched"]
<1>1. r \in Callings /\ r.pc = "dispatched" /\ r.id = caller[c].id BY <1>0 DEF Callings, CallerPcs
<1>2. caller' = [caller EXCEPT ![c] = r] BY DEF DispatchLink
<1> HIDE DEF r
<1>3. caller' \in [Callers -> Callings] /\ caller'[c] = r /\ \A d \in Callers : d # c => caller'[d] = caller[d]
  BY <1>1, <1>2 DEF MInv, MType
<1>4. PICK i \in Ids : i = caller[c].id BY <1>0, IdsGiven DEF MInv, MCallers
<1>5. /\ copier' \in [Sides -> [Ids -> CopierPcs]]
      /\ copier'["client"][i] = "first" /\ copier["client"][i] = "none"
      /\ \A s \in Sides, j \in Ids : s # "client" \/ j # i => copier'[s][j] = copier[s][j]
  BY <1>0, <1>4, SideFacts DEF DispatchLink, MInv, MType, MCallers, CopierPcs
<1>6. MType' BY <1>0, <1>3, <1>5 DEF MInv, MType
<1>7. \A d \in Callers : caller'[d].id = caller[d].id BY <1>1, <1>3
<1>8. MCallers'
  <2>1. {d \in Callers : caller'[d].id # 0} = {d \in Callers : caller[d].id # 0} BY <1>7
  <2>2. \A d \in Callers : d # c => caller'[d].pc = caller[d].pc /\ (caller[d].id # 0 => caller[d].id # i)
    BY <1>0, <1>3, <1>4 DEF MInv, MCallers
  <2>3. \A d \in Callers : caller[d].id # 0 => caller[d].id \in Ids BY IdsGiven
  <2>4. \A d \in Callers : caller'[d].pc = "allocated" =>
              /\ copier'["client"][caller'[d].id] = "none"
              /\ ~sm'["client"].closed => caller'[d].id \in sm'["client"].sessions
    BY SMTT(30), <1>0, <1>1, <1>3, <1>5, <1>7, <2>2, <2>3, SideFacts DEF MInv, MCallers
  <2>5. \A d \in Callers : caller'[d].pc = "dispatched" => copier'["client"][caller'[d].id] # "none"
    BY <1>0, <1>1, <1>3, <1>4, <1>5, <1>7, <2>2, <2>3, SideFacts DEF MInv, MCallers
  <2>6. \A j \in Ids : copier'["client"][j] # "none" => \E d \in Callers : caller'[d].id = j
    BY <1>4, <1>5, <1>7, SideFacts DEF MInv, MCallers
  <2>7. \A d \in Callers : caller'[d].pc \in {"allocated", "dispatched"} <=> caller'[d].id # 0
    BY <1>0, <1>1, <1>3 DEF MInv, MCallers
  <2>8. \A d, e \in Callers : caller'[d].id # 0 /\ caller'[d].id = caller'[e].id => d = e
    BY <1>7 DEF MInv, MCallers
  <2>9. sm'["client"].count = Cardinality({d \in Callers : caller'[d].id # 0})
        /\ \A d \in Callers : caller'[d].id <= sm'["client"].count
    BY <1>0, <1>7, <2>1 DEF MInv, MCallers
  <2> QED BY <2>4, <2>5, <2>6, <2>7, <2>8, <2>9 DEF MCallers
<1>9. MKnown'
  <2>1. ~sm["client"].closed => i \in sm["client"].sessions BY <1>0, <1>4 DEF MInv, MCallers
  <2> QED BY <1>0, <1>5, <2>1, SideFacts DEF MInv, MKnown
<1>10. MCopiers' BY <1>0, <1>5, SideFacts DEF MInv, MCopiers
<1>11. MFrames'
  <2>1. \A s \in Sides : From(link'[s].q, link[s].q) BY <1>0 DEF From
  <2>2. \A s \in Sides, j \in Ids : copier[s][j] # "none" => copier'[s][j] # "none" BY <1>5
  <2> QED BY <1>0, <2>1, <2>2, FramesKept DEF Holds
<1>12. MNew' BY <1>0, <1>5, SideFacts, NewKept
<1>13. \A s \in Sides, j \in Ids : Sent(s, j)' = Sent(s, j) /\ Sent(s, j) \in Nat
  <2>1. \A s \in Sides, j \in Ids : copier'[s][j] \in {"sendnew", "sendkeep"} <=> copier[s][j] \in {"sendnew", "sendkeep"}
    BY <1>5
  <2> QED BY <1>0, <2>1, SentType DEF Sent
<1>14. \A s \in Sides, j \in Ids : Sent(s, j)' \in Nat /\ Sent(s, j) <= Sent(s, j)' BY <1>13
<1>15. \A s \in Sides, j \in Ids : Live(s, j)' => Live(s, j) /\ Base(s, j)' = Base(s, j)
  BY <1>0, <1>5 DEF Live, Base, Found
<1>16. MData' BY <1>0, <1>13, <1>14, <1>15, DataKept
<1>17. \A s \in Sides, j \in Ids : Found(s, j)' <=> Found(s, j) BY <1>0 DEF Found
<1>18. MHand' BY <1>0, <1>14, <1>17, HandKept
<1> QED BY <1>6, <1>8, <1>9, <1>10, <1>11, <1>12, <1>16, <1>18 DEF MInv

LEMMA DispatchAllocateStep ==
  ASSUME MInv, NEW c \in Callers, DispatchAllocate(c)
  PROVE  MInv'
<1>0. /\ UNCHANGED <<done, monitor, copier, hasError, loop, link, inp, out>>
      /\ caller[c].pc = "checked" /\ caller[c] \in Callings
      /\ caller \in [Callers -> Callings] /\ sm \in [Sides -> Managers]
  BY DEF DispatchAllocate, MInv, MType
<1>1. CASE sm["client"].closed
  <2> DEFINE r == [caller[c] EXCEPT !.pc = "refused"]
  <2>1. r \in Callings /\ r.pc = "refused" /\ r.id = caller[c].id BY <1>0 DEF Callings, CallerPcs
  <2>2. caller' = [caller EXCEPT ![c] = r] /\ sm' = sm BY <1>1 DEF DispatchAllocate
  <2> HIDE DEF r
  <2>3. caller' \in [Callers -> Callings] /\ caller'[c] = r /\ \A d \in Callers : d # c => caller'[d] = caller[d]
    BY <1>0, <2>1, <2>2
  <2>4. MType' BY <1>0, <2>2, <2>3 DEF MInv, MType
  <2>5. \A d \in Callers : caller'[d].id = caller[d].id BY <2>1, <2>3
  <2>6. {d \in Callers : caller'[d].id # 0} = {d \in Callers : caller[d].id # 0} BY <2>5
  <2>7. \A d \in Callers : /\ caller'[d].pc = "allocated" <=> caller[d].pc = "allocated"
                           /\ caller'[d].pc = "dispatched" <=> caller[d].pc = "dispatched"
    BY <1>0, <2>1, <2>3
  <2>8. sm'["client"].count = Cardinality({d \in Callers : caller'[d].id # 0})
    BY <2>2, <2>6 DEF MInv, MCallers
  <2>9. \A d \in Callers :
           /\ caller'[d].pc \in {"allocated", "dispatched"} <=> caller'[d].id # 0
           /\ caller'[d].id <= sm'["client"].count
           /\ \A e \in Callers : caller'[d].id # 0 /\ caller'[d].id = caller'[e].id => d = e
    BY <2>2, <2>5, <2>7 DEF MInv, MCallers
  <2>10. \A d \in Callers :
           /\ caller'[d].pc = "allocated" =>
                 /\ copier'["client"][caller'[d].id] = "none"
                 /\ ~sm'["client"].closed => caller'[d].id \in sm'["client"].sessions
           /\ caller'[d].pc = "dispatched" => copier'["client"][caller'[d].id] # "none"
    BY <1>0, <2>2, <2>5, <2>7 DEF MInv, MCallers
  <2>11. \A j \in Ids : copier'["client"][j] # "none" => \E d \in Callers : caller'[d].id = j
    BY <1>0, <2>5 DEF MInv, MCallers
  <2>12. MCallers' BY <2>8, <2>9, <2>10, <2>11 DEF MCallers
  <2> QED BY <1>0, <2>2, <2>4, <2>12, QuietStep
<1>2. CASE ~sm["client"].closed
  <2> DEFINE i == sm["client"].count + 1
             r == [pc |-> "allocated", id |-> i]
             m == [sm["client"] EXCEPT !.count = i, !.sessions = @ \cup {i}]
  <2>0. sm["client"] \in Managers /\ sm["client"].count \in Nat /\ sm["client"].sessions \subseteq Nat
    BY <1>0, SideFacts DEF Managers
  <2>1. i \in Nat /\ i # 0 /\ r \in Callings /\ r.pc = "allocated" /\ r.id = i
    BY <2>0 DEF Callings, CallerPcs
  <2>2. m \in Managers /\ m.count = i /\ m.closed = sm["client"].closed /\ m.sessions = sm["client"].sessions \cup {i}
    <3> HIDE DEF i
    <3>1. m \in Managers /\ m.count = i /\ m.sessions = sm["client"].sessions \cup {i} BY <2>0, <2>1 DEF Managers
    <3>2. m.closed = sm["client"].closed BY <2>0, Zenon DEF Managers
    <3> QED BY <3>1, <3>2
  <2>3. caller' = [caller EXCEPT ![c] = r] /\ sm' = [sm EXCEPT !["client"] = m]
    BY <1>2 DEF DispatchAllocate
  <2>a. i = sm["client"].count + 1 OBVIOUS
  <2> HIDE DEF i, r, m
  <2>4. caller' \in [Callers -> Callings] /\ caller'[c] = r /\ \A d \in Callers : d # c => caller'[d] = caller[d]
    BY <1>0, <2>1, <2>3
  <2>5. sm' \in [Sides -> Managers] /\ sm'["client"] = m /\ sm'["server"] = sm["server"]
    BY <1>0, <2>2, <2>3, SideFacts
  <2>6. MType' BY <1>0, <2>4, <2>5 DEF MInv, MType
  <2>7. caller[c].id = 0 BY <1>0 DEF MInv, MCallers
  <2>8. \A d \in Callers : caller[d].id < i /\ caller[d].id \in Nat
    BY <1>0, <2>0, <2>a DEF MInv, MCallers, Callings
  <2>9. i \in Ids => copier["client"][i] = "none" BY <2>1, <2>8 DEF MInv, MCallers
  <2>10. i = Cardinality({d \in Callers : caller'[d].id # 0})
    <3> DEFINE S == {d \in Callers : caller[d].id # 0}
    <3>1. {d \in Callers : caller'[d].id # 0} = S \cup {c} BY <2>1, <2>4
    <3>2. c \notin S BY <2>7
    <3>3. IsFiniteSet(S) /\ Cardinality(S) = sm["client"].count
      <4>1. S \subseteq Callers OBVIOUS
      <4>2. Cardinality(S) = sm["client"].count BY DEF MInv, MCallers
      <4> HIDE DEF S
      <4> QED BY <4>1, <4>2, FS_Subset, MuxAssumption
    <3> HIDE DEF S
    <3>4. Cardinality(S \cup {c}) = Cardinality(S) + 1 BY <3>2, <3>3, FS_AddElement
    <3> QED BY <3>1, <3>3, <3>4, <2>a
  <2>11. i \in Ids
    <3> DEFINE S == {d \in Callers : caller'[d].id # 0}
    <3>1. S \subseteq Callers OBVIOUS
    <3>2. i = Cardinality(S) BY <2>10
    <3> HIDE DEF S
    <3>3. Cardinality(S) <= Cardinality(Callers) /\ Cardinality(Callers) \in Nat
      BY <3>1, FS_Subset, FS_CardinalityType, MuxAssumption
    <3> QED BY <2>1, <3>2, <3>3 DEF Ids
  <2>12. MCallers'
    <3>1. sm'["client"].count = Cardinality({d \in Callers : caller'[d].id # 0}) BY <2>2, <2>5, <2>10
    <3>2. \A d \in Callers :
             /\ caller'[d].pc \in {"allocated", "dispatched"} <=> caller'[d].id # 0
             /\ caller'[d].id <= sm'["client"].count
      BY <2>1, <2>2, <2>4, <2>5, <2>8 DEF MInv, MCallers
    <3>3. \A d, e \in Callers : caller'[d].id # 0 /\ caller'[d].id = caller'[e].id => d = e
      BY <2>1, <2>4, <2>8 DEF MInv, MCallers
    <3>4. \A d \in Callers :
             /\ caller'[d].pc = "allocated" =>
                   /\ copier'["client"][caller'[d].id] = "none"
                   /\ ~sm'["client"].closed => caller'[d].id \in sm'["client"].sessions
             /\ caller'[d].pc = "dispatched" => copier'["client"][caller'[d].id] # "none"
      BY <1>0, <2>1, <2>2, <2>4, <2>5, <2>9, <2>11 DEF MInv, MCallers
    <3>5. \A j \in Ids : copier'["client"][j] # "none" => \E d \in Callers : caller'[d].id = j
      <4> SUFFICES ASSUME NEW j \in Ids, copier["client"][j] # "none"
                   PROVE  \E d \in Callers : caller'[d].id = j
        BY <1>0
      <4>1. PICK d \in Callers : caller[d].id = j BY DEF MInv, MCallers
      <4>2. d # c BY <2>7, <4>1, IdsGiven DEF Ids
      <4> QED BY <2>4, <4>1, <4>2
    <3> QED BY <3>1, <3>2, <3>3, <3>4, <3>5 DEF MCallers
  <2>13. \A s \in Sides : sm'[s].closed = sm[s].closed /\ sm[s].sessions \subseteq sm'[s].sessions
    BY <2>2, <2>5 DEF Sides
  <2>14. MKnown' BY <1>0, <2>13, SideFacts DEF MInv, MKnown
  <2>15. MCopiers' BY <1>0 DEF MInv, MCopiers
  <2>16. MFrames'
    <3>1. \A s \in Sides : From(link'[s].q, link[s].q) BY <1>0 DEF From
    <3> QED BY <1>0, <3>1, FramesKept DEF Holds
  <2>17. MNew' BY <1>0, NewKept
  <2>18. \A s \in Sides, j \in Ids : Sent(s, j)' = Sent(s, j) /\ Sent(s, j) \in Nat
    BY <1>0, SentType DEF Sent
  <2>19. \A s \in Sides, j \in Ids : Sent(s, j)' \in Nat /\ Sent(s, j) <= Sent(s, j)' BY <2>18
  <2>20. \A s \in Sides, j \in Ids : copier[s][j] # "none" => (Found(s, j)' <=> Found(s, j))
    BY <1>0, <2>2, <2>5, <2>9 DEF Found, Sides
  <2>21. \A s \in Sides, j \in Ids : Live(s, j)' => Live(s, j) /\ Base(s, j)' = Base(s, j)
    BY <1>0, <2>20 DEF Live, Base
  <2>22. MData' BY <1>0, <2>18, <2>19, <2>21, DataKept
  <2>23. MHand' BY <1>0, <2>19, <2>20, HandKept
  <2> QED BY <2>6, <2>12, <2>14, <2>15, <2>16, <2>17, <2>22, <2>23 DEF MInv
<1> QED BY <1>1, <1>2

-----------------------------------------------------------------------------
(* The goroutines that copy. *)

\* A read: of the two pipes and the goroutine, what stands for the chunk in its hands.
LEMMA ReadStep ==
  ASSUME MInv, NEW s \in Sides, NEW i \in Ids, NEW pc \in CopierPcs, NEW r \in Inputs,
         NEW e \in BOOLEAN,
         UNCHANGED <<caller, sm, done, monitor, loop, out, link>>,
         copier' = [copier EXCEPT ![s][i] = pc],
         inp' = [inp EXCEPT ![s][i] = r],
         hasError' = hasError \/ hasError' = [hasError EXCEPT ![s][i] = e],
         \/ s = "client" /\ copier[s][i] = "first" /\ pc = "sendnew"
         \/ copier[s][i] = "copy" /\ pc = "sendkeep" /\ r.taken = inp[s][i].taken + 1
         \/ copier[s][i] \notin {"none", "sendnew", "sendkeep"} /\ pc = "end",
         \/ r.taken = inp[s][i].taken
         \/ r.taken = inp[s][i].taken + 1 /\ pc \in {"sendnew", "sendkeep"}
  PROVE  MInv'
<1>0. /\ copier \in [Sides -> [Ids -> CopierPcs]] /\ inp \in [Sides -> [Ids -> Inputs]]
      /\ hasError \in [Sides -> [Ids -> BOOLEAN]]
      /\ inp[s][i].taken \in Nat /\ r.taken \in Nat
  BY DEF MInv, MType, Inputs
<1>1. /\ copier' \in [Sides -> [Ids -> CopierPcs]]
      /\ \A t \in Sides, j \in Ids : copier'[t][j] = IF t = s /\ j = i THEN pc ELSE copier[t][j]
  BY <1>0
<1>2. /\ inp' \in [Sides -> [Ids -> Inputs]]
      /\ \A t \in Sides, j \in Ids : inp'[t][j] = IF t = s /\ j = i THEN r ELSE inp[t][j]
  BY <1>0
<1>3. hasError' \in [Sides -> [Ids -> BOOLEAN]]
  <2>1. CASE hasError' = hasError BY <1>0, <2>1
  <2>2. CASE hasError' = [hasError EXCEPT ![s][i] = e]
    <3>1. \A B, x : x \in B /\ hasError \in [Sides -> [Ids -> B]]
             => [hasError EXCEPT ![s][i] = x] \in [Sides -> [Ids -> B]]
      OBVIOUS
    <3> QED BY <1>0, <2>2, <3>1, Zenon
  <2> QED BY <2>1, <2>2
<1>4. MType' BY <1>1, <1>2, <1>3 DEF MInv, MType
<1>5. \A t \in Sides, j \in Ids : (copier'[t][j] = "none") <=> (copier[t][j] = "none") BY <1>1
<1>6. MCallers' BY <1>5, SideFacts, CallersKept
<1>7. MKnown' BY <1>5, SideFacts DEF MInv, MKnown
<1>8. MCopiers'
  <2>1. ASSUME NEW j \in Ids, ~(j = i)
        PROVE  \A t \in Sides : copier'[t][j] = copier[t][j] /\ inp'[t][j] = inp[t][j]
    BY <1>1, <1>2, <2>1
  <2>2. \A t \in Sides : t # s => copier'[t][i] = copier[t][i] /\ inp'[t][i] = inp[t][i]
    BY <1>1, <1>2
  <2>3. copier'[s][i] = pc /\ inp'[s][i] = r BY <1>1, <1>2
  <2> SUFFICES ASSUME NEW j \in Ids
               PROVE  /\ copier'["server"][j] \notin {"first", "sendnew"}
                      /\ copier'["server"][j] # "none" => copier'["client"][j] \notin {"none", "first", "sendnew"}
                      /\ copier'["client"][j] \in {"none", "first"} => inp'["client"][j].taken = 0
                      /\ copier'["client"][j] = "sendnew" => inp'["client"][j].taken \in {0, 1}
                      /\ copier'["server"][j] = "none" => inp'["server"][j].taken = 0
                      /\ \A t \in Sides : copier'[t][j] = "sendkeep" => inp'[t][j].taken # 0
    BY DEF MCopiers
  <2>4. CASE j # i BY <2>1, <2>4, SideFacts DEF MInv, MCopiers
  <2>5. CASE j = i /\ s = "client"
    BY <1>0, <2>2, <2>3, <2>5 DEF MInv, MCopiers, Sides
  <2>6. CASE j = i /\ s = "server"
    BY <1>0, <2>2, <2>3, <2>6 DEF MInv, MCopiers, Sides
  <2> QED BY <2>4, <2>5, <2>6 DEF Sides
<1>9. MFrames'
  <2>1. \A t \in Sides : From(link'[t].q, link[t].q) BY DEF From
  <2> QED BY <1>5, <2>1, FramesKept DEF Holds
<1>10. MNew'
  <2>1. \A j \in Ids : copier'["client"][j] \in {"none", "first", "sendnew"}
                          => copier["client"][j] \in {"none", "first", "sendnew"}
    BY <1>1, SideFacts
  <2>2. \A j \in Ids : copier'["client"][j] \in {"copy", "sendkeep"}
                          => copier["client"][j] \in {"copy", "sendkeep"}
    BY <1>1, SideFacts
  <2> QED BY <1>5, <2>1, <2>2, SideFacts, NewKept
<1>11. \A t \in Sides, j \in Ids : Sent(t, j)' = Sent(t, j) /\ Sent(t, j) \in Nat
  <2>1. ASSUME NEW t \in Sides, NEW j \in Ids, ~(t = s /\ j = i) PROVE Sent(t, j)' = Sent(t, j)
    BY <1>1, <1>2, <2>1 DEF Sent
  <2>2. Sent(s, i)' = Sent(s, i)
    <3>1. copier'[s][i] = pc /\ inp'[s][i] = r BY <1>1, <1>2
    <3>2. copier[s][i] = "first" => inp[s][i].taken = 0 BY DEF MInv, MCopiers, Sides
    <3>3. CASE s = "client" /\ copier[s][i] = "first" /\ pc = "sendnew" BY <1>0, <3>1, <3>2, <3>3 DEF Sent
    <3>4. CASE copier[s][i] = "copy" /\ pc = "sendkeep" /\ r.taken = inp[s][i].taken + 1
      <4>1. Sent(s, i) = inp[s][i].taken BY <3>4 DEF Sent
      <4>2. inp'[s][i].taken = inp[s][i].taken + 1 /\ copier'[s][i] = "sendkeep" BY <3>1, <3>4
      <4>3. Sent(s, i)' = inp[s][i].taken BY <1>0, <4>2 DEF Sent
      <4> QED BY <4>1, <4>3
    <3>5. CASE copier[s][i] \notin {"none", "sendnew", "sendkeep"} /\ pc = "end"
      BY <1>0, <3>1, <3>5 DEF Sent
    <3> QED BY <3>3, <3>4, <3>5
  <2> QED BY <2>1, <2>2, SentType
<1>12. \A t \in Sides, j \in Ids : Sent(t, j)' \in Nat /\ Sent(t, j) <= Sent(t, j)' BY <1>11
<1>13. \A t \in Sides, j \in Ids : Live(t, j)' => Live(t, j) /\ Base(t, j)' = Base(t, j)
  BY <1>5 DEF Live, Base, Found
<1>14. MData' BY <1>11, <1>12, <1>13, DataKept
<1>15. \A t \in Sides, j \in Ids : Found(t, j)' <=> Found(t, j) BY DEF Found
<1>16. MHand' BY <1>12, <1>15, HandKept
<1> QED BY <1>4, <1>6, <1>7, <1>8, <1>9, <1>10, <1>14, <1>16 DEF MInv

LEMMA PipeFacts ==
  /\ \A r \in Inputs : /\ Close(r) \in Inputs /\ Close(r).taken = r.taken /\ Close(r).sent = r.sent
                       /\ Interrupt(r) \in Inputs /\ Interrupt(r).taken = r.taken /\ Interrupt(r).sent = r.sent
  /\ \A r \in Outputs : /\ Close(r) \in Outputs /\ Close(r).got = r.got /\ Close(r).st # "open"
                        /\ Interrupt(r) \in Outputs /\ Interrupt(r).got = r.got /\ Interrupt(r).st # "open"
<1>1. ASSUME NEW r \in Inputs
      PROVE  /\ Close(r) \in Inputs /\ Close(r).taken = r.taken /\ Close(r).sent = r.sent
             /\ Interrupt(r) \in Inputs /\ Interrupt(r).taken = r.taken /\ Interrupt(r).sent = r.sent
  BY DEF Inputs, Close, Interrupt, PipeStates
<1>2. ASSUME NEW r \in Outputs
      PROVE  /\ Close(r) \in Outputs /\ Close(r).got = r.got /\ Close(r).st # "open"
             /\ Interrupt(r) \in Outputs /\ Interrupt(r).got = r.got /\ Interrupt(r).st # "open"
  BY DEF Outputs, Close, Interrupt, PipeStates
<1> QED BY <1>1, <1>2

LEMMA FirstPayloadStep ==
  ASSUME MInv, NEW i \in Ids, FirstPayload(i)
  PROVE  MInv'
<1> DEFINE s == "client"
           in == inp["client"][i]
<1>0. /\ UNCHANGED <<caller, sm, done, monitor, loop, out, link>>
      /\ copier[s][i] = "first" /\ in \in Inputs /\ in.taken \in Nat
      /\ inp \in [Sides -> [Ids -> Inputs]] /\ s \in Sides
  BY SideFacts DEF FirstPayload, MInv, MType, Inputs
<1>1. CASE /\ inp' = [inp EXCEPT !["client"][i].taken = @ + 1]
           /\ copier' = [copier EXCEPT !["client"][i] = "sendnew"]
           /\ UNCHANGED hasError
  <2> DEFINE r == [in EXCEPT !.taken = @ + 1]
  <2>1. r \in Inputs /\ r.taken = in.taken + 1 BY <1>0 DEF Inputs
  <2>2. inp' = [inp EXCEPT ![s][i] = r] BY <1>1
  <2> HIDE DEF r
  <2>3. "sendnew" \in CopierPcs /\ TRUE \in BOOLEAN BY DEF CopierPcs
  <2> QED BY <1>0, <1>1, <2>1, <2>2, <2>3, ReadStep
<1>2. CASE /\ copier' = [copier EXCEPT !["client"][i] = "sendnew"]
           /\ UNCHANGED <<inp, hasError>>
  <2>1. inp' = [inp EXCEPT ![s][i] = in] BY <1>0, <1>2
  <2>2. "sendnew" \in CopierPcs /\ TRUE \in BOOLEAN BY DEF CopierPcs
  <2> QED BY <1>0, <1>2, <2>1, <2>2, ReadStep
<1>3. CASE /\ hasError' = [hasError EXCEPT !["client"][i] = TRUE]
           /\ inp' = [inp EXCEPT !["client"][i] = Interrupt(@)]
           /\ copier' = [copier EXCEPT !["client"][i] = "end"]
  <2> DEFINE r == Interrupt(in)
  <2>1. r \in Inputs /\ r.taken = in.taken BY <1>0, PipeFacts
  <2>2. inp' = [inp EXCEPT ![s][i] = r] BY <1>3
  <2> HIDE DEF r
  <2>3. "end" \in CopierPcs /\ TRUE \in BOOLEAN BY DEF CopierPcs
  <2> QED BY <1>0, <1>3, <2>1, <2>2, <2>3, ReadStep
<1> QED BY <1>1, <1>2, <1>3 DEF FirstPayload

LEMMA CopyReadStep ==
  ASSUME MInv, NEW s \in Sides, NEW i \in Ids, CopyRead(s, i)
  PROVE  MInv'
<1> DEFINE in == inp[s][i]
<1>0. /\ UNCHANGED <<caller, sm, done, monitor, loop, out, link>>
      /\ copier[s][i] = "copy" /\ in \in Inputs /\ in.taken \in Nat
      /\ inp \in [Sides -> [Ids -> Inputs]]
  BY DEF CopyRead, MInv, MType, Inputs
<1>1. CASE /\ inp' = [inp EXCEPT ![s][i].taken = @ + 1]
           /\ copier' = [copier EXCEPT ![s][i] = "sendkeep"]
           /\ UNCHANGED hasError
  <2> DEFINE r == [in EXCEPT !.taken = @ + 1]
  <2>1. r \in Inputs /\ r.taken = in.taken + 1 BY <1>0 DEF Inputs
  <2>2. inp' = [inp EXCEPT ![s][i] = r] BY <1>1
  <2>3. "sendkeep" \in CopierPcs /\ TRUE \in BOOLEAN BY DEF CopierPcs
  <2>4. PICK x \in Inputs : x = r BY <2>1
  <2>5. x.taken = in.taken + 1 /\ inp' = [inp EXCEPT ![s][i] = x] BY <2>1, <2>2, <2>4
  <2> HIDE DEF r
  <2> QED BY <1>0, <1>1, <2>3, <2>5, ReadStep
<1>2. CASE /\ hasError' = [hasError EXCEPT ![s][i] = in.st = "errored"]
           /\ copier' = [copier EXCEPT ![s][i] = "end"]
           /\ UNCHANGED inp
  <2>1. inp' = [inp EXCEPT ![s][i] = in] BY <1>0, <1>2
  <2>2. "end" \in CopierPcs BY DEF CopierPcs
  <2>3. PICK e \in BOOLEAN : hasError' = [hasError EXCEPT ![s][i] = e]
    <3>1. (in.st = "errored") \in BOOLEAN OBVIOUS
    <3> QED BY <1>2, <3>1
  <2>4. PICK x \in Inputs : x = in BY <1>0
  <2>5. x.taken = in.taken /\ inp' = [inp EXCEPT ![s][i] = x] BY <2>1, <2>4
  <2>6. copier[s][i] \notin {"none", "sendnew", "sendkeep"} /\ x.taken = inp[s][i].taken BY <1>0, <2>5
  <2>7. copier' = [copier EXCEPT ![s][i] = "end"] BY <1>2
  <2> HIDE DEF in
  <2> QED BY <1>0, <2>2, <2>3, <2>5, <2>6, <2>7, ReadStep
<1> QED BY <1>1, <1>2 DEF CopyRead

LEMMA PutFacts ==
  ASSUME MType, NEW s \in Sides, NEW f \in Frames, link' = [link EXCEPT ![s] = Put(@, f)]
  PROVE  /\ link' \in [Sides -> Links] /\ link'[Peer(s)] = link[Peer(s)]
         /\ link[s].st # "open" => link' = link
         /\ link[s].st = "open" => link'[s].q = Append(link[s].q, f) /\ link'[s].st = "open"
<1>0. link \in [Sides -> Links] /\ link[s] \in Links /\ link[s].q \in Seq(Frames) BY DEF MType, Links
<1>1. CASE link[s].st # "open"
  <2>1. Put(link[s], f) = link[s] BY <1>1 DEF Put
  <2>2. link' = link BY <1>0, <2>1
  <2> QED BY <1>0, <1>1, <2>2
<1>2. CASE link[s].st = "open"
  <2> DEFINE l == [link[s] EXCEPT !.q = Append(@, f)]
  <2>1. Append(link[s].q, f) \in Seq(Frames) BY <1>0, AppendFacts
  <2>2. l \in Links /\ l.q = Append(link[s].q, f) /\ l.st = "open" BY <1>0, <1>2, <2>1 DEF Links
  <2>3. link' = [link EXCEPT ![s] = l] BY <1>2 DEF Put
  <2> HIDE DEF l
  <2> QED BY <1>0, <1>2, <2>2, <2>3, SideFacts
<1> QED BY <1>1, <1>2

\* A frame goes into the link: what it does to all of the invariant but the tables.
LEMMA PutStep ==
  ASSUME MInv, NEW s \in Sides, NEW f \in Frames, link[s].st = "open",
         link'[s].q = Append(link[s].q, f), link'[s].st = "open", link'[Peer(s)] = link[Peer(s)],
         Linked(f.id), IsChunk(f, s), f.status = "keep" => HasData(f), f.status = "end" => ~HasData(f),
         f.status # "none",
         \A t \in Sides : Holds(t)' => /\ Holds(t) /\ loop'[t].f.id = loop[t].f.id
                                       /\ loop'[t].pc # "reply" => loop[t].pc # "reply",
         \A t \in Sides : loop'[t].pc = "write" => loop'[t] = loop[t],
         loop'["server"].pc = "gone" <=> loop["server"].pc = "gone",
         \A t \in Sides, j \in Ids : (copier'[t][j] = "none") <=> (copier[t][j] = "none"),
         \A j \in Ids : copier'["client"][j] \in {"none", "first", "sendnew"}
                          => copier["client"][j] \in {"none", "first", "sendnew"},
         \A j \in Ids : copier'["client"][j] \in {"copy", "sendkeep"}
                          => (s = "client" /\ IsNew(f, j)) \/ copier["client"][j] \in {"copy", "sendkeep"},
         s = "client" => \A j \in Ids : /\ IsNew(f, j) => /\ copier["client"][j] = "sendnew"
                                                          /\ copier'["client"][j] \notin {"none", "first", "sendnew"}
                                        /\ f.status = "keep" /\ f.id = j => copier["client"][j] = "sendkeep",
         \A t \in Sides, j \in Ids : /\ out'[t][j].got = out[t][j].got
                                     /\ out'[t][j].st = "open" => out[t][j].st = "open"
                                     /\ out'[t][j].st = "open" /\ Found(t, j) => Found(t, j)',
         \A t \in Sides, j \in Ids : Live(t, j)' => Live(t, j) /\ Base(t, j)' = Base(t, j),
         \A j \in Ids : Sent(Peer(s), j)' = Sent(Peer(s), j),
         \A j \in Ids : DataOf(f, j) => Num(f) = Sent(s, j) + 1 /\ Sent(s, j)' = Sent(s, j) + 1,
         \A j \in Ids : ~DataOf(f, j) => Sent(s, j)' = Sent(s, j)
  PROVE  MFrames' /\ MNew' /\ MData' /\ MHand'
<1>1. MFrames'
  <2>1. \A t \in Sides, j \in Ids : copier[t][j] # "none" => copier'[t][j] # "none" OBVIOUS
  <2> QED BY <2>1, FramesPut
<1>2. MNew'
  <2>1. CASE s = "client"
    BY <2>1, NewPut, SideFacts
  <2>2. CASE s = "server"
    <3>1. link'["client"] = link["client"] BY <2>2 DEF Peer
    <3> QED BY <2>2, <3>1, NewKept, SideFacts
  <2> QED BY <2>1, <2>2 DEF Sides
<1>3. MData' BY DataPut
<1>4. \A t \in Sides, j \in Ids : Sent(t, j)' \in Nat /\ Sent(t, j) <= Sent(t, j)'
  <2> SUFFICES ASSUME NEW t \in Sides, NEW j \in Ids PROVE Sent(t, j)' \in Nat /\ Sent(t, j) <= Sent(t, j)' OBVIOUS
  <2>1. Sent(t, j) \in Nat BY SentType
  <2>2. Sent(t, j)' = Sent(t, j) \/ Sent(t, j)' = Sent(t, j) + 1 BY SideFacts
  <2> QED BY <2>1, <2>2
<1>5. MHand' BY <1>4, HandKept
<1> QED BY <1>1, <1>2, <1>3, <1>5

LEMMA NextFrameFacts ==
  ASSUME MInv, NEW s \in Sides, NEW i \in Ids, copier[s][i] \in {"sendnew", "sendkeep"}
  PROVE  LET f == NextFrame(s, i) IN
         /\ f \in Frames /\ f.id = i /\ IsChunk(f, s)
         /\ f.status = IF copier[s][i] = "sendnew" THEN "new" ELSE "keep"
         /\ HasData(f) <=> inp[s][i].taken # 0
         /\ HasData(f) => Num(f) = inp[s][i].taken
<1> DEFINE f == NextFrame(s, i)
           n == inp[s][i].taken
<1>0. n \in Nat BY DEF MInv, MType, Inputs
<1>a. i \in Nat BY DEF Ids
<1>1. Chunk(s, i, n) \in Sides \X Nat \X Nat BY <1>0, <1>a DEF Chunk
<1>2. Chunk(s, i, n)[3] = n /\ Chunk(s, i, n) # NoData
  <2>1. Chunk(s, i, n)[3] = n BY DEF Chunk
  <2>2. Len(Chunk(s, i, n)) = 3 /\ Len(NoData) = 0 BY DEF Chunk, NoData
  <2>3. Chunk(s, i, n) # NoData BY <2>2
  <2> QED BY <2>1, <2>3
<1>3. /\ f.id = i /\ f.status = IF copier[s][i] = "sendnew" THEN "new" ELSE "keep"
      /\ f.data = IF n = 0 THEN NoData ELSE Chunk(s, i, n)
  BY DEF NextFrame, Frame
<1>4. f \in Frames
  <2> DEFINE x == IF copier[s][i] = "sendnew" THEN "new" ELSE "keep"
             d == IF n = 0 THEN NoData ELSE Chunk(s, i, n)
  <2>1. x \in {"none", "new", "keep", "end"} /\ d \in Datas /\ FALSE \in BOOLEAN BY <1>1 DEF Datas
  <2>2. f = Frame(i, x, d, FALSE) BY DEF NextFrame
  <2> HIDE DEF f, x, d
  <2> QED BY <1>a, <2>1, <2>2, FrameType
<1> HIDE DEF f
<1>5. HasData(f) <=> n # 0 BY <1>2, <1>3 DEF HasData
<1>6. HasData(f) => Num(f) = n /\ IsChunk(f, s) BY <1>0, <1>2, <1>3, <1>5 DEF Num, IsChunk
<1>7. IsChunk(f, s) BY <1>6 DEF IsChunk
<1> QED BY <1>3, <1>4, <1>5, <1>6, <1>7 DEF f

LEMMA CopyWriteStep ==
  ASSUME MInv, NEW s \in Sides, NEW i \in Ids, CopyWrite(s, i)
  PROVE  MInv'
<1>0. /\ UNCHANGED <<caller, sm, done, monitor, loop, out>>
      /\ copier[s][i] \in {"sendnew", "sendkeep"} /\ link' = [link EXCEPT ![s] = Put(@, NextFrame(s, i))]
      /\ MType /\ inp \in [Sides -> [Ids -> Inputs]] /\ copier \in [Sides -> [Ids -> CopierPcs]]
  BY DEF CopyWrite, MInv, MType
<1>1. PICK f \in Frames :
         /\ f = NextFrame(s, i) /\ f.id = i /\ IsChunk(f, s)
         /\ f.status = IF copier[s][i] = "sendnew" THEN "new" ELSE "keep"
         /\ HasData(f) <=> inp[s][i].taken # 0
         /\ HasData(f) => Num(f) = inp[s][i].taken
  BY <1>0, NextFrameFacts
<1>2. /\ link' \in [Sides -> Links] /\ link'[Peer(s)] = link[Peer(s)]
      /\ link[s].st # "open" => link' = link
      /\ link[s].st = "open" => link'[s].q = Append(link[s].q, f) /\ link'[s].st = "open"
  <2>1. link' = [link EXCEPT ![s] = Put(@, f)] BY <1>0, <1>1
  <2> QED BY <1>0, <2>1, PutFacts
<1>3. inp[s][i].taken \in Nat BY <1>0 DEF Inputs
<1>4. Linked(i) BY DEF Linked, MInv, MCopiers, Sides, CopyWrite
<1>5. \A t \in Sides, j \in Ids : Found(t, j)' <=> Found(t, j) BY <1>0 DEF Found
<1>6. CASE link[s].st = "open"
  <2>1. copier' = [copier EXCEPT ![s][i] = "copy"] /\ UNCHANGED <<hasError, inp>>
    BY <1>6 DEF CopyWrite
  <2>2. /\ copier' \in [Sides -> [Ids -> CopierPcs]]
        /\ \A t \in Sides, j \in Ids : copier'[t][j] = IF t = s /\ j = i THEN "copy" ELSE copier[t][j]
    BY <1>0, <2>1 DEF CopierPcs
  <2>3. MType' BY <1>0, <1>2, <2>1, <2>2 DEF MType
  <2>4. \A t \in Sides, j \in Ids : (copier'[t][j] = "none") <=> (copier[t][j] = "none") BY <1>0, <2>2
  <2>5. MCallers' BY <1>0, <2>4, SideFacts, CallersKept
  <2>6. MKnown' BY <1>0, <2>4, SideFacts DEF MInv, MKnown
  <2>7. MCopiers'
    <3>1. \A t \in Sides, j \in Ids : copier'[t][j] = copier[t][j] \/ (copier'[t][j] = "copy" /\ copier[t][j] \in {"sendnew", "sendkeep"})
      BY <1>0, <2>2
    <3> QED BY <2>1, <3>1, SideFacts DEF MInv, MCopiers
  <2>8. \A j \in Ids : DataOf(f, j) <=> j = i /\ inp[s][i].taken # 0 BY <1>1 DEF DataOf
  <2>9. \A j \in Ids : Sent(Peer(s), j)' = Sent(Peer(s), j) BY <2>1, <2>2, SideFacts DEF Sent
  <2>10. \A j \in Ids : j # i => Sent(s, j)' = Sent(s, j) BY <2>1, <2>2 DEF Sent
  <2>11. /\ inp[s][i].taken # 0 => inp[s][i].taken = Sent(s, i) + 1 /\ Sent(s, i)' = Sent(s, i) + 1
         /\ inp[s][i].taken = 0 => Sent(s, i)' = Sent(s, i)
    BY <1>0, <1>3, <2>1, <2>2 DEF Sent
  <2>12. \A t \in Sides, j \in Ids : Live(t, j)' => Live(t, j) /\ Base(t, j)' = Base(t, j)
    BY <1>0, <1>5, <2>4 DEF Live, Base
  <2>13. \A j \in Ids : DataOf(f, j) => Num(f) = Sent(s, j) + 1 /\ Sent(s, j)' = Sent(s, j) + 1
    BY <1>1, <2>8, <2>11 DEF DataOf
  <2>14. \A j \in Ids : ~DataOf(f, j) => Sent(s, j)' = Sent(s, j) BY <2>8, <2>10, <2>11
  <2>15. \A j \in Ids : copier'["client"][j] \in {"none", "first", "sendnew"}
                          => copier["client"][j] \in {"none", "first", "sendnew"}
    BY <2>2, SideFacts
  <2>16. \A j \in Ids : copier'["client"][j] \in {"copy", "sendkeep"}
                          => (s = "client" /\ IsNew(f, j)) \/ copier["client"][j] \in {"copy", "sendkeep"}
    BY <1>0, <1>1, <2>2, SideFacts DEF IsNew
  <2>17. s = "client" => \A j \in Ids : /\ IsNew(f, j) => /\ copier["client"][j] = "sendnew"
                                                          /\ copier'["client"][j] \notin {"none", "first", "sendnew"}
                                        /\ f.status = "keep" /\ f.id = j => copier["client"][j] = "sendkeep"
    BY <1>0, <1>1, <2>2, SideFacts DEF IsNew
  <2>18. /\ Linked(f.id) /\ IsChunk(f, s) /\ (f.status = "end" => ~HasData(f)) /\ f.status # "none"
         /\ f.status = "keep" => HasData(f)
    <3>1. copier[s][i] = "sendkeep" => inp[s][i].taken # 0 BY DEF MInv, MCopiers
    <3> QED BY <1>0, <1>1, <1>4, <3>1
  <2>19. \A t \in Sides : Holds(t)' => /\ Holds(t) /\ loop'[t].f.id = loop[t].f.id
                                       /\ loop'[t].pc # "reply" => loop[t].pc # "reply"
    BY <1>0 DEF Holds
  <2>20. MFrames' /\ MNew' /\ MData' /\ MHand'
    BY <1>0, <1>2, <1>5, <1>6, <2>4, <2>9, <2>12, <2>13, <2>14, <2>15, <2>16, <2>17, <2>18, <2>19, PutStep
  <2> QED BY <2>3, <2>5, <2>6, <2>7, <2>20 DEF MInv
<1>7. CASE link[s].st # "open"
  <2>0. link' = link /\ copier' = [copier EXCEPT ![s][i] = "end"] /\ hasError' = [hasError EXCEPT ![s][i] = TRUE]
    BY <1>2, <1>7 DEF CopyWrite
  <2>1. /\ inp' \in [Sides -> [Ids -> Inputs]]
        /\ \A t \in Sides, j \in Ids : inp'[t][j].taken = inp[t][j].taken
    <3>1. CASE inp' = inp BY <1>0, <3>1
    <3>2. CASE inp' = [inp EXCEPT ![s][i] = Interrupt(@)]
      <4>1. Interrupt(inp[s][i]) \in Inputs /\ Interrupt(inp[s][i]).taken = inp[s][i].taken BY <1>0, PipeFacts
      <4>2. \A t \in Sides, j \in Ids : inp'[t][j] = IF t = s /\ j = i THEN Interrupt(inp[s][i]) ELSE inp[t][j]
        BY <1>0, <3>2
      <4>3. inp' \in [Sides -> [Ids -> Inputs]] BY <1>0, <3>2, <4>1
      <4> QED BY <4>1, <4>2, <4>3
    <3> QED BY <1>7, <3>1, <3>2 DEF CopyWrite
  <2>2. /\ copier' \in [Sides -> [Ids -> CopierPcs]]
        /\ \A t \in Sides, j \in Ids : copier'[t][j] = IF t = s /\ j = i THEN "end" ELSE copier[t][j]
    BY <1>0, <2>0 DEF CopierPcs
  <2>3. hasError' \in [Sides -> [Ids -> BOOLEAN]]
    <3>1. hasError \in [Sides -> [Ids -> BOOLEAN]] BY <1>0 DEF MType
    <3>2. \A B, x : x \in B /\ hasError \in [Sides -> [Ids -> B]]
             => [hasError EXCEPT ![s][i] = x] \in [Sides -> [Ids -> B]]
      OBVIOUS
    <3>3. TRUE \in BOOLEAN OBVIOUS
    <3> QED BY <2>0, <3>1, <3>2, <3>3, Zenon
  <2>4. MType' BY <1>0, <2>0, <2>1, <2>2, <2>3 DEF MType
  <2>5. \A t \in Sides, j \in Ids : (copier'[t][j] = "none") <=> (copier[t][j] = "none") BY <1>0, <2>2
  <2>6. MCallers' BY <1>0, <2>5, SideFacts, CallersKept
  <2>7. MKnown' BY <1>0, <2>5, SideFacts DEF MInv, MKnown
  <2>8. MCopiers'
    <3>1. \A t \in Sides, j \in Ids : copier'[t][j] = copier[t][j] \/ (copier'[t][j] = "end" /\ copier[t][j] \in {"sendnew", "sendkeep"})
      BY <1>0, <2>2
    <3> QED BY <2>1, <3>1, SideFacts DEF MInv, MCopiers
  <2>9. MFrames'
    <3>1. \A t \in Sides : From(link'[t].q, link[t].q) BY <2>0 DEF From
    <3> QED BY <1>0, <2>5, <3>1, FramesKept DEF Holds
  <2>10. MNew'
    <3>1. \A j \in Ids : copier'["client"][j] \in {"none", "first", "sendnew"}
                          => copier["client"][j] \in {"none", "first", "sendnew"}
      BY <2>2, SideFacts
    <3>2. \A j \in Ids : copier'["client"][j] \in {"copy", "sendkeep"}
                          => copier["client"][j] \in {"copy", "sendkeep"}
      BY <2>2, SideFacts
    <3> QED BY <1>0, <2>0, <2>5, <3>1, <3>2, SideFacts, NewKept
  <2>11. ASSUME NEW t \in Sides, NEW j \in Ids
         PROVE  Sent(t, j)' \in Nat /\ Sent(t, j) <= Sent(t, j)' /\ (link'[t].st = "open" => Sent(t, j)' = Sent(t, j))
    <3>1. inp[t][j].taken \in Nat BY <1>0 DEF Inputs
    <3>2. CASE t = s /\ j = i
      <4>1. Sent(t, j)' = inp[t][j].taken BY <2>1, <2>2, <3>2 DEF Sent
      <4>2. Sent(t, j) <= inp[t][j].taken BY <3>1 DEF Sent
      <4> QED BY <1>7, <2>0, <3>1, <3>2, <4>1, <4>2
    <3>3. CASE ~(t = s /\ j = i)
      <4>1. copier'[t][j] = copier[t][j] /\ inp'[t][j].taken = inp[t][j].taken BY <2>1, <2>2, <3>3
      <4>2. Sent(t, j)' = Sent(t, j) BY <4>1 DEF Sent
      <4>3. Sent(t, j) \in Nat BY SentType
      <4> QED BY <4>2, <4>3
    <3> QED BY <3>2, <3>3
  <2>12. \A t \in Sides, j \in Ids : Live(t, j)' => Live(t, j) /\ Base(t, j)' = Base(t, j)
    BY <1>0, <1>5, <2>5 DEF Live, Base
  <2>13. MData' BY <1>0, <2>0, <2>11, <2>12, DataKept
  <2>14. MHand' BY <1>0, <1>5, <2>11, HandKept
  <2> QED BY <2>4, <2>6, <2>7, <2>8, <2>9, <2>10, <2>13, <2>14 DEF MInv
<1> QED BY <1>6, <1>7

\* A session is closed: it leaves the table and its output takes nothing more.
LEMMA RemovedFacts ==
  ASSUME MType, NEW s \in Sides, NEW i \in Ids, sm' = [sm EXCEPT ![s] = Removed(@, i)]
  PROVE  /\ sm' \in [Sides -> Managers]
         /\ \A t \in Sides : /\ sm'[t].count = sm[t].count /\ sm'[t].closed = sm[t].closed
                             /\ sm'[t].sessions \subseteq sm[t].sessions
                             /\ \A j \in sm[t].sessions : j \notin sm'[t].sessions => t = s /\ j = i
<1>0. sm \in [Sides -> Managers] /\ sm[s] \in Managers BY DEF MType
<1>4. PICK m \in Managers : /\ m = Removed(sm[s], i)
                            /\ m.count = sm[s].count /\ m.closed = sm[s].closed /\ m.sessions \subseteq sm[s].sessions
                            /\ \A j \in sm[s].sessions : j \notin m.sessions => j = i
  <2>1. CASE sm[s].closed BY <1>0, <2>1 DEF Removed
  <2>2. CASE ~sm[s].closed
    <3> DEFINE m == [sm[s] EXCEPT !.sessions = @ \ {i}]
    <3>1. m = Removed(sm[s], i) BY <2>2 DEF Removed
    <3>2. m \in Managers /\ m.count = sm[s].count /\ m.sessions = sm[s].sessions \ {i} BY <1>0 DEF Managers
    <3>3. m.closed = sm[s].closed BY <1>0, Zenon DEF Managers
    <3> HIDE DEF m
    <3> QED BY <3>1, <3>2, <3>3
  <2> QED BY <2>1, <2>2
<1>5. sm' = [sm EXCEPT ![s] = m] BY <1>4
<1>6. sm' \in [Sides -> Managers] /\ sm'[s] = m /\ \A t \in Sides : t # s => sm'[t] = sm[t] BY <1>0, <1>5
<1>7. ASSUME NEW t \in Sides
      PROVE  /\ sm'[t].count = sm[t].count /\ sm'[t].closed = sm[t].closed
             /\ sm'[t].sessions \subseteq sm[t].sessions
             /\ \A j \in sm[t].sessions : j \notin sm'[t].sessions => t = s /\ j = i
  <2>1. CASE t = s BY <1>4, <1>6, <2>1
  <2>2. CASE t # s BY <1>6, <2>2
  <2> QED BY <2>1, <2>2
<1> QED BY <1>6, <1>7

LEMMA OutputEnds ==
  ASSUME MType, NEW s \in Sides, NEW i \in Ids, NEW o \in Outputs,
         out' = [out EXCEPT ![s][i] = o], o.got = out[s][i].got, o.st # "open"
  PROVE  /\ out' \in [Sides -> [Ids -> Outputs]] /\ out'[s][i].st # "open"
         /\ \A t \in Sides, j \in Ids : /\ out'[t][j].got = out[t][j].got
                                        /\ out'[t][j].st = "open" => out[t][j].st = "open"
<1>0. out \in [Sides -> [Ids -> Outputs]] BY DEF MType
<1>1. /\ out' \in [Sides -> [Ids -> Outputs]]
      /\ \A t \in Sides, j \in Ids : out'[t][j] = IF t = s /\ j = i THEN o ELSE out[t][j]
  BY <1>0
<1> QED BY <1>1

LEMMA SessionCloseFacts ==
  ASSUME MType, NEW s \in Sides, NEW i \in Ids, SessionClose(s, i)
  PROVE  /\ out' \in [Sides -> [Ids -> Outputs]] /\ sm' \in [Sides -> Managers]
         /\ out'[s][i].st # "open"
         /\ \A t \in Sides, j \in Ids : /\ out'[t][j].got = out[t][j].got
                                        /\ out'[t][j].st = "open" => out[t][j].st = "open"
         /\ \A t \in Sides : /\ sm'[t].count = sm[t].count /\ sm'[t].closed = sm[t].closed
                             /\ sm'[t].sessions \subseteq sm[t].sessions
                             /\ \A j \in sm[t].sessions : j \notin sm'[t].sessions => t = s /\ j = i
<1>0. out[s][i] \in Outputs BY DEF MType
<1>1. PICK o \in Outputs : o = Close(out[s][i]) /\ o.got = out[s][i].got /\ o.st # "open" BY <1>0, PipeFacts
<1>2. out' = [out EXCEPT ![s][i] = o] BY <1>1 DEF SessionClose
<1>3. /\ out' \in [Sides -> [Ids -> Outputs]] /\ out'[s][i].st # "open"
      /\ \A t \in Sides, j \in Ids : /\ out'[t][j].got = out[t][j].got
                                     /\ out'[t][j].st = "open" => out[t][j].st = "open"
  BY <1>1, <1>2, OutputEnds
<1>4. sm' = [sm EXCEPT ![s] = Removed(@, i)] BY DEF SessionClose
<1>5. /\ sm' \in [Sides -> Managers]
      /\ \A t \in Sides : /\ sm'[t].count = sm[t].count /\ sm'[t].closed = sm[t].closed
                          /\ sm'[t].sessions \subseteq sm[t].sessions
                          /\ \A j \in sm[t].sessions : j \notin sm'[t].sessions => t = s /\ j = i
  BY ZenonT(40), <1>4, RemovedFacts
<1> QED BY <1>3, <1>5

LEMMA InterruptFacts ==
  ASSUME MType, NEW s \in Sides, NEW i \in Ids, inp' = [inp EXCEPT ![s][i] = Interrupt(@)]
  PROVE  /\ inp' \in [Sides -> [Ids -> Inputs]]
         /\ \A t \in Sides, j \in Ids : inp'[t][j].taken = inp[t][j].taken
<1>0. inp \in [Sides -> [Ids -> Inputs]] /\ inp[s][i] \in Inputs BY DEF MType
<1>1. PICK r \in Inputs : r = Interrupt(inp[s][i]) /\ r.taken = inp[s][i].taken BY <1>0, PipeFacts
<1>2. inp' = [inp EXCEPT ![s][i] = r] BY <1>1
<1>3. /\ inp' \in [Sides -> [Ids -> Inputs]]
      /\ \A t \in Sides, j \in Ids : inp'[t][j] = IF t = s /\ j = i THEN r ELSE inp[t][j]
  BY <1>0, <1>2
<1> QED BY <1>1, <1>3

\* Sessions leave or their goroutines go on to their end, and no frame moves.
LEMMA LeaveStep ==
  ASSUME MInv, MType', UNCHANGED <<caller, done, link>>,
         \A t \in Sides : /\ sm'[t].count = sm[t].count /\ sm'[t].closed = sm[t].closed
                          /\ sm'[t].sessions \subseteq sm[t].sessions,
         \A t \in Sides : \A j \in sm[t].sessions : j \notin sm'[t].sessions =>
            j \in Ids /\ out'[t][j].st # "open" /\ copier["client"][j] # "none",
         \A t \in Sides, j \in Ids : /\ out'[t][j].got = out[t][j].got
                                     /\ out'[t][j].st = "open" => out[t][j].st = "open"
                                     /\ inp'[t][j].taken = inp[t][j].taken
                                     /\ \/ copier'[t][j] = copier[t][j]
                                        \/ copier[t][j] \in {"end", "close"} /\ copier'[t][j] \in {"close", "gone"},
         \A t \in Sides : Holds(t)' => /\ Holds(t) /\ loop'[t].f.id = loop[t].f.id
                                       /\ loop'[t].pc # "reply" => loop[t].pc # "reply",
         \A t \in Sides : loop'[t].pc = "write" => loop'[t] = loop[t],
         \A t \in Sides : loop'[t].pc = "gone" <=> loop[t].pc = "gone",
         \A t \in Sides : loop[t].pc = "write" => loop'[t] = loop[t] \/ out'[t][loop[t].f.id].st # "open"
  PROVE  MInv'
<1>0. \A t \in Sides, j \in Ids : (copier'[t][j] = "none") <=> (copier[t][j] = "none") OBVIOUS
<1>1. /\ MCallers' /\ MKnown'
      /\ \A t \in Sides, j \in Ids : Found(t, j)' => Found(t, j)
      /\ \A t \in Sides, j \in Ids : out'[t][j].st = "open" /\ Found(t, j) => Found(t, j)'
  BY <1>0, SideFacts, SessionsLeave
<1>2. MCopiers'
  <2>1. \A j \in Ids : inp'["client"][j].taken = inp["client"][j].taken /\ inp'["server"][j].taken = inp["server"][j].taken
    BY SideFacts
  <2> QED BY <2>1, SideFacts DEF MInv, MCopiers
<1>3. MFrames'
  <2>1. \A t \in Sides : From(link'[t].q, link[t].q) BY DEF From
  <2> QED BY <1>0, <2>1, FramesKept
<1>4. MNew'
  <2>1. \A j \in Ids : copier'["client"][j] \in {"none", "first", "sendnew"}
                          => copier["client"][j] \in {"none", "first", "sendnew"}
    BY SideFacts
  <2>2. \A j \in Ids : copier'["client"][j] \in {"copy", "sendkeep"} => copier["client"][j] \in {"copy", "sendkeep"}
    BY SideFacts
  <2> QED BY <1>0, <2>1, <2>2, SideFacts, NewKept
<1>5. \A t \in Sides, j \in Ids : Sent(t, j)' = Sent(t, j) /\ Sent(t, j) \in Nat
  <2>1. \A t \in Sides, j \in Ids : copier'[t][j] \in {"sendnew", "sendkeep"} <=> copier[t][j] \in {"sendnew", "sendkeep"}
    OBVIOUS
  <2> QED BY <2>1, SentType DEF Sent
<1>6. \A t \in Sides, j \in Ids : Sent(t, j)' \in Nat /\ Sent(t, j) <= Sent(t, j)' BY <1>5
<1>7. ASSUME NEW t \in Sides, NEW j \in Ids, Live(t, j)' PROVE Live(t, j) /\ Base(t, j)' = Base(t, j)
  <2>1. Live(t, j) BY <1>0, <1>1, <1>7 DEF Live
  <2>2. (loop'[t].pc = "write" /\ loop'[t].f.id = j) <=> (loop[t].pc = "write" /\ loop[t].f.id = j)
    BY <1>7 DEF Live
  <2>3. out'[t][j].got = out[t][j].got OBVIOUS
  <2> QED BY <2>1, <2>2, <2>3 DEF Base
<1>8. MData' BY <1>5, <1>6, <1>7, DataKept
<1>9. MHand' BY <1>1, <1>6, HandKept
<1> QED BY <1>1, <1>2, <1>3, <1>4, <1>8, <1>9 DEF MInv

LEMMA CopyEndStep ==
  ASSUME MInv, NEW s \in Sides, NEW i \in Ids, CopyEnd(s, i)
  PROVE  MInv'
<1>0. /\ UNCHANGED <<caller, sm, done, monitor, hasError, loop, inp, out>>
      /\ copier[s][i] = "end" /\ MType /\ copier \in [Sides -> [Ids -> CopierPcs]]
      /\ copier' = [copier EXCEPT ![s][i] = "close"]
  BY DEF CopyEnd, MInv, MType
<1>1. PICK f \in Frames : /\ f.id = i /\ f.status = "end" /\ ~HasData(f) /\ IsChunk(f, s)
                          /\ link' = [link EXCEPT ![s] = Put(@, f)]
  <2>1. PICK e \in BOOLEAN : e = hasError[s][i] BY <1>0, Zenon DEF MType
  <2>2. i \in Nat BY DEF Ids
  <2> QED BY <2>1, <2>2, EndFrame DEF CopyEnd
<1>2. /\ link' \in [Sides -> Links] /\ link'[Peer(s)] = link[Peer(s)]
      /\ link[s].st # "open" => link' = link
      /\ link[s].st = "open" => link'[s].q = Append(link[s].q, f) /\ link'[s].st = "open"
  BY <1>0, <1>1, PutFacts
<1>3. /\ copier' \in [Sides -> [Ids -> CopierPcs]]
      /\ \A t \in Sides, j \in Ids : copier'[t][j] = IF t = s /\ j = i THEN "close" ELSE copier[t][j]
  BY <1>0 DEF CopierPcs
<1>4. MType' BY <1>0, <1>2, <1>3 DEF MType
<1>5. \A t \in Sides, j \in Ids : \/ copier'[t][j] = copier[t][j]
                                  \/ copier[t][j] \in {"end", "close"} /\ copier'[t][j] \in {"close", "gone"}
  BY <1>0, <1>3
<1>6. CASE link[s].st # "open"
  <2>1. UNCHANGED <<caller, done, link, sm, out, inp, loop>> BY <1>0, <1>2, <1>6
  <2> QED BY <1>4, <1>5, <2>1, LeaveStep DEF Holds
<1>7. CASE link[s].st = "open"
  <2>1. \A t \in Sides, j \in Ids : (copier'[t][j] = "none") <=> (copier[t][j] = "none") BY <1>5
  <2>2. MCallers' BY <1>0, <2>1, SideFacts, CallersKept
  <2>3. MKnown' BY <1>0, <2>1, SideFacts DEF MInv, MKnown
  <2>4. MCopiers' BY <1>0, <1>5, SideFacts DEF MInv, MCopiers
  <2>5. \A t \in Sides, j \in Ids : Sent(t, j)' = Sent(t, j)
    <3>1. \A t \in Sides, j \in Ids : copier'[t][j] \in {"sendnew", "sendkeep"} <=> copier[t][j] \in {"sendnew", "sendkeep"}
      BY <1>5
    <3> QED BY <1>0, <3>1 DEF Sent
  <2>6. \A t \in Sides, j \in Ids : Live(t, j)' => Live(t, j) /\ Base(t, j)' = Base(t, j)
    BY <1>0, <2>1 DEF Live, Base, Found
  <2>7. Linked(f.id)
    <3>1. copier["server"][i] # "none" => copier["client"][i] # "none" BY DEF MInv, MCopiers
    <3> QED BY <1>0, <1>1, <3>1 DEF Linked, Sides
  <2>8. \A j \in Ids : ~IsNew(f, j) /\ ~DataOf(f, j) BY <1>1 DEF IsNew, DataOf
  <2>9. \A t \in Sides, j \in Ids : Found(t, j) => Found(t, j)' BY <1>0 DEF Found
  <2>10. \A t \in Sides : Holds(t)' => Holds(t) BY <1>0 DEF Holds
  <2>11. \A j \in Ids : copier'["client"][j] \in {"none", "first", "sendnew"}
                          => copier["client"][j] \in {"none", "first", "sendnew"}
    BY <1>5, SideFacts
  <2>12. \A j \in Ids : copier'["client"][j] \in {"copy", "sendkeep"} => copier["client"][j] \in {"copy", "sendkeep"}
    BY <1>5, SideFacts
  <2>13. MFrames' /\ MNew' /\ MData' /\ MHand'
    BY <1>0, <1>1, <1>2, <1>7, <2>1, <2>5, <2>6, <2>7, <2>8, <2>9, <2>10, <2>11, <2>12, SideFacts, PutStep
  <2> QED BY <1>4, <2>2, <2>3, <2>4, <2>13 DEF MInv
<1> QED BY <1>6, <1>7

LEMMA CopyCloseStep ==
  ASSUME MInv, NEW s \in Sides, NEW i \in Ids, CopyClose(s, i)
  PROVE  MInv'
<1>0. /\ UNCHANGED <<caller, done, monitor, hasError, loop, inp, link>> /\ SessionClose(s, i)
      /\ copier[s][i] = "close" /\ MType /\ copier \in [Sides -> [Ids -> CopierPcs]]
      /\ copier' = [copier EXCEPT ![s][i] = "gone"]
  BY DEF CopyClose, MInv, MType
<1>1. /\ copier' \in [Sides -> [Ids -> CopierPcs]]
      /\ \A t \in Sides, j \in Ids : copier'[t][j] = IF t = s /\ j = i THEN "gone" ELSE copier[t][j]
  BY <1>0 DEF CopierPcs
<1>2. /\ out' \in [Sides -> [Ids -> Outputs]] /\ sm' \in [Sides -> Managers]
      /\ out'[s][i].st # "open"
      /\ \A t \in Sides, j \in Ids : /\ out'[t][j].got = out[t][j].got
                                     /\ out'[t][j].st = "open" => out[t][j].st = "open"
      /\ \A t \in Sides : /\ sm'[t].count = sm[t].count /\ sm'[t].closed = sm[t].closed
                          /\ sm'[t].sessions \subseteq sm[t].sessions
                          /\ \A j \in sm[t].sessions : j \notin sm'[t].sessions => t = s /\ j = i
  BY <1>0, SessionCloseFacts
<1>3. MType' BY <1>0, <1>1, <1>2 DEF MType
<1>4. copier["client"][i] # "none"
  <2>1. copier["server"][i] # "none" => copier["client"][i] # "none" BY DEF MInv, MCopiers
  <2> QED BY <1>0, <2>1 DEF Sides
<1>5. \A t \in Sides, j \in Ids : \/ copier'[t][j] = copier[t][j]
                                  \/ copier[t][j] \in {"end", "close"} /\ copier'[t][j] \in {"close", "gone"}
  BY <1>0, <1>1
<1>6. \A t \in Sides : \A j \in sm[t].sessions : j \notin sm'[t].sessions =>
            j \in Ids /\ out'[t][j].st # "open" /\ copier["client"][j] # "none"
  BY <1>2, <1>4
<1>7. \A t \in Sides : Holds(t)' => Holds(t) BY <1>0 DEF Holds
<1> QED BY <1>0, <1>2, <1>3, <1>5, <1>6, <1>7, LeaveStep

-----------------------------------------------------------------------------
(* The loops. *)

LEMMA LoopWriteStep ==
  ASSUME MInv, NEW s \in Sides, LoopWrite(s)
  PROVE  MInv'
<1>0. /\ UNCHANGED <<caller, done, monitor, copier, hasError, link>> /\ MType
      /\ loop \in [Sides -> LoopRec] /\ loop[s] \in LoopRec /\ loop[s].f \in Frames /\ loop[s].pc = "write"
      /\ out \in [Sides -> [Ids -> Outputs]]
  BY DEF LoopWrite, MInv, MType, LoopRec
<1>1. PICK i \in Ids : i = loop[s].f.id BY <1>0 DEF MInv, MFrames, Holds, Linked
<1>2. copier["client"][i] # "none" /\ copier[s][i] # "none" BY <1>0, <1>1 DEF MInv, MFrames, Holds, Linked
<1>4. PICK idle \in LoopRec : idle = [pc |-> "read", f |-> NoFrame] /\ idle.pc = "read"
  BY LoopType DEF LoopPcs
<1>5. ASSUME out[s][i].st = "open",
             out' = [out EXCEPT ![s][i].got = Append(@, loop[s].f.data)],
             loop' = [loop EXCEPT ![s] = idle], UNCHANGED <<sm, inp>>
      PROVE  MInv'
  <2> DEFINE o == [out[s][i] EXCEPT !.got = Append(@, loop[s].f.data)]
             got == out[s][i].got
  <2>0. out[s][i] \in Outputs /\ got \in Seq(Datas) /\ loop[s].f.data \in Datas BY <1>0 DEF Outputs, Frames
  <2>1. o \in Outputs /\ o.got = Append(got, loop[s].f.data) /\ o.st = out[s][i].st
    <3>1. Append(got, loop[s].f.data) \in Seq(Datas) BY <2>0
    <3> QED BY <2>0, <3>1 DEF Outputs
  <2>2. out' = [out EXCEPT ![s][i] = o] BY <1>5
  <2> HIDE DEF o
  <2>3. /\ out' \in [Sides -> [Ids -> Outputs]]
        /\ \A t \in Sides, j \in Ids : out'[t][j] = IF t = s /\ j = i THEN o ELSE out[t][j]
    BY <1>0, <2>1, <2>2
  <2>4. loop' \in [Sides -> LoopRec] /\ loop'[s] = idle /\ \A t \in Sides : t # s => loop'[t] = loop[t]
    BY <1>0, <1>5
  <2>5. MType' BY <1>0, <1>5, <2>3, <2>4 DEF MType
  <2>6. MCallers' BY <1>0, <1>5 DEF MInv, MCallers
  <2>7. \A t \in Sides, j \in Ids : out'[t][j].st = out[t][j].st BY <2>1, <2>3
  <2>8. \A t \in Sides : loop'[t].pc = "gone" <=> loop[t].pc = "gone" BY <1>0, <1>4, <2>4
  <2>9. MKnown' BY <1>0, <1>5, <2>7, <2>8, SideFacts DEF MInv, MKnown
  <2>10. MCopiers' BY <1>0, <1>5 DEF MInv, MCopiers
  <2>11. MFrames'
    <3>1. \A t \in Sides : From(link'[t].q, link[t].q) BY <1>0 DEF From
    <3>2. \A t \in Sides : Holds(t)' => Holds(t) /\ loop'[t] = loop[t] BY <1>4, <2>4 DEF Holds
    <3> QED BY <1>0, <3>1, <3>2, FramesKept
  <2>12. MNew' BY <1>0, <2>8, SideFacts, NewKept
  <2>13. \A t \in Sides, j \in Ids : Sent(t, j)' = Sent(t, j) /\ Sent(t, j) \in Nat
    BY <1>0, <1>5, SentType DEF Sent
  <2>14. \A t \in Sides, j \in Ids : Found(t, j)' <=> Found(t, j) BY <1>5 DEF Found
  <2>15. Len(o.got) = Len(got) + 1 /\ Len(got) \in Nat /\ \A n \in 1..Len(got) : o.got[n] = got[n]
    BY <2>0, <2>1
  <2>16. \A t \in Sides, j \in Ids : Base(t, j)' = Base(t, j)
    <3> SUFFICES ASSUME NEW t \in Sides, NEW j \in Ids PROVE Base(t, j)' = Base(t, j) OBVIOUS
    <3>1. CASE t = s /\ j = i
      <4>1. Base(t, j) = Len(got) + 1 BY <1>0, <1>1, <3>1 DEF Base
      <4>2. Base(t, j)' = Len(o.got) BY <1>4, <2>3, <2>4, <3>1 DEF Base
      <4> QED BY <2>15, <4>1, <4>2
    <3>2. CASE t = s /\ j # i BY <1>0, <1>1, <1>4, <2>3, <2>4, <3>2 DEF Base
    <3>3. CASE t # s BY <2>3, <2>4, <3>3 DEF Base
    <3> QED BY <3>1, <3>2, <3>3
  <2>17. \A t \in Sides, j \in Ids : Live(t, j)' <=> Live(t, j) BY <1>0, <2>7, <2>8, <2>14 DEF Live
  <2>18. /\ loop[s].f.data = Chunk(Peer(s), i, Len(got) + 1) /\ Len(got) + 1 <= Sent(Peer(s), i)
    BY <1>0, <1>1, <1>5 DEF MInv, MHand, Handing
  <2>19. MData'
    <3> SUFFICES ASSUME NEW t \in Sides, NEW j \in Ids PROVE Carry(t, j)' /\ Given(t, j)'
      BY DEF MData
    <3>0. Peer(t) \in Sides BY SideFacts
    <3>1. Carry(t, j) /\ Given(t, j) BY DEF MInv, MData
    <3>2. Carry(t, j)'
      <4>1. /\ link' = link /\ Sent(t, j)' = Sent(t, j) /\ Base(Peer(t), j)' = Base(Peer(t), j)
            /\ Live(Peer(t), j)' <=> Live(Peer(t), j)
        BY <1>0, <2>13, <2>16, <2>17, <3>0
      <4> QED BY <3>1, <4>1 DEF Carry
    <3>3. CASE Peer(t) = s /\ j = i
      <4>0. t = Peer(s) BY <3>3, SideFacts
      <4>1. got = [n \in 1..Len(got) |-> Chunk(t, i, n)] BY <3>1, <3>3 DEF Given
      <4>2. o.got = [n \in 1..Len(o.got) |-> Chunk(t, i, n)]
        <5>1. o.got = Append(got, Chunk(t, i, Len(got) + 1)) BY <2>1, <2>18, <4>0
        <5> HIDE DEF got
        <5>2. Append(got, Chunk(t, i, Len(got) + 1)) = [n \in 1..(Len(got) + 1) |-> Chunk(t, i, n)]
          BY <2>0, <2>15, <4>1
        <5> QED BY <2>15, <5>1, <5>2
      <4>3. out'[Peer(t)][j].got = o.got BY <2>3, <3>3
      <4>4. Len(o.got) <= Sent(t, j)' BY <2>13, <2>15, <2>18, <3>3, <4>0
      <4>5. Given(t, j)' BY <3>3, <4>2, <4>3, <4>4 DEF Given
      <4> QED BY <3>2, <4>5
    <3>4. CASE ~(Peer(t) = s /\ j = i)
      <4>1. out'[Peer(t)][j].got = out[Peer(t)][j].got BY <2>3, <3>0, <3>4
      <4>2. Given(t, j)' BY <2>13, <3>1, <4>1 DEF Given
      <4> QED BY <3>2, <4>2
    <3> QED BY <3>3, <3>4
  <2>20. MHand'
    <3> SUFFICES ASSUME NEW t \in Sides, loop'[t].pc = "write" PROVE Handing(t)'
      BY DEF MHand, Handing
    <3>1. t # s /\ loop'[t] = loop[t] BY <1>4, <2>4
    <3>2. PICK j \in Ids : j = loop[t].f.id BY <3>1 DEF MInv, MFrames, Holds, Linked
    <3>3. out'[t][j] = out[t][j] BY <2>3, <3>1
    <3>4. Sent(Peer(t), j)' = Sent(Peer(t), j) /\ (Found(t, j)' <=> Found(t, j)) BY <2>13, <2>14, SideFacts
    <3>5. Handing(t) BY DEF MInv, MHand
    <3> QED BY <3>1, <3>2, <3>3, <3>4, <3>5 DEF Handing, Found
  <2> QED BY <2>5, <2>6, <2>9, <2>10, <2>11, <2>12, <2>19, <2>20 DEF MInv
<1>6. ASSUME out[s][i].st # "open", loop' = [loop EXCEPT ![s].pc = "replyclose"], UNCHANGED <<sm, inp, out>>
      PROVE  MInv'
  <2>1. PICK r \in LoopRec : r.pc = "replyclose" /\ r.f = loop[s].f /\ loop' = [loop EXCEPT ![s] = r]
    <3> DEFINE r == [loop[s] EXCEPT !.pc = "replyclose"]
    <3>1. r \in LoopRec /\ r.pc = "replyclose" /\ r.f = loop[s].f BY <1>0 DEF LoopRec, LoopPcs
    <3>2. loop' = [loop EXCEPT ![s] = r] BY <1>6
    <3> QED BY <3>1, <3>2
  <2>2. loop' \in [Sides -> LoopRec] /\ loop'[s] = r /\ \A t \in Sides : t # s => loop'[t] = loop[t]
    BY <1>0, <2>1
  <2>3. MType' BY <1>0, <1>6, <2>2 DEF MType
  <2>4. \A t \in Sides : Holds(t)' => /\ Holds(t) /\ loop'[t].f.id = loop[t].f.id
                                      /\ loop'[t].pc # "reply" => loop[t].pc # "reply"
    BY <1>0, <2>1, <2>2 DEF Holds
  <2>5. \A t \in Sides : loop'[t].pc = "write" => loop'[t] = loop[t] BY <2>1, <2>2
  <2>6. \A t \in Sides : loop'[t].pc = "gone" <=> loop[t].pc = "gone" BY <1>0, <2>1, <2>2
  <2>7. \A t \in Sides : loop[t].pc = "write" => loop'[t] = loop[t] \/ out'[t][loop[t].f.id].st # "open"
    BY <1>1, <1>6, <2>2
  <2> QED BY <1>0, <1>6, <2>3, <2>4, <2>5, <2>6, <2>7, LeaveStep
<1>7. ASSUME inp' = [inp EXCEPT ![s][i] = Interrupt(@)], SessionClose(s, i), loop' = [loop EXCEPT ![s] = idle]
      PROVE  MInv'
  <2>1. /\ out' \in [Sides -> [Ids -> Outputs]] /\ sm' \in [Sides -> Managers]
        /\ out'[s][i].st # "open"
        /\ \A t \in Sides, j \in Ids : /\ out'[t][j].got = out[t][j].got
                                       /\ out'[t][j].st = "open" => out[t][j].st = "open"
        /\ \A t \in Sides : /\ sm'[t].count = sm[t].count /\ sm'[t].closed = sm[t].closed
                            /\ sm'[t].sessions \subseteq sm[t].sessions
                            /\ \A j \in sm[t].sessions : j \notin sm'[t].sessions => t = s /\ j = i
    BY <1>0, <1>7, SessionCloseFacts
  <2>2. loop' \in [Sides -> LoopRec] /\ loop'[s] = idle /\ \A t \in Sides : t # s => loop'[t] = loop[t]
    BY <1>0, <1>7
  <2>3. /\ inp' \in [Sides -> [Ids -> Inputs]]
        /\ \A t \in Sides, j \in Ids : inp'[t][j].taken = inp[t][j].taken
    BY <1>0, <1>7, InterruptFacts
  <2>4. MType' BY <1>0, <2>1, <2>2, <2>3 DEF MType
  <2>5. \A t \in Sides : Holds(t)' => Holds(t) /\ loop'[t] = loop[t] BY <1>4, <2>2 DEF Holds
  <2>6. \A t \in Sides : loop'[t].pc = "write" => loop'[t] = loop[t] BY <1>4, <2>2
  <2>7. \A t \in Sides : loop'[t].pc = "gone" <=> loop[t].pc = "gone" BY <1>0, <1>4, <2>2
  <2>8. \A t \in Sides : loop[t].pc = "write" => loop'[t] = loop[t] \/ out'[t][loop[t].f.id].st # "open"
    BY <1>1, <2>1, <2>2
  <2>9. \A t \in Sides : \A j \in sm[t].sessions : j \notin sm'[t].sessions =>
            j \in Ids /\ out'[t][j].st # "open" /\ copier["client"][j] # "none"
    BY <1>2, <2>1
  <2> QED BY <1>0, <2>1, <2>3, <2>4, <2>5, <2>6, <2>7, <2>8, <2>9, LeaveStep
<1> QED BY <1>1, <1>4, <1>5, <1>6, <1>7 DEF LoopWrite

LEMMA LoopReplyStep ==
  ASSUME MInv, NEW s \in Sides, LoopReply(s)
  PROVE  MInv'
<1>0. /\ UNCHANGED <<caller, done, monitor, copier, hasError>> /\ MType
      /\ loop \in [Sides -> LoopRec] /\ loop[s].pc \in {"reply", "replyclose"}
  BY DEF LoopReply, MInv, MType
<1>1. PICK i \in Ids : i = loop[s].f.id BY <1>0 DEF MInv, MFrames, Holds, Linked
<1>2. Linked(i) /\ copier["client"][i] # "none" BY <1>0, <1>1 DEF MInv, MFrames, Holds, Linked
<1>3. PICK f \in Frames : /\ f.id = i /\ f.status = "end" /\ ~HasData(f) /\ IsChunk(f, s)
                          /\ link' = [link EXCEPT ![s] = Put(@, f)]
  <2>1. FALSE \in BOOLEAN /\ i \in Nat BY DEF Ids
  <2> QED BY <1>1, <2>1, EndFrame DEF LoopReply
<1>4. /\ link' \in [Sides -> Links] /\ link'[Peer(s)] = link[Peer(s)]
      /\ link[s].st # "open" => link' = link
      /\ link[s].st = "open" => link'[s].q = Append(link[s].q, f) /\ link'[s].st = "open"
  BY <1>0, <1>3, PutFacts
<1>5. PICK idle \in LoopRec : idle = [pc |-> "read", f |-> NoFrame] /\ idle.pc = "read"
  BY LoopType DEF LoopPcs
<1>6. loop' \in [Sides -> LoopRec] /\ loop'[s] = idle /\ \A t \in Sides : t # s => loop'[t] = loop[t]
  BY <1>0, <1>5 DEF LoopReply
<1>7. /\ out' \in [Sides -> [Ids -> Outputs]] /\ sm' \in [Sides -> Managers] /\ inp' \in [Sides -> [Ids -> Inputs]]
      /\ \A t \in Sides, j \in Ids : /\ out'[t][j].got = out[t][j].got
                                     /\ out'[t][j].st = "open" => out[t][j].st = "open"
                                     /\ inp'[t][j].taken = inp[t][j].taken
      /\ \A t \in Sides : /\ sm'[t].count = sm[t].count /\ sm'[t].closed = sm[t].closed
                          /\ sm'[t].sessions \subseteq sm[t].sessions
      /\ \A t \in Sides : \A j \in sm[t].sessions : j \notin sm'[t].sessions =>
            j \in Ids /\ out'[t][j].st # "open" /\ copier["client"][j] # "none"
  <2>1. CASE loop[s].pc = "replyclose"
    <3>1. SessionClose(s, i) /\ inp' = [inp EXCEPT ![s][i] = Interrupt(@)] BY <1>1, <2>1 DEF LoopReply
    <3>2. /\ inp' \in [Sides -> [Ids -> Inputs]]
          /\ \A t \in Sides, j \in Ids : inp'[t][j].taken = inp[t][j].taken
      BY <1>0, <3>1, InterruptFacts
    <3>3. /\ out' \in [Sides -> [Ids -> Outputs]] /\ sm' \in [Sides -> Managers]
          /\ out'[s][i].st # "open"
          /\ \A t \in Sides, j \in Ids : /\ out'[t][j].got = out[t][j].got
                                         /\ out'[t][j].st = "open" => out[t][j].st = "open"
          /\ \A t \in Sides : /\ sm'[t].count = sm[t].count /\ sm'[t].closed = sm[t].closed
                              /\ sm'[t].sessions \subseteq sm[t].sessions
                              /\ \A j \in sm[t].sessions : j \notin sm'[t].sessions => t = s /\ j = i
      BY <1>0, <3>1, SessionCloseFacts
    <3> QED BY <1>2, <3>2, <3>3
  <2>2. CASE loop[s].pc # "replyclose"
    <3>1. UNCHANGED <<inp, out, sm>> BY <2>2 DEF LoopReply
    <3> QED BY <1>0, <3>1 DEF MType
  <2> QED BY <2>1, <2>2
<1>8. MType' BY <1>0, <1>4, <1>6, <1>7 DEF MType
<1>9. \A t \in Sides : Holds(t)' => Holds(t) /\ loop'[t] = loop[t] BY <1>5, <1>6 DEF Holds
<1>10. \A t \in Sides : loop'[t].pc = "write" => loop'[t] = loop[t] BY <1>5, <1>6
<1>11. \A t \in Sides : loop'[t].pc = "gone" <=> loop[t].pc = "gone" BY <1>0, <1>5, <1>6
<1>12. \A t \in Sides : loop[t].pc = "write" => loop'[t] = loop[t] BY <1>0, <1>6
<1>13. CASE link[s].st # "open"
  <2>1. link' = link BY <1>4, <1>13
  <2> QED BY <1>0, <1>7, <1>8, <1>9, <1>10, <1>11, <1>12, <2>1, LeaveStep
<1>14. CASE link[s].st = "open"
  <2>1. /\ MCallers' /\ MKnown'
        /\ \A t \in Sides, j \in Ids : Found(t, j)' => Found(t, j)
        /\ \A t \in Sides, j \in Ids : out'[t][j].st = "open" /\ Found(t, j) => Found(t, j)'
    BY <1>0, <1>7, <1>11, SideFacts, SessionsLeave
  <2>2. MCopiers'
    <3>1. \A j \in Ids : /\ inp'["client"][j].taken = inp["client"][j].taken
                         /\ inp'["server"][j].taken = inp["server"][j].taken
      BY <1>7, SideFacts
    <3> QED BY <1>0, <1>7, <3>1, CopiersKept
  <2>3. \A t \in Sides, j \in Ids : Sent(t, j)' = Sent(t, j) BY <1>0, <1>7 DEF Sent
  <2>4. ASSUME NEW t \in Sides, NEW j \in Ids, Live(t, j)' PROVE Live(t, j) /\ Base(t, j)' = Base(t, j)
    <3>1. Live(t, j) BY <1>0, <1>7, <1>11, <2>1, <2>4 DEF Live
    <3>2. (loop'[t].pc = "write" /\ loop'[t].f.id = j) <=> (loop[t].pc = "write" /\ loop[t].f.id = j)
      BY <1>10, <1>12
    <3>3. out'[t][j].got = out[t][j].got BY <1>7
    <3> QED BY <3>1, <3>2, <3>3 DEF Base
  <2>5. \A j \in Ids : ~IsNew(f, j) /\ ~DataOf(f, j) BY <1>3 DEF IsNew, DataOf
  <2>6. MFrames' /\ MNew' /\ MData' /\ MHand'
    <3>1. /\ Linked(f.id) /\ (f.status = "keep" => HasData(f)) /\ (f.status = "end" => ~HasData(f)) /\ f.status # "none"
      BY <1>2, <1>3
    <3>2. \A t \in Sides : Holds(t)' => /\ Holds(t) /\ loop'[t].f.id = loop[t].f.id
                                        /\ loop'[t].pc # "reply" => loop[t].pc # "reply"
      BY <1>9
    <3>3. s = "client" => \A j \in Ids : /\ IsNew(f, j) => /\ copier["client"][j] = "sendnew"
                                                           /\ copier'["client"][j] \notin {"none", "first", "sendnew"}
                                         /\ f.status = "keep" /\ f.id = j => copier["client"][j] = "sendkeep"
      BY <1>3, <2>5
    <3>4. \A j \in Ids : Sent(Peer(s), j)' = Sent(Peer(s), j) BY <2>3, SideFacts
    <3>5. \A j \in Ids : DataOf(f, j) => Num(f) = Sent(s, j) + 1 /\ Sent(s, j)' = Sent(s, j) + 1 BY <2>5
    <3>6. \A j \in Ids : ~DataOf(f, j) => Sent(s, j)' = Sent(s, j) BY <2>3
    <3>7. /\ \A t \in Sides, j \in Ids : (copier'[t][j] = "none") <=> (copier[t][j] = "none")
          /\ \A j \in Ids : copier'["client"][j] \in {"none", "first", "sendnew"}
                               => copier["client"][j] \in {"none", "first", "sendnew"}
          /\ \A j \in Ids : copier'["client"][j] \in {"copy", "sendkeep"}
                               => (s = "client" /\ IsNew(f, j)) \/ copier["client"][j] \in {"copy", "sendkeep"}
          /\ loop'["server"].pc = "gone" <=> loop["server"].pc = "gone"
      BY <1>0, <1>11, SideFacts
    <3>8. \A t \in Sides, j \in Ids : /\ out'[t][j].got = out[t][j].got
                                      /\ out'[t][j].st = "open" => out[t][j].st = "open"
                                      /\ out'[t][j].st = "open" /\ Found(t, j) => Found(t, j)'
      BY <1>7, <2>1
    <3>9. link'[s].q = Append(link[s].q, f) /\ link'[s].st = "open" /\ link'[Peer(s)] = link[Peer(s)] /\ IsChunk(f, s)
      BY <1>3, <1>4, <1>14
    <3>10. \A t \in Sides, j \in Ids : Live(t, j)' => Live(t, j) /\ Base(t, j)' = Base(t, j) BY <2>4
    <3> QED BY <1>10, <1>14, <3>1, <3>2, <3>3, <3>4, <3>5, <3>6, <3>7, <3>8, <3>9, <3>10, PutStep
  <2> QED BY <1>8, <2>1, <2>2, <2>6 DEF MInv
<1> QED BY <1>13, <1>14

\* The loop of s takes the first frame f.
LEMMA TakeFacts ==
  ASSUME MInv, NEW s \in Sides, NEW x \in {"new", "keep", "end"}, LoopReady(s, x), Take(s)
  PROVE  /\ link' \in [Sides -> Links] /\ link'[s] = link[s]
         /\ link[Peer(s)].q # <<>> /\ link'[Peer(s)].q = Tail(link[Peer(s)].q)
         /\ \A t \in Sides : link'[t].st = link[t].st /\ From(link'[t].q, link[t].q)
         /\ \E f \in Frames : /\ f = Head(link[Peer(s)].q) /\ f = Head1(s) /\ f.status = x
                              /\ f = link[Peer(s)].q[1] /\ 1 \in 1..Len(link[Peer(s)].q)
                              /\ Linked(f.id) /\ IsChunk(f, Peer(s))
                              /\ x = "keep" => HasData(f)
                              /\ x = "end" => ~HasData(f)
<1> DEFINE p == Peer(s)
           q == link[p].q
<1>0. p \in Sides /\ p # s /\ \A t \in Sides : t = s \/ t = p BY SideFacts
<1>1. link \in [Sides -> Links] /\ link[p] \in Links /\ q \in Seq(Frames) BY <1>0 DEF MInv, MType, Links
<1>2. q # <<>> BY DEF LoopReady
<1>3. Tail(q) \in Seq(Frames) /\ Head(q) = q[1] /\ 1 \in 1..Len(q) /\ q[1] \in Frames
  <2> HIDE DEF q
  <2> QED BY <1>1, <1>2, TailFacts
<1>4. PICK l \in Links : l.q = Tail(q) /\ l.st = link[p].st /\ link' = [link EXCEPT ![p] = l]
  <2> DEFINE l == [link[p] EXCEPT !.q = Tail(@)]
  <2>1. l \in Links /\ l.q = Tail(q) /\ l.st = link[p].st BY <1>1, <1>3 DEF Links
  <2>2. link' = [link EXCEPT ![p] = l] BY DEF Take
  <2> QED BY <2>1, <2>2
<1>5. link' \in [Sides -> Links] /\ link'[p] = l /\ link'[s] = link[s] BY <1>0, <1>1, <1>4
<1>6. \A t \in Sides : link'[t].st = link[t].st /\ From(link'[t].q, link[t].q)
  BY <1>0, <1>2, <1>4, <1>5 DEF From
<1>7. q[1].status = x BY <1>3 DEF LoopReady, Head1
<1>8. /\ Linked(q[1].id) /\ IsChunk(q[1], p)
      /\ q[1].status = "keep" => HasData(q[1])
      /\ q[1].status = "end" => ~HasData(q[1])
  BY <1>0, <1>3 DEF MInv, MFrames
<1> QED BY <1>2, <1>3, <1>4, <1>5, <1>6, <1>7, <1>8 DEF Head1

LEMMA HandleEndStep ==
  ASSUME MInv, NEW s \in Sides, HandleEnd(s)
  PROVE  MInv'
<1>0. /\ UNCHANGED <<caller, done, monitor, copier, hasError, loop>> /\ MType
      /\ LoopReady(s, "end") /\ Take(s)
  BY DEF HandleEnd, MInv
<1>1. /\ link' \in [Sides -> Links] /\ link'[s] = link[s]
      /\ link[Peer(s)].q # <<>> /\ link'[Peer(s)].q = Tail(link[Peer(s)].q)
      /\ \A t \in Sides : link'[t].st = link[t].st /\ From(link'[t].q, link[t].q)
  BY <1>0, TakeFacts
<1>2. PICK f \in Frames : /\ f = Head(link[Peer(s)].q) /\ f = Head1(s) /\ f.status = "end"
                          /\ Linked(f.id) /\ ~HasData(f)
  BY <1>0, TakeFacts
<1>3. PICK i \in Ids : i = f.id BY <1>2 DEF Linked
<1>4. copier["client"][i] # "none" BY <1>2, <1>3 DEF Linked
<1>5. /\ out' \in [Sides -> [Ids -> Outputs]] /\ sm' \in [Sides -> Managers] /\ inp' \in [Sides -> [Ids -> Inputs]]
      /\ \A t \in Sides, j \in Ids : /\ out'[t][j].got = out[t][j].got
                                     /\ out'[t][j].st = "open" => out[t][j].st = "open"
                                     /\ inp'[t][j].taken = inp[t][j].taken
      /\ \A t \in Sides : /\ sm'[t].count = sm[t].count /\ sm'[t].closed = sm[t].closed
                          /\ sm'[t].sessions \subseteq sm[t].sessions
      /\ \A t \in Sides : \A j \in sm[t].sessions : j \notin sm'[t].sessions =>
            j \in Ids /\ out'[t][j].st # "open" /\ copier["client"][j] # "none"
  <2>1. CASE Found(s, f.id)
    <3>1. PICK o \in Outputs : /\ o.got = out[s][i].got /\ o.st # "open"
                               /\ out' = [out EXCEPT ![s][i] = o]
      <4>1. out[s][i] \in Outputs BY <1>0 DEF MType
      <4>2. /\ Close(out[s][i]) \in Outputs /\ Close(out[s][i]).got = out[s][i].got /\ Close(out[s][i]).st # "open"
            /\ Interrupt(out[s][i]) \in Outputs /\ Interrupt(out[s][i]).got = out[s][i].got
            /\ Interrupt(out[s][i]).st # "open"
        BY <4>1, PipeFacts
      <4>3. out' = [out EXCEPT ![s][i] = IF f.err THEN Interrupt(@) ELSE Close(@)]
        BY <1>2, <1>3, <2>1 DEF HandleEnd
      <4> QED BY <4>2, <4>3
    <3>2. sm' = [sm EXCEPT ![s] = Removed(@, i)] BY <1>2, <1>3, <2>1 DEF HandleEnd
    <3>3. /\ inp' \in [Sides -> [Ids -> Inputs]]
          /\ \A t \in Sides, j \in Ids : inp'[t][j].taken = inp[t][j].taken
      <4>1. CASE inp' = inp BY <1>0, <4>1 DEF MType
      <4>2. CASE inp' = [inp EXCEPT ![s][i] = Interrupt(@)] BY <1>0, <4>2, InterruptFacts
      <4> QED BY <1>2, <1>3, <2>1, <4>1, <4>2 DEF HandleEnd
    <3>4. /\ out' \in [Sides -> [Ids -> Outputs]] /\ out'[s][i].st # "open"
          /\ \A t \in Sides, j \in Ids : /\ out'[t][j].got = out[t][j].got
                                         /\ out'[t][j].st = "open" => out[t][j].st = "open"
      BY <1>0, <3>1, OutputEnds
    <3>5. /\ sm' \in [Sides -> Managers]
          /\ \A t \in Sides : /\ sm'[t].count = sm[t].count /\ sm'[t].closed = sm[t].closed
                              /\ sm'[t].sessions \subseteq sm[t].sessions
                              /\ \A j \in sm[t].sessions : j \notin sm'[t].sessions => t = s /\ j = i
      BY ZenonT(40), <1>0, <3>2, RemovedFacts
    <3> QED BY <1>4, <3>3, <3>4, <3>5
  <2>2. CASE ~Found(s, f.id)
    <3>1. UNCHANGED <<inp, out, sm>> BY <1>2, <2>2 DEF HandleEnd
    <3> QED BY <1>0, <3>1 DEF MType
  <2> QED BY <2>1, <2>2
<1>6. MType' BY <1>0, <1>1, <1>5 DEF MType
<1>7. /\ MCallers' /\ MKnown'
      /\ \A t \in Sides, j \in Ids : Found(t, j)' => Found(t, j)
      /\ \A t \in Sides, j \in Ids : out'[t][j].st = "open" /\ Found(t, j) => Found(t, j)'
  BY <1>0, <1>5, SideFacts, SessionsLeave
<1>8. MCopiers'
  <2>1. \A j \in Ids : /\ inp'["client"][j].taken = inp["client"][j].taken
                       /\ inp'["server"][j].taken = inp["server"][j].taken
    BY <1>5, SideFacts
  <2> QED BY <1>0, <1>5, <2>1, CopiersKept
<1>9. MFrames' BY <1>0, <1>1, FramesKept DEF Holds
<1>10. MNew'
  <2>1. CASE s = "client"
    <3>1. link'["client"] = link["client"] BY <1>1, <2>1
    <3> QED BY <1>0, <3>1, NewKept
  <2>2. CASE s = "server"
    <3>1. Peer(s) = "client" BY <2>2 DEF Peer
    <3>2. \A j \in Ids : ~IsNew(Head(link["client"].q), j) BY <1>2, <3>1 DEF IsNew
    <3> QED BY <1>0, <1>1, <3>1, <3>2, SideFacts, NewTaken
  <2> QED BY <2>1, <2>2 DEF Sides
<1>11. \A t \in Sides, j \in Ids : Sent(t, j)' = Sent(t, j) /\ Sent(t, j) \in Nat
  BY <1>0, <1>5, SentType DEF Sent
<1>12. \A t \in Sides, j \in Ids : Sent(t, j)' \in Nat /\ Sent(t, j) <= Sent(t, j)' BY <1>11
<1>13. \A t \in Sides, j \in Ids : Live(t, j)' => Live(t, j) BY <1>0, <1>5, <1>7 DEF Live
<1>14. \A t \in Sides, j \in Ids : Base(t, j)' = Base(t, j) BY <1>0, <1>5 DEF Base
<1>15. \A j \in Ids : ~DataOf(Head(link[Peer(s)].q), j) BY <1>2 DEF DataOf
<1>16. MData'
  <2>1. \A t \in Sides, j \in Ids : out'[t][j].got = out[t][j].got /\ Sent(t, j)' = Sent(t, j) BY <1>5, <1>11
  <2>2. \A j \in Ids : Live(Peer(s), j)' => Base(Peer(s), j)' = Base(Peer(s), j) BY <1>14, SideFacts
  <2>3. \A j \in Ids : Live(s, j)' => Base(s, j)' = IF DataOf(Head(link[Peer(s)].q), j)
                                                    THEN Base(s, j) + 1 ELSE Base(s, j)
    BY <1>14, <1>15
  <2>4. \A t \in Sides : link'[t].st = link[t].st BY <1>1
  <2> QED BY <1>1, <1>13, <2>1, <2>2, <2>3, <2>4, DataTaken
<1>17. MHand' BY <1>0, <1>5, <1>7, <1>12, HandKept
<1> QED BY <1>6, <1>7, <1>8, <1>9, <1>10, <1>16, <1>17 DEF MInv

\* A chunk that comes out of a link is the next one of its session.
LEMMA HeadNext ==
  ASSUME MInv, NEW s \in Sides, NEW i \in Ids, link[Peer(s)].q # <<>>,
         DataOf(Head(link[Peer(s)].q), i), Live(s, i)
  PROVE  /\ Num(Head(link[Peer(s)].q)) = Base(s, i) + 1
         /\ Base(s, i) + 1 <= Sent(Peer(s), i)
<1> DEFINE p == Peer(s)
           q == link[p].q
           b == Base(s, i)
           n == Sent(p, i)
<1>0. p \in Sides /\ Peer(p) = s BY SideFacts
<1>1. Carry(p, i) BY <1>0 DEF MInv, MData
<1>2. Ordered(q, i, n) /\ Gapless(q, i, b) BY <1>0, <1>1 DEF Carry
<1>3. q \in Seq(Frames) /\ q # <<>> /\ DataOf(Head(q), i) /\ b \in Nat /\ n \in Nat
  BY <1>0, SentType DEF MInv, MType, Links
<1>4. Num(Head(q)) = b + 1 /\ b + 1 <= n
  <2> HIDE DEF q, b, n, p
  <2> QED BY <1>2, <1>3, TakeNext
<1> QED BY <1>4

LEMMA HandOther ==
  ASSUME MInv, NEW t \in Sides, loop'[t] = loop[t], out'[t] = out[t],
         \A j \in Ids : Sent(Peer(t), j)' = Sent(Peer(t), j) /\ (Found(t, j)' <=> Found(t, j))
  PROVE  Handing(t)'
<1> SUFFICES ASSUME loop[t].pc = "write" PROVE Handing(t)' BY DEF Handing
<1>1. PICK j \in Ids : j = loop[t].f.id BY DEF MInv, MFrames, Holds, Linked
<1>2. Sent(Peer(t), j)' = Sent(Peer(t), j) /\ (Found(t, j)' <=> Found(t, j)) OBVIOUS
<1>3. Handing(t) BY DEF MInv, MHand
<1> QED BY <1>1, <1>2, <1>3 DEF Handing, Found

LEMMA HandleKeepStep ==
  ASSUME MInv, NEW s \in Sides, HandleKeep(s)
  PROVE  MInv'
<1>0. /\ UNCHANGED <<caller, sm, done, monitor, copier, hasError, inp, out>> /\ MType
      /\ LoopReady(s, "keep") /\ Take(s) /\ loop[s].pc = "read" /\ loop \in [Sides -> LoopRec]
  BY DEF HandleKeep, LoopReady, MInv, MType
<1>1. /\ link' \in [Sides -> Links] /\ link'[s] = link[s]
      /\ link[Peer(s)].q # <<>> /\ link'[Peer(s)].q = Tail(link[Peer(s)].q)
      /\ \A t \in Sides : link'[t].st = link[t].st /\ From(link'[t].q, link[t].q)
  BY <1>0, TakeFacts
<1>2. PICK f \in Frames : /\ f = Head(link[Peer(s)].q) /\ f = Head1(s) /\ f.status = "keep"
                          /\ f = link[Peer(s)].q[1] /\ 1 \in 1..Len(link[Peer(s)].q)
                          /\ Linked(f.id) /\ IsChunk(f, Peer(s)) /\ HasData(f)
  BY <1>0, TakeFacts
<1>3. PICK i \in Ids : i = f.id BY <1>2 DEF Linked
<1>4. PICK r \in LoopRec : /\ r.pc = (IF Found(s, i) THEN "write" ELSE "reply") /\ r.f = f
                           /\ loop' = [loop EXCEPT ![s] = r]
  <2> DEFINE pc == IF Found(s, i) THEN "write" ELSE "reply"
             r == [pc |-> pc, f |-> f]
  <2>1. pc \in LoopPcs BY DEF LoopPcs
  <2>2. r \in LoopRec /\ r.pc = pc /\ r.f = f
    <3> HIDE DEF pc
    <3> QED BY <2>1 DEF LoopRec
  <2>3. loop' = [loop EXCEPT ![s] = r] BY <1>2, <1>3 DEF HandleKeep
  <2> QED BY <2>2, <2>3
<1>5. loop' \in [Sides -> LoopRec] /\ loop'[s] = r /\ \A t \in Sides : t # s => loop'[t] = loop[t]
  BY <1>0, <1>4
<1>6. MType' BY <1>0, <1>1, <1>5 DEF MType
<1>7. MCallers' BY <1>0 DEF MInv, MCallers
<1>8. \A t \in Sides : loop'[t].pc = "gone" <=> loop[t].pc = "gone" BY <1>0, <1>4, <1>5
<1>9. MKnown' BY <1>0, <1>8, SideFacts DEF MInv, MKnown
<1>10. MCopiers' BY <1>0 DEF MInv, MCopiers
\* The server has seen the New frame of this session.
<1>11. copier[s][i] # "none"
  <2>1. CASE s = "client" BY <1>2, <1>3, <2>1 DEF Linked
  <2>2. CASE s = "server"
    <3>1. Peer(s) = "client" BY <2>2 DEF Peer
    <3>2. loop["server"].pc # "gone" BY <1>0, <2>2
    <3>3. copier["server"][i] = "none" => \E l \in 1..(1 - 1) : IsNew(link["client"].q[l], i)
      BY <1>2, <1>3, <3>1, <3>2 DEF MInv, MNew
    <3>4. 1..(1 - 1) = {} OBVIOUS
    <3> QED BY <2>2, <3>3, <3>4
  <2> QED BY <2>1, <2>2 DEF Sides
<1>12. MFrames'
  <2>1. ASSUME NEW t \in Sides, NEW k \in 1..Len(link'[t].q)
        PROVE  /\ Linked(link[t].q[k].id)'
               /\ IsChunk(link'[t].q[k], t)
               /\ link'[t].q[k].status = "keep" => HasData(link'[t].q[k])
               /\ link'[t].q[k].status = "end" => ~HasData(link'[t].q[k])
               /\ link'[t].q[k].status # "none"
    BY <1>0, <1>1, LinkFramesKept
  <2>2. ASSUME NEW t \in Sides, Holds(t)'
        PROVE  /\ Linked(loop[t].f.id)'
               /\ loop'[t].pc # "reply" => copier'[t][loop'[t].f.id] # "none"
    <3>1. CASE t = s BY <1>0, <1>2, <1>3, <1>4, <1>5, <1>11, <3>1 DEF Linked
    <3>2. CASE t # s
      <4>1. loop'[t] = loop[t] /\ Holds(t) BY <1>5, <2>2, <3>2 DEF Holds
      <4> QED BY <1>0, <4>1 DEF MInv, MFrames, Linked
    <3> QED BY <3>1, <3>2
  <2> QED BY <2>1, <2>2 DEF MFrames
<1>13. MNew'
  <2>1. CASE s = "client"
    <3>1. link'["client"] = link["client"] BY <1>1, <2>1
    <3> QED BY <1>0, <1>8, <3>1, SideFacts, NewKept
  <2>2. CASE s = "server"
    <3>1. Peer(s) = "client" BY <2>2 DEF Peer
    <3>2. \A j \in Ids : ~IsNew(Head(link["client"].q), j) BY <1>2, <3>1 DEF IsNew
    <3> QED BY <1>0, <1>1, <1>8, <3>1, <3>2, SideFacts, NewTaken
  <2> QED BY <2>1, <2>2 DEF Sides
<1>14. \A t \in Sides, j \in Ids : Sent(t, j)' = Sent(t, j) BY <1>0 DEF Sent
<1>15. \A t \in Sides, j \in Ids : Found(t, j)' <=> Found(t, j) BY <1>0 DEF Found
<1>16. \A t \in Sides, j \in Ids : Live(t, j)' => Live(t, j) BY <1>0, <1>8, <1>15 DEF Live
<1>17. MData'
  <2>1. \A t \in Sides, j \in Ids : out'[t][j].got = out[t][j].got /\ Sent(t, j)' = Sent(t, j) BY <1>0, <1>14
  <2>2. \A j \in Ids : Live(Peer(s), j)' => Base(Peer(s), j)' = Base(Peer(s), j)
    BY <1>0, <1>5, SideFacts DEF Base
  <2>3. ASSUME NEW j \in Ids, Live(s, j)'
        PROVE  Base(s, j)' = IF DataOf(Head(link[Peer(s)].q), j) THEN Base(s, j) + 1 ELSE Base(s, j)
    <3>0. Base(s, j) = Len(out[s][j].got) BY <1>0 DEF Base
    <3>1. CASE j = i
      <4>1. Found(s, i) BY <1>0, <1>11, <2>3, <3>1 DEF Live, Found
      <4>2. Base(s, j)' = Len(out[s][j].got) + 1 BY <1>0, <1>3, <1>4, <1>5, <3>1, <4>1 DEF Base
      <4>3. DataOf(Head(link[Peer(s)].q), j) BY <1>2, <1>3, <3>1 DEF DataOf
      <4> QED BY <3>0, <4>2, <4>3
    <3>2. CASE j # i
      <4>1. ~DataOf(Head(link[Peer(s)].q), j) BY <1>2, <1>3, <3>2 DEF DataOf
      <4>2. Base(s, j)' = Len(out[s][j].got) BY <1>0, <1>3, <1>4, <1>5, <3>2 DEF Base
      <4> QED BY <3>0, <4>1, <4>2
    <3> QED BY <3>1, <3>2
  <2>4. \A t \in Sides : link'[t].st = link[t].st BY <1>1
  <2> QED BY <1>1, <1>16, <2>1, <2>2, <2>3, <2>4, DataTaken
<1>18. MHand'
  <2> SUFFICES ASSUME NEW t \in Sides PROVE Handing(t)' BY DEF MHand
  <2>1. CASE t # s BY <1>0, <1>5, <1>14, <1>15, <2>1, SideFacts, HandOther
  <2>2. CASE t = s
    <3> SUFFICES ASSUME loop'[s].pc = "write", out'[s][i].st = "open" PROVE Handing(s)'
      BY <1>3, <1>4, <1>5, <2>2 DEF Handing
    <3>1. Found(s, i) /\ out[s][i].st = "open" BY <1>0, <1>4, <1>5
    <3>2. Live(s, i) /\ DataOf(f, i) /\ Base(s, i) = Len(out[s][i].got) BY <1>0, <1>2, <1>3, <3>1 DEF Live, DataOf, Base
    <3>3. Num(f) = Len(out[s][i].got) + 1 /\ Len(out[s][i].got) + 1 <= Sent(Peer(s), i)
      BY <1>1, <1>2, <3>2, HeadNext
    <3>4. f.data = Chunk(Peer(s), i, Len(out[s][i].got) + 1) BY <1>2, <1>3, <3>3 DEF IsChunk
    <3>5. Sent(Peer(s), i)' = Sent(Peer(s), i) /\ Found(s, i)' BY <1>14, <1>15, <3>1, SideFacts
    <3> QED BY <1>0, <1>3, <1>4, <1>5, <3>3, <3>4, <3>5 DEF Handing, Found
  <2> QED BY <2>1, <2>2
<1> QED BY <1>6, <1>7, <1>9, <1>10, <1>12, <1>13, <1>17, <1>18 DEF MInv

LEMMA HandleNewStep ==
  ASSUME MInv, HandleNew
  PROVE  MInv'
<1> DEFINE s == "server"
<1>0. /\ UNCHANGED <<caller, done, monitor, hasError, inp, out>> /\ MType
      /\ LoopReady(s, "new") /\ Take(s) /\ loop[s].pc = "read" /\ loop \in [Sides -> LoopRec]
      /\ copier \in [Sides -> [Ids -> CopierPcs]] /\ sm \in [Sides -> Managers]
      /\ s \in Sides /\ "client" \in Sides /\ Peer(s) = "client" /\ Peer("client") = s /\ s # "client"
  BY SideFacts DEF HandleNew, LoopReady, MInv, MType, Peer
<1>a. \A t \in Sides : t = s \/ t = "client" BY DEF Sides
<1>1. /\ link' \in [Sides -> Links] /\ link'[s] = link[s]
      /\ link["client"].q # <<>> /\ link'["client"].q = Tail(link["client"].q)
      /\ \A t \in Sides : link'[t].st = link[t].st /\ From(link'[t].q, link[t].q)
  BY <1>0, TakeFacts
<1>2. PICK f \in Frames : /\ f = Head(link["client"].q) /\ f = Head1(s) /\ f.status = "new"
                          /\ f = link["client"].q[1] /\ 1 \in 1..Len(link["client"].q)
                          /\ Linked(f.id) /\ IsChunk(f, "client")
  BY <1>0, TakeFacts
<1>3. PICK i \in Ids : i = f.id BY <1>2 DEF Linked
<1>4. PICK r \in LoopRec : /\ r.pc = (IF HasData(f) THEN "write" ELSE "read") /\ r.f = f
                           /\ loop' = [loop EXCEPT ![s] = r]
  <2> DEFINE pc == IF HasData(f) THEN "write" ELSE "read"
             r == [pc |-> pc, f |-> f]
  <2>1. pc \in LoopPcs BY DEF LoopPcs
  <2>2. r \in LoopRec /\ r.pc = pc /\ r.f = f
    <3> HIDE DEF pc
    <3> QED BY <2>1 DEF LoopRec
  <2>3. loop' = [loop EXCEPT ![s] = r] BY <1>2, <1>3 DEF HandleNew, HasData
  <2> QED BY <2>2, <2>3
<1>5. loop' \in [Sides -> LoopRec] /\ loop'[s] = r /\ loop'["client"] = loop["client"]
  BY <1>0, <1>4
<1>6. /\ copier' \in [Sides -> [Ids -> CopierPcs]] /\ copier'["client"] = copier["client"]
      /\ \A j \in Ids : copier'[s][j] = IF j = i THEN "copy" ELSE copier[s][j]
  <2>1. copier' = [copier EXCEPT !["server"][i] = "copy"] BY <1>2, <1>3 DEF HandleNew
  <2> QED BY <1>0, <2>1 DEF CopierPcs
<1>7. PICK m \in Managers : /\ sm' = [sm EXCEPT ![s] = m] /\ m.closed = sm[s].closed
                            /\ m.sessions = sm[s].sessions \cup {i}
  <2> DEFINE n == sm[s].count + 1
             m == [sm[s] EXCEPT !.count = n, !.sessions = @ \cup {i}]
  <2>0. sm[s] \in Managers /\ i \in Nat /\ n \in Nat BY <1>0 DEF Ids, Managers
  <2>3. sm' = [sm EXCEPT ![s] = m] BY <1>2, <1>3 DEF HandleNew
  <2> HIDE DEF n
  <2>1. m \in Managers /\ m.sessions = sm[s].sessions \cup {i} BY <2>0 DEF Managers
  <2>2. m.closed = sm[s].closed BY <2>0, Zenon DEF Managers
  <2> QED BY <2>1, <2>2, <2>3
<1>8. sm' \in [Sides -> Managers] /\ sm'[s] = m /\ sm'["client"] = sm["client"] BY <1>0, <1>7
<1>9. MType' BY <1>0, <1>1, <1>5, <1>6, <1>8 DEF MType
<1>10. /\ copier[s][i] = "none" /\ copier["client"][i] \notin {"none", "first", "sendnew"}
  <2>1. IsNew(link["client"].q[1], i) BY <1>2, <1>3 DEF IsNew
  <2> QED BY <1>2, <2>1 DEF MInv, MNew
<1>11. MCallers' BY <1>0, <1>6, <1>8, CallersKept
<1>12. ~sm[s].closed BY <1>0 DEF MInv, MKnown
<1>13. \A t \in Sides : loop'[t].pc # "gone" <=> loop[t].pc # "gone" BY <1>0, <1>a, <1>4, <1>5
<1>14. MKnown'
  <2>1. \A t \in Sides, j \in Ids :
          copier'[t][j] # "none" /\ out'[t][j].st = "open" /\ ~sm'[t].closed => j \in sm'[t].sessions
    <3>1. ASSUME NEW j \in Ids, copier'["client"][j] # "none", out'["client"][j].st = "open", ~sm'["client"].closed
          PROVE  j \in sm'["client"].sessions
      BY <1>0, <1>6, <1>8, <3>1 DEF MInv, MKnown
    <3>2. ASSUME NEW j \in Ids, copier'[s][j] # "none", out'[s][j].st = "open"
          PROVE  j \in sm'[s].sessions
      BY <1>0, <1>6, <1>7, <1>8, <1>12, <3>2 DEF MInv, MKnown
    <3> QED BY <1>a, <3>1, <3>2
  <2>2. sm'["client"].closed => done' BY <1>0, <1>8 DEF MInv, MKnown
  <2>3. ~sm'[s].closed /\ loop'[s].pc # "gone" BY <1>0, <1>7, <1>8, <1>12, <1>13
  <2> QED BY <2>1, <2>2, <2>3 DEF MKnown
<1>15. MCopiers'
  <2>1. \A t \in Sides, j \in Ids : copier'[t][j] = IF t = s /\ j = i THEN "copy" ELSE copier[t][j]
    BY <1>0, <1>a, <1>6
  <2> QED BY <1>0, <1>10, <2>1 DEF MInv, MCopiers
<1>16. MFrames'
  <2>1. ASSUME NEW t \in Sides, NEW k \in 1..Len(link'[t].q)
        PROVE  /\ Linked(link[t].q[k].id)'
               /\ IsChunk(link'[t].q[k], t)
               /\ link'[t].q[k].status = "keep" => HasData(link'[t].q[k])
               /\ link'[t].q[k].status = "end" => ~HasData(link'[t].q[k])
               /\ link'[t].q[k].status # "none"
    BY <1>1, <1>6, LinkFramesKept
  <2>2. ASSUME NEW t \in Sides, Holds(t)'
        PROVE  /\ Linked(loop[t].f.id)'
               /\ loop'[t].pc # "reply" => copier'[t][loop'[t].f.id] # "none"
    <3>1. CASE t = s BY <1>2, <1>3, <1>4, <1>5, <1>6, <1>10, <3>1 DEF Linked
    <3>2. CASE t # s
      <4>1. t = "client" BY <1>a, <3>2
      <4>2. loop'[t] = loop[t] /\ Holds(t) BY <1>5, <2>2, <4>1 DEF Holds
      <4> QED BY <1>6, <4>1, <4>2 DEF MInv, MFrames, Linked
    <3> QED BY <3>1, <3>2
  <2> QED BY <2>1, <2>2 DEF MFrames
<1>17. MNew'
  <2>1. \A j \in Ids : copier'["server"][j] = IF IsNew(Head(link["client"].q), j)
                                              THEN "copy" ELSE copier["server"][j]
    BY <1>2, <1>3, <1>6 DEF IsNew
  <2> QED BY <1>0, <1>1, <1>6, <1>13, <2>1, NewTaken
<1>18. \A t \in Sides, j \in Ids : Sent(t, j)' = Sent(t, j)
  <2>1. \A t \in Sides, j \in Ids : copier'[t][j] \in {"sendnew", "sendkeep"} <=> copier[t][j] \in {"sendnew", "sendkeep"}
    BY <1>a, <1>6, <1>10
  <2> QED BY <1>0, <2>1 DEF Sent
<1>19. \A t \in Sides, j \in Ids : t # s \/ j # i => (Found(t, j)' <=> Found(t, j)) /\ copier'[t][j] = copier[t][j]
  BY <1>a, <1>6, <1>7, <1>8 DEF Found
<1>20. \A t \in Sides, j \in Ids : Live(t, j)' => Live(t, j)
  BY <1>0, <1>10, <1>13, <1>19 DEF Live
<1>21. MData'
  <2>1. \A t \in Sides, j \in Ids : out'[t][j].got = out[t][j].got /\ Sent(t, j)' = Sent(t, j) BY <1>0, <1>18
  <2>2. \A j \in Ids : Live(Peer(s), j)' => Base(Peer(s), j)' = Base(Peer(s), j)
    BY <1>0, <1>5 DEF Base
  <2>3. ASSUME NEW j \in Ids, Live(s, j)'
        PROVE  Base(s, j)' = IF DataOf(Head(link[Peer(s)].q), j) THEN Base(s, j) + 1 ELSE Base(s, j)
    <3>0. Base(s, j) = Len(out[s][j].got) BY <1>0 DEF Base
    <3>1. DataOf(Head(link[Peer(s)].q), j) <=> j = i /\ HasData(f) BY <1>0, <1>2, <1>3 DEF DataOf
    <3>2. Base(s, j)' = IF j = i /\ HasData(f) THEN Len(out[s][j].got) + 1 ELSE Len(out[s][j].got)
      BY <1>0, <1>3, <1>4, <1>5 DEF Base
    <3> QED BY <3>0, <3>1, <3>2
  <2>4. \A t \in Sides : link'[t].st = link[t].st BY <1>1
  <2>5. /\ link[Peer(s)].q # <<>> /\ link'[Peer(s)].q = Tail(link[Peer(s)].q) /\ link'[s].q = link[s].q
    BY <1>0, <1>1
  <2> QED BY <1>0, <1>20, <2>1, <2>2, <2>3, <2>4, <2>5, DataTaken
<1>22. Handing("client")'
  <2>1. \A j \in Ids : Sent(Peer("client"), j)' = Sent(Peer("client"), j) /\ (Found("client", j)' <=> Found("client", j))
    BY <1>0, <1>18, <1>19
  <2> QED BY <1>0, <1>5, <2>1, HandOther
<1>23. Handing(s)'
  <2> SUFFICES ASSUME loop'[s].pc = "write", out'[s][i].st = "open" PROVE Handing(s)'
    BY <1>3, <1>4, <1>5 DEF Handing
  <2>1. HasData(f) BY <1>4, <1>5
  <2>2. Live(s, i) /\ DataOf(f, i) /\ Base(s, i) = Len(out[s][i].got)
    BY <1>0, <1>3, <1>10, <2>1 DEF Live, DataOf, Base
  <2>3. Num(f) = Len(out[s][i].got) + 1 /\ Len(out[s][i].got) + 1 <= Sent("client", i)
    BY <1>0, <1>1, <1>2, <2>2, HeadNext
  <2>4. f.data = Chunk("client", i, Len(out[s][i].got) + 1) BY <1>2, <1>3, <2>1, <2>3 DEF IsChunk
  <2>5. Sent("client", i)' = Sent("client", i) /\ Found(s, i)' BY <1>0, <1>7, <1>8, <1>12, <1>18 DEF Found
  <2> QED BY <1>0, <1>3, <1>4, <1>5, <2>3, <2>4, <2>5 DEF Handing, Found
<1>24. MHand' BY <1>a, <1>22, <1>23 DEF MHand
<1> QED BY <1>9, <1>11, <1>14, <1>15, <1>16, <1>17, <1>21, <1>24 DEF MInv

-----------------------------------------------------------------------------
(* The ends of the loops, of the tables and of the links. *)

LEMMA AllClosed ==
  ASSUME MType, NEW s \in Sides,
         out' = [out EXCEPT ![s] = OutputsClosed(s)], sm' = [sm EXCEPT ![s] = ManagerClosed(@)]
  PROVE  /\ out' \in [Sides -> [Ids -> Outputs]] /\ sm' \in [Sides -> Managers]
         /\ \A t \in Sides : t # s => sm'[t] = sm[t]
         /\ sm'[s].closed /\ sm'[s].count = sm[s].count
         /\ \A t \in Sides, j \in Ids : /\ out'[t][j].got = out[t][j].got
                                        /\ out'[t][j].st = "open" => out[t][j].st = "open"
         /\ \A j \in Ids : j \in sm[s].sessions /\ copier[s][j] # "none" /\ ~sm[s].closed => out'[s][j].st # "open"
<1>0. out \in [Sides -> [Ids -> Outputs]] /\ sm \in [Sides -> Managers] /\ sm[s] \in Managers BY DEF MType
<1> DEFINE o == OutputsClosed(s)
<1>1. /\ o \in [Ids -> Outputs]
      /\ \A j \in Ids : /\ o[j].got = out[s][j].got /\ (o[j].st = "open" => out[s][j].st = "open")
                        /\ j \in sm[s].sessions /\ copier[s][j] # "none" /\ ~sm[s].closed => o[j].st # "open"
  <2>1. CASE sm[s].closed BY <1>0, <2>1 DEF OutputsClosed
  <2>2. CASE ~sm[s].closed
    <3>1. o = [j \in Ids |-> IF j \in sm[s].sessions /\ copier[s][j] # "none" THEN Close(out[s][j]) ELSE out[s][j]]
      BY <2>2 DEF OutputsClosed
    <3>2. \A j \in Ids : /\ out[s][j] \in Outputs /\ Close(out[s][j]) \in Outputs
                         /\ Close(out[s][j]).got = out[s][j].got /\ Close(out[s][j]).st # "open"
      BY <1>0, PipeFacts
    <3> HIDE DEF o
    <3> QED BY <3>1, <3>2
  <2> QED BY <2>1, <2>2
<1> HIDE DEF o
<1>2. out' = [out EXCEPT ![s] = o] BY DEF o
<1>3. out' \in [Sides -> [Ids -> Outputs]] /\ out'[s] = o /\ \A t \in Sides : t # s => out'[t] = out[t]
  BY <1>0, <1>1, <1>2
<1>4. PICK m \in Managers : m = ManagerClosed(sm[s]) /\ m.closed /\ m.count = sm[s].count
  <2>1. CASE sm[s].closed BY <1>0, <2>1 DEF ManagerClosed
  <2>2. CASE ~sm[s].closed
    <3> DEFINE m == [sm[s] EXCEPT !.closed = TRUE, !.sessions = {}]
    <3>1. m = ManagerClosed(sm[s]) BY <2>2 DEF ManagerClosed
    <3>2. m.count = sm[s].count /\ m.sessions = {} /\ m.closed BY <1>0 DEF Managers
    <3>3. m \in Managers
      <4>1. \A B : TRUE \in B /\ sm[s] \in [count : Nat, closed : B, sessions : SUBSET Nat]
               => m \in [count : Nat, closed : B, sessions : SUBSET Nat]
        OBVIOUS
      <4>2. TRUE \in BOOLEAN OBVIOUS
      <4> HIDE DEF m
      <4> QED BY <1>0, <4>1, <4>2, Zenon DEF Managers
    <3> HIDE DEF m
    <3> QED BY <3>1, <3>2, <3>3
  <2> QED BY <2>1, <2>2
<1>5. sm' = [sm EXCEPT ![s] = m] BY <1>4
<1>6. sm' \in [Sides -> Managers] /\ sm'[s] = m /\ \A t \in Sides : t # s => sm'[t] = sm[t] BY <1>0, <1>5
<1>7. \A t \in Sides, j \in Ids : /\ out'[t][j].got = out[t][j].got
                                  /\ out'[t][j].st = "open" => out[t][j].st = "open"
  BY <1>1, <1>3
<1>8. \A j \in Ids : j \in sm[s].sessions /\ copier[s][j] # "none" /\ ~sm[s].closed => out'[s][j].st # "open"
  BY <1>1, <1>3
<1> QED BY <1>3, <1>4, <1>6, <1>7, <1>8

\* A part of the connection ends, and what depends on it.
LEMMA EndStep ==
  ASSUME MInv, MType', UNCHANGED <<caller, copier, inp>>,
         \A t \in Sides : \/ link'[t].q = link[t].q
                          \/ link'[t].q = <<>> /\ link'[t].st # "open"
                          \/ From(link'[t].q, link[t].q) /\ loop'[Peer(t)].pc = "gone",
         \A t \in Sides : link'[t].st = "open" => link[t].st = "open",
         \A t \in Sides : loop'[t] = loop[t] \/ (loop[t].pc = "read" /\ loop'[t].pc = "gone"),
         \A t \in Sides : sm'[t] = sm[t] \/ sm'[t].closed,
         sm'["client"].count = sm["client"].count,
         done => done', sm'["client"].closed => done',
         sm'["server"].closed <=> loop'["server"].pc = "gone",
         \A t \in Sides, j \in Ids : /\ out'[t][j].got = out[t][j].got
                                     /\ out'[t][j].st = "open" => out[t][j].st = "open"
                                     /\ j \in sm[t].sessions /\ copier[t][j] # "none" /\ ~sm[t].closed
                                           => sm'[t] = sm[t] \/ out'[t][j].st # "open"
  PROVE  MInv'
<1>0. \A t \in Sides : /\ From(link'[t].q, link[t].q)
                       /\ loop'[t].pc # "gone" => loop'[t] = loop[t] /\ loop[t].pc # "gone"
                       /\ loop[t].pc = "gone" => loop'[t].pc = "gone"
  BY DEF From
<1>1. MCallers'
  <2>1. sm["client"].closed => sm'["client"].closed BY SideFacts
  <2>2. sm'["client"] = sm["client"] \/ sm'["client"].closed BY SideFacts
  <2> QED BY <2>1, <2>2, CallersKept
<1>2. MKnown'
  <2>1. \A t \in Sides, j \in Ids :
          copier'[t][j] # "none" /\ out'[t][j].st = "open" /\ ~sm'[t].closed => j \in sm'[t].sessions
    BY DEF MInv, MKnown
  <2>2. ASSUME NEW j \in Ids, copier'["server"][j] # "none", sm'["server"].closed
        PROVE  out'["server"][j].st # "open"
    <3>1. CASE sm["server"].closed BY <2>2, <3>1, SideFacts DEF MInv, MKnown
    <3>2. CASE ~sm["server"].closed
      <4>1. sm'["server"] # sm["server"] BY <2>2, <3>2
      <4>2. j \in sm["server"].sessions => out'["server"][j].st # "open" BY <2>2, <3>2, <4>1, SideFacts
      <4>3. j \notin sm["server"].sessions => out["server"][j].st # "open"
        BY <2>2, <3>2, SideFacts DEF MInv, MKnown
      <4> QED BY <4>2, <4>3, SideFacts
    <3> QED BY <3>1, <3>2
  <2> QED BY <2>1, <2>2 DEF MKnown
<1>3. MCopiers' BY DEF MInv, MCopiers
<1>4. MFrames'
  <2>1. \A t \in Sides : Holds(t)' => Holds(t) /\ loop'[t] = loop[t] BY <1>0 DEF Holds
  <2> QED BY <1>0, <2>1, FramesKept
<1>5. MNew'
  <2>1. \/ link'["client"].q = link["client"].q
        \/ link'["client"].q = <<>> /\ link'["client"].st # "open"
        \/ From(link'["client"].q, link["client"].q) /\ loop'["server"].pc = "gone"
    BY SideFacts DEF Peer
  <2> QED BY <1>0, <2>1, SideFacts, NewKept
<1>6. \A t \in Sides, j \in Ids : Sent(t, j)' = Sent(t, j) /\ Sent(t, j) \in Nat BY SentType DEF Sent
<1>7. \A t \in Sides, j \in Ids : Sent(t, j)' \in Nat /\ Sent(t, j) <= Sent(t, j)' BY <1>6
<1>8. \A t \in Sides, j \in Ids : Found(t, j)' => Found(t, j) BY DEF Found
<1>9. \A t \in Sides, j \in Ids : Live(t, j)' => Live(t, j) /\ Base(t, j)' = Base(t, j)
  <2> SUFFICES ASSUME NEW t \in Sides, NEW j \in Ids, Live(t, j)' PROVE Live(t, j) /\ Base(t, j)' = Base(t, j)
    OBVIOUS
  <2>1. loop'[t].pc # "gone" /\ out'[t][j].st = "open" /\ (Found(t, j)' \/ copier'[t][j] = "none") BY DEF Live
  <2>2. loop'[t] = loop[t] /\ loop[t].pc # "gone" /\ out[t][j].st = "open" /\ out'[t][j].got = out[t][j].got
    BY <1>0, <2>1
  <2>3. Live(t, j) BY <1>8, <2>1, <2>2 DEF Live
  <2>4. Base(t, j)' = Base(t, j) BY <2>2 DEF Base
  <2> QED BY <2>3, <2>4
<1>10. MData' BY <1>6, <1>7, <1>9, DataKept
<1>11. \A t \in Sides, j \in Ids : copier[t][j] # "none" /\ out'[t][j].st = "open" /\ Found(t, j) => Found(t, j)'
  BY DEF Found
<1>12. \A t \in Sides : loop'[t].pc = "write" => loop'[t] = loop[t] BY <1>0
<1>13. MHand' BY <1>7, <1>11, <1>12, HandKept
<1> QED BY <1>1, <1>2, <1>3, <1>4, <1>5, <1>10, <1>13 DEF MInv

LEMMA HandleNewFailsStep ==
  ASSUME MInv, HandleNewFails
  PROVE  MInv'
<1>0. /\ UNCHANGED <<caller, done, monitor, copier, hasError, inp>> /\ MType
      /\ loop["server"].pc = "read" /\ loop \in [Sides -> LoopRec] /\ link \in [Sides -> Links]
      /\ link["client"] \in Links /\ link["client"].q \in Seq(Frames) /\ link["client"].q # <<>>
      /\ out' = [out EXCEPT !["server"] = OutputsClosed("server")]
      /\ sm' = [sm EXCEPT !["server"] = ManagerClosed(@)]
      /\ "server" \in Sides /\ "client" \in Sides
  BY SideFacts DEF HandleNewFails, LoopReady, MInv, MType, Links, Peer
<1>a. \A t \in Sides : t = "server" \/ t = "client" BY DEF Sides
<1>1. /\ out' \in [Sides -> [Ids -> Outputs]] /\ sm' \in [Sides -> Managers]
      /\ \A t \in Sides : t # "server" => sm'[t] = sm[t]
      /\ sm'["server"].closed
      /\ \A t \in Sides, j \in Ids : /\ out'[t][j].got = out[t][j].got
                                     /\ out'[t][j].st = "open" => out[t][j].st = "open"
      /\ \A j \in Ids : j \in sm["server"].sessions /\ copier["server"][j] # "none" /\ ~sm["server"].closed
                          => out'["server"][j].st # "open"
  BY <1>0, AllClosed
<1>2. PICK l \in Links : /\ link' = [link EXCEPT !["client"] = l] /\ l.st # "open"
                         /\ From(l.q, link["client"].q)
  <2> DEFINE k == [q |-> Tail(link["client"].q), st |-> link["client"].st]
  <2>1. Tail(link["client"].q) \in Seq(Frames) BY <1>0
  <2>2. k \in Links /\ k.q = Tail(link["client"].q) /\ k.st = link["client"].st BY <1>0, <2>1 DEF Links
  <2>3. link' = [link EXCEPT !["client"] = Break(k)] BY DEF HandleNewFails
  <2> HIDE DEF k
  <2>4. CASE k.st = "open"
    <3>1. Break(k) = [q |-> <<>>, st |-> "errored"] BY <2>4 DEF Break
    <3>2. <<>> \in Seq(Frames) OBVIOUS
    <3>3. Break(k) \in Links /\ Break(k).q = <<>> /\ Break(k).st # "open" BY <3>1, <3>2 DEF Links, PipeStates
    <3> QED BY <2>3, <3>3 DEF From
  <2>5. CASE k.st # "open"
    <3>1. Break(k) = k BY <2>5 DEF Break
    <3> QED BY <1>0, <2>2, <2>3, <2>5, <3>1 DEF From
  <2> QED BY <2>4, <2>5
<1>3. link' \in [Sides -> Links] /\ link'["client"] = l /\ link'["server"] = link["server"] BY <1>0, <1>2
<1>4. PICK r \in LoopRec : r.pc = "gone" /\ loop' = [loop EXCEPT !["server"] = r]
  BY LoopType DEF HandleNewFails, LoopPcs
<1>5. loop' \in [Sides -> LoopRec] /\ loop'["server"] = r /\ loop'["client"] = loop["client"] BY <1>0, <1>4
<1>6. MType' BY <1>0, <1>1, <1>3, <1>5 DEF MType
<1>7. \A t \in Sides : /\ \/ link'[t].q = link[t].q
                          \/ link'[t].q = <<>> /\ link'[t].st # "open"
                          \/ From(link'[t].q, link[t].q) /\ loop'[Peer(t)].pc = "gone"
                       /\ link'[t].st = "open" => link[t].st = "open"
  BY <1>a, <1>2, <1>3, <1>4, <1>5 DEF Peer
<1>8. \A t \in Sides : loop'[t] = loop[t] \/ (loop[t].pc = "read" /\ loop'[t].pc = "gone") BY <1>0, <1>a, <1>4, <1>5
<1>9. \A t \in Sides : sm'[t] = sm[t] \/ sm'[t].closed BY <1>1
<1>10. /\ sm'["client"].count = sm["client"].count /\ (sm'["client"].closed => done')
       /\ sm'["server"].closed <=> loop'["server"].pc = "gone"
  BY <1>0, <1>1, <1>4, <1>5 DEF MInv, MKnown
<1>11. \A t \in Sides, j \in Ids : /\ out'[t][j].got = out[t][j].got
                                   /\ out'[t][j].st = "open" => out[t][j].st = "open"
                                   /\ j \in sm[t].sessions /\ copier[t][j] # "none" /\ ~sm[t].closed
                                         => sm'[t] = sm[t] \/ out'[t][j].st # "open"
  BY <1>a, <1>1
<1> QED BY <1>0, <1>6, <1>7, <1>8, <1>9, <1>10, <1>11, EndStep

LEMMA RunEndsStep ==
  ASSUME MInv, RunEnds
  PROVE  MInv'
<1>0. /\ UNCHANGED <<caller, done, monitor, copier, hasError, inp, link>> /\ MType
      /\ loop["server"].pc = "read" /\ loop \in [Sides -> LoopRec]
      /\ out' = [out EXCEPT !["server"] = OutputsClosed("server")]
      /\ sm' = [sm EXCEPT !["server"] = ManagerClosed(@)]
      /\ "server" \in Sides /\ "client" \in Sides
  BY SideFacts DEF RunEnds, MInv, MType
<1>a. \A t \in Sides : t = "server" \/ t = "client" BY DEF Sides
<1>1. /\ out' \in [Sides -> [Ids -> Outputs]] /\ sm' \in [Sides -> Managers]
      /\ \A t \in Sides : t # "server" => sm'[t] = sm[t]
      /\ sm'["server"].closed
      /\ \A t \in Sides, j \in Ids : /\ out'[t][j].got = out[t][j].got
                                     /\ out'[t][j].st = "open" => out[t][j].st = "open"
      /\ \A j \in Ids : j \in sm["server"].sessions /\ copier["server"][j] # "none" /\ ~sm["server"].closed
                          => out'["server"][j].st # "open"
  BY <1>0, AllClosed
<1>4. PICK r \in LoopRec : r.pc = "gone" /\ loop' = [loop EXCEPT !["server"] = r]
  BY LoopType DEF RunEnds, LoopPcs
<1>5. loop' \in [Sides -> LoopRec] /\ loop'["server"] = r /\ loop'["client"] = loop["client"] BY <1>0, <1>4
<1>6. MType' BY <1>0, <1>1, <1>5 DEF MType
<1>8. \A t \in Sides : loop'[t] = loop[t] \/ (loop[t].pc = "read" /\ loop'[t].pc = "gone") BY <1>0, <1>a, <1>4, <1>5
<1>9. \A t \in Sides : sm'[t] = sm[t] \/ sm'[t].closed BY <1>1
<1>10. /\ sm'["client"].count = sm["client"].count /\ (sm'["client"].closed => done')
       /\ sm'["server"].closed <=> loop'["server"].pc = "gone"
  BY <1>0, <1>1, <1>4, <1>5 DEF MInv, MKnown
<1>11. \A t \in Sides, j \in Ids : /\ out'[t][j].got = out[t][j].got
                                   /\ out'[t][j].st = "open" => out[t][j].st = "open"
                                   /\ j \in sm[t].sessions /\ copier[t][j] # "none" /\ ~sm[t].closed
                                         => sm'[t] = sm[t] \/ out'[t][j].st # "open"
  BY <1>a, <1>1
<1> QED BY <1>0, <1>6, <1>8, <1>9, <1>10, <1>11, EndStep

LEMMA FetchOutputEndsStep ==
  ASSUME MInv, FetchOutputEnds
  PROVE  MInv'
<1>0. /\ UNCHANGED <<caller, sm, monitor, copier, hasError, inp, out, link>> /\ done' /\ done' \in BOOLEAN /\ MType
      /\ loop["client"].pc = "read" /\ loop \in [Sides -> LoopRec] /\ "server" \in Sides /\ "client" \in Sides
  BY SideFacts DEF FetchOutputEnds, MInv, MType
<1>a. \A t \in Sides : t = "server" \/ t = "client" BY DEF Sides
<1>4. PICK r \in LoopRec : r.pc = "gone" /\ loop' = [loop EXCEPT !["client"] = r]
  BY LoopType DEF FetchOutputEnds, LoopPcs
<1>5. loop' \in [Sides -> LoopRec] /\ loop'["client"] = r /\ loop'["server"] = loop["server"] BY <1>0, <1>4
<1>6. MType' BY <1>0, <1>5 DEF MType
<1>7. \A t \in Sides : loop'[t] = loop[t] \/ (loop[t].pc = "read" /\ loop'[t].pc = "gone") BY <1>0, <1>a, <1>4, <1>5
<1>8. sm'["server"].closed <=> loop'["server"].pc = "gone" BY <1>0, <1>5 DEF MInv, MKnown
<1> QED BY <1>0, <1>6, <1>7, <1>8, EndStep

LEMMA MonitorStep ==
  ASSUME MInv, Monitor
  PROVE  MInv'
<1>0. MType /\ "server" \in Sides /\ "client" \in Sides BY SideFacts DEF MInv
<1>a. \A t \in Sides : t = "server" \/ t = "client" BY DEF Sides
<1>b. (sm["client"].closed => done) /\ (sm["server"].closed <=> loop["server"].pc = "gone") BY DEF MInv, MKnown
<1>1. CASE MonitorSize
  <2>1. UNCHANGED <<caller, sm, done, copier, hasError, loop, inp, out, link>> /\ monitor' = "sized"
    BY <1>1 DEF MonitorSize
  <2>2. MType' BY <1>0, <2>1 DEF MType
  <2>3. MCallers' BY <2>1 DEF MInv, MCallers
  <2> QED BY <2>1, <2>2, <2>3, QuietStep
<1>2. CASE MonitorClose
  <2>0. UNCHANGED <<caller, copier, hasError, loop, inp, out, link>> /\ monitor' = "wait"
    BY <1>2 DEF MonitorClose
  <2>1. CASE UNCHANGED <<sm, done>>
    <3>1. MType' BY <1>0, <2>0, <2>1 DEF MType
    <3>2. MCallers' BY <2>0, <2>1 DEF MInv, MCallers
    <3> QED BY <2>0, <2>1, <3>1, <3>2, QuietStep
  <2>2. CASE /\ sm["client"].closed \/ sm["client"].sessions = {}
             /\ sm' = [sm EXCEPT !["client"].closed = TRUE] /\ done' = TRUE
    <3>0. sm \in [Sides -> Managers] /\ sm["client"] \in Managers BY <1>0 DEF MType
    <3>1. PICK m \in Managers : m.closed /\ m.count = sm["client"].count /\ sm' = [sm EXCEPT !["client"] = m]
      <4> DEFINE m == [sm["client"] EXCEPT !.closed = TRUE]
      <4>1. m.count = sm["client"].count /\ m.closed BY <3>0 DEF Managers
      <4>2. m \in Managers
        <5>1. \A B : TRUE \in B /\ sm["client"] \in [count : Nat, closed : B, sessions : SUBSET Nat]
                 => m \in [count : Nat, closed : B, sessions : SUBSET Nat]
          OBVIOUS
        <5>2. TRUE \in BOOLEAN OBVIOUS
        <5> HIDE DEF m
        <5> QED BY <3>0, <5>1, <5>2, Zenon DEF Managers
      <4>3. sm' = [sm EXCEPT !["client"] = m] BY <2>2
      <4> HIDE DEF m
      <4> QED BY <4>1, <4>2, <4>3
    <3>2. sm' \in [Sides -> Managers] /\ sm'["client"] = m /\ sm'["server"] = sm["server"] BY <1>0, <3>0, <3>1
    <3>3. done' \in BOOLEAN BY <2>2
    <3>4. MType' BY <1>0, <2>0, <3>2, <3>3 DEF MType
    <3>5. \A t \in Sides : sm'[t] = sm[t] \/ sm'[t].closed BY <1>a, <3>1, <3>2
    <3>6. \A t \in Sides, j \in Ids : j \in sm[t].sessions /\ ~sm[t].closed => sm'[t] = sm[t]
      BY <1>a, <2>2, <3>2
    <3>7. done' /\ sm'["client"].count = sm["client"].count BY <2>2, <3>1, <3>2
    <3>8. sm'["server"].closed <=> loop'["server"].pc = "gone" BY <1>b, <2>0, <3>2
    <3> QED BY <2>0, <3>4, <3>5, <3>6, <3>7, <3>8, EndStep
  <2> QED BY <1>2, <2>1, <2>2 DEF MonitorClose
<1>3. CASE MonitorDone
  <2>0. /\ UNCHANGED <<caller, done, copier, hasError, loop, inp, link>> /\ monitor' = "links" /\ done
        /\ out' = [out EXCEPT !["client"] = OutputsClosed("client")]
        /\ sm' = [sm EXCEPT !["client"] = ManagerClosed(@)]
    BY <1>3 DEF MonitorDone
  <2>1. /\ out' \in [Sides -> [Ids -> Outputs]] /\ sm' \in [Sides -> Managers]
        /\ \A t \in Sides : t # "client" => sm'[t] = sm[t]
        /\ sm'["client"].closed /\ sm'["client"].count = sm["client"].count
        /\ \A t \in Sides, j \in Ids : /\ out'[t][j].got = out[t][j].got
                                       /\ out'[t][j].st = "open" => out[t][j].st = "open"
        /\ \A j \in Ids : j \in sm["client"].sessions /\ copier["client"][j] # "none" /\ ~sm["client"].closed
                            => out'["client"][j].st # "open"
    BY <1>0, <2>0, AllClosed
  <2>2. MType' BY <1>0, <2>0, <2>1 DEF MType
  <2>3. \A t \in Sides : sm'[t] = sm[t] \/ sm'[t].closed BY <2>1
  <2>4. \A t \in Sides, j \in Ids : /\ out'[t][j].got = out[t][j].got
                                    /\ out'[t][j].st = "open" => out[t][j].st = "open"
                                    /\ j \in sm[t].sessions /\ copier[t][j] # "none" /\ ~sm[t].closed
                                          => sm'[t] = sm[t] \/ out'[t][j].st # "open"
    BY <1>a, <2>1
  <2>5. sm'["server"].closed <=> loop'["server"].pc = "gone" BY <1>0, <1>b, <2>0, <2>1
  <2> QED BY <2>0, <2>1, <2>2, <2>3, <2>4, <2>5, EndStep
<1>4. CASE MonitorLinks
  <2>0. /\ UNCHANGED <<caller, sm, done, copier, hasError, loop, inp, out>> /\ monitor' = "gone"
        /\ link' = [link EXCEPT !["client"] = Close(@), !["server"] = Break(@)]
        /\ link \in [Sides -> Links] /\ link["client"] \in Links /\ link["server"] \in Links
    BY <1>0, <1>4 DEF MonitorLinks, MType
  <2>1. PICK c \in Links : c = Close(link["client"]) /\ c.q = link["client"].q /\ c.st # "open"
    <3>1. CASE link["client"].st # "open" BY <2>0, <3>1 DEF Close
    <3>2. CASE link["client"].st = "open"
      <4> DEFINE c == [link["client"] EXCEPT !.st = "closed"]
      <4>1. c \in Links /\ c.q = link["client"].q /\ c.st = "closed" BY <2>0 DEF Links, PipeStates
      <4>2. Close(link["client"]) = c BY <3>2 DEF Close
      <4> HIDE DEF c
      <4> QED BY <4>1, <4>2
    <3> QED BY <3>1, <3>2
  <2>2. PICK b \in Links : /\ b = Break(link["server"]) /\ b.st # "open"
                           /\ b.q = link["server"].q \/ b.q = <<>>
    <3>1. CASE link["server"].st # "open" BY <2>0, <3>1 DEF Break
    <3>2. CASE link["server"].st = "open"
      <4>1. Break(link["server"]) = [q |-> <<>>, st |-> "errored"] BY <3>2 DEF Break
      <4>2. <<>> \in Seq(Frames) OBVIOUS
      <4> DEFINE b == [q |-> <<>>, st |-> "errored"]
      <4>3. b \in Links /\ b.st = "errored" /\ b.q = <<>> BY <4>2 DEF Links, PipeStates
      <4> HIDE DEF b
      <4>4. Break(link["server"]) = b BY <4>1 DEF b
      <4> QED BY <4>3, <4>4
    <3> QED BY <3>1, <3>2
  <2>3. link' \in [Sides -> Links] /\ link'["client"] = c /\ link'["server"] = b
    BY <1>0, <2>0, <2>1, <2>2
  <2>4. MType' BY <1>0, <2>0, <2>3 DEF MType
  <2>5. \A t \in Sides : /\ link'[t].q = link[t].q \/ (link'[t].q = <<>> /\ link'[t].st # "open")
                         /\ link'[t].st # "open"
    BY <1>a, <2>1, <2>2, <2>3
  <2> QED BY <1>b, <2>0, <2>4, <2>5, EndStep
<1> QED BY <1>1, <1>2, <1>3, <1>4 DEF Monitor

LEMMA ConnectionEndsStep ==
  ASSUME MInv, ConnectionEnds
  PROVE  MInv'
<1>0. /\ UNCHANGED <<caller, sm, done, monitor, copier, hasError, loop, inp, out>> /\ MType
      /\ link' = [s \in Sides |-> [q |-> <<>>, st |-> "errored"]]
      /\ (sm["client"].closed => done) /\ (sm["server"].closed <=> loop["server"].pc = "gone")
  BY DEF ConnectionEnds, MInv, MKnown
<1>1. [q |-> <<>>, st |-> "errored"] \in Links
  <2>1. <<>> \in Seq(Frames) OBVIOUS
  <2> QED BY <2>1 DEF Links, PipeStates
<1>2. link' \in [Sides -> Links] /\ \A t \in Sides : link'[t].q = <<>> /\ link'[t].st = "errored" BY <1>0, <1>1
<1>3. MType' BY <1>0, <1>2 DEF MType
<1> QED BY <1>0, <1>2, <1>3, EndStep

LEMMA ProcessReturnsStep ==
  ASSUME MInv, ProcessReturns
  PROVE  MInv'
<1>0. /\ UNCHANGED <<caller, sm, monitor, copier, hasError, loop, inp, out, link>> /\ MType
      /\ done' = TRUE /\ (sm["server"].closed <=> loop["server"].pc = "gone")
  BY DEF ProcessReturns, MInv, MKnown
<1>1. MType' BY <1>0 DEF MType
<1> QED BY <1>0, <1>1, EndStep

-----------------------------------------------------------------------------
(* The invariant, and what follows from it. *)

LEMMA MuxInit == Init => MInv
<1> SUFFICES ASSUME Init PROVE MInv OBVIOUS
<1>0. /\ caller = [c \in Callers |-> [pc |-> "idle", id |-> 0]]
      /\ sm = [s \in Sides |-> [count |-> 0, closed |-> FALSE, sessions |-> {}]]
      /\ done = FALSE /\ monitor = "wait"
      /\ copier = [s \in Sides |-> [i \in Ids |-> "none"]]
      /\ hasError = [s \in Sides |-> [i \in Ids |-> FALSE]]
      /\ loop = [s \in Sides |-> [pc |-> "read", f |-> NoFrame]]
      /\ inp = [s \in Sides |-> [i \in Ids |-> NewInput]]
      /\ out = [s \in Sides |-> [i \in Ids |-> NewOutput]]
      /\ link = [s \in Sides |-> [q |-> <<>>, st |-> "open"]]
  BY DEF Init
<1>1. MType
  <2>1. [pc |-> "idle", id |-> 0] \in Callings BY DEF Callings, CallerPcs
  <2>2. [count |-> 0, closed |-> FALSE, sessions |-> {}] \in Managers BY DEF Managers
  <2>3. [pc |-> "read", f |-> NoFrame] \in LoopRec BY LoopType DEF LoopPcs
  <2>4. NewInput \in Inputs BY DEF NewInput, Inputs, PipeStates
  <2>5. NewOutput \in Outputs
    <3>1. <<>> \in Seq(Datas) OBVIOUS
    <3> QED BY <3>1 DEF NewOutput, Outputs, PipeStates
  <2>6. [q |-> <<>>, st |-> "open"] \in Links
    <3>1. <<>> \in Seq(Frames) OBVIOUS
    <3> QED BY <3>1 DEF Links, PipeStates
  <2>7. /\ caller \in [Callers -> Callings] /\ sm \in [Sides -> Managers] /\ loop \in [Sides -> LoopRec]
        /\ inp \in [Sides -> [Ids -> Inputs]] /\ out \in [Sides -> [Ids -> Outputs]] /\ link \in [Sides -> Links]
    BY <1>0, <2>1, <2>2, <2>3, <2>4, <2>5, <2>6
  <2>8. copier \in [Sides -> [Ids -> CopierPcs]] BY <1>0 DEF CopierPcs
  <2>9. hasError \in [Sides -> [Ids -> BOOLEAN]] /\ done \in BOOLEAN BY <1>0
  <2> QED BY <1>0, <2>7, <2>8, <2>9 DEF MType
<1>2. /\ \A s \in Sides : /\ link[s].q = <<>> /\ loop[s].pc = "read" /\ ~sm[s].closed
                          /\ \A i \in Ids : /\ copier[s][i] = "none" /\ inp[s][i].taken = 0
                                            /\ out[s][i].got = <<>>
      /\ \A c \in Callers : caller[c].pc = "idle" /\ caller[c].id = 0
      /\ sm["client"].count = 0
  BY <1>0, SideFacts DEF NewInput, NewOutput
<1>3. MCallers
  <2>1. {c \in Callers : caller[c].id # 0} = {} BY <1>2
  <2>2. Cardinality({}) = 0 BY FS_EmptySet
  <2>3. sm["client"].count = Cardinality({c \in Callers : caller[c].id # 0}) BY <1>2, <2>1, <2>2
  <2>4. \A i \in Ids : copier["client"][i] = "none" BY <1>2, SideFacts
  <2>5. \A c \in Callers : caller[c].pc = "idle" /\ caller[c].id = 0 /\ caller[c].id <= sm["client"].count BY <1>2
  <2> QED BY <2>3, <2>4, <2>5 DEF MCallers
<1>4. MKnown BY <1>2, SideFacts DEF MKnown
<1>5. \A s \in Sides : Len(link[s].q) = 0 /\ 1..Len(link[s].q) = {}
  <2>1. Len(<<>>) = 0 /\ 1..0 = {} OBVIOUS
  <2> QED BY <1>2, <2>1
<1>6. MFrames BY <1>2, <1>5 DEF MFrames, Holds
<1>7. MCopiers BY <1>2, SideFacts DEF MCopiers
<1>8. MNew BY <1>2, <1>5, SideFacts DEF MNew
<1>9. MHand BY <1>2 DEF MHand, Handing
<1>10. MData
  <2> SUFFICES ASSUME NEW s \in Sides, NEW i \in Ids PROVE Carry(s, i) /\ Given(s, i) BY DEF MData
  <2>0. Peer(s) \in Sides BY SideFacts
  <2>1. Sent(s, i) = 0 BY <1>2 DEF Sent
  <2>2. Len(out[Peer(s)][i].got) = 0 /\ out[Peer(s)][i].got = <<>>
    <3>1. Len(<<>>) = 0 OBVIOUS
    <3> QED BY <1>2, <2>0, <3>1
  <2>3. Base(Peer(s), i) = 0 BY <1>2, <2>0, <2>2 DEF Base
  <2>4. Given(s, i)
    <3>1. <<>> = [n \in 1..0 |-> Chunk(s, i, n)] OBVIOUS
    <3> QED BY <2>1, <2>2, <3>1 DEF Given
  <2>5. Ordered(link[s].q, i, Sent(s, i)) BY <1>5 DEF Ordered
  <2>6. Gapless(link[s].q, i, Base(Peer(s), i)) BY <1>5 DEF Gapless
  <2>7. Complete(link[s].q, i, Base(Peer(s), i), Sent(s, i)) BY <2>1, <2>3 DEF Complete
  <2>8. Carry(s, i) BY <2>1, <2>3, <2>5, <2>6, <2>7 DEF Carry
  <2> QED BY <2>4, <2>8
<1> QED BY <1>1, <1>3, <1>4, <1>6, <1>7, <1>8, <1>9, <1>10 DEF MInv

LEMMA MuxStep == MInv /\ [Next]_vars => MInv'
<1> SUFFICES ASSUME MInv, [Next]_vars PROVE MInv' OBVIOUS
<1>1. CASE UNCHANGED vars
  <2>1. UNCHANGED <<caller, sm, done, monitor, copier, hasError, loop, inp, out, link>> BY <1>1 DEF vars
  <2>2. MType' BY <2>1 DEF MInv, MType
  <2>3. MCallers' BY <2>1 DEF MInv, MCallers
  <2> QED BY <2>1, <2>2, <2>3, QuietStep
<1>2. ASSUME NEW c \in Callers, Dispatch(c) PROVE MInv'
  BY <1>2, DispatchCheckStep, DispatchAllocateStep, DispatchLinkStep DEF Dispatch
<1>3. ASSUME NEW s \in Sides, Loop(s) PROVE MInv'
  BY <1>3, HandleKeepStep, HandleEndStep, LoopWriteStep, LoopReplyStep, FetchOutputEndsStep,
     HandleNewStep, HandleNewFailsStep, RunEndsStep DEF Loop
<1>4. ASSUME NEW s \in Sides, NEW i \in Ids, Copier(s, i) PROVE MInv'
  BY <1>4, FirstPayloadStep, CopyReadStep, CopyWriteStep, CopyEndStep, CopyCloseStep DEF Copier
<1>5. ASSUME NEW s \in Sides, NEW i \in Ids, User(s, i) PROVE MInv'
  BY <1>5, UserStep
<1>6. CASE Monitor BY <1>6, MonitorStep
<1>7. CASE ConnectionEnds BY <1>7, ConnectionEndsStep
<1>8. CASE ProcessReturns BY <1>8, ProcessReturnsStep
<1> QED BY <1>1, <1>2, <1>3, <1>4, <1>5, <1>6, <1>7, <1>8 DEF Next

\* The state of both workers, the tables, the goroutines of every session and
\* the frames on both links stay consistent, for any number of sessions.
THEOREM MuxInvariant == Spec => []MInv
BY MuxInit, MuxStep, PTL DEF Spec

\* What a session's output has been given is what its user at the other side
\* sent, in order and without a gap, whatever the other sessions of the
\* connection, the users, the monitor and the connection itself do.
THEOREM SessionsIntact == Spec => []SessionIntegrity
<1>1. MInv => SessionIntegrity
  <2> SUFFICES ASSUME MInv, NEW s \in Sides, NEW i \in Ids
               PROVE  LET got == out[Peer(s)][i].got IN
                      /\ got = [n \in 1..Len(got) |-> Chunk(s, i, n)]
                      /\ Len(got) <= inp[s][i].taken
    BY DEF SessionIntegrity
  <2>1. Given(s, i) BY DEF MInv, MData
  <2>2. inp[s][i].taken \in Nat BY DEF MInv, MType, Inputs
  <2>3. Sent(s, i) <= inp[s][i].taken /\ Sent(s, i) \in Nat BY <2>2 DEF Sent
  <2>4. Len(out[Peer(s)][i].got) \in Nat BY SideFacts, SentType
  <2> QED BY <2>1, <2>2, <2>3, <2>4 DEF Given
<1> QED BY <1>1, MuxInvariant, PTL

\* While a worker is at work, a session whose output is open is in its table.
THEOREM OpenSessionsKnown == Spec => []OpenIsKnown
<1>1. MInv => OpenIsKnown
  <2> SUFFICES ASSUME MInv, NEW s \in Sides, NEW i \in Ids, copier[s][i] # "none", out[s][i].st = "open",
                      ~(s = "client" /\ done)
               PROVE  Found(s, i)
    BY DEF OpenIsKnown
  <2>1. ~sm[s].closed BY DEF MInv, MKnown, Sides
  <2> QED BY <2>1 DEF MInv, MKnown, Found
<1> QED BY <1>1, MuxInvariant, PTL

\* The monitor's decision to give the worker up finds no call of Dispatch that
\* holds a session and no session that waits for data.
THEOREM IdleCloseSafe == Spec => IdleCloseStrandsNobody
<1> DEFINE A == ~ sm["client"].closed /\ sm'["client"].closed /\ monitor = "sized"
                => \A c \in Callers :
                      /\ caller[c].pc # "allocated"
                      /\ caller[c].pc = "dispatched" => out["client"][caller[c].id].st # "open"
<1>1. MInv /\ [Next]_vars => [A]_vars
  <2> SUFFICES ASSUME MInv, Next, ~sm["client"].closed, sm'["client"].closed, monitor = "sized"
               PROVE  \A c \in Callers :
                         /\ caller[c].pc # "allocated"
                         /\ caller[c].pc = "dispatched" => out["client"][caller[c].id].st # "open"
    OBVIOUS
  <2>0. sm \in [Sides -> Managers] /\ sm["client"] \in Managers /\ "client" \in Sides /\ "server" \in Sides /\ MType
    BY SideFacts DEF MInv, MType
  <2>1. sm["client"].sessions = {}
    <3>1. CASE \E c \in Callers : Dispatch(c)
      <4> SUFFICES ASSUME NEW c \in Callers, Dispatch(c) PROVE FALSE BY <3>1
      <4>1. sm' = sm \/ sm' = [sm EXCEPT !["client"].count = sm["client"].count + 1,
                                         !["client"].sessions = @ \cup {sm["client"].count + 1}]
        BY DEF Dispatch, DispatchCheck, DispatchAllocate, DispatchLink
      <4>2. sm'["client"].closed = sm["client"].closed BY <2>0, <4>1, Zenon DEF Managers
      <4> QED BY <4>2
    <3>2. CASE \E s \in Sides : Loop(s)
      <4> SUFFICES ASSUME NEW s \in Sides, Loop(s) PROVE FALSE BY <3>2
      <4>1. \/ sm' = sm
            \/ \E i \in Ids : sm' = [sm EXCEPT ![s] = Removed(@, i)]
            \/ sm'["client"] = sm["client"]
        <5>1. CASE HandleEnd(s)
          <6>1. HandleEnd(s) => LoopReady(s, "end") /\ Take(s) BY DEF HandleEnd
          <6>2. PICK f \in Frames : f = Head1(s) /\ Linked(f.id) BY <5>1, <6>1, TakeFacts
          <6> QED BY <5>1, <6>2 DEF HandleEnd, Linked
        <5>2. CASE LoopWrite(s)
          <6>1. loop[s].pc = "write" BY <5>2 DEF LoopWrite
          <6>2. loop[s].f.id \in Ids BY <6>1 DEF MInv, MFrames, Holds, Linked
          <6> QED BY <5>2, <6>2 DEF LoopWrite, SessionClose
        <5>3. CASE LoopReply(s)
          <6>1. loop[s].pc \in {"reply", "replyclose"} BY <5>3 DEF LoopReply
          <6>2. loop[s].f.id \in Ids BY <6>1 DEF MInv, MFrames, Holds, Linked
          <6> QED BY <5>3, <6>2 DEF LoopReply, SessionClose
        <5>4. CASE HandleKeep(s) \/ FetchOutputEnds BY <5>4 DEF HandleKeep, FetchOutputEnds
        <5>5. CASE HandleNew \/ HandleNewFails \/ RunEnds
          BY <2>0, <5>5 DEF HandleNew, HandleNewFails, RunEnds
        <5> QED BY <5>1, <5>2, <5>3, <5>4, <5>5 DEF Loop
      <4>2. \A i \in Ids : sm' = [sm EXCEPT ![s] = Removed(@, i)] => sm'["client"].closed = sm["client"].closed
        BY <2>0, RemovedFacts
      <4> QED BY <4>1, <4>2
    <3>3. CASE \E s \in Sides : \E i \in Ids : Copier(s, i) \/ User(s, i)
      <4> SUFFICES ASSUME NEW s \in Sides, NEW i \in Ids, Copier(s, i) \/ User(s, i) PROVE FALSE BY <3>3
      <4>1. sm' = sm \/ sm' = [sm EXCEPT ![s] = Removed(@, i)]
        BY DEF Copier, User, FirstPayload, CopyRead, CopyWrite, CopyEnd, CopyClose, SessionClose,
               UserSend, UserClose, UserAbort, UserRead
      <4>2. sm' = [sm EXCEPT ![s] = Removed(@, i)] => sm'["client"].closed = sm["client"].closed
        BY <2>0, RemovedFacts
      <4> QED BY <4>1, <4>2
    <3>4. CASE Monitor BY <3>4 DEF Monitor, MonitorSize, MonitorClose, MonitorDone, MonitorLinks
    <3>5. CASE ConnectionEnds \/ ProcessReturns BY <3>5 DEF ConnectionEnds, ProcessReturns
    <3> QED BY <3>1, <3>2, <3>3, <3>4, <3>5 DEF Next
  <2> SUFFICES ASSUME NEW c \in Callers
               PROVE  /\ caller[c].pc # "allocated"
                      /\ caller[c].pc = "dispatched" => out["client"][caller[c].id].st # "open"
    OBVIOUS
  <2>2. caller[c].pc # "allocated" BY <2>1 DEF MInv, MCallers
  <2>3. ASSUME caller[c].pc = "dispatched" PROVE out["client"][caller[c].id].st # "open"
    <3>1. caller[c].id \in Ids /\ copier["client"][caller[c].id] # "none" BY <2>3, IdsGiven DEF MInv, MCallers
    <3> QED BY <2>0, <2>1, <3>1 DEF MInv, MKnown
  <2> QED BY <2>2, <2>3
<1> QED BY <1>1, MuxInvariant, PTL DEF Spec, IdleCloseStrandsNobody

-----------------------------------------------------------------------------
(* How a session ends. *)

\* The session is in the table of side s, or is still to be entered.
Here(s, i) == Found(s, i) \/ copier[s][i] = "none"
Aborted(s, i) == inp[s][i].st = "errored" \/ out[s][i].st = "errored"
\* All that the user at side s sent has been copied.
Drained(s, i) ==
  inp[s][i].st = "closed" /\ inp[s][i].taken = inp[s][i].sent /\ copier[s][i] \in {"end", "close", "gone"}
MayEnd(s, i) == Aborted(s, i) \/ Drained(s, i)

IsEnd(f, i) == f.status = "end" /\ f.id = i
IsKeep(f, i) == f.status = "keep" /\ f.id = i
\* The chunks that are not yet given come before place k of the link.
Ahead(q, i, base, n, k) ==
  \A m \in 1..n : base < m => \E l \in 1..(k - 1) : DataOf(q[l], i) /\ Num(q[l]) = m

\* An End frame of side s that the other side will act on is the end of the stream.
EFrames ==
  \A s \in Sides, i \in Ids : LET q == link[s].q p == Peer(s) IN
     \A k \in 1..Len(q) : IsEnd(q[k], i) /\ Here(p, i) =>
        \/ Aborted(s, i)
        \/ Drained(s, i) /\ (Live(p, i) => Ahead(q, i, Base(p, i), inp[s][i].sent, k))
\* It comes from the session's own goroutine while the session is in the table of s.
EOwn ==
  \A s \in Sides, i \in Ids : LET q == link[s].q IN
     \A k \in 1..Len(q) : IsEnd(q[k], i) /\ Here(s, i) =>
        /\ copier[s][i] \in {"close", "gone"}
        /\ \A l \in 1..Len(q) : k < l => ~IsKeep(q[l], i)
\* Why a session has left one table and not the other.
ELeft ==
  \A s \in Sides, i \in Ids : LET p == Peer(s) IN
     loop[s].pc # "gone" /\ ~Here(s, i) /\ Here(p, i) =>
        \/ MayEnd(s, i)
        \/ link[s].st # "open"
        \/ /\ copier[p][i] \in {"close", "gone"}
           /\ \A k \in 1..Len(link[p].q) : ~IsKeep(link[p].q[k], i)
           /\ ~(Holds(s) /\ loop[s].f.id = i)
EReplies ==
  \A s \in Sides, i \in Ids : loop[s].f.id = i =>
     /\ loop[s].pc = "replyclose" => out[s][i].st # "open"
     /\ loop[s].pc = "reply" => ~Here(s, i)
ECopied ==
  \A s \in Sides, i \in Ids :
     copier[s][i] \in {"end", "close", "gone"} /\ link[s].st = "open" => MayEnd(s, i)
EClosed == \A s \in Sides, i \in Ids : out[s][i].st = "closed" => ~Here(s, i)
ETable == \A i \in Ids : i \in sm["server"].sessions => copier["server"][i] # "none"
\* While the loop runs and the link is up, the worker is done only once its table is closed.
EDone ==
  loop["client"].pc # "gone" /\ link["client"].st = "open" =>
     /\ done => sm["client"].closed
     /\ sm["client"].closed => sm["client"].sessions = {} /\ \A c \in Callers : caller[c].pc # "allocated"
ETold ==
  \A s \in Sides, i \in Ids : LET p == Peer(s) IN
     out[s][i].st = "closed" /\ copier[s][i] # "gone" /\ ~sm[s].closed =>
        \/ Aborted(p, i)
        \/ inp[p][i].st = "closed" /\ Len(out[s][i].got) = inp[p][i].sent
EInv == EFrames /\ EOwn /\ ELeft /\ EReplies /\ ECopied /\ EClosed /\ ETable /\ EDone /\ ETold

-----------------------------------------------------------------------------
(* What no step takes back. *)

FInp == \A t \in Sides, j \in Ids :
  /\ inp[t][j].st = "errored" => inp'[t][j].st = "errored"
  /\ inp[t][j].st = "closed" => inp'[t][j].st = "closed" /\ inp'[t][j].sent = inp[t][j].sent
  /\ inp[t][j].st = "closed" /\ inp[t][j].taken = inp[t][j].sent => inp'[t][j].taken = inp[t][j].taken
FOut == \A t \in Sides, j \in Ids :
  out[t][j].st # "open" => out'[t][j].st = out[t][j].st /\ out'[t][j].got = out[t][j].got
FCopier == \A t \in Sides, j \in Ids :
  /\ copier[t][j] \in {"end", "close", "gone"} => copier'[t][j] \in {"end", "close", "gone"}
  /\ copier[t][j] \in {"close", "gone"} => copier'[t][j] \in {"close", "gone"}
  /\ copier[t][j] = "gone" => copier'[t][j] = "gone"
FHere == \A t \in Sides, j \in Ids : Here(t, j)' => Here(t, j)
FSide == \A t \in Sides :
  /\ link'[t].st = "open" => link[t].st = "open"
  /\ loop[t].pc = "gone" => loop'[t].pc = "gone"
  /\ sm[t].closed => sm'[t].closed
Forward == FInp /\ FOut /\ FCopier /\ FHere /\ FSide

LEMMA EndStays ==
  ASSUME Forward, NEW s \in Sides, NEW i \in Ids
  PROVE  /\ Aborted(s, i) => Aborted(s, i)'
         /\ Drained(s, i) => Drained(s, i)' /\ inp'[s][i].sent = inp[s][i].sent
         /\ MayEnd(s, i) => MayEnd(s, i)'
         /\ Live(s, i)' => Live(s, i)
<1>1. Aborted(s, i) => Aborted(s, i)' BY DEF Aborted, Forward, FInp, FOut
<1>2. Drained(s, i) => Drained(s, i)' /\ inp'[s][i].sent = inp[s][i].sent BY DEF Drained, Forward, FInp, FCopier
<1>3. Live(s, i)' => Live(s, i)
  <2>1. out'[s][i].st = "open" => out[s][i].st = "open" BY DEF Forward, FOut
  <2>2. loop'[s].pc # "gone" => loop[s].pc # "gone" BY DEF Forward, FSide
  <2>3. Here(s, i)' => Here(s, i) BY DEF Forward, FHere
  <2> QED BY <2>1, <2>2, <2>3 DEF Live, Here
<1> QED BY <1>1, <1>2, <1>3 DEF MayEnd

\* The frames of a step that only drops frames.
LEMMA EFramesKept ==
  ASSUME EInv, MInv, Forward,
         \A t \in Sides : link'[t].q = link[t].q \/ link'[t].q = <<>>,
         \A t \in Sides, j \in Ids : Live(t, j)' => Base(t, j)' = Base(t, j)
  PROVE  EFrames' /\ EOwn'
<1>1. ASSUME NEW s \in Sides, NEW i \in Ids, NEW k \in 1..Len(link'[s].q), IsEnd(link'[s].q[k], i), Here(Peer(s), i)'
      PROVE  \/ Aborted(s, i)'
             \/ Drained(s, i)' /\ (Live(Peer(s), i)' => Ahead(link'[s].q, i, Base(Peer(s), i)', inp'[s][i].sent, k))
  <2>0. Peer(s) \in Sides BY SideFacts
  <2>1. link'[s].q = link[s].q BY <1>1
  <2>2. Here(Peer(s), i) BY <1>1, <2>0 DEF Forward, FHere
  <2>3. \/ Aborted(s, i)
        \/ Drained(s, i) /\ (Live(Peer(s), i) => Ahead(link[s].q, i, Base(Peer(s), i), inp[s][i].sent, k))
    BY <1>1, <2>1, <2>2 DEF EInv, EFrames
  <2>4. Live(Peer(s), i)' => Live(Peer(s), i) /\ Base(Peer(s), i)' = Base(Peer(s), i) BY <2>0, EndStays
  <2> QED BY <2>1, <2>3, <2>4, EndStays
<1>2. EFrames' BY <1>1 DEF EFrames
<1>3. ASSUME NEW s \in Sides, NEW i \in Ids, NEW k \in 1..Len(link'[s].q), IsEnd(link'[s].q[k], i), Here(s, i)'
      PROVE  /\ copier'[s][i] \in {"close", "gone"}
             /\ \A l \in 1..Len(link'[s].q) : k < l => ~IsKeep(link'[s].q[l], i)
  <2>1. link'[s].q = link[s].q BY <1>3
  <2>2. Here(s, i) BY <1>3 DEF Forward, FHere
  <2>3. /\ copier[s][i] \in {"close", "gone"}
        /\ \A l \in 1..Len(link[s].q) : k < l => ~IsKeep(link[s].q[l], i)
    BY <1>3, <2>1, <2>2 DEF EInv, EOwn
  <2> QED BY <2>1, <2>3 DEF Forward, FCopier
<1>4. EOwn' BY <1>3 DEF EOwn
<1> QED BY <1>2, <1>4

\* Why a session has left: the reasons stay.
KeepGone(p, i) == copier[p][i] \in {"close", "gone"} /\ \A k \in 1..Len(link[p].q) : ~IsKeep(link[p].q[k], i)
Why(s, i) ==
  \/ MayEnd(s, i)
  \/ link[s].st # "open"
  \/ KeepGone(Peer(s), i) /\ ~(Holds(s) /\ loop[s].f.id = i)

LEMMA ELeftKept ==
  ASSUME EInv, MInv, Forward,
         \A t \in Sides, j \in Ids : KeepGone(t, j) => KeepGone(t, j)',
         \A t \in Sides, j \in Ids :
            ~Here(t, j) /\ KeepGone(Peer(t), j) /\ ~(Holds(t) /\ loop[t].f.id = j) => ~(Holds(t)' /\ loop'[t].f.id = j),
         \A t \in Sides, j \in Ids :
            Here(t, j) /\ ~Here(t, j)' /\ loop'[t].pc # "gone" /\ Here(Peer(t), j)' => Why(t, j)'
  PROVE  ELeft'
<1> SUFFICES ASSUME NEW s \in Sides, NEW i \in Ids, loop'[s].pc # "gone", ~Here(s, i)', Here(Peer(s), i)'
             PROVE  Why(s, i)'
  BY DEF ELeft, Why, KeepGone
<1>0. Peer(s) \in Sides BY SideFacts
<1>1. CASE Here(s, i) BY <1>1
<1>2. CASE ~Here(s, i)
  <2>1. loop[s].pc # "gone" /\ Here(Peer(s), i) BY <1>0 DEF Forward, FSide, FHere
  <2>2. Why(s, i) BY <1>2, <2>1 DEF EInv, ELeft, Why, KeepGone
  <2>3. CASE MayEnd(s, i) BY <2>3, EndStays DEF Why
  <2>4. CASE link[s].st # "open" BY <2>4 DEF Why, Forward, FSide
  <2>5. CASE KeepGone(Peer(s), i) /\ ~(Holds(s) /\ loop[s].f.id = i)
    <3>1. KeepGone(Peer(s), i)' /\ ~(Holds(s)' /\ loop'[s].f.id = i) BY <1>0, <1>2, <2>5
    <3> QED BY <3>1 DEF Why
  <2> QED BY <2>2, <2>3, <2>4, <2>5 DEF Why
<1> QED BY <1>1, <1>2

\* The rest of the invariant.
Told(s, i) ==
  \/ Aborted(Peer(s), i)
  \/ inp[Peer(s)][i].st = "closed" /\ Len(out[s][i].got) = inp[Peer(s)][i].sent

LEMMA ERestKept ==
  ASSUME EInv, MInv, Forward,
         \A t \in Sides, j \in Ids :
            copier'[t][j] \in {"end", "close", "gone"} /\ copier[t][j] \notin {"end", "close", "gone"}
              => link'[t].st # "open" \/ MayEnd(t, j)',
         \A t \in Sides, j \in Ids : loop'[t].f.id = j =>
            \/ loop'[t] = loop[t]
            \/ loop'[t].pc \in {"read", "write", "gone"}
            \/ loop'[t].pc = "replyclose" /\ out'[t][j].st # "open"
            \/ loop'[t].pc = "reply" /\ ~Here(t, j)',
         \A t \in Sides, j \in Ids : out[t][j].st # "closed" /\ out'[t][j].st = "closed" =>
            /\ ~Here(t, j)'
            /\ sm'[t].closed \/ copier'[t][j] = "gone" \/ Told(t, j)'
  PROVE  EReplies' /\ ECopied' /\ EClosed' /\ ETold'
<1>1. EReplies'
  <2> SUFFICES ASSUME NEW s \in Sides, NEW i \in Ids, loop'[s].f.id = i
               PROVE  /\ loop'[s].pc = "replyclose" => out'[s][i].st # "open"
                      /\ loop'[s].pc = "reply" => ~Here(s, i)'
    BY DEF EReplies
  <2>1. CASE loop'[s] = loop[s] BY <2>1 DEF EInv, EReplies, Forward, FOut, FHere
  <2> QED BY <2>1
<1>2. ECopied'
  <2> SUFFICES ASSUME NEW s \in Sides, NEW i \in Ids, copier'[s][i] \in {"end", "close", "gone"}, link'[s].st = "open"
               PROVE  MayEnd(s, i)'
    BY DEF ECopied
  <2>1. link[s].st = "open" BY DEF Forward, FSide
  <2>2. CASE copier[s][i] \in {"end", "close", "gone"} BY <2>1, <2>2, EndStays DEF EInv, ECopied
  <2> QED BY <2>2
<1>3. EClosed'
  <2> SUFFICES ASSUME NEW s \in Sides, NEW i \in Ids, out'[s][i].st = "closed" PROVE ~Here(s, i)' BY DEF EClosed
  <2>1. CASE out[s][i].st = "closed" BY <2>1 DEF EInv, EClosed, Forward, FHere
  <2> QED BY <2>1
<1>4. ETold'
  <2> SUFFICES ASSUME NEW s \in Sides, NEW i \in Ids, out'[s][i].st = "closed", copier'[s][i] # "gone", ~sm'[s].closed
               PROVE  Told(s, i)'
    BY DEF ETold, Told
  <2>0. Peer(s) \in Sides BY SideFacts
  <2>1. CASE out[s][i].st = "closed"
    <3>1. copier[s][i] # "gone" /\ ~sm[s].closed BY DEF Forward, FCopier, FSide
    <3>2. Told(s, i) BY <2>1, <3>1 DEF EInv, ETold, Told
    <3>3. out'[s][i].got = out[s][i].got BY <2>1 DEF Forward, FOut
    <3>4. inp[Peer(s)][i].st = "closed" =>
             inp'[Peer(s)][i].st = "closed" /\ inp'[Peer(s)][i].sent = inp[Peer(s)][i].sent
      BY <2>0 DEF Forward, FInp
    <3>5. Aborted(Peer(s), i) => Aborted(Peer(s), i)' BY <2>0, EndStays
    <3> QED BY <3>2, <3>3, <3>4, <3>5 DEF Told
  <2> QED BY <2>1
<1> QED BY <1>1, <1>2, <1>3, <1>4

LEMMA EFramesTaken ==
  ASSUME EInv, MInv, Forward, NEW s \in Sides, link[Peer(s)].q # <<>>,
         link'[Peer(s)].q = Tail(link[Peer(s)].q), link'[s].q = link[s].q,
         \A i \in Ids : Live(Peer(s), i)' => Base(Peer(s), i)' = Base(Peer(s), i),
         \A i \in Ids : Live(s, i)' => Base(s, i)' = IF DataOf(Head(link[Peer(s)].q), i)
                                                     THEN Base(s, i) + 1 ELSE Base(s, i)
  PROVE  EFrames' /\ EOwn'
<1> DEFINE t == Peer(s)
           q == link[Peer(s)].q
<1>0. t \in Sides /\ Peer(t) = s /\ t # s /\ q \in Seq(Frames) /\ \A u \in Sides : u = s \/ u = t
  BY SideFacts DEF MInv, MType, Links
<1>1. /\ Len(Tail(q)) = Len(q) - 1 /\ Len(q) \in Nat \ {0}
      /\ \A k \in 1..Len(Tail(q)) : Tail(q)[k] = q[k + 1] /\ k + 1 \in 1..Len(q)
      /\ Head(q) = q[1]
  BY <1>0, TailFacts
<1>2. ASSUME NEW i \in Ids, NEW k \in 1..Len(Tail(q)), IsEnd(Tail(q)[k], i), Here(s, i)'
      PROVE  \/ Aborted(t, i)'
             \/ Drained(t, i)' /\ (Live(s, i)' => Ahead(Tail(q), i, Base(s, i)', inp'[t][i].sent, k))
  <2>1. Here(s, i) /\ IsEnd(q[k + 1], i) BY <1>1, <1>2 DEF Forward, FHere
  <2>2. k + 1 \in 1..Len(q) /\ (k + 1) - 1 = k BY <1>1
  <2>3. \/ Aborted(t, i)
        \/ Drained(t, i) /\ (Live(s, i) => Ahead(q, i, Base(s, i), inp[t][i].sent, k + 1))
    BY <1>0, <2>1, <2>2 DEF EInv, EFrames
  <2>4. ASSUME Live(s, i)', Drained(t, i), Ahead(q, i, Base(s, i), inp[t][i].sent, k + 1)
        PROVE  Ahead(Tail(q), i, Base(s, i)', inp'[t][i].sent, k)
    <3>0. Live(s, i) /\ Base(s, i) \in Nat BY <2>4, EndStays, SentType
    <3>1. inp'[t][i].sent = inp[t][i].sent BY <1>0, <2>4, EndStays
    <3>2. Base(s, i)' = IF DataOf(q[1], i) THEN Base(s, i) + 1 ELSE Base(s, i) BY <1>1, <2>4
    <3>3. DataOf(q[1], i) => Num(q[1]) = Base(s, i) + 1 BY <1>1, <3>0, HeadNext
    <3>4. Base(s, i)' \in Nat /\ Base(s, i) <= Base(s, i)' BY <3>0, <3>2
    <3> SUFFICES ASSUME NEW m \in 1..inp[t][i].sent, Base(s, i)' < m
                 PROVE  \E l \in 1..(k - 1) : DataOf(Tail(q)[l], i) /\ Num(Tail(q)[l]) = m
      BY <3>1 DEF Ahead
    <3>5. inp[t][i].sent \in Nat BY <1>0 DEF MInv, MType, Inputs
    <3>6. Base(s, i) < m BY <3>0, <3>4, <3>5
    <3>7. PICK l \in 1..k : DataOf(q[l], i) /\ Num(q[l]) = m BY <2>2, <2>4, <3>6 DEF Ahead
    <3>8. l # 1 BY <3>0, <3>2, <3>3, <3>5, <3>7
    <3>9. l - 1 \in 1..(k - 1) /\ l - 1 \in 1..Len(Tail(q)) /\ (l - 1) + 1 = l BY <1>1, <3>8
    <3>10. Tail(q)[l - 1] = q[l] BY <1>1, <3>9
    <3> QED BY <3>7, <3>9, <3>10
  <2>5. Live(s, i)' => Live(s, i) BY EndStays
  <2> QED BY <1>0, <2>3, <2>4, <2>5, EndStays
<1>3. ASSUME NEW i \in Ids, NEW k \in 1..Len(link[s].q), IsEnd(link[s].q[k], i), Here(t, i)'
      PROVE  \/ Aborted(s, i)'
             \/ Drained(s, i)' /\ (Live(t, i)' => Ahead(link[s].q, i, Base(t, i)', inp'[s][i].sent, k))
  <2>1. Here(t, i) BY <1>0, <1>3 DEF Forward, FHere
  <2>2. \/ Aborted(s, i)
        \/ Drained(s, i) /\ (Live(t, i) => Ahead(link[s].q, i, Base(t, i), inp[s][i].sent, k))
    BY <1>3, <2>1 DEF EInv, EFrames
  <2>3. Live(t, i)' => Live(t, i) /\ Base(t, i)' = Base(t, i) BY <1>0, EndStays
  <2> QED BY <2>2, <2>3, EndStays
<1>4. ASSUME NEW i \in Ids, NEW k \in 1..Len(Tail(q)), IsEnd(Tail(q)[k], i), Here(t, i)'
      PROVE  /\ copier'[t][i] \in {"close", "gone"}
             /\ \A l \in 1..Len(Tail(q)) : k < l => ~IsKeep(Tail(q)[l], i)
  <2>1. Here(t, i) /\ IsEnd(q[k + 1], i) /\ k + 1 \in 1..Len(q) BY <1>0, <1>1, <1>4 DEF Forward, FHere
  <2>2. /\ copier[t][i] \in {"close", "gone"}
        /\ \A l \in 1..Len(q) : k + 1 < l => ~IsKeep(q[l], i)
    BY <1>0, <2>1 DEF EInv, EOwn
  <2>3. ASSUME NEW l \in 1..Len(Tail(q)), k < l PROVE ~IsKeep(Tail(q)[l], i)
    <3>1. Tail(q)[l] = q[l + 1] /\ l + 1 \in 1..Len(q) /\ k + 1 < l + 1 BY <1>1, <2>3
    <3> QED BY <2>2, <3>1
  <2> QED BY <1>0, <2>2, <2>3 DEF Forward, FCopier
<1>5. ASSUME NEW i \in Ids, NEW k \in 1..Len(link[s].q), IsEnd(link[s].q[k], i), Here(s, i)'
      PROVE  /\ copier'[s][i] \in {"close", "gone"}
             /\ \A l \in 1..Len(link[s].q) : k < l => ~IsKeep(link[s].q[l], i)
  <2>1. Here(s, i) BY <1>5 DEF Forward, FHere
  <2>2. /\ copier[s][i] \in {"close", "gone"}
        /\ \A l \in 1..Len(link[s].q) : k < l => ~IsKeep(link[s].q[l], i)
    BY <1>5, <2>1 DEF EInv, EOwn
  <2> QED BY <2>2 DEF Forward, FCopier
<1>6. EFrames'
  <2> SUFFICES ASSUME NEW u \in Sides, NEW i \in Ids, NEW k \in 1..Len(link'[u].q),
                      IsEnd(link'[u].q[k], i), Here(Peer(u), i)'
               PROVE  \/ Aborted(u, i)'
                      \/ Drained(u, i)' /\ (Live(Peer(u), i)' => Ahead(link'[u].q, i, Base(Peer(u), i)', inp'[u][i].sent, k))
    BY DEF EFrames
  <2>1. CASE u = t
    <3>1. link'[u].q = Tail(q) /\ Peer(u) = s BY <1>0, <2>1
    <3> QED BY <1>2, <2>1, <3>1
  <2>2. CASE u = s
    <3>1. link'[u].q = link[s].q /\ Peer(u) = t BY <2>2
    <3> QED BY <1>3, <2>2, <3>1
  <2> QED BY <1>0, <2>1, <2>2
<1>7. EOwn'
  <2> SUFFICES ASSUME NEW u \in Sides, NEW i \in Ids, NEW k \in 1..Len(link'[u].q),
                      IsEnd(link'[u].q[k], i), Here(u, i)'
               PROVE  /\ copier'[u][i] \in {"close", "gone"}
                      /\ \A l \in 1..Len(link'[u].q) : k < l => ~IsKeep(link'[u].q[l], i)
    BY DEF EOwn
  <2>1. CASE u = t BY <1>4, <2>1
  <2>2. CASE u = s BY <1>5, <2>2
  <2> QED BY <1>0, <2>1, <2>2
<1> QED BY <1>6, <1>7

\* All of a stream that has been copied is in an open link, or past it.
LEMMA DrainedAhead ==
  ASSUME MInv, NEW s \in Sides, NEW i \in Ids, link[s].st = "open", Drained(s, i), Live(Peer(s), i)
  PROVE  Ahead(link[s].q, i, Base(Peer(s), i), inp[s][i].sent, Len(link[s].q) + 1)
<1>0. inp[s][i].sent \in Nat /\ Len(link[s].q) \in Nat BY DEF MInv, MType, Inputs, Links
<1>1. Sent(s, i) = inp[s][i].sent BY DEF Drained, Sent
<1>2. Complete(link[s].q, i, Base(Peer(s), i), Sent(s, i)) BY DEF MInv, MData, Carry
<1> SUFFICES ASSUME NEW m \in 1..inp[s][i].sent, Base(Peer(s), i) < m
             PROVE  \E l \in 1..((Len(link[s].q) + 1) - 1) : DataOf(link[s].q[l], i) /\ Num(link[s].q[l]) = m
  BY DEF Ahead
<1>3. m \in Nat /\ m <= inp[s][i].sent BY <1>0
<1>4. (Len(link[s].q) + 1) - 1 = Len(link[s].q) BY <1>0
<1> QED BY <1>1, <1>2, <1>3, <1>4 DEF Complete

LEMMA EFramesPut ==
  ASSUME EInv, MInv, Forward, NEW s \in Sides, NEW f \in Frames,
         link'[s].q = Append(link[s].q, f), link'[Peer(s)].q = link[Peer(s)].q,
         \A t \in Sides, j \in Ids : Live(t, j)' => Base(t, j)' = Base(t, j),
         \A j \in Ids : IsEnd(f, j) /\ Here(Peer(s), j)' =>
            \/ Aborted(s, j)'
            \/ /\ Drained(s, j)'
               /\ Live(Peer(s), j)' => Ahead(link[s].q, j, Base(Peer(s), j), inp'[s][j].sent, Len(link[s].q) + 1),
         \A j \in Ids : IsEnd(f, j) /\ Here(s, j)' => copier'[s][j] \in {"close", "gone"},
         \A j \in Ids : IsKeep(f, j) => copier[s][j] = "sendkeep"
  PROVE  EFrames' /\ EOwn'
<1> DEFINE q == link[s].q
<1>0. q \in Seq(Frames) BY DEF MInv, MType, Links
<1>1. /\ Len(Append(q, f)) = Len(q) + 1 /\ Len(q) \in Nat
      /\ \A k \in 1..Len(q) : Append(q, f)[k] = q[k]
      /\ Append(q, f)[Len(q) + 1] = f
      /\ \A k \in 1..(Len(q) + 1) : k \in 1..Len(q) \/ k = Len(q) + 1
  BY <1>0, AppendFacts
<1>2. \A n, i, b, k : k \in 1..(Len(q) + 1) /\ Ahead(q, i, b, n, k) => Ahead(Append(q, f), i, b, n, k)
  <2> SUFFICES ASSUME NEW n, NEW i, NEW b, NEW k \in 1..(Len(q) + 1), Ahead(q, i, b, n, k),
                      NEW m \in 1..n, b < m
               PROVE  \E l \in 1..(k - 1) : DataOf(Append(q, f)[l], i) /\ Num(Append(q, f)[l]) = m
    BY DEF Ahead
  <2>1. PICK l \in 1..(k - 1) : DataOf(q[l], i) /\ Num(q[l]) = m BY DEF Ahead
  <2>2. l \in 1..Len(q) BY <1>1
  <2> QED BY <1>1, <2>1, <2>2
<1>3. ASSUME NEW u \in Sides, NEW i \in Ids, NEW k \in 1..Len(link[u].q),
             IsEnd(link[u].q[k], i), Here(Peer(u), i)'
      PROVE  \/ Aborted(u, i)'
             \/ Drained(u, i)' /\ (Live(Peer(u), i)' => Ahead(link[u].q, i, Base(Peer(u), i)', inp'[u][i].sent, k))
  <2>0. Peer(u) \in Sides BY SideFacts
  <2>1. Here(Peer(u), i) BY <1>3, <2>0 DEF Forward, FHere
  <2>2. \/ Aborted(u, i)
        \/ Drained(u, i) /\ (Live(Peer(u), i) => Ahead(link[u].q, i, Base(Peer(u), i), inp[u][i].sent, k))
    BY <1>3, <2>1 DEF EInv, EFrames
  <2>3. Live(Peer(u), i)' => Live(Peer(u), i) /\ Base(Peer(u), i)' = Base(Peer(u), i) BY <2>0, EndStays
  <2> QED BY <2>2, <2>3, EndStays
<1>4. ASSUME NEW u \in Sides, NEW i \in Ids, NEW k \in 1..Len(link[u].q), IsEnd(link[u].q[k], i), Here(u, i)'
      PROVE  /\ copier[u][i] \in {"close", "gone"} /\ copier'[u][i] \in {"close", "gone"}
             /\ \A l \in 1..Len(link[u].q) : k < l => ~IsKeep(link[u].q[l], i)
  <2>1. Here(u, i) BY <1>4 DEF Forward, FHere
  <2>2. /\ copier[u][i] \in {"close", "gone"}
        /\ \A l \in 1..Len(link[u].q) : k < l => ~IsKeep(link[u].q[l], i)
    BY <1>4, <2>1 DEF EInv, EOwn
  <2> QED BY <2>2 DEF Forward, FCopier
<1>5. EFrames'
  <2> SUFFICES ASSUME NEW u \in Sides, NEW i \in Ids, NEW k \in 1..Len(link'[u].q),
                      IsEnd(link'[u].q[k], i), Here(Peer(u), i)'
               PROVE  \/ Aborted(u, i)'
                      \/ Drained(u, i)' /\ (Live(Peer(u), i)' => Ahead(link'[u].q, i, Base(Peer(u), i)', inp'[u][i].sent, k))
    BY DEF EFrames
  <2>1. CASE u # s
    <3>1. link'[u].q = link[u].q BY <2>1, SideFacts
    <3> QED BY <1>3, <3>1
  <2>2. CASE u = s
    <3>1. k \in 1..(Len(q) + 1) /\ link'[u].q = Append(q, f) BY <1>1, <2>2
    <3>2. CASE k \in 1..Len(q)
      <4>1. IsEnd(q[k], i) BY <1>1, <3>1, <3>2
      <4>2. \/ Aborted(s, i)'
            \/ Drained(s, i)' /\ (Live(Peer(s), i)' => Ahead(q, i, Base(Peer(s), i)', inp'[s][i].sent, k))
        BY <1>3, <2>2, <3>2, <4>1
      <4> QED BY <1>2, <2>2, <3>1, <4>2
    <3>3. CASE k = Len(q) + 1
      <4>1. IsEnd(f, i) BY <1>1, <3>1, <3>3
      <4>2. Live(Peer(s), i)' => Base(Peer(s), i)' = Base(Peer(s), i) BY SideFacts
      <4>3. \/ Aborted(s, i)'
            \/ Drained(s, i)' /\ (Live(Peer(s), i)' => Ahead(q, i, Base(Peer(s), i)', inp'[s][i].sent, k))
        BY <2>2, <3>3, <4>1, <4>2
      <4> QED BY <1>2, <2>2, <3>1, <4>3
    <3> QED BY <1>1, <3>1, <3>2, <3>3
  <2> QED BY <2>1, <2>2
<1>6. EOwn'
  <2> SUFFICES ASSUME NEW u \in Sides, NEW i \in Ids, NEW k \in 1..Len(link'[u].q),
                      IsEnd(link'[u].q[k], i), Here(u, i)'
               PROVE  /\ copier'[u][i] \in {"close", "gone"}
                      /\ \A l \in 1..Len(link'[u].q) : k < l => ~IsKeep(link'[u].q[l], i)
    BY DEF EOwn
  <2>1. CASE u # s
    <3>1. link'[u].q = link[u].q BY <2>1, SideFacts
    <3> QED BY <1>4, <3>1
  <2>2. CASE u = s
    <3>1. k \in 1..(Len(q) + 1) /\ link'[u].q = Append(q, f) BY <1>1, <2>2
    <3>2. CASE k \in 1..Len(q)
      <4>1. IsEnd(q[k], i) BY <1>1, <3>1, <3>2
      <4>2. /\ copier[s][i] \in {"close", "gone"} /\ copier'[s][i] \in {"close", "gone"}
            /\ \A l \in 1..Len(q) : k < l => ~IsKeep(q[l], i)
        BY <1>4, <2>2, <3>2, <4>1
      <4>3. ~IsKeep(f, i) BY <4>2
      <4>4. \A l \in 1..(Len(q) + 1) : k < l => ~IsKeep(Append(q, f)[l], i) BY <1>1, <4>2, <4>3
      <4> QED BY <1>1, <2>2, <3>1, <4>2, <4>4
    <3>3. CASE k = Len(q) + 1
      <4>1. IsEnd(f, i) BY <1>1, <3>1, <3>3
      <4>2. \A l \in 1..(Len(q) + 1) : ~(k < l) BY <1>1, <3>3
      <4> QED BY <1>1, <2>2, <3>1, <4>1, <4>2
    <3> QED BY <1>1, <3>1, <3>2, <3>3
  <2> QED BY <2>1, <2>2
<1> QED BY <1>5, <1>6

LEMMA KeepGoneKept ==
  ASSUME MInv, Forward, NEW t \in Sides, NEW j \in Ids, KeepGone(t, j),
         \/ From(link'[t].q, link[t].q)
         \/ \E f \in Frames : link'[t].q = Append(link[t].q, f) /\ (IsKeep(f, j) => copier[t][j] = "sendkeep")
  PROVE  KeepGone(t, j)'
<1>0. copier[t][j] \in {"close", "gone"} /\ \A k \in 1..Len(link[t].q) : ~IsKeep(link[t].q[k], j) BY DEF KeepGone
<1>1. copier'[t][j] \in {"close", "gone"} BY <1>0 DEF Forward, FCopier
<1>2. link[t].q \in Seq(Frames) BY DEF MInv, MType, Links
<1>3. CASE From(link'[t].q, link[t].q)
  <2>1. \A k \in 1..Len(link'[t].q) : \E l \in 1..Len(link[t].q) : link'[t].q[k] = link[t].q[l] BY <1>2, <1>3, FromFrames
  <2> QED BY <1>0, <1>1, <2>1 DEF KeepGone
<1>4. ASSUME NEW f \in Frames, link'[t].q = Append(link[t].q, f), IsKeep(f, j) => copier[t][j] = "sendkeep"
      PROVE  KeepGone(t, j)'
  <2>1. ~IsKeep(f, j) BY <1>0, <1>4
  <2>2. \A k \in 1..Len(link'[t].q) :
             (k \in 1..Len(link[t].q) /\ link'[t].q[k] = link[t].q[k]) \/ link'[t].q[k] = f
    BY <1>2, <1>4, AppendFacts
  <2> QED BY <1>0, <1>1, <2>1, <2>2 DEF KeepGone
<1> QED BY <1>3, <1>4

\* A step that leaves the links alone or empties them.
LEMMA ECalm ==
  ASSUME EInv, MInv, Forward, ETable', EDone',
         \A t \in Sides : link'[t].q = link[t].q \/ link'[t].q = <<>>,
         \A t \in Sides : \/ loop'[t] = loop[t]
                          \/ loop'[t].pc \in {"read", "gone"}
                          \/ /\ loop[t].pc = "write" /\ loop'[t].pc = "replyclose" /\ loop'[t].f = loop[t].f
                             /\ \A j \in Ids : loop[t].f.id = j => out'[t][j].st # "open",
         \A t \in Sides, j \in Ids : Live(t, j)' => Base(t, j)' = Base(t, j),
         \A t \in Sides, j \in Ids :
            copier'[t][j] \in {"end", "close", "gone"} /\ copier[t][j] \notin {"end", "close", "gone"}
              => link'[t].st # "open" \/ MayEnd(t, j)',
         \A t \in Sides, j \in Ids : out[t][j].st # "closed" /\ out'[t][j].st = "closed" =>
            /\ ~Here(t, j)'
            /\ sm'[t].closed \/ copier'[t][j] = "gone" \/ Told(t, j)',
         \A t \in Sides, j \in Ids :
            Here(t, j) /\ ~Here(t, j)' /\ loop'[t].pc # "gone" /\ Here(Peer(t), j)' => Why(t, j)'
  PROVE  EInv'
<1>1. EFrames' /\ EOwn' BY EFramesKept
<1>2. \A t \in Sides, j \in Ids : KeepGone(t, j) => KeepGone(t, j)'
  BY KeepGoneKept DEF From
<1>3. \A t \in Sides, j \in Ids : Holds(t)' /\ loop'[t].f.id = j => Holds(t) /\ loop[t].f.id = j
  BY DEF Holds
<1>4. ELeft' BY <1>2, <1>3, ELeftKept
<1>5. \A t \in Sides, j \in Ids : loop'[t].f.id = j =>
         \/ loop'[t] = loop[t]
         \/ loop'[t].pc \in {"read", "write", "gone"}
         \/ loop'[t].pc = "replyclose" /\ out'[t][j].st # "open"
         \/ loop'[t].pc = "reply" /\ ~Here(t, j)'
  OBVIOUS
<1>6. EReplies' /\ ECopied' /\ EClosed' /\ ETold' BY <1>5, ERestKept
<1> QED BY <1>1, <1>4, <1>6 DEF EInv

LEMMA SameForward ==
  /\ inp' = inp => FInp
  /\ out' = out => FOut
  /\ copier' = copier => FCopier
  /\ sm' = sm /\ copier' = copier => FHere /\ \A t \in Sides, j \in Ids : Here(t, j) => Here(t, j)'
  /\ link' = link /\ loop' = loop /\ sm' = sm => FSide
<1>1. inp' = inp => FInp BY DEF FInp
<1>2. out' = out => FOut BY DEF FOut
<1>3. copier' = copier => FCopier BY DEF FCopier
<1>4. sm' = sm /\ copier' = copier => FHere /\ \A t \in Sides, j \in Ids : Here(t, j) => Here(t, j)'
  BY DEF FHere, Here, Found
<1>5. link' = link /\ loop' = loop /\ sm' = sm => FSide BY DEF FSide
<1> QED BY <1>1, <1>2, <1>3, <1>4, <1>5

\* One input, one output or one goroutine moves.
LEMMA OneInput ==
  ASSUME MType, NEW s \in Sides, NEW i \in Ids, NEW r \in Inputs, inp' = [inp EXCEPT ![s][i] = r],
         inp[s][i].st = "errored" => r.st = "errored",
         inp[s][i].st = "closed" => r.st = "closed" /\ r.sent = inp[s][i].sent,
         inp[s][i].st = "closed" /\ inp[s][i].taken = inp[s][i].sent => r.taken = inp[s][i].taken
  PROVE  FInp /\ inp'[s][i] = r /\ \A t \in Sides, j \in Ids : t # s \/ j # i => inp'[t][j] = inp[t][j]
<1>1. inp \in [Sides -> [Ids -> Inputs]] BY DEF MType
<1>2. \A t \in Sides, j \in Ids : inp'[t][j] = IF t = s /\ j = i THEN r ELSE inp[t][j] BY <1>1
<1>3. FInp BY <1>2 DEF FInp
<1> QED BY <1>2, <1>3

LEMMA OneOutput ==
  ASSUME MType, NEW s \in Sides, NEW i \in Ids, NEW r \in Outputs, out' = [out EXCEPT ![s][i] = r],
         out[s][i].st # "open" => r.st = out[s][i].st /\ r.got = out[s][i].got
  PROVE  FOut /\ out'[s][i] = r /\ \A t \in Sides, j \in Ids : t # s \/ j # i => out'[t][j] = out[t][j]
<1>1. out \in [Sides -> [Ids -> Outputs]] BY DEF MType
<1>2. \A t \in Sides, j \in Ids : out'[t][j] = IF t = s /\ j = i THEN r ELSE out[t][j] BY <1>1
<1>3. FOut BY <1>2 DEF FOut
<1> QED BY <1>2, <1>3

LEMMA OneCopier ==
  ASSUME MType, NEW s \in Sides, NEW i \in Ids, NEW x, copier' = [copier EXCEPT ![s][i] = x],
         copier[s][i] \in {"end", "close", "gone"} => x \in {"end", "close", "gone"},
         copier[s][i] \in {"close", "gone"} => x \in {"close", "gone"},
         copier[s][i] = "gone" => x = "gone"
  PROVE  /\ FCopier /\ copier'[s][i] = x
         /\ \A t \in Sides, j \in Ids : t # s \/ j # i => copier'[t][j] = copier[t][j]
<1>1. copier \in [Sides -> [Ids -> CopierPcs]] BY DEF MType
<1>2. \A t \in Sides, j \in Ids : copier'[t][j] = IF t = s /\ j = i THEN x ELSE copier[t][j] BY <1>1
<1>3. FCopier BY <1>2 DEF FCopier
<1> QED BY <1>2, <1>3

LEMMA PipeEnds ==
  /\ \A r \in Inputs \cup Outputs :
        /\ r.st \in PipeStates
        /\ Close(r).st = (IF r.st = "open" THEN "closed" ELSE r.st)
        /\ Interrupt(r).st = (IF r.st = "open" THEN "errored" ELSE r.st)
  /\ \A r \in Inputs : /\ Close(r) \in Inputs /\ Close(r).taken = r.taken /\ Close(r).sent = r.sent
                       /\ Interrupt(r) \in Inputs /\ Interrupt(r).taken = r.taken /\ Interrupt(r).sent = r.sent
  /\ \A r \in Outputs : Close(r) \in Outputs /\ Close(r).got = r.got /\ Interrupt(r) \in Outputs /\ Interrupt(r).got = r.got
<1>1. \A r \in Inputs :
        /\ r.st \in PipeStates
        /\ Close(r).st = (IF r.st = "open" THEN "closed" ELSE r.st)
        /\ Interrupt(r).st = (IF r.st = "open" THEN "errored" ELSE r.st)
  BY DEF Inputs, Close, Interrupt
<1>2. \A r \in Outputs :
        /\ r.st \in PipeStates
        /\ Close(r).st = (IF r.st = "open" THEN "closed" ELSE r.st)
        /\ Interrupt(r).st = (IF r.st = "open" THEN "errored" ELSE r.st)
  BY DEF Outputs, Close, Interrupt
<1> QED BY <1>1, <1>2, PipeFacts

-----------------------------------------------------------------------------
(* Every step keeps it. *)

LEMMA UserEnds ==
  ASSUME EInv, MInv, NEW s \in Sides, NEW i \in Ids, User(s, i)
  PROVE  EInv'
<1>0. UNCHANGED <<caller, sm, done, monitor, copier, hasError, loop, link>>
  BY DEF User, UserSend, UserClose, UserAbort, UserRead
<1>a. MType /\ inp[s][i] \in Inputs /\ out[s][i] \in Outputs BY DEF MInv, MType
<1>1. FInp
  <2>1. CASE UserSend(s, i)
    <3> DEFINE r == [inp[s][i] EXCEPT !.sent = @ + 1]
    <3>1. r \in Inputs /\ inp[s][i].st = "open" BY <1>a, <2>1 DEF Inputs, UserSend
    <3>2. inp' = [inp EXCEPT ![s][i] = r] BY <2>1 DEF UserSend
    <3> HIDE DEF r
    <3> QED BY <1>a, <3>1, <3>2, OneInput
  <2>2. CASE UserClose(s, i)
    <3>1. inp' = [inp EXCEPT ![s][i] = Close(inp[s][i])] BY <2>2 DEF UserClose
    <3> QED BY <1>a, <3>1, PipeEnds, OneInput
  <2>3. CASE UserAbort(s, i)
    <3>1. inp' = [inp EXCEPT ![s][i] = Interrupt(inp[s][i])] BY <2>3 DEF UserAbort
    <3> QED BY <1>a, <3>1, PipeEnds, OneInput
  <2>4. CASE UserRead(s, i) BY <2>4, SameForward DEF UserRead
  <2> QED BY <2>1, <2>2, <2>3, <2>4 DEF User
<1>2. FOut /\ \A t \in Sides, j \in Ids : /\ out'[t][j].got = out[t][j].got
                                          /\ out'[t][j].st = "closed" => out[t][j].st = "closed"
  <2>1. CASE UserAbort(s, i)
    <3>1. out' = [out EXCEPT ![s][i] = Interrupt(out[s][i])] BY <2>1 DEF UserAbort
    <3>2. PICK r \in Outputs : /\ out' = [out EXCEPT ![s][i] = r] /\ r.got = out[s][i].got
                               /\ r.st = (IF out[s][i].st = "open" THEN "errored" ELSE out[s][i].st)
      BY <1>a, <3>1, PipeEnds
    <3>b. out[s][i].st # "open" => r.st = out[s][i].st /\ r.got = out[s][i].got BY <3>2
    <3>3. FOut /\ out'[s][i] = r /\ \A t \in Sides, j \in Ids : t # s \/ j # i => out'[t][j] = out[t][j]
      BY <1>a, <3>b, <3>2, OneOutput
    <3> QED BY <3>2, <3>3
  <2>2. CASE UserRead(s, i)
    <3> DEFINE r == [out[s][i] EXCEPT !.read = @ + 1]
    <3>1. r \in Outputs /\ r.st = out[s][i].st /\ r.got = out[s][i].got BY <1>a DEF Outputs
    <3>2. out' = [out EXCEPT ![s][i] = r] BY <2>2 DEF UserRead
    <3> HIDE DEF r
    <3>3. FOut /\ out'[s][i] = r /\ \A t \in Sides, j \in Ids : t # s \/ j # i => out'[t][j] = out[t][j]
      BY <1>a, <3>1, <3>2, OneOutput
    <3> QED BY <3>1, <3>3
  <2>3. CASE out' = out BY <2>3, SameForward
  <2> QED BY <2>1, <2>2, <2>3 DEF User, UserSend, UserClose
<1>3. Forward /\ \A t \in Sides, j \in Ids : Here(t, j) => Here(t, j)' BY <1>0, <1>1, <1>2, SameForward DEF Forward
<1>4. ETable' /\ EDone' BY <1>0 DEF EInv, ETable, EDone
<1>5. \A t \in Sides, j \in Ids : Base(t, j)' = Base(t, j) BY <1>0, <1>2 DEF Base
<1> QED BY <1>0, <1>2, <1>3, <1>4, <1>5, ECalm

\* The copying goroutine reads its input.
LEMMA ReadEnds ==
  ASSUME EInv, MInv, NEW s \in Sides, NEW i \in Ids, NEW x \in {"sendnew", "sendkeep", "end"}, NEW r \in Inputs,
         UNCHANGED <<caller, sm, done, monitor, loop, out, link>>,
         copier[s][i] \in {"first", "copy"}, copier' = [copier EXCEPT ![s][i] = x],
         inp' = [inp EXCEPT ![s][i] = r],
         inp[s][i].st = "errored" => r.st = "errored",
         inp[s][i].st = "closed" => r.st = "closed" /\ r.sent = inp[s][i].sent,
         inp[s][i].st = "closed" /\ inp[s][i].taken = inp[s][i].sent => r.taken = inp[s][i].taken,
         x = "end" => r.st = "errored" \/ (r.st = "closed" /\ r.taken = r.sent)
  PROVE  EInv'
<1>0. MType BY DEF MInv
<1>1. FInp /\ inp'[s][i] = r BY <1>0, OneInput
<1>2. /\ FCopier /\ copier'[s][i] = x
      /\ \A t \in Sides, j \in Ids : t # s \/ j # i => copier'[t][j] = copier[t][j]
  BY <1>0, OneCopier
<1>3. \A t \in Sides, j \in Ids : Here(t, j)' <=> Here(t, j) BY <1>2 DEF Here, Found
<1>4. FHere BY <1>3 DEF FHere
<1>5. Forward BY <1>1, <1>2, <1>4, SameForward DEF Forward, FSide
<1>6. ETable'
  <2>1. \A j \in Ids : copier'["server"][j] = "none" => copier["server"][j] = "none" BY <1>2, SideFacts
  <2> QED BY <2>1 DEF EInv, ETable
<1>7. EDone' BY DEF EInv, EDone
<1>8. \A t \in Sides, j \in Ids : Base(t, j)' = Base(t, j) BY DEF Base
<1>9. x = "end" => MayEnd(s, i)' BY <1>1, <1>2 DEF MayEnd, Aborted, Drained
<1>10. \A t \in Sides, j \in Ids :
         copier'[t][j] \in {"end", "close", "gone"} /\ copier[t][j] \notin {"end", "close", "gone"}
           => link'[t].st # "open" \/ MayEnd(t, j)'
  BY <1>2, <1>9
<1> QED BY <1>3, <1>5, <1>6, <1>7, <1>8, <1>10, ECalm

LEMMA FirstPayloadEnds ==
  ASSUME EInv, MInv, NEW i \in Ids, FirstPayload(i)
  PROVE  EInv'
<1> DEFINE s == "client"
           in == inp["client"][i]
<1>0. /\ UNCHANGED <<caller, sm, done, monitor, loop, out, link>>
      /\ copier[s][i] = "first" /\ in \in Inputs /\ s \in Sides
  BY SideFacts DEF FirstPayload, MInv, MType
<1>1. CASE /\ in.st # "errored" /\ in.taken < in.sent
           /\ inp' = [inp EXCEPT !["client"][i].taken = @ + 1]
           /\ copier' = [copier EXCEPT !["client"][i] = "sendnew"]
  <2> DEFINE r == [in EXCEPT !.taken = @ + 1]
  <2>1. r \in Inputs /\ r.st = in.st /\ r.sent = in.sent BY <1>0 DEF Inputs
  <2>2. inp' = [inp EXCEPT ![s][i] = r] BY <1>1
  <2>3. in.taken # in.sent BY <1>0, <1>1 DEF Inputs
  <2>4. PICK y \in Inputs : /\ y.st = inp[s][i].st /\ y.sent = inp[s][i].sent
                            /\ inp' = [inp EXCEPT ![s][i] = y]
    BY <2>1, <2>2
  <2>5. inp[s][i].taken # inp[s][i].sent BY <2>3
  <2> HIDE DEF r, in
  <2>6. copier[s][i] \in {"first", "copy"} /\ copier' = [copier EXCEPT ![s][i] = "sendnew"] BY <1>0, <1>1
  <2>7. /\ inp[s][i].st = "errored" => y.st = "errored"
        /\ inp[s][i].st = "closed" => y.st = "closed" /\ y.sent = inp[s][i].sent
        /\ inp[s][i].st = "closed" /\ inp[s][i].taken = inp[s][i].sent => y.taken = inp[s][i].taken
    BY <2>4, <2>5
  <2> QED BY <1>0, <2>4, <2>6, <2>7, ReadEnds
<1>2. CASE copier' = [copier EXCEPT !["client"][i] = "sendnew"] /\ inp' = inp
  <2>1. inp' = [inp EXCEPT ![s][i] = in] BY <1>0, <1>2 DEF MInv, MType
  <2> QED BY <1>0, <1>2, <2>1, ReadEnds
<1>3. CASE /\ in.st = "errored" \/ (in.st = "closed" /\ in.taken = in.sent)
           /\ inp' = [inp EXCEPT !["client"][i] = Interrupt(@)]
           /\ copier' = [copier EXCEPT !["client"][i] = "end"]
  <2> DEFINE r == Interrupt(in)
  <2>1. r \in Inputs /\ r.st = in.st /\ r.taken = in.taken /\ r.sent = in.sent BY <1>0, <1>3, PipeEnds
  <2>2. inp' = [inp EXCEPT ![s][i] = r] BY <1>3
  <2>3. PICK y \in Inputs : /\ y.st = inp[s][i].st /\ y.sent = inp[s][i].sent /\ y.taken = inp[s][i].taken
                            /\ inp' = [inp EXCEPT ![s][i] = y]
    BY <2>1, <2>2
  <2>4. y.st = "errored" \/ (y.st = "closed" /\ y.taken = y.sent) BY <1>3, <2>3
  <2> HIDE DEF r, in
  <2> QED BY ZenonT(40), <1>0, <1>3, <2>3, <2>4, ReadEnds
<1> QED BY <1>1, <1>2, <1>3 DEF FirstPayload

LEMMA CopyReadEnds ==
  ASSUME EInv, MInv, NEW s \in Sides, NEW i \in Ids, CopyRead(s, i)
  PROVE  EInv'
<1> DEFINE in == inp[s][i]
<1>0. /\ UNCHANGED <<caller, sm, done, monitor, loop, out, link>>
      /\ copier[s][i] = "copy" /\ in \in Inputs
  BY DEF CopyRead, MInv, MType
<1>1. CASE /\ in.st # "errored" /\ in.taken < in.sent
           /\ inp' = [inp EXCEPT ![s][i].taken = @ + 1]
           /\ copier' = [copier EXCEPT ![s][i] = "sendkeep"]
  <2> DEFINE r == [in EXCEPT !.taken = @ + 1]
  <2>1. r \in Inputs /\ r.st = in.st /\ r.sent = in.sent BY <1>0 DEF Inputs
  <2>2. inp' = [inp EXCEPT ![s][i] = r] BY <1>1
  <2>3. in.taken # in.sent BY <1>0, <1>1 DEF Inputs
  <2>4. PICK y \in Inputs : /\ y.st = inp[s][i].st /\ y.sent = inp[s][i].sent
                            /\ inp' = [inp EXCEPT ![s][i] = y]
    BY <2>1, <2>2
  <2>5. inp[s][i].taken # inp[s][i].sent BY <2>3
  <2> HIDE DEF r, in
  <2>6. copier[s][i] \in {"first", "copy"} /\ copier' = [copier EXCEPT ![s][i] = "sendkeep"] BY <1>0, <1>1
  <2>7. /\ inp[s][i].st = "errored" => y.st = "errored"
        /\ inp[s][i].st = "closed" => y.st = "closed" /\ y.sent = inp[s][i].sent
        /\ inp[s][i].st = "closed" /\ inp[s][i].taken = inp[s][i].sent => y.taken = inp[s][i].taken
    BY <2>4, <2>5
  <2> QED BY <1>0, <2>4, <2>6, <2>7, ReadEnds
<1>2. CASE /\ in.st = "errored" \/ (in.st = "closed" /\ in.taken = in.sent)
           /\ copier' = [copier EXCEPT ![s][i] = "end"]
           /\ inp' = inp
  <2>1. inp' = [inp EXCEPT ![s][i] = in] BY <1>0, <1>2 DEF MInv, MType
  <2> QED BY ZenonT(40), <1>0, <1>2, <2>1, ReadEnds
<1> QED BY <1>1, <1>2 DEF CopyRead

LEMMA DispatchCheckEnds ==
  ASSUME EInv, MInv, NEW c \in Callers, DispatchCheck(c)
  PROVE  EInv'
<1>0. UNCHANGED <<sm, done, monitor, copier, loop, inp, out, link>> BY DEF DispatchCheck
<1>1. \A d \in Callers : caller'[d].pc = "allocated" => caller[d].pc = "allocated"
  BY DEF DispatchCheck, MInv, MType, Callings
<1>2. ETable' /\ EDone' BY <1>0, <1>1 DEF EInv, ETable, EDone
<1>3. Forward /\ \A t \in Sides, j \in Ids : Here(t, j) => Here(t, j)' BY <1>0, SameForward DEF Forward
<1>4. \A t \in Sides, j \in Ids : Base(t, j)' = Base(t, j) BY <1>0 DEF Base
<1> QED BY <1>0, <1>2, <1>3, <1>4, ECalm

LEMMA DispatchAllocateEnds ==
  ASSUME EInv, MInv, NEW c \in Callers, DispatchAllocate(c)
  PROVE  EInv'
<1>0. UNCHANGED <<done, monitor, copier, loop, inp, out, link>> BY DEF DispatchAllocate
<1>a. "client" \in Sides /\ "server" \in Sides BY SideFacts
<1>1. \A t \in Sides, j \in Ids : Base(t, j)' = Base(t, j) BY <1>0 DEF Base
<1>2. CASE sm["client"].closed
  <2>1. sm' = sm BY <1>2 DEF DispatchAllocate
  <2>2. \A d \in Callers : caller'[d].pc = "allocated" => caller[d].pc = "allocated"
    BY <1>2 DEF DispatchAllocate, MInv, MType, Callings
  <2>3. ETable' /\ EDone' BY <1>0, <2>1, <2>2 DEF EInv, ETable, EDone
  <2>4. Forward /\ \A t \in Sides, j \in Ids : Here(t, j) => Here(t, j)' BY <1>0, <2>1, SameForward DEF Forward
  <2> QED BY <1>0, <1>1, <2>3, <2>4, ECalm
<1>3. CASE ~sm["client"].closed
  <2> DEFINE n == sm["client"].count + 1
  <2>0. sm \in [Sides -> Managers] /\ sm["client"] \in Managers BY <1>a DEF MInv, MType
  <2>1. PICK m : /\ sm' = [sm EXCEPT !["client"] = m] /\ m.closed = sm["client"].closed
                 /\ m.sessions = sm["client"].sessions \cup {n}
    <3> DEFINE m == [sm["client"] EXCEPT !.count = n, !.sessions = @ \cup {n}]
    <3>1. sm' = [sm EXCEPT !["client"] = m] BY <1>3 DEF DispatchAllocate
    <3> HIDE DEF n
    <3>2. m.sessions = sm["client"].sessions \cup {n} BY <2>0 DEF Managers
    <3>3. m.closed = sm["client"].closed BY <2>0, Zenon DEF Managers
    <3> QED BY <3>1, <3>2, <3>3
  <2>2. sm'["client"] = m /\ sm'["server"] = sm["server"] BY <1>a, <2>0, <2>1
  <2>3. n \in Ids => copier["client"][n] = "none"
    <3>1. sm["client"].count \in Nat /\ \A d \in Callers : caller[d].id <= sm["client"].count /\ caller[d].id \in Nat
      BY <2>0 DEF MInv, MCallers, MType, Callings, Managers
    <3>2. \A d \in Callers : caller[d].id # n BY <3>1
    <3> QED BY <3>2 DEF MInv, MCallers
  <2>4. \A t \in Sides, j \in Ids : Here(t, j)' <=> Here(t, j)
    <3>1. \A j \in Ids : Here("client", j)' <=> Here("client", j) BY <1>0, <1>3, <2>1, <2>2, <2>3 DEF Here, Found
    <3>2. \A j \in Ids : Here("server", j)' <=> Here("server", j) BY <1>0, <2>2 DEF Here, Found
    <3> QED BY <3>1, <3>2 DEF Sides
  <2>5. FSide BY <1>0, <2>1, <2>2 DEF FSide, Sides
  <2>6. Forward BY <1>0, <2>4, <2>5, SameForward DEF Forward, FHere
  <2>7. ETable' BY <1>0, <2>2 DEF EInv, ETable
  <2>8. EDone' BY <1>0, <1>3, <2>1, <2>2 DEF EInv, EDone
  <2> HIDE DEF n
  <2> QED BY <1>0, <1>1, <2>4, <2>6, <2>7, <2>8, ECalm
<1> QED BY <1>2, <1>3

LEMMA DispatchLinkEnds ==
  ASSUME EInv, MInv, NEW c \in Callers, DispatchLink(c)
  PROVE  EInv'
<1>0. UNCHANGED <<sm, done, monitor, loop, inp, out, link>> /\ caller[c].pc = "allocated" /\ MType
  BY DEF DispatchLink, MInv
<1>a. "client" \in Sides /\ "server" \in Sides BY SideFacts
<1>1. caller[c].id # 0 /\ copier["client"][caller[c].id] = "none"
      /\ (~sm["client"].closed => caller[c].id \in sm["client"].sessions)
  BY <1>0 DEF MInv, MCallers
<1>2. PICK i \in Ids : i = caller[c].id BY <1>1, IdsGiven
<1>3. copier' = [copier EXCEPT !["client"][i] = "first"] BY <1>2 DEF DispatchLink
<1>4. /\ FCopier /\ copier'["client"][i] = "first"
      /\ \A t \in Sides, j \in Ids : t # "client" \/ j # i => copier'[t][j] = copier[t][j]
  BY ZenonT(40), <1>0, <1>a, <1>1, <1>2, <1>3, OneCopier
<1>5. Here("client", i) BY <1>1, <1>2 DEF Here
<1>6. \A t \in Sides, j \in Ids : t # "client" \/ j # i => (Here(t, j)' <=> Here(t, j)) BY <1>0, <1>4 DEF Here, Found
<1>7. FHere BY <1>5, <1>6 DEF FHere
<1>8. Forward BY <1>0, <1>4, <1>7, SameForward DEF Forward, FSide
<1>9. ETable' BY <1>0, <1>4, <1>a DEF EInv, ETable
<1>10. \A d \in Callers : caller'[d].pc = "allocated" => caller[d].pc = "allocated"
  BY DEF DispatchLink, MInv, MType, Callings
<1>11. EDone' BY <1>0, <1>10 DEF EInv, EDone
<1>12. \A t \in Sides, j \in Ids : Base(t, j)' = Base(t, j) BY <1>0 DEF Base
<1>13. Here("client", i)' \/ loop["client"].pc = "gone" \/ link["client"].st # "open"
  <2>1. CASE ~sm["client"].closed
    <3>1. Found("client", i)' BY <1>0, <1>1, <1>2, <2>1 DEF Found
    <3> QED BY <3>1 DEF Here
  <2>2. CASE sm["client"].closed BY <1>0, <2>2 DEF EInv, EDone
  <2> QED BY <2>1, <2>2
<1>14. \A t \in Sides, j \in Ids :
         Here(t, j) /\ ~Here(t, j)' /\ loop'[t].pc # "gone" /\ Here(Peer(t), j)' => Why(t, j)'
  BY <1>0, <1>6, <1>13 DEF Why
<1>15. \A t \in Sides, j \in Ids :
         copier'[t][j] \in {"end", "close", "gone"} /\ copier[t][j] \notin {"end", "close", "gone"}
           => link'[t].st # "open" \/ MayEnd(t, j)'
  BY <1>4
<1> QED BY <1>0, <1>8, <1>9, <1>11, <1>12, <1>14, <1>15, ECalm

-----------------------------------------------------------------------------
(* Steps that put a frame into a link or take one from it. *)

LEMMA EPut ==
  ASSUME EInv, MInv, Forward, ETable', EDone', NEW s \in Sides, NEW f \in Frames,
         link'[s].q = Append(link[s].q, f), link'[Peer(s)].q = link[Peer(s)].q,
         \A t \in Sides : loop'[t] = loop[t] \/ loop'[t].pc = "read",
         \A t \in Sides, j \in Ids : Live(t, j)' => Base(t, j)' = Base(t, j),
         \A j \in Ids : IsEnd(f, j) /\ Here(Peer(s), j)' =>
            \/ Aborted(s, j)'
            \/ /\ Drained(s, j)'
               /\ Live(Peer(s), j)' => Ahead(link[s].q, j, Base(Peer(s), j), inp'[s][j].sent, Len(link[s].q) + 1),
         \A j \in Ids : IsEnd(f, j) /\ Here(s, j)' => copier'[s][j] \in {"close", "gone"},
         \A j \in Ids : IsKeep(f, j) => copier[s][j] = "sendkeep",
         \A t \in Sides, j \in Ids :
            copier'[t][j] \in {"end", "close", "gone"} /\ copier[t][j] \notin {"end", "close", "gone"}
              => link'[t].st # "open" \/ MayEnd(t, j)',
         \A t \in Sides, j \in Ids : out'[t][j].st = "closed" => out[t][j].st = "closed",
         \A t \in Sides, j \in Ids :
            Here(t, j) /\ ~Here(t, j)' /\ loop'[t].pc # "gone" /\ Here(Peer(t), j)' => Why(t, j)'
  PROVE  EInv'
<1>1. EFrames' /\ EOwn' BY EFramesPut
<1>2. ASSUME NEW t \in Sides, NEW j \in Ids, KeepGone(t, j) PROVE KeepGone(t, j)'
  <2>1. CASE t = s BY <1>2, <2>1, KeepGoneKept
  <2>2. CASE t # s
    <3>1. From(link'[t].q, link[t].q) BY <2>2, SideFacts DEF From
    <3> QED BY <1>2, <3>1, KeepGoneKept
  <2> QED BY <2>1, <2>2
<1>3. \A t \in Sides, j \in Ids : Holds(t)' /\ loop'[t].f.id = j => Holds(t) /\ loop[t].f.id = j
  BY DEF Holds
<1>4. ELeft' BY <1>2, <1>3, ELeftKept
<1>5. \A t \in Sides, j \in Ids : loop'[t].f.id = j =>
         \/ loop'[t] = loop[t]
         \/ loop'[t].pc \in {"read", "write", "gone"}
         \/ loop'[t].pc = "replyclose" /\ out'[t][j].st # "open"
         \/ loop'[t].pc = "reply" /\ ~Here(t, j)'
  OBVIOUS
<1>6. \A t \in Sides, j \in Ids : out[t][j].st # "closed" /\ out'[t][j].st = "closed" =>
            /\ ~Here(t, j)'
            /\ sm'[t].closed \/ copier'[t][j] = "gone" \/ Told(t, j)'
  OBVIOUS
<1>7. EReplies' /\ ECopied' /\ EClosed' /\ ETold' BY <1>5, <1>6, ERestKept
<1> QED BY <1>1, <1>4, <1>7 DEF EInv

LEMMA ETake ==
  ASSUME EInv, MInv, Forward, ETable', EDone', NEW s \in Sides, link[Peer(s)].q # <<>>,
         link'[Peer(s)].q = Tail(link[Peer(s)].q), link'[s].q = link[s].q,
         \A i \in Ids : Live(Peer(s), i)' => Base(Peer(s), i)' = Base(Peer(s), i),
         \A i \in Ids : Live(s, i)' => Base(s, i)' = IF DataOf(Head(link[Peer(s)].q), i)
                                                     THEN Base(s, i) + 1 ELSE Base(s, i),
         loop'[Peer(s)] = loop[Peer(s)],
         \A j \in Ids : ~Here(s, j) /\ KeepGone(Peer(s), j) => ~(Holds(s)' /\ loop'[s].f.id = j),
         \A j \in Ids : loop'[s].f.id = j =>
            \/ loop'[s] = loop[s]
            \/ loop'[s].pc \in {"read", "write", "gone"}
            \/ loop'[s].pc = "reply" /\ ~Here(s, j)',
         \A t \in Sides, j \in Ids : copier'[t][j] \in {"end", "close", "gone"} => copier'[t][j] = copier[t][j],
         \A t \in Sides, j \in Ids : out[t][j].st # "closed" /\ out'[t][j].st = "closed" =>
            /\ ~Here(t, j)'
            /\ sm'[t].closed \/ copier'[t][j] = "gone" \/ Told(t, j)',
         \A t \in Sides, j \in Ids :
            Here(t, j) /\ ~Here(t, j)' /\ loop'[t].pc # "gone" /\ Here(Peer(t), j)' => Why(t, j)'
  PROVE  EInv'
<1>0. \A t \in Sides : t = s \/ t = Peer(s) BY SideFacts
<1>1. EFrames' /\ EOwn' BY EFramesTaken
<1>2. \A t \in Sides, j \in Ids : KeepGone(t, j) => KeepGone(t, j)'
  <2>1. \A t \in Sides : From(link'[t].q, link[t].q) BY <1>0 DEF From
  <2> QED BY <2>1, KeepGoneKept
<1>3. ASSUME NEW t \in Sides, NEW j \in Ids, ~Here(t, j), KeepGone(Peer(t), j), ~(Holds(t) /\ loop[t].f.id = j)
      PROVE  ~(Holds(t)' /\ loop'[t].f.id = j)
  <2>1. CASE t = s BY <1>3, <2>1
  <2>2. CASE t = Peer(s) BY <1>3, <2>2 DEF Holds
  <2> QED BY <1>0, <2>1, <2>2
<1>4. ELeft' BY <1>2, <1>3, ELeftKept
<1>5. \A t \in Sides, j \in Ids : loop'[t].f.id = j =>
         \/ loop'[t] = loop[t]
         \/ loop'[t].pc \in {"read", "write", "gone"}
         \/ loop'[t].pc = "replyclose" /\ out'[t][j].st # "open"
         \/ loop'[t].pc = "reply" /\ ~Here(t, j)'
  BY <1>0
<1>6. \A t \in Sides, j \in Ids :
         copier'[t][j] \in {"end", "close", "gone"} /\ copier[t][j] \notin {"end", "close", "gone"}
           => link'[t].st # "open" \/ MayEnd(t, j)'
  OBVIOUS
<1>7. EReplies' /\ ECopied' /\ EClosed' /\ ETold' BY <1>5, <1>6, ERestKept
<1> QED BY <1>1, <1>4, <1>7 DEF EInv

LEMMA CopyWriteEnds ==
  ASSUME EInv, MInv, NEW s \in Sides, NEW i \in Ids, CopyWrite(s, i)
  PROVE  EInv'
<1>0. /\ UNCHANGED <<caller, sm, done, monitor, loop, out>> /\ MType /\ inp[s][i] \in Inputs
      /\ copier[s][i] \in {"sendnew", "sendkeep"} /\ link' = [link EXCEPT ![s] = Put(@, NextFrame(s, i))]
  BY DEF CopyWrite, MInv, MType
<1>1. PICK f \in Frames : /\ f = NextFrame(s, i) /\ f.id = i
                          /\ f.status = IF copier[s][i] = "sendnew" THEN "new" ELSE "keep"
  BY <1>0, NextFrameFacts
<1>2. /\ link'[Peer(s)] = link[Peer(s)]
      /\ link[s].st # "open" => link' = link
      /\ link[s].st = "open" => link'[s].q = Append(link[s].q, f) /\ link'[s].st = "open"
  BY <1>0, <1>1, PutFacts
<1>3. PICK x \in {"copy", "end"} : copier' = [copier EXCEPT ![s][i] = x] /\ (link[s].st = "open" => x = "copy")
  BY DEF CopyWrite
<1>4. /\ FCopier /\ copier'[s][i] = x
      /\ \A t \in Sides, j \in Ids : t # s \/ j # i => copier'[t][j] = copier[t][j]
  BY ZenonT(40), <1>0, <1>3, OneCopier
<1>5. FInp
  <2>1. CASE inp' = inp BY <2>1, SameForward
  <2>2. CASE inp' = [inp EXCEPT ![s][i] = Interrupt(@)]
    <3>1. inp' = [inp EXCEPT ![s][i] = Interrupt(inp[s][i])] BY <2>2
    <3> QED BY ZenonT(40), <1>0, <3>1, PipeEnds, OneInput
  <2> QED BY <2>1, <2>2 DEF CopyWrite
<1>6. \A t \in Sides, j \in Ids : Here(t, j)' <=> Here(t, j) BY <1>0, <1>4 DEF Here, Found
<1>7. FSide BY <1>0, <1>2, SideFacts DEF FSide
<1>8. Forward BY <1>0, <1>4, <1>5, <1>6, <1>7, SameForward DEF Forward, FHere
<1>9. ETable' /\ EDone'
  <2>1. \A j \in Ids : copier'["server"][j] = "none" => copier["server"][j] = "none" BY <1>4, SideFacts
  <2>2. link'["client"].st = "open" => link["client"].st = "open" BY <1>7, SideFacts DEF FSide
  <2> QED BY <1>0, <2>1, <2>2 DEF EInv, ETable, EDone
<1>10. \A t \in Sides, j \in Ids : Base(t, j)' = Base(t, j) BY <1>0 DEF Base
<1>11. CASE link[s].st # "open"
  <2>1. \A t \in Sides, j \in Ids :
         copier'[t][j] \in {"end", "close", "gone"} /\ copier[t][j] \notin {"end", "close", "gone"}
           => link'[t].st # "open" \/ MayEnd(t, j)'
    BY <1>2, <1>4, <1>11
  <2> QED BY <1>0, <1>2, <1>6, <1>8, <1>9, <1>10, <1>11, <2>1, ECalm
<1>12. CASE link[s].st = "open"
  <2>1. \A t \in Sides, j \in Ids :
         copier'[t][j] \in {"end", "close", "gone"} /\ copier[t][j] \notin {"end", "close", "gone"}
           => link'[t].st # "open" \/ MayEnd(t, j)'
    BY <1>3, <1>4, <1>12
  <2>2. \A j \in Ids : ~IsEnd(f, j) BY <1>1 DEF IsEnd
  <2>3. \A j \in Ids : IsKeep(f, j) => copier[s][j] = "sendkeep" BY <1>0, <1>1 DEF IsKeep
  <2>4. link'[s].q = Append(link[s].q, f) /\ link'[Peer(s)].q = link[Peer(s)].q BY <1>2, <1>12
  <2> QED BY <1>0, <1>6, <1>8, <1>9, <1>10, <2>1, <2>2, <2>3, <2>4, EPut
<1> QED BY <1>11, <1>12

LEMMA CopyEndEnds ==
  ASSUME EInv, MInv, NEW s \in Sides, NEW i \in Ids, CopyEnd(s, i)
  PROVE  EInv'
<1>0. /\ UNCHANGED <<caller, sm, done, monitor, loop, inp, out>> /\ MType
      /\ copier[s][i] = "end" /\ copier' = [copier EXCEPT ![s][i] = "close"]
  BY DEF CopyEnd, MInv
<1>1. PICK f \in Frames : f.id = i /\ f.status = "end" /\ link' = [link EXCEPT ![s] = Put(@, f)]
  <2>1. i \in Nat BY DEF Ids
  <2>2. hasError[s][i] \in BOOLEAN BY <1>0, Zenon DEF MType
  <2> QED BY <2>1, <2>2, EndFrame DEF CopyEnd
<1>2. /\ link'[Peer(s)] = link[Peer(s)]
      /\ link[s].st # "open" => link' = link
      /\ link[s].st = "open" => link'[s].q = Append(link[s].q, f) /\ link'[s].st = "open"
  BY <1>0, <1>1, PutFacts
<1>3. /\ FCopier /\ copier'[s][i] = "close"
      /\ \A t \in Sides, j \in Ids : t # s \/ j # i => copier'[t][j] = copier[t][j]
  BY <1>0, OneCopier
<1>4. \A t \in Sides, j \in Ids : Here(t, j)' <=> Here(t, j) BY <1>0, <1>3 DEF Here, Found
<1>5. FSide BY <1>0, <1>2, SideFacts DEF FSide
<1>6. Forward BY <1>0, <1>3, <1>4, <1>5, SameForward DEF Forward, FHere
<1>7. ETable' /\ EDone'
  <2>1. \A j \in Ids : copier'["server"][j] = "none" => copier["server"][j] = "none" BY <1>3, SideFacts
  <2>2. link'["client"].st = "open" => link["client"].st = "open" BY <1>5, SideFacts DEF FSide
  <2> QED BY <1>0, <2>1, <2>2 DEF EInv, ETable, EDone
<1>8. \A t \in Sides, j \in Ids : Base(t, j)' = Base(t, j) BY <1>0 DEF Base
<1>9. \A t \in Sides, j \in Ids :
         copier'[t][j] \in {"end", "close", "gone"} /\ copier[t][j] \notin {"end", "close", "gone"}
           => link'[t].st # "open" \/ MayEnd(t, j)'
  BY <1>0, <1>3
<1>10. CASE link[s].st # "open" BY <1>0, <1>2, <1>4, <1>6, <1>7, <1>8, <1>9, <1>10, ECalm
<1>11. CASE link[s].st = "open"
  <2>1. MayEnd(s, i) BY <1>0, <1>11 DEF EInv, ECopied
  <2>2. ASSUME NEW j \in Ids, IsEnd(f, j)
        PROVE  \/ Aborted(s, j)'
               \/ /\ Drained(s, j)'
                  /\ Live(Peer(s), j)' => Ahead(link[s].q, j, Base(Peer(s), j), inp'[s][j].sent, Len(link[s].q) + 1)
    <3>1. j = i BY <1>1, <2>2 DEF IsEnd
    <3>2. CASE Aborted(s, i) BY <1>6, <3>1, <3>2, EndStays
    <3>3. CASE Drained(s, i)
      <4>1. Drained(s, i)' /\ inp'[s][i].sent = inp[s][i].sent BY <1>6, <3>3, EndStays
      <4>2. Live(Peer(s), i)' => Live(Peer(s), i) BY <1>6, EndStays, SideFacts
      <4>3. Live(Peer(s), i) => Ahead(link[s].q, i, Base(Peer(s), i), inp[s][i].sent, Len(link[s].q) + 1)
        BY <1>11, <3>3, DrainedAhead
      <4> QED BY <3>1, <4>1, <4>2, <4>3
    <3> QED BY <2>1, <3>2, <3>3 DEF MayEnd
  <2>3. \A j \in Ids : IsEnd(f, j) => copier'[s][j] \in {"close", "gone"} BY <1>1, <1>3 DEF IsEnd
  <2>4. \A j \in Ids : ~IsKeep(f, j) BY <1>1 DEF IsKeep
  <2>5. link'[s].q = Append(link[s].q, f) /\ link'[Peer(s)].q = link[Peer(s)].q BY <1>2, <1>11
  <2> QED BY <1>0, <1>4, <1>6, <1>7, <1>8, <1>9, <2>2, <2>3, <2>4, <2>5, EPut
<1> QED BY <1>10, <1>11

LEMMA RemovedEnds ==
  ASSUME MType, NEW s \in Sides, NEW i \in Ids, sm' = [sm EXCEPT ![s] = Removed(@, i)]
  PROVE  /\ ~Found(s, i)'
         /\ \A t \in Sides, j \in Ids : /\ Found(t, j)' => Found(t, j)
                                        /\ t # s \/ j # i => (Found(t, j)' <=> Found(t, j))
         /\ \A t \in Sides : sm'[t].closed = sm[t].closed /\ sm'[t].sessions \subseteq sm[t].sessions
<1>0. sm \in [Sides -> Managers] /\ sm[s] \in Managers BY DEF MType
<1>1. /\ \A t \in Sides : sm'[t].closed = sm[t].closed /\ sm'[t].sessions \subseteq sm[t].sessions
      /\ \A t \in Sides : \A j \in sm[t].sessions : j \notin sm'[t].sessions => t = s /\ j = i
  BY ZenonT(40), RemovedFacts
<1>2. sm'[s] = Removed(sm[s], i) BY <1>0
<1>3. ~sm[s].closed => sm'[s].sessions = sm[s].sessions \ {i} BY <1>0, <1>2 DEF Removed, Managers
<1>4. ~Found(s, i)' BY <1>1, <1>3 DEF Found
<1>5. \A t \in Sides, j \in Ids : Found(t, j)' => Found(t, j) BY <1>1 DEF Found
<1>6. \A t \in Sides, j \in Ids : t # s \/ j # i => (Found(t, j) => Found(t, j)') BY <1>1 DEF Found
<1> QED BY <1>1, <1>4, <1>5, <1>6

\* One session leaves the table of one side.
LEMMA OneLeaves ==
  ASSUME EInv, MInv, NEW s \in Sides, NEW i \in Ids, copier[s][i] # "none", copier'[s][i] # "none",
         sm' = [sm EXCEPT ![s] = Removed(@, i)], caller' = caller, done' = done, FCopier,
         \A t \in Sides, j \in Ids : t # s \/ j # i => copier'[t][j] = copier[t][j],
         loop["client"].pc = "gone" => loop'["client"].pc = "gone",
         link'["client"].st = "open" => link["client"].st = "open"
  PROVE  /\ FHere /\ ETable' /\ EDone' /\ ~Here(s, i)'
         /\ \A t \in Sides, j \in Ids : t # s \/ j # i => (Here(t, j) <=> Here(t, j)')
         /\ \A t \in Sides : sm'[t].closed = sm[t].closed
<1>0. MType BY DEF MInv
<1>1. /\ ~Found(s, i)'
      /\ \A t \in Sides, j \in Ids : /\ Found(t, j)' => Found(t, j)
                                     /\ t # s \/ j # i => (Found(t, j)' <=> Found(t, j))
      /\ \A t \in Sides : sm'[t].closed = sm[t].closed /\ sm'[t].sessions \subseteq sm[t].sessions
  BY <1>0, RemovedEnds
<1>2. ~Here(s, i)' BY <1>1 DEF Here
<1>3. \A t \in Sides, j \in Ids : t # s \/ j # i => (Here(t, j) <=> Here(t, j)') BY <1>1 DEF Here
<1>4. FHere BY <1>2, <1>3 DEF FHere
<1>5. ETable'
  <2>1. \A j \in Ids : copier'["server"][j] = "none" => copier["server"][j] = "none" BY SideFacts
  <2>2. sm'["server"].sessions \subseteq sm["server"].sessions BY <1>1, SideFacts
  <2> QED BY <2>1, <2>2 DEF EInv, ETable
<1>6. EDone'
  <2>1. sm'["client"].closed = sm["client"].closed /\ sm'["client"].sessions \subseteq sm["client"].sessions
    BY <1>1, SideFacts
  <2> QED BY <2>1 DEF EInv, EDone
<1> QED BY <1>1, <1>2, <1>3, <1>4, <1>5, <1>6

LEMMA CopyCloseEnds ==
  ASSUME EInv, MInv, NEW s \in Sides, NEW i \in Ids, CopyClose(s, i)
  PROVE  EInv'
<1>0. /\ UNCHANGED <<caller, done, monitor, loop, inp, link>> /\ MType /\ out[s][i] \in Outputs
      /\ copier[s][i] = "close" /\ copier' = [copier EXCEPT ![s][i] = "gone"]
      /\ out' = [out EXCEPT ![s][i] = Close(out[s][i])] /\ sm' = [sm EXCEPT ![s] = Removed(@, i)]
  BY DEF CopyClose, SessionClose, MInv, MType
<1>1. /\ FCopier /\ copier'[s][i] = "gone"
      /\ \A t \in Sides, j \in Ids : t # s \/ j # i => copier'[t][j] = copier[t][j]
  BY <1>0, OneCopier
<1>2. PICK o \in Outputs : /\ out' = [out EXCEPT ![s][i] = o] /\ o.got = out[s][i].got
                           /\ o.st = (IF out[s][i].st = "open" THEN "closed" ELSE out[s][i].st)
  BY <1>0, PipeEnds
<1>3. FOut /\ out'[s][i] = o /\ \A t \in Sides, j \in Ids : t # s \/ j # i => out'[t][j] = out[t][j]
  <2>1. out[s][i].st # "open" => o.st = out[s][i].st /\ o.got = out[s][i].got BY <1>2
  <2>2. MType /\ out' = [out EXCEPT ![s][i] = o] BY <1>0, <1>2
  <2> QED BY <2>1, <2>2, OneOutput
<1>4. /\ FHere /\ ETable' /\ EDone' /\ ~Here(s, i)'
      /\ \A t \in Sides, j \in Ids : t # s \/ j # i => (Here(t, j) <=> Here(t, j)')
      /\ \A t \in Sides : sm'[t].closed = sm[t].closed
  BY <1>0, <1>1, OneLeaves
<1>5. FSide BY <1>0, <1>4 DEF FSide
<1>6. Forward BY <1>0, <1>1, <1>3, <1>4, <1>5, SameForward DEF Forward
<1>7. \A t \in Sides, j \in Ids : Base(t, j)' = Base(t, j)
  <2>1. \A t \in Sides, j \in Ids : out'[t][j].got = out[t][j].got BY <1>2, <1>3
  <2> QED BY <1>0, <2>1 DEF Base
<1>8. \A t \in Sides, j \in Ids :
         copier'[t][j] \in {"end", "close", "gone"} /\ copier[t][j] \notin {"end", "close", "gone"}
           => link'[t].st # "open" \/ MayEnd(t, j)'
  BY <1>0, <1>1
<1>9. \A t \in Sides, j \in Ids : out[t][j].st # "closed" /\ out'[t][j].st = "closed" =>
            /\ ~Here(t, j)'
            /\ sm'[t].closed \/ copier'[t][j] = "gone" \/ Told(t, j)'
  BY <1>1, <1>3, <1>4
<1>10. Why(s, i)'
  <2>1. CASE link[s].st = "open"
    <3>1. MayEnd(s, i) BY <1>0, <2>1 DEF EInv, ECopied
    <3> QED BY <1>6, <3>1, EndStays DEF Why
  <2>2. CASE link[s].st # "open" BY <1>0, <2>2 DEF Why
  <2> QED BY <2>1, <2>2
<1>11. \A t \in Sides, j \in Ids :
          Here(t, j) /\ ~Here(t, j)' /\ loop'[t].pc # "gone" /\ Here(Peer(t), j)' => Why(t, j)'
  BY <1>4, <1>10
<1> QED BY <1>0, <1>4, <1>6, <1>7, <1>8, <1>9, <1>11, ECalm

-----------------------------------------------------------------------------
(* The loops take frames. *)

LEMMA HandleNewEnds ==
  ASSUME EInv, MInv, HandleNew
  PROVE  EInv'
<1> DEFINE s == "server"
<1>0. /\ UNCHANGED <<caller, done, monitor, hasError, inp, out>> /\ MType
      /\ LoopReady(s, "new") /\ Take(s) /\ loop[s].pc = "read" /\ loop \in [Sides -> LoopRec]
      /\ copier \in [Sides -> [Ids -> CopierPcs]] /\ sm \in [Sides -> Managers]
      /\ s \in Sides /\ "client" \in Sides /\ Peer(s) = "client" /\ Peer("client") = s /\ s # "client"
  BY SideFacts DEF HandleNew, LoopReady, MInv, MType, Peer
<1>a. \A t \in Sides : t = s \/ t = "client" BY DEF Sides
<1>1. /\ link'[s] = link[s]
      /\ link["client"].q # <<>> /\ link'["client"].q = Tail(link["client"].q)
      /\ \A t \in Sides : link'[t].st = link[t].st
  BY <1>0, TakeFacts
<1>2. PICK f \in Frames : /\ f = Head(link["client"].q) /\ f = Head1(s) /\ f.status = "new"
                          /\ f = link["client"].q[1] /\ 1 \in 1..Len(link["client"].q) /\ Linked(f.id)
  BY <1>0, TakeFacts
<1>3. PICK i \in Ids : i = f.id BY <1>2 DEF Linked
<1>4. PICK r : /\ r.pc = (IF HasData(f) THEN "write" ELSE "read") /\ r.f = f
               /\ loop' = [loop EXCEPT ![s] = r]
  <2> DEFINE pc == IF HasData(f) THEN "write" ELSE "read"
             r == [pc |-> pc, f |-> f]
  <2>1. loop' = [loop EXCEPT ![s] = r] BY <1>2, <1>3 DEF HandleNew, HasData
  <2> HIDE DEF pc
  <2>2. r.pc = pc /\ r.f = f OBVIOUS
  <2> HIDE DEF r
  <2> QED BY <2>1, <2>2 DEF pc
<1>5. loop'[s] = r /\ loop'["client"] = loop["client"] BY <1>0, <1>4
<1>6. copier[s][i] = "none"
  <2>1. IsNew(link["client"].q[1], i) BY <1>2, <1>3 DEF IsNew
  <2> QED BY <1>2, <2>1 DEF MInv, MNew
<1>7. /\ FCopier /\ copier'[s][i] = "copy"
      /\ \A t \in Sides, j \in Ids : t # s \/ j # i => copier'[t][j] = copier[t][j]
  <2>1. PICK x : x = "copy" /\ copier' = [copier EXCEPT ![s][i] = x] BY <1>2, <1>3 DEF HandleNew
  <2>2. MType /\ s \in Sides /\ copier[s][i] = "none" BY <1>0, <1>6
  <2> HIDE DEF s
  <2>3. /\ copier[s][i] \in {"end", "close", "gone"} => x \in {"end", "close", "gone"}
        /\ copier[s][i] \in {"close", "gone"} => x \in {"close", "gone"}
        /\ copier[s][i] = "gone" => x = "gone"
    BY <2>2
  <2> QED BY ZenonT(40), <2>1, <2>2, <2>3, OneCopier
<1>8. PICK m : /\ sm' = [sm EXCEPT ![s] = m] /\ m.closed = sm[s].closed
               /\ m.sessions = sm[s].sessions \cup {i}
  <2> DEFINE n == sm[s].count + 1
             m == [sm[s] EXCEPT !.count = n, !.sessions = @ \cup {i}]
  <2>0. sm[s] \in Managers BY <1>0
  <2>3. sm' = [sm EXCEPT ![s] = m] BY <1>2, <1>3 DEF HandleNew
  <2> HIDE DEF n
  <2>1. m.sessions = sm[s].sessions \cup {i} BY <2>0 DEF Managers
  <2>2. m.closed = sm[s].closed BY <2>0, Zenon DEF Managers
  <2> QED BY <2>1, <2>2, <2>3
<1>9. sm'[s] = m /\ sm'["client"] = sm["client"] BY <1>0, <1>8
<1>10. ~sm[s].closed BY <1>0 DEF MInv, MKnown
<1>11. \A t \in Sides, j \in Ids : Here(t, j)' <=> Here(t, j)
  <2>1. \A j \in Ids : Here("client", j)' <=> Here("client", j) BY <1>0, <1>7, <1>9 DEF Here, Found
  <2>2. \A j \in Ids : j # i => (Here(s, j)' <=> Here(s, j)) BY <1>0, <1>7, <1>8, <1>9 DEF Here, Found
  <2>3. Here(s, i) /\ Here(s, i)' BY <1>6, <1>8, <1>9, <1>10 DEF Here, Found
  <2> QED BY <1>a, <2>1, <2>2, <2>3
<1>12. FSide BY <1>0, <1>a, <1>1, <1>5, <1>8, <1>9 DEF FSide
<1>13. Forward BY <1>0, <1>7, <1>11, <1>12, SameForward DEF Forward, FHere
<1>14. ETable' BY <1>0, <1>7, <1>8, <1>9 DEF EInv, ETable
<1>15. EDone'
  <2>1. link'["client"].st = "open" => link["client"].st = "open" BY <1>12, SideFacts DEF FSide
  <2> QED BY <1>0, <1>5, <1>9, <2>1 DEF EInv, EDone
<1>16. \A j \in Ids : Base(Peer(s), j)' = Base(Peer(s), j) BY <1>0, <1>5 DEF Base
<1>17. ASSUME NEW j \in Ids
       PROVE  Base(s, j)' = IF DataOf(Head(link[Peer(s)].q), j) THEN Base(s, j) + 1 ELSE Base(s, j)
  <2>0. Base(s, j) = Len(out[s][j].got) BY <1>0 DEF Base
  <2>1. DataOf(Head(link[Peer(s)].q), j) <=> j = i /\ HasData(f) BY <1>0, <1>2, <1>3 DEF DataOf
  <2>2. Base(s, j)' = IF j = i /\ HasData(f) THEN Len(out[s][j].got) + 1 ELSE Len(out[s][j].got)
    BY <1>0, <1>3, <1>4, <1>5 DEF Base
  <2> QED BY <2>0, <2>1, <2>2
<1>18. \A j \in Ids : ~Here(s, j) => ~(loop'[s].f.id = j)
  <2>1. Here(s, i) BY <1>6 DEF Here
  <2> QED BY <1>3, <1>4, <1>5, <2>1
<1>19. loop'[s].pc \in {"read", "write", "gone"} BY <1>4, <1>5
<1>20. \A t \in Sides, j \in Ids : copier'[t][j] \in {"end", "close", "gone"} => copier'[t][j] = copier[t][j]
  BY <1>7
<1>21. /\ link[Peer(s)].q # <<>> /\ link'[Peer(s)].q = Tail(link[Peer(s)].q) /\ link'[s].q = link[s].q
       /\ loop'[Peer(s)] = loop[Peer(s)]
  BY <1>0, <1>1, <1>5
<1> QED BY <1>0, <1>11, <1>13, <1>14, <1>15, <1>16, <1>17, <1>18, <1>19, <1>20, <1>21, ETake

LEMMA HandleKeepEnds ==
  ASSUME EInv, MInv, NEW s \in Sides, HandleKeep(s)
  PROVE  EInv'
<1>0. /\ UNCHANGED <<caller, sm, done, monitor, copier, hasError, inp, out>> /\ MType
      /\ LoopReady(s, "keep") /\ Take(s) /\ loop[s].pc = "read" /\ loop \in [Sides -> LoopRec]
  BY DEF HandleKeep, LoopReady, MInv, MType
<1>1. /\ link'[s] = link[s]
      /\ link[Peer(s)].q # <<>> /\ link'[Peer(s)].q = Tail(link[Peer(s)].q)
      /\ \A t \in Sides : link'[t].st = link[t].st
  BY <1>0, TakeFacts
<1>2. PICK f \in Frames : /\ f = Head(link[Peer(s)].q) /\ f = Head1(s) /\ f.status = "keep"
                          /\ f = link[Peer(s)].q[1] /\ 1 \in 1..Len(link[Peer(s)].q)
                          /\ Linked(f.id) /\ HasData(f)
  BY <1>0, TakeFacts
<1>3. PICK i \in Ids : i = f.id BY <1>2 DEF Linked
<1>4. PICK r : /\ r.pc = (IF Found(s, i) THEN "write" ELSE "reply") /\ r.f = f
               /\ loop' = [loop EXCEPT ![s] = r]
  <2> DEFINE pc == IF Found(s, i) THEN "write" ELSE "reply"
             r == [pc |-> pc, f |-> f]
  <2>1. loop' = [loop EXCEPT ![s] = r] BY <1>2, <1>3 DEF HandleKeep
  <2> HIDE DEF pc
  <2>2. r.pc = pc /\ r.f = f OBVIOUS
  <2> HIDE DEF r
  <2> QED BY <2>1, <2>2 DEF pc
<1>5. loop'[s] = r /\ \A t \in Sides : t # s => loop'[t] = loop[t] BY <1>0, <1>4
<1>6. copier[s][i] # "none"
  <2>1. CASE s = "client" BY <1>2, <1>3, <2>1 DEF Linked
  <2>2. CASE s = "server"
    <3>1. Peer(s) = "client" BY <2>2 DEF Peer
    <3>2. loop["server"].pc # "gone" BY <1>0, <2>2
    <3>3. copier["server"][i] = "none" => \E l \in 1..(1 - 1) : IsNew(link["client"].q[l], i)
      BY <1>2, <1>3, <3>1, <3>2 DEF MInv, MNew
    <3>4. 1..(1 - 1) = {} OBVIOUS
    <3> QED BY <2>2, <3>3, <3>4
  <2> QED BY <2>1, <2>2 DEF Sides
<1>7. FHere /\ \A t \in Sides, j \in Ids : Here(t, j) <=> Here(t, j)' BY <1>0, SameForward DEF FHere
<1>8. FSide BY <1>0, <1>1, <1>4, <1>5 DEF FSide
<1>9. Forward BY <1>0, <1>7, <1>8, SameForward DEF Forward
<1>10. ETable' BY <1>0 DEF EInv, ETable
<1>11. EDone'
  <2>1. loop'["client"].pc = "gone" <=> loop["client"].pc = "gone" BY <1>0, <1>4, <1>5, SideFacts
  <2>2. link'["client"].st = "open" => link["client"].st = "open" BY <1>8, SideFacts DEF FSide
  <2> QED BY <1>0, <2>1, <2>2 DEF EInv, EDone
<1>12. \A j \in Ids : Base(Peer(s), j)' = Base(Peer(s), j) BY <1>0, <1>5, SideFacts DEF Base
<1>13. ASSUME NEW j \in Ids, Live(s, j)'
       PROVE  Base(s, j)' = IF DataOf(Head(link[Peer(s)].q), j) THEN Base(s, j) + 1 ELSE Base(s, j)
  <2>0. Base(s, j) = Len(out[s][j].got) BY <1>0 DEF Base
  <2>1. CASE j = i
    <3>1. Found(s, i) BY <1>0, <1>6, <1>13, <2>1 DEF Live, Found
    <3>2. Base(s, j)' = Len(out[s][j].got) + 1 BY <1>0, <1>3, <1>4, <1>5, <2>1, <3>1 DEF Base
    <3>3. DataOf(Head(link[Peer(s)].q), j) BY <1>2, <1>3, <2>1 DEF DataOf
    <3> QED BY <2>0, <3>2, <3>3
  <2>2. CASE j # i
    <3>1. ~DataOf(Head(link[Peer(s)].q), j) BY <1>2, <1>3, <2>2 DEF DataOf
    <3>2. Base(s, j)' = Len(out[s][j].got) BY <1>0, <1>3, <1>4, <1>5, <2>2 DEF Base
    <3> QED BY <2>0, <3>1, <3>2
  <2> QED BY <2>1, <2>2
\* The frame itself is a Keep frame of the session.
<1>14. \A j \in Ids : KeepGone(Peer(s), j) => ~(loop'[s].f.id = j)
  <2>1. ~KeepGone(Peer(s), i) BY <1>2, <1>3 DEF KeepGone, IsKeep
  <2> QED BY <1>3, <1>4, <1>5, <2>1
<1>15. \A j \in Ids : loop'[s].f.id = j =>
            \/ loop'[s].pc \in {"read", "write", "gone"}
            \/ loop'[s].pc = "reply" /\ ~Here(s, j)'
  <2>1. ~Found(s, i) => ~Here(s, i) BY <1>6 DEF Here
  <2> QED BY <1>3, <1>4, <1>5, <1>7, <2>1
<1>16. loop'[Peer(s)] = loop[Peer(s)] /\ link'[s].q = link[s].q BY <1>1, <1>5, SideFacts
<1>17. \A t \in Sides, j \in Ids : copier'[t][j] = copier[t][j] /\ out'[t][j] = out[t][j] BY <1>0
<1> QED BY <1>1, <1>7, <1>9, <1>10, <1>11, <1>12, <1>13, <1>14, <1>15, <1>16, <1>17, ETake

\* An End frame of a session in the table comes after all its data, unless its
\* sender gave up one of its pipes.
LEMMA EndComes ==
  ASSUME EInv, MInv, NEW s \in Sides, NEW i \in Ids, loop[s].pc = "read", link[Peer(s)].q # <<>>,
         IsEnd(Head(link[Peer(s)].q), i), Found(s, i)
  PROVE  /\ Aborted(Peer(s), i) \/ Drained(Peer(s), i)
         /\ ~Aborted(Peer(s), i) /\ out[s][i].st = "open" => Len(out[s][i].got) = inp[Peer(s)][i].sent
<1> DEFINE p == Peer(s)
           q == link[Peer(s)].q
           n == inp[Peer(s)][i].sent
<1>0. p \in Sides /\ Peer(p) = s BY SideFacts
<1>1. q \in Seq(Frames) /\ n \in Nat BY <1>0 DEF MInv, MType, Links, Inputs
<1>2. 1 \in 1..Len(q) /\ Head(q) = q[1]
  <2> HIDE DEF q
  <2> QED BY <1>1, TailFacts DEF q
<1>3. Here(s, i) BY DEF Here
<1>4. \/ Aborted(p, i)
      \/ Drained(p, i) /\ (Live(s, i) => Ahead(q, i, Base(s, i), n, 1))
  BY <1>0, <1>2, <1>3 DEF EInv, EFrames
<1>5. ASSUME ~Aborted(p, i), out[s][i].st = "open" PROVE Len(out[s][i].got) = n
  <2>1. Live(s, i) BY <1>5 DEF Live
  <2>2. Base(s, i) = Len(out[s][i].got) /\ Base(s, i) \in Nat BY SentType DEF Base
  <2>3. Base(s, i) <= Sent(p, i) BY <1>0, <2>1 DEF MInv, MData, Carry
  <2>4. Sent(p, i) = n BY <1>4, <1>5 DEF Drained, Sent
  <2>5. \A m \in 1..n : ~(Base(s, i) < m)
    <3>1. 1..(1 - 1) = {} OBVIOUS
    <3> QED BY <1>4, <1>5, <2>1, <3>1 DEF Ahead
  <2>6. ~(Base(s, i) < n)
    <3> HIDE DEF n
    <3> QED BY <1>1, <2>2, <2>5
  <2> HIDE DEF n
  <2> QED BY <1>1, <2>2, <2>3, <2>4, <2>6
<1> QED BY <1>4, <1>5

LEMMA HandleEndEnds ==
  ASSUME EInv, MInv, NEW s \in Sides, HandleEnd(s)
  PROVE  EInv'
<1>0. /\ UNCHANGED <<caller, done, monitor, copier, hasError, loop>> /\ MType
      /\ LoopReady(s, "end") /\ Take(s) /\ loop[s].pc = "read"
  BY DEF HandleEnd, LoopReady, MInv
<1>1. /\ link'[s] = link[s]
      /\ link[Peer(s)].q # <<>> /\ link'[Peer(s)].q = Tail(link[Peer(s)].q)
      /\ \A t \in Sides : link'[t].st = link[t].st
  BY <1>0, TakeFacts
<1>2. PICK f \in Frames : /\ f = Head(link[Peer(s)].q) /\ f = Head1(s) /\ f.status = "end"
                          /\ f = link[Peer(s)].q[1] /\ 1 \in 1..Len(link[Peer(s)].q)
                          /\ Linked(f.id) /\ ~HasData(f)
  BY <1>0, TakeFacts
<1>3. PICK i \in Ids : i = f.id BY <1>2 DEF Linked
<1>4. IsEnd(f, i) BY <1>2, <1>3 DEF IsEnd
<1>5. FCopier /\ \A t \in Sides, j \in Ids : copier'[t][j] = copier[t][j] BY <1>0, SameForward
<1>6. \A j \in Ids : ~DataOf(Head(link[Peer(s)].q), j) BY <1>2 DEF DataOf
<1>7. ~Holds(s)' BY <1>0 DEF Holds
<1>8. link'[s].q = link[s].q /\ loop'[Peer(s)] = loop[Peer(s)] /\ loop'[s] = loop[s] BY <1>0, <1>1
<1>9. CASE ~Found(s, i)
  <2>0. UNCHANGED <<inp, out, sm>> BY <1>2, <1>3, <1>9 DEF HandleEnd
  <2>1. \A t \in Sides, j \in Ids : Base(t, j)' = Base(t, j) BY <1>0, <2>0 DEF Base
  <2>2. FSide BY <1>0, <1>1, <2>0 DEF FSide
  <2>3. Forward /\ \A t \in Sides, j \in Ids : Here(t, j) => Here(t, j)'
    BY <1>0, <2>0, <2>2, SameForward DEF Forward
  <2>4. ETable' /\ EDone'
    <3>1. link'["client"].st = "open" => link["client"].st = "open" BY <2>2, SideFacts DEF FSide
    <3> QED BY <1>0, <2>0, <3>1 DEF EInv, ETable, EDone
  <2>5. \A t \in Sides, j \in Ids : out'[t][j] = out[t][j] BY <2>0
  <2>6. /\ \A j \in Ids : Base(Peer(s), j)' = Base(Peer(s), j)
        /\ \A j \in Ids : Base(s, j)' = Base(s, j)
    BY <2>1, SideFacts
  <2> QED BY <1>1, <1>5, <1>6, <1>7, <1>8, <2>3, <2>4, <2>5, <2>6, ETake
<1>10. CASE Found(s, i)
  <2>0. copier[s][i] # "none"
    <3>1. CASE s = "client" BY <1>2, <1>3, <3>1 DEF Linked
    <3>2. CASE s = "server" BY <1>10, <3>2 DEF EInv, ETable, Found
    <3> QED BY <3>1, <3>2 DEF Sides
  <2>1. out[s][i] \in Outputs /\ inp[s][i] \in Inputs BY <1>0 DEF MType
  <2>2. PICK o \in Outputs : /\ out' = [out EXCEPT ![s][i] = o] /\ o.got = out[s][i].got
                             /\ out[s][i].st # "open" => o.st = out[s][i].st
    <3>1. \/ out' = [out EXCEPT ![s][i] = Interrupt(out[s][i])]
          \/ out' = [out EXCEPT ![s][i] = Close(out[s][i])]
      BY <1>2, <1>3, <1>10 DEF HandleEnd
    <3>2. CASE out' = [out EXCEPT ![s][i] = Interrupt(out[s][i])] BY <2>1, <3>2, PipeEnds
    <3>3. CASE out' = [out EXCEPT ![s][i] = Close(out[s][i])] BY <2>1, <3>3, PipeEnds
    <3> QED BY <3>1, <3>2, <3>3
  <2>3. FOut /\ out'[s][i] = o /\ \A t \in Sides, j \in Ids : t # s \/ j # i => out'[t][j] = out[t][j]
    <3>1. out[s][i].st # "open" => o.st = out[s][i].st /\ o.got = out[s][i].got BY <2>2
    <3>2. MType /\ out' = [out EXCEPT ![s][i] = o] BY <1>0, <2>2
    <3> QED BY <3>1, <3>2, OneOutput
  <2>4. FInp
    <3>1. CASE inp' = inp BY <3>1, SameForward
    <3>2. CASE inp' = [inp EXCEPT ![s][i] = Interrupt(@)]
      <4>1. inp' = [inp EXCEPT ![s][i] = Interrupt(inp[s][i])] BY <3>2
      <4> QED BY <1>0, <2>1, <4>1, PipeEnds, OneInput
    <3> QED BY <1>2, <1>3, <1>10, <3>1, <3>2 DEF HandleEnd
  <2>5. sm' = [sm EXCEPT ![s] = Removed(@, i)] BY <1>2, <1>3, <1>10 DEF HandleEnd
  <2>6. /\ FHere /\ ETable' /\ EDone' /\ ~Here(s, i)'
        /\ \A t \in Sides, j \in Ids : t # s \/ j # i => (Here(t, j) <=> Here(t, j)')
        /\ \A t \in Sides : sm'[t].closed = sm[t].closed
    <3>1. link'["client"].st = "open" => link["client"].st = "open" BY <1>0, <1>1, SideFacts
    <3> QED BY <1>0, <1>5, <2>0, <2>5, <3>1, OneLeaves
  <2>7. FSide BY <1>0, <1>1, <2>6 DEF FSide
  <2>8. Forward BY <1>5, <2>3, <2>4, <2>6, <2>7 DEF Forward
  <2>9. \A t \in Sides, j \in Ids : Base(t, j)' = Base(t, j)
    <3>1. \A t \in Sides, j \in Ids : out'[t][j].got = out[t][j].got BY <2>2, <2>3
    <3> QED BY <1>0, <3>1 DEF Base
  <2>10. /\ \A j \in Ids : Base(Peer(s), j)' = Base(Peer(s), j)
         /\ \A j \in Ids : Base(s, j)' = Base(s, j)
    BY <2>9, SideFacts
  <2>11. ASSUME o.st = "closed", out[s][i].st # "closed" PROVE Told(s, i)'
    <3>1. out[s][i].st = "open" BY <2>2, <2>11
    <3>2. /\ Aborted(Peer(s), i) \/ Drained(Peer(s), i)
          /\ ~Aborted(Peer(s), i) => Len(out[s][i].got) = inp[Peer(s)][i].sent
      BY <1>0, <1>1, <1>2, <1>4, <1>10, <3>1, EndComes
    <3>3. Peer(s) \in Sides BY SideFacts
    <3>4. CASE Aborted(Peer(s), i) BY <2>8, <3>3, <3>4, EndStays DEF Told
    <3>5. CASE ~Aborted(Peer(s), i)
      <4>1. Drained(Peer(s), i)' /\ inp'[Peer(s)][i].sent = inp[Peer(s)][i].sent BY <2>8, <3>2, <3>3, <3>5, EndStays
      <4>2. Len(out'[s][i].got) = inp'[Peer(s)][i].sent BY <2>2, <2>3, <3>2, <3>5, <4>1
      <4> QED BY <4>1, <4>2 DEF Told, Drained
    <3> QED BY <3>4, <3>5
  <2>12. \A t \in Sides, j \in Ids : out[t][j].st # "closed" /\ out'[t][j].st = "closed" =>
            /\ ~Here(t, j)'
            /\ sm'[t].closed \/ copier'[t][j] = "gone" \/ Told(t, j)'
    BY <2>3, <2>6, <2>11
  \* The End frame is the last that the other side's goroutine sends.
  <2>13. ASSUME Here(Peer(s), i)' PROVE Why(s, i)'
    <3>0. Peer(s) \in Sides BY SideFacts
    <3>1. Here(Peer(s), i) BY <2>8, <2>13, <3>0 DEF Forward, FHere
    <3>2. /\ copier[Peer(s)][i] \in {"close", "gone"}
          /\ \A l \in 1..Len(link[Peer(s)].q) : 1 < l => ~IsKeep(link[Peer(s)].q[l], i)
      BY <1>2, <1>4, <3>0, <3>1 DEF EInv, EOwn
    <3>3. link[Peer(s)].q \in Seq(Frames) BY <3>0 DEF MInv, MType, Links
    <3>4. \A k \in 1..Len(link'[Peer(s)].q) : ~IsKeep(link'[Peer(s)].q[k], i)
      <4> DEFINE q == link[Peer(s)].q
      <4>1. /\ Len(Tail(q)) = Len(q) - 1 /\ Len(q) \in Nat \ {0}
            /\ \A k \in 1..Len(Tail(q)) : Tail(q)[k] = q[k + 1] /\ k + 1 \in 1..Len(q)
        BY <1>1, <3>3, TailFacts
      <4>2. \A k \in 1..Len(Tail(q)) : 1 < k + 1 BY <4>1
      <4>3. \A k \in 1..Len(Tail(q)) : ~IsKeep(Tail(q)[k], i) BY <3>2, <4>1, <4>2
      <4> QED BY <1>1, <4>3
    <3>5. KeepGone(Peer(s), i)' BY <1>0, <3>2, <3>4 DEF KeepGone
    <3> QED BY <1>7, <3>5 DEF Why
  <2>14. \A t \in Sides, j \in Ids :
            Here(t, j) /\ ~Here(t, j)' /\ loop'[t].pc # "gone" /\ Here(Peer(t), j)' => Why(t, j)'
    BY <2>6, <2>13
  <2> QED BY <1>1, <1>5, <1>6, <1>7, <1>8, <2>6, <2>8, <2>10, <2>12, <2>14, ETake
<1> QED BY <1>9, <1>10

\* The session of a refused payload leaves the table: its output had ended.
LEMMA RefusedEnds ==
  ASSUME EInv, MInv, NEW s \in Sides, NEW i \in Ids, copier[s][i] # "none", out[s][i].st # "open",
         inp' = [inp EXCEPT ![s][i] = Interrupt(@)], SessionClose(s, i), UNCHANGED <<caller, done, copier>>,
         loop["client"].pc = "gone" => loop'["client"].pc = "gone",
         link'["client"].st = "open" => link["client"].st = "open"
  PROVE  /\ out' = out /\ FInp /\ FHere /\ ETable' /\ EDone' /\ ~Here(s, i)'
         /\ \A t \in Sides : sm'[t].closed = sm[t].closed
         /\ \A t \in Sides, j \in Ids : Here(t, j) /\ ~Here(t, j)' => Why(t, j)'
         /\ Aborted(s, i) \/ ~Here(s, i)
<1>0. MType /\ inp[s][i] \in Inputs /\ out[s][i] \in Outputs /\ out \in [Sides -> [Ids -> Outputs]] BY DEF MInv, MType
<1>1. Close(out[s][i]) = out[s][i] BY DEF Close
<1>2. out' = out BY <1>0, <1>1 DEF SessionClose
<1>3. FInp
  <2>1. PICK r \in Inputs : /\ inp' = [inp EXCEPT ![s][i] = r] /\ r.taken = inp[s][i].taken /\ r.sent = inp[s][i].sent
                            /\ r.st = (IF inp[s][i].st = "open" THEN "errored" ELSE inp[s][i].st)
    BY <1>0, PipeEnds
  <2>2. /\ inp[s][i].st = "errored" => r.st = "errored"
        /\ inp[s][i].st = "closed" => r.st = "closed" /\ r.sent = inp[s][i].sent
        /\ inp[s][i].st = "closed" /\ inp[s][i].taken = inp[s][i].sent => r.taken = inp[s][i].taken
    BY <2>1
  <2> QED BY ZenonT(40), <1>0, <2>1, <2>2, OneInput
<1>4. /\ FHere /\ ETable' /\ EDone' /\ ~Here(s, i)'
      /\ \A t \in Sides, j \in Ids : t # s \/ j # i => (Here(t, j) <=> Here(t, j)')
      /\ \A t \in Sides : sm'[t].closed = sm[t].closed
  BY SameForward, OneLeaves DEF SessionClose
<1>5. Aborted(s, i) \/ ~Here(s, i)
  <2>1. out[s][i].st \in {"errored", "closed"} BY <1>0 DEF Outputs, PipeStates
  <2>2. CASE out[s][i].st = "errored" BY <2>2 DEF Aborted
  <2>3. CASE out[s][i].st = "closed" BY <2>3 DEF EInv, EClosed
  <2> QED BY <2>1, <2>2, <2>3
<1>6. out[s][i].st = "errored" => Why(s, i)' BY <1>2 DEF Why, MayEnd, Aborted
<1>7. Here(s, i) => out[s][i].st = "errored"
  <2>1. out[s][i].st \in {"errored", "closed"} BY <1>0 DEF Outputs, PipeStates
  <2> QED BY <2>1 DEF EInv, EClosed
<1>8. \A t \in Sides, j \in Ids : Here(t, j) /\ ~Here(t, j)' => Why(t, j)' BY <1>4, <1>6, <1>7
<1> QED BY <1>2, <1>3, <1>4, <1>5, <1>8

LEMMA LoopWriteEnds ==
  ASSUME EInv, MInv, NEW s \in Sides, LoopWrite(s)
  PROVE  EInv'
<1>0. /\ UNCHANGED <<caller, done, monitor, copier, hasError, link>> /\ MType
      /\ loop \in [Sides -> LoopRec] /\ loop[s] \in LoopRec /\ loop[s].pc = "write"
  BY DEF LoopWrite, MInv, MType
<1>1. PICK i \in Ids : i = loop[s].f.id /\ copier[s][i] # "none"
  BY <1>0 DEF MInv, MFrames, Holds, Linked
<1>2. out[s][i] \in Outputs BY <1>0 DEF MType
<1>3. FCopier /\ \A t \in Sides, j \in Ids : copier'[t][j] = copier[t][j] BY <1>0, SameForward
<1>4. CASE /\ out[s][i].st = "open"
           /\ out' = [out EXCEPT ![s][i].got = Append(@, loop[s].f.data)]
           /\ loop' = [loop EXCEPT ![s] = [pc |-> "read", f |-> NoFrame]]
           /\ UNCHANGED <<sm, inp>>
  <2>1. loop'[s].pc = "read" /\ \A t \in Sides : t # s => loop'[t] = loop[t] BY <1>0, <1>4
  <2>2. loop[s].f.data \in Datas /\ out[s][i].got \in Seq(Datas) BY <1>0, <1>2 DEF LoopRec, Frames, Outputs
  <2>3. PICK o \in Outputs : /\ out' = [out EXCEPT ![s][i] = o] /\ o.st = out[s][i].st
                             /\ Len(o.got) = Len(out[s][i].got) + 1
    <3> DEFINE g == Append(out[s][i].got, loop[s].f.data)
               o == [out[s][i] EXCEPT !.got = g]
    <3>1. g \in Seq(Datas) /\ Len(g) = Len(out[s][i].got) + 1 BY <2>2
    <3>2. out' = [out EXCEPT ![s][i] = o] BY <1>4
    <3> HIDE DEF g
    <3>3. o \in Outputs /\ o.st = out[s][i].st /\ o.got = g BY <1>2, <3>1 DEF Outputs
    <3> QED BY <3>1, <3>2, <3>3
  <2>4. FOut /\ out'[s][i] = o /\ \A t \in Sides, j \in Ids : t # s \/ j # i => out'[t][j] = out[t][j]
    <3>1. out[s][i].st # "open" => o.st = out[s][i].st /\ o.got = out[s][i].got BY <1>4
    <3> QED BY <1>0, <2>3, <3>1, OneOutput
  <2>5. \A t \in Sides, j \in Ids : Base(t, j)' = Base(t, j)
    <3>1. ASSUME NEW t \in Sides, NEW j \in Ids, t # s \/ j # i PROVE Base(t, j)' = Base(t, j)
      <4>1. out'[t][j] = out[t][j] BY <2>4, <3>1
      <4>2. t = s => loop'[t].pc = "read" /\ loop[t].f.id # j BY <1>1, <2>1, <3>1
      <4>3. t # s => loop'[t] = loop[t] BY <2>1
      <4> QED BY <4>1, <4>2, <4>3 DEF Base
    <3>2. Base(s, i)' = Len(o.got) BY <2>1, <2>4 DEF Base
    <3>3. Base(s, i) = Len(out[s][i].got) + 1 BY <1>0, <1>1 DEF Base
    <3> QED BY <2>3, <3>1, <3>2, <3>3
  <2>6. FSide BY <1>0, <1>4, <2>1 DEF FSide
  <2>7. Forward /\ \A t \in Sides, j \in Ids : Here(t, j) => Here(t, j)'
    BY <1>0, <1>4, <2>4, <2>6, SameForward DEF Forward
  <2>8. ETable' BY <1>0, <1>4 DEF EInv, ETable
  <2>9. EDone'
    <3>1. loop'["client"].pc # "gone" => loop["client"].pc # "gone" BY <2>6, SideFacts DEF FSide
    <3> QED BY <1>0, <1>4, <3>1 DEF EInv, EDone
  <2>10. \A t \in Sides, j \in Ids : out'[t][j].st = "closed" => out[t][j].st = "closed" BY <2>3, <2>4
  <2> QED BY <1>0, <1>3, <2>1, <2>5, <2>7, <2>8, <2>9, <2>10, ECalm
<1>5. CASE /\ out[s][i].st # "open"
           /\ loop' = [loop EXCEPT ![s].pc = "replyclose"]
           /\ UNCHANGED <<sm, inp, out>>
  <2>1. loop'[s].pc = "replyclose" /\ loop'[s].f = loop[s].f /\ \A t \in Sides : t # s => loop'[t] = loop[t]
    <3>1. loop'[s] = [loop[s] EXCEPT !.pc = "replyclose"] /\ \A t \in Sides : t # s => loop'[t] = loop[t] BY <1>0, <1>5
    <3> QED BY <1>0, <3>1 DEF LoopRec
  <2>2. FSide BY <1>0, <1>5, <2>1 DEF FSide
  <2>3. Forward /\ \A t \in Sides, j \in Ids : Here(t, j) => Here(t, j)'
    BY <1>0, <1>5, <2>2, SameForward DEF Forward
  <2>4. ETable' BY <1>0, <1>5 DEF EInv, ETable
  <2>5. EDone'
    <3>1. loop'["client"].pc # "gone" => loop["client"].pc # "gone" BY <2>2, SideFacts DEF FSide
    <3> QED BY <1>0, <1>5, <3>1 DEF EInv, EDone
  <2>6. \A t \in Sides, j \in Ids : Live(t, j)' => Base(t, j)' = Base(t, j)
    <3>1. ~Live(s, i)' BY <1>5 DEF Live
    <3>2. \A j \in Ids : j # i => Base(s, j)' = Base(s, j) BY <1>1, <1>5, <2>1 DEF Base
    <3>3. \A t \in Sides, j \in Ids : t # s => Base(t, j)' = Base(t, j) BY <1>5, <2>1 DEF Base
    <3> QED BY <3>1, <3>2, <3>3
  <2>7. \A t \in Sides : \/ loop'[t] = loop[t]
                         \/ loop'[t].pc \in {"read", "gone"}
                         \/ /\ loop[t].pc = "write" /\ loop'[t].pc = "replyclose" /\ loop'[t].f = loop[t].f
                            /\ \A j \in Ids : loop[t].f.id = j => out'[t][j].st # "open"
    BY <1>0, <1>1, <1>5, <2>1
  <2>8. \A t \in Sides, j \in Ids : out'[t][j] = out[t][j] BY <1>5
  <2> QED BY <1>0, <1>3, <2>3, <2>4, <2>5, <2>6, <2>7, <2>8, ECalm
<1>6. CASE /\ out[s][i].st # "open"
           /\ inp' = [inp EXCEPT ![s][i] = Interrupt(@)]
           /\ SessionClose(s, i)
           /\ loop' = [loop EXCEPT ![s] = [pc |-> "read", f |-> NoFrame]]
  <2>1. loop'[s].pc = "read" /\ \A t \in Sides : t # s => loop'[t] = loop[t] BY <1>0, <1>6
  <2>2. loop["client"].pc = "gone" => loop'["client"].pc = "gone" BY <1>0, <2>1, SideFacts
  <2>3. /\ out' = out /\ FInp /\ FHere /\ ETable' /\ EDone'
        /\ \A t \in Sides : sm'[t].closed = sm[t].closed
        /\ \A t \in Sides, j \in Ids : Here(t, j) /\ ~Here(t, j)' => Why(t, j)'
    BY <1>0, <1>1, <1>6, <2>2, RefusedEnds
  <2>4. FSide BY <1>0, <2>1, <2>3 DEF FSide
  <2>5. Forward BY <1>3, <2>3, <2>4, SameForward DEF Forward
  <2>6. \A t \in Sides, j \in Ids : Live(t, j)' => Base(t, j)' = Base(t, j)
    <3>1. ~Live(s, i)' BY <1>6, <2>3 DEF Live
    <3>2. \A j \in Ids : j # i => Base(s, j)' = Base(s, j) BY <1>1, <2>1, <2>3 DEF Base
    <3>3. \A t \in Sides, j \in Ids : t # s => Base(t, j)' = Base(t, j) BY <2>1, <2>3 DEF Base
    <3> QED BY <3>1, <3>2, <3>3
  <2>7. \A t \in Sides, j \in Ids : out'[t][j] = out[t][j] BY <2>3
  <2> QED BY <1>0, <1>3, <2>1, <2>3, <2>5, <2>6, <2>7, ECalm
<1> QED BY <1>1, <1>4, <1>5, <1>6 DEF LoopWrite

LEMMA LoopReplyEnds ==
  ASSUME EInv, MInv, NEW s \in Sides, LoopReply(s)
  PROVE  EInv'
<1>0. /\ UNCHANGED <<caller, done, monitor, copier, hasError>> /\ MType
      /\ loop \in [Sides -> LoopRec] /\ loop[s].pc \in {"reply", "replyclose"}
      /\ loop' = [loop EXCEPT ![s] = [pc |-> "read", f |-> NoFrame]]
  BY DEF LoopReply, MInv, MType
<1>1. PICK i \in Ids : i = loop[s].f.id /\ (loop[s].pc = "replyclose" => copier[s][i] # "none")
  BY <1>0 DEF MInv, MFrames, Holds, Linked
<1>2. PICK f \in Frames : f.id = i /\ f.status = "end" /\ link' = [link EXCEPT ![s] = Put(@, f)]
  <2>1. i \in Nat BY DEF Ids
  <2>2. FALSE \in BOOLEAN OBVIOUS
  <2> QED BY <1>1, <2>1, <2>2, EndFrame DEF LoopReply
<1>3. /\ link'[Peer(s)] = link[Peer(s)]
      /\ link[s].st # "open" => link' = link
      /\ link[s].st = "open" => link'[s].q = Append(link[s].q, f) /\ link'[s].st = "open"
  BY <1>0, <1>2, PutFacts
<1>4. loop'[s].pc = "read" /\ \A t \in Sides : t # s => loop'[t] = loop[t] BY <1>0
<1>5. loop["client"].pc = "gone" => loop'["client"].pc = "gone" BY <1>0, <1>4, SideFacts
<1>a. link'["client"].st = "open" => link["client"].st = "open" BY <1>3, SideFacts
<1>6. /\ loop[s].pc = "replyclose" => out[s][i].st # "open"
      /\ loop[s].pc = "reply" => ~Here(s, i)
  BY <1>1 DEF EInv, EReplies
<1>7. FCopier /\ \A t \in Sides, j \in Ids : copier'[t][j] = copier[t][j] BY <1>0, SameForward
<1>8. /\ out' = out /\ FInp /\ FHere /\ ETable' /\ EDone' /\ ~Here(s, i)'
      /\ \A t \in Sides : sm'[t].closed = sm[t].closed
      /\ \A t \in Sides, j \in Ids : Here(t, j) /\ ~Here(t, j)' => Why(t, j)'
      /\ Aborted(s, i) \/ ~Here(s, i)
  <2>1. CASE loop[s].pc = "replyclose"
    <3>1. inp' = [inp EXCEPT ![s][i] = Interrupt(@)] /\ SessionClose(s, i) BY <1>1, <2>1 DEF LoopReply
    <3>2. copier[s][i] # "none" /\ out[s][i].st # "open" BY <1>1, <1>6, <2>1
    <3> QED BY <1>0, <1>5, <1>a, <3>1, <3>2, RefusedEnds
  <2>2. CASE loop[s].pc = "reply"
    <3>1. UNCHANGED <<inp, out, sm>> BY <2>2 DEF LoopReply
    <3>2. FInp /\ FHere /\ \A t \in Sides, j \in Ids : Here(t, j) => Here(t, j)' BY <1>0, <3>1, SameForward
    <3>3. ETable' /\ EDone' BY <1>0, <1>5, <1>a, <3>1 DEF EInv, ETable, EDone
    <3>4. ~Here(s, i) /\ ~Here(s, i)' BY <1>6, <2>2, <3>2 DEF FHere
    <3> QED BY <3>1, <3>2, <3>3, <3>4
  <2> QED BY <1>0, <2>1, <2>2
<1>9. FSide BY <1>0, <1>3, <1>4, <1>8, SideFacts DEF FSide
<1>10. Forward BY <1>7, <1>8, <1>9, SameForward DEF Forward
<1>11. \A t \in Sides, j \in Ids : Base(t, j)' = Base(t, j)
  <2>1. \A j \in Ids : Base(s, j)' = Base(s, j) BY <1>0, <1>4, <1>8 DEF Base
  <2>2. \A t \in Sides, j \in Ids : t # s => Base(t, j)' = Base(t, j) BY <1>4, <1>8 DEF Base
  <2> QED BY <2>1, <2>2
<1>12. \A t \in Sides, j \in Ids : out'[t][j] = out[t][j] BY <1>8
<1>13. CASE link[s].st # "open" BY <1>3, <1>4, <1>7, <1>8, <1>10, <1>11, <1>12, <1>13, ECalm
<1>14. CASE link[s].st = "open"
  \* The session has left the table because its data is over, or its user gave up.
  <2>1. ASSUME Here(Peer(s), i)' PROVE MayEnd(s, i)
    <3>1. CASE Aborted(s, i) BY <3>1 DEF MayEnd
    <3>2. CASE ~Here(s, i)
      <4>1. Here(Peer(s), i) BY <1>8, <2>1, SideFacts DEF FHere
      <4>2. loop[s].pc # "gone" /\ Holds(s) BY <1>0 DEF Holds
      <4> QED BY <1>1, <1>14, <3>2, <4>1, <4>2 DEF EInv, ELeft
    <3> QED BY <1>8, <3>1, <3>2
  <2>2. ASSUME NEW j \in Ids, IsEnd(f, j), Here(Peer(s), j)'
        PROVE  \/ Aborted(s, j)'
               \/ /\ Drained(s, j)'
                  /\ Live(Peer(s), j)' => Ahead(link[s].q, j, Base(Peer(s), j), inp'[s][j].sent, Len(link[s].q) + 1)
    <3>1. j = i BY <1>2, <2>2 DEF IsEnd
    <3>2. CASE Aborted(s, i) BY <1>10, <3>1, <3>2, EndStays
    <3>3. CASE Drained(s, i)
      <4>1. Drained(s, i)' /\ inp'[s][i].sent = inp[s][i].sent BY <1>10, <3>3, EndStays
      <4>2. Live(Peer(s), i)' => Live(Peer(s), i) BY <1>10, EndStays, SideFacts
      <4>3. Live(Peer(s), i) => Ahead(link[s].q, i, Base(Peer(s), i), inp[s][i].sent, Len(link[s].q) + 1)
        BY <1>14, <3>3, DrainedAhead
      <4> QED BY <3>1, <4>1, <4>2, <4>3
    <3> QED BY <2>1, <2>2, <3>1, <3>2, <3>3 DEF MayEnd
  <2>3. \A j \in Ids : IsEnd(f, j) => ~Here(s, j)' BY <1>2, <1>8 DEF IsEnd
  <2>4. \A j \in Ids : ~IsKeep(f, j) BY <1>2 DEF IsKeep
  <2>5. link'[s].q = Append(link[s].q, f) /\ link'[Peer(s)].q = link[Peer(s)].q BY <1>3, <1>14
  <2>6. \A t \in Sides : loop'[t] = loop[t] \/ loop'[t].pc = "read" BY <1>4
  <2>7. \A t \in Sides, j \in Ids :
         copier'[t][j] \in {"end", "close", "gone"} /\ copier[t][j] \notin {"end", "close", "gone"}
           => link'[t].st # "open" \/ MayEnd(t, j)'
    BY <1>7
  <2> QED BY <1>8, <1>10, <1>11, <1>12, <2>2, <2>3, <2>4, <2>5, <2>6, <2>7, EPut
<1> QED BY <1>13, <1>14

-----------------------------------------------------------------------------
(* The ends of the workers. *)

\* The table of one side is closed, with the outputs of the sessions in it.
LEMMA AllEnd ==
  ASSUME EInv, MInv, NEW s \in Sides, copier' = copier,
         out' = [out EXCEPT ![s] = OutputsClosed(s)], sm' = [sm EXCEPT ![s] = ManagerClosed(@)]
  PROVE  /\ FOut /\ FHere /\ ETable'
         /\ sm'[s].closed /\ sm'[s].sessions \subseteq sm[s].sessions /\ (sm[s].closed => sm' = sm)
         /\ ~sm[s].closed => sm'[s].sessions = {}
         /\ \A t \in Sides : t # s => sm'[t] = sm[t] /\ \A j \in Ids : Here(t, j) => Here(t, j)'
         /\ \A t \in Sides, j \in Ids : /\ out'[t][j].got = out[t][j].got
                                        /\ out[t][j].st # "closed" /\ out'[t][j].st = "closed"
                                              => t = s /\ ~Here(t, j)'
<1>0. MType /\ sm \in [Sides -> Managers] /\ sm[s] \in Managers /\ out \in [Sides -> [Ids -> Outputs]] BY DEF MInv, MType
<1>1. sm'[s] = ManagerClosed(sm[s]) /\ \A t \in Sides : t # s => sm'[t] = sm[t] BY <1>0
<1>2. /\ sm'[s].closed /\ (sm[s].closed => sm'[s] = sm[s])
      /\ ~sm[s].closed => sm'[s].sessions = {}
  <2>1. CASE sm[s].closed BY <1>1, <2>1 DEF ManagerClosed
  <2>2. CASE ~sm[s].closed
    <3>1. sm'[s] = [sm[s] EXCEPT !.closed = TRUE, !.sessions = {}] BY <1>1, <2>2 DEF ManagerClosed
    <3>2. sm'[s].sessions = {} BY <1>0, <3>1 DEF Managers
    <3>3. sm'[s].closed BY <1>0, <3>1, Zenon DEF Managers
    <3> QED BY <2>2, <3>2, <3>3
  <2> QED BY <2>1, <2>2
<1>3. sm'[s].sessions \subseteq sm[s].sessions BY <1>2
<1>4. sm[s].closed => sm' = sm
  <2>1. sm[s].closed => ManagerClosed(sm[s]) = sm[s] BY DEF ManagerClosed
  <2> QED BY <1>0, <2>1
<1>5. \A j \in Ids : /\ out'[s][j] = out[s][j] \/ (out'[s][j] = Close(out[s][j]) /\ copier[s][j] # "none")
                     /\ out[s][j] \in Outputs
  BY <1>0 DEF OutputsClosed
<1>6. \A t \in Sides, j \in Ids : t # s => out'[t][j] = out[t][j] BY <1>0
<1>7. ASSUME NEW j \in Ids
      PROVE  /\ out'[s][j].got = out[s][j].got
             /\ out[s][j].st # "open" => out'[s][j].st = out[s][j].st
             /\ out[s][j].st # "closed" /\ out'[s][j].st = "closed" => copier[s][j] # "none"
  <2>1. out[s][j] \in Outputs BY <1>5
  <2>2. Close(out[s][j]).got = out[s][j].got /\ (out[s][j].st # "open" => Close(out[s][j]).st = out[s][j].st)
    BY <2>1, PipeEnds
  <2> QED BY <1>5, <2>2
<1>8. FOut BY <1>6, <1>7 DEF FOut
<1>9. \A j \in Ids : ~Found(s, j)' BY <1>2 DEF Found
<1>10. \A t \in Sides, j \in Ids : t # s => (Found(t, j)' <=> Found(t, j)) BY <1>1 DEF Found
<1>11. FHere
  <2> SUFFICES ASSUME NEW t \in Sides, NEW j \in Ids, Here(t, j)' PROVE Here(t, j) BY DEF FHere
  <2>1. CASE t = s BY <1>9, <2>1 DEF Here
  <2>2. CASE t # s BY <1>10, <2>2 DEF Here
  <2> QED BY <2>1, <2>2
<1>12. ETable'
  <2>1. sm'["server"].sessions \subseteq sm["server"].sessions BY <1>1, <1>3, SideFacts
  <2> QED BY <2>1 DEF EInv, ETable
<1>13. \A t \in Sides, j \in Ids : t # s => (Here(t, j) => Here(t, j)') BY <1>10 DEF Here
<1>14. \A j \in Ids : out[s][j].st # "closed" /\ out'[s][j].st = "closed" => ~Here(s, j)' BY <1>7, <1>9 DEF Here
<1> QED BY <1>1, <1>2, <1>3, <1>4, <1>6, <1>7, <1>8, <1>11, <1>12, <1>13, <1>14

LEMMA FetchOutputEndsEnds ==
  ASSUME EInv, MInv, FetchOutputEnds
  PROVE  EInv'
<1>0. /\ UNCHANGED <<caller, sm, copier, inp, out, link>>
      /\ loop["client"].pc = "read" /\ loop \in [Sides -> LoopRec] /\ "client" \in Sides
      /\ loop' = [loop EXCEPT !["client"] = [pc |-> "gone", f |-> NoFrame]]
  BY SideFacts DEF FetchOutputEnds, MInv, MType
<1>1. loop'["client"].pc = "gone" /\ \A t \in Sides : t # "client" => loop'[t] = loop[t] BY <1>0
<1>2. FSide BY <1>0, <1>1 DEF FSide
<1>3. Forward /\ \A t \in Sides, j \in Ids : Here(t, j) => Here(t, j)' BY <1>0, <1>2, SameForward DEF Forward
<1>4. ETable' BY <1>0 DEF EInv, ETable
<1>5. EDone' BY <1>1 DEF EDone
<1>6. \A t \in Sides, j \in Ids : Live(t, j)' => Base(t, j)' = Base(t, j)
  <2>1. \A j \in Ids : ~Live("client", j)' BY <1>1 DEF Live
  <2>2. \A t \in Sides, j \in Ids : t # "client" => Base(t, j)' = Base(t, j) BY <1>0, <1>1 DEF Base
  <2> QED BY <2>1, <2>2
<1>7. \A t \in Sides : loop'[t] = loop[t] \/ loop'[t].pc \in {"read", "gone"} BY <1>1
<1> QED BY <1>0, <1>3, <1>4, <1>5, <1>6, <1>7, ECalm

LEMMA RunEndsEnds ==
  ASSUME EInv, MInv, RunEnds
  PROVE  EInv'
<1>0. /\ UNCHANGED <<caller, done, copier, inp, link>>
      /\ loop["server"].pc = "read" /\ loop \in [Sides -> LoopRec] /\ "server" \in Sides /\ "client" \in Sides
      /\ loop' = [loop EXCEPT !["server"] = [pc |-> "gone", f |-> NoFrame]]
      /\ out' = [out EXCEPT !["server"] = OutputsClosed("server")]
      /\ sm' = [sm EXCEPT !["server"] = ManagerClosed(@)]
  BY SideFacts DEF RunEnds, MInv, MType
<1>1. loop'["server"].pc = "gone" /\ \A t \in Sides : t # "server" => loop'[t] = loop[t] BY <1>0
<1>2. /\ FOut /\ FHere /\ ETable' /\ sm'["server"].closed
      /\ \A t \in Sides : t # "server" => sm'[t] = sm[t] /\ \A j \in Ids : Here(t, j) => Here(t, j)'
      /\ \A t \in Sides, j \in Ids : /\ out'[t][j].got = out[t][j].got
                                     /\ out[t][j].st # "closed" /\ out'[t][j].st = "closed"
                                           => t = "server" /\ ~Here(t, j)'
  BY <1>0, AllEnd
<1>3. FSide BY <1>0, <1>1, <1>2 DEF FSide
<1>4. Forward BY <1>0, <1>2, <1>3, SameForward DEF Forward
<1>5. EDone'
  <2>1. loop'["client"] = loop["client"] /\ sm'["client"] = sm["client"] BY <1>0, <1>1, <1>2
  <2> QED BY <1>0, <2>1 DEF EInv, EDone
<1>6. \A t \in Sides, j \in Ids : Live(t, j)' => Base(t, j)' = Base(t, j)
  <2>1. \A j \in Ids : ~Live("server", j)' BY <1>1 DEF Live
  <2>2. \A t \in Sides, j \in Ids : t # "server" => Base(t, j)' = Base(t, j) BY <1>1, <1>2 DEF Base
  <2> QED BY <2>1, <2>2
<1>7. \A t \in Sides : loop'[t] = loop[t] \/ loop'[t].pc \in {"read", "gone"} BY <1>1
<1>8. \A t \in Sides, j \in Ids : out[t][j].st # "closed" /\ out'[t][j].st = "closed" =>
            /\ ~Here(t, j)'
            /\ sm'[t].closed \/ copier'[t][j] = "gone" \/ Told(t, j)'
  BY <1>2
<1>9. \A t \in Sides, j \in Ids :
         Here(t, j) /\ ~Here(t, j)' /\ loop'[t].pc # "gone" /\ Here(Peer(t), j)' => Why(t, j)'
  BY <1>1, <1>2
<1> QED BY <1>0, <1>2, <1>4, <1>5, <1>6, <1>7, <1>8, <1>9, ECalm

LEMMA HandleNewFailsEnds ==
  ASSUME EInv, MInv, HandleNewFails
  PROVE  EInv'
<1>0. /\ UNCHANGED <<caller, done, copier, inp>>
      /\ loop["server"].pc = "read" /\ loop \in [Sides -> LoopRec] /\ "server" \in Sides /\ "client" \in Sides
      /\ Peer("server") = "client" /\ link \in [Sides -> Links] /\ link["client"].q # <<>>
      /\ loop' = [loop EXCEPT !["server"] = [pc |-> "gone", f |-> NoFrame]]
      /\ link' = [link EXCEPT !["client"] = Break([q |-> Tail(@.q), st |-> @.st])]
      /\ out' = [out EXCEPT !["server"] = OutputsClosed("server")]
      /\ sm' = [sm EXCEPT !["server"] = ManagerClosed(@)]
  BY SideFacts DEF HandleNewFails, LoopReady, MInv, MType, Peer
<1>1. loop'["server"].pc = "gone" /\ \A t \in Sides : t # "server" => loop'[t] = loop[t] BY <1>0
<1>2. /\ FOut /\ FHere /\ ETable' /\ sm'["server"].closed
      /\ \A t \in Sides : t # "server" => sm'[t] = sm[t] /\ \A j \in Ids : Here(t, j) => Here(t, j)'
      /\ \A t \in Sides, j \in Ids : /\ out'[t][j].got = out[t][j].got
                                     /\ out[t][j].st # "closed" /\ out'[t][j].st = "closed"
                                           => t = "server" /\ ~Here(t, j)'
  BY <1>0, AllEnd
<1>3. /\ link'["server"] = link["server"]
      /\ link'["client"].st # "open"
      /\ link'["client"].q = <<>> \/ link'["client"].q = Tail(link["client"].q)
  <2>1. /\ link'["server"] = link["server"]
        /\ link'["client"] = Break([q |-> Tail(link["client"].q), st |-> link["client"].st])
    BY <1>0
  <2> QED BY <2>1 DEF Break
<1>4. FSide BY <1>0, <1>1, <1>2, <1>3 DEF FSide
<1>5. Forward BY <1>0, <1>2, <1>4, SameForward DEF Forward
<1>6. EDone'
  <2>1. loop'["client"] = loop["client"] /\ sm'["client"] = sm["client"] BY <1>0, <1>1, <1>2
  <2> QED BY <1>0, <1>3, <2>1 DEF EInv, EDone
<1>7. \A j \in Ids : ~Live("server", j)' BY <1>1 DEF Live
<1>8. \A t \in Sides, j \in Ids : t # "server" => Base(t, j)' = Base(t, j) BY <1>1, <1>2 DEF Base
<1>9. \A t \in Sides, j \in Ids : out[t][j].st # "closed" /\ out'[t][j].st = "closed" =>
            /\ ~Here(t, j)'
            /\ sm'[t].closed \/ copier'[t][j] = "gone" \/ Told(t, j)'
  BY <1>2
<1>10. \A t \in Sides, j \in Ids :
         Here(t, j) /\ ~Here(t, j)' /\ loop'[t].pc # "gone" /\ Here(Peer(t), j)' => Why(t, j)'
  BY <1>1, <1>2
<1>11. CASE link'["client"].q = <<>>
  <2>1. \A t \in Sides : link'[t].q = link[t].q \/ link'[t].q = <<>> BY <1>3, <1>11 DEF Sides
  <2>2. \A t \in Sides : loop'[t] = loop[t] \/ loop'[t].pc \in {"read", "gone"} BY <1>1
  <2>3. \A t \in Sides, j \in Ids : Live(t, j)' => Base(t, j)' = Base(t, j) BY <1>7, <1>8
  <2> QED BY <1>0, <1>2, <1>5, <1>6, <1>9, <1>10, <2>1, <2>2, <2>3, ECalm
<1>12. CASE link'["client"].q = Tail(link["client"].q)
  <2>1. /\ link[Peer("server")].q # <<>> /\ link'[Peer("server")].q = Tail(link[Peer("server")].q)
        /\ link'["server"].q = link["server"].q /\ loop'[Peer("server")] = loop[Peer("server")]
    BY <1>0, <1>1, <1>3, <1>12
  <2>2. \A j \in Ids : Base(Peer("server"), j)' = Base(Peer("server"), j) BY <1>0, <1>8
  <2>3. ~Holds("server")' BY <1>1 DEF Holds
  <2>4. /\ "server" \in Sides /\ ETable' /\ loop'["server"].pc \in {"read", "write", "gone"}
        /\ \A t \in Sides, j \in Ids : copier'[t][j] = copier[t][j]
    BY <1>0, <1>1, <1>2
  <2> QED BY <1>5, <1>6, <1>7, <1>9, <1>10, <2>1, <2>2, <2>3, <2>4, ETake
<1> QED BY <1>3, <1>11, <1>12

LEMMA ConnectionEndsEnds ==
  ASSUME EInv, MInv, ConnectionEnds
  PROVE  EInv'
<1>0. /\ UNCHANGED <<caller, sm, done, monitor, copier, loop, inp, out>>
      /\ link' = [s \in Sides |-> [q |-> <<>>, st |-> "errored"]]
  BY DEF ConnectionEnds
<1>1. \A t \in Sides : link'[t].q = <<>> /\ link'[t].st = "errored" BY <1>0
<1>2. FSide BY <1>0, <1>1 DEF FSide
<1>3. Forward /\ \A t \in Sides, j \in Ids : Here(t, j) => Here(t, j)' BY <1>0, <1>2, SameForward DEF Forward
<1>4. ETable' /\ EDone'
  <2>1. link'["client"].st # "open" BY <1>1, SideFacts
  <2> QED BY <1>0, <2>1 DEF EInv, ETable, EDone
<1>5. \A t \in Sides, j \in Ids : Base(t, j)' = Base(t, j) BY <1>0 DEF Base
<1> QED BY <1>0, <1>1, <1>3, <1>4, <1>5, ECalm

LEMMA ProcessReturnsEnds ==
  ASSUME EInv, MInv, ProcessReturns
  PROVE  EInv'
<1>0. /\ UNCHANGED <<caller, sm, monitor, copier, loop, inp, out, link>>
      /\ link["client"].st = "errored"
  BY SideFacts DEF ProcessReturns
<1>1. Forward /\ \A t \in Sides, j \in Ids : Here(t, j) => Here(t, j)' BY <1>0, SameForward DEF Forward
<1>2. ETable' /\ EDone' BY <1>0 DEF EInv, ETable, EDone
<1>3. \A t \in Sides, j \in Ids : Base(t, j)' = Base(t, j) BY <1>0 DEF Base
<1> QED BY <1>0, <1>1, <1>2, <1>3, ECalm

LEMMA MonitorEnds ==
  ASSUME EInv, MInv, Monitor
  PROVE  EInv'
<1>0. /\ "server" \in Sides /\ "client" \in Sides /\ sm \in [Sides -> Managers] /\ sm["client"] \in Managers
      /\ link \in [Sides -> Links] /\ link["client"] \in Links
  BY SideFacts DEF MInv, MType
<1>1. CASE UNCHANGED <<caller, sm, done, copier, loop, inp, out, link>>
  <2>1. Forward /\ \A t \in Sides, j \in Ids : Here(t, j) => Here(t, j)' BY <1>1, SameForward DEF Forward
  <2>2. ETable' /\ EDone' BY <1>1 DEF EInv, ETable, EDone
  <2>3. \A t \in Sides, j \in Ids : Base(t, j)' = Base(t, j) BY <1>1 DEF Base
  <2> QED BY <1>1, <2>1, <2>2, <2>3, ECalm
<1>2. CASE /\ sm["client"].closed \/ sm["client"].sessions = {}
           /\ sm' = [sm EXCEPT !["client"].closed = TRUE]
           /\ UNCHANGED <<caller, copier, loop, inp, out, link>>
  <2>1. /\ sm'["client"].closed /\ sm'["client"].sessions = sm["client"].sessions
        /\ sm'["server"] = sm["server"]
    <3>1. sm'["client"] = [sm["client"] EXCEPT !.closed = TRUE] /\ sm'["server"] = sm["server"] BY <1>0, <1>2
    <3>2. sm'["client"].sessions = sm["client"].sessions BY <1>0, <3>1 DEF Managers
    <3>3. sm'["client"].closed BY <1>0, <3>1, Zenon DEF Managers
    <3> QED BY <3>1, <3>2, <3>3
  <2>2. \A t \in Sides, j \in Ids : Here(t, j)' <=> Here(t, j)
    <3>1. \A j \in Ids : Found("client", j)' <=> Found("client", j) BY <1>2, <2>1 DEF Found
    <3>2. \A j \in Ids : Found("server", j)' <=> Found("server", j) BY <2>1 DEF Found
    <3> QED BY <1>2, <3>1, <3>2 DEF Here, Sides
  <2>3. FSide BY <1>2, <2>1 DEF FSide, Sides
  <2>4. Forward BY <1>2, <2>2, <2>3, SameForward DEF Forward, FHere
  <2>5. ETable' BY <1>2, <2>1 DEF EInv, ETable
  <2>6. EDone'
    <3> SUFFICES ASSUME loop["client"].pc # "gone", link["client"].st = "open"
                 PROVE  sm["client"].sessions = {} /\ \A c \in Callers : caller[c].pc # "allocated"
      BY <1>2, <2>1 DEF EDone
    <3>1. CASE sm["client"].closed BY <3>1 DEF EInv, EDone
    <3>2. CASE ~sm["client"].closed BY <1>2, <3>2 DEF MInv, MCallers
    <3> QED BY <3>1, <3>2
  <2>7. \A t \in Sides, j \in Ids : Base(t, j)' = Base(t, j) BY <1>2 DEF Base
  <2> QED BY <1>2, <2>2, <2>4, <2>5, <2>6, <2>7, ECalm
<1>3. CASE MonitorDone
  <2>0. /\ UNCHANGED <<caller, done, copier, loop, inp, link>> /\ done
        /\ out' = [out EXCEPT !["client"] = OutputsClosed("client")]
        /\ sm' = [sm EXCEPT !["client"] = ManagerClosed(@)]
    BY <1>3 DEF MonitorDone
  <2>1. /\ FOut /\ FHere /\ ETable' /\ sm'["client"].closed /\ (sm["client"].closed => sm' = sm)
        /\ \A t \in Sides : t # "client" => sm'[t] = sm[t] /\ \A j \in Ids : Here(t, j) => Here(t, j)'
        /\ \A t \in Sides, j \in Ids : /\ out'[t][j].got = out[t][j].got
                                       /\ out[t][j].st # "closed" /\ out'[t][j].st = "closed"
                                             => t = "client" /\ ~Here(t, j)'
    BY <1>0, <2>0, AllEnd
  <2>2. FSide BY <2>0, <2>1 DEF FSide
  <2>3. Forward BY <2>0, <2>1, <2>2, SameForward DEF Forward
  \* The worker is done before its table is closed only when its loop or the link has ended.
  <2>4. loop["client"].pc # "gone" /\ link["client"].st = "open" => sm' = sm BY <2>0, <2>1 DEF EInv, EDone
  <2>5. EDone' BY <2>0, <2>4 DEF EInv, EDone
  <2>6. \A t \in Sides, j \in Ids : Base(t, j)' = Base(t, j) BY <2>0, <2>1 DEF Base
  <2>7. \A t \in Sides, j \in Ids : out[t][j].st # "closed" /\ out'[t][j].st = "closed" =>
              /\ ~Here(t, j)'
              /\ sm'[t].closed \/ copier'[t][j] = "gone" \/ Told(t, j)'
    BY <2>1
  <2>8. ASSUME NEW t \in Sides, NEW j \in Ids, Here(t, j), ~Here(t, j)', loop'[t].pc # "gone" PROVE Why(t, j)'
    <3>1. t = "client" BY <2>1, <2>8
    <3>2. CASE link["client"].st # "open" BY <2>0, <3>1, <3>2 DEF Why
    <3>3. CASE link["client"].st = "open"
      <4>1. sm' = sm BY <2>0, <2>4, <2>8, <3>1, <3>3
      <4> QED BY <2>0, <2>8, <4>1, SameForward
    <3> QED BY <3>2, <3>3
  <2> QED BY <2>0, <2>1, <2>3, <2>5, <2>6, <2>7, <2>8, ECalm
<1>4. CASE MonitorLinks
  <2>0. /\ UNCHANGED <<caller, sm, done, copier, loop, inp, out>>
        /\ link' = [link EXCEPT !["client"] = Close(@), !["server"] = Break(@)]
    BY <1>4 DEF MonitorLinks
  <2>1. link'["client"] = Close(link["client"]) /\ link'["server"] = Break(link["server"]) BY <1>0, <2>0
  <2>2. link'["client"].q = link["client"].q /\ link'["client"].st # "open" BY <1>0, <2>1 DEF Close, Links
  <2>3. (link'["server"].q = link["server"].q \/ link'["server"].q = <<>>) /\ link'["server"].st # "open"
    BY <2>1 DEF Break
  <2>4. FSide BY <2>0, <2>2, <2>3 DEF FSide, Sides
  <2>5. Forward /\ \A t \in Sides, j \in Ids : Here(t, j) => Here(t, j)' BY <2>0, <2>4, SameForward DEF Forward
  <2>6. ETable' /\ EDone' BY <2>0, <2>2 DEF EInv, ETable, EDone
  <2>7. \A t \in Sides, j \in Ids : Base(t, j)' = Base(t, j) BY <2>0 DEF Base
  <2>8. \A t \in Sides : link'[t].q = link[t].q \/ link'[t].q = <<>> BY <2>2, <2>3 DEF Sides
  <2> QED BY <2>0, <2>5, <2>6, <2>7, <2>8, ECalm
<1> QED BY <1>1, <1>2, <1>3, <1>4 DEF Monitor, MonitorSize, MonitorClose

LEMMA EndInit == Init => EInv
<1> SUFFICES ASSUME Init PROVE EInv OBVIOUS
<1>1. /\ sm = [s \in Sides |-> [count |-> 0, closed |-> FALSE, sessions |-> {}]]
      /\ caller = [c \in Callers |-> [pc |-> "idle", id |-> 0]]
      /\ done = FALSE
      /\ copier = [s \in Sides |-> [i \in Ids |-> "none"]]
      /\ loop = [s \in Sides |-> [pc |-> "read", f |-> NoFrame]]
      /\ out = [s \in Sides |-> [i \in Ids |-> NewOutput]]
      /\ link = [s \in Sides |-> [q |-> <<>>, st |-> "open"]]
  BY DEF Init
<1>2. \A s \in Sides : link[s].q = <<>> /\ loop[s].pc = "read" /\ ~sm[s].closed /\ sm[s].sessions = {} BY <1>1
<1>3. \A s \in Sides, i \in Ids : copier[s][i] = "none" /\ out[s][i].st = "open" BY <1>1 DEF NewOutput
<1>4. EFrames /\ EOwn BY <1>2 DEF EFrames, EOwn
<1>5. \A s \in Sides, i \in Ids : Here(s, i) BY <1>3 DEF Here
<1>6. ELeft /\ EReplies BY <1>2, <1>5 DEF ELeft, EReplies
<1>7. ECopied /\ EClosed /\ ETold BY <1>3 DEF ECopied, EClosed, ETold
<1>8. ETable /\ EDone BY <1>1, <1>2, SideFacts DEF ETable, EDone
<1> QED BY <1>4, <1>6, <1>7, <1>8 DEF EInv

LEMMA EndsStep == MInv /\ EInv /\ [Next]_vars => EInv'
<1> SUFFICES ASSUME MInv, EInv, [Next]_vars PROVE EInv' OBVIOUS
<1>1. CASE UNCHANGED vars
  <2>1. UNCHANGED <<caller, sm, done, copier, loop, inp, out, link>> BY <1>1 DEF vars
  <2>2. Forward /\ \A t \in Sides, j \in Ids : Here(t, j) => Here(t, j)' BY <2>1, SameForward DEF Forward
  <2>3. ETable' /\ EDone' BY <2>1 DEF EInv, ETable, EDone
  <2>4. \A t \in Sides, j \in Ids : Base(t, j)' = Base(t, j) BY <2>1 DEF Base
  <2> QED BY <2>1, <2>2, <2>3, <2>4, ECalm
<1>2. ASSUME NEW c \in Callers, Dispatch(c) PROVE EInv'
  BY <1>2, DispatchCheckEnds, DispatchAllocateEnds, DispatchLinkEnds DEF Dispatch
<1>3. ASSUME NEW s \in Sides, Loop(s) PROVE EInv'
  <2>1. CASE HandleKeep(s) \/ HandleEnd(s) \/ LoopWrite(s) \/ LoopReply(s)
    BY <2>1, HandleKeepEnds, HandleEndEnds, LoopWriteEnds, LoopReplyEnds
  <2>2. CASE FetchOutputEnds \/ HandleNew \/ HandleNewFails \/ RunEnds
    BY <2>2, FetchOutputEndsEnds, HandleNewEnds, HandleNewFailsEnds, RunEndsEnds
  <2> QED BY <1>3, <2>1, <2>2 DEF Loop
<1>4. ASSUME NEW s \in Sides, NEW i \in Ids, Copier(s, i) PROVE EInv'
  BY <1>4, FirstPayloadEnds, CopyReadEnds, CopyWriteEnds, CopyEndEnds, CopyCloseEnds DEF Copier
<1>5. ASSUME NEW s \in Sides, NEW i \in Ids, User(s, i) PROVE EInv' BY <1>5, UserEnds
<1>6. CASE Monitor BY <1>6, MonitorEnds
<1>7. CASE ConnectionEnds BY <1>7, ConnectionEndsEnds
<1>8. CASE ProcessReturns BY <1>8, ProcessReturnsEnds
<1> QED BY <1>1, <1>2, <1>3, <1>4, <1>5, <1>6, <1>7, <1>8 DEF Next

\* A session that ends because the peer ended it has received everything the
\* peer's user sent, unless that user gave up one of its two pipes: no End frame
\* overtakes data, whoever sends it.
THEOREM CleanEnds == Spec => []CleanEndIsComplete
<1>1. Init => MInv /\ EInv BY MuxInit, EndInit
<1>2. (MInv /\ EInv) /\ [Next]_vars => (MInv /\ EInv)' BY MuxStep, EndsStep
<1>3. EInv => CleanEndIsComplete
  <2> SUFFICES ASSUME EInv, NEW s \in Sides, NEW i \in Ids, out[s][i].st = "closed",
                      copier[s][i] \notin {"none", "gone"}, ~sm[s].closed
               PROVE  \/ "errored" \in {inp[Peer(s)][i].st, out[Peer(s)][i].st}
                      \/ /\ inp[Peer(s)][i].st = "closed"
                         /\ Len(out[s][i].got) = inp[Peer(s)][i].sent
    BY DEF CleanEndIsComplete
  <2> QED BY DEF EInv, ETold, Aborted
<1> QED BY <1>1, <1>2, <1>3, PTL DEF Spec
=============================================================================
