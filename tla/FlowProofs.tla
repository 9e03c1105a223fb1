----------------------------- MODULE FlowProofs -----------------------------
(***************************************************************************)
(* Tables of flows and pools of connections, for any number of addresses,  *)
(* entries, packets, connections and goroutines.                           *)
(*                                                                         *)
(* Three tables are keyed by an address and not by an entry: the outbound  *)
(* links of the UDP dispatcher, the connections of the UDP inbound and the *)
(* sessions of the KCP listener.  In all three an owner that is done       *)
(* removes whatever has its key now.  The common argument: what is in the  *)
(* table is the newest of its key, so that whoever removes it by mistake   *)
(* is older; and whoever removes has already come to its end, so that it   *)
(* is not the one that is lost.                                            *)
(*                                                                         *)
(* The pool of mux connections gives a call the first one with room and is *)
(* cleaned up meanwhile; bridge and portal each keep a list of their       *)
(* connections.                                                            *)
(*                                                                         *)
(* They have nothing to do with each other; parameters and variables of    *)
(* the same name are declared once.                                        *)
(***************************************************************************)
EXTENDS Flows, Sequences, FiniteSets, FiniteSetTheorems, TLAPS

\* Entries and connections are numbered from 1, so their number is the last one.
LEMMA CountNumbered ==
  ASSUME NEW k \in Nat
  PROVE  U!Cardinality(1..k) = k
  <1>1. \A S : U!Cardinality(S) = Cardinality(S)
    BY DEF U!Cardinality, Cardinality
  <1> QED
    BY <1>1, FS_Interval

\* The members of A below i, whose number is the rank of i in A.
Below(A, i) == {j \in A : j < i}

\* The members of a finite set of numbers have the ranks 0, 1, 2 and so on.
LEMMA RanksOfNumbers ==
  ASSUME NEW A \in SUBSET Nat, IsFiniteSet(A)
  PROVE  /\ \A i \in A : Cardinality(Below(A, i)) \in 0..(Cardinality(A) - 1)
         /\ \A i, j \in A : i < j => Cardinality(Below(A, i)) < Cardinality(Below(A, j))
         /\ \A k \in 0..(Cardinality(A) - 1) : \E i \in A : Cardinality(Below(A, i)) = k
  <1> DEFINE n == Cardinality(A)
             rank == [i \in A |-> Cardinality(Below(A, i))]
  <1>1. \A i : IsFiniteSet(Below(A, i)) /\ Cardinality(Below(A, i)) \in Nat
    BY FS_Subset, FS_CardinalityType DEF Below
  <1>2. n \in Nat
    BY FS_CardinalityType
  <1>3. \A i \in A : Cardinality(Below(A, i)) < n
    <2> SUFFICES ASSUME NEW i \in A PROVE Cardinality(Below(A, i)) < n
      OBVIOUS
    <2>1. Below(A, i) \in SUBSET A /\ i \notin Below(A, i)
      BY DEF Below
    <2>2. Below(A, i) # A
      BY <2>1
    <2>3. Cardinality(Below(A, i)) <= n /\ n # Cardinality(Below(A, i))
      BY <2>1, <2>2, FS_Subset
    <2> QED
      BY <1>1, <1>2, <2>3
  <1>4. \A i, j \in A : i < j => Cardinality(Below(A, i)) < Cardinality(Below(A, j))
    <2> SUFFICES ASSUME NEW i \in A, NEW j \in A, i < j
                 PROVE  Cardinality(Below(A, i)) < Cardinality(Below(A, j))
      OBVIOUS
    <2>a. \A x \in A : x < i => x < j
      OBVIOUS
    <2>b. ~(i < i)
      OBVIOUS
    <2>1. Below(A, i) \in SUBSET Below(A, j) /\ i \notin Below(A, i) /\ i \in Below(A, j)
      BY <2>a, <2>b DEF Below
    <2>2. Below(A, i) # Below(A, j)
      BY <2>1
    <2>3. /\ Cardinality(Below(A, i)) <= Cardinality(Below(A, j))
          /\ Cardinality(Below(A, j)) # Cardinality(Below(A, i))
      BY <1>1, <2>1, <2>2, FS_Subset
    <2> QED
      BY <1>1, <2>3
  <1>5. \A k \in 0..(n - 1) : \E i \in A : Cardinality(Below(A, i)) = k
    <2>1. rank \in [A -> 0..(n - 1)]
      BY <1>1, <1>2, <1>3
    <2>2. \A i, j \in A : rank[i] = rank[j] => i = j
      <3> SUFFICES ASSUME NEW i \in A, NEW j \in A, rank[i] = rank[j], i # j PROVE FALSE
        OBVIOUS
      <3>1. i < j \/ j < i
        OBVIOUS
      <3> QED
        BY <1>1, <1>4, <3>1
    <2>3. rank \in Injection(A, 0..(n - 1))
      BY <2>1, <2>2 DEF Injection, IsInjective
    <2>4. IsFiniteSet(0..(n - 1)) /\ Cardinality(0..(n - 1)) = n
      <3>1. 0 \in Int /\ n - 1 \in Int /\ (0 > n - 1 => n = 0) /\ n - 1 - 0 + 1 = n
        BY <1>2
      <3> QED
        BY <3>1, FS_Interval
    <2>5. rank \in Surjection(A, 0..(n - 1))
      BY <2>3, <2>4, FS_Injection
    <2>6. \A k \in 0..(n - 1) : \E i \in A : rank[i] = k
      BY <2>5 DEF Surjection
    <2> QED
      BY <2>6
  <1> QED
    BY <1>1, <1>2, <1>3, <1>4, <1>5

-----------------------------------------------------------------------------
(* UdpDispatcher. *)

EntryRec == [dest : Dests, ctx : BOOLEAN, writer : {"open", "closed", "errord"},
             feed : {"open", "closed"}, queue : Nat,
             reader : {"loop", "read", "cancel", "remove", "gone"},
             token : BOOLEAN, timer : {"armed", "finish", "remove", "gone"}]

UType ==
  /\ \E n \in Nat : DOMAIN entry = 1..n
  /\ entry \in [U!Entries -> EntryRec]
  /\ DOMAIN conns \subseteq Dests
  /\ conns \in [DOMAIN conns -> U!Entries]
  /\ sender \in [Senders -> {U!Idle} \cup [pc : {"write", "remove"}, to : U!Entries]]

\* The table holds the newest entry of each destination.
UNewest ==
  \A d \in DOMAIN conns :
     /\ entry[conns[d]].dest = d
     /\ \A e \in U!Entries : entry[e].dest = d => e <= conns[d]

\* Whoever is about to remove has cancelled the context of its own entry.
UCancelled ==
  /\ \A e \in U!Entries : entry[e].reader = "remove" \/ entry[e].timer = "remove" => ~entry[e].ctx
  /\ \A s \in Senders : sender[s].pc = "remove" => ~entry[sender[s].to].ctx

UInv == UType /\ UNewest /\ UCancelled

\* The step that CutOffByPredecessor speaks of.
ClosesRightly ==
  \A e \in U!Entries :
     (entry[e].ctx /\ entry[e].writer = "open" /\ entry'[e].writer = "closed") =>
        \E o \in U!Entries : /\ o < e /\ entry[o].dest = entry[e].dest
                             /\ ~entry[o].ctx /\ U!RemovedFor(o)

\* What RemoveRay by an owner o that has come to its end leaves alone; it closes at most
\* the writer of the entry in the table, which is o's or that of a younger entry.
LEMMA RemoveRayStep ==
  ASSUME UType, UNewest,
         NEW ents \in [U!Entries -> EntryRec],
         \A e \in U!Entries : /\ ents[e].dest = entry[e].dest /\ ents[e].ctx = entry[e].ctx
                              /\ ents[e].writer = entry[e].writer,
         NEW o \in U!Entries, ~entry[o].ctx,
         U!RemoveRay(entry[o].dest, ents)
  PROVE  /\ entry' \in [U!Entries -> EntryRec]
         /\ DOMAIN entry' = U!Entries
         /\ \A e \in U!Entries : /\ entry'[e].dest = entry[e].dest
                                 /\ entry'[e].ctx = entry[e].ctx
                                 /\ entry'[e].reader = ents[e].reader
                                 /\ entry'[e].timer = ents[e].timer
                                 /\ (entry[e].ctx /\ entry'[e].writer # entry[e].writer) =>
                                       o < e /\ entry[o].dest = entry[e].dest
         /\ DOMAIN conns' \subseteq DOMAIN conns
         /\ conns' \in [DOMAIN conns' -> U!Entries]
         /\ \A d \in DOMAIN conns' : conns'[d] = conns[d]
         /\ UNewest'
  <1> DEFINE d == entry[o].dest
  <1> USE DEF U!Entries
  <1>1. /\ DOMAIN conns' = DOMAIN conns \ {d}
        /\ \A x \in DOMAIN conns' : conns'[x] = conns[x]
        /\ conns' \in [DOMAIN conns' -> U!Entries]
    BY DEF U!RemoveRay, UType
  <1>2. CASE d \notin DOMAIN conns
    <2>1. entry' = ents
      BY <1>2 DEF U!RemoveRay
    <2>2. DOMAIN entry' = U!Entries /\ \A e \in U!Entries : entry'[e].dest = entry[e].dest
      BY <2>1
    <2>3. UNewest'
      BY <1>1, <2>2 DEF UNewest
    <2> QED
      BY <1>1, <2>1, <2>2, <2>3
  <1>3. CASE d \in DOMAIN conns
    <2>1. conns[d] \in U!Entries /\ o <= conns[d] /\ entry[conns[d]].dest = d
      BY <1>3 DEF UType, UNewest
    <2> DEFINE c == conns[d]
               w == IF ents[c].writer = "open" THEN "closed" ELSE ents[c].writer
    <2>2. entry' = [ents EXCEPT ![c].writer = w]
      BY <1>3 DEF U!RemoveRay
    <2>3. w \in {"open", "closed", "errord"}
      BY <2>1 DEF EntryRec
    <2> HIDE DEF w, c
    <2>4. /\ entry' \in [U!Entries -> EntryRec]
          /\ \A e \in U!Entries : /\ entry'[e].dest = entry[e].dest
                                  /\ entry'[e].ctx = entry[e].ctx
                                  /\ entry'[e].reader = ents[e].reader
                                  /\ entry'[e].timer = ents[e].timer
                                  /\ e # c => entry'[e].writer = entry[e].writer
      BY <2>1, <2>2, <2>3 DEF EntryRec, c
    <2>5. o \in Nat /\ c \in Nat /\ (o = c \/ o < c)
      BY <2>1 DEF UType, c
    <2>6. ASSUME NEW e \in U!Entries, entry[e].ctx, entry'[e].writer # entry[e].writer
          PROVE  o < e /\ entry[o].dest = entry[e].dest
      <3>1. e = c
        BY <2>4, <2>6
      <3> QED
        BY <2>1, <2>5, <2>6, <3>1 DEF c
    <2>7. UNewest'
      BY <1>1, <2>4 DEF UNewest
    <2> QED
      BY <1>1, <2>4, <2>6, <2>7
  <1> QED
    BY <1>2, <1>3

\* Steps that leave the table and the destinations alone.
LEMMA QuietStep ==
  ASSUME UInv, conns' = conns,
         entry' \in [U!Entries -> EntryRec],
         \A e \in U!Entries : entry'[e].dest = entry[e].dest
  PROVE  U!Entries' = U!Entries /\ UNewest'
  <1>1. U!Entries' = U!Entries
    BY DEF U!Entries
  <1> QED
    BY <1>1 DEF UInv, UNewest, UType

\* What one entry may become without a removal.
Quiet(e, r) ==
  /\ r \in EntryRec
  /\ r.dest = entry[e].dest
  /\ r.ctx => entry[e].ctx
  /\ r.writer = "closed" => entry[e].writer = "closed"
  /\ r.reader = "remove" \/ r.timer = "remove" => ~r.ctx

\* A step of the dispatcher that only changes one entry, and no sender.
LEMMA EntryStep ==
  ASSUME UInv, NEW e \in U!Entries, NEW r, Quiet(e, r),
         entry' = [entry EXCEPT ![e] = r], UNCHANGED <<conns, sender>>
  PROVE  UInv' /\ ClosesRightly
  <1> USE DEF Quiet
  <1>1. entry' \in [U!Entries -> EntryRec] /\ U!Entries' = U!Entries
    BY DEF UInv, UType, U!Entries
  <1>2. \A x \in U!Entries : entry'[x] = IF x = e THEN r ELSE entry[x]
    BY DEF UInv, UType
  <1>3. UNewest'
    BY <1>1, <1>2, QuietStep
  <1>4. UCancelled'
    <2>1. \A x \in U!Entries : entry'[x].reader = "remove" \/ entry'[x].timer = "remove" => ~entry'[x].ctx
      BY <1>2 DEF UInv, UCancelled
    <2>2. ASSUME NEW s \in Senders, sender[s].pc = "remove" PROVE ~entry'[sender[s].to].ctx
      <3>1. sender[s].to \in U!Entries /\ ~entry[sender[s].to].ctx
        BY <2>2 DEF UInv, UType, UCancelled, U!Idle
      <3> QED
        BY <3>1, <1>2
    <2> QED
      BY <1>1, <2>1, <2>2 DEF UCancelled
  <1>5. UType'
    BY <1>1 DEF UInv, UType, U!Entries, U!Idle
  <1>6. ClosesRightly
    BY <1>2 DEF ClosesRightly
  <1> QED
    BY <1>3, <1>4, <1>5, <1>6 DEF UInv

\* Any step of the dispatcher keeps the invariant, and closes a live link only for an
\* older entry.
LEMMA DispatcherStep == UInv /\ [U!Next]_(U!vars) => UInv' /\ ClosesRightly
  <1> SUFFICES ASSUME UInv, [U!Next]_(U!vars) PROVE UInv' /\ ClosesRightly
    OBVIOUS
  <1>1. UType /\ UNewest /\ UCancelled
    BY DEF UInv
  <1>2. ASSUME NEW s \in Senders, NEW d \in Dests, U!GetInboundRay(s, d) PROVE UInv' /\ ClosesRightly
    <2>1. CASE d \in DOMAIN conns
      <3>1. conns[d] \in U!Entries
        BY <1>1, <2>1 DEF UType
      <3>2. entry' = entry /\ conns' = conns
        BY <1>1, <1>2, <2>1, <3>1 DEF U!GetInboundRay, U!With, UType
      <3>3. sender' = [sender EXCEPT ![s] = [pc |-> "write", to |-> conns[d]]]
        BY <1>2, <2>1 DEF U!GetInboundRay
      <3>4. U!Entries' = U!Entries
        BY <3>2 DEF U!Entries
      <3>5. UNewest'
        BY <1>1, <3>2, <3>4 DEF UNewest
      <3>6. UType'
        BY <1>1, <3>1, <3>2, <3>3, <3>4 DEF UType, U!Idle
      <3>7. UCancelled'
        BY <1>1, <3>2, <3>3, <3>4 DEF UCancelled, UType
      <3>8. ClosesRightly
        BY <3>2 DEF ClosesRightly
      <3> QED
        BY <3>5, <3>6, <3>7, <3>8 DEF UInv
    <2>2. CASE d \notin DOMAIN conns
      <3>1. PICK n \in Nat : U!Entries = 1..n
        BY <1>1 DEF UType, U!Entries
      <3> DEFINE e == n + 1
                 r == [dest |-> d, ctx |-> TRUE, writer |-> "open", feed |-> "open",
                       queue |-> 0, reader |-> "loop", token |-> FALSE, timer |-> "armed"]
      <3>2. U!Cardinality(U!Entries) = n /\ e \notin U!Entries
        BY <3>1, CountNumbered
      <3>3. /\ entry' = U!With(entry, e, r)
            /\ conns' = U!With(conns, d, e)
            /\ sender' = [sender EXCEPT ![s] = [pc |-> "write", to |-> e]]
        <4> DEFINE m == IF d \in DOMAIN conns THEN conns[d] ELSE U!Cardinality(U!Entries) + 1
        <4>1. /\ entry' = IF m \in U!Entries THEN entry ELSE U!With(entry, m, r)
              /\ conns' = U!With(conns, d, m)
              /\ sender' = [sender EXCEPT ![s] = [pc |-> "write", to |-> m]]
          BY <1>2, Zenon DEF U!GetInboundRay
        <4>2. m = e
          BY <2>2, <3>2
        <4> HIDE DEF m, r, e
        <4> QED
          BY <4>1, <4>2, <3>2
      <3>4. r \in EntryRec /\ r.dest = d /\ r.ctx /\ r.writer = "open" /\ r.reader = "loop" /\ r.timer = "armed"
        BY DEF EntryRec
      <3>5. e \in Nat /\ U!Entries' = 1..e /\ U!Entries \subseteq U!Entries' /\ U!Entries' = U!Entries \cup {e}
        BY <3>1, <3>3 DEF U!With, U!Entries
      <3> HIDE DEF r
      <3>6. /\ entry' \in [U!Entries' -> EntryRec]
            /\ entry'[e] = r
            /\ \A x \in U!Entries : entry'[x] = entry[x]
        BY <1>1, <3>2, <3>3, <3>4, <3>5 DEF U!With, U!Entries, UType
      <3>7. /\ DOMAIN conns' = DOMAIN conns \cup {d}
            /\ conns' \in [DOMAIN conns' -> U!Entries']
            /\ conns'[d] = e
            /\ \A x \in DOMAIN conns : conns'[x] = conns[x]
        BY <1>1, <2>2, <3>3, <3>5 DEF U!With, UType
      <3> HIDE DEF e
      <3>8. sender' \in [Senders -> {U!Idle} \cup [pc : {"write", "remove"}, to : U!Entries']]
        BY <1>1, <3>3, <3>5 DEF UType, U!Idle
      <3>9. UType'
        BY <1>1, <3>5, <3>6, <3>7, <3>8 DEF UType, U!Entries, U!Idle
      <3>10. UNewest'
        <4>1. ASSUME NEW x \in DOMAIN conns'
              PROVE /\ entry'[conns'[x]].dest = x
                    /\ \A y \in U!Entries' : entry'[y].dest = x => y <= conns'[x]
          <5>1. CASE x = d
            BY <5>1, <3>4, <3>5, <3>6, <3>7
          <5>2. CASE x # d
            <6>1. x \in DOMAIN conns /\ conns[x] \in U!Entries /\ conns'[x] = conns[x]
              BY <1>1, <3>7, <5>2 DEF UType
            <6> QED
              BY <1>1, <6>1, <5>2, <3>4, <3>5, <3>6 DEF UNewest
          <5> QED
            BY <5>1, <5>2
        <4> QED
          BY <4>1 DEF UNewest
      <3>11. UCancelled'
        <4>1. ASSUME NEW x \in U!Entries', entry'[x].reader = "remove" \/ entry'[x].timer = "remove"
              PROVE  ~entry'[x].ctx
          BY <1>1, <4>1, <3>4, <3>5, <3>6 DEF UCancelled
        <4>2. ASSUME NEW x \in Senders, sender'[x].pc = "remove" PROVE ~entry'[sender'[x].to].ctx
          <5>1. x # s /\ sender'[x] = sender[x]
            BY <1>1, <3>3, <4>2 DEF UType
          <5>2. sender[x].to \in U!Entries
            BY <1>1, <4>2, <5>1 DEF UType, U!Idle
          <5> QED
            BY <1>1, <4>2, <5>1, <5>2, <3>6 DEF UCancelled
        <4> QED
          BY <4>1, <4>2 DEF UCancelled
      <3>12. ClosesRightly
        BY <3>6 DEF ClosesRightly
      <3> QED
        BY <3>9, <3>10, <3>11, <3>12 DEF UInv
    <2> QED
      BY <2>1, <2>2
  <1>3. ASSUME NEW s \in Senders, U!Write(s) PROVE UInv' /\ ClosesRightly
    <2> DEFINE e == sender[s].to
    <2>1. e \in U!Entries /\ conns' = conns
      BY <1>1, <1>3 DEF U!Write, UType, U!Idle
    <2>2. CASE entry[e].writer = "open"
      <3>1. entry' = entry /\ sender' = [sender EXCEPT ![s] = U!Idle] /\ U!Entries' = U!Entries
        BY <1>3, <2>2 DEF U!Write, U!Entries
      <3>2. UNewest'
        BY <1>1, <2>1, <3>1 DEF UNewest
      <3>3. UType'
        BY <1>1, <2>1, <3>1 DEF UType, U!Idle
      <3>4. UCancelled'
        BY <1>1, <3>1 DEF UCancelled, UType, U!Idle
      <3>5. ClosesRightly
        BY <3>1 DEF ClosesRightly
      <3> QED
        BY <3>2, <3>3, <3>4, <3>5 DEF UInv
    <2>3. CASE entry[e].writer # "open"
      <3>1. /\ entry' = [entry EXCEPT ![e].ctx = FALSE]
            /\ sender' = [sender EXCEPT ![s].pc = "remove"]
        BY <1>3, <2>3 DEF U!Write
      <3> DEFINE r == [entry[e] EXCEPT !.ctx = FALSE]
      <3>8. /\ r \in EntryRec /\ r.dest = entry[e].dest /\ ~r.ctx /\ r.writer = entry[e].writer
            /\ r.reader = entry[e].reader /\ r.timer = entry[e].timer
        <4>1. entry[e] \in EntryRec
          BY <1>1, <2>1 DEF UType
        <4> QED
          BY <4>1 DEF EntryRec
      <3>9. entry' = [entry EXCEPT ![e] = r]
        BY <1>1, <2>1, <3>1 DEF UType
      <3> HIDE DEF r
      <3>2. /\ entry' \in [U!Entries -> EntryRec] /\ U!Entries' = U!Entries
            /\ ~entry'[e].ctx
            /\ \A x \in U!Entries : /\ entry'[x].dest = entry[x].dest
                                    /\ entry'[x].ctx => entry[x].ctx
                                    /\ entry'[x].writer = entry[x].writer
                                    /\ entry'[x].reader = entry[x].reader
                                    /\ entry'[x].timer = entry[x].timer
        BY <1>1, <2>1, <3>8, <3>9 DEF UType, U!Entries
      <3>3. UNewest'
        BY <2>1, <3>2, QuietStep
      <3>4. sender[s] \in [pc : {"write", "remove"}, to : U!Entries]
        BY <1>1, <1>3 DEF UType, U!Write, U!Idle
      <3>5. /\ sender'[s].to = e
            /\ sender' \in [Senders -> {U!Idle} \cup [pc : {"write", "remove"}, to : U!Entries]]
            /\ \A x \in Senders : x # s => sender'[x] = sender[x]
        BY <1>1, <3>1, <3>4 DEF UType
      <3>6. UType'
        BY <1>1, <2>1, <3>2, <3>5 DEF UType, U!Entries, U!Idle
      <3>7. UCancelled'
        <4>1. ASSUME NEW x \in Senders, sender'[x].pc = "remove" PROVE ~entry'[sender'[x].to].ctx
          <5>1. CASE x = s
            BY <5>1, <3>5, <3>2
          <5>2. CASE x # s
            <6>1. sender[x].pc = "remove" /\ sender[x].to \in U!Entries /\ sender'[x] = sender[x]
              BY <1>1, <4>1, <5>2, <3>5 DEF UType, U!Idle
            <6> QED
              BY <1>1, <6>1, <3>2 DEF UCancelled
          <5> QED
            BY <5>1, <5>2
        <4> QED
          BY <1>1, <3>2, <4>1 DEF UCancelled
      <3>10. ClosesRightly
        BY <3>2 DEF ClosesRightly
      <3> QED
        BY <3>3, <3>6, <3>7, <3>10 DEF UInv
    <2> QED
      BY <2>2, <2>3
  <1>4. ASSUME NEW s \in Senders, U!WriteFailed(s) PROVE UInv' /\ ClosesRightly
    <2> DEFINE o == sender[s].to
    <2>1. o \in U!Entries /\ ~entry[o].ctx /\ sender[s].pc = "remove"
      BY <1>1, <1>4 DEF U!WriteFailed, UType, UCancelled, U!Idle
    <2>2. U!RemoveRay(entry[o].dest, entry) /\ sender' = [sender EXCEPT ![s] = U!Idle]
      BY <1>4 DEF U!WriteFailed
    <2>7. U!RemovedFor(o)
      <3>1. sender'[s].pc = "idle"
        BY <1>1, <2>2 DEF UType, U!Idle
      <3> QED
        BY <2>1, <3>1 DEF U!RemovedFor
    <2> HIDE DEF o
    <2>3. entry \in [U!Entries -> EntryRec]
      BY <1>1 DEF UType
    <2>4. /\ entry' \in [U!Entries -> EntryRec] /\ U!Entries' = U!Entries
          /\ \A e \in U!Entries : /\ entry'[e].ctx = entry[e].ctx
                                  /\ entry'[e].reader = entry[e].reader
                                  /\ entry'[e].timer = entry[e].timer
                                  /\ (entry[e].ctx /\ entry'[e].writer # entry[e].writer) =>
                                        o < e /\ entry[o].dest = entry[e].dest
          /\ DOMAIN conns' \subseteq DOMAIN conns
          /\ conns' \in [DOMAIN conns' -> U!Entries]
          /\ UNewest'
      BY <1>1, <2>1, <2>2, <2>3, RemoveRayStep DEF U!Entries
    <2>5. UType'
      BY <1>1, <2>2, <2>4 DEF UType, U!Entries, U!Idle
    <2>6. UCancelled'
      <3>1. ASSUME NEW x \in Senders, sender'[x].pc = "remove" PROVE ~entry'[sender'[x].to].ctx
        <4>1. x # s /\ sender'[x] = sender[x]
          BY <1>1, <2>2, <3>1 DEF UType, U!Idle
        <4>2. sender[x].to \in U!Entries
          BY <1>1, <3>1, <4>1 DEF UType, U!Idle
        <4> QED
          BY <1>1, <3>1, <4>1, <4>2, <2>4 DEF UCancelled
      <3> QED
        BY <1>1, <2>4, <3>1 DEF UCancelled
    <2>8. ClosesRightly
      BY <2>1, <2>4, <2>7 DEF ClosesRightly
    <2> QED
      BY <2>4, <2>5, <2>6, <2>8 DEF UInv
  <1>5. ASSUME NEW e \in U!Entries, sender' = sender,
               \/ /\ U!RemoveRay(entry[e].dest, [entry EXCEPT ![e].reader = "gone"])
                  /\ entry[e].reader = "remove"
               \/ /\ U!RemoveRay(entry[e].dest, [entry EXCEPT ![e].timer = "gone"])
                  /\ entry[e].timer = "remove"
        PROVE  UInv' /\ ClosesRightly
    <2>1. PICK ents \in [U!Entries -> EntryRec] :
            /\ U!RemoveRay(entry[e].dest, ents)
            /\ \A x \in U!Entries : /\ ents[x].dest = entry[x].dest
                                    /\ ents[x].ctx = entry[x].ctx
                                    /\ ents[x].writer = entry[x].writer
                                    /\ ents[x].reader = "remove" => entry[x].reader = "remove"
                                    /\ ents[x].timer = "remove" => entry[x].timer = "remove"
            /\ \/ entry[e].reader = "remove" /\ ents[e].reader = "gone"
               \/ entry[e].timer = "remove" /\ ents[e].timer = "gone"
      <3> DEFINE R == [entry[e] EXCEPT !.reader = "gone"]
                 T == [entry[e] EXCEPT !.timer = "gone"]
                 ok(r) == /\ r \in EntryRec
                          /\ r.dest = entry[e].dest /\ r.ctx = entry[e].ctx /\ r.writer = entry[e].writer
                          /\ r.reader = "remove" => entry[e].reader = "remove"
                          /\ r.timer = "remove" => entry[e].timer = "remove"
                 gone(r) == \/ entry[e].reader = "remove" /\ r.reader = "gone"
                            \/ entry[e].timer = "remove" /\ r.timer = "gone"
      <3>1. entry[e] \in EntryRec
        BY <1>1 DEF UType
      <3>2. ok(R) /\ ok(T) /\ (entry[e].reader = "remove" => gone(R))
            /\ (entry[e].timer = "remove" => gone(T))
        BY <3>1 DEF EntryRec
      <3>3. /\ [entry EXCEPT ![e].reader = "gone"] = [entry EXCEPT ![e] = R]
            /\ [entry EXCEPT ![e].timer = "gone"] = [entry EXCEPT ![e] = T]
        BY <1>1 DEF UType
      <3> HIDE DEF R, T
      <3>4. PICK r : ok(r) /\ gone(r) /\ U!RemoveRay(entry[e].dest, [entry EXCEPT ![e] = r])
        BY <1>5, <3>2, <3>3, Zenon
      <3> DEFINE ents == [entry EXCEPT ![e] = r]
      <3>5. /\ ents \in [U!Entries -> EntryRec]
            /\ \A x \in U!Entries : ents[x] = IF x = e THEN r ELSE entry[x]
        BY <1>1, <3>4 DEF UType
      <3>6. U!RemoveRay(entry[e].dest, ents)
        BY <3>4
      <3> HIDE DEF ents
      <3> QED
        BY <3>4, <3>5, <3>6
    <2>2. ~entry[e].ctx
      BY <1>1, <1>5 DEF UCancelled
    <2>3. /\ entry' \in [U!Entries -> EntryRec] /\ U!Entries' = U!Entries
          /\ \A x \in U!Entries : /\ entry'[x].ctx = entry[x].ctx
                                  /\ entry'[x].reader = ents[x].reader
                                  /\ entry'[x].timer = ents[x].timer
                                  /\ (entry[x].ctx /\ entry'[x].writer # entry[x].writer) =>
                                        e < x /\ entry[e].dest = entry[x].dest
          /\ DOMAIN conns' \subseteq DOMAIN conns
          /\ conns' \in [DOMAIN conns' -> U!Entries]
          /\ UNewest'
      BY <1>1, <2>1, <2>2, RemoveRayStep DEF U!Entries
    <2>4. UType'
      BY <1>1, <1>5, <2>3 DEF UType, U!Entries, U!Idle
    <2>5. UCancelled'
      <3>1. ASSUME NEW x \in Senders, sender[x].pc = "remove" PROVE ~entry'[sender[x].to].ctx
        <4>1. sender[x].to \in U!Entries
          BY <1>1, <3>1 DEF UType, U!Idle
        <4> QED
          BY <1>1, <3>1, <4>1, <2>3 DEF UCancelled
      <3>2. \A x \in U!Entries : entry'[x].reader = "remove" \/ entry'[x].timer = "remove" => ~entry'[x].ctx
        BY <1>1, <2>1, <2>3 DEF UCancelled
      <3> QED
        BY <1>5, <2>3, <3>1, <3>2 DEF UCancelled
    <2>6. U!RemovedFor(e)
      BY <2>1, <2>3 DEF U!RemovedFor
    <2>7. ClosesRightly
      BY <2>2, <2>3, <2>6 DEF ClosesRightly
    <2> QED
      BY <2>3, <2>4, <2>5, <2>7 DEF UInv
  <1>6. ASSUME NEW e \in U!Entries, U!HandleInput(e) PROVE UInv' /\ ClosesRightly
    <2>0. entry[e] \in EntryRec /\ (entry[e].reader = "remove" \/ entry[e].timer = "remove" => ~entry[e].ctx)
      BY <1>1 DEF UType, UCancelled
    <2>1. CASE U!Loop(e)
      <3> DEFINE r == [entry[e] EXCEPT !.reader = IF entry[e].ctx THEN "read" ELSE "cancel"]
      <3>1. entry' = [entry EXCEPT ![e] = r] /\ UNCHANGED <<conns, sender>>
        BY <1>1, <2>1 DEF U!Loop, UType
      <3>9. Quiet(e, r)
        BY <2>0, <3>1 DEF EntryRec, Quiet
      <3> HIDE DEF r
      <3> QED
        BY <3>1, <3>9, EntryStep
    <2>2. CASE U!Read(e)
      <3>1. CASE /\ entry[e].queue > 0
                 /\ entry' = [entry EXCEPT ![e].queue = @ - 1, ![e].token = TRUE, ![e].reader = "loop"]
        <4> DEFINE r == [entry[e] EXCEPT !.queue = @ - 1, !.token = TRUE, !.reader = "loop"]
        <4>1. entry' = [entry EXCEPT ![e] = r] /\ UNCHANGED <<conns, sender>>
          BY <1>1, <2>2, <3>1 DEF U!Read, UType
        <4>2. entry[e].queue > 0 /\ entry[e].queue - 1 \in Nat
          BY <2>0, <3>1 DEF EntryRec
        <4>9. Quiet(e, r)
          BY <2>0, <4>2 DEF EntryRec, Quiet
        <4> HIDE DEF r
        <4> QED
          BY <4>1, <4>9, EntryStep
      <3>2. CASE entry' = [entry EXCEPT ![e].reader = "cancel"]
        <4> DEFINE r == [entry[e] EXCEPT !.reader = "cancel"]
        <4>1. entry' = [entry EXCEPT ![e] = r] /\ UNCHANGED <<conns, sender>>
          BY <1>1, <2>2, <3>2 DEF U!Read, UType
        <4>9. Quiet(e, r)
          BY <2>0, <4>1 DEF EntryRec, Quiet
        <4> HIDE DEF r
        <4> QED
          BY <4>1, <4>9, EntryStep
      <3> QED
        BY <2>2, <3>1, <3>2 DEF U!Read
    <2>3. CASE U!CancelOnReturn(e)
      <3> DEFINE r == [entry[e] EXCEPT !.ctx = FALSE, !.reader = "remove"]
      <3>1. entry' = [entry EXCEPT ![e] = r] /\ UNCHANGED <<conns, sender>>
        BY <1>1, <2>3 DEF U!CancelOnReturn, UType
      <3>9. Quiet(e, r)
        BY <2>0, <3>1 DEF EntryRec, Quiet
      <3> HIDE DEF r
      <3> QED
        BY <3>1, <3>9, EntryStep
    <2>4. CASE U!ReaderGone(e)
      <3>1. /\ U!RemoveRay(entry[e].dest, [entry EXCEPT ![e].reader = "gone"])
            /\ entry[e].reader = "remove"
            /\ sender' = sender
        BY <2>4 DEF U!ReaderGone
      <3> QED
        BY <3>1, <1>5, Zenon
    <2> QED
      BY <1>6, <2>1, <2>2, <2>3, <2>4 DEF U!HandleInput
  <1>7. ASSUME NEW e \in U!Entries, U!Timer(e) PROVE UInv' /\ ClosesRightly
    <2>0. entry[e] \in EntryRec /\ (entry[e].reader = "remove" \/ entry[e].timer = "remove" => ~entry[e].ctx)
      BY <1>1 DEF UType, UCancelled
    <2>1. CASE U!Check(e) /\ entry[e].token
      <3> DEFINE r == [entry[e] EXCEPT !.token = FALSE]
      <3>1. entry' = [entry EXCEPT ![e] = r] /\ UNCHANGED <<conns, sender>>
        BY <1>1, <2>1 DEF U!Check, UType
      <3>9. Quiet(e, r)
        BY <2>0, <3>1 DEF EntryRec, Quiet
      <3> HIDE DEF r
      <3> QED
        BY <3>1, <3>9, EntryStep
    <2>2. CASE U!Check(e) /\ ~entry[e].token
      <3> DEFINE r == [entry[e] EXCEPT !.timer = "finish"]
      <3>1. entry' = [entry EXCEPT ![e] = r] /\ UNCHANGED <<conns, sender>>
        BY <1>1, <2>2 DEF U!Check, UType
      <3>9. Quiet(e, r)
        BY <2>0, <3>1 DEF EntryRec, Quiet
      <3> HIDE DEF r
      <3> QED
        BY <3>1, <3>9, EntryStep
    <2>4. CASE U!Finish(e)
      <3> DEFINE r == [entry[e] EXCEPT !.ctx = FALSE, !.timer = "remove"]
      <3>1. entry' = [entry EXCEPT ![e] = r] /\ UNCHANGED <<conns, sender>>
        BY <1>1, <2>4 DEF U!Finish, UType
      <3>9. Quiet(e, r)
        BY <2>0, <3>1 DEF EntryRec, Quiet
      <3> HIDE DEF r
      <3> QED
        BY <3>1, <3>9, EntryStep
    <2>3. CASE U!TimedOut(e)
      <3>1. /\ U!RemoveRay(entry[e].dest, [entry EXCEPT ![e].timer = "gone"])
            /\ entry[e].timer = "remove"
            /\ sender' = sender
        BY <2>3 DEF U!TimedOut
      <3> QED
        BY <3>1, <1>5, Zenon
    <2> QED
      BY <1>7, <2>1, <2>2, <2>3, <2>4 DEF U!Timer
  <1>8. ASSUME NEW e \in U!Entries, U!Reply(e) PROVE UInv' /\ ClosesRightly
    <2>0. entry[e] \in EntryRec /\ (entry[e].reader = "remove" \/ entry[e].timer = "remove" => ~entry[e].ctx)
      BY <1>1 DEF UType, UCancelled
    <2> DEFINE r == [entry[e] EXCEPT !.queue = @ + 1]
    <2>1. entry' = [entry EXCEPT ![e] = r] /\ UNCHANGED <<conns, sender>>
      BY <1>1, <1>8 DEF U!Reply, UType
    <2>9. Quiet(e, r)
      BY <2>0, <2>1 DEF EntryRec, Quiet
    <2> HIDE DEF r
    <2> QED
      BY <2>1, <2>9, EntryStep
  <1>9. ASSUME NEW e \in U!Entries, U!OutboundEnds(e) PROVE UInv' /\ ClosesRightly
    <2>0. entry[e] \in EntryRec /\ (entry[e].reader = "remove" \/ entry[e].timer = "remove" => ~entry[e].ctx)
      BY <1>1 DEF UType, UCancelled
    <2>1. PICK q \in {0, entry[e].queue} :
             entry' = [entry EXCEPT ![e].feed = "closed", ![e].queue = q,
                                    ![e].writer = IF @ = "open" THEN "errord" ELSE @]
      BY <1>9 DEF U!OutboundEnds
    <2> DEFINE r == [entry[e] EXCEPT !.feed = "closed", !.queue = q,
                                     !.writer = IF @ = "open" THEN "errord" ELSE @]
    <2>2. entry' = [entry EXCEPT ![e] = r] /\ UNCHANGED <<conns, sender>>
      BY <1>1, <1>9, <2>1 DEF U!OutboundEnds, UType
    <2>3. q \in Nat
      BY <2>0 DEF EntryRec
    <2>9. Quiet(e, r)
      BY <2>0, <2>3 DEF EntryRec, Quiet
    <2> HIDE DEF r
    <2> QED
      BY <2>2, <2>9, EntryStep
  <1>10. CASE UNCHANGED U!vars
    <2>1. UNCHANGED <<conns, entry, sender>>
      BY <1>10 DEF U!vars
    <2>2. ClosesRightly
      BY <2>1 DEF ClosesRightly
    <2> QED
      BY <1>1, <2>1, <2>2 DEF UInv, UType, UNewest, UCancelled, U!Entries, U!Idle
  <1> QED
    BY <1>2, <1>3, <1>4, <1>6, <1>7, <1>8, <1>9, <1>10 DEF U!Next

\* The UDP dispatcher removes links by destination (RemoveRay): a link whose own context
\* is alive is closed only in the step in which an entry made before it for the same
\* destination, cancelled by then, is removed by its reader, its timer or a failed write,
\* for any number of destinations, packets and concurrent calls of Dispatch.
THEOREM DispatcherCutOff == U!Spec => CutOffByPredecessor
  <1>1. U!Init => UInv
    <2> SUFFICES ASSUME U!Init PROVE UInv
      OBVIOUS
    <2>1. DOMAIN entry = {} /\ DOMAIN conns = {} /\ entry \in [{} -> EntryRec] /\ conns \in [{} -> {}]
      BY DEF U!Init, U!Empty
    <2>2. 1..0 = {} /\ 0 \in Nat
      OBVIOUS
    <2>3. \A s \in Senders : sender[s] = U!Idle /\ U!Idle.pc = "idle"
      BY DEF U!Init, U!Idle
    <2>4. sender \in [Senders -> {U!Idle} \cup [pc : {"write", "remove"}, to : U!Entries]]
      BY DEF U!Init
    <2> QED
      BY <2>1, <2>2, <2>3, <2>4 DEF UInv, UType, UNewest, UCancelled, U!Entries
  <1> QED
    BY <1>1, DispatcherStep, PTL DEF U!Spec, CutOffByPredecessor, U!CutOffByPredecessor, ClosesRightly

-----------------------------------------------------------------------------
(* UdpWorker. *)

WRec == [done : BOOLEAN, inactive : BOOLEAN, idle : BOOLEAN,
         pc : {"none", "made", "process", "test", "set", "remove", "gone"}]

WType ==
  /\ flow \in [W!Conns -> WRec]
  /\ \E k \in 0..MaxConns : W!Made = 1..k
  /\ active \in W!Made \cup {W!None}

\* The table holds the newest connection.
WNewest == active # W!None => \A c \in W!Made : c <= active

\* The proxy has returned, and the connection was closed, before its goroutine goes to the
\* table.
WDone == \A c \in W!Conns : flow[c].pc \in {"test", "set", "remove", "gone"} => flow[c].done

\* A connection in use is out of the table only if an older one has removed itself.
WLost ==
  \A c \in W!Conns :
     (flow[c].pc \in {"made", "process"} /\ ~flow[c].done /\ active # c) =>
        \E o \in W!Conns : o < c /\ flow[o].pc = "gone" /\ flow[o].done

\* checker.Start is called for a connection whose goroutine has yet to begin.
WStarting == rx \in {"start", "clean"} => \E c \in W!Conns : flow[c].pc = "made"

WInv == WType /\ WNewest /\ WDone /\ WLost

LEMMA CountConns ==
  ASSUME NEW k \in Nat
  PROVE  W!Cardinality(1..k) = k /\ L!Cardinality(1..k) = k
  <1>1. \A S : W!Cardinality(S) = Cardinality(S) /\ L!Cardinality(S) = Cardinality(S)
    BY DEF W!Cardinality, L!Cardinality, Cardinality
  <1> QED
    BY <1>1, FS_Interval

\* What a connection may become in one step, other than being made.
Later(c, r) ==
  /\ r \in WRec
  /\ r.pc = "none" <=> flow[c].pc = "none"
  /\ flow[c].done => r.done
  /\ flow[c].pc = "gone" => r.pc = "gone"
  /\ r.pc \in {"made", "process"} => flow[c].pc \in {"made", "process"}
  /\ r.pc \in {"test", "set", "remove", "gone"} => r.done

\* A step of one connection c, which may empty the table if c is done.
LEMMA ConnStep ==
  ASSUME MaxConns \in Nat, WInv, NEW c \in W!Conns, NEW r, Later(c, r),
         flow' = [flow EXCEPT ![c] = r],
         \/ active' = active
         \/ /\ active' = W!None /\ flow[c].pc # "none" /\ r.done
            /\ c = active \/ r.pc = "gone"
  PROVE  WInv'
  <1> USE DEF Later
  <1>1. /\ flow' \in [W!Conns -> WRec]
        /\ \A x \in W!Conns : flow'[x] = IF x = c THEN r ELSE flow[x]
    BY DEF WInv, WType
  <1>2. W!Made' = W!Made
    BY <1>1 DEF W!Made
  <1>3. WType'
    BY <1>1, <1>2 DEF WInv, WType
  <1>4. WNewest'
    BY <1>2 DEF WInv, WNewest, W!None
  <1>5. WDone'
    BY <1>1 DEF WInv, WDone
  <1>6. WLost'
    <2> SUFFICES ASSUME NEW x \in W!Conns, flow'[x].pc \in {"made", "process"}, ~flow'[x].done,
                        active' # x
                 PROVE  \E o \in W!Conns : o < x /\ flow'[o].pc = "gone" /\ flow'[o].done
      BY DEF WLost
    <2>1. flow[x].pc \in {"made", "process"} /\ ~flow[x].done
      BY <1>1
    <2>2. CASE active # x
      <3>1. PICK o \in W!Conns : o < x /\ flow[o].pc = "gone" /\ flow[o].done
        BY <2>1, <2>2 DEF WInv, WLost
      <3> QED
        BY <3>1, <1>1
    <2>3. CASE active = x
      <3>1. /\ active' = W!None /\ flow[c].pc # "none" /\ r.done
            /\ c = active \/ r.pc = "gone"
        BY <2>3
      <3>2. c # x /\ r.pc = "gone"
        BY <1>1, <2>3, <3>1
      <3>3. c \in W!Made /\ x \in Nat /\ c \in Nat /\ active # W!None
        BY <2>3, <3>1 DEF W!Made, W!Conns, W!None
      <3>4. c < x
        BY <2>3, <3>2, <3>3 DEF WInv, WNewest
      <3> QED
        BY <1>1, <3>1, <3>2, <3>4
    <2> QED
      BY <2>2, <2>3
  <1> QED
    BY <1>3, <1>4, <1>5, <1>6 DEF WInv

\* Any step of the UDP inbound keeps the invariant.
LEMMA WorkerStep == MaxConns \in Nat /\ WInv /\ [W!Next]_(W!vars) => WInv'
  <1> SUFFICES ASSUME MaxConns \in Nat, WInv, [W!Next]_(W!vars) PROVE WInv'
    OBVIOUS
  <1>1. WType /\ WNewest /\ WDone /\ WLost
    BY DEF WInv
  <1>2. ASSUME W!Callback PROVE WInv'
    <2>1. CASE /\ active # W!None
               /\ ~flow[active].done
               /\ flow' = [flow EXCEPT ![active].idle = FALSE]
               /\ UNCHANGED <<active, rx>>
      <3> DEFINE r == [flow[active] EXCEPT !.idle = FALSE]
      <3>1. active \in W!Conns /\ flow[active] \in WRec
        BY <1>1, <2>1 DEF WType, W!Made
      <3>2. flow' = [flow EXCEPT ![active] = r]
        BY <1>1, <2>1, <3>1 DEF WType
      <3>3. Later(active, r)
        BY <1>1, <3>1 DEF Later, WRec, WDone
      <3> HIDE DEF r
      <3> QED
        BY <2>1, <3>1, <3>2, <3>3, ConnStep
    <2>2. CASE /\ active # W!None => flow[active].done
               /\ W!Made # W!Conns
               /\ active' = W!Cardinality(W!Made) + 1
               /\ flow' = [flow EXCEPT ![active'] = W!NewConn("made")]
      <3>1. PICK k \in 0..MaxConns : W!Made = 1..k
        BY <1>1 DEF WType
      <3>2. active' = k + 1 /\ k # MaxConns /\ active' \in W!Conns /\ active' \notin W!Made
        BY <2>2, <3>1, CountConns DEF W!Conns
      <3> DEFINE n == active'
                 r == W!NewConn("made")
      <3>3. r \in WRec /\ r.pc = "made" /\ ~r.done
        BY DEF WRec, W!NewConn
      <3> HIDE DEF r, n
      <3>4. /\ flow' \in [W!Conns -> WRec]
            /\ \A x \in W!Conns : flow'[x] = IF x = n THEN r ELSE flow[x]
        BY <1>1, <2>2, <3>2, <3>3 DEF WType, n, r
      <3>5. W!Made' = 1..n /\ n \in 0..MaxConns
        <4>1. W!Made' = W!Made \cup {n}
          BY <3>2, <3>3, <3>4 DEF W!Made, n
        <4> QED
          BY <4>1, <3>1, <3>2 DEF n
      <3>6. WType'
        BY <3>2, <3>4, <3>5 DEF WType, n, W!Conns
      <3>7. WNewest'
        BY <3>5 DEF WNewest, n
      <3>8. WDone'
        BY <1>1, <3>3, <3>4 DEF WDone
      <3>9. WLost'
        <4> SUFFICES ASSUME NEW x \in W!Conns, flow'[x].pc \in {"made", "process"}, ~flow'[x].done,
                            active' # x
                     PROVE  \E o \in W!Conns : o < x /\ flow'[o].pc = "gone" /\ flow'[o].done
          BY DEF WLost
        <4>1. flow'[x] = flow[x] /\ active # x
          BY <2>2, <3>4 DEF n, W!None, W!Conns
        <4>2. PICK o \in W!Conns : o < x /\ flow[o].pc = "gone" /\ flow[o].done
          BY <1>1, <4>1 DEF WLost
        <4>3. o \in W!Made
          BY <4>2 DEF W!Made
        <4> QED
          BY <3>2, <3>4, <4>2, <4>3 DEF n
      <3> QED
        BY <3>6, <3>7, <3>8, <3>9 DEF WInv
    <2> QED
      BY <1>2, <2>1, <2>2 DEF W!Callback
  <1>3. ASSUME W!Go PROVE WInv'
    <2> DEFINE r(c) == IF flow[c].pc = "made" THEN [flow[c] EXCEPT !.pc = "process"] ELSE flow[c]
    <2>1. flow' = [c \in W!Conns |-> r(c)] /\ active' = active
      BY <1>3 DEF W!Go
    <2>2. ASSUME NEW c \in W!Conns
          PROVE  /\ r(c) \in WRec /\ r(c).done = flow[c].done
                 /\ r(c).pc = IF flow[c].pc = "made" THEN "process" ELSE flow[c].pc
      <3>1. flow[c] \in WRec
        BY <1>1 DEF WType
      <3> QED
        BY <3>1 DEF WRec
    <2> HIDE DEF r
    <2>3. /\ flow' \in [W!Conns -> WRec]
          /\ \A c \in W!Conns : /\ flow'[c].done = flow[c].done
                                /\ flow'[c].pc = IF flow[c].pc = "made" THEN "process" ELSE flow[c].pc
      BY <2>1, <2>2
    <2>4. W!Made' = W!Made
      BY <2>3 DEF W!Made
    <2>5. WType'
      BY <1>1, <2>1, <2>3, <2>4 DEF WType
    <2>6. WNewest' /\ WDone'
      BY <1>1, <2>1, <2>3, <2>4 DEF WNewest, WDone
    <2>7. WLost'
      <3> SUFFICES ASSUME NEW x \in W!Conns, flow'[x].pc \in {"made", "process"}, ~flow'[x].done,
                          active' # x
                   PROVE  \E o \in W!Conns : o < x /\ flow'[o].pc = "gone" /\ flow'[o].done
        BY DEF WLost
      <3>1. flow[x].pc \in {"made", "process"} /\ ~flow[x].done
        BY <2>3
      <3>2. PICK o \in W!Conns : o < x /\ flow[o].pc = "gone" /\ flow[o].done
        BY <1>1, <2>1, <3>1 DEF WLost
      <3> QED
        BY <3>2, <2>3
    <2> QED
      BY <2>5, <2>6, <2>7 DEF WInv
  <1>4. ASSUME NEW c \in W!Conns,
               W!Process(c) \/ W!Test(c) \/ W!SetInactive(c) \/ W!RemoveConn(c) \/ W!GoIdle(c)
        PROVE  WInv'
    <2>0. flow[c] \in WRec /\ (flow[c].pc \in {"test", "set", "remove", "gone"} => flow[c].done)
      BY <1>1 DEF WType, WDone
    <2>1. CASE W!Process(c)
      <3> DEFINE r == [flow[c] EXCEPT !.done = TRUE, !.pc = "test"]
      <3>1. flow' = [flow EXCEPT ![c] = r] /\ active' = active /\ flow[c].pc = "process"
        BY <1>1, <2>1 DEF W!Process, WType
      <3>2. Later(c, r)
        BY <2>0, <3>1 DEF Later, WRec
      <3> HIDE DEF r
      <3> QED
        BY <3>1, <3>2, ConnStep
    <2>2. CASE W!Test(c)
      <3> DEFINE r == [flow[c] EXCEPT !.pc = IF flow[c].inactive THEN "gone" ELSE "set"]
      <3>1. flow' = [flow EXCEPT ![c] = r] /\ active' = active /\ flow[c].pc = "test"
        BY <1>1, <2>2 DEF W!Test, WType
      <3>2. Later(c, r)
        BY <2>0, <3>1 DEF Later, WRec
      <3> HIDE DEF r
      <3> QED
        BY <3>1, <3>2, ConnStep
    <2>3. CASE W!SetInactive(c)
      <3> DEFINE r == [flow[c] EXCEPT !.inactive = TRUE, !.pc = "remove"]
      <3>1. flow' = [flow EXCEPT ![c] = r] /\ active' = active /\ flow[c].pc = "set"
        BY <1>1, <2>3 DEF W!SetInactive, WType
      <3>2. Later(c, r)
        BY <2>0, <3>1 DEF Later, WRec
      <3> HIDE DEF r
      <3> QED
        BY <3>1, <3>2, ConnStep
    <2>4. CASE W!RemoveConn(c)
      <3> DEFINE r == [flow[c] EXCEPT !.pc = "gone"]
      <3>1. flow' = [flow EXCEPT ![c] = r] /\ active' = W!None /\ flow[c].pc = "remove"
        BY <1>1, <2>4 DEF W!RemoveConn, WType
      <3>2. Later(c, r) /\ r.done /\ r.pc = "gone"
        BY <2>0, <3>1 DEF Later, WRec
      <3> HIDE DEF r
      <3> QED
        BY <3>1, <3>2, ConnStep
    <2>5. CASE W!GoIdle(c)
      <3> DEFINE r == [flow[c] EXCEPT !.idle = TRUE]
      <3>1. flow' = [flow EXCEPT ![c] = r] /\ active' = active
        BY <1>1, <2>5 DEF W!GoIdle, WType
      <3>2. Later(c, r)
        BY <2>0, <3>1 DEF Later, WRec
      <3> HIDE DEF r
      <3> QED
        BY <3>1, <3>2, ConnStep
    <2> QED
      BY <1>4, <2>1, <2>2, <2>3, <2>4, <2>5
  <1>5. ASSUME active # W!None, W!CloseIdle PROVE WInv'
    <2>1. CASE flow[active].idle
      <3> DEFINE r == [flow[active] EXCEPT !.inactive = TRUE, !.done = TRUE]
      <3>1. active \in W!Conns /\ flow[active] \in WRec /\ flow[active].pc # "none"
        BY <1>1, <1>5 DEF WType, W!Made
      <3>2. flow' = [flow EXCEPT ![active] = r] /\ active' \in {active, W!None}
        BY <1>1, <1>5, <2>1, <3>1 DEF W!CloseIdle, WType
      <3>3. Later(active, r) /\ r.done
        BY <1>1, <3>1 DEF Later, WRec, WDone
      <3> HIDE DEF r
      <3> QED
        BY <3>1, <3>2, <3>3, ConnStep
    <2>2. CASE ~flow[active].idle
      <3>1. UNCHANGED <<active, flow>>
        BY <1>5, <2>2 DEF W!CloseIdle
      <3> QED
        BY <1>1, <3>1 DEF WInv, WType, WNewest, WDone, WLost, W!Made
    <2> QED
      BY <2>1, <2>2
  <1>6. ASSUME UNCHANGED <<active, flow>> PROVE WInv'
    BY <1>1, <1>6 DEF WInv, WType, WNewest, WDone, WLost, W!Made
  <1>7. ASSUME W!FirstClean \/ W!Clean PROVE WInv'
    BY <1>5, <1>6, <1>7 DEF W!FirstClean, W!Clean
  <1>8. ASSUME W!StartChecker \/ W!CheckerOff \/ UNCHANGED W!vars PROVE WInv'
    BY <1>6, <1>8 DEF W!StartChecker, W!CheckerOff, W!vars
  <1> QED
    BY <1>2, <1>3, <1>4, <1>7, <1>8 DEF W!Next

\* A connection that was made waits until handlePackets has started the checker.
LEMMA WorkerStarting == WInv /\ WStarting /\ [W!Next]_(W!vars) => WStarting'
  <1> SUFFICES ASSUME WInv, WStarting, [W!Next]_(W!vars) PROVE WStarting'
    OBVIOUS
  <1>0. flow \in [W!Conns -> WRec] /\ active \in W!Made \cup {W!None}
    BY DEF WInv, WType
  <1>1. ASSUME W!Callback PROVE WStarting'
    <2>1. CASE UNCHANGED rx /\ flow' = [flow EXCEPT ![active].idle = FALSE] /\ active # W!None
      <3>1. \A c \in W!Conns : flow[c].pc = "made" => flow'[c].pc = "made"
        BY <1>0, <2>1 DEF WRec, W!Made
      <3> QED
        BY <2>1, <3>1 DEF WStarting
    <2>2. CASE flow' = [flow EXCEPT ![active'] = W!NewConn("made")] /\ active' \in W!Conns
      <3>1. flow'[active'].pc = "made"
        BY <1>0, <2>2 DEF W!NewConn
      <3> QED
        BY <2>2, <3>1 DEF WStarting
    <2>3. CASE ~(active' \in W!Conns) /\ active' = W!Cardinality(W!Made) + 1 /\ W!Made # W!Conns
      <3>1. PICK k \in 0..MaxConns : W!Made = 1..k
        BY DEF WInv, WType
      <3>2. MaxConns \in Nat
        BY FlowsAssumption
      <3> QED
        BY <2>3, <3>1, <3>2, CountConns DEF W!Conns
    <2> QED
      BY <1>1, <2>1, <2>2, <2>3 DEF W!Callback
  <1>2. ASSUME W!StartChecker PROVE WStarting'
    BY <1>2 DEF W!StartChecker, WStarting
  <1>3. ASSUME W!FirstClean \/ W!Go PROVE WStarting'
    BY <1>3 DEF W!FirstClean, W!Go, WStarting
  <1>4. ASSUME NEW c \in W!Conns,
               W!Process(c) \/ W!Test(c) \/ W!SetInactive(c) \/ W!RemoveConn(c) \/ W!GoIdle(c)
        PROVE  WStarting'
    <2>1. rx' = rx /\ \A x \in W!Conns : flow[x].pc = "made" => flow'[x].pc = "made"
      BY <1>0, <1>4 DEF W!Process, W!Test, W!SetInactive, W!RemoveConn, W!GoIdle, WRec
    <2> QED
      BY <2>1 DEF WStarting
  <1>5. ASSUME W!Clean PROVE WStarting'
    <2>1. rx' = rx /\ \A x \in W!Conns : flow[x].pc = "made" => flow'[x].pc = "made"
      BY <1>0, <1>5 DEF W!Clean, W!CloseIdle, WRec, W!Made
    <2> QED
      BY <2>1 DEF WStarting
  <1>6. ASSUME W!CheckerOff \/ UNCHANGED W!vars PROVE WStarting'
    BY <1>6 DEF W!CheckerOff, W!vars, WStarting
  <1> QED
    BY <1>1, <1>2, <1>3, <1>4, <1>5, <1>6 DEF W!Next

\* What a step may do to the connection in the table, and when it may panic.
WLoses ==
  /\ \A c \in W!Conns :
       (W!Live(c) /\ active = c /\ active' # c) =>
          \/ ~W!Live(c)'
          \/ \E o \in W!Conns : o < c /\ flow[o].pc = "remove" /\ flow'[o].pc = "gone"
  /\ rx' = "panicked" =>
       \E c \in W!Conns : /\ flow[c].pc = "made"
                           /\ \/ flow[c].done
                              \/ \E o \in W!Conns : o < c /\ flow[o].pc = "gone"

LEMMA WorkerLoses == WInv /\ WStarting /\ [W!Next]_(W!vars) => [WLoses]_(W!vars)
  <1> SUFFICES ASSUME WInv, WStarting, W!Next PROVE WLoses
    OBVIOUS
  <1>0. flow \in [W!Conns -> WRec] /\ active \in W!Made \cup {W!None}
    BY DEF WInv, WType
  <1>1. ASSUME NEW c \in W!Conns, W!Live(c), active = c, active' # c, W!Live(c)'
        PROVE  \E o \in W!Conns : o < c /\ flow[o].pc = "remove" /\ flow'[o].pc = "gone"
    <2>0. c # W!None /\ flow[c].pc \in {"made", "process"} /\ ~flow[c].done /\ ~flow'[c].done
      BY <1>1 DEF W!Live, W!Conns, W!None
    <2>1. ~W!CloseIdle
      BY <1>0, <1>1, <2>0 DEF W!CloseIdle, WRec
    <2>2. PICK o \in W!Conns : W!RemoveConn(o)
      BY <1>1, <2>0, <2>1
      DEF W!Next, W!Callback, W!StartChecker, W!FirstClean, W!Go, W!Process, W!Test,
          W!SetInactive, W!GoIdle, W!Clean, W!CheckerOff
    <2>3. flow[o].pc = "remove" /\ flow'[o].pc = "gone"
      BY <1>0, <2>2 DEF W!RemoveConn, WRec
    <2>4. o \in W!Made /\ o # c /\ o \in Nat /\ c \in Nat
      BY <2>0, <2>3 DEF W!Made, W!Conns
    <2>5. o <= c
      BY <1>1, <2>0, <2>4 DEF WInv, WNewest
    <2> QED
      BY <2>3, <2>4, <2>5
  <1>2. ASSUME rx' = "panicked"
        PROVE  \E c \in W!Conns : /\ flow[c].pc = "made"
                                   /\ \/ flow[c].done
                                      \/ \E o \in W!Conns : o < c /\ flow[o].pc = "gone"
    <2>1. rx = "clean" /\ active = W!None
      BY <1>2
      DEF W!Next, W!Callback, W!StartChecker, W!FirstClean, W!Go, W!Process, W!Test,
          W!SetInactive, W!RemoveConn, W!GoIdle, W!Clean, W!CheckerOff
    <2>2. PICK c \in W!Conns : flow[c].pc = "made"
      BY <2>1 DEF WStarting
    <2>3. active # c
      BY <2>1 DEF W!Conns, W!None
    <2>4. CASE ~flow[c].done
      <3>1. PICK o \in W!Conns : o < c /\ flow[o].pc = "gone"
        BY <2>2, <2>3, <2>4 DEF WInv, WLost
      <3> QED
        BY <2>2, <3>1
    <2> QED
      BY <2>2, <2>4
  <1> QED
    BY <1>1, <1>2 DEF WLoses

\* The UDP inbound removes by source (removeConn): a connection that the proxy serves is
\* taken out of the table only by the late removal of an older connection of its source,
\* and only after such a removal, or an idle time before it was started, does
\* checker.Start fail and common.Must panic; for any number of packets and connections.
THEOREM WorkerLost == W!Spec => LostByPredecessor
  <1> MaxConns \in Nat
    BY FlowsAssumption
  <1>1. W!Init => WInv /\ WStarting
    <2> SUFFICES ASSUME W!Init PROVE WInv /\ WStarting
      OBVIOUS
    <2>1. \A c \in W!Conns : flow[c] \in WRec /\ flow[c].pc = "none"
      BY DEF W!Init, W!NewConn, WRec
    <2>2. flow \in [W!Conns -> WRec] /\ active = W!None /\ rx = "receive"
      BY <2>1 DEF W!Init
    <2>3. W!Made = 1..0 /\ 0 \in 0..MaxConns
      BY <2>1 DEF W!Made
    <2> QED
      BY <2>1, <2>2, <2>3 DEF WInv, WStarting, WType, WNewest, WDone, WLost
  <1>2. WInv /\ WStarting /\ [W!Next]_(W!vars) => WInv' /\ WStarting'
    BY WorkerStep, WorkerStarting
  <1>3. W!LostByPredecessor <=> [][WLoses]_(W!vars)
    BY DEF W!LostByPredecessor, WLoses
  <1> QED
    BY <1>1, <1>2, <1>3, WorkerLoses, PTL DEF W!Spec, LostByPredecessor

-----------------------------------------------------------------------------
(* KcpListener. *)

LRec == [state : {"none", "live", "terminated"}, told : Nat, pending : Nat, released : BOOLEAN]

LType ==
  /\ kcp \in [L!Conns -> LRec]
  /\ \E k \in 0..MaxConns : L!Made = 1..k
  /\ session \in L!Made \cup {L!None}

LNewest == session # L!None => \A c \in L!Made : c <= session

\* A connection that lives was not told to terminate; a Terminate that is pending was told,
\* unless it is that of Close.
LTold ==
  \A c \in L!Conns :
     /\ kcp[c].state \in {"none", "live"} => kcp[c].told = 0
     /\ closer # "done" => kcp[c].pending <= kcp[c].told
     /\ kcp[c].state = "none" => kcp[c].pending = 0

\* A connection that is not in the table, alive or not, has been removed by its own
\* Terminate or is the victim of an older one.
LRemoved ==
  \A c \in L!Made :
     session # c => \/ closer = "done"
                    \/ \E o \in L!Conns : o < c /\ kcp[o].told > 1
                    \/ kcp[c].pending < kcp[c].told

LInv == LType /\ LNewest /\ LTold /\ LRemoved

\* What one connection may become, and the table and closer with it, in a step that does
\* not make one: the table is kept, or emptied by a Terminate of c.
Ending(c, r) ==
  /\ r \in LRec
  /\ kcp[c].state # "none" /\ r.state # "none"
  /\ r.state = "live" => kcp[c].state = "live" /\ r.told = 0
  /\ r.told >= kcp[c].told
  /\ \/ closer' = "done" /\ session' = session
     \/ /\ closer' = closer
        /\ closer # "done" => r.pending <= r.told
        /\ kcp[c].pending < kcp[c].told => r.pending < r.told
        /\ \/ session' = session
           \/ /\ session' = L!None /\ kcp[c].pending > 0 /\ kcp[c].told = r.told
              /\ closer # "done" => r.pending < r.told

\* A step of one connection keeps the invariant.
LEMMA SessionStep ==
  ASSUME MaxConns \in Nat, LInv, NEW c \in L!Conns, NEW r, Ending(c, r),
         kcp' = [kcp EXCEPT ![c] = r]
  PROVE  LInv'
  <1> USE DEF Ending
  <1>1. /\ kcp' \in [L!Conns -> LRec]
        /\ \A x \in L!Conns : kcp'[x] = IF x = c THEN r ELSE kcp[x]
    BY DEF LInv, LType
  <1>2. L!Made' = L!Made /\ c \in L!Made
    BY <1>1 DEF L!Made
  <1>3. LType'
    BY <1>1, <1>2 DEF LInv, LType
  <1>4. LNewest'
    BY <1>2 DEF LInv, LNewest, L!None
  <1>5. LTold'
    <2> SUFFICES ASSUME NEW x \in L!Conns
                 PROVE  /\ kcp'[x].state \in {"none", "live"} => kcp'[x].told = 0
                        /\ closer' # "done" => kcp'[x].pending <= kcp'[x].told
                        /\ kcp'[x].state = "none" => kcp'[x].pending = 0
      BY DEF LTold
    <2> QED
      BY <1>1 DEF LInv, LTold, LRec
  <1>6. LRemoved'
    <2> SUFFICES ASSUME NEW x \in L!Made, session' # x, closer' # "done"
                 PROVE  \/ \E o \in L!Conns : o < x /\ kcp'[o].told > 1
                        \/ kcp'[x].pending < kcp'[x].told
      BY <1>2 DEF LRemoved
    <2>0. /\ x \in L!Conns /\ x \in Nat /\ c \in Nat /\ closer # "done"
          /\ \A y \in L!Conns : kcp[y] \in LRec
          /\ \A y \in L!Conns : kcp[y].told \in Nat /\ kcp[y].pending \in Nat
      BY DEF L!Made, L!Conns, LInv, LType, LRec
    <2>1. CASE session # x
      <3>1. CASE \E o \in L!Conns : o < x /\ kcp[o].told > 1
        <4>1. PICK o \in L!Conns : o < x /\ kcp[o].told > 1
          BY <3>1
        <4>2. kcp'[o].told > 1
          BY <4>1, <1>1, <2>0 DEF LRec
        <4> QED
          BY <4>1, <4>2
      <3>2. CASE kcp[x].pending < kcp[x].told
        BY <3>2, <1>1, <2>0
      <3> QED
        BY <2>0, <2>1, <3>1, <3>2 DEF LInv, LRemoved
    <2>2. CASE session = x
      <3>1. /\ session' = L!None /\ kcp[c].pending > 0 /\ kcp[c].told = r.told
            /\ r.pending < r.told
        BY <2>0, <2>2
      <3>2. CASE c = x
        BY <3>1, <3>2, <1>1, <2>0
      <3>3. CASE c # x
        <4>1. c < x /\ session # c
          BY <2>0, <2>2, <3>3, <1>2 DEF LInv, LNewest, L!None, L!Conns
        <4>2. CASE \E o \in L!Conns : o < c /\ kcp[o].told > 1
          <5>1. PICK o \in L!Conns : o < c /\ kcp[o].told > 1
            BY <4>2
          <5>2. o # c /\ o < x
            BY <5>1, <4>1, <2>0 DEF L!Conns
          <5> QED
            BY <5>1, <5>2, <1>1
        <4>3. CASE kcp[c].pending < kcp[c].told
          <5>1. kcp[c].told > 1
            BY <4>3, <3>1, <2>0
          <5> QED
            BY <5>1, <4>1, <3>1, <1>1
        <4> QED
          BY <2>0, <1>2, <4>1, <4>2, <4>3 DEF LInv, LRemoved
      <3> QED
        BY <3>2, <3>3
    <2> QED
      BY <2>1, <2>2
  <1> QED
    BY <1>3, <1>4, <1>5, <1>6 DEF LInv

\* Any step of the listener keeps the invariant.
LEMMA ListenerStep == MaxConns \in Nat /\ LInv /\ [L!Next]_(L!vars) => LInv'
  <1> SUFFICES ASSUME MaxConns \in Nat, LInv, [L!Next]_(L!vars) PROVE LInv'
    OBVIOUS
  <1>1. LType /\ LNewest /\ LTold /\ LRemoved
    BY DEF LInv
  <1>2. ASSUME L!OnReceive PROVE LInv'
    <2>1. PICK k \in 0..MaxConns : L!Made = 1..k
      BY <1>1 DEF LType
    <2>2. session' = k + 1 /\ k # MaxConns /\ session' \in L!Conns /\ session' \notin L!Made
      BY <1>2, <2>1, CountConns DEF L!OnReceive, L!Conns
    <2> DEFINE n == session'
               r == L!NewConn("live")
    <2>3. r \in LRec /\ r.state = "live" /\ r.told = 0 /\ r.pending = 0
      BY DEF LRec, L!NewConn
    <2> HIDE DEF r, n
    <2>4. /\ kcp' \in [L!Conns -> LRec]
          /\ \A x \in L!Conns : kcp'[x] = IF x = n THEN r ELSE kcp[x]
          /\ session = L!None /\ closer' = closer
      BY <1>1, <1>2, <2>2, <2>3 DEF L!OnReceive, LType, n, r
    <2>5. L!Made' = 1..n /\ n \in 0..MaxConns
      <3>1. L!Made' = L!Made \cup {n}
        BY <2>2, <2>3, <2>4 DEF L!Made, n
      <3> QED
        BY <3>1, <2>1, <2>2 DEF n
    <2>6. LType'
      BY <2>2, <2>4, <2>5 DEF LType, n, L!Conns
    <2>7. LNewest'
      BY <2>5 DEF LNewest, n
    <2>8. LTold'
      BY <1>1, <2>3, <2>4 DEF LTold
    <2>9. LRemoved'
      <3> SUFFICES ASSUME NEW x \in L!Made', session' # x, closer # "done"
                   PROVE  \/ \E o \in L!Conns : o < x /\ kcp'[o].told > 1
                          \/ kcp'[x].pending < kcp'[x].told
        BY <2>4 DEF LRemoved
      <3>1. x \in L!Made /\ x \in L!Conns /\ kcp'[x] = kcp[x] /\ session # x
        BY <2>1, <2>2, <2>4, <2>5 DEF n, L!Conns, L!None
      <3>2. CASE \E o \in L!Conns : o < x /\ kcp[o].told > 1
        <4>1. PICK o \in L!Conns : o < x /\ kcp[o].told > 1
          BY <3>2
        <4>2. o # n
          BY <4>1, <3>1, <2>1, <2>2 DEF n, L!Conns
        <4> QED
          BY <4>1, <4>2, <2>4
      <3> QED
        BY <1>1, <3>1, <3>2 DEF LRemoved
    <2> QED
      BY <2>6, <2>7, <2>8, <2>9 DEF LInv
  <1>3. ASSUME NEW c \in L!Conns, L!SetTerminated(c) PROVE LInv'
    <2> DEFINE r == [kcp[c] EXCEPT !.state = "terminated", !.told = @ + 1, !.pending = @ + 1]
    <2>1. /\ kcp' = [kcp EXCEPT ![c] = r] /\ UNCHANGED <<session, closer>>
          /\ kcp[c].state # "none" /\ kcp[c] \in LRec
          /\ closer # "done" => kcp[c].pending <= kcp[c].told
      BY <1>1, <1>3 DEF L!SetTerminated, LType, LTold
    <2>2. /\ kcp[c].told \in Nat /\ kcp[c].pending \in Nat
          /\ kcp[c].told + 1 \in Nat /\ kcp[c].pending + 1 \in Nat
      BY <2>1 DEF LRec
    <2>3. /\ r \in LRec /\ r.state = "terminated"
          /\ r.told = kcp[c].told + 1 /\ r.pending = kcp[c].pending + 1
      BY <2>1, <2>2 DEF LRec
    <2> HIDE DEF r
    <2>4. Ending(c, r)
      BY <2>1, <2>2, <2>3 DEF Ending
    <2> QED
      BY <2>1, <2>4, SessionStep
  <1>4. ASSUME NEW c \in L!Conns, L!Terminate(c) PROVE LInv'
    <2> DEFINE r == [kcp[c] EXCEPT !.pending = @ - 1, !.released = TRUE]
    <2>1. /\ kcp' = [kcp EXCEPT ![c] = r] /\ session' = L!None /\ closer' = closer
          /\ kcp[c] \in LRec /\ kcp[c].pending > 0
          /\ closer # "done" => kcp[c].pending <= kcp[c].told
          /\ kcp[c].state = "live" => kcp[c].told = 0
          /\ kcp[c].state = "none" => kcp[c].pending = 0
      BY <1>1, <1>4 DEF L!Terminate, LType, LTold
    <2>2. kcp[c].told \in Nat /\ kcp[c].pending \in Nat /\ kcp[c].pending - 1 \in Nat
      BY <2>1 DEF LRec
    <2>3. /\ r \in LRec /\ r.state = kcp[c].state
          /\ r.told = kcp[c].told /\ r.pending = kcp[c].pending - 1
      BY <2>1, <2>2 DEF LRec
    <2> HIDE DEF r
    <2>4. Ending(c, r)
      BY <2>1, <2>2, <2>3 DEF Ending
    <2> QED
      BY <2>1, <2>4, SessionStep
  <1>5. ASSUME L!CloseSessions PROVE LInv'
    <2>1. CASE session = L!None
      <3>1. UNCHANGED <<session, kcp>> /\ closer' = "done"
        BY <1>5, <2>1 DEF L!CloseSessions
      <3> QED
        BY <1>1, <3>1 DEF LInv, LType, LNewest, LTold, LRemoved, L!Made
    <2>2. CASE session # L!None
      <3> DEFINE c == session
                 r == [kcp[c] EXCEPT !.pending = @ + 1]
      <3>1. c \in L!Conns /\ kcp[c] \in LRec /\ kcp[c].state # "none"
        BY <1>1, <2>2 DEF LType, L!Made
      <3>2. kcp' = [kcp EXCEPT ![c] = r] /\ session' = session /\ closer' = "done"
        BY <1>1, <1>5, <2>2, <3>1 DEF L!CloseSessions, LType
      <3>3. /\ r \in LRec /\ r.state = kcp[c].state /\ r.told = kcp[c].told /\ kcp[c].told \in Nat
            /\ kcp[c].state = "live" => kcp[c].told = 0
        BY <1>1, <3>1 DEF LRec, LTold
      <3> HIDE DEF r
      <3>4. Ending(c, r)
        BY <3>1, <3>2, <3>3 DEF Ending
      <3> QED
        BY <3>1, <3>2, <3>4, SessionStep
    <2> QED
      BY <2>1, <2>2
  <1>6. ASSUME L!CloseHub \/ UNCHANGED L!vars PROVE LInv'
    <2>1. UNCHANGED <<session, kcp>> /\ (closer' = "done" <=> closer = "done")
      BY <1>6 DEF L!CloseHub, L!vars
    <2> QED
      BY <1>1, <2>1 DEF LInv, LType, LNewest, LTold, LRemoved, L!Made
  <1> QED
    BY <1>2, <1>3, <1>4, <1>5, <1>6 DEF L!Next

\* The KCP listener removes by address and conversation (Writer.Close): a session that
\* lives is out of the table only if an older session with its key was terminated more than
\* once, or the listener was closed, for any number of sessions.
THEOREM ListenerLost == L!Spec => []SessionLostByPredecessor
  <1> MaxConns \in Nat
    BY FlowsAssumption
  <1>1. L!Init => LInv
    <2> SUFFICES ASSUME L!Init PROVE LInv
      OBVIOUS
    <2>1. \A c \in L!Conns : /\ kcp[c] \in LRec /\ kcp[c].state = "none"
                             /\ kcp[c].told = 0 /\ kcp[c].pending = 0
      BY DEF L!Init, L!NewConn, LRec
    <2>2. kcp \in [L!Conns -> LRec] /\ session = L!None
      BY <2>1 DEF L!Init
    <2>3. L!Made = 1..0 /\ 0 \in 0..MaxConns /\ L!Made = {}
      BY <2>1 DEF L!Made
    <2> QED
      BY <2>1, <2>2, <2>3 DEF LInv, LType, LNewest, LTold, LRemoved
  <1>2. LInv /\ [L!Next]_(L!vars) => LInv'
    BY ListenerStep
  <1>3. LInv => L!SessionLostByPredecessor
    <2> SUFFICES ASSUME LInv, NEW c \in L!Conns, kcp[c].state = "live", session # c, closer # "done"
                 PROVE  \E o \in L!Conns : o < c /\ kcp[o].told > 1
      BY DEF L!SessionLostByPredecessor
    <2>1. c \in L!Made /\ kcp[c].told = 0 /\ kcp[c].pending \in Nat
      BY DEF LInv, LType, LTold, L!Made, LRec
    <2> QED
      BY <2>1 DEF LInv, LRemoved
  <1> QED
    BY <1>1, <1>2, <1>3, PTL DEF L!Spec, SessionLostByPredecessor

-----------------------------------------------------------------------------
(* MuxPool. *)

WorkerRec == [size : Nat, count : Nat, open : BOOLEAN, done : BOOLEAN]
CallRec == [pc : {"idle", "pick", "start", "starting", "check", "allocate"}, w : Nat, tries : Nat]

Free(w) == ~P!IsFull(w)
LastFree == muxes # <<>> /\ Free(muxes[Len(muxes)])

PType ==
  /\ worker \in Seq(WorkerRec)
  /\ muxes \in Seq(1..Len(worker))
  /\ call \in [Callers -> CallRec]
  /\ running \in BOOLEAN /\ panicked \in BOOLEAN
  /\ round \in [P!Goroutines -> {"none", "armed", "check", "execute", "rearm", "fail"}]
  /\ wasted \in [Callers -> Nat]

\* A call that has picked has a worker; it is in the task's first round only while it
\* starts the task.
PCalls ==
  \A c \in Callers :
     /\ call[c].pc \notin {"idle", "pick"} => call[c].w \in 1..Len(worker)
     /\ round[c] # "none" => call[c].pc = "starting"
     /\ round[c] \notin {"armed", "fail"}

\* There is one round at a time, and only while the task runs.
PRound ==
  /\ \A g, h \in P!Goroutines : round[g] # "none" /\ round[h] # "none" => g = h
  /\ \A g \in P!Goroutines : round[g] # "none" => running

\* Whoever made a worker and has not yet started the task finds the pool empty only if a
\* round has emptied it, and then the task keeps running until the start has come and gone.
PFilled ==
  /\ ~panicked
  /\ \A c \in Callers :
     /\ round[c] \in {"check", "execute"} => muxes # <<>>
     /\ call[c].pc = "start" /\ muxes = <<>> =>
           (\E g \in P!Goroutines : round[g] = "rearm") \/ (round[PoolTimer] = "armed" /\ c \in awaited)

\* After an attempt in vain, a call has a worker that is free or such a worker is at the end
\* of the pool, where the next pick takes it from; after two it has one.
Waste(c) ==
  /\ wasted[c] <= 2
  /\ wasted[c] > 0 /\ call[c].pc \in {"start", "starting", "allocate"} => Free(call[c].w)
  /\ wasted[c] = 1 /\ call[c].pc = "check" => Free(call[c].w) \/ LastFree
  /\ wasted[c] = 2 /\ call[c].pc = "check" => Free(call[c].w)
  /\ wasted[c] = 2 /\ call[c].pc = "pick" => LastFree

PWaste == \A c \in Callers : Waste(c)

PStart == PType /\ PCalls /\ PRound /\ PFilled

\* findAvailable returns 0, or the place of a worker that is not full.
LEMMA FindAvailableFinds ==
  ASSUME PType
  PROVE  IF P!FindAvailable = 0 THEN \A i \in 1..Len(muxes) : ~Free(muxes[i])
         ELSE P!FindAvailable \in 1..Len(muxes) /\ Free(muxes[P!FindAvailable])
  <1> DEFINE I == {i \in 1..Len(muxes) : ~P!IsFull(muxes[i])}
  <1>1. P!FindAvailable = IF I # {} THEN P!Min(I) ELSE 0
    BY Zenon DEF P!FindAvailable, P!SelectInSeq
  <1>2. ASSUME I # {} PROVE \E x \in I : \A y \in I : x =< y
    <2>1. I \in SUBSET Nat /\ IsFiniteSet(1..Len(muxes))
      BY FS_Interval DEF PType
    <2>2. IsFiniteSet(I)
      BY <2>1, FS_Subset
    <2>3. Cardinality(I) \in Nat /\ Cardinality(I) # 0
      BY <1>2, <2>2, FS_CardinalityType, FS_EmptySet
    <2>4. 0 \in 0..(Cardinality(I) - 1)
      BY <2>3
    <2>5. PICK x \in I : Cardinality(Below(I, x)) = 0
      <3> HIDE DEF I
      <3> QED
        BY <2>1, <2>2, <2>4, RanksOfNumbers
    <2>6. Below(I, x) \in SUBSET I
      BY DEF Below
    <2>7. IsFiniteSet(Below(I, x))
      BY <2>2, <2>6, FS_Subset
    <2>8. Below(I, x) = {}
      BY <2>5, <2>7, FS_EmptySet
    <2> QED
      BY <2>1, <2>8 DEF Below
  <1>3. I # {} => P!Min(I) \in I
    BY <1>2 DEF P!Min
  <1>4. CASE I = {}
    BY <1>1, <1>4 DEF Free
  <1>5. CASE I # {}
    <2>1. P!FindAvailable \in I
      BY <1>1, <1>3, <1>5
    <2>2. P!FindAvailable # 0
      BY <2>1
    <2> QED
      BY <2>1, <2>2 DEF Free
  <1> QED
    BY <1>4, <1>5

\* Cleaning the pool keeps a worker at its end that is not closed there.
LEMMA CleanupKeepsLast ==
  ASSUME PType
  PROVE  /\ P!Cleanup(muxes) \in Seq(1..Len(worker))
         /\ muxes # <<>> /\ ~P!Closed(muxes[Len(muxes)]) =>
               /\ P!Cleanup(muxes) # <<>>
               /\ P!Cleanup(muxes)[Len(P!Cleanup(muxes))] = muxes[Len(muxes)]
  <1> DEFINE A == {i \in DOMAIN muxes : ~P!Closed(muxes[i])}
             m == Cardinality(A)
             Nth(k) == CHOOSE i \in A : Cardinality(Below(A, i)) = k - 1
             C == [k \in 1..m |-> muxes[Nth(k)]]
  <1>2. P!Cleanup(muxes) = C
    BY Zenon DEF P!Cleanup, P!Cardinality, Cardinality, Below
  <1>3. A \in SUBSET Nat /\ A \in SUBSET (1..Len(muxes)) /\ IsFiniteSet(1..Len(muxes))
    BY FS_Interval DEF PType
  <1>4. IsFiniteSet(A) /\ m \in Nat
    BY <1>3, FS_Subset, FS_CardinalityType
  <1>5. \A k \in 1..m : Nth(k) \in A /\ Cardinality(Below(A, Nth(k))) = k - 1
    <2> SUFFICES ASSUME NEW k \in 1..m PROVE Nth(k) \in A /\ Cardinality(Below(A, Nth(k))) = k - 1
      OBVIOUS
    <2>1. k - 1 \in 0..(m - 1)
      BY <1>4
    <2>2. \E i \in A : Cardinality(Below(A, i)) = k - 1
      BY <1>3, <1>4, <2>1, RanksOfNumbers
    <2> QED
      BY <2>2
  <1> HIDE DEF m, Nth
  <1>6. C \in Seq(1..Len(worker)) /\ Len(C) = m
    <2>1. C \in [1..m -> 1..Len(worker)]
      <3>1. \A i \in A : muxes[i] \in 1..Len(worker)
        BY <1>3 DEF PType
      <3> HIDE DEF A
      <3> QED
        BY <3>1, <1>5
    <2> QED
      BY <1>4, <2>1
  <1>7. ASSUME muxes # <<>>, ~P!Closed(muxes[Len(muxes)])
        PROVE  C # <<>> /\ C[Len(C)] = muxes[Len(muxes)]
    <2> DEFINE n == Len(muxes)
    <2>1. n \in A
      BY <1>7 DEF PType
    <2>2. m # 0
      BY <2>1, <1>4, FS_EmptySet DEF m
    <2>3. m \in 1..m
      BY <1>4, <2>2
    <2>4. Nth(m) \in A /\ Cardinality(Below(A, Nth(m))) = m - 1
      BY <1>5, <2>3
    <2>5. Nth(m) = n
      <3> SUFFICES ASSUME Nth(m) # n PROVE FALSE
        OBVIOUS
      <3>1. Nth(m) < n
        BY <1>3, <2>1, <2>4
      <3>2. /\ Cardinality(Below(A, Nth(m))) < Cardinality(Below(A, n))
            /\ Cardinality(Below(A, n)) \in 0..(m - 1)
        BY <1>3, <1>4, <2>1, <2>4, <3>1, RanksOfNumbers DEF m
      <3> QED
        BY <1>4, <2>4, <3>2
    <2>6. C[m] = muxes[n]
      BY <2>3, <2>5
    <2> QED
      BY <1>6, <2>2, <2>6
  <1> QED
    BY <1>2, <1>6, <1>7

PInv == PStart /\ PWaste

\* A step of a call that touches neither the task nor the workers.
LEMMA CallStepKeepsStart ==
  ASSUME PStart, NEW c \in Callers, call[c].pc \in {"idle", "pick", "check", "allocate"},
         NEW r \in CallRec, r.pc # "start" , r.pc # "starting",
         r.pc \notin {"idle", "pick"} => r.w \in 1..Len(worker'),
         call' = [call EXCEPT ![c] = r],
         worker' \in Seq(WorkerRec), Len(worker') = Len(worker),
         muxes' \in Seq(1..Len(worker)), muxes' = <<>> <=> muxes = <<>>,
         wasted' \in [Callers -> Nat],
         UNCHANGED <<running, round, awaited, panicked>>
  PROVE  PStart'
  <1>1. PType'
    BY DEF PStart, PType, CallRec, P!Goroutines
  <1>2. PCalls'
    BY DEF PStart, PType, PCalls, CallRec
  <1>3. PRound'
    BY DEF PStart, PRound, P!Goroutines
  <1>4. PFilled'
    BY DEF PStart, PType, PFilled, P!Goroutines, CallRec
  <1> QED
    BY <1>1, <1>2, <1>3, <1>4 DEF PStart

\* A step of a worker.
LEMMA WorkerStepKeepsStart ==
  ASSUME PStart, NEW w \in 1..Len(worker), NEW r \in WorkerRec,
         worker' = [worker EXCEPT ![w] = r],
         wasted' \in [Callers -> Nat],
         UNCHANGED <<muxes, call, running, round, awaited, panicked>>
  PROVE  PStart' /\ Len(worker') = Len(worker)
  <1>1. worker' \in Seq(WorkerRec) /\ Len(worker') = Len(worker)
    BY DEF PStart, PType
  <1>2. PType'
    BY <1>1 DEF PStart, PType, P!Goroutines
  <1>3. PCalls' /\ PRound'
    BY <1>1 DEF PStart, PCalls, PRound, P!Goroutines
  <1>4. PFilled'
    BY DEF PStart, PFilled, P!Goroutines
  <1> QED
    BY <1>1, <1>2, <1>3, <1>4 DEF PStart

LEMMA PoolCallStarts ==
  ASSUME PoolOK, PStart, NEW c \in Callers, P!Dispatch(c) \/ P!CallStep(c)
  PROVE  PStart'
  <1> USE DEF PStart
  <1>c. call[c] \in CallRec /\ call[c].w \in Nat /\ call[c].tries \in Nat
    BY DEF PType, CallRec
  <1>r. ASSUME P!Retry(c)
        PROVE  \E r \in CallRec : /\ r.pc \in {"idle", "pick"} /\ call' = [call EXCEPT ![c] = r]
                                  /\ wasted' \in [Callers -> Nat]
    <2>1. wasted' \in [Callers -> Nat]
      BY <1>r DEF P!Retry, PType
    <2>2. P!Idle \in CallRec /\ P!Idle.pc = "idle"
      BY DEF P!Idle, CallRec
    <2>3. [pc |-> "pick", w |-> 0, tries |-> call[c].tries + 1] \in CallRec
      BY <1>c DEF CallRec
    <2> QED
      BY <1>r, <2>1, <2>2, <2>3 DEF P!Retry
  <1>1. CASE P!Dispatch(c)
    <2> DEFINE r == [call[c] EXCEPT !.pc = "pick"]
    <2>1. r \in CallRec /\ r.pc = "pick" /\ call' = [call EXCEPT ![c] = r]
      BY <1>1, <1>c DEF P!Dispatch, PType, CallRec
    <2>2. wasted' \in [Callers -> Nat]
      BY <1>1 DEF P!Dispatch, PType
    <2> HIDE DEF r
    <2> QED
      BY <1>1, <2>1, <2>2, CallStepKeepsStart DEF P!Dispatch, PType
  <1>2. CASE P!PickNew(c)
    <2> USE <1>2 DEF P!PickNew
    <2>1. /\ worker' \in Seq(WorkerRec) /\ Len(worker') = Len(worker) + 1 /\ Len(worker) \in Nat
          /\ muxes' \in Seq(1..Len(worker')) /\ muxes' # <<>>
      <3>1. P!Cleanup(muxes) \in Seq(1..Len(worker))
        BY CleanupKeepsLast
      <3>2. worker' \in Seq(WorkerRec) /\ Len(worker') = Len(worker) + 1 /\ Len(worker) \in Nat
        BY DEF PType, WorkerRec
      <3> QED
        BY <3>1, <3>2
    <2>2. call' \in [Callers -> CallRec] /\ call'[c].pc = "start" /\ call'[c].w = Len(worker')
      <3> DEFINE r == [call[c] EXCEPT !.pc = "start", !.w = Len(worker) + 1]
      <3>1. r \in CallRec /\ r.pc = "start" /\ r.w = Len(worker')
        <4>1. Len(worker) + 1 \in Nat /\ Len(worker') = Len(worker) + 1
          BY <2>1
        <4> QED
          BY <1>c, <4>1 DEF CallRec
      <3>2. call' = [call EXCEPT ![c] = r]
        BY <1>c DEF PType, CallRec
      <3> HIDE DEF r
      <3> QED
        BY <3>1, <3>2 DEF PType
    <2>3. \A d \in Callers \ {c} : call'[d] = call[d]
      BY DEF PType
    <2>4. PType'
      BY <2>1, <2>2 DEF PType, P!Goroutines
    <2>5. round[c] = "none"
      BY DEF PCalls
    <2>6. PCalls'
      BY <2>1, <2>2, <2>3, <2>5 DEF PCalls
    <2>7. PRound' /\ PFilled'
      BY <2>1 DEF PRound, PFilled, P!Goroutines
    <2> QED
      BY <2>4, <2>6, <2>7
  <1>3. CASE P!PickAvailable(c)
    <2> DEFINE i == P!FindAvailable
               r == [call[c] EXCEPT !.pc = "check", !.w = muxes[Len(muxes)]]
    <2>1. /\ i \in 1..Len(muxes) /\ muxes # <<>>
          /\ muxes[Len(muxes)] \in 1..Len(worker) /\ Len(muxes) \in 1..Len(muxes)
      BY <1>3, FindAvailableFinds DEF P!PickAvailable, PType
    <2>2. muxes' = [muxes EXCEPT ![Len(muxes)] = muxes[i], ![i] = muxes[Len(muxes)]]
      BY <1>3 DEF P!PickAvailable
    <2> HIDE DEF i
    <2>3. muxes' \in Seq(1..Len(worker)) /\ muxes' # <<>> /\ muxes'[i] = muxes[Len(muxes)]
      BY <2>1, <2>2 DEF PType
    <2>4. call' = [call EXCEPT ![c] = r]
      BY <1>3, <2>3, <1>c DEF P!PickAvailable, i, PType, CallRec
    <2>5. r \in CallRec /\ r.pc = "check" /\ r.w \in 1..Len(worker)
      <3>1. muxes[Len(muxes)] \in Nat
        BY <2>1 DEF PType
      <3> QED
        BY <1>c, <2>1, <3>1 DEF CallRec
    <2> HIDE DEF r
    <2> QED
      BY <1>3, <2>1, <2>3, <2>4, <2>5, CallStepKeepsStart DEF P!PickAvailable, PType
  <1>4. CASE P!StartTask(c)
    <2> USE <1>4 DEF P!StartTask
    <2>1. CASE running
      <3>1. call' = [call EXCEPT ![c].pc = "check"] /\ UNCHANGED <<running, round>>
        BY <2>1
      <3>2. call' \in [Callers -> CallRec] /\ call'[c].pc = "check" /\ call'[c].w = call[c].w
        BY <3>1, <1>c DEF PType, CallRec
      <3>3. \A d \in Callers \ {c} : call'[d] = call[d]
        BY <3>1 DEF PType
      <3>4. PType'
        BY <3>1, <3>2 DEF PType, P!Goroutines
      <3>5. PCalls'
        BY <3>1, <3>2, <3>3 DEF PCalls
      <3>6. PRound'
        BY <3>1 DEF PRound, P!Goroutines
      <3>7. PFilled'
        BY <3>1, <3>2, <3>3 DEF PFilled, P!Goroutines
      <3> QED
        BY <3>4, <3>5, <3>6, <3>7
    <2>2. CASE ~running
      <3>1. /\ call' = [call EXCEPT ![c].pc = "starting"]
            /\ running' = TRUE /\ round' = [round EXCEPT ![c] = "check"]
        BY <2>2
      <3>2. call' \in [Callers -> CallRec] /\ call'[c].pc = "starting" /\ call'[c].w = call[c].w
        BY <3>1, <1>c DEF PType, CallRec
      <3>3. \A d \in Callers \ {c} : call'[d] = call[d]
        BY <3>1 DEF PType
      <3>4. \A g \in P!Goroutines : round[g] = "none"
        BY <2>2 DEF PRound
      <3>5. round'[c] = "check" /\ \A g \in P!Goroutines \ {c} : round'[g] = "none"
        BY <3>1, <3>4 DEF PType, P!Goroutines
      <3>6. PType'
        BY <3>1, <3>2 DEF PType, P!Goroutines
      <3>7. PCalls'
        BY <3>2, <3>3, <3>5 DEF PCalls, P!Goroutines
      <3>8. PRound'
        BY <3>1, <3>5 DEF PRound, P!Goroutines
      <3>9. \A d \in Callers : call[d].pc = "start" => muxes # <<>>
        BY <3>4 DEF PFilled, P!Goroutines
      <3>10. PFilled'
        BY <3>2, <3>3, <3>9 DEF PFilled, P!Goroutines
      <3> QED
        BY <3>6, <3>7, <3>8, <3>10
    <2> QED
      BY <2>1, <2>2
  <1>5. CASE P!Check(c)
    <2>1. CASE P!IsFull(call[c].w)
      <3>1. P!Retry(c)
        BY <1>5, <2>1 DEF P!Check
      <3>2. PICK r \in CallRec : /\ r.pc \in {"idle", "pick"}
                                 /\ call' = [call EXCEPT ![c] = r] /\ wasted' \in [Callers -> Nat]
        BY <3>1, <1>r
      <3> QED
        BY <1>5, <3>2, CallStepKeepsStart DEF P!Check, PType
    <2>2. CASE ~P!IsFull(call[c].w)
      <3> DEFINE r == [call[c] EXCEPT !.pc = "allocate"]
      <3>1. /\ r \in CallRec /\ r.pc = "allocate"
            /\ r.w = call[c].w /\ call' = [call EXCEPT ![c] = r] /\ wasted' = wasted
        BY <1>5, <2>2, <1>c DEF P!Check, PType, CallRec
      <3>2. call[c].w \in 1..Len(worker)
        BY <1>5 DEF P!Check, PCalls
      <3> HIDE DEF r
      <3> QED
        BY <1>5, <3>1, <3>2, CallStepKeepsStart DEF P!Check, PType
    <2> QED
      BY <2>1, <2>2
  <1>6. CASE P!Allocate(c)
    <2>1. call[c].w \in 1..Len(worker)
      BY <1>6 DEF P!Allocate, PCalls
    <2>2. CASE worker[call[c].w].open
      <3>1. /\ worker' = [worker EXCEPT ![call[c].w].size = @ + 1, ![call[c].w].count = @ + 1]
            /\ call' = [call EXCEPT ![c] = P!Idle]
            /\ wasted' = [d \in Callers |-> 0]
        BY <1>6, <2>2 DEF P!Allocate, P!Disturbed
      <3>2. worker' \in Seq(WorkerRec) /\ Len(worker') = Len(worker)
        <4> DEFINE w == call[c].w
                   r == [worker[w] EXCEPT !.size = @ + 1, !.count = @ + 1]
        <4>1. worker[w] \in WorkerRec
          BY <2>1 DEF PType
        <4>a. worker[w].size + 1 \in Nat /\ worker[w].count + 1 \in Nat
          BY <4>1 DEF WorkerRec
        <4>2. r \in WorkerRec
          BY <4>1, <4>a, Zenon DEF WorkerRec
        <4>3. worker' = [worker EXCEPT ![w] = r]
          BY <2>1, <3>1, <4>1 DEF PType, WorkerRec
        <4> HIDE DEF r
        <4> QED
          BY <2>1, <4>2, <4>3 DEF PType
      <3>3. P!Idle \in CallRec /\ P!Idle.pc = "idle" /\ wasted' \in [Callers -> Nat]
        BY <3>1 DEF P!Idle, CallRec
      <3> QED
        BY <1>6, <3>1, <3>2, <3>3, CallStepKeepsStart DEF P!Allocate, PType
    <2>3. CASE ~worker[call[c].w].open
      <3>1. P!Retry(c) /\ worker' = worker
        BY <1>6, <2>3 DEF P!Allocate
      <3>2. PICK r \in CallRec : /\ r.pc \in {"idle", "pick"}
                                 /\ call' = [call EXCEPT ![c] = r] /\ wasted' \in [Callers -> Nat]
        BY <3>1, <1>r
      <3> QED
        BY <1>6, <3>1, <3>2, CallStepKeepsStart DEF P!Allocate, PType
    <2> QED
      BY <2>2, <2>3
  <1> QED
    BY <1>1, <1>2, <1>3, <1>4, <1>5, <1>6 DEF P!CallStep

LEMMA PoolRoundStarts ==
  ASSUME PoolOK, PStart, NEW g \in P!Goroutines, P!Round(g)
  PROVE  PStart'
  <1> USE DEF PStart
  <1>t. PoolTimer \notin Callers /\ PoolTimer \in P!Goroutines /\ Callers \subseteq P!Goroutines
    BY DEF PoolOK, P!Goroutines
  <1>1. CASE P!HasClosed(g)
    <2>1. running
      BY <1>1 DEF P!HasClosed, PRound
    <2>2. /\ round' = [round EXCEPT ![g] = "execute"]
          /\ UNCHANGED <<muxes, worker, call, running, awaited, panicked, wasted>>
      BY <1>1, <2>1 DEF P!HasClosed
    <2>3. round'[g] = "execute" /\ round[g] = "check" /\ \A h \in P!Goroutines \ {g} : round'[h] = round[h]
      BY <1>1, <2>2 DEF P!HasClosed, PType
    <2>4. PType'
      BY <2>2, <2>3 DEF PType, P!Goroutines
    <2>5. PCalls'
      BY <2>2, <2>3, <1>t DEF PCalls
    <2>6. PRound'
      BY <2>2, <2>3, <1>t DEF PRound, P!Goroutines
    <2>7. PFilled'
      BY <2>2, <2>3, <1>t DEF PFilled, P!Goroutines
    <2> QED
      BY <2>4, <2>5, <2>6, <2>7
  <1>2. CASE P!CleanupFunc(g)
    <2> USE <1>2 DEF P!CleanupFunc
    <2>1. muxes' \in Seq(1..Len(worker))
      BY CleanupKeepsLast
    <2>2. /\ round'[g] = (IF muxes = <<>> THEN "fail" ELSE "rearm")
          /\ \A h \in P!Goroutines \ {g} : round'[h] = round[h]
      BY DEF PType
    <2>3. running /\ \A h \in P!Goroutines \ {g} : round[h] = "none"
      BY DEF PRound
    <2>4. PType'
      BY <2>1 DEF PType, P!Goroutines
    <2>5. g \in Callers => muxes # <<>>
      BY DEF PFilled
    <2>6. PCalls'
      BY <2>2, <2>5, <1>t DEF PCalls
    <2>7. PRound'
      BY <2>2, <2>3 DEF PRound, P!Goroutines
    <2>8. \A c \in Callers : call[c].pc = "start" => muxes # <<>>
      BY <2>3, <1>t DEF PFilled
    <2>9. PFilled'
      BY <2>2, <2>3, <2>8, <1>t DEF PFilled, P!Goroutines
    <2> QED
      BY <2>4, <2>6, <2>7, <2>9
  <1>3. CASE P!Rearm(g)
    <2> USE <1>3 DEF P!Rearm
    <2>1. running /\ \A h \in P!Goroutines \ {g} : round[h] = "none"
      BY DEF PRound
    <2>2. round'[PoolTimer] = "armed" /\ \A h \in P!Goroutines \ {PoolTimer} : round'[h] = "none"
      BY <2>1, <1>t DEF PType
    <2>3. call' \in [Callers -> CallRec]
      BY DEF PType, P!RoundOver, CallRec
    <2>4. \A c \in Callers : \/ call'[c] = call[c]
                             \/ c = g /\ call'[c].pc = "check" /\ call'[c].w = call[c].w
      BY DEF PType, P!RoundOver, CallRec
    <2>5. PType'
      BY <2>3 DEF PType, P!Goroutines
    <2>6. PCalls'
      BY <2>2, <2>4, <1>t DEF PCalls
    <2>7. PRound'
      BY <2>1, <2>2, <1>t DEF PRound, P!Goroutines
    <2>8. PFilled'
      BY <2>2, <2>4, <1>t DEF PFilled, P!Goroutines
    <2> QED
      BY <2>5, <2>6, <2>7, <2>8
  <1>4. CASE P!Fail(g)
    <2> USE <1>4 DEF P!Fail
    <2>1. g \notin Callers /\ \A h \in P!Goroutines \ {g} : round[h] = "none"
      BY DEF PRound, PCalls
    <2>2. \A h \in P!Goroutines : round'[h] = "none"
      BY <2>1 DEF PType
    <2>3. ~panicked' /\ panicked' \in BOOLEAN
      BY <2>1, Zenon DEF PFilled
    <2>4. \A c \in Callers : call[c].pc = "start" => muxes # <<>>
      BY <2>1, <1>t DEF PFilled
    <2>5. PType'
      BY <2>3 DEF PType, P!Goroutines
    <2>6. PCalls' /\ PRound'
      BY <2>2, <1>t DEF PCalls, PRound, P!Goroutines
    <2>7. PFilled'
      BY <2>2, <2>3, <2>4, <1>t DEF PFilled
    <2> QED
      BY <2>5, <2>6, <2>7
  <1>5. CASE g = PoolTimer /\ P!Fire
    <2> USE <1>5 DEF P!Fire
    <2>1. round'[g] = "check" /\ \A h \in P!Goroutines \ {g} : round'[h] = round[h]
      BY <1>t DEF PType
    <2>2. PType'
      BY <1>t DEF PType, P!Goroutines
    <2>3. PCalls'
      BY <2>1, <1>t DEF PCalls
    <2>4. PRound'
      BY <2>1, <1>t DEF PRound, P!Goroutines
    <2>5. PFilled'
      BY <2>1, <1>t DEF PFilled, PRound, P!Goroutines
    <2> QED
      BY <2>2, <2>3, <2>4, <2>5
  <1> QED
    BY <1>1, <1>2, <1>3, <1>4, <1>5 DEF P!Round

LEMMA PoolWorkerStarts ==
  ASSUME PStart, NEW w \in 1..Len(worker),
         P!SessionEnds(w) \/ P!CloseIfNoSession(w) \/ P!Done(w) \/ P!CloseSessions(w)
  PROVE  PStart'
  <1> USE DEF PStart
  <1>1. worker[w] \in WorkerRec
    BY DEF PType
  <1>2. CASE P!SessionEnds(w)
    <2> DEFINE r == [worker[w] EXCEPT !.size = @ - 1]
    <2>1. r \in WorkerRec
      BY <1>1, <1>2 DEF WorkerRec, P!SessionEnds
    <2>2. worker' = [worker EXCEPT ![w] = r] /\ wasted' = wasted
      BY <1>1, <1>2 DEF P!SessionEnds, PType
    <2> HIDE DEF r
    <2> QED
      BY <1>2, <2>1, <2>2, WorkerStepKeepsStart DEF P!SessionEnds, PType
  <1>3. CASE P!CloseIfNoSession(w)
    <2> DEFINE r == [worker[w] EXCEPT !.open = FALSE]
    <2>1. r \in WorkerRec
      BY <1>1 DEF WorkerRec
    <2>2. worker' = [worker EXCEPT ![w] = r] /\ wasted' \in [Callers -> Nat]
      BY <1>1, <1>3 DEF P!CloseIfNoSession, P!Disturbed, PType
    <2> HIDE DEF r
    <2> QED
      BY <1>3, <2>1, <2>2, WorkerStepKeepsStart DEF P!CloseIfNoSession
  <1>4. CASE P!Done(w)
    <2> DEFINE r == [worker[w] EXCEPT !.done = TRUE]
    <2>1. r \in WorkerRec
      BY <1>1 DEF WorkerRec
    <2>2. worker' = [worker EXCEPT ![w] = r] /\ wasted' \in [Callers -> Nat]
      BY <1>1, <1>4 DEF P!Done, P!Disturbed, PType
    <2> HIDE DEF r
    <2> QED
      BY <1>4, <2>1, <2>2, WorkerStepKeepsStart DEF P!Done
  <1>5. CASE P!CloseSessions(w)
    <2> DEFINE r == [worker[w] EXCEPT !.open = FALSE, !.size = 0]
    <2>1. r \in WorkerRec
      BY <1>1 DEF WorkerRec
    <2>2. worker' = [worker EXCEPT ![w] = r] /\ wasted' = wasted
      BY <1>1, <1>5 DEF P!CloseSessions, PType, WorkerRec
    <2> HIDE DEF r
    <2> QED
      BY <1>5, <2>1, <2>2, WorkerStepKeepsStart DEF P!CloseSessions, PType
  <1> QED
    BY <1>2, <1>3, <1>4, <1>5

LEMMA PoolStart == PoolOK /\ PStart /\ [P!Next]_(P!vars) => PStart'
  <1> SUFFICES ASSUME PoolOK, PStart, [P!Next]_(P!vars) PROVE PStart'
    OBVIOUS
  <1>1. CASE UNCHANGED P!vars
    BY <1>1 DEF P!vars, PStart, PType, PCalls, PRound, PFilled, P!Goroutines
  <1>2. CASE P!Next
    BY <1>2, PoolCallStarts, PoolRoundStarts, PoolWorkerStarts DEF P!Next
  <1> QED
    BY <1>1, <1>2

LEMMA PoolInit == P!Init => PInv
  <1> SUFFICES ASSUME P!Init PROVE PInv
    OBVIOUS
  <1>1. worker = <<>> /\ muxes = <<>> /\ call = [c \in Callers |-> P!Idle]
    BY DEF P!Init
  <1>2. P!Idle \in CallRec /\ P!Idle.pc = "idle"
    BY DEF P!Idle, CallRec
  <1>3. PType
    <2>1. worker \in Seq(WorkerRec) /\ muxes \in Seq(1..Len(worker))
      BY <1>1
    <2>2. wasted \in [Callers -> Nat] /\ call \in [Callers -> CallRec]
      BY <1>1, <1>2 DEF P!Init
    <2> QED
      BY <2>1, <2>2 DEF P!Init, PType
  <1>4. PCalls
    BY <1>1, <1>2 DEF P!Init, PCalls, P!Goroutines
  <1>5. PRound /\ PFilled
    BY <1>1, <1>2 DEF P!Init, PRound, PFilled, P!Goroutines
  <1>6. PWaste
    BY DEF P!Init, PWaste, Waste
  <1> QED
    BY <1>3, <1>4, <1>5, <1>6 DEF PInv, PStart

\* The call that has made a worker starts the cleanup task, and panics if the first round
\* fails because the pool is empty.  It never does: if another round has emptied the pool in
\* between, the task is still running.
THEOREM PoolNeverPanics == P!Spec => []StartNeverPanics
  <1>1. P!Init => PStart
    BY PoolInit DEF PInv
  <1>2. PStart => StartNeverPanics
    BY DEF PStart, PFilled, StartNeverPanics, P!StartNeverPanics
  <1>3. PoolOK
    BY FlowsAssumption
  <1> QED
    BY <1>1, <1>2, <1>3, PoolStart, PTL DEF P!Spec

\* Where no worker fills up and the end of the pool stays free, a call keeps what it has.
LEMMA WasteKept ==
  ASSUME PStart, NEW d \in Callers, Waste(d),
         \A w \in 1..Len(worker) : Free(w) => Free(w)',
         LastFree => LastFree',
         wasted'[d] = wasted[d],
         \/ call'[d] = call[d]
         \/ /\ call[d].pc \in {"start", "starting"} /\ call'[d].pc \in {"starting", "check"}
            /\ call'[d].w = call[d].w
  PROVE  Waste(d)'
  <1>1. call[d].pc \notin {"idle", "pick"} => call[d].w \in 1..Len(worker)
    BY DEF PStart, PCalls
  <1>2. wasted[d] \in Nat
    BY DEF PStart, PType
  <1> QED
    BY <1>1, <1>2 DEF Waste

LEMMA WasteReset ==
  ASSUME NEW d, wasted'[d] = 0
  PROVE  Waste(d)'
  BY DEF Waste

LEMMA PoolWaste == PoolOK /\ PInv /\ [P!Next]_(P!vars) => PWaste'
  <1> SUFFICES ASSUME PoolOK, PInv, [P!Next]_(P!vars), NEW d \in Callers PROVE Waste(d)'
    BY DEF PWaste
  <1>0. PStart /\ PType /\ PCalls /\ PRound /\ Waste(d) /\ wasted[d] \in Nat
    BY DEF PInv, PStart, PWaste, PType
  <1>w. ASSUME worker' = worker PROVE \A w : Free(w)' <=> Free(w)
    BY <1>w DEF Free, P!IsFull, P!IsClosing, P!Closed
  <1>l. ASSUME worker' = worker, muxes' = muxes PROVE LastFree' <=> LastFree
    BY <1>l DEF LastFree, Free, P!IsFull, P!IsClosing, P!Closed
  <1>1. CASE UNCHANGED P!vars
    BY <1>0, <1>1, <1>w, <1>l, WasteKept DEF P!vars
  <1>2. ASSUME NEW c \in Callers, P!Dispatch(c) PROVE Waste(d)'
    <2>1. CASE d = c
      BY <1>0, <1>2, <2>1, WasteReset DEF P!Dispatch, PType
    <2>2. CASE d # c
      <3>1. call'[d] = call[d] /\ wasted'[d] = wasted[d] /\ UNCHANGED <<worker, muxes>>
        BY <1>0, <1>2, <2>2 DEF P!Dispatch, PType
      <3> QED
        BY <1>0, <3>1, <1>w, <1>l, WasteKept
    <2> QED
      BY <2>1, <2>2
  <1>3. ASSUME NEW c \in Callers, P!PickNew(c) PROVE Waste(d)'
    <2> USE <1>3 DEF P!PickNew
    <2>0. PICK n \in Nat : n = Len(worker)
      <3>1. Len(worker) \in Nat
        BY <1>0 DEF PType
      <3> QED
        BY <3>1
    <2>1. /\ n \in Nat /\ worker' \in Seq(WorkerRec) /\ Len(worker') = n + 1
          /\ \A w \in 1..n : worker'[w] = worker[w]
          /\ worker'[n + 1] = [size |-> 0, count |-> 0, open |-> TRUE, done |-> FALSE]
      BY <1>0, <2>0 DEF PType, WorkerRec
    <2>2. muxes' # <<>> /\ muxes'[Len(muxes')] = n + 1
      <3>1. P!Cleanup(muxes) \in Seq(1..Len(worker))
        BY <1>0, CleanupKeepsLast
      <3> QED
        BY <2>0, <2>1, <3>1
    <2>3. \A w \in 1..n : Free(w) => Free(w)'
      BY <2>1 DEF Free, P!IsFull, P!IsClosing, P!Closed
    <2>4. Free(n + 1)'
      <3>1. ~(0 >= MaxConnection) /\ ~(0 >= MaxConcurrency)
        BY DEF PoolOK
      <3> QED
        BY <2>1, <3>1 DEF Free, P!IsFull, P!IsClosing, P!Closed
    <2>5. LastFree'
      BY <2>2, <2>4 DEF LastFree
    <2>6. CASE d = c
      <3>1. call'[c].pc = "start" /\ call'[c].w = n + 1 /\ wasted'[c] = wasted[c]
        BY <1>0, <2>0 DEF PType, CallRec
      <3> QED
        BY <1>0, <2>4, <2>6, <3>1 DEF Waste
    <2>7. CASE d # c
      <3>1. call'[d] = call[d] /\ wasted'[d] = wasted[d]
        BY <1>0, <2>7 DEF PType
      <3> QED
        BY <1>0, <2>0, <2>3, <2>5, <3>1, WasteKept
    <2> QED
      BY <2>6, <2>7
  <1>4. ASSUME NEW c \in Callers, P!PickAvailable(c) PROVE Waste(d)'
    <2> DEFINE i == P!FindAvailable
               n == Len(muxes)
    <2>1. i \in 1..n /\ Free(muxes[i]) /\ n \in 1..n /\ muxes # <<>>
      BY <1>0, <1>4, FindAvailableFinds DEF P!PickAvailable, PType
    <2>2. /\ muxes' = [muxes EXCEPT ![n] = muxes[i], ![i] = muxes[n]]
          /\ UNCHANGED <<worker, wasted>>
          /\ call' = [call EXCEPT ![c].pc = "check", ![c].w = muxes'[i]]
      BY <1>4 DEF P!PickAvailable
    <2> HIDE DEF i
    <2>3. /\ muxes' # <<>> /\ Len(muxes') = n /\ muxes'[i] = muxes[n]
          /\ muxes'[n] = muxes[i]
      BY <1>0, <2>1, <2>2 DEF PType
    <2>4. LastFree'
      BY <1>w, <2>1, <2>2, <2>3 DEF LastFree
    <2>5. CASE d = c
      <3>1. call'[c].pc = "check" /\ call'[c].w = muxes[n] /\ call[c].pc = "pick"
        BY <1>0, <1>4, <2>2, <2>3 DEF PType, CallRec, P!PickAvailable
      <3>2. PICK w : w = muxes[n]
        OBVIOUS
      <3>3. LastFree => Free(w)'
        BY <1>w, <2>2, <3>2 DEF LastFree
      <3> QED
        BY <1>0, <2>2, <2>4, <2>5, <3>1, <3>2, <3>3 DEF Waste
    <2>6. CASE d # c
      <3>1. call'[d] = call[d]
        BY <1>0, <2>2, <2>6 DEF PType
      <3> QED
        BY <1>0, <1>w, <2>2, <2>4, <3>1, WasteKept
    <2> QED
      BY <2>5, <2>6
  <1>5. ASSUME NEW c \in Callers, P!StartTask(c) PROVE Waste(d)'
    <2>1. UNCHANGED <<worker, muxes, wasted>>
      BY <1>5 DEF P!StartTask
    <2>2. \/ call'[d] = call[d]
          \/ /\ call[d].pc = "start" /\ call'[d].pc \in {"starting", "check"}
             /\ call'[d].w = call[d].w
      BY <1>0, <1>5 DEF P!StartTask, PType, CallRec
    <2> QED
      BY <1>0, <1>w, <1>l, <2>1, <2>2, WasteKept
  <1>6. ASSUME NEW c \in Callers, P!Retry(c), UNCHANGED <<worker, muxes>>, d # c PROVE Waste(d)'
    <2>1. call'[d] = call[d] /\ wasted'[d] = wasted[d]
      BY <1>0, <1>6 DEF P!Retry, PType
    <2> QED
      BY <1>0, <1>6, <1>w, <1>l, <2>1, WasteKept
  <1>7. ASSUME NEW c \in Callers, P!Retry(c)
        PROVE  /\ call'[c].pc \in {"idle", "pick"}
               /\ wasted'[c] = IF P!Leaving(call[c].w) THEN 0 ELSE wasted[c] + 1
    BY <1>0, <1>7 DEF P!Retry, PType, P!Idle
  <1>8. ASSUME NEW c \in Callers, P!Check(c) PROVE Waste(d)'
    <2>1. UNCHANGED <<worker, muxes>> /\ call[c].pc = "check"
      BY <1>8 DEF P!Check
    <2>2. CASE P!IsFull(call[c].w)
      <3>1. P!Retry(c)
        BY <1>8, <2>2 DEF P!Check
      <3>2. CASE d = c
        <4>1. ~Free(call[c].w)
          BY <2>2 DEF Free
        <4> QED
          BY <1>0, <1>7, <1>l, <2>1, <3>1, <3>2, <4>1 DEF Waste
      <3> QED
        BY <1>6, <2>1, <3>1, <3>2
    <2>3. CASE ~P!IsFull(call[c].w)
      <3>1. call' = [call EXCEPT ![c].pc = "allocate"] /\ wasted' = wasted
        BY <1>8, <2>3 DEF P!Check
      <3>2. CASE d = c
        <4>1. call'[c].pc = "allocate" /\ call'[c].w = call[c].w
          BY <1>0, <3>1 DEF PType, CallRec
        <4>2. Free(call[c].w)'
          BY <1>w, <2>1, <2>3, <4>1 DEF Free, P!IsFull, P!IsClosing, P!Closed
        <4> QED
          BY <1>0, <3>1, <3>2, <4>1, <4>2 DEF Waste
      <3>3. CASE d # c
        <4>1. call'[d] = call[d]
          BY <1>0, <3>1, <3>3 DEF PType
        <4> QED
          BY <1>0, <1>w, <1>l, <2>1, <3>1, <4>1, WasteKept
      <3> QED
        BY <3>2, <3>3
    <2> QED
      BY <2>2, <2>3
  <1>9. ASSUME NEW c \in Callers, P!Allocate(c) PROVE Waste(d)'
    <2>1. muxes' = muxes /\ call[c].pc = "allocate"
      BY <1>9 DEF P!Allocate
    <2>2. CASE worker[call[c].w].open
      BY <1>9, <2>2, WasteReset DEF P!Allocate, P!Disturbed
    <2>3. CASE ~worker[call[c].w].open
      <3>1. P!Retry(c) /\ worker' = worker
        BY <1>9, <2>3 DEF P!Allocate
      <3>2. CASE d = c
        <4>1. Free(call[c].w) => P!Leaving(call[c].w)
          BY <2>3 DEF Free, P!IsFull, P!Closed, P!Leaving
        <4> QED
          BY <1>0, <1>7, <2>1, <3>1, <3>2, <4>1 DEF Waste
      <3> QED
        BY <1>6, <2>1, <3>1, <3>2
    <2> QED
      BY <2>2, <2>3
  <1>10. ASSUME NEW g \in P!Goroutines, P!Round(g) PROVE Waste(d)'
    <2>1. UNCHANGED <<worker, wasted>>
      BY <1>10 DEF P!Round, P!HasClosed, P!CleanupFunc, P!Rearm, P!Fail, P!Fire
    <2>2. LastFree => LastFree'
      <3>1. CASE muxes' = muxes
        BY <1>l, <2>1, <3>1
      <3>2. CASE muxes' # muxes
        <4>1. muxes' = P!Cleanup(muxes)
          BY <1>10, <3>2 DEF P!Round, P!HasClosed, P!CleanupFunc, P!Rearm, P!Fail, P!Fire
        <4>2. ASSUME LastFree PROVE muxes # <<>> /\ ~P!Closed(muxes[Len(muxes)])
          BY <4>2 DEF LastFree, Free, P!IsFull
        <4> QED
          BY <1>0, <1>w, <2>1, <4>1, <4>2, CleanupKeepsLast DEF LastFree
      <3> QED
        BY <3>1, <3>2
    <2>3. \/ call'[d] = call[d]
          \/ call[d].pc = "starting" /\ call'[d].pc = "check" /\ call'[d].w = call[d].w
      <3>1. CASE call' = call
        BY <3>1
      <3>2. CASE P!RoundOver(g) /\ round[g] # "none"
        BY <1>0, <3>2 DEF P!RoundOver, PType, PCalls, CallRec
      <3> QED
        BY <1>10, <3>1, <3>2 DEF P!Round, P!HasClosed, P!CleanupFunc, P!Rearm, P!Fail, P!Fire
    <2> QED
      BY <1>0, <1>w, <2>1, <2>2, <2>3, WasteKept
  <1>11. ASSUME NEW v \in 1..Len(worker), P!SessionEnds(v) \/ P!CloseSessions(v) PROVE Waste(d)'
    <2>1. UNCHANGED <<muxes, call, wasted>>
      BY <1>11 DEF P!SessionEnds, P!CloseSessions
    <2>2. worker[v] \in WorkerRec /\ worker \in Seq(WorkerRec)
      BY <1>0 DEF PType
    <2>3. \A w \in 1..Len(worker) : w # v => worker'[w] = worker[w]
      BY <1>11, <2>2 DEF P!SessionEnds, P!CloseSessions
    <2>4. CASE P!SessionEnds(v)
      <3>1. /\ worker'[v].size = worker[v].size - 1 /\ worker'[v].count = worker[v].count
            /\ worker'[v].done = worker[v].done
        BY <2>2, <2>4 DEF P!SessionEnds, WorkerRec
      <3>2. worker[v].size \in Nat /\ MaxConcurrency \in Nat
        BY <2>2 DEF WorkerRec, PoolOK
      <3>3. \A w \in 1..Len(worker) : Free(w) => Free(w)'
        BY <2>3, <3>1, <3>2 DEF Free, P!IsFull, P!IsClosing, P!Closed
      <3>4. LastFree => LastFree'
        BY <1>0, <2>1, <3>3 DEF LastFree, PType
      <3> QED
        BY <1>0, <2>1, <3>3, <3>4, WasteKept
    <2>5. CASE P!CloseSessions(v)
      <3>1. \A w \in 1..Len(worker) : Free(w) => w # v
        BY <2>5 DEF P!CloseSessions, Free, P!IsFull, P!Closed
      <3>2. \A w \in 1..Len(worker) : Free(w) => Free(w)'
        BY <2>3, <3>1 DEF Free, P!IsFull, P!IsClosing, P!Closed
      <3>3. LastFree => LastFree'
        BY <1>0, <2>1, <3>2 DEF LastFree, PType
      <3> QED
        BY <1>0, <2>1, <3>2, <3>3, WasteKept
    <2> QED
      BY <1>11, <2>4, <2>5
  <1>12. ASSUME NEW v \in 1..Len(worker), P!CloseIfNoSession(v) \/ P!Done(v) PROVE Waste(d)'
    BY <1>12, WasteReset DEF P!CloseIfNoSession, P!Done, P!Disturbed
  <1>13. CASE P!Next
    BY <1>2, <1>3, <1>4, <1>5, <1>8, <1>9, <1>10, <1>11, <1>12, <1>13 DEF P!Next, P!CallStep
  <1> QED
    BY <1>1, <1>13

\* As long as no worker fills up or closes, the third attempt of a call to dispatch succeeds,
\* whatever the other calls pick and the cleanup removes in between.
THEOREM PoolAttempts == P!Spec => []AttemptsSucceed
  <1>1. PInv => AttemptsSucceed
    BY DEF PInv, PWaste, Waste, AttemptsSucceed, P!AttemptsSucceed
  <1>2. PoolOK
    BY FlowsAssumption
  <1>3. PoolOK /\ PInv /\ [P!Next]_(P!vars) => PInv'
    BY PoolStart, PoolWaste DEF PInv
  <1> QED
    BY <1>1, <1>2, <1>3, PoolInit, PTL DEF P!Spec

-----------------------------------------------------------------------------
(* Reverse. *)

\* The bridge keeps a connection for as long as it is whole and the portal does not drain it:
\* however messages, breaks and the rounds of both sides interleave, what the portal would
\* give to a client is never dropped by the bridge, nor taken for drained.
FreshIsKept ==
  \A k \in 1..Len(dialled) :
     dialled[k].link # "broken" /\ ~dialled[k].draining => k \in workers /\ B!IsActive(k)

BMessage == {"ACTIVE", "DRAIN"}

BConn == [link : {"up", "ended", "broken"}, server : {"open", "closed"},
          client : {"none", "open", "closed"}, added : BOOLEAN, state : BMessage,
          draining : BOOLEAN, control : {"off", "on", "drain"},
          writer : {"none", "open", "closed"}, mail : Seq(BMessage),
          active : Nat, total : Nat]

\* The signs that a connection is drained, on both sides and between them, are true; and the
\* bridge has dropped no other connection that is whole.
BTold(c) ==
  /\ c.state = "DRAIN" => c.draining
  /\ \A i \in 1..Len(c.mail) : c.mail[i] = "DRAIN" => c.draining
  /\ c.control = "drain" \/ c.writer = "closed" => c.draining
  /\ c.link = "ended" => c.draining
  /\ c.server = "closed" => c.link # "up"

BInv ==
  /\ dialled \in Seq(BConn)
  /\ \A k \in 1..Len(dialled) : BTold(dialled[k])
  /\ \A k \in 1..Len(dialled) :
        k \in workers \/ dialled[k].link = "broken" \/ dialled[k].draining

\* What is drained or broken stays so.
BGoes(c, d) == (c.draining => d.draining) /\ (c.link = "broken" => d.link = "broken")

\* A step that changes one connection.
LEMMA BOneChanges ==
  ASSUME BInv, NEW k \in 1..Len(dialled), NEW d \in BConn, BTold(d), BGoes(dialled[k], d),
         dialled' = [dialled EXCEPT ![k] = d], workers' = workers
  PROVE  BInv'
  <1>1. dialled' \in Seq(BConn) /\ Len(dialled') = Len(dialled)
    BY DEF BInv
  <1>2. \A j \in 1..Len(dialled) : dialled'[j] = IF j = k THEN d ELSE dialled[j]
    BY DEF BInv
  <1>3. \A j \in 1..Len(dialled)' : BTold(dialled[j])'
    <2> SUFFICES ASSUME NEW j \in 1..Len(dialled) PROVE BTold(dialled'[j])
      BY <1>1 DEF BTold
    <2> QED
      BY <1>2 DEF BInv
  <1>4. \A j \in 1..Len(dialled)' :
           j \in workers' \/ dialled'[j].link = "broken" \/ dialled'[j].draining
    BY <1>1, <1>2 DEF BInv, BGoes
  <1> QED
    BY <1>1, <1>3, <1>4 DEF BInv

\* A round of the bridge drops what it knows to be drained or closed, so what is.
LEMMA BMonitor ==
  ASSUME BInv, B!Monitor
  PROVE  BInv'
  <1> DEFINE kept == {k \in workers : B!IsActive(k)}
             new == [link |-> "up", server |-> "open", client |-> "none",
                     added |-> FALSE, state |-> "ACTIVE", draining |-> FALSE,
                     control |-> "off", writer |-> "none", mail |-> <<>>,
                     active |-> 0, total |-> 0]
  <1>1. \A k \in 1..Len(dialled) :
           k \in kept \/ dialled[k].link = "broken" \/ dialled[k].draining
    <2> SUFFICES ASSUME NEW k \in 1..Len(dialled), k \in workers, ~B!IsActive(k)
                 PROVE  dialled[k].link = "broken" \/ dialled[k].draining
      BY DEF BInv
    <2>1. dialled[k] \in BConn /\ BTold(dialled[k])
      BY DEF BInv
    <2> QED
      BY <2>1 DEF BTold, BConn, BMessage, B!IsActive
  <1>2. CASE dialled' = dialled /\ workers' = kept
    BY <1>1, <1>2 DEF BInv, BTold
  <1>3. CASE dialled' = Append(dialled, new) /\ workers' = kept \cup {Len(dialled) + 1}
    <2>1. new \in BConn /\ BTold(new)
      BY DEF BConn, BMessage, BTold
    <2> HIDE DEF new
    <2>2. /\ dialled' \in Seq(BConn)
          /\ Len(dialled') = Len(dialled) + 1
          /\ \A k \in 1..Len(dialled) : dialled'[k] = dialled[k]
          /\ dialled'[Len(dialled) + 1] = new
      BY <1>3, <2>1 DEF BInv
    <2>3. \A k \in 1..Len(dialled)' : k \in 1..Len(dialled) \/ k = Len(dialled) + 1
      BY <2>2 DEF BInv
    <2>4. ASSUME NEW k \in 1..Len(dialled') PROVE BTold(dialled'[k])
      BY <2>1, <2>2, <2>3 DEF BInv
    <2>5. \A k \in 1..Len(dialled') :
             k \in workers' \/ dialled'[k].link = "broken" \/ dialled'[k].draining
      BY <1>1, <1>3, <2>2, <2>3
    <2> QED
      BY <2>2, <2>4, <2>5 DEF BInv, BTold
  <1> QED
    BY <1>2, <1>3, Zenon DEF B!Monitor, B!Keep

LEMMA BControl ==
  ASSUME BInv, NEW k \in 1..Len(dialled), B!Control(k)
  PROVE  BInv'
  <1> DEFINE c == dialled[k]
             d == [c EXCEPT !.state = Head(c.mail), !.mail = Tail(c.mail)]
  <1>1. c \in BConn /\ BTold(c)
    BY DEF BInv
  <1>2. c.mail \in Seq(BMessage) /\ c.mail # <<>>
    BY <1>1 DEF B!Control, BConn
  <1>3. /\ Head(c.mail) = c.mail[1] /\ 1 \in 1..Len(c.mail) /\ Head(c.mail) \in BMessage
        /\ Tail(c.mail) \in Seq(BMessage) /\ Len(Tail(c.mail)) = Len(c.mail) - 1
        /\ \A i \in 1..Len(Tail(c.mail)) :
              Tail(c.mail)[i] = c.mail[i + 1] /\ i + 1 \in 1..Len(c.mail)
    BY <1>2
  <1>4. d \in BConn
    BY <1>1, <1>3 DEF BConn
  <1>5. BTold(d)
    <2>1. d.mail = Tail(c.mail) /\ d.state = c.mail[1] /\ d.draining = c.draining
          /\ d.control = c.control /\ d.writer = c.writer /\ d.link = c.link
          /\ d.server = c.server
      BY <1>1, <1>3 DEF BConn
    <2> QED
      BY <1>1, <1>3, <2>1 DEF BTold
  <1>6. BGoes(c, d)
    BY <1>1 DEF BGoes, BConn
  <1>7. dialled' = [dialled EXCEPT ![k] = d] /\ workers' = workers
    BY DEF B!Control
  <1> HIDE DEF d
  <1> QED
    BY <1>4, <1>5, <1>6, <1>7, BOneChanges

LEMMA BSession ==
  ASSUME BInv, NEW k \in 1..Len(dialled),
         B!AddWorker(k) \/ B!HandleClient(k) \/ B!SessionEnds(k)
  PROVE  BInv'
  <1> DEFINE c == dialled[k]
             more == [c EXCEPT !.active = c.active + 1, !.total = c.total + 1]
             less == [c EXCEPT !.active = c.active - 1]
             known == [c EXCEPT !.added = TRUE]
  <1>1. c \in BConn /\ BTold(c)
    BY DEF BInv
  <1>2. CASE B!AddWorker(k)
    <2>1. dialled' = [dialled EXCEPT ![k] = known] /\ workers' = workers
      BY <1>2 DEF B!AddWorker
    <2>2. known \in BConn /\ BTold(known) /\ BGoes(c, known)
      BY <1>1 DEF BConn, BTold, BGoes
    <2> HIDE DEF known
    <2> QED
      BY <2>1, <2>2, BOneChanges
  <1>3. CASE B!HandleClient(k)
    <2>1. dialled' = [dialled EXCEPT ![k] = more] /\ workers' = workers
      BY <1>3 DEF B!HandleClient
    <2>a. c.active + 1 \in Nat /\ c.total + 1 \in Nat
      BY <1>1 DEF BConn
    <2>b. more \in BConn
      BY <1>1, <2>a DEF BConn
    <2>2. more \in BConn /\ BTold(more) /\ BGoes(c, more)
      BY <1>1, <2>b DEF BConn, BTold, BGoes
    <2> HIDE DEF more
    <2> QED
      BY <2>1, <2>2, BOneChanges
  <1>4. CASE B!SessionEnds(k)
    <2>1. dialled' = [dialled EXCEPT ![k] = less] /\ workers' = workers /\ c.active > 0
      BY <1>4 DEF B!SessionEnds
    <2>2. less \in BConn /\ BTold(less) /\ BGoes(c, less)
      BY <1>1, <2>1 DEF BConn, BTold, BGoes
    <2> HIDE DEF less
    <2> QED
      BY <2>1, <2>2, BOneChanges
  <1> QED
    BY <1>2, <1>3, <1>4

\* The two ends of a connection that is broken or has ended.
LEMMA BEnds ==
  ASSUME BInv, NEW k \in 1..Len(dialled),
         B!ServerEnds(k) \/ B!ClientEnds(k) \/ B!ClientIdle(k)
  PROVE  BInv'
  <1> DEFINE c == dialled[k]
             cut == [c EXCEPT !.server = "closed", !.active = 0]
             over == [c EXCEPT !.client = "closed", !.active = 0]
             idle == [c EXCEPT !.client = "closed",
                               !.link = IF c.link = "up" THEN "ended" ELSE c.link]
  <1>1. c \in BConn /\ BTold(c)
    BY DEF BInv
  <1>2. CASE B!ServerEnds(k)
    <2>1. dialled' = [dialled EXCEPT ![k] = cut] /\ workers' = workers /\ c.link # "up"
      BY <1>2 DEF B!ServerEnds
    <2>2. cut \in BConn /\ BTold(cut) /\ BGoes(c, cut)
      BY <1>1, <2>1 DEF BConn, BTold, BGoes
    <2> HIDE DEF cut
    <2> QED
      BY <2>1, <2>2, BOneChanges
  <1>3. CASE B!ClientEnds(k)
    <2>1. dialled' = [dialled EXCEPT ![k] = over] /\ workers' = workers
      BY <1>3 DEF B!ClientEnds
    <2>2. over \in BConn /\ BTold(over) /\ BGoes(c, over)
      BY <1>1 DEF BConn, BTold, BGoes
    <2> HIDE DEF over
    <2> QED
      BY <2>1, <2>2, BOneChanges
  <1>4. CASE B!ClientIdle(k)
    <2>1. dialled' = [dialled EXCEPT ![k] = idle] /\ workers' = workers /\ c.draining
      BY <1>1, <1>4 DEF B!ClientIdle, BTold
    <2>2. idle \in BConn /\ BTold(idle) /\ BGoes(c, idle)
      BY <1>1, <2>1 DEF BConn, BTold, BGoes
    <2> HIDE DEF idle
    <2> QED
      BY <2>1, <2>2, BOneChanges
  <1> QED
    BY <1>2, <1>3, <1>4

\* A message to the bridge; that it is drained is said only of what is.
LEMMA BSay ==
  ASSUME NEW c \in BConn, BTold(c), NEW m \in BMessage, m = "DRAIN" => c.draining
  PROVE  LET d == [c EXCEPT !.mail = Append(c.mail, m)]
         IN  d \in BConn /\ BTold(d) /\ BGoes(c, d)
  <1> DEFINE d == [c EXCEPT !.mail = Append(c.mail, m)]
  <1>1. /\ c.mail \in Seq(BMessage) /\ Append(c.mail, m) \in Seq(BMessage)
        /\ Len(Append(c.mail, m)) = Len(c.mail) + 1
        /\ \A i \in 1..Len(c.mail) : Append(c.mail, m)[i] = c.mail[i]
        /\ Append(c.mail, m)[Len(c.mail) + 1] = m
    BY DEF BConn
  <1>2. d \in BConn
    BY <1>1 DEF BConn
  <1>3. d.mail = Append(c.mail, m) /\ d.state = c.state /\ d.draining = c.draining
        /\ d.control = c.control /\ d.writer = c.writer /\ d.link = c.link
        /\ d.server = c.server
    BY DEF BConn
  <1>4. \A i \in 1..Len(d.mail) : d.mail[i] = "DRAIN" => d.draining
    BY <1>1, <1>3 DEF BTold
  <1> QED
    BY <1>2, <1>3, <1>4 DEF BTold, BGoes

LEMMA BHandle ==
  ASSUME BInv, NEW k \in 1..Len(dialled), B!HandleBridge(k)
  PROVE  BInv'
  <1> DEFINE c == dialled[k]
             d == [c EXCEPT !.client = "open", !.control = "on", !.writer = "open",
                            !.mail = <<"ACTIVE">>, !.total = 1]
  <1>1. c \in BConn /\ BTold(c)
    BY DEF BInv
  <1>2. dialled' = [dialled EXCEPT ![k] = d] /\ workers' = workers
    BY DEF B!HandleBridge
  <1>a. "ACTIVE" \in BMessage
    BY DEF BMessage
  <1>b. <<"ACTIVE">> \in Seq(BMessage)
    BY <1>a
  <1>3. d \in BConn
    BY <1>1, <1>b DEF BConn
  <1>4. BTold(d) /\ BGoes(c, d)
    BY <1>1 DEF BConn, BTold, BGoes
  <1> HIDE DEF d
  <1> QED
    BY <1>2, <1>3, <1>4, BOneChanges

LEMMA BHeartbeat ==
  ASSUME BInv, NEW k \in 1..Len(dialled), B!Heartbeat(k)
  PROVE  BInv'
  <1> DEFINE c == dialled[k]
             off == [c EXCEPT !.control = "off"]
             drained == [c EXCEPT !.draining = TRUE, !.control = "drain"]
             told == [c EXCEPT !.mail = Append(c.mail, "ACTIVE")]
  <1>1. c \in BConn /\ BTold(c)
    BY DEF BInv
  <1>2. /\ workers' = workers
        /\ \/ dialled' = [dialled EXCEPT ![k] = off]
           \/ dialled' = [dialled EXCEPT ![k] = drained]
           \/ dialled' = [dialled EXCEPT ![k] = told]
    BY DEF B!Heartbeat
  <1>3. off \in BConn /\ BTold(off) /\ BGoes(c, off)
    BY <1>1 DEF BConn, BTold, BGoes
  <1>4. drained \in BConn /\ BTold(drained) /\ BGoes(c, drained)
    BY <1>1 DEF BConn, BTold, BGoes
  <1>5. told \in BConn /\ BTold(told) /\ BGoes(c, told)
    BY <1>1, BSay DEF BMessage
  <1> HIDE DEF off, drained, told
  <1> QED
    BY <1>2, <1>3, <1>4, <1>5, BOneChanges

LEMMA BDrain ==
  ASSUME BInv, NEW k \in 1..Len(dialled), B!Drain(k)
  PROVE  BInv'
  <1> DEFINE c == dialled[k]
             shut == [c EXCEPT !.control = "off", !.writer = "closed"]
             ended == [c EXCEPT !.control = "on", !.writer = "closed"]
             told == [ended EXCEPT !.mail = Append(ended.mail, "DRAIN")]
  <1>1. c \in BConn /\ BTold(c) /\ c.draining
    BY DEF BInv, B!Drain, BTold
  <1>2. shut \in BConn /\ BTold(shut) /\ BGoes(c, shut)
    BY <1>1 DEF BConn, BTold, BGoes
  <1>3. ended \in BConn /\ BTold(ended) /\ BGoes(c, ended) /\ ended.draining
    BY <1>1 DEF BConn, BTold, BGoes
  <1>4. told \in BConn /\ BTold(told) /\ BGoes(ended, told)
    <2> HIDE DEF ended
    <2> QED
      BY <1>3, BSay DEF BMessage
  <1>5. BGoes(c, told)
    <2> HIDE DEF told, ended
    <2> QED
      BY <1>3, <1>4 DEF BGoes
  <1>6. told = [c EXCEPT !.control = "on", !.mail = Append(c.mail, "DRAIN"),
                         !.writer = "closed"]
    BY <1>1 DEF BConn
  <1>7. /\ workers' = workers
        /\ \/ dialled' = [dialled EXCEPT ![k] = shut]
           \/ dialled' = [dialled EXCEPT ![k] = told]
    <2>1. CASE B!CanWrite(k)
      <3>1. dialled' = [dialled EXCEPT ![k] =
                          [c EXCEPT !.control = "on", !.mail = Append(c.mail, "DRAIN"),
                                    !.writer = "closed"]]
        BY <2>1 DEF B!Drain
      <3> HIDE DEF told
      <3> QED
        BY <1>6, <3>1 DEF B!Drain
    <2>2. CASE ~B!CanWrite(k)
      <3>1. dialled' = [dialled EXCEPT ![k] =
                          [c EXCEPT !.control = "off", !.mail = c.mail, !.writer = "closed"]]
        BY <2>2 DEF B!Drain
      <3>2. [c EXCEPT !.control = "off", !.mail = c.mail, !.writer = "closed"] = shut
        BY <1>1 DEF BConn
      <3> HIDE DEF shut
      <3> QED
        BY <3>1, <3>2 DEF B!Drain
    <2> QED
      BY <2>1, <2>2
  <1> HIDE DEF shut, told
  <1> QED
    BY <1>2, <1>4, <1>5, <1>7, BOneChanges

LEMMA BBreak ==
  ASSUME BInv, NEW k \in 1..Len(dialled), B!Break(k)
  PROVE  BInv'
  <1> DEFINE c == dialled[k]
             d(n) == [c EXCEPT !.link = "broken", !.mail = SubSeq(c.mail, 1, n)]
  <1>0. c \in BConn /\ BTold(c)
    BY DEF BInv
  <1>1. c \in BConn /\ BTold(c) /\ c.mail \in Seq(BMessage)
    BY <1>0 DEF BConn
  <1>2. workers' = workers
    BY DEF B!Break
  <1>3. PICK n \in 0..Len(c.mail) : dialled' = [dialled EXCEPT ![k] = d(n)]
    BY DEF B!Break
  <1>4. /\ SubSeq(c.mail, 1, n) \in Seq(BMessage) /\ Len(SubSeq(c.mail, 1, n)) = n
        /\ \A i \in 1..n : SubSeq(c.mail, 1, n)[i] = c.mail[i] /\ i \in 1..Len(c.mail)
    BY <1>1
  <1>5. d(n) \in BConn
    BY <1>1, <1>4 DEF BConn
  <1>6. /\ d(n).mail = SubSeq(c.mail, 1, n) /\ d(n).link = "broken"
        /\ d(n).state = c.state /\ d(n).draining = c.draining
        /\ d(n).control = c.control /\ d(n).writer = c.writer
    BY <1>1 DEF BConn
  <1>7. BTold(d(n)) /\ BGoes(c, d(n))
    BY <1>1, <1>4, <1>6 DEF BTold, BGoes
  <1> HIDE DEF d
  <1> QED
    BY <1>2, <1>3, <1>5, <1>7, BOneChanges

LEMMA BStep == BInv /\ [B!Next]_(B!vars) => BInv'
  <1> SUFFICES ASSUME BInv, [B!Next]_(B!vars) PROVE BInv'
    OBVIOUS
  <1>1. CASE UNCHANGED B!vars
    BY <1>1 DEF B!vars, BInv, BTold
  <1>2. CASE B!PickerCleanup
    BY <1>2 DEF B!PickerCleanup, BInv, BTold
  <1>3. CASE B!Monitor
    BY <1>3, BMonitor
  <1>4. ASSUME NEW k \in 1..Len(dialled),
               B!Bridge(k) \/ B!Portal(k) \/ B!Beat(k) \/ B!HandleClient(k)
               \/ B!SessionEnds(k) \/ B!ClientIdle(k) \/ B!Break(k)
        PROVE  BInv'
    BY <1>4, BControl, BSession, BEnds, BHandle, BHeartbeat, BDrain, BBreak
    DEF B!Bridge, B!Portal, B!Beat
  <1> QED
    BY <1>1, <1>2, <1>3, <1>4 DEF B!Next, B!Conns

\* Whatever breaks, is lost or comes late, the bridge drops no connection, and takes none for
\* drained, that is whole and that the portal still gives to clients.
THEOREM FreshKept == B!Spec => []FreshIsKept
  <1>1. B!Init => BInv
    BY DEF B!Init, BInv
  <1>2. BInv => FreshIsKept
    <2> SUFFICES ASSUME BInv, NEW k \in 1..Len(dialled),
                        dialled[k].link # "broken", ~dialled[k].draining
                 PROVE  k \in workers /\ B!IsActive(k)
      BY DEF FreshIsKept
    <2>1. dialled[k] \in BConn /\ BTold(dialled[k])
      BY DEF BInv
    <2> QED
      BY <2>1 DEF BInv, BTold, BConn, BMessage, B!IsActive
  <1> QED
    BY <1>1, <1>2, BStep, PTL DEF B!Spec

=============================================================================
