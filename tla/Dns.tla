-------------------------------- MODULE Dns ---------------------------------
(***************************************************************************)
(* app/dns: the client of one name server, with its cache of records.  The *)
(* four servers that ask a remote host (UDP, TCP, HTTPS, QUIC) have the    *)
(* same cache, the same publish-subscribe service and the same QueryIP.    *)
(* Over UDP a request waits in a table under a 16-bit id until an answer   *)
(* with that id comes, in whatever order, late, twice or never ("udp"); in *)
(* the others a goroutine asks and waits for its own answer ("stream").    *)
(*                                                                         *)
(* A type is 4 (A) or 6 (AAAA).  A record keeps what it says (addresses,   *)
(* none, or an error code), when it expires, and which question the server *)
(* answered with it.  A message in the buffer of a subscriber is a token.  *)
(***************************************************************************)
EXTENDS Naturals, FiniteSets

CONSTANTS
    Names,         \* domains
    Queriers,      \* goroutines that call QueryIP
    Kinds,         \* subset of {"udp", "stream"}
    Options,       \* the sets of types that may be enabled
    IdSpace,       \* number of request ids; 2^16 in the code
    MaxRequests,   \* bound: requests sent
    Answers,       \* what a server may say: subset of {"ips", "empty", "fail"}
    TTLs,          \* lifetimes of records
    MaxTime        \* bound: the clock

VARIABLES
    kind,       \* which server; fixed
    now,        \* the clock
    ips,        \* s.ips
    requests,   \* s.requests
    serial,     \* requests numbered so far; the id is this modulo IdSpace
    wire,       \* requests that the server may answer
    landed,     \* answers matched to a request, on their way to updateIP
    query,      \* query[q]: what QueryIP of goroutine q is doing
    cleaner     \* s.cleanup is running

vars == <<kind, now, ips, requests, serial, wire, landed, query, cleaner>>

Types == {4, 6}
NoRec == [says |-> "nil"]
Idle == [pc |-> "idle"]
Empty == [x \in {} |-> x]
With(f, x, v) == [y \in DOMAIN f \cup {x} |-> IF y = x THEN v ELSE f[y]]
Without(f, S) == [y \in DOMAIN f \ S |-> f[y]]
First(S) == CHOOSE t \in S : \A u \in S : t <= u

Init ==
    /\ kind \in Kinds
    /\ now = 0
    /\ ips = Empty
    /\ requests = Empty
    /\ serial = 0
    /\ wire = {}
    /\ landed = {}
    /\ query = [q \in Queriers |-> Idle]
    /\ cleaner = FALSE

-----------------------------------------------------------------------------
(* The cache. *)

Valid(r) == r # NoRec /\ r.exp >= now

Record(d, t) == IF d \in DOMAIN ips THEN ips[d][t] ELSE NoRec

\* The error getIPs returns for type t, "none" if there is none.
ErrorOf(d, t) ==
    IF ~Valid(Record(d, t)) THEN "notfound"
    ELSE IF Record(d, t).says = "fail" THEN "fail" ELSE "none"

\* findIPsForDomain: any address will do; without one, the error of the last type asked.
FindIPs(d, opt) ==
    LET failed == {t \in opt : ErrorOf(d, t) # "none"}
        last == CHOOSE t \in failed : \A u \in failed : u <= t
    IN  IF \E t \in opt : ErrorOf(d, t) = "none" /\ Record(d, t).says = "ips" THEN "ips"
        ELSE IF failed # {} THEN ErrorOf(d, last) ELSE "empty"

Newer(old, new) == old = NoRec \/ old.exp < new.exp

-----------------------------------------------------------------------------
(* QueryIP. *)

\* A cache hit ends the query at once, unless disableCache is set; otherwise it subscribes,
\* type by type.  The model lets every query go on, so it has the behaviours of both.
QueryIP(q, d, opt) ==
    /\ query[q].pc = "idle"
    /\ serial + 2 * Cardinality({p \in Queriers : query[p].pc = "subscribe"}) + Cardinality(opt)
          <= MaxRequests
    /\ query' = [query EXCEPT ![q] =
                   [pc |-> "subscribe", dom |-> d, opt |-> opt, subs |-> {}, heard |-> {},
                    waits |-> opt, ids |-> Empty, ctx |-> FALSE]]
    /\ UNCHANGED <<kind, now, ips, requests, serial, wire, landed, cleaner>>

\* One subscription after the other, and then, with buildReqMsgs, the ids of the requests.
Subscribe(q) ==
    /\ query[q].pc = "subscribe"
    /\ LET opt == query[q].opt
           subs == query[q].subs \cup {First(opt \ query[q].subs)}
           n(t) == serial + Cardinality({u \in opt : u <= t})
       IN  IF subs # opt
           THEN query' = [query EXCEPT ![q].subs = subs] /\ UNCHANGED serial
           ELSE /\ query' = [query EXCEPT ![q].subs = subs, ![q].pc = "send",
                                          ![q].ids = [t \in opt |-> n(t)]]
                /\ serial' = serial + Cardinality(opt)
    /\ UNCHANGED <<kind, now, ips, requests, wire, landed, cleaner>>

\* Mutant: an id has half its bits.
IdShort(n) == n % (IdSpace \div 2)

\* newReqID: 16 bits of the counter
Id(n) == n % IdSpace

\* sendQuery, one request: over UDP it is first put into the table, over whatever was
\* there under its id.
Send(q) ==
    /\ query[q].pc = "send"
    /\ LET t == First(DOMAIN query[q].ids)
           n == query[q].ids[t]
           r == [dom |-> query[q].dom, type |-> t, n |-> n]
           left == Without(query[q].ids, {t})
       IN  /\ requests' = IF kind = "udp"
                          THEN With(requests, Id(n), [dom |-> r.dom, type |-> t, exp |-> now])
                          ELSE requests
           /\ wire' = wire \cup {r}
           /\ query' = [query EXCEPT ![q].ids = left,
                                     ![q].pc = IF left = Empty THEN "find" ELSE @]
    /\ UNCHANGED <<kind, now, ips, serial, landed, cleaner>>

Find(q) ==
    /\ query[q].pc = "find"
    /\ query' = [query EXCEPT ![q] =
                   IF FindIPs(@.dom, @.opt) # "notfound" THEN Idle ELSE [@ EXCEPT !.pc = "wait"]]
    /\ UNCHANGED <<kind, now, ips, requests, serial, wire, landed, cleaner>>

\* Mutant: the goroutine waits for AAAA even if only A was asked for.
WaiterBoth(q) ==
    /\ query[q].pc = "wait"
    /\ query[q].waits # {}
    /\ LET t == IF query[q].waits = {4} THEN 6 ELSE First(query[q].waits)
       IN  /\ query[q].ctx \/ t \in query[q].heard
           /\ query' = [query EXCEPT ![q].waits = IF @ = {4} THEN {} ELSE @ \ {t}]
    /\ UNCHANGED <<kind, now, ips, requests, serial, wire, landed, cleaner>>

\* The goroutine that takes one message per type, in order, and then closes done.  Nobody
\* looks at done, or at the context, before the query waits, so neither has to change earlier.
Waiter(q) ==
    /\ query[q].pc = "wait"
    /\ query[q].waits # {}
    /\ query[q].ctx \/ First(query[q].waits) \in query[q].heard
    /\ query' = [query EXCEPT ![q].waits = @ \ {First(@)}]
    /\ UNCHANGED <<kind, now, ips, requests, serial, wire, landed, cleaner>>

\* The select at the end of the loop; done stays closed.
Wait(q) ==
    /\ query[q].pc = "wait"
    /\ \/ query[q].ctx /\ query' = [query EXCEPT ![q] = Idle]
       \/ query[q].waits = {} /\ query' = [query EXCEPT ![q].pc = "find"]
    /\ UNCHANGED <<kind, now, ips, requests, serial, wire, landed, cleaner>>

\* The context of the query ends: four seconds are over, or the caller gave up.
CtxDone(q) ==
    /\ query[q].pc = "wait"
    /\ ~query[q].ctx
    /\ query' = [query EXCEPT ![q].ctx = TRUE]
    /\ UNCHANGED <<kind, now, ips, requests, serial, wire, landed, cleaner>>

-----------------------------------------------------------------------------
(* Answers. *)

Answer(m, says, ttl) ==
    [says |-> says, exp |-> now + ttl, dom |-> m.dom, type |-> m.type]

\* HandleResponse over UDP: the id selects the request, which is then no longer pending.
\* The server may answer a request again, so it stays on the wire.  One goroutine, that of
\* the UDP dispatcher's entry, handles one answer after the other.
HandleResponse(m, says, ttl) ==
    /\ kind = "udp"
    /\ landed = {}
    /\ m \in wire
    /\ Id(m.n) \in DOMAIN requests
    /\ LET req == requests[Id(m.n)]
       IN  landed' = landed \cup {[dom |-> req.dom, type |-> req.type, rec |-> Answer(m, says, ttl)]}
    /\ requests' = Without(requests, {Id(m.n)})
    /\ UNCHANGED <<kind, now, ips, serial, wire, query, cleaner>>

\* The goroutine of a request over TCP, HTTPS or QUIC gets its answer, or fails.
Exchange(m, says, ttl) ==
    /\ kind = "stream"
    /\ m \in wire
    /\ wire' = wire \ {m}
    /\ \/ landed' = landed \cup {[dom |-> m.dom, type |-> m.type, rec |-> Answer(m, says, ttl)]}
       \/ UNCHANGED landed
    /\ UNCHANGED <<kind, now, ips, requests, serial, query, cleaner>>

\* updateIP: the record with the later expiry stays; subscribers hear of either.
\* The cleaner is started unless it runs.
UpdateIP(a) ==
    /\ a \in landed
    /\ landed' = landed \ {a}
    /\ LET old == [t \in Types |-> Record(a.dom, t)]
       IN  ips' = IF Newer(old[a.type], a.rec)
                  THEN With(ips, a.dom, [old EXCEPT ![a.type] = a.rec]) ELSE ips
    /\ query' = [q \in Queriers |->
          IF query[q].pc # "idle" /\ query[q].dom = a.dom /\ a.type \in query[q].subs
          THEN [query[q] EXCEPT !.heard = @ \cup {a.type}]
          ELSE query[q]]
    /\ cleaner' = TRUE
    /\ UNCHANGED <<kind, now, requests, serial, wire>>

\* Cleanup stops the cleaner when there is nothing left.
Cleanup ==
    /\ cleaner
    /\ LET kept(d) == [t \in Types |-> IF Valid(ips[d][t]) THEN ips[d][t] ELSE NoRec]
           live == {d \in DOMAIN ips : \E t \in Types : Valid(ips[d][t])}
       IN  ips' = [d \in live |-> kept(d)]
    /\ requests' = Without(requests, {i \in DOMAIN requests : requests[i].exp < now})
    /\ cleaner' = (ips # Empty \/ requests # Empty)
    /\ UNCHANGED <<kind, now, serial, wire, landed, query>>

Tick ==
    /\ now < MaxTime
    /\ now' = now + 1
    /\ UNCHANGED <<kind, ips, requests, serial, wire, landed, query, cleaner>>

\* What goroutine q, and the one that waits for it, do by themselves.
Goroutine(q) == Subscribe(q) \/ Send(q) \/ Find(q) \/ Wait(q)

Next ==
    \/ \E q \in Queriers : \/ Goroutine(q)
                           \/ Waiter(q)
                           \/ CtxDone(q)
                           \/ \E d \in Names, opt \in Options : QueryIP(q, d, opt)
    \/ \E m \in wire, says \in Answers, ttl \in TTLs :
          HandleResponse(m, says, ttl) \/ Exchange(m, says, ttl)
    \/ \E a \in landed : UpdateIP(a)
    \/ Cleanup
    \/ Tick

Spec == Init /\ [][Next]_vars

\* Goroutines are scheduled; select does not ignore the end of the context for ever.  No
\* answer has to come, and no context has to end.
Fairness ==
    /\ \A q \in Queriers :
          /\ WF_vars(Goroutine(q))
          /\ WF_vars(Waiter(q))
          /\ SF_vars(Wait(q) /\ query'[q].pc = "idle")

FairSpec == Spec /\ Fairness

-----------------------------------------------------------------------------
\* A cached record is the answer to a question about its own domain and type, however
\* answers are delayed, repeated or reordered, as long as the ids have not come round: the
\* answer itself is never compared with the question.
RecordsBelong ==
    (kind = "stream" \/ serial <= IdSpace) =>
       \A d \in DOMAIN ips : \A t \in Types :
          ips[d][t] # NoRec => ips[d][t].dom = d /\ ips[d][t].type = t

\* A query that was told of an answer of each of its types returns without waiting for
\* the end of its context, unless one of the records expires before it is read: no answer
\* slips through between the subscription, the request and the reading of the cache.
Told(q) ==
    /\ query[q].pc \in {"find", "wait"}
    /\ query[q].heard = query[q].opt
    /\ \A t \in query[q].opt : Valid(Record(query[q].dom, t))

AnsweredQueryEnds(q) == []<>~Told(q)

=============================================================================
