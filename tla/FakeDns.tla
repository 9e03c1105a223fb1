------------------------------ MODULE FakeDns -------------------------------
(***************************************************************************)
(* app/dns/fakedns/fake.go on common/cache/lru.go: pools of fake addresses *)
(* that are given to domains on demand and taken back by an LRU cache.     *)
(*                                                                         *)
(* A holder serves GetFakeIPForDomain under its own mutex, but a lookup in *)
(* the other direction takes only the lock of the cache, so it may reorder *)
(* the cache in the middle of the search for a free address.  An address   *)
(* is a number, a pool an interval of numbers.  An element of the list is  *)
(* known by its key, which never changes.                                  *)
(***************************************************************************)
EXTENDS Naturals, Sequences, FiniteSets

CONSTANTS
    Domains,    \* domain names
    Callers,    \* goroutines that resolve names
    Pools,      \* the configured pools: [ip, net, size, lruSize], net <= ip < net + size
    MaxPools,   \* bound: holders of a HolderMulti
    MaxCalls    \* bound: calls of GetFakeIPForDomain

VARIABLES
    holders,    \* h.holders, in the order they were added
    call,       \* call[c]: what caller c is doing
    calls       \* calls so far

vars == <<holders, call, calls>>

Idle == [pc |-> "idle"]

Init ==
    /\ holders = <<>>
    /\ call = [c \in Callers |-> Idle]
    /\ calls = 0

-----------------------------------------------------------------------------
(* The cache. *)

InRange(h, ip) == h.conf.net <= ip /\ ip < h.conf.net + h.conf.size

Without(f, x) == [y \in DOMAIN f \ {x} |-> f[y]]

With(f, x, v) == [y \in DOMAIN f \cup {x} |-> IF y = x THEN v ELSE f[y]]

\* list.MoveToFront
ToFront(s, k) ==
    LET p == CHOOSE i \in 1..Len(s) : s[i] = k
    IN  [i \in 1..Len(s) |-> IF i = 1 THEN k ELSE IF i <= p THEN s[i - 1] ELSE s[i]]

\* Get and GetKeyFromValue both count as a use of the element that they find.
Touch(h, k) == [h EXCEPT !.list = ToFront(h.list, k)]

\* Mutant: the address of an evicted element stays in valueToElement under its key.
PutForgetsValue(h, k, ip) ==
    LET full == Len(h.list) >= h.conf.lruSize
        old == h.list[Len(h.list)]
    IN  [h EXCEPT !.list = <<k>> \o (IF full THEN SubSeq(h.list, 1, Len(h.list) - 1) ELSE h.list),
                  !.ipOf = With(IF full THEN Without(h.ipOf, old) ELSE h.ipOf, k, ip),
                  !.nameOf = With(h.nameOf, ip, k)]

\* Put of a key that is not cached, the only one GetFakeIPForDomain can do: keyToElement
\* and valueToElement both get the new element and lose the one at the back.
Put(h, k, ip) ==
    LET full == Len(h.list) >= h.conf.lruSize
        old == h.list[Len(h.list)]
    IN  [h EXCEPT !.list = <<k>> \o (IF full THEN SubSeq(h.list, 1, Len(h.list) - 1) ELSE h.list),
                  !.ipOf = With(IF full THEN Without(h.ipOf, old) ELSE h.ipOf, k, ip),
                  !.nameOf = With(IF full THEN Without(h.nameOf, h.ipOf[old]) ELSE h.nameOf, ip, k)]

-----------------------------------------------------------------------------
(* HolderMulti.AddPool and Start. *)

Empty == [x \in {} |-> x]

NewHolder(conf) ==
    [conf |-> conf, up |-> FALSE, next |-> 0, list |-> <<>>, ipOf |-> Empty, nameOf |-> Empty]

\* Mutant: a cache as large as the pool is accepted.
InitializeFull(h) ==
    IF h.conf.lruSize = 0 \/ h.conf.lruSize > h.conf.size
    THEN h ELSE [NewHolder(h.conf) EXCEPT !.up = TRUE, !.next = h.conf.ip]

\* Holder.Start and initialize: the pool must be larger than the cache.  The first
\* address is the one the configuration names, which need not be the first of the pool.
Initialize(h) ==
    IF h.conf.lruSize = 0 \/ h.conf.lruSize >= h.conf.size
    THEN h ELSE [NewHolder(h.conf) EXCEPT !.up = TRUE, !.next = h.conf.ip]

Running == \E i \in DOMAIN holders : holders[i].up

Overlaps(a, b) ==
    \/ a.net <= b.net /\ b.net < a.net + a.size
    \/ b.net <= a.net /\ a.net < b.net + b.size

\* A pool with the range of an old one is that one; one that overlaps is refused, and so
\* is one that cannot start when the others have.  All refusals leave h.holders alone.
AddPool(conf) ==
    /\ Len(holders) < MaxPools
    /\ \A i \in DOMAIN holders : ~Overlaps(holders[i].conf, conf)
    /\ LET h == IF Running THEN Initialize(NewHolder(conf)) ELSE NewHolder(conf)
       IN  /\ Running => h.up
           /\ holders' = Append(holders, h)
    /\ UNCHANGED <<call, calls>>

\* HolderMulti.Start stops at the first holder that fails; the instance then does not run.
Start ==
    /\ ~Running
    /\ holders # <<>>
    /\ \A i \in DOMAIN holders : Initialize(holders[i]).up
    /\ holders' = [i \in DOMAIN holders |-> Initialize(holders[i])]
    /\ UNCHANGED <<call, calls>>

-----------------------------------------------------------------------------
(* GetFakeIPForDomain of HolderMulti: one holder after the other. *)

Call(c, d) ==
    /\ call[c].pc = "idle"
    /\ Running
    /\ calls < MaxCalls
    /\ calls' = calls + 1
    /\ call' = [call EXCEPT ![c] = [pc |-> "get", dom |-> d, at |-> 1, last |-> Len(holders)]]
    /\ UNCHANGED holders

\* fkdns.mu of holder i
Locked(i) == \E c \in Callers : call[c].pc \in {"scan", "put"} /\ call[c].at = i

\* The caller goes on to the next holder, or returns after the last one.
Advance(c) ==
    IF call[c].at = call[c].last THEN Idle
    ELSE [pc |-> "get", dom |-> call[c].dom, at |-> call[c].at + 1, last |-> call[c].last]

Get(c) ==
    /\ call[c].pc = "get"
    /\ ~Locked(call[c].at)
    /\ LET i == call[c].at
           d == call[c].dom
       IN  IF d \in DOMAIN holders[i].ipOf
           THEN /\ holders' = [holders EXCEPT ![i] = Touch(@, d)]
                /\ call' = [call EXCEPT ![c] = Advance(c)]
           ELSE /\ call' = [call EXCEPT ![c].pc = "scan"]
                /\ UNCHANGED holders
    /\ UNCHANGED calls

\* The address after nextIP, at the end of the pool its first one.
Successor(h) == IF InRange(h, h.next + 1) THEN h.next + 1 ELSE h.conf.net

Found(r, ip) == [pc |-> "put", dom |-> r.dom, at |-> r.at, last |-> r.last, ip |-> ip]

\* One turn of the loop; an address in use moves its element to the front.
Scan(c) ==
    /\ call[c].pc = "scan"
    /\ LET i == call[c].at
           h == holders[i]
           moved == [h EXCEPT !.next = Successor(h)]
       IN  IF h.next \in DOMAIN h.nameOf
           THEN /\ holders' = [holders EXCEPT ![i] = Touch(moved, h.nameOf[h.next])]
                /\ UNCHANGED call
           ELSE /\ holders' = [holders EXCEPT ![i] = moved]
                /\ call' = [call EXCEPT ![c] = Found(@, h.next)]
    /\ UNCHANGED calls

PutFound(c) ==
    /\ call[c].pc = "put"
    /\ holders' = [holders EXCEPT ![call[c].at] = Put(@, call[c].dom, call[c].ip)]
    /\ call' = [call EXCEPT ![c] = Advance(c)]
    /\ UNCHANGED calls

\* GetDomainFromFakeDNS, without fkdns.mu: only the holder of the address finds it.
LookUp(i, ip) ==
    /\ holders[i].up
    /\ InRange(holders[i], ip)
    /\ ip \in DOMAIN holders[i].nameOf
    /\ holders' = [holders EXCEPT ![i] = Touch(@, holders[i].nameOf[ip])]
    /\ UNCHANGED <<call, calls>>

Resolve(c) == Get(c) \/ Scan(c) \/ PutFound(c)

Next ==
    \/ \E conf \in Pools : AddPool(conf)
    \/ Start
    \/ \E c \in Callers : Resolve(c) \/ \E d \in Domains : Call(c, d)
    \/ \E i \in DOMAIN holders : \E ip \in DOMAIN holders[i].nameOf : LookUp(i, ip)

Spec == Init /\ [][Next]_vars

\* Goroutines are scheduled.
Fairness == \A c \in Callers : WF_vars(Resolve(c))

FairSpec == Spec /\ Fairness

-----------------------------------------------------------------------------
\* Every address that is given out resolves to the domain that got it: it lies in the
\* pool that GetDomainFromFakeDNS searches, valueToElement and keyToElement agree, two
\* domains never share an address, within a pool or across the pools, and the list holds
\* exactly the cached domains, once each, and no more than the cache may hold.
AddressesUnique ==
    /\ \A i \in DOMAIN holders :
          LET h == holders[i]
          IN  /\ DOMAIN h.nameOf = {h.ipOf[d] : d \in DOMAIN h.ipOf}
              /\ \A d \in DOMAIN h.ipOf : h.nameOf[h.ipOf[d]] = d /\ InRange(h, h.ipOf[d])
              /\ DOMAIN h.ipOf = {h.list[n] : n \in DOMAIN h.list}
              /\ Len(h.list) = Cardinality(DOMAIN h.ipOf)
              /\ h.up => Len(h.list) <= h.conf.lruSize
    /\ \A i, j \in DOMAIN holders :
          i # j => DOMAIN holders[i].nameOf \cap DOMAIN holders[j].nameOf = {}

\* The search for a free address ends, and with it every call, though it holds the lock
\* of the holder and other goroutines keep looking addresses up: a pool with more
\* addresses than the cache always has one that is free.
CallReturns(c) == []<>(call[c].pc = "idle")

=============================================================================
