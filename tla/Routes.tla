------------------------------- MODULE Routes -------------------------------
(***************************************************************************)
(* What a connection meets on its way to an outbound: the sniffing         *)
(* dispatcher, the pools of fake addresses, the cache of a name server and *)
(* the balancer, side by side.                                             *)
(***************************************************************************)
EXTENDS Integers, Sequences, FiniteSets

CONSTANTS
    MaxChunks, Limit, Deadline, Overrides,                     \* Dispatcher
    Domains, Callers, Pools, MaxPools, MaxCalls,               \* FakeDns
    Names, Queriers, Kinds, Options, IdSpace, MaxRequests,     \* Dns
    Answers, TTLs, MaxTime,
    Tags, Selected, Settings, Weight, SamplingCount, RTTs, Millisecond, MaxChanges   \* Balancer

\* A pool is an interval of addresses that contains the configured first one.
PoolsOK ==
    /\ Pools \subseteq [ip : Nat, net : Nat, size : Nat, lruSize : Nat]
    /\ \A conf \in Pools : conf.net <= conf.ip /\ conf.ip < conf.net + conf.size

\* A query asks for A, for AAAA or for both, and there are request ids.
DnsOK ==
    /\ IdSpace \in Nat \ {0}
    /\ Options \subseteq (SUBSET {4, 6}) \ {{}}

\* Finitely many outbounds with tags in their order, what they cost, and the protobuf integers
\* of the configuration; rings are not empty.
BalancerOK ==
    /\ IsFiniteSet(Tags) /\ Tags \subseteq Int /\ Selected \subseteq Tags
    /\ \A s \in Settings : s.expected \in Int /\ s.baselines \in Seq(Int)
    /\ Weight \in [Tags -> Nat]
    /\ SamplingCount \in Nat \ {0}
    /\ RTTs \subseteq Nat /\ Millisecond \in Nat \ {0}

ASSUME RoutesAssumption == PoolsOK /\ DnsOK /\ BalancerOK

VARIABLES
    request, written, uplink, upState, downState, cache, pc, sniffers, loop, ctx, target,
    got,                                                       \* Dispatcher
    holders, call, calls,                                      \* FakeDns
    kind, now, ips, requests, serial, wire, landed, query, cleaner,  \* Dns
    setting, handlers, default, override, changes, results, route    \* Balancer

S == INSTANCE Dispatcher
F == INSTANCE FakeDns
D == INSTANCE Dns
Bal == INSTANCE Balancer

\* Dns: a cached record answers a question about its own domain and type.
RecordsBelong == D!RecordsBelong
\* FakeDns: an address given out leads back to the domain that got it, and to no other.
AddressesUnique == F!AddressesUnique
\* Dispatcher: an address that fakedns knows is replaced if the inbound asks for it.
FakeAddressReplaced == S!FakeAddressReplaced
\* Balancer: least load selects what its documentation says.
LeastLoadAsDocumented == Bal!LeastLoadAsDocumented

=============================================================================
