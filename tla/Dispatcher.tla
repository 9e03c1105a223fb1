----------------------------- MODULE Dispatcher -----------------------------
(***************************************************************************)
(* app/dispatcher: one connection from the inbound's Dispatch to the       *)
(* outbound.  If the inbound asks for it, the first data is sniffed before *)
(* the connection is routed, so that a rule, and the outbound, may see the *)
(* domain instead of the address; what was read for that is kept in a      *)
(* cachedReader in front of the uplink pipe.                               *)
(*                                                                         *)
(* The pipes are used through what Pipe establishes (a FIFO, drained after *)
(* Close, dropped by Interrupt).  A chunk is what one write of the inbound *)
(* carries; what the protocol sniffers make of the bytes is a free choice. *)
(* deadline counts in steps in which the clock moved.                      *)
(***************************************************************************)
EXTENDS Naturals, Sequences, SequencesExt

CONSTANTS
    MaxChunks,      \* bound: writes of the inbound
    Limit,          \* limit of the uplink pipe, in chunks
    Deadline,       \* cacheDeadline, 200 ms in the code
    Overrides       \* the lists of OverrideDestinationForProtocol to choose from, as sets

VARIABLES
    request,    \* what the inbound asks for; it does not change
    written,    \* chunks the inbound wrote, in order
    uplink,     \* chunks in the uplink pipe
    upState,    \* "open", "closed" or "errord"
    downState,  \* of the downlink pipe
    cache,      \* cachedReader.cache
    pc,         \* of Dispatch's goroutine: "sniff", "route", "serve" or "end"
    sniffers,   \* Sniffer.sniffer, those for this network that look at content
    loop,       \* the sniffing loop: payload read yet, failed attempts, time left
    ctx,        \* is the context alive
    target,     \* the destination the outbound will see
    got         \* chunks the outbound read, in order

vars == <<request, written, uplink, upState, downState, cache, pc, sniffers, loop, ctx,
          target, got>>

\* The content sniffers in their order.  That of fakedns+others has no network and is never
\* asked (sniffer.go:65).
SniffersFor(network) ==
    IF network = "tcp" THEN <<"http", "tls", "bittorrent">> ELSE <<"quic", "utp">>

\* Dispatch and getLink: fake says whether the address is one that fakedns knows: that it
\* gave out and has not evicted since, when the metadata is sniffed.
Init ==
    /\ request \in [network : {"tcp", "udp"}, sniffing : BOOLEAN, metadataOnly : BOOLEAN,
                    fake : BOOLEAN, override : Overrides]
    /\ ~request.sniffing => request.override = {} /\ ~request.metadataOnly
    /\ written = <<>> /\ got = <<>> /\ uplink = <<>> /\ cache = <<>>
    /\ upState = "open" /\ downState = "open"
    /\ pc = IF request.sniffing THEN "sniff" ELSE "route"
    /\ sniffers = SniffersFor(request.network)
    /\ loop = [payload |-> FALSE, totalAttempt |-> 0, deadline |-> Deadline]
    /\ ctx = TRUE
    /\ target = "address"

-----------------------------------------------------------------------------
(* Results of sniffing: a protocol, a domain or "", and the protocol that the domain is
   from, which is another one only in a composite result. *)

Err == [protocol |-> "error", domain |-> "", from |-> "error"]

MetaResult == IF request.fake
              THEN [protocol |-> "fakedns", domain |-> "fakedomain", from |-> "fakedns"]
              ELSE Err

\* BitTorrent has no domain.
ContentResult(p) ==
    [protocol |-> p, domain |-> IF p \in {"http", "tls", "quic"} THEN "sniffed" ELSE "", from |-> p]

\* Mutant: the protocol of the whole result decides, not that of its domain.
CompositeResultByContent(meta, content) ==
    [protocol |-> content.protocol, domain |-> meta.domain, from |-> content.protocol]
CompositeResult(meta, content) ==
    [protocol |-> content.protocol, domain |-> meta.domain, from |-> meta.from]

\* The end of sniffer(): a domain of fakedns prevails over that in the content.
Combine(meta, content) ==
    IF content = Err THEN meta
    ELSE IF meta = Err THEN content
    ELSE CompositeResult(meta, content)

shouldOverride(result) == result.domain # "" /\ result.from \in request.override

\* Sniff with these verdicts of the sniffers: the first that matches or wants more data
\* decides, otherwise those without a clue stay.
Deciders(verdict) == SelectSeq(sniffers, LAMBDA s : verdict[s] \in {"match", "more"})
Clueless(verdict) == SelectSeq(sniffers, LAMBDA s : verdict[s] = "noclue")

-----------------------------------------------------------------------------
(* The goroutine of Dispatch. *)

\* Sniffing is over; domain is what strmatcher.ToDomain makes of a sniffed name, which may
\* be none.
Finish(content) ==
    LET result == Combine(MetaResult, content)
    IN  /\ pc' = "route"
        /\ IF shouldOverride(result)
           THEN \/ target' = result.domain
                \/ result.domain = "sniffed" /\ UNCHANGED target
           ELSE UNCHANGED target

SniffMetadata ==
    /\ pc = "sniff" /\ request.metadataOnly
    /\ Finish(Err)
    /\ UNCHANGED <<request, written, uplink, upState, downState, cache, sniffers, loop, ctx, got>>

CtxDone ==
    /\ pc = "sniff" /\ ~request.metadataOnly /\ ~ctx
    /\ Finish(Err)
    /\ UNCHANGED <<request, written, uplink, upState, downState, cache, sniffers, loop, ctx, got>>

\* The rest of an iteration, after Cache: failed if it returned an error, time is what is
\* left of the deadline.
Iterate(failed, payload, time) ==
    LET Continue(attempts) ==
          IF attempts >= 2 \/ time = 0
          THEN Finish(Err) /\ loop' = [payload |-> payload, totalAttempt |-> attempts, deadline |-> time]
          ELSE /\ loop' = [payload |-> payload, totalAttempt |-> attempts, deadline |-> time]
               /\ UNCHANGED <<pc, target>>
    IN  IF ~payload
        THEN Continue(loop.totalAttempt) /\ UNCHANGED sniffers
        ELSE \E verdict \in [ToSet(sniffers) -> {"match", "more", "noclue", "no"}] :
               IF Deciders(verdict) # <<>>
               THEN LET s == Head(Deciders(verdict))
                    IN  IF verdict[s] = "match"
                        THEN Finish(ContentResult(s)) /\ UNCHANGED <<loop, sniffers>>
                        ELSE /\ sniffers' = <<s>>
                             /\ Continue(loop.totalAttempt + (IF failed THEN 1 ELSE 0))
               ELSE IF Clueless(verdict) # <<>>
               THEN sniffers' = Clueless(verdict) /\ Continue(loop.totalAttempt + 1)
               ELSE Finish(Err) /\ UNCHANGED <<loop, sniffers>>

\* Cache finds data, or gets it before the deadline, puts it behind what it read before,
\* and the sniffers are asked.  An iteration may outlive the context it was begun in.
\* Mutant: what was read before is forgotten.
CacheReplaces(data) == data
Merge(data) == cache \o data

SniffData ==
    /\ pc = "sniff" /\ ~request.metadataOnly
    /\ uplink # <<>>
    /\ cache' = Merge(uplink)
    /\ uplink' = <<>>
    /\ \E time \in 0..loop.deadline : Iterate(FALSE, TRUE, time)
    /\ UNCHANGED <<request, written, upState, downState, ctx, got>>

\* Cache times out, or fails at once because the pipe was shut: then the loop goes round
\* until the time is over, or the sniffers give up the data that there is.
SniffNothing ==
    /\ pc = "sniff" /\ ~request.metadataOnly
    /\ uplink = <<>>
    /\ \E time \in 0..loop.deadline :
          /\ upState = "open" => time = 0
          /\ Iterate(TRUE, loop.payload, time)
    /\ UNCHANGED <<request, written, uplink, upState, downState, cache, ctx, got>>

\* Interrupt of the uplink pipe, which has no effect on one that was closed.
InterruptPipe ==
    IF upState = "open" THEN upState' = "errord" /\ uplink' = <<>>
                        ELSE UNCHANGED <<upState, uplink>>

\* common.Interrupt on the link's reader: the cache is dropped in any case.
InterruptUplink == cache' = <<>> /\ InterruptPipe

\* routedDispatch without a handler: a forced tag that does not exist, or no default.
RouteNowhere ==
    /\ pc = "route"
    /\ downState' = IF downState = "open" THEN "closed" ELSE downState
    /\ InterruptUplink
    /\ pc' = "end"
    /\ UNCHANGED <<request, written, sniffers, loop, ctx, target, got>>

\* routedDispatch hands the link to a handler; which one, is in Balancer.
RouteToHandler ==
    /\ pc = "route"
    /\ pc' = "serve"
    /\ UNCHANGED <<request, written, uplink, upState, downState, cache, sniffers, loop, ctx,
                   target, got>>

\* The outbound reads: first from the cache.
Read ==
    /\ pc = "serve"
    /\ IF cache # <<>>
       THEN got' = got \o cache /\ cache' = <<>> /\ UNCHANGED uplink
       ELSE uplink # <<>> /\ got' = got \o uplink /\ uplink' = <<>> /\ UNCHANGED cache
    /\ UNCHANGED <<request, written, upState, downState, pc, sniffers, loop, ctx, target>>

\* Process returns, with an error or not, and Handler.Dispatch shuts the link.
HandlerEnds ==
    /\ pc = "serve"
    /\ downState' \in IF downState = "open" THEN {"closed", "errord"} ELSE {downState}
    /\ InterruptUplink
    /\ pc' = "end"
    /\ UNCHANGED <<request, written, sniffers, loop, ctx, target, got>>

-----------------------------------------------------------------------------
(* The inbound. *)

Write ==
    /\ upState = "open" /\ Len(uplink) <= Limit /\ Len(written) < MaxChunks
    /\ written' = Append(written, Len(written) + 1)
    /\ uplink' = Append(uplink, Len(written) + 1)
    /\ UNCHANGED <<request, upState, downState, cache, pc, sniffers, loop, ctx, target, got>>

CloseWriter ==
    /\ upState = "open"
    /\ upState' = "closed"
    /\ UNCHANGED <<request, written, uplink, downState, cache, pc, sniffers, loop, ctx, target, got>>

\* The inbound gives up: it interrupts both directions and its context ends.
GiveUp ==
    /\ ctx
    /\ ctx' = FALSE
    /\ InterruptPipe
    /\ downState' = IF downState = "open" THEN "errord" ELSE downState
    /\ UNCHANGED <<request, written, cache, pc, sniffers, loop, target, got>>

Sniffing == SniffMetadata \/ CtxDone \/ SniffData \/ SniffNothing

Next ==
    \/ Sniffing
    \/ RouteNowhere \/ RouteToHandler \/ Read \/ HandlerEnds
    \/ Write \/ CloseWriter \/ GiveUp

Spec == Init /\ [][Next]_vars

\* Goroutines run, the clock moves, and an outbound goes on reading while it serves.
Fairness ==
    /\ WF_vars(Sniffing)
    /\ WF_vars(RouteNowhere \/ RouteToHandler)
    /\ WF_vars(Read)

FairSpec == Spec /\ Fairness

-----------------------------------------------------------------------------
\* An address that fakedns knows is never what the outbound sees if the inbound asks for
\* the override of fakedns, whatever the sniffers find in the content, or fail to find, and
\* whenever the context ends.
FakeAddressReplaced ==
    (pc = "serve" /\ request.sniffing /\ request.fake /\ "fakedns" \in request.override)
       => target = "fakedomain"

\* What the inbound writes reaches the outbound, once and in order, through the cache or
\* past it, unless one of them gives the connection up; in particular sniffing ends, also if
\* no data comes, or the inbound closes at once.
\* What the outbound got is only ever extended, so what is not a prefix stays so.
Served == IsPrefix(got, written) /\ (got = written \/ upState = "errord" \/ pc = "end")
LinkDelivers == <>[]Served

=============================================================================
