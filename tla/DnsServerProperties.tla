------------------------- MODULE DnsServerProperties -------------------------
(***************************************************************************)
(* What the DNS server must get right, stated over the steps of DnsServer, *)
(* and how those steps implement QueryContract.                            *)
(***************************************************************************)
EXTENDS DnsServer

\* The rule mutex is queued for once per wait, and exactly by the requests that
\* are at one of its two lock().await points: none holds it while it logs,
\* looks up the cache, waits for an upstream or sends.
LockDiscipline ==
    /\ NoneTwice
    /\ \A q \in Query : Queued(q) <=> pc[q] \in {"verdict", "local"}

\* Every cached message has come through the filter: it is the answer some request
\* for that domain got from the upstream that the rules named when they judged it,
\* and they did not block it.  No local mapping, refusal or SERVFAIL made by the
\* engine is remembered, so neither an outage nor a rule outlives itself in the
\* cache, whatever changes the rules between the verdict and the put.
CacheIsUpstreams ==
    \A k \in Cached :
        \E q \in Query :
            /\ ask[q] # NoAsk /\ ask[q].dom = k
            /\ ~held[q].blocked
            /\ reply[q] = cache[k]
            /\ cache[k] = Resolved(AnswerTo(ask[q], held[q].upstream))

\* The cache never holds more than its capacity, and its recency is a strict
\* total order of the keys it holds, so that there is always one entry to evict.
CacheIsLru ==
    /\ Cardinality(Cached) <= Capacity
    /\ older \subseteq Cached \X Cached
    /\ \A j, k \in Cached : j # k => (<<j, k>> \in older <=> <<k, j>> \notin older)
    /\ \A k \in Cached : <<k, k>> \notin older
    /\ \A i, j, k \in Cached :
           <<i, j>> \in older /\ <<j, k>> \in older => <<i, k>> \in older

\* The log and the answers tell the same story although they are written at
\* different times, under two separate acquisitions of the lock: a request
\* logged as blocked is never answered by an upstream, and one logged as allowed
\* is never refused.
LogAgreesWithAnswer ==
    \A q \in Query : log[q] # NoRow =>
        /\ log[q].blocked => reply[q].kind \in {"none", "local", "blocked"}
        /\ ~log[q].blocked => reply[q].kind # "blocked"

\* README.md:65 of the privacy level "Anonymous": "Masks sensitive domains and
\* client IDs in logs."
AnonymousMasksClient ==
    \A q \in Query :
        log[q] # NoRow /\ log[q].domain = Hidden => log[q].client # ask[q].client

\* The cache is keyed by the domain alone, so a query can be given a message of
\* another record type than its own.  It never happens out of the blue: another
\* request for the same domain asked for that very type.
OtherTypeWasAskedFor ==
    \A q \in Query :
        reply[q].kind = "resolved" /\ reply[q].answer.qtype # ask[q].qtype =>
            \E r \in Query \ {q} :
                /\ ask[r] # NoAsk
                /\ ask[r].dom = ask[q].dom
                /\ ask[r].qtype = reply[q].answer.qtype

\* Requests that got past the filter, and so looked the cache up.
LookedUp ==
    {q \in Query : pc[q] \in {"forward", "put"} \/ reply[q].kind \in {"resolved", "servfail"}}

\* get_performance_stats divides hits by hits + misses: each request that got
\* past the filter is in exactly one of the two, no other request is in either,
\* and neither the per-second nor the lookup count exceeds the total.
LookupsCountedOnce ==
    /\ metrics.hits + metrics.misses = Cardinality(LookedUp)
    /\ metrics.hits + metrics.misses <= metrics.total
    /\ metrics.last <= metrics.total

\* Every datagram's task comes to an end while the server is up: no request
\* waits for ever for the rules, the cache or its upstream.
EveryRequestEnds ==
    \A q \in Query : pc[q] # "idle" ~> (pc[q] = "done" \/ server = "down")

-----------------------------------------------------------------------------
(***************************************************************************)
(* The refinement mapping: how far a request is in QueryContract.          *)
(***************************************************************************)

StageOf(q) ==
    IF ask[q] = NoAsk THEN "open"
    ELSE CASE pc[q] = "verdict"              -> "asked"
           [] pc[q] \in {"log", "local"}     -> "judged"
           [] pc[q] \in {"cache", "forward"} -> "passed"
           [] OTHER                          -> "answered"

Stages == [q \in Query |-> StageOf(q)]

Verdicts == [q \in Query |-> [blocked |-> held[q].blocked, why |-> held[q].why,
                             privacy |-> held[q].privacy]]

Replies == [q \in Query |-> IF ask[q] = NoAsk THEN NoReply ELSE reply[q]]

Contract ==
    INSTANCE QueryContract WITH
        asked <- ask, stage <- Stages, judged <- Verdicts, reply <- Replies

\* The server keeps the contract: the verdict, the privacy level and then the
\* route are each taken from the rules of one instant, in that order, the log
\* records that verdict at that level, and nothing judged blocked is ever
\* answered from the cache or by an upstream.
KeepsContract == Contract!Spec

=============================================================================
